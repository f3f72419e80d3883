---------------------------- MODULE BackupProofs ----------------------------
(***************************************************************************)
(* What backups promise, for any number of backups and data directories:   *)
(* a settled backup is whole and never written again, and a restore brings *)
(* everything back.                                                        *)
(***************************************************************************)
EXTENDS Backup, TLAPS

Dumping(i) == jobs[i].dump \in {"start", "run"}
Copying(i) == jobs[i].copy \in {"stat", "run"}

\* How far the two tasks of a creation that nothing disturbed have come.
Progress(i) ==
    LET job == jobs[i]
        d == dirs[i]
    IN /\ LiveWhole /\ ~Restoring
       /\ job.dump = "run" => d.sql = "part"
       /\ job.dump = "done" => d.sql = "whole"
       /\ Copying(i) => \A k \in Items : k < job.item => d.data[k] = "whole"
       /\ job.copy = "run" => d.data[job.item] = "part"
       /\ job.copy = "done" => \A k \in Items : d.data[k] = "whole"

\* Who creates has the mutex; a task left behind finds its directory removed,
\* or made again without metadata.
JobInv(i) ==
    /\ jobs[i].pc # "off" => mutex = i
    /\ jobs[i].pc # "off" \/ Dumping(i) \/ Copying(i) \/ Has(i) => i < nextId
    /\ jobs[i].pc = "cmd" => ~Has(i)
    /\ jobs[i].pc \in {"cmd", "zip"} => ~Dumping(i) /\ ~Copying(i)
    /\ Dumping(i) \/ Copying(i) => jobs[i].pc = "tasks" \/ ~Listed(i)
    /\ Has(i) /\ Dumping(i) => dirs[i].zip = "none"
    /\ Has(i) /\ dirs[i].zip = "whole" => dirs[i].sql = "none"
    /\ Listed(i) /\ dirs[i].clean =>
         /\ i # mutex => Whole(dirs[i])
         /\ jobs[i].pc = "tasks" => Progress(i)
         /\ jobs[i].pc = "zip" => /\ dirs[i].sql = "whole"
                                  /\ \A k \in Items : dirs[i].data[k] = "whole"

Restored == [is |-> "whole", new |-> TRUE]

\* The dump to load is there, or is being unpacked.
Loadable == Dump = "whole" \/ (~Plain /\ restore.id \in writing)

\* How far a restore of a whole backup has come.
RestoreInv ==
    /\ restore.pc \in {"cmd", "unzip", "migrate"} =>
         restore.db = "off" /\ restore.data = "off"
    /\ restore.sound =>
         /\ Listed(restore.id) /\ restore.id # mutex /\ Whole(dirs[restore.id])
         /\ restore.pc = "tasks" =>
              /\ restore.db \in {"empty", "load"} => Loadable
              /\ restore.db = "load" => live.db.new
              /\ restore.db \in {"mark", "done"} => live.db = Restored
              /\ \A k \in Items :
                   restore.data = "done" \/ k < restore.item => live.data[k] = Restored
              /\ restore.data \in {"stat", "run"} => live.data[restore.item].new
              /\ restore.data = "stat" => live.data[restore.item].is = "none"
         /\ restore.pc = "migrate" => RestoreGivesAll

IInv == TypeOK /\ (\A i \in Ids : JobInv(i)) /\ RestoreInv
-----------------------------------------------------------------------------
(* Types *)

IsDirs(D) == DOMAIN D \subseteq Ids /\ D \in [DOMAIN D -> Dir]

LEMMA DirsOps ==
    ASSUME IsDirs(dirs)
    PROVE  /\ \A S : IsDirs(Without(S))
           /\ \A i \in Ids, d \in Dir : IsDirs(Put(i, d))
           /\ \A i \in DOMAIN dirs, d \in Dir : IsDirs([dirs EXCEPT ![i] = d])
  <1>1. ASSUME NEW S PROVE IsDirs(Without(S))
    BY DEF IsDirs, Without, Restrict
  <1>2. ASSUME NEW i \in Ids, NEW d \in Dir PROVE IsDirs(Put(i, d))
    BY DEF IsDirs, Put
  <1>3. ASSUME NEW i \in DOMAIN dirs, NEW d \in Dir PROVE IsDirs([dirs EXCEPT ![i] = d])
    BY DEF IsDirs
  <1> QED BY <1>1, <1>2, <1>3

LEMMA RestType ==
    ASSUME NEW job \in Job
    PROVE  /\ Rest(job) \in Job /\ NoJob \in Job
           /\ Rest([job EXCEPT !.pc = "off"]) \in Job
  BY BackupAssumption DEF Rest, Job, NoJob, Items

LEMMA FailsType ==
    ASSUME TypeOK, NEW i \in Ids, NEW job \in Job, Fails(i, job)
    PROVE  IsDirs(dirs') /\ jobs' \in [Ids -> Job] /\ mutex' \in Ids \cup {0}
  <1>1. IsDirs(dirs)
    BY DEF TypeOK, IsDirs
  <1>2. IsDirs(dirs')
    BY <1>1, DirsOps DEF Fails
  <1>3. jobs' \in [Ids -> Job]
    BY RestType DEF Fails, TypeOK
  <1> QED BY <1>2, <1>3 DEF Fails, TypeOK

LEMMA NextItemType ==
    ASSUME TypeOK, NEW i \in Ids, NextItem(i)
    PROVE  jobs' \in [Ids -> Job]
  <1>1. jobs[i] \in Job
    BY DEF TypeOK
  <1>2. [jobs[i] EXCEPT !.copy = "done"] \in Job
    BY <1>1 DEF Job
  <1>3. ASSUME jobs[i].item # LastItem
        PROVE  [jobs[i] EXCEPT !.copy = "stat", !.item = @ + 1] \in Job
    <2>1. jobs[i].item \in Items
      BY <1>1 DEF Job
    <2>2. jobs[i].item + 1 \in Items
      BY <1>3, <2>1, BackupAssumption DEF Items
    <2> QED BY <1>1, <2>2 DEF Job
  <1>4. Rest([jobs[i] EXCEPT !.copy = "done"]) \in Job
    BY <1>2, RestType
  <1>5. (IF jobs[i].item = LastItem THEN Rest([jobs[i] EXCEPT !.copy = "done"])
         ELSE [jobs[i] EXCEPT !.copy = "stat", !.item = @ + 1]) \in Job
    BY <1>3, <1>4
  <1>6. jobs \in [Ids -> Job]
    BY DEF TypeOK
  <1> QED BY <1>5, <1>6 DEF NextItem

\* The tasks of a creation.
LEMMA WorkType ==
    ASSUME TypeOK, NEW i \in Ids, Work(i)
    PROVE  IsDirs(dirs') /\ jobs' \in [Ids -> Job] /\ mutex' \in Ids \cup {0} /\ JobStep
  <1>1. /\ IsDirs(dirs) /\ jobs \in [Ids -> Job] /\ jobs[i] \in Job
        /\ mutex \in Ids \cup {0} /\ NoJob \in Job /\ NoDir \in Dir
    BY BackupAssumption DEF TypeOK, IsDirs, Job, NoJob, Dir, NoDir, Items, Extent
  <1>2. JobStep
    BY DEF Work, Command, DumpStart, DumpEnd, CopyStart, CopyEnd, ZipStart, ZipEnd
  <1>3. Has(i) => dirs[i] \in Dir
    BY <1>1 DEF Has, IsDirs
  <1>4. CASE \E job \in {NoJob, [jobs[i] EXCEPT !.dump = "off"],
                         [jobs[i] EXCEPT !.copy = "off"]} : Fails(i, job)
    <2>1. {NoJob, [jobs[i] EXCEPT !.dump = "off"],
           [jobs[i] EXCEPT !.copy = "off"]} \subseteq Job
      BY <1>1 DEF Job
    <2> QED BY <1>2, <1>4, <2>1, FailsType
  <1>5. CASE Command(i) /\ ~Fails(i, NoJob)
    <2>1. [NoDir EXCEPT !.meta = TRUE, !.clean = LiveWhole /\ ~Restoring] \in Dir
      BY <1>1 DEF Dir, LiveWhole, Restoring
    <2>2. [pc |-> "tasks", dump |-> "start", copy |-> "stat", item |-> 1] \in Job
      BY BackupAssumption DEF Job, Items
    <2> QED BY <1>1, <1>2, <1>5, <2>1, <2>2, DirsOps DEF Command
  <1>6. CASE DumpStart(i) /\ ~Fails(i, [jobs[i] EXCEPT !.dump = "off"])
    <2>1. Has(i) => [dirs[i] EXCEPT !.sql = "part"] \in Dir
      BY <1>3 DEF Dir, Extent
    <2>2. [jobs[i] EXCEPT !.dump = "run"] \in Job
      BY <1>1 DEF Job
    <2> QED BY <1>1, <1>2, <1>6, <2>1, <2>2, DirsOps DEF DumpStart, Has
  <1>7. CASE DumpEnd(i) /\ ~Fails(i, [jobs[i] EXCEPT !.dump = "off"])
    <2>1. Has(i) => [dirs[i] EXCEPT !.sql = "whole"] \in Dir
      BY <1>3 DEF Dir, Extent
    <2>2. Rest([jobs[i] EXCEPT !.dump = "done"]) \in Job
      <3>1. [jobs[i] EXCEPT !.dump = "done"] \in Job
        BY <1>1 DEF Job
      <3> QED BY <3>1, RestType
    <2> QED BY <1>1, <1>2, <1>7, <2>1, <2>2, DirsOps DEF DumpEnd, Has
  <1>8. CASE CopyStart(i)
    <2> DEFINE d == IF Has(i) THEN dirs[i] ELSE NoDir
    <2>1. d \in Dir /\ jobs[i].item \in Items
      BY <1>1, <1>3 DEF Job
    <2>2. [d EXCEPT !.data[jobs[i].item] = "part"] \in Dir
      BY <2>1 DEF Dir, Extent
    <2>3. [jobs[i] EXCEPT !.copy = "run"] \in Job
      BY <1>1 DEF Job
    <2>4. IsDirs(Put(i, [d EXCEPT !.data[jobs[i].item] = "part"]))
      BY <1>1, <2>2, DirsOps
    <2> QED BY <1>1, <1>2, <1>8, <2>3, <2>4, NextItemType DEF CopyStart
  <1>9. CASE CopyEnd(i) /\ ~Fails(i, [jobs[i] EXCEPT !.copy = "off"])
    <2>1. jobs[i].item \in Items
      BY <1>1 DEF Job
    <2>2. Has(i) => [dirs[i] EXCEPT !.data[jobs[i].item] = "whole"] \in Dir
      BY <1>3, <2>1 DEF Dir, Extent
    <2>3. NextItem(i) /\ UNCHANGED mutex
      BY <1>9 DEF CopyEnd
    <2>4. IsDirs(dirs')
      BY <1>1, <1>9, <2>2, DirsOps DEF CopyEnd, Has
    <2> QED BY <1>1, <1>2, <2>3, <2>4, NextItemType
  <1>10. CASE ZipStart(i) /\ ~Fails(i, NoJob)
    <2>1. Has(i) => [dirs[i] EXCEPT !.zip = "part"] \in Dir
      BY <1>3 DEF Dir, Extent
    <2>2. [NoJob EXCEPT !.pc = "zip"] \in Job
      BY <1>1 DEF Job
    <2> QED BY <1>1, <1>2, <1>10, <2>1, <2>2, DirsOps DEF ZipStart, Has
  <1>11. CASE ZipEnd(i) /\ ~Fails(i, NoJob)
    <2>1. Has(i) => [dirs[i] EXCEPT !.zip = dirs[i].sql, !.sql = "none"] \in Dir
      BY <1>3 DEF Dir, Extent
    <2> QED BY <1>1, <1>2, <1>11, <2>1, DirsOps DEF ZipEnd, Has, Listed
  <1> QED
    BY <1>4, <1>5, <1>6, <1>7, <1>8, <1>9, <1>10, <1>11 DEF Work

\* Everything else.
LEMMA RestoreStepType ==
    ASSUME TypeOK, RestoreWork
    PROVE  /\ restore' \in Restore /\ tmp' \in [Ids -> Extent] /\ writing' \subseteq Ids
           /\ maintenance' \in BOOLEAN
           /\ live' \in [db : Content, data : [Items -> Content]]
           /\ RestoreStep
  <1> DEFINE IsLive(l) == l \in [db : Content, data : [Items -> Content]]
  <1>1. /\ restore \in Restore /\ restore.item \in Items /\ restore.id \in 0..MaxId
        /\ NoRestore \in Restore /\ maintenance \in BOOLEAN
        /\ tmp \in [Ids -> Extent] /\ writing \subseteq Ids
        /\ IsLive(live) /\ RestoreStep
    BY BackupAssumption DEF TypeOK, Restore, NoRestore, Items, RestoreWork, RestoreCommand,
       Unzip, DbEmpty, DbLoad, DbMark, DataRemove, DataStart, DataEnd, RemoveTmp, Migrate
  <1>2. \A then \in Restore : Settle(then) \in Restore
    BY <1>1 DEF Settle
  <1>3. \A then \in Restore :
          RestoreFails(then) => restore' \in Restore /\ maintenance' \in BOOLEAN
    <2>1. \A then \in Restore : [then EXCEPT !.pc = "off"] \in Restore
      BY DEF Restore
    <2> QED BY <1>1, <1>2, <2>1 DEF RestoreFails
  <1>4. DataNext => restore' \in Restore
    <2>1. [restore EXCEPT !.data = "done"] \in Restore
      BY <1>1 DEF Restore
    <2>2. ASSUME restore.item # LastItem
          PROVE  [restore EXCEPT !.data = "remove", !.item = @ + 1] \in Restore
      <3>1. restore.item + 1 \in Items
        BY <1>1, <2>2, BackupAssumption DEF Items
      <3> QED BY <1>1, <3>1 DEF Restore
    <2>3. Settle([restore EXCEPT !.data = "done"]) \in Restore
      BY <1>2, <2>1
    <2> QED BY <2>2, <2>3 DEF DataNext
  <1>5. CASE RestoreCommand \/ Unzip
    <2>1. Tasks \in Restore /\ [restore EXCEPT !.pc = "unzip"] \in Restore
      <3>1. 1 \in Items
        BY BackupAssumption DEF Items
      <3> QED BY <1>1, <3>1 DEF Tasks, Restore
    <2>2. restore.pc = "unzip" /\ Zipped = "whole" => restore.id \in Ids
      BY DEF Zipped, Has, TypeOK
    <2>3. [tmp EXCEPT ![restore.id] = "part"] \in [Ids -> Extent]
      BY <1>1 DEF Extent
    <2> QED BY <1>1, <1>3, <1>5, <2>1, <2>2, <2>3 DEF RestoreCommand, Unzip
  <1>6. CASE DbEmpty \/ DbLoad \/ DbMark
    <2>1. /\ [restore EXCEPT !.db = "off"] \in Restore
          /\ [restore EXCEPT !.db = "load"] \in Restore
          /\ [restore EXCEPT !.db = "mark"] \in Restore
          /\ [restore EXCEPT !.db = "done"] \in Restore
          /\ [restore EXCEPT !.db = "mark",
                !.sound = @ /\ (Plain \/ restore.id \notin writing)] \in Restore
      BY <1>1 DEF Restore
    <2>2. /\ IsLive([live EXCEPT !.db = Nothing])
          /\ \A is \in Extent : IsLive([live EXCEPT !.db.is = is])
      BY <1>1 DEF Nothing, Content, Extent
    <2> QED BY <1>1, <1>2, <1>3, <1>6, <2>1, <2>2 DEF DbEmpty, DbLoad, DbMark
  <1>7. CASE DataRemove \/ DataStart \/ DataEnd
    <2>1. /\ [restore EXCEPT !.data = "off"] \in Restore
          /\ [restore EXCEPT !.data = "stat"] \in Restore
          /\ [restore EXCEPT !.data = "run"] \in Restore
      BY <1>1 DEF Restore
    <2>2. /\ IsLive([live EXCEPT !.data[restore.item] = Nothing])
          /\ IsLive([live EXCEPT !.data[restore.item].is = "part"])
          /\ IsLive([live EXCEPT !.data[restore.item].is = "whole"])
      BY <1>1 DEF Nothing, Content, Extent
    <2> QED BY <1>1, <1>3, <1>4, <1>7, <2>1, <2>2 DEF DataRemove, DataStart, DataEnd
  <1>8. CASE RemoveTmp \/ Migrate
    <2>1. [restore EXCEPT !.pc = "migrate", !.db = "off", !.data = "off"] \in Restore
      BY <1>1 DEF Restore
    <2>2. [tmp EXCEPT ![restore.id] = "none"] \in [Ids -> Extent]
      BY <1>1 DEF Extent
    <2> QED BY <1>1, <1>8, <2>1, <2>2 DEF RemoveTmp, Migrate
  <1> QED BY <1>5, <1>6, <1>7, <1>8 DEF RestoreWork

LEMMA TypeInit == Init => TypeOK
  <1> SUFFICES ASSUME Init PROVE TypeOK
    OBVIOUS
  <1>1. 1 \in Items /\ 0 \in 0..MaxId /\ nextId \in 1..(MaxId + 1)
    BY BackupAssumption DEF Init, Items
  <1>2. jobs \in [Ids -> Job] /\ restore \in Restore
    BY <1>1 DEF Init, NoJob, Job, NoRestore, Restore
  <1>3. live \in [db : Content, data : [Items -> Content]] /\ tmp \in [Ids -> Extent]
    BY DEF Init, Content, Extent
  <1>4. IsDirs(dirs)
    BY DEF Init, IsDirs
  <1> QED BY <1>1, <1>2, <1>3, <1>4 DEF Init, TypeOK, IsDirs

LEMMA TypeStep ==
    ASSUME TypeOK, [Next]_vars
    PROVE  TypeOK'
  <1>1. IsDirs(dirs) /\ NoJob \in Job /\ NoRestore \in Restore
    BY BackupAssumption DEF TypeOK, IsDirs, NoJob, Job, NoRestore, Restore, Items
  <1>2. IsDirs(Disturb)
    <2>1. CASE mutex # 0 /\ Has(mutex)
      <3>1. dirs[mutex] \in Dir
        BY <1>1, <2>1 DEF Has, IsDirs
      <3>2. [dirs[mutex] EXCEPT !.clean = FALSE] \in Dir
        BY <3>1 DEF Dir
      <3> QED BY <1>1, <2>1, <3>2, DirsOps DEF Disturb, Has
    <2>2. CASE ~(mutex # 0 /\ Has(mutex))
      BY <1>1, <2>2 DEF Disturb
    <2> QED BY <2>1, <2>2
  <1>3. CASE Create
    <2>1. [jobs[nextId] EXCEPT !.pc = "cmd"] \in Job
      BY <1>3 DEF Create, TypeOK, Job
    <2> QED BY <1>3, <2>1, BackupAssumption DEF Create, TypeOK, Ids
  <1>4. CASE Retention \/ \E i \in Ids : Destroy(i)
    <2>1. PICK S : Remove(S)
      BY <1>4 DEF Retention, Destroy
    <2>2. IsDirs(dirs')
      BY <1>1, <2>1, DirsOps DEF Remove
    <2>3. restore' \in Restore
      BY <2>1 DEF Remove, TypeOK, Restore
    <2> QED BY <2>1, <2>2, <2>3 DEF Remove, TypeOK, IsDirs
  <1>5. CASE Crash
    <2>1. IsDirs(dirs')
      BY <1>2, <1>5 DEF Crash
    <2> QED BY <1>1, <1>5, <2>1, BackupAssumption DEF Crash, TypeOK, IsDirs
  <1>6. CASE \E i \in Ids : Import(i)
    <2>1. PICK i \in Ids : Import(i)
      BY <1>6
    <2>2. [dirs[i] EXCEPT !.clean = @ /\ i # mutex] \in Dir
      BY <1>1, <2>1 DEF Import, Listed, Has, IsDirs, Dir
    <2>3. IsDirs(dirs')
      BY <1>1, <2>1, <2>2, DirsOps DEF Import
    <2>4. nextId' \in 1..(MaxId + 1)
      BY <2>1, BackupAssumption DEF Import, Ids
    <2> QED BY <2>1, <2>3, <2>4 DEF Import, TypeOK, IsDirs
  <1>7. CASE \E i \in Ids : RestoreCall(i)
    <2>1. PICK i \in Ids : RestoreCall(i)
      BY <1>7
    <2>2. IsDirs(dirs')
      BY <1>2, <2>1 DEF RestoreCall
    <2>3. restore' \in Restore
      <3>1. i \in 0..MaxId /\ (i # mutex /\ Whole(dirs[i])) \in BOOLEAN
        BY BackupAssumption DEF Ids
      <3>2. restore' = [NoRestore EXCEPT !.pc = "cmd", !.id = i,
                                         !.sound = i # mutex /\ Whole(dirs[i])]
        BY <2>1 DEF RestoreCall
      <3> QED BY <1>1, <3>1, <3>2 DEF Restore
    <2>4. live' \in [db : Content, data : [Items -> Content]]
      BY <2>1 DEF RestoreCall, Old, TypeOK, Content
    <2> QED BY <2>1, <2>2, <2>3, <2>4 DEF RestoreCall, TypeOK, IsDirs
  <1>8. CASE \E i \in Ids : Work(i)
    BY <1>8, WorkType DEF JobStep, TypeOK, IsDirs
  <1>9. CASE RestoreWork
    BY <1>9, RestoreStepType DEF RestoreStep, TypeOK
  <1>10. CASE UNCHANGED vars
    BY <1>10 DEF vars, TypeOK
  <1>11. CASE \E i \in Ids : Flush(i)
    <2>1. PICK i \in Ids : Flush(i)
      BY <1>11
    <2>2. [tmp EXCEPT ![i] = "whole"] \in [Ids -> Extent]
      BY DEF TypeOK, Extent
    <2> QED BY <2>1, <2>2 DEF Flush, RestoreStep, TypeOK
  <1> QED
    BY <1>3, <1>4, <1>5, <1>6, <1>7, <1>8, <1>9, <1>10, <1>11 DEF Next

\* The variables keep their types, whatever fails.
THEOREM BackupTypes == Spec => []TypeOK
  BY TypeInit, TypeStep, PTL DEF Spec
-----------------------------------------------------------------------------
(* Creations *)

LEMMA RestOps ==
    ASSUME NEW job
    PROVE  Rest(job) = job \/ (job.pc = "off" /\ Rest(job) = NoJob)
  BY DEF Rest

Others(i) ==
    \A j \in Ids \ {i} :
        jobs'[j] = jobs[j] /\ (Has(j)' <=> Has(j)) /\ (Has(j) => dirs'[j] = dirs[j])

\* A task in progress works on the backup of its own creation only.
Works(i) ==
    /\ Others(i) /\ JobStep
    /\ mutex' = mutex \/ (mutex = i /\ mutex' = 0)
    /\ jobs[i].pc # "off" \/ Dumping(i) \/ Copying(i)
    /\ JobInv(i)'

LEMMA FailsWorks ==
    ASSUME IInv, NEW i \in Ids, NEW job \in Job, Fails(i, job), JobStep,
           jobs[i].pc # "off" \/ Dumping(i) \/ Copying(i),
           job.dump \in {jobs[i].dump, "off"}, job.copy \in {jobs[i].copy, "off"},
           jobs[i].pc = "off" => job.pc = "off"
    PROVE  Works(i)
  <1>1. JobInv(i) /\ jobs \in [Ids -> Job] /\ 0 \notin Ids
    BY DEF IInv, TypeOK, Ids
  <1>2. CASE jobs[i].pc = "off"
    <2>1. /\ dirs' = dirs /\ mutex' = mutex /\ nextId' = nextId
          /\ jobs'[i] = Rest(job) /\ \A j \in Ids \ {i} : jobs'[j] = jobs[j]
      BY <1>1, <1>2 DEF Fails, JobStep
    <2>2. /\ jobs'[i].pc = "off"
          /\ jobs'[i].dump \in {jobs[i].dump, "off"} /\ jobs'[i].copy \in {jobs[i].copy, "off"}
      BY <1>2, <2>1, RestOps DEF NoJob
    <2>3. JobInv(i)'
      BY <1>1, <1>2, <2>1, <2>2 DEF JobInv, Dumping, Copying, Has, Listed
    <2> QED BY <1>2, <2>1, <2>3 DEF Works, Others, Has
  <1>3. CASE jobs[i].pc # "off"
    <2>1. /\ ~Has(i)' /\ mutex = i /\ mutex' = 0 /\ nextId' = nextId
          /\ jobs'[i] = Rest([job EXCEPT !.pc = "off"])
          /\ \A j \in Ids \ {i} : jobs'[j] = jobs[j]
          /\ \A j \in Ids \ {i} : (Has(j)' <=> Has(j)) /\ (Has(j) => dirs'[j] = dirs[j])
      BY <1>1, <1>3 DEF Fails, JobStep, JobInv, Without, Restrict, Has
    <2>2. jobs'[i].pc = "off"
      <3>1. [job EXCEPT !.pc = "off"].pc = "off"
        BY DEF Job
      <3>2. Rest([job EXCEPT !.pc = "off"]) \in {[job EXCEPT !.pc = "off"], NoJob}
        BY RestOps
      <3>3. NoJob.pc = "off"
        BY DEF NoJob
      <3> DEFINE ended == [job EXCEPT !.pc = "off"]
      <3>4. ended.pc = "off" /\ jobs'[i] = Rest(ended) /\ Rest(ended) \in {ended, NoJob}
        BY <2>1, <3>1, <3>2
      <3> HIDE DEF ended
      <3> QED BY <3>3, <3>4
    <2>3. JobInv(i)'
      BY <1>1, <1>3, <2>1, <2>2 DEF JobInv, Listed
    <2> QED BY <1>3, <2>1, <2>3 DEF Works, Others
  <1> QED BY <1>2, <1>3

\* The errors of the tasks.
LEMMA TaskFails ==
    ASSUME IInv, NEW i \in Ids, JobStep,
           jobs[i].pc # "off" \/ Dumping(i) \/ Copying(i),
           \/ Fails(i, NoJob)
           \/ Fails(i, [jobs[i] EXCEPT !.dump = "off"])
           \/ Fails(i, [jobs[i] EXCEPT !.copy = "off"])
    PROVE  Works(i)
  <1>1. jobs[i] \in Job /\ NoJob \in Job
    BY BackupAssumption DEF IInv, TypeOK, NoJob, Job, Items
  <1>2. CASE Fails(i, NoJob)
    BY <1>1, <1>2, FailsWorks DEF NoJob
  <1>3. CASE Fails(i, [jobs[i] EXCEPT !.dump = "off"])
    <2> DEFINE job == [jobs[i] EXCEPT !.dump = "off"]
    <2>1. job \in Job /\ job.dump = "off" /\ job.copy = jobs[i].copy /\ job.pc = jobs[i].pc
      BY <1>1 DEF Job
    <2> QED BY <1>3, <2>1, FailsWorks
  <1>4. CASE Fails(i, [jobs[i] EXCEPT !.copy = "off"])
    <2> DEFINE job == [jobs[i] EXCEPT !.copy = "off"]
    <2>1. job \in Job /\ job.copy = "off" /\ job.dump = jobs[i].dump /\ job.pc = jobs[i].pc
      BY <1>1 DEF Job
    <2> QED BY <1>4, <2>1, FailsWorks
  <1> QED BY <1>2, <1>3, <1>4

\* A step that writes in its own directory, if at all.
LEMMA WritesOwn ==
    ASSUME IInv, NEW i \in Ids, NEW d, NEW job,
           \/ dirs' = dirs
           \/ dirs' = Put(i, d)
           \/ Has(i) /\ dirs' = [dirs EXCEPT ![i] = d],
           jobs' = [jobs EXCEPT ![i] = job]
    PROVE  /\ Others(i) /\ jobs'[i] = job
           /\ dirs' # dirs => Has(i)' /\ dirs'[i] = d
  BY DEF IInv, TypeOK, Others, Put, Has

LEMMA CommandWorks ==
    ASSUME IInv, NEW i \in Ids, Command(i)
    PROVE  Works(i)
  <1> DEFINE d == [NoDir EXCEPT !.meta = TRUE, !.clean = LiveWhole /\ ~Restoring]
             job == [pc |-> "tasks", dump |-> "start", copy |-> "stat", item |-> 1]
  <1>1. JobInv(i) /\ jobs[i].pc = "cmd" /\ JobStep
    BY DEF IInv, Command
  <1>2. CASE Fails(i, NoJob)
    BY <1>1, <1>2, TaskFails
  <1>3. CASE ~Fails(i, NoJob)
    <2>1. dirs' = Put(i, d) /\ jobs' = [jobs EXCEPT ![i] = job] /\ mutex' = mutex
      BY <1>3 DEF Command
    <2>2. Others(i) /\ jobs'[i] = job /\ Has(i)' /\ dirs'[i] = d
      BY <2>1, WritesOwn DEF IInv, TypeOK, Put, Has, Others
    <2>3. /\ d.zip = "none" /\ d.sql = "none" /\ (d.clean => LiveWhole /\ ~Restoring)
          /\ mutex = i /\ i < nextId /\ nextId' = nextId
          /\ LiveWhole' = LiveWhole /\ Restoring' = Restoring
      BY <1>1 DEF JobInv, NoDir, JobStep, LiveWhole, Restoring
    <2>4. JobInv(i)'
      <3>1. job.pc = "tasks" /\ job.dump = "start" /\ job.copy = "stat" /\ job.item = 1
        OBVIOUS
      <3>2. d.clean => Progress(i)'
        BY <2>2, <2>3, <3>1 DEF Progress, Items
      <3> HIDE DEF d, job
      <3> QED BY <2>1, <2>2, <2>3, <3>1, <3>2 DEF JobInv
    <2> QED BY <1>1, <2>1, <2>2, <2>4 DEF Works
  <1> QED BY <1>2, <1>3

LEMMA DumpWorks ==
    ASSUME IInv, NEW i \in Ids, DumpStart(i) \/ DumpEnd(i)
    PROVE  Works(i)
  <1>1. /\ JobInv(i) /\ Dumping(i) /\ JobStep /\ jobs[i] \in Job
        /\ (Has(i) => dirs[i] \in Dir)
        /\ LiveWhole' = LiveWhole /\ Restoring' = Restoring /\ nextId' = nextId
    BY DEF IInv, DumpStart, DumpEnd, Dumping, JobStep, LiveWhole, Restoring, TypeOK, Has
  <1>2. CASE Fails(i, [jobs[i] EXCEPT !.dump = "off"])
    BY <1>1, <1>2, TaskFails
  <1>3. CASE DumpStart(i) /\ ~Fails(i, [jobs[i] EXCEPT !.dump = "off"])
    <2> DEFINE d == [dirs[i] EXCEPT !.sql = "part"]
               job == [jobs[i] EXCEPT !.dump = "run"]
    <2>1. Has(i) /\ dirs' = [dirs EXCEPT ![i] = d]
          /\ jobs' = [jobs EXCEPT ![i] = job] /\ mutex' = mutex
      BY <1>3 DEF DumpStart
    <2>2. Others(i) /\ jobs'[i] = job /\ Has(i)' /\ dirs'[i] = d
      BY <2>1, WritesOwn DEF IInv, TypeOK, Has, Others
    <2>3. /\ d.meta = dirs[i].meta /\ d.clean = dirs[i].clean /\ d.zip = dirs[i].zip
          /\ d.data = dirs[i].data /\ d.sql = "part"
          /\ job.pc = jobs[i].pc /\ job.copy = jobs[i].copy /\ job.item = jobs[i].item
          /\ job.dump = "run"
      BY <1>1, <2>1 DEF Dir, Job
    <2>4. d.zip = "none" /\ jobs[i].pc \notin {"cmd", "zip"}
      BY <1>1, <2>1, <2>3 DEF JobInv
    <2>5. (Listed(i)' <=> Listed(i)) /\ (Copying(i)' <=> Copying(i))
      BY <2>1, <2>2, <2>3 DEF Listed, Copying
    <2>6. JobInv(i)'
      <3>1. Listed(i) /\ dirs[i].clean /\ jobs[i].pc = "tasks" => Progress(i)'
        BY <1>1, <2>2, <2>3, <2>5 DEF JobInv, Progress
      <3>2. Listed(i) => jobs[i].pc = "tasks"
        BY <1>1 DEF JobInv
      <3> QED BY <1>1, <2>1, <2>2, <2>3, <2>4, <2>5, <3>1, <3>2 DEF JobInv
    <2> QED BY <1>1, <2>1, <2>2, <2>6 DEF Works
  <1>4. CASE DumpEnd(i) /\ ~Fails(i, [jobs[i] EXCEPT !.dump = "off"])
    <2> DEFINE d == [dirs[i] EXCEPT !.sql = "whole"]
               job == Rest([jobs[i] EXCEPT !.dump = "done"])
               written == Has(i) /\ dirs[i].sql = "part" /\ live.db.is = "whole"
    <2>1. /\ jobs' = [jobs EXCEPT ![i] = job] /\ mutex' = mutex
          /\ dirs' = IF written THEN [dirs EXCEPT ![i] = d] ELSE dirs
          /\ jobs[i].dump = "run"
      BY <1>4 DEF DumpEnd
    <2>2. Others(i) /\ jobs'[i] = job /\ (Has(i)' <=> Has(i))
          /\ (Has(i) => dirs'[i] = IF written THEN d ELSE dirs[i])
      <3>1. CASE written
        BY <2>1, <3>1, WritesOwn DEF IInv, TypeOK, Has, Others
      <3>2. CASE ~written
        BY <2>1, <3>2, WritesOwn DEF Has
      <3> QED BY <3>1, <3>2
    <2>3. /\ \/ /\ job.pc = jobs[i].pc /\ job.copy = jobs[i].copy
                /\ job.item = jobs[i].item /\ job.dump = "done"
             \/ jobs[i].pc = "off" /\ job = NoJob
      <3>1. [jobs[i] EXCEPT !.dump = "done"].pc = jobs[i].pc
        BY <1>1 DEF Job
      <3>2. \/ job = [jobs[i] EXCEPT !.dump = "done"]
            \/ jobs[i].pc = "off" /\ job = NoJob
        BY <3>1, RestOps
      <3> QED BY <1>1, <3>2 DEF Job
    <2>4. Has(i) => /\ dirs'[i].meta = dirs[i].meta /\ dirs'[i].clean = dirs[i].clean
                    /\ dirs'[i].zip = dirs[i].zip /\ dirs'[i].data = dirs[i].data
                    /\ dirs[i].zip = "none"
                    /\ dirs'[i].sql = IF written THEN "whole" ELSE dirs[i].sql
      BY <1>1, <2>2 DEF Dir, JobInv
    <2>5. jobs[i].pc \notin {"cmd", "zip"} /\ (Listed(i)' <=> Listed(i))
      BY <1>1, <2>2, <2>4 DEF JobInv, Listed
    <2>6. CASE jobs[i].pc = "off"
      <3>1. /\ jobs'[i].pc = "off" /\ (Copying(i)' => Copying(i)) /\ ~Dumping(i)' /\ ~Listed(i)
        BY <1>1, <2>2, <2>3, <2>6 DEF NoJob, Dumping, Copying, JobInv
      <3> HIDE DEF job, d
      <3>2. JobInv(i)'
        BY <1>1, <2>1, <2>2, <2>4, <2>5, <2>6, <3>1 DEF JobInv
      <3> QED BY <1>1, <2>1, <2>2, <3>2 DEF Works
    <2>7. CASE jobs[i].pc # "off"
      <3>1. /\ jobs'[i].pc = jobs[i].pc /\ (Copying(i)' <=> Copying(i)) /\ ~Dumping(i)'
            /\ jobs'[i].item = jobs[i].item /\ jobs'[i].copy = jobs[i].copy
            /\ jobs'[i].dump = "done"
        BY <1>1, <2>2, <2>3, <2>7 DEF Dumping, Copying
      <3>2. Listed(i) /\ dirs[i].clean /\ jobs[i].pc = "tasks" => Progress(i)'
        <4> SUFFICES ASSUME Listed(i), dirs[i].clean, jobs[i].pc = "tasks"
                     PROVE  Progress(i)'
          OBVIOUS
        <4>1. Progress(i) /\ Has(i)
          BY <1>1 DEF JobInv, Listed
        <4>2. written
          BY <2>1, <4>1 DEF Progress, LiveWhole
        <4> HIDE DEF job, d
        <4> QED BY <1>1, <2>4, <3>1, <4>1, <4>2 DEF Progress
      <3> HIDE DEF job, d
      <3>3. Listed(i) => i = mutex
        BY <1>1, <2>7 DEF JobInv
      <3>4. JobInv(i)'
        BY <1>1, <2>1, <2>2, <2>4, <2>5, <2>7, <3>1, <3>2, <3>3 DEF JobInv
      <3> QED BY <1>1, <2>1, <2>2, <3>4 DEF Works
    <2> QED BY <2>6, <2>7
  <1> QED BY <1>2, <1>3, <1>4 DEF DumpStart, DumpEnd

LEMMA CopyWorks ==
    ASSUME IInv, NEW i \in Ids, CopyStart(i) \/ CopyEnd(i)
    PROVE  Works(i)
  <1> DEFINE k == jobs[i].item
             source == IF Has(i) THEN dirs[i] ELSE NoDir
             first == [source EXCEPT !.data[k] = "part"]
             all == [dirs[i] EXCEPT !.data[k] = "whole"]
             next == IF k = LastItem THEN Rest([jobs[i] EXCEPT !.copy = "done"])
                     ELSE [jobs[i] EXCEPT !.copy = "stat", !.item = @ + 1]
             run == [jobs[i] EXCEPT !.copy = "run"]
  <1>1. /\ JobInv(i) /\ Copying(i) /\ JobStep /\ jobs[i] \in Job /\ k \in Items
        /\ (Has(i) => dirs[i] \in Dir) /\ source \in Dir
        /\ LiveWhole' = LiveWhole /\ Restoring' = Restoring /\ nextId' = nextId
    BY DEF IInv, CopyStart, CopyEnd, Copying, JobStep, LiveWhole, Restoring, TypeOK, Has,
           Job, Dir, NoDir, Extent
  <1>2. CASE Fails(i, [jobs[i] EXCEPT !.copy = "off"])
    BY <1>1, <1>2, TaskFails
  \* What becomes of the job and of the directory.
  <1>3. CASE \E job, d :
               /\ job \in {next, run} /\ jobs' = [jobs EXCEPT ![i] = job]
               /\ mutex' = mutex
               /\ \/ /\ CopyStart(i) /\ job = next /\ live.data[k].is = "none"
                     /\ dirs' = dirs
                  \/ /\ CopyStart(i) /\ job = run /\ d = first /\ dirs' = Put(i, d)
                  \/ /\ CopyEnd(i) /\ job = next /\ d = all /\ Has(i)
                     /\ dirs' = [dirs EXCEPT ![i] = d]
                  \/ /\ CopyEnd(i) /\ job = next /\ dirs' = dirs
                     /\ ~(Has(i) /\ dirs[i].data[k] = "part" /\ live.data[k].is = "whole")
    <2>1. PICK job, d :
               /\ job \in {next, run} /\ jobs' = [jobs EXCEPT ![i] = job]
               /\ mutex' = mutex
               /\ \/ /\ CopyStart(i) /\ job = next /\ live.data[k].is = "none"
                     /\ dirs' = dirs
                  \/ /\ CopyStart(i) /\ job = run /\ d = first /\ dirs' = Put(i, d)
                  \/ /\ CopyEnd(i) /\ job = next /\ d = all /\ Has(i)
                     /\ dirs' = [dirs EXCEPT ![i] = d]
                  \/ /\ CopyEnd(i) /\ job = next /\ dirs' = dirs
                     /\ ~(Has(i) /\ dirs[i].data[k] = "part" /\ live.data[k].is = "whole")
      BY <1>3
    <2>2. Others(i) /\ jobs'[i] = job
      BY <2>1, WritesOwn
    <2>3. /\ first.meta = source.meta /\ first.clean = source.clean
          /\ first.zip = source.zip /\ first.sql = source.sql
          /\ first.data = [source.data EXCEPT ![k] = "part"]
      BY <1>1 DEF Dir
    <2>4. Has(i) => /\ all.meta = dirs[i].meta /\ all.clean = dirs[i].clean
                    /\ all.zip = dirs[i].zip /\ all.sql = dirs[i].sql
                    /\ all.data = [dirs[i].data EXCEPT ![k] = "whole"]
      BY <1>1 DEF Dir
    <2>5. \/ jobs[i].pc = "off" /\ job = NoJob
          \/ /\ job.pc = jobs[i].pc /\ job.dump = jobs[i].dump
             /\ \/ job = run /\ job.copy = "run" /\ job.item = k
                \/ job = next /\ job.copy = "stat" /\ job.item = k + 1 /\ k # LastItem
                \/ job = next /\ job.copy = "done" /\ k = LastItem
      <3> DEFINE done == [jobs[i] EXCEPT !.copy = "done"]
                 on == [jobs[i] EXCEPT !.copy = "stat", !.item = @ + 1]
      <3>1. /\ done.pc = jobs[i].pc /\ done.dump = jobs[i].dump /\ done.copy = "done"
            /\ on.pc = jobs[i].pc /\ on.dump = jobs[i].dump /\ on.copy = "stat"
            /\ on.item = k + 1
            /\ run.pc = jobs[i].pc /\ run.dump = jobs[i].dump /\ run.copy = "run"
            /\ run.item = k
        BY <1>1 DEF Job
      <3>2. Rest(done) = done \/ (done.pc = "off" /\ Rest(done) = NoJob)
        BY RestOps
      <3>3. next = IF k = LastItem THEN Rest(done) ELSE on
        OBVIOUS
      <3> HIDE DEF done, on, next, run
      <3> QED BY <2>1, <3>1, <3>2, <3>3
    <2>6. /\ Has(i) => /\ Has(i)' /\ dirs'[i].meta = dirs[i].meta
                       /\ dirs'[i].clean = dirs[i].clean
                       /\ dirs'[i].zip = dirs[i].zip /\ dirs'[i].sql = dirs[i].sql
          /\ ~Has(i) /\ Has(i)' => ~dirs'[i].meta /\ dirs'[i].zip = "none"
                                   /\ dirs'[i].sql = "none"
      <3>1. dirs' # dirs => Has(i)' /\ dirs'[i] = d
        BY <2>1, WritesOwn
      <3>2. ~Has(i) => ~source.meta /\ source.zip = "none" /\ source.sql = "none"
        BY DEF NoDir
      <3>3. dirs' # dirs => d = first \/ (d = all /\ Has(i))
        BY <2>1
      <3>4. Has(i) => source = dirs[i]
        OBVIOUS
      <3> HIDE DEF first, all, source
      <3> QED BY <2>3, <2>4, <3>1, <3>2, <3>3, <3>4 DEF Has
    <2>7. /\ Listed(i)' <=> Listed(i)
          /\ Dumping(i)' => Dumping(i)
          /\ jobs[i].pc \notin {"cmd", "zip"}
      BY <1>1, <2>2, <2>5, <2>6 DEF Listed, Dumping, NoJob, JobInv
    <2>8. CASE jobs[i].pc = "off"
      <3>1. jobs'[i].pc = "off" /\ ~Listed(i)
        BY <1>1, <2>2, <2>5, <2>8 DEF NoJob, JobInv
      <3>2. JobInv(i)'
        BY <1>1, <2>1, <2>6, <2>7, <3>1 DEF JobInv
      <3> QED BY <1>1, <2>1, <2>2, <3>2 DEF Works
    <2>9. CASE jobs[i].pc # "off"
      <3>1. jobs'[i].pc = jobs[i].pc /\ jobs'[i].dump = jobs[i].dump
        BY <2>2, <2>5, <2>9
      <3>2. Listed(i) /\ dirs[i].clean /\ jobs[i].pc = "tasks" => Progress(i)'
        <4> SUFFICES ASSUME Listed(i), dirs[i].clean, jobs[i].pc = "tasks"
                     PROVE  Progress(i)'
          OBVIOUS
        <4>1. Progress(i) /\ Has(i) /\ source = dirs[i] /\ dirs[i] \in Dir
          BY <1>1 DEF JobInv, Listed
        <4>2. /\ live.data[k].is = "whole"
              /\ \A e \in Items : e < k => dirs[i].data[e] = "whole"
              /\ CopyEnd(i) => dirs[i].data[k] = "part"
          BY <1>1, <4>1 DEF Progress, LiveWhole, CopyEnd
        <4>3. dirs'[i].data = [dirs[i].data EXCEPT
                                ![k] = IF job = run THEN "part" ELSE "whole"]
          <5>1. run.copy = "run"
            BY <1>1 DEF Job
          <5>2. job = next => next # run
            <6> DEFINE done == [jobs[i] EXCEPT !.copy = "done"]
                       on == [jobs[i] EXCEPT !.copy = "stat", !.item = @ + 1]
            <6>1. done.copy = "done" /\ on.copy = "stat" /\ NoJob.copy = "off"
              BY <1>1 DEF Job, NoJob
            <6>2. next \in {done, on, NoJob}
              BY RestOps
            <6> HIDE DEF done, on, next, run
            <6> QED BY <5>1, <6>1, <6>2
          <5>3. dirs' = Put(i, first) => dirs'[i] = first
            BY DEF Put
          <5>4. Has(i) /\ dirs' = [dirs EXCEPT ![i] = all] => dirs'[i] = all
            BY <1>1 DEF Has, IInv, TypeOK
          <5> HIDE DEF k, run, next, first, all, source
          <5> QED BY <2>1, <2>3, <2>4, <4>1, <4>2, <5>2, <5>3, <5>4
        <4>4. \A e \in Items : dirs'[i].data[e] =
                IF e = k THEN IF job = run THEN "part" ELSE "whole" ELSE dirs[i].data[e]
          BY <4>1, <4>3 DEF Dir
        <4>5. \/ jobs'[i].copy = "run" /\ jobs'[i].item = k /\ job = run
              \/ jobs'[i].copy = "stat" /\ jobs'[i].item = k + 1 /\ job # run
              \/ jobs'[i].copy = "done" /\ k = LastItem /\ job # run
          <5>1. run.copy = "run"
            BY <1>1 DEF Job
          <5> HIDE DEF k, run, next
          <5> QED BY <2>2, <2>5, <2>9, <5>1
        <4>6. k \in Nat /\ \A e \in Items : e \in Nat /\ e <= LastItem
          BY <1>1, BackupAssumption DEF Items
        <4> HIDE DEF k, run, next, first, all, source
        <4>7. /\ Copying(i)' => \A e \in Items : e < jobs'[i].item => dirs'[i].data[e] = "whole"
              /\ jobs'[i].copy = "run" => dirs'[i].data[jobs'[i].item] = "part"
              /\ jobs'[i].copy = "done" => \A e \in Items : dirs'[i].data[e] = "whole"
          BY <1>1, <4>2, <4>4, <4>5, <4>6, BackupAssumption DEF Copying
        <4> QED BY <1>1, <2>6, <3>1, <4>1, <4>7 DEF Progress
      <3>4. jobs[i].pc = "tasks" /\ mutex = i /\ i < nextId
        BY <1>1, <2>7, <2>9 DEF Job, JobInv
      <3>5. Has(i)' => (dirs'[i].zip = "none" \/ ~Dumping(i)')
                       /\ (dirs'[i].zip = "whole" => dirs'[i].sql = "none")
        BY <1>1, <2>6, <2>7 DEF JobInv
      <3>6. Listed(i)' /\ dirs'[i].clean => Progress(i)'
        BY <2>6, <2>7, <3>2, <3>4 DEF Listed
      <3>7. JobInv(i)'
        BY <1>1, <2>1, <2>7, <3>1, <3>4, <3>5, <3>6 DEF JobInv
      <3> QED BY <1>1, <2>1, <2>2, <3>7 DEF Works
    <2> QED BY <2>8, <2>9
  <1>4. CASE CopyStart(i)
    BY <1>3, <1>4 DEF CopyStart, NextItem
  <1>5. CASE CopyEnd(i) /\ ~Fails(i, [jobs[i] EXCEPT !.copy = "off"])
    <2>1. NextItem(i) /\ mutex' = mutex
      BY <1>5 DEF CopyEnd
    <2>2. jobs' = [jobs EXCEPT ![i] = next]
      BY <2>1 DEF NextItem
    <2> QED BY <1>3, <1>5, <2>1, <2>2 DEF CopyEnd
  <1> QED BY <1>2, <1>4, <1>5

LEMMA ZipWorks ==
    ASSUME IInv, NEW i \in Ids, ZipStart(i) \/ ZipEnd(i)
    PROVE  Works(i)
  <1>1. /\ JobInv(i) /\ jobs[i].pc # "off" /\ JobStep /\ jobs[i] \in Job
        /\ (Has(i) => dirs[i] \in Dir) /\ i # 0
        /\ LiveWhole' = LiveWhole /\ Restoring' = Restoring /\ nextId' = nextId
    BY DEF IInv, ZipStart, ZipEnd, JobStep, LiveWhole, Restoring, TypeOK, Has, Ids
  <1>2. CASE Fails(i, NoJob)
    BY <1>1, <1>2, TaskFails
  <1>3. CASE ZipStart(i) /\ ~Fails(i, NoJob)
    <2> DEFINE d == [dirs[i] EXCEPT !.zip = "part"]
               job == [NoJob EXCEPT !.pc = "zip"]
    <2>1. /\ Has(i) /\ dirs' = [dirs EXCEPT ![i] = d]
          /\ jobs' = [jobs EXCEPT ![i] = job] /\ mutex' = mutex
          /\ jobs[i].pc = "tasks" /\ jobs[i].dump = "done" /\ jobs[i].copy = "done"
      BY <1>3 DEF ZipStart
    <2>2. Others(i) /\ jobs'[i] = job /\ Has(i)' /\ dirs'[i] = d
      BY <2>1, WritesOwn DEF IInv, TypeOK, Has, Others
    <2>3. /\ d.meta = dirs[i].meta /\ d.clean = dirs[i].clean /\ d.zip = "part"
          /\ d.data = dirs[i].data /\ d.sql = dirs[i].sql
          /\ job.pc = "zip" /\ job.dump = "off" /\ job.copy = "off"
      BY <1>1, <2>1 DEF Dir, NoJob
    <2>4. Listed(i) /\ dirs[i].clean =>
            dirs[i].sql = "whole" /\ \A k \in Items : dirs[i].data[k] = "whole"
      BY <1>1, <2>1 DEF JobInv, Progress
    <2> HIDE DEF d, job
    <2>5. JobInv(i)'
      BY <1>1, <2>1, <2>2, <2>3, <2>4 DEF JobInv, Dumping, Copying, Listed
    <2> QED BY <1>1, <2>1, <2>2, <2>5 DEF Works
  <1>4. CASE ZipEnd(i) /\ ~Fails(i, NoJob)
    <2> DEFINE d == [dirs[i] EXCEPT !.zip = dirs[i].sql, !.sql = "none"]
    <2>1. /\ Listed(i) /\ dirs' = [dirs EXCEPT ![i] = d]
          /\ jobs' = [jobs EXCEPT ![i] = NoJob] /\ mutex' = 0 /\ jobs[i].pc = "zip"
      BY <1>4 DEF ZipEnd
    <2>2. Others(i) /\ jobs'[i] = NoJob /\ Has(i)' /\ dirs'[i] = d
      BY <2>1, WritesOwn DEF IInv, TypeOK, Has, Others, Listed
    <2>3. /\ d.meta = dirs[i].meta /\ d.clean = dirs[i].clean /\ d.zip = dirs[i].sql
          /\ d.data = dirs[i].data /\ d.sql = "none"
          /\ NoJob.pc = "off" /\ NoJob.dump = "off" /\ NoJob.copy = "off"
      BY <1>1, <2>1 DEF Dir, NoJob, Listed
    <2> HIDE DEF d
    <2>4. Listed(i) /\ dirs[i].clean => Whole(dirs'[i])
      BY <1>1, <2>1, <2>2, <2>3 DEF JobInv, Whole
    <2>5. JobInv(i)'
      BY <1>1, <2>1, <2>2, <2>3, <2>4 DEF JobInv, Dumping, Copying, Listed
    <2>6. mutex = i
      BY <1>1 DEF JobInv
    <2> QED BY <1>1, <2>1, <2>2, <2>5, <2>6 DEF Works
  <1> QED BY <1>2, <1>3, <1>4 DEF ZipStart, ZipEnd

LEMMA WorkWorks ==
    ASSUME IInv, NEW i \in Ids, Work(i)
    PROVE  Works(i)
  BY CommandWorks, DumpWorks, CopyWorks, ZipWorks DEF Work
-----------------------------------------------------------------------------
(* Requests, the cron jobs and a crash *)

Kept(j) == Listed(j) /\ j # mutex => dirs'[j] = dirs[j]

\* What a step keeps of the creations, and of the backups whose creation is over.
Keeps == (\A j \in Ids : JobInv(j)') /\ RestoreInv' /\ \A j \in Ids : Has(j)' => Kept(j)

LEMMA WorkKeeps ==
    ASSUME IInv, NEW i \in Ids, Work(i)
    PROVE  Keeps
  <1>1. Works(i) /\ JobInv(i) /\ 0 \notin Ids /\ DOMAIN dirs \subseteq Ids
    BY WorkWorks DEF IInv, TypeOK, Ids
  <1>2. Listed(i) => i = mutex
    BY <1>1 DEF Works, JobInv
  <1>3. ASSUME NEW j \in Ids, j # i PROVE JobInv(j)'
    <2>1. /\ JobInv(j) /\ jobs'[j] = jobs[j] /\ (Has(j)' <=> Has(j))
          /\ (Has(j) => dirs'[j] = dirs[j]) /\ nextId' = nextId
          /\ LiveWhole' = LiveWhole /\ Restoring' = Restoring
          /\ (j # mutex' => j # mutex) /\ (j = mutex => j = mutex')
      BY <1>1, <1>3 DEF IInv, Works, Others, JobStep, LiveWhole, Restoring
    <2>2. Has(j) /\ Progress(j) => Progress(j)'
      BY <2>1 DEF Progress, Copying
    <2> QED BY <2>1, <2>2 DEF JobInv, Listed, Dumping, Copying, Whole
  <1>4. RestoreInv'
    <2>1. restore' = restore /\ live' = live /\ tmp' = tmp /\ writing' = writing
      BY <1>1 DEF Works, JobStep
    <2>2. restore.sound => restore.id \in Ids \ {i}
      BY <1>1, <1>2 DEF IInv, RestoreInv, Listed, Has
    <2>3. restore.sound => /\ Listed(restore.id)' /\ dirs'[restore.id] = dirs[restore.id]
                           /\ Has(restore.id) /\ restore.id # mutex'
      BY <1>1, <2>1, <2>2 DEF IInv, RestoreInv, Works, Others, Listed, Has
    <2>4. restore.sound => Loadable' = Loadable
      BY <2>1, <2>3 DEF Loadable, Dump, Plain, Listed
    <2> QED BY <2>1, <2>3, <2>4 DEF IInv, RestoreInv, Whole, RestoreGivesAll
  <1>5. ASSUME NEW j \in Ids, Has(j)' PROVE Kept(j)
    BY <1>1, <1>2, <1>5 DEF Kept, Works, Others, Listed
  <1> QED BY <1>1, <1>3, <1>4, <1>5 DEF Keeps, Works

LEMMA CreateKeeps ==
    ASSUME IInv, Create
    PROVE  Keeps
  <1>1. PICK n \in Ids : n = nextId
    BY DEF Create
  <1>2. /\ 0 \notin Ids /\ DOMAIN dirs \subseteq Ids /\ n \in Nat
        /\ jobs[n] \in Job /\ jobs \in [Ids -> Job] /\ \A j \in Ids : j \in Nat
    BY DEF IInv, TypeOK, Ids
  <1>3. JobInv(n) /\ ~Has(n) /\ ~Dumping(n) /\ ~Copying(n)
    BY <1>1, <1>2 DEF IInv, JobInv
  <1>4. /\ mutex = 0 /\ mutex' = n /\ nextId' = n + 1 /\ dirs' = dirs
        /\ restore' = restore /\ live' = live /\ tmp' = tmp /\ writing' = writing
        /\ \A j \in Ids \ {n} : jobs'[j] = jobs[j]
        /\ jobs'[n] = [jobs[n] EXCEPT !.pc = "cmd"]
    BY <1>1, <1>2 DEF Create
  <1>5. /\ jobs'[n].pc = "cmd" /\ jobs'[n].dump = jobs[n].dump
        /\ jobs'[n].copy = jobs[n].copy
    BY <1>2, <1>4 DEF Job
  <1>6. JobInv(n)'
    BY <1>2, <1>3, <1>4, <1>5 DEF JobInv, Dumping, Copying, Has, Listed
  <1>7. ASSUME NEW j \in Ids, j # n PROVE JobInv(j)'
    <2>1. JobInv(j) /\ jobs[j].pc = "off"
      BY <1>2, <1>4 DEF IInv, JobInv
    <2> QED BY <1>1, <1>2, <1>4, <1>7, <2>1 DEF JobInv, Dumping, Copying, Has, Listed, Whole
  <1>8. RestoreInv'
    <2>1. restore.sound => restore.id # n
      BY <1>3 DEF IInv, RestoreInv, Listed
    <2>2. Loadable' = Loadable
      BY <1>4 DEF Loadable, Dump, Plain, Has
    <2> QED BY <1>4, <2>1, <2>2 DEF IInv, RestoreInv, Listed, Has, Whole, RestoreGivesAll
  <1>9. ASSUME NEW j \in Ids PROVE Kept(j)
    BY <1>4 DEF Kept
  <1> QED BY <1>6, <1>7, <1>8, <1>9 DEF Keeps

LEMMA RemoveKeeps ==
    ASSUME IInv, NEW S, Remove(S)
    PROVE  Keeps
  <1>1. /\ \A j : (Has(j)' => Has(j) /\ dirs'[j] = dirs[j]) /\ (Has(j) /\ j \notin S => Has(j)')
        /\ jobs' = jobs /\ mutex' = mutex /\ nextId' = nextId
        /\ live' = live /\ tmp' = tmp /\ writing' = writing
    BY DEF Remove, Without, Restrict, Has
  <1>2. restore \in Restore /\ NoRestore.sound = FALSE /\ 0 \notin Ids /\ DOMAIN dirs \subseteq Ids
    BY DEF IInv, TypeOK, NoRestore, Ids
  <1>3. /\ restore'.pc = restore.pc /\ restore'.id = restore.id /\ restore'.db = restore.db
        /\ restore'.data = restore.data /\ restore'.item = restore.item
        /\ (restore'.sound => restore.sound /\ restore.id \notin S)
        /\ (~restore.sound => restore' = restore)
    BY <1>2 DEF Remove, Restore
  <1>4. LiveWhole' = LiveWhole /\ (~Restoring => ~Restoring')
    BY <1>1, <1>2, <1>3 DEF LiveWhole, Restoring
  <1>5. ASSUME NEW j \in Ids PROVE JobInv(j)'
    <2>1. JobInv(j)
      BY DEF IInv
    <2>2. Has(j)' /\ Progress(j) => Progress(j)'
      BY <1>1, <1>4 DEF Progress, Copying
    <2> QED BY <1>1, <2>1, <2>2 DEF JobInv, Listed, Dumping, Copying, Whole
  <1>6. RestoreInv'
    <2>1. restore'.sound => /\ Listed(restore.id)' /\ Has(restore.id) /\ Has(restore.id)'
                            /\ dirs'[restore.id] = dirs[restore.id]
      BY <1>1, <1>3 DEF IInv, RestoreInv, Listed
    <2>2. restore'.sound => Loadable' = Loadable
      BY <1>1, <1>3, <2>1 DEF Loadable, Dump, Plain, Has
    <2> QED BY <1>1, <1>3, <2>1, <2>2 DEF IInv, RestoreInv, Whole, RestoreGivesAll
  <1> QED BY <1>1, <1>5, <1>6 DEF Keeps, Kept, Listed

LEMMA ImportKeeps ==
    ASSUME IInv, NEW i \in Ids, Import(i)
    PROVE  Keeps
  <1> DEFINE d == [dirs[i] EXCEPT !.clean = @ /\ i # mutex]
  <1>0. PICK n \in Ids : n = nextId
    BY DEF Import
  <1>1. /\ n \in Nat /\ \A j \in Ids : j \in Nat
        /\ Listed(i) /\ Has(i) /\ dirs[i] \in Dir /\ DOMAIN dirs \subseteq Ids
        /\ nextId' = n + 1 /\ dirs' = Put(n, d)
        /\ jobs' = jobs /\ mutex' = mutex /\ restore' = restore
        /\ live' = live /\ tmp' = tmp /\ writing' = writing
    BY <1>0 DEF IInv, TypeOK, Import, Listed, Has, Ids
  <1>2. /\ JobInv(n) /\ ~Has(n) /\ ~Dumping(n) /\ ~Copying(n)
        /\ jobs[n].pc = "off" /\ JobInv(i)
    BY <1>0, <1>1 DEF IInv, JobInv
  <1>3. /\ d.zip = dirs[i].zip /\ d.sql = dirs[i].sql /\ d.data = dirs[i].data
        /\ (d.clean => dirs[i].clean /\ i # mutex)
    BY <1>1 DEF Dir
  <1> HIDE DEF d
  <1>4. /\ Has(n)' /\ dirs'[n] = d
        /\ \A j : j # n => (Has(j)' <=> Has(j)) /\ (Has(j) => dirs'[j] = dirs[j])
    BY <1>1 DEF Put, Has
  <1>5. JobInv(n)'
    BY <1>1, <1>2, <1>4, <1>3 DEF JobInv, Dumping, Copying, Listed, Whole
  <1>6. LiveWhole' = LiveWhole /\ Restoring' = Restoring
    BY <1>1 DEF LiveWhole, Restoring
  <1>7. ASSUME NEW j \in Ids, j # n PROVE JobInv(j)'
    <2>1. JobInv(j)
      BY DEF IInv
    <2>2. Has(j) /\ Progress(j) => Progress(j)'
      BY <1>1, <1>4, <1>6, <1>7 DEF Progress, Copying
    <2>3. j < nextId => j < nextId'
      BY <1>0, <1>1
    <2>4. (Has(j)' <=> Has(j)) /\ (Has(j) => dirs'[j] = dirs[j])
      BY <1>4, <1>7
    <2> QED BY <1>1, <2>1, <2>2, <2>3, <2>4 DEF JobInv, Listed, Dumping, Copying, Whole
  <1>8. RestoreInv'
    <2>1. restore.sound => /\ restore.id # n /\ Has(restore.id) /\ Has(restore.id)'
                           /\ dirs'[restore.id] = dirs[restore.id]
      BY <1>1, <1>2, <1>4 DEF IInv, RestoreInv, Listed, Has
    <2>2. restore.sound => Loadable' = Loadable
      BY <1>1, <2>1 DEF Loadable, Dump, Plain
    <2> QED BY <1>1, <2>1, <2>2 DEF IInv, RestoreInv, Listed, Whole, RestoreGivesAll
  <1> QED BY <1>2, <1>4, <1>5, <1>7, <1>8 DEF Keeps, Kept, Listed

LEMMA Disturbed ==
    ASSUME IInv, dirs' = Disturb
    PROVE  \A j : /\ Has(j)' <=> Has(j)
                  /\ Has(j) /\ j # mutex => dirs'[j] = dirs[j]
                  /\ Has(j) => /\ dirs'[j].meta = dirs[j].meta /\ dirs'[j].sql = dirs[j].sql
                               /\ dirs'[j].zip = dirs[j].zip /\ dirs'[j].data = dirs[j].data
                               /\ (j = mutex => ~dirs'[j].clean)
  <1>1. 0 \notin DOMAIN dirs /\ \A j : Has(j) => dirs[j] \in Dir
    BY DEF IInv, TypeOK, Ids, Has
  <1>2. CASE mutex # 0 /\ Has(mutex)
    <2>1. dirs' = [dirs EXCEPT ![mutex] = [dirs[mutex] EXCEPT !.clean = FALSE]]
      BY <1>2 DEF Disturb
    <2>2. DOMAIN dirs' = DOMAIN dirs /\ \A j \in DOMAIN dirs : dirs'[j] =
            IF j = mutex THEN [dirs[mutex] EXCEPT !.clean = FALSE] ELSE dirs[j]
      BY <2>1
    <2>3. \A d \in Dir : LET e == [d EXCEPT !.clean = FALSE] IN
             e.meta = d.meta /\ e.sql = d.sql /\ e.zip = d.zip /\ e.data = d.data /\ ~e.clean
      BY DEF Dir
    <2>4. \A j : (Has(j)' <=> Has(j)) /\ (Has(j) /\ j # mutex => dirs'[j] = dirs[j])
      BY <2>2 DEF Has
    <2>5. LET d == dirs[mutex] IN
          /\ dirs'[mutex].meta = d.meta /\ dirs'[mutex].sql = d.sql
          /\ dirs'[mutex].zip = d.zip /\ dirs'[mutex].data = d.data /\ ~dirs'[mutex].clean
      BY <1>1, <1>2, <2>2, <2>3 DEF Has
    <2> QED BY <2>4, <2>5
  <1>3. CASE ~(mutex # 0 /\ Has(mutex))
    BY <1>1, <1>3 DEF Disturb, Has
  <1> QED BY <1>2, <1>3

LEMMA RestoreCallKeeps ==
    ASSUME IInv, NEW i \in Ids, RestoreCall(i)
    PROVE  Keeps
  <1>1. /\ dirs' = Disturb /\ jobs' = jobs /\ mutex' = mutex /\ nextId' = nextId
        /\ Listed(i) /\ Has(i)
    BY DEF RestoreCall, Listed
  <1>2. /\ restore'.pc = "cmd" /\ restore'.id = i /\ restore'.db = "off"
        /\ restore'.data = "off" /\ (restore'.sound => i # mutex /\ Whole(dirs[i]))
    BY DEF RestoreCall, NoRestore
  <1>3. ASSUME NEW j \in Ids PROVE JobInv(j)'
    <2>1. JobInv(j)
      BY DEF IInv
    <2>2. Listed(j)' /\ dirs'[j].clean => j # mutex /\ dirs'[j] = dirs[j]
      BY <1>1, Disturbed DEF Listed
    <2> QED BY <1>1, <2>1, <2>2, Disturbed DEF JobInv, Dumping, Copying, Listed
  <1>4. RestoreInv'
    BY <1>1, <1>2, Disturbed DEF RestoreInv, Listed, Whole
  <1> QED BY <1>1, <1>3, <1>4, Disturbed DEF Keeps, Kept, Listed

LEMMA CrashKeeps ==
    ASSUME IInv, Crash
    PROVE  Keeps
  <1>1. dirs' = Disturb /\ mutex' = 0 /\ nextId' = nextId /\ 0 \notin Ids
    BY DEF Crash, Ids
  <1>2. restore'.pc = "off" /\ ~restore'.sound
    BY DEF Crash, NoRestore
  <1>3. ASSUME NEW j \in Ids PROVE JobInv(j)'
    <2>1. JobInv(j) /\ jobs'[j].pc = "off" /\ ~Dumping(j)' /\ ~Copying(j)'
      BY DEF IInv, Crash, NoJob, Dumping, Copying
    <2>2. Listed(j)' /\ dirs'[j].clean => j # mutex /\ dirs'[j] = dirs[j]
      BY <1>1, Disturbed DEF Listed
    <2> QED BY <1>1, <2>1, <2>2, Disturbed DEF JobInv, Listed
  <1>4. RestoreInv'
    BY <1>2 DEF RestoreInv
  <1> QED BY <1>1, <1>3, <1>4, Disturbed DEF Keeps, Kept, Listed
-----------------------------------------------------------------------------
(* Restores *)

LEMMA SettleOps ==
    ASSUME NEW then
    PROVE  /\ Settle(then) = then \/ (then.pc = "off" /\ Settle(then) = NoRestore)
           /\ then.pc # "off" => Settle(then) = then
  BY DEF Settle

\* A restore that failed promises nothing, but does not forget what it was.
LEMMA FailedRestore ==
    ASSUME IInv, RestoreStep, restore'.pc = "off",
           restore'.sound => restore.sound /\ restore'.id = restore.id
    PROVE  RestoreInv'
  BY DEF IInv, RestoreInv, RestoreStep, Listed, Has, Whole

LEMMA FailsRestore ==
    ASSUME IInv, RestoreStep, NEW then \in Restore, RestoreFails(then),
           then.sound = restore.sound, then.id = restore.id
    PROVE  RestoreInv'
  <1> DEFINE ended == [then EXCEPT !.pc = "off"]
  <1>1. ended.pc = "off" /\ ended.sound = then.sound /\ ended.id = then.id
    BY DEF Restore
  <1>2. restore' \in {ended, NoRestore}
    BY <1>1, SettleOps DEF RestoreFails
  <1>3. NoRestore.pc = "off" /\ NoRestore.sound = FALSE
    BY DEF NoRestore
  <1> HIDE DEF ended
  <1> QED BY <1>1, <1>2, <1>3, FailedRestore

\* What a sound restore reads is whole.
LEMMA SoundSource ==
    ASSUME IInv, restore.sound
    PROVE  /\ restore.id \in Ids /\ Has(restore.id)
           /\ \A k \in Items : Source(k) = "whole"
           /\ dirs[restore.id].zip = "whole" => dirs[restore.id].sql = "none"
           /\ dirs[restore.id].sql = "whole" \/ dirs[restore.id].zip = "whole"
  <1>1. restore.id \in Ids /\ Has(restore.id) /\ Whole(dirs[restore.id])
    BY DEF IInv, RestoreInv, Listed, Has, TypeOK
  <1>2. JobInv(restore.id)
    BY <1>1 DEF IInv
  <1> QED BY <1>1, <1>2 DEF JobInv, Whole, Source

LEMMA RestoredContent ==
    ASSUME NEW content \in Content, content.new
    PROVE  /\ [content EXCEPT !.is = "whole"] = Restored
           /\ [content EXCEPT !.is = "part"].new
  <1> DEFINE whole == [content EXCEPT !.is = "whole"]
  <1>1. whole \in Content /\ whole.new /\ whole.is = "whole"
    BY DEF Content, Extent
  <1>2. [content EXCEPT !.is = "part"].new
    BY DEF Content
  <1> HIDE DEF whole
  <1>3. whole = [is |-> whole.is, new |-> whole.new] /\ whole.new = TRUE
    BY <1>1 DEF Content
  <1>4. whole = [is |-> "whole", new |-> TRUE]
    BY <1>1, <1>3, Zenon
  <1> QED BY <1>2, <1>4 DEF Restored, whole

LEMMA DbKeeps ==
    ASSUME IInv, DbEmpty \/ DbLoad \/ DbMark
    PROVE  RestoreInv'
  <1>1. /\ restore \in Restore /\ RestoreStep /\ live.db \in Content /\ RestoreInv
        /\ live \in [db : Content, data : [Items -> Content]]
        /\ tmp' = tmp /\ writing' = writing
        /\ restore.pc \in {"off", "tasks"} /\ restore.db \in {"empty", "load", "mark"}
    BY DEF IInv, TypeOK, Restore, RestoreInv, DbEmpty, DbLoad, DbMark
  <1> DEFINE failed == [restore EXCEPT !.db = "off"]
  <1>2. failed \in Restore /\ failed.sound = restore.sound /\ failed.id = restore.id
    BY <1>1 DEF Restore
  <1>3. CASE RestoreFails(failed)
    BY <1>1, <1>2, <1>3, FailsRestore
  <1>4. CASE ~RestoreFails(failed)
    <2> DEFINE read == Plain \/ restore.id \notin writing
    <2>1. PICK db \in {"load", "mark", "done"} :
            /\ restore' \in {[restore EXCEPT !.db = db], Settle([restore EXCEPT !.db = db]),
                              [restore EXCEPT !.db = db, !.sound = @ /\ read]}
            /\ live'.data = live.data
            /\ \/ restore.db = "empty" /\ db = "load" /\ live'.db = Nothing
               \/ /\ restore.db = "load" /\ db = "mark"
                  /\ restore' = [restore EXCEPT !.db = db, !.sound = @ /\ read]
                  /\ live'.db = [live.db EXCEPT !.is = Dump]
               \/ restore.db = "mark" /\ db = "done" /\ live'.db = live.db
      BY <1>1, <1>4 DEF DbEmpty, DbLoad, DbMark
    <2> DEFINE next == [restore EXCEPT !.db = db]
               then == [restore EXCEPT !.db = db, !.sound = @ /\ read]
    <2>2. /\ next.pc = restore.pc /\ next.id = restore.id /\ next.sound = restore.sound
          /\ next.db = db /\ next.data = restore.data /\ next.item = restore.item
          /\ then.pc = restore.pc /\ then.id = restore.id
          /\ (then.sound => restore.sound /\ read)
          /\ then.db = db /\ then.data = restore.data /\ then.item = restore.item
      BY <1>1 DEF Restore
    <2>3. \/ restore' \in {next, then}
          \/ restore.pc = "off" /\ restore' = NoRestore
      BY <2>1, <2>2, SettleOps
    <2>4. NoRestore.pc = "off" /\ NoRestore.sound = FALSE
      BY DEF NoRestore
    <2>10. restore.db = "load" => restore' = then
      BY <2>1
    <2> HIDE DEF next, then
    <2>5. CASE restore.pc = "off"
      BY <1>1, <2>2, <2>3, <2>4, <2>5, FailedRestore
    <2>6. CASE restore.pc = "tasks"
      <3>1. /\ restore'.pc = "tasks" /\ restore'.id = restore.id
            /\ (restore'.sound => restore.sound /\ (restore.db = "load" => read))
            /\ restore'.db = db
            /\ restore'.data = restore.data /\ restore'.item = restore.item
        BY <2>2, <2>3, <2>6, <2>10
      <3>2. dirs' = dirs /\ mutex' = mutex /\ Loadable' = Loadable
        BY <1>1, <3>1 DEF RestoreStep, Loadable, Plain, Dump, Has
      <3>3. restore'.sound => /\ restore'.db = "load" => Loadable /\ live'.db.new
                              /\ restore'.db \in {"mark", "done"} => live'.db = Restored
        <4>1. restore'.sound /\ restore.db = "load" => [live.db EXCEPT !.is = Dump] = Restored
          <5>1. restore'.sound /\ restore.db = "load" => live.db.new /\ Dump = "whole"
            BY <1>1, <2>6, <3>1 DEF RestoreInv, Loadable
          <5> QED BY <1>1, <5>1, RestoredContent
        <4> QED BY <1>1, <2>1, <2>6, <3>1, <4>1 DEF RestoreInv, Nothing
      <3>4. db # "empty"
        BY <2>1
      <3> QED BY <1>1, <2>1, <2>6, <3>1, <3>2, <3>3, <3>4 DEF RestoreInv, Listed, Has, Whole
    <2> QED BY <1>1, <2>5, <2>6
  <1> QED BY <1>3, <1>4

LEMMA DataKeeps ==
    ASSUME IInv, DataRemove \/ DataStart \/ DataEnd
    PROVE  RestoreInv'
  <1> DEFINE k == restore.item
             content == live.data[k]
  <1>1. /\ restore \in Restore /\ RestoreStep /\ RestoreInv /\ k \in Items
        /\ live \in [db : Content, data : [Items -> Content]]
        /\ tmp' = tmp /\ writing' = writing
        /\ restore.pc \in {"off", "tasks"} /\ content \in Content
        /\ restore.data \in {"remove", "stat", "run"}
    BY DEF IInv, TypeOK, Restore, RestoreInv, DataRemove, DataStart, DataEnd
  <1> DEFINE failed == [restore EXCEPT !.data = "off"]
  <1>2. failed \in Restore /\ failed.sound = restore.sound /\ failed.id = restore.id
    BY <1>1 DEF Restore
  <1>3. CASE RestoreFails(failed)
    BY <1>1, <1>2, <1>3, FailsRestore
  <1> DEFINE to(data) == [restore EXCEPT !.data = data]
             on == [restore EXCEPT !.data = "remove", !.item = @ + 1]
             next == IF k = LastItem THEN Settle(to("done")) ELSE on
  <1>4. /\ \A data : /\ to(data).pc = restore.pc /\ to(data).id = restore.id
                      /\ to(data).sound = restore.sound /\ to(data).db = restore.db
                      /\ to(data).data = data /\ to(data).item = k
        /\ on.pc = restore.pc /\ on.id = restore.id /\ on.sound = restore.sound
        /\ on.db = restore.db /\ on.data = "remove" /\ on.item = k + 1
    BY <1>1 DEF Restore
  <1>5. /\ NoRestore.pc = "off" /\ NoRestore.sound = FALSE
        /\ Settle(to("done")) = to("done")
           \/ (restore.pc = "off" /\ Settle(to("done")) = NoRestore)
    <2>1. NoRestore.pc = "off" /\ NoRestore.sound = FALSE
      BY DEF NoRestore
    <2>2. \/ Settle(to("done")) = to("done")
          \/ to("done").pc = "off" /\ Settle(to("done")) = NoRestore
      BY SettleOps
    <2>3. to("done").pc = restore.pc
      BY <1>4
    <2> HIDE DEF to
    <2> QED BY <2>1, <2>2, <2>3
  <1>6. ASSUME ~RestoreFails(failed)
        PROVE  restore' \in {to("stat"), to("run"), Settle(to("done")), on}
    BY <1>6 DEF DataRemove, DataStart, DataEnd, DataNext
  <1>7. CASE ~RestoreFails(failed) /\ restore.pc = "off"
    <2> HIDE DEF to, on, next
    <2> QED BY <1>1, <1>4, <1>5, <1>6, <1>7, FailedRestore
  <1>8. CASE ~RestoreFails(failed) /\ restore.pc = "tasks"
    <2>1. /\ restore'.pc = "tasks" /\ restore'.id = restore.id
          /\ restore'.sound = restore.sound /\ restore'.db = restore.db
      <3> HIDE DEF to, on, next
      <3> QED BY <1>4, <1>5, <1>6, <1>8
    <2>2. dirs' = dirs /\ mutex' = mutex /\ Loadable' = Loadable
      BY <1>1, <2>1 DEF RestoreStep, Loadable, Plain, Dump, Has
    <2>3. restore.sound =>
            /\ live'.db = live.db
            /\ \A e \in Items \ {k} : live'.data[e] = live.data[e]
            /\ \/ live'.data[k] = Nothing /\ restore' = to("stat")
               \/ /\ live'.data[k] = [content EXCEPT !.is = "part"]
                  /\ restore.data = "stat" /\ restore' = to("run")
               \/ /\ live'.data[k] = [content EXCEPT !.is = "whole"]
                  /\ restore.data = "run" /\ restore' = next
      <3>1. restore.sound => Source(k) = "whole"
        BY <1>1, SoundSource
      <3>2. CASE DataRemove
        BY <1>1, <3>2 DEF DataRemove
      <3>3. CASE DataStart
        BY <1>1, <3>1, <3>3 DEF DataStart
      <3>4. CASE DataEnd
        BY <1>1, <1>8, <3>1, <3>4 DEF DataEnd, DataNext
      <3> QED BY <3>2, <3>3, <3>4
    <2>4. Nothing.is = "none" /\ Nothing.new
      BY DEF Nothing
    <2>5. restore.sound /\ restore.data \in {"stat", "run"} =>
            /\ [content EXCEPT !.is = "part"].new
            /\ [content EXCEPT !.is = "whole"] = Restored
      <3>1. restore.sound /\ restore.data \in {"stat", "run"} => content.new
        BY <1>1, <1>8 DEF RestoreInv
      <3> HIDE DEF content
      <3> QED BY <1>1, <3>1, RestoredContent
    <2>6. next = IF k = LastItem THEN to("done") ELSE on
      BY <1>5, <1>8
    <2>7. k \in Nat /\ \A e \in Items : e \in Nat /\ e <= LastItem
      BY <1>1, BackupAssumption DEF Items
    <2>8. \A e \in Items : restore.sound /\ e < k => live.data[e] = Restored
      BY <1>1, <1>8 DEF RestoreInv
    <2> HIDE DEF to, on, next, k, content
    <2>9. restore.sound =>
            /\ \A e \in Items : restore'.data = "done" \/ e < restore'.item
                                   => live'.data[e] = Restored
            /\ restore'.data \in {"stat", "run"} => live'.data[restore'.item].new
            /\ restore'.data = "stat" => live'.data[restore'.item].is = "none"
      <3> SUFFICES ASSUME restore.sound
                   PROVE  /\ \A e \in Items : restore'.data = "done" \/ e < restore'.item
                                                 => live'.data[e] = Restored
                          /\ restore'.data \in {"stat", "run"} => live'.data[restore'.item].new
                          /\ restore'.data = "stat" => live'.data[restore'.item].is = "none"
        OBVIOUS
      <3>1. CASE restore' = to("stat") /\ live'.data[k] = Nothing
        BY <1>4, <2>3, <2>4, <2>7, <2>8, <3>1
      <3>2. CASE restore' = to("run") /\ restore.data = "stat"
                 /\ live'.data[k] = [content EXCEPT !.is = "part"]
        <4> DEFINE part == [content EXCEPT !.is = "part"]
        <4>1. part.new /\ live'.data[k] = part
          BY <2>5, <3>2
        <4>2. restore'.data = "run" /\ restore'.item = k
          BY <1>4, <3>2
        <4>3. \A e \in Items : e < k => live'.data[e] = Restored
          BY <2>3, <2>7, <2>8
        <4> HIDE DEF part
        <4> QED BY <4>1, <4>2, <4>3
      <3>3. CASE restore' = next /\ restore.data = "run"
                 /\ live'.data[k] = [content EXCEPT !.is = "whole"]
        <4>1. live'.data[k] = Restored
          BY <2>5, <3>3
        <4>2. \A e \in Items : e <= k => live'.data[e] = Restored
          BY <2>3, <2>7, <2>8, <4>1
        <4>3. \/ k = LastItem /\ restore'.data = "done" /\ restore'.item = k
              \/ restore'.data = "remove" /\ restore'.item = k + 1
          BY <1>4, <2>6, <3>3
        <4> QED BY <2>7, <4>2, <4>3
      <3> QED BY <2>3, <3>1, <3>2, <3>3
    <2> QED BY <1>1, <1>8, <2>1, <2>2, <2>3, <2>9 DEF RestoreInv, Listed, Has, Whole
  <1> QED BY <1>1, <1>3, <1>7, <1>8

LEMMA RestoreKeeps ==
    ASSUME IInv, RestoreWork
    PROVE  Keeps
  <1>1. /\ restore \in Restore /\ RestoreStep /\ RestoreInv /\ Restoring
        /\ DOMAIN dirs \subseteq Ids
    BY DEF IInv, TypeOK, RestoreWork, RestoreCommand, Unzip, DbEmpty, DbLoad, DbMark,
           DataRemove, DataStart, DataEnd, RemoveTmp, Migrate, Restoring, NoRestore
  <1>2. ASSUME NEW j \in Ids PROVE JobInv(j)'
    <2>1. JobInv(j) /\ ~Progress(j)
      BY <1>1 DEF IInv, Progress
    <2> QED BY <1>1, <2>1 DEF RestoreStep, JobInv, Dumping, Copying, Has, Listed, Whole
  <1>3. ASSUME RestoreCommand \/ Unzip PROVE RestoreInv'
    <2>1. CASE RestoreFails(restore)
      BY <1>1, <2>1, FailsRestore
    <2>2. CASE restore' = [restore EXCEPT !.pc = "unzip"] /\ RestoreCommand
      <3>1. /\ restore'.pc = "unzip" /\ restore'.sound = restore.sound
            /\ restore'.id = restore.id /\ restore'.db = "off" /\ restore'.data = "off"
        BY <1>1, <2>2 DEF RestoreCommand, RestoreInv, Restore
      <3> QED BY <1>1, <3>1 DEF RestoreInv, RestoreStep, Listed, Has, Whole
    <2>3. CASE restore' = Tasks
      <3>1. /\ restore'.pc = "tasks" /\ restore'.sound = restore.sound
            /\ restore'.id = restore.id /\ restore'.db = "empty"
            /\ restore'.data = "remove" /\ restore'.item = 1
        BY <1>1, <2>3 DEF Tasks, Restore
      <3>2. restore.sound => Loadable'
        <4> SUFFICES ASSUME restore.sound PROVE Loadable'
          OBVIOUS
        <4>1. dirs' = dirs /\ Has(restore.id) /\ Has(restore.id)'
          BY <1>1, <3>1, SoundSource DEF RestoreStep, Has
        <4>2. dirs[restore.id].zip = "whole" => restore.id \in writing'
          <5>1. "whole" # "none" /\ restore' # [restore EXCEPT !.pc = "unzip"]
            BY <1>1, <3>1 DEF Restore
          <5>2. Zipped = dirs[restore.id].zip
            BY <4>1 DEF Zipped
          <5>3. CASE Unzip /\ ~RestoreFails(restore)
            BY <5>2, <5>3 DEF Unzip
          <5>4. CASE RestoreCommand /\ ~RestoreFails(restore)
            BY <4>1, <5>1, <5>4 DEF RestoreCommand
          <5>5. CASE RestoreFails(restore)
            <6>1. [restore EXCEPT !.pc = "off"].pc = "off" /\ NoRestore.pc = "off"
              BY <1>1 DEF Restore, NoRestore
            <6>2. restore' \in {[restore EXCEPT !.pc = "off"], NoRestore}
              BY <5>5, SettleOps DEF RestoreFails
            <6> QED BY <3>1, <6>1, <6>2
          <5> QED BY <1>3, <5>3, <5>4, <5>5
        <4>3. /\ dirs[restore.id].zip = "whole" => dirs[restore.id].sql = "none"
              /\ dirs[restore.id].sql = "whole" \/ dirs[restore.id].zip = "whole"
          BY SoundSource
        <4> QED BY <3>1, <4>1, <4>2, <4>3 DEF Loadable, Plain, Dump
      <3>3. \A k \in Items : ~(k < 1)
        BY BackupAssumption DEF Items
      <3> QED BY <1>1, <3>1, <3>2, <3>3 DEF RestoreInv, RestoreStep, Listed, Has, Whole
    <2> QED BY <1>3, <2>1, <2>2, <2>3 DEF RestoreCommand, Unzip
  <1>4. ASSUME RemoveTmp PROVE RestoreInv'
    <2>1. /\ restore'.pc = "migrate" /\ restore'.sound = restore.sound
          /\ restore'.id = restore.id /\ restore'.db = "off" /\ restore'.data = "off"
          /\ restore.pc = "tasks" /\ restore.db = "done" /\ restore.data = "done"
          /\ live' = live
      BY <1>1, <1>4 DEF RemoveTmp, Restore
    <2>2. restore.sound => live.db = Restored /\ \A k \in Items : live.data[k] = Restored
      BY <1>1, <2>1 DEF RestoreInv
    <2> QED BY <1>1, <2>1, <2>2
            DEF RestoreInv, RestoreStep, Listed, Has, Whole, RestoreGivesAll, Restored
  <1>5. ASSUME Migrate PROVE RestoreInv'
    BY <1>5 DEF Migrate, RestoreInv, NoRestore
  <1>6. RestoreInv'
    BY <1>3, <1>4, <1>5, DbKeeps, DataKeeps DEF RestoreWork
  <1> QED BY <1>1, <1>2, <1>6 DEF Keeps, Kept, RestoreStep
LEMMA FlushKeeps ==
    ASSUME IInv, NEW i \in Ids, Flush(i)
    PROVE  Keeps
  <1>1. /\ RestoreStep /\ restore' = restore /\ live' = live /\ i \in writing
        /\ writing' = writing \ {i} /\ tmp' = [tmp EXCEPT ![i] = "whole"]
        /\ tmp \in [Ids -> Extent] /\ RestoreInv
    BY DEF Flush, IInv, TypeOK
  <1>2. ASSUME NEW j \in Ids PROVE JobInv(j)'
    <2>1. JobInv(j) /\ (Progress(j)' <=> Progress(j))
      BY <1>1 DEF IInv, Progress, RestoreStep, Copying, LiveWhole, Restoring
    <2> QED BY <1>1, <2>1 DEF RestoreStep, JobInv, Dumping, Copying, Has, Listed, Whole
  <1>3. Loadable => Loadable'
    BY <1>1 DEF Loadable, Plain, Dump, RestoreStep, Has
  <1>4. RestoreInv'
    BY <1>1, <1>3 DEF RestoreStep, RestoreInv, Listed, Has, Whole, RestoreGivesAll
  <1> QED BY <1>1, <1>2, <1>4 DEF Keeps, Kept, RestoreStep
-----------------------------------------------------------------------------
(* Theorems *)

LEMMA InvInit == Init => IInv
  <1> SUFFICES ASSUME Init PROVE IInv
    OBVIOUS
  <1>1. \A i \in Ids : JobInv(i)
    BY DEF Init, JobInv, NoJob, Dumping, Copying, Has, Listed
  <1>2. RestoreInv
    BY DEF Init, RestoreInv, NoRestore
  <1> QED BY <1>1, <1>2, TypeInit DEF IInv

LEMMA InvStep ==
    ASSUME IInv, [Next]_vars
    PROVE  IInv' /\ \A j \in Ids : Has(j)' => Kept(j)
  <1>1. TypeOK'
    BY TypeStep DEF IInv
  <1>2. CASE Next
    <2>1. (\E i \in Ids : Destroy(i)) \/ Retention => \E S : Remove(S)
      BY DEF Destroy, Retention
    <2>2. Keeps
      BY <1>2, <2>1, CreateKeeps, RemoveKeeps, ImportKeeps, RestoreCallKeeps, CrashKeeps,
         WorkKeeps, RestoreKeeps, FlushKeeps DEF Next
    <2> QED BY <1>1, <2>2 DEF Keeps, IInv
  <1>3. CASE UNCHANGED vars
    <2>1. ASSUME NEW i \in Ids PROVE JobInv(i)'
      <3>1. JobInv(i)
        BY DEF IInv
      <3>2. Progress(i)' <=> Progress(i)
        BY <1>3 DEF vars, Progress, Copying, LiveWhole, Restoring
      <3> QED BY <1>3, <3>1, <3>2
              DEF vars, JobInv, Dumping, Copying, Has, Listed, Whole
    <2>2. RestoreInv'
      BY <1>3 DEF vars, IInv, RestoreInv, Listed, Has, Whole, Loadable, Plain, Dump, RestoreGivesAll
    <2> QED BY <1>1, <1>3, <2>1, <2>2 DEF IInv, vars, Kept
  <1> QED BY <1>2, <1>3

LEMMA InvAlways == Spec => []IInv
  BY InvInit, InvStep, PTL DEF Spec

\* A backup of the list whose creation is over, and nothing disturbed it, holds
\* the dump and every data directory.
THEOREM WholeAlways == Spec => []ListedIsWhole
  <1>1. IInv => ListedIsWhole
    BY DEF IInv, TypeOK, JobInv, ListedIsWhole
  <1> QED BY <1>1, InvAlways, PTL

\* A backup of the list whose creation is over is never written again.
THEOREM FrozenAlways == Spec => SettledIsFrozen
  <1>1. IInv /\ [Next]_vars =>
          [\A i \in DOMAIN dirs \cap DOMAIN dirs' :
             Listed(i) /\ i # mutex => dirs'[i] = dirs[i]]_vars
    <2> SUFFICES ASSUME IInv, [Next]_vars,
                        NEW i \in DOMAIN dirs \cap DOMAIN dirs', Listed(i), i # mutex
                 PROVE  dirs'[i] = dirs[i]
      OBVIOUS
    <2> QED BY InvStep DEF IInv, TypeOK, Kept, Has
  <1> QED BY <1>1, InvAlways, PTL DEF Spec, SettledIsFrozen

\* A restore of a whole backup whose dump was unpacked to the end before it was
\* loaded brought back everything when it comes to its last task.
THEOREM GivesAllAlways == Spec => []RestoreGivesAll
  <1>1. IInv => RestoreGivesAll
    BY DEF IInv, RestoreInv, RestoreGivesAll
  <1> QED BY <1>1, InvAlways, PTL
=============================================================================
