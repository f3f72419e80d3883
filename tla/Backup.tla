------------------------------- MODULE Backup -------------------------------
(***************************************************************************)
(* Backups: directories made, listed, removed, exported, imported and      *)
(* restored by requests and by the two cron jobs of one server process.    *)
(* A backup is a dump of the database and copies of the data directories,  *)
(* taken by two tasks at the same time; a task that is not waited for any  *)
(* more goes on.  Code between two awaits that really wait (a child        *)
(* process, a stream, an asynchronous file operation) is one step.         *)
(***************************************************************************)
EXTENDS Integers, FiniteSets, Functions

CONSTANTS
    MaxId,       \* bounds the backups ever made or imported
    LastItem,    \* the data directories are 1..LastItem (routesMap)
    MaxCopies    \* backup.max_copies, 0 when there is no limit

ASSUME BackupAssumption ==
    MaxId \in Nat /\ LastItem \in Nat \ {0} /\ MaxCopies \in Nat

VARIABLES
    dirs,         \* the backup directories, by id
    nextId,       \* the clock ids are taken from
    jobs,         \* the tasks of each creation
    mutex,        \* BackupService.mutex: the creation that holds it, or 0
    live,         \* the database and the data directories in use
    tmp,          \* the dump of each id, unpacked in the temporary directory
    writing,      \* ids whose unpacked dump is still being written
    restore,      \* the restore under way, or the last one
    maintenance   \* config maintenance_mode

vars == <<dirs, nextId, jobs, mutex, live, tmp, writing, restore, maintenance>>

Ids == 1..MaxId
Items == 1..LastItem
Extent == {"none", "part", "whole"}

\* `clean' is history: whether nothing disturbed the creation (see Disturb).
Dir == [meta : BOOLEAN,             \* backup.json
        sql : Extent,               \* db.sql
        zip : Extent,               \* db.sql.zip
        data : [Items -> Extent],
        clean : BOOLEAN]
NoDir == [meta |-> FALSE, sql |-> "none", zip |-> "none",
          data |-> [k \in Items |-> "none"], clean |-> FALSE]

Job == [pc : {"off", "cmd", "tasks", "zip"},
        dump : {"off", "start", "run", "done"},
        copy : {"off", "stat", "run", "done"},
        item : Items]
NoJob == [pc |-> "off", dump |-> "off", copy |-> "off", item |-> 1]
Going == {"start", "run", "stat", "empty", "load", "mark", "remove"}
\* Forgotten once it is over and no task is left behind.
Rest(job) == IF job.pc = "off" /\ {job.dump, job.copy} \cap Going = {}
             THEN NoJob ELSE job

\* How much of its content the database or a data directory has, and whether
\* it comes from the last restore (history).
Content == [is : Extent, new : BOOLEAN]
Old(content) == [content EXCEPT !.new = FALSE]
Nothing == [is |-> "none", new |-> TRUE]

Restore == [pc : {"off", "cmd", "unzip", "tasks", "migrate"},
            id : 0..MaxId,
            db : {"off", "empty", "load", "mark", "done"},
            data : {"off", "remove", "stat", "run", "done"},
            item : Items,
            sound : BOOLEAN]    \* history: the backup was and stayed whole, and
                                \* no dump was loaded while it was being written
NoRestore == [pc |-> "off", id |-> 0, db |-> "off", data |-> "off",
              item |-> 1, sound |-> FALSE]

TypeOK ==
    /\ DOMAIN dirs \subseteq Ids /\ dirs \in [DOMAIN dirs -> Dir]
    /\ nextId \in 1..(MaxId + 1)
    /\ jobs \in [Ids -> Job]
    /\ mutex \in Ids \cup {0}
    /\ live \in [db : Content, data : [Items -> Content]]
    /\ tmp \in [Ids -> Extent] /\ writing \subseteq Ids
    /\ restore \in Restore
    /\ maintenance \in BOOLEAN

Has(i) == i \in DOMAIN dirs
\* BackupService.getAll: the directories whose metadata can be loaded.
Listed(i) == Has(i) /\ dirs[i].meta
Whole(d) == "whole" \in {d.sql, d.zip} /\ \A k \in Items : d.data[k] = "whole"
LiveWhole == live.db.is = "whole" /\ \A k \in Items : live.data[k].is = "whole"
Without(S) == Restrict(dirs, DOMAIN dirs \ S)
\* Made, or made again: nothing stays of an earlier directory of that name.
Put(i, d) == [j \in DOMAIN dirs \cup {i} |-> IF j = i THEN d ELSE dirs[j]]
Restoring == restore # NoRestore

Init ==
    /\ dirs = << >>
    /\ nextId = 1
    /\ jobs = [i \in Ids |-> NoJob]
    /\ mutex = 0
    /\ live = LET good == [is |-> "whole", new |-> FALSE] IN
              [db |-> good, data |-> [k \in Items |-> good]]
    /\ tmp = [i \in Ids |-> "none"] /\ writing = {}
    /\ restore = NoRestore
    /\ maintenance = FALSE
-----------------------------------------------------------------------------
(***************************************************************************)
(* Creation, by a request or the cron job.  While the mutex is taken       *)
(* tryAcquire refuses, and nothing changes.                                *)
(***************************************************************************)
Create ==
    /\ mutex = 0 /\ nextId \in Ids
    /\ mutex' = nextId
    /\ jobs' = [jobs EXCEPT ![nextId].pc = "cmd"]
    /\ nextId' = nextId + 1
    /\ UNCHANGED <<dirs, live, tmp, writing, restore, maintenance>>

JobStep == UNCHANGED <<nextId, live, tmp, writing, restore, maintenance>>

\* Variant: an error leaves the directory as it is.
KeptFails(i, job) ==
    IF jobs[i].pc = "off"
    THEN /\ jobs' = [jobs EXCEPT ![i] = Rest(job)]
         /\ UNCHANGED <<dirs, mutex>>
    ELSE /\ jobs' = [jobs EXCEPT ![i] = Rest([job EXCEPT !.pc = "off"])]
         /\ mutex' = 0
         /\ UNCHANGED dirs

\* Variant: an error leaves the mutex taken.
StuckFails(i, job) ==
    IF jobs[i].pc = "off"
    THEN /\ jobs' = [jobs EXCEPT ![i] = Rest(job)]
         /\ UNCHANGED <<dirs, mutex>>
    ELSE /\ jobs' = [jobs EXCEPT ![i] = Rest([job EXCEPT !.pc = "off"])]
         /\ dirs' = Without({i})
         /\ UNCHANGED mutex

\* The first error ends the creation: its directory is removed and the mutex
\* released.  A task still running goes on, and its own error is ignored.
Fails(i, job) ==
    IF jobs[i].pc = "off"
    THEN /\ jobs' = [jobs EXCEPT ![i] = Rest(job)]
         /\ UNCHANGED <<dirs, mutex>>
    ELSE /\ jobs' = [jobs EXCEPT ![i] = Rest([job EXCEPT !.pc = "off"])]
         /\ dirs' = Without({i})
         /\ mutex' = 0

\* existsCmd('mysqldump'); then the directory, its metadata first, and the two
\* tasks.
Command(i) ==
    /\ jobs[i].pc = "cmd"
    /\ \/ Fails(i, NoJob)
       \/ /\ jobs' = [jobs EXCEPT ![i] = [pc |-> "tasks", dump |-> "start",
                                          copy |-> "stat", item |-> 1]]
          /\ dirs' = Put(i, [NoDir EXCEPT !.meta = TRUE,
                                          !.clean = LiveWhole /\ ~Restoring])
          /\ UNCHANGED mutex
    /\ JobStep

\* The shell opens db.sql, if its directory is there, and runs mysqldump.
DumpStart(i) ==
    /\ jobs[i].dump = "start"
    /\ IF Has(i)
       THEN /\ dirs' = [dirs EXCEPT ![i].sql = "part"]
            /\ jobs' = [jobs EXCEPT ![i].dump = "run"]
            /\ UNCHANGED mutex
       ELSE Fails(i, [jobs[i] EXCEPT !.dump = "off"])
    /\ JobStep

\* A file removed meanwhile stays removed, without an error.
DumpEnd(i) ==
    /\ jobs[i].dump = "run"
    /\ \/ /\ jobs' = [jobs EXCEPT ![i] = Rest([@ EXCEPT !.dump = "done"])]
          /\ dirs' = IF Has(i) /\ dirs[i].sql = "part" /\ live.db.is = "whole"
                     THEN [dirs EXCEPT ![i].sql = "whole"] ELSE dirs
          /\ UNCHANGED mutex
       \/ Fails(i, [jobs[i] EXCEPT !.dump = "off"])
    /\ JobStep

\* Variant: one directory too many.
OverrunNextItem(i) ==
    LET job == jobs[i] IN
    jobs' = [jobs EXCEPT ![i] =
               IF job.item > LastItem THEN Rest([job EXCEPT !.copy = "done"])
               ELSE [job EXCEPT !.copy = "stat", !.item = @ + 1]]

NextItem(i) ==
    LET job == jobs[i] IN
    jobs' = [jobs EXCEPT ![i] =
               IF job.item = LastItem THEN Rest([job EXCEPT !.copy = "done"])
               ELSE [job EXCEPT !.copy = "stat", !.item = @ + 1]]

\* exportDataDirectories: mkdirp makes every missing directory of the path.
CopyStart(i) ==
    LET k == jobs[i].item
        d == IF Has(i) THEN dirs[i] ELSE NoDir
    IN /\ jobs[i].copy = "stat"
       /\ IF live.data[k].is = "none"
          THEN NextItem(i) /\ UNCHANGED dirs
          ELSE /\ dirs' = Put(i, [d EXCEPT !.data[k] = "part"])
               /\ jobs' = [jobs EXCEPT ![i].copy = "run"]
       /\ UNCHANGED mutex
       /\ JobStep

CopyEnd(i) ==
    LET k == jobs[i].item IN
    /\ jobs[i].copy = "run"
    /\ \/ /\ NextItem(i)
          /\ dirs' = IF /\ Has(i) /\ dirs[i].data[k] = "part"
                        /\ live.data[k].is = "whole"
                     THEN [dirs EXCEPT ![i].data[k] = "whole"] ELSE dirs
          /\ UNCHANGED mutex
       \/ Fails(i, [jobs[i] EXCEPT !.copy = "off"])
    /\ JobStep

\* Variant: the dump is compressed while the directories are being copied.
EagerZipStart(i) ==
    /\ jobs[i].pc = "tasks" /\ jobs[i].dump = "done"
    /\ IF Has(i) /\ dirs[i].sql # "none"
       THEN /\ dirs' = [dirs EXCEPT ![i].zip = "part"]
            /\ jobs' = [jobs EXCEPT ![i] = [NoJob EXCEPT !.pc = "zip"]]
            /\ UNCHANGED mutex
       ELSE Fails(i, NoJob)
    /\ JobStep

\* Both tasks are done: db.sql is compressed, if it is there.
ZipStart(i) ==
    /\ jobs[i].pc = "tasks" /\ jobs[i].dump = "done" /\ jobs[i].copy = "done"
    /\ IF Has(i) /\ dirs[i].sql # "none"
       THEN /\ dirs' = [dirs EXCEPT ![i].zip = "part"]
            /\ jobs' = [jobs EXCEPT ![i] = [NoJob EXCEPT !.pc = "zip"]]
            /\ UNCHANGED mutex
       ELSE Fails(i, NoJob)
    /\ JobStep

\* db.sql is unlinked, the metadata loaded and the mutex released.
ZipEnd(i) ==
    /\ jobs[i].pc = "zip"
    /\ \/ /\ Listed(i)
          /\ dirs' = [dirs EXCEPT ![i] = [@ EXCEPT !.zip = dirs[i].sql, !.sql = "none"]]
          /\ jobs' = [jobs EXCEPT ![i] = NoJob]
          /\ mutex' = 0
       \/ Fails(i, NoJob)
    /\ JobStep
-----------------------------------------------------------------------------
(***************************************************************************)
(* Removal, export and import.  Reading the list, removing a directory and *)
(* copying one for export are synchronous.                                 *)
(***************************************************************************)
Remove(S) ==
    /\ dirs' = Without(S)
    /\ restore' = [restore EXCEPT !.sound = @ /\ restore.id \notin S]
    /\ UNCHANGED <<nextId, jobs, mutex, live, tmp, writing, maintenance>>

Destroy(i) == Listed(i) /\ ~maintenance /\ Remove({i})

\* The cron job: the oldest beyond max_copies, then those older than max_days,
\* which a creation under way is not.  Whatever is listed counts as a copy.
Retention ==
    LET listed == {i \in DOMAIN dirs : Listed(i)}
        newer(i) == {j \in listed : j > i}
        extra == IF MaxCopies = 0 THEN {}
                 ELSE {i \in listed : Cardinality(newer(i)) >= MaxCopies}
    IN \E day \in 0..MaxId :
         LET old == {i \in listed : i <= day} IN
         /\ mutex = 0 \/ day < mutex
         /\ extra \cup old # {}
         /\ Remove(extra \cup old)

\* export and import: a copy of a listed directory, as it is, comes back under
\* a new id; all that import asks of the file is metadata.  The file may have
\* been kept by its user for any time.
Import(i) ==
    /\ Listed(i) /\ nextId \in Ids /\ ~maintenance
    /\ dirs' = Put(nextId, [dirs[i] EXCEPT !.clean = @ /\ i # mutex])
    /\ nextId' = nextId + 1
    /\ UNCHANGED <<jobs, mutex, live, tmp, writing, restore, maintenance>>
-----------------------------------------------------------------------------
(***************************************************************************)
(* Restore.  It does not take the mutex.  The model has one restore at a   *)
(* time, counting the task that goes on after the other's error.           *)
(***************************************************************************)
Disturb == IF mutex # 0 /\ Has(mutex) THEN [dirs EXCEPT ![mutex].clean = FALSE]
                                      ELSE dirs

RestoreCall(i) ==
    /\ Listed(i) /\ ~maintenance /\ ~Restoring
    /\ restore' = [NoRestore EXCEPT !.pc = "cmd", !.id = i,
                                    !.sound = i # mutex /\ Whole(dirs[i])]
    /\ maintenance' = TRUE
    /\ dirs' = Disturb
    /\ live' = [db |-> Old(live.db), data |-> [k \in Items |-> Old(live.data[k])]]
    /\ UNCHANGED <<nextId, jobs, mutex, tmp, writing>>

RestoreStep == UNCHANGED <<dirs, nextId, jobs, mutex>>

Settle(then) == IF then.pc = "off" /\ {then.db, then.data} \cap Going = {}
                THEN NoRestore ELSE then

\* An error ends the sequence, not the other task; maintenance ends with it.
RestoreFails(then) ==
    /\ restore' = Settle([then EXCEPT !.pc = "off"])
    /\ maintenance' = IF restore.pc = "off" THEN maintenance ELSE FALSE

Tasks == [restore EXCEPT !.pc = "tasks", !.db = "empty", !.data = "remove",
                         !.item = 1]

\* existsCmd('mysql'); then the sequence, with or without its first task.
RestoreCommand ==
    /\ restore.pc = "cmd"
    /\ \/ RestoreFails(restore)
       \/ /\ restore' = IF Has(restore.id) /\ dirs[restore.id].zip # "none"
                        THEN [restore EXCEPT !.pc = "unzip"] ELSE Tasks
          /\ UNCHANGED maintenance
    /\ UNCHANGED <<live, tmp, writing>>
    /\ RestoreStep

Zipped == IF Has(restore.id) THEN dirs[restore.id].zip ELSE "none"

\* Resolves when the zip has been read: the write stream of db.sql is open.
Unzip ==
    LET begun == [tmp EXCEPT ![restore.id] = "part"] IN
    /\ restore.pc = "unzip"
    /\ \/ /\ Zipped # "part"
          /\ restore' = Tasks
          /\ IF Zipped = "whole"
             THEN tmp' = begun /\ writing' = writing \cup {restore.id}
             ELSE UNCHANGED <<tmp, writing>>
          /\ UNCHANGED maintenance
       \/ /\ RestoreFails(restore)
          /\ \/ UNCHANGED <<tmp, writing>>
             \/ tmp' = begun /\ writing' = writing \ {restore.id}
    /\ UNCHANGED live
    /\ RestoreStep

Flush(i) ==
    /\ i \in writing
    /\ tmp' = [tmp EXCEPT ![i] = "whole"]
    /\ writing' = writing \ {i}
    /\ UNCHANGED <<live, restore, maintenance>>
    /\ RestoreStep

\* importDatabase: every table is dropped,
DbEmpty ==
    /\ restore.db = "empty"
    /\ \/ /\ live' = [live EXCEPT !.db = Nothing]
          /\ restore' = [restore EXCEPT !.db = "load"]
          /\ UNCHANGED maintenance
       \/ /\ RestoreFails([restore EXCEPT !.db = "off"])
          /\ UNCHANGED live
    /\ UNCHANGED <<tmp, writing>>
    /\ RestoreStep

\* the dump loaded, db.sql before the unpacked one, as much as there is of it,
Plain == Has(restore.id) /\ dirs[restore.id].sql # "none"
Dump == IF Plain THEN dirs[restore.id].sql ELSE tmp[restore.id]

DbLoad ==
    /\ restore.db = "load"
    /\ \E is \in Extent :
         /\ Dump = "none" => is = "none"
         /\ Dump = "part" => is = "part"
         /\ live' = [live EXCEPT !.db.is = is]
         /\ \/ /\ is = Dump /\ is # "none"
               /\ restore' = [restore EXCEPT !.db = "mark",
                     !.sound = @ /\ (Plain \/ restore.id \notin writing)]
               /\ UNCHANGED maintenance
            \/ RestoreFails([restore EXCEPT !.db = "off"])
    /\ UNCHANGED <<tmp, writing>>
    /\ RestoreStep

\* and every firewall and VPN marked for compilation and installation.
DbMark ==
    /\ restore.db = "mark"
    /\ \/ /\ restore' = Settle([restore EXCEPT !.db = "done"])
          /\ UNCHANGED maintenance
       \/ RestoreFails([restore EXCEPT !.db = "off"])
    /\ UNCHANGED <<live, tmp, writing>>
    /\ RestoreStep

\* importDataDirectories: each is removed, and copied if the backup has it.
DataNext ==
    restore' = IF restore.item = LastItem
               THEN Settle([restore EXCEPT !.data = "done"])
               ELSE [restore EXCEPT !.data = "remove", !.item = @ + 1]

Source(k) == IF Has(restore.id) THEN dirs[restore.id].data[k] ELSE "none"

DataRemove ==
    /\ restore.data = "remove"
    /\ live' = [live EXCEPT !.data[restore.item] = Nothing]
    /\ restore' = [restore EXCEPT !.data = "stat"]
    /\ UNCHANGED <<tmp, writing, maintenance>>
    /\ RestoreStep

DataStart ==
    /\ restore.data = "stat"
    /\ IF Source(restore.item) = "none"
       THEN DataNext /\ UNCHANGED live
       ELSE /\ live' = [live EXCEPT !.data[restore.item].is = "part"]
            /\ restore' = [restore EXCEPT !.data = "run"]
    /\ UNCHANGED <<tmp, writing, maintenance>>
    /\ RestoreStep

DataEnd ==
    LET k == restore.item IN
    /\ restore.data = "run"
    /\ \/ /\ live' = IF Source(k) = "whole"
                     THEN [live EXCEPT !.data[k].is = "whole"] ELSE live
          /\ DataNext
          /\ UNCHANGED maintenance
       \/ /\ RestoreFails([restore EXCEPT !.data = "off"])
          /\ UNCHANGED live
    /\ UNCHANGED <<tmp, writing>>
    /\ RestoreStep

\* Variant: the first task that is done is enough.
RaceRemoveTmp ==
    /\ restore.pc = "tasks" /\ "done" \in {restore.db, restore.data}
    /\ tmp' = [tmp EXCEPT ![restore.id] = "none"] /\ writing' = writing \ {restore.id}
    /\ restore' = [restore EXCEPT !.pc = "migrate"]
    /\ UNCHANGED <<live, maintenance>>
    /\ RestoreStep

\* Both tasks are done: the unpacked dump is removed, then the migrations run.
RemoveTmp ==
    /\ restore.pc = "tasks" /\ restore.db = "done" /\ restore.data = "done"
    /\ tmp' = [tmp EXCEPT ![restore.id] = "none"] /\ writing' = writing \ {restore.id}
    /\ restore' = [restore EXCEPT !.pc = "migrate", !.db = "off", !.data = "off"]
    /\ UNCHANGED <<live, maintenance>>
    /\ RestoreStep

Migrate ==
    /\ restore.pc = "migrate"
    /\ restore' = NoRestore   \* well or not
    /\ maintenance' = FALSE
    /\ UNCHANGED <<live, tmp, writing>>
    /\ RestoreStep
-----------------------------------------------------------------------------
\* The process ends, its child processes with it (one systemd unit), and starts
\* again: files and database stay as they are, a dump half written too.
Crash ==
    /\ dirs' = Disturb
    /\ jobs' = [i \in Ids |-> NoJob]
    /\ mutex' = 0
    /\ restore' = NoRestore
    /\ maintenance' = FALSE
    /\ writing' = {}
    /\ UNCHANGED <<nextId, live, tmp>>

Work(i) ==
    \/ Command(i) \/ DumpStart(i) \/ DumpEnd(i) \/ CopyStart(i) \/ CopyEnd(i)
    \/ ZipStart(i) \/ ZipEnd(i)

RestoreWork ==
    \/ RestoreCommand \/ Unzip \/ DbEmpty \/ DbLoad \/ DbMark
    \/ DataRemove \/ DataStart \/ DataEnd \/ RemoveTmp \/ Migrate

Next ==
    \/ Create \/ Retention \/ Crash
    \/ \E i \in Ids : Destroy(i) \/ Import(i) \/ RestoreCall(i)
    \/ \E i \in Ids : Work(i) \/ Flush(i)
    \/ RestoreWork

\* Child processes and file operations end, well or badly.
Fairness == \A i \in Ids : WF_vars(Work(i))

Spec == Init /\ [][Next]_vars /\ Fairness
-----------------------------------------------------------------------------
\* A backup of the list whose creation is over holds the dump and every data
\* directory, whatever failed or was removed meanwhile: an error destroys the
\* directory (create).  `clean' excepts creations cut short by a crash, those
\* that overlap a restore or follow a failed one, and imports of a backup that
\* was exported before it was ready.
ListedIsWhole ==
    \A i \in DOMAIN dirs :
        Listed(i) /\ i # mutex /\ dirs[i].clean => Whole(dirs[i])

\* A backup of the list whose creation is over is never written again, only
\* removed; tasks left behind by an error do not reach it.
SettledIsFrozen ==
    [][\A i \in DOMAIN dirs \cap DOMAIN dirs' :
        Listed(i) /\ i # mutex => dirs'[i] = dirs[i]]_vars

\* When a restore comes to its last task, the migrations, the database and
\* every data directory are those of the backup, if it was whole when the
\* restore was called, was not removed during it, and its dump had been unpacked
\* to the end when it was loaded.
RestoreGivesAll ==
    restore.pc = "migrate" /\ restore.sound =>
        LET restored == [is |-> "whole", new |-> TRUE] IN
        live.db = restored /\ \A k \in Items : live.data[k] = restored

\* No creation keeps the mutex for ever, whatever step fails.
MutexFreed == []<>(mutex = 0)
=============================================================================
