------------------------ MODULE HistoryArchiveProofs ------------------------
(***************************************************************************)
(* Whatever fails, and however many rows, days and batches there are, the  *)
(* archive loses no row but those whose file was not written when its zip  *)
(* was removed, and archives none twice but those of a batch whose run     *)
(* failed after it was appended.                                           *)
(***************************************************************************)
EXTENDS HistoryArchive, SequenceTheorems, TLAPS

Whole(f) == f \notin {Absent, Torn}

\* A run has chosen its day.
Ongoing == job.pc \notin {"idle", "count"}
\* Days whose zip the retention cannot have reached.
Recent(d) == day <= d + Retention

\* What the files of the day's run hold, phase by phase.
Phase ==
    /\ Ongoing => job.day \in Days /\ Recent(job.day)
    /\ job.pc = "unzip" => zip[job.day] # Absent
    /\ job.pc = "unlink" =>
         /\ Whole(zip[job.day])
         /\ \/ stream[job.day] = zip[job.day]
            \/ stream[job.day] = Absent /\ sql[job.day] = zip[job.day]
    /\ job.pc \in {"select", "append", "delete", "zip"} => zip[job.day] = Absent
    /\ job.pc = "delete" => job.batch \subseteq Readable(sql[job.day]) \cup cut[job.day]
    /\ job.pc = "close" => zip[job.day] = Torn /\ sql[job.day] # Absent
    /\ job.pc = "remove" => Whole(zip[job.day])

\* The files of every day, at any time: the file adds nothing to a zip that is
\* whole, and while it is being written it holds nothing that counts.
FilesInv ==
    \A d \in Days :
        /\ zip[d] # Absent => d <= made[d]
        /\ Whole(zip[d]) => Readable(sql[d]) \subseteq Readable(zip[d]) \cup cut[d] \cup gone
        /\ stream[d] # Absent =>
             /\ Readable(sql[d]) \subseteq cut[d]
             /\ zip[d] = stream[d] \/ Readable(stream[d]) \subseteq cut[d] \cup gone

IInv == TypeOK /\ Phase /\ FilesInv /\ NothingLost
-----------------------------------------------------------------------------
(* Files *)

\* A file holds rows.
LEMMA FileRows ==
    ASSUME NEW f, IsZip(f)
    PROVE  Readable(f) \subseteq Rows
  BY DEF Readable, IsZip, IsFile, Content

LEMMA HalfFile == /\ IsFile(Half) /\ Whole(Half) /\ Readable(Half) = {}
                  /\ Absent \notin Content /\ Torn \notin Content
  <1>1. Half \in Content /\ DOMAIN Half = {1} /\ Half[1] = {}
    BY DEF Half, Content
  <1>2. Absent \notin Content /\ Torn \notin Content
    BY HistoryArchiveAssumption DEF Content, Rows
  <1>3. Whole(Half)
    BY <1>1, <1>2 DEF Whole
  <1> QED BY <1>1, <1>2, <1>3 DEF IsFile, Readable, Whole

\* File g is f with an INSERT of the batch at n.
Longer(f, g, batch, n) ==
    /\ f # Absent => n \notin DOMAIN f
    /\ DOMAIN g = (IF f = Absent THEN {} ELSE DOMAIN f) \cup {n}
    /\ g[n] = batch
    /\ f # Absent => \A k \in DOMAIN f : g[k] = f[k]

\* An INSERT more keeps what a file holds and adds the batch, behind it.
LEMMA WithBatch ==
    ASSUME NEW f, IsFile(f), NEW batch \in SUBSET Rows
    PROVE  /\ IsFile(With(f, batch)) /\ Whole(With(f, batch))
           /\ Readable(With(f, batch)) = Readable(f) \cup batch
           /\ \E n : Longer(f, With(f, batch), batch, n)
  <1>1. CASE f = Absent
    <2>1. With(f, batch) = <<batch>> /\ <<batch>> \in Content
      BY <1>1 DEF With, Content
    <2>2. Whole(<<batch>>)
      BY <2>1, HalfFile DEF Whole
    <2>3. DOMAIN <<batch>> = {1} /\ <<batch>>[1] = batch
      OBVIOUS
    <2>4. Readable(<<batch>>) = batch /\ Readable(f) = {}
      BY <1>1, <2>2, <2>3 DEF Readable, Whole
    <2>5. Longer(f, With(f, batch), batch, 1)
      BY <1>1, <2>1, <2>3 DEF Longer
    <2> QED BY <1>1, <2>1, <2>2, <2>4, <2>5 DEF IsFile
  <1>2. CASE f # Absent
    <2>1. f \in Content /\ f \in Seq(SUBSET Rows) /\ Whole(f)
      BY <1>2, HalfFile DEF IsFile, Content, Whole
    <2>2. With(f, batch) = Append(f, batch)
      BY <1>2 DEF With
    <2>3. Append(f, batch) \in Content
      BY <2>1 DEF Content
    <2>4. Whole(Append(f, batch))
      BY <2>3, HalfFile DEF Whole
    <2>5. /\ DOMAIN f = 1..Len(f)
          /\ DOMAIN Append(f, batch) = 1..(Len(f) + 1)
          /\ Len(f) \in Nat
          /\ \A x \in 1..Len(f) : Append(f, batch)[x] = f[x]
          /\ Append(f, batch)[Len(f) + 1] = batch
      BY <2>1
    <2>6. 1..(Len(f) + 1) = 1..Len(f) \cup {Len(f) + 1} /\ Len(f) + 1 \notin 1..Len(f)
      BY <2>5
    <2>7. Readable(Append(f, batch)) = Readable(f) \cup batch
      <3>1. /\ Readable(f) = UNION {f[x] : x \in DOMAIN f}
            /\ Readable(Append(f, batch)) =
                 UNION {Append(f, batch)[x] : x \in DOMAIN Append(f, batch)}
        BY <2>1, <2>4 DEF Readable, Whole
      <3> QED BY <2>5, <2>6, <3>1
    <2>8. Longer(f, With(f, batch), batch, Len(f) + 1)
      BY <1>2, <2>2, <2>5, <2>6 DEF Longer
    <2> QED BY <1>2, <2>2, <2>3, <2>4, <2>7, <2>8 DEF IsFile
  <1> QED BY <1>1, <1>2

\* What the step that fails has written.
LEMMA HalfDoneKeeps ==
    ASSUME TypeOK, Phase, Fault
    PROVE  /\ job' = Idle /\ zip' = zip /\ DOMAIN sql' = Days /\ DOMAIN stream' = Days
           /\ \A d \in Days :
                /\ stream'[d] \in {stream[d], Absent}
                /\ \/ sql'[d] = sql[d]
                   \/ sql'[d] = Half /\ Whole(zip[d]) /\ stream'[d] = Absent
                   \/ sql'[d] = With(sql[d], {})
  <1>1. DOMAIN sql = Days /\ DOMAIN stream = Days
    BY DEF TypeOK
  <1>2. \A d \in Days : NoStream[d] = Absent
    BY DEF NoStream
  <1>3. job' = Idle /\ zip' = zip /\ stream' \in {stream, NoStream} /\ HalfDone
    BY DEF Fault
  <1>4. DOMAIN stream' = Days /\ \A d \in Days : stream'[d] \in {stream[d], Absent}
    BY <1>1, <1>2, <1>3 DEF NoStream
  <1>5. CASE sql' = sql
    BY <1>1, <1>3, <1>4, <1>5
  <1>6. CASE sql' = [sql EXCEPT ![job.day] = With(@, {})]
    BY <1>1, <1>3, <1>4, <1>6
  <1>7. CASE /\ At("unzip") /\ zip[job.day] # Torn
             /\ sql' = [sql EXCEPT ![job.day] = Half] /\ stream' = NoStream
    <2>1. job.day \in Days /\ Whole(zip[job.day])
      BY <1>7 DEF At, Phase, Ongoing, Whole
    <2> QED BY <1>1, <1>2, <1>3, <1>4, <1>7, <2>1
  <1> QED BY <1>3, <1>5, <1>6, <1>7 DEF HalfDone

\* The retention reaches only days that have passed.
LEMMA RetainSpares ==
    ASSUME TypeOK, FilesInv, Retain, NEW d \in Days, Recent(d)
    PROVE  zip[d]' = zip[d]
  <1>1. d \in Int /\ made[d] \in Int /\ day \in Int /\ Retention \in Int
    BY HistoryArchiveAssumption DEF TypeOK, Days
  <1>2. ~(zip[d] # Absent /\ made[d] + Retention < day)
    BY <1>1 DEF FilesInv, Recent
  <1> QED BY <1>2 DEF Retain
-----------------------------------------------------------------------------
(* Types *)

LEMMA JobType ==
    ASSUME TypeOK
    PROVE  /\ job \in [pc : Labels, day : 0..day, limit : 0..old, batch : SUBSET Rows]
           /\ Idle \in [pc : Labels, day : 0..day, limit : 0..old, batch : SUBSET Rows]
           /\ \A label \in Labels : Goto(label) =>
                job' \in [pc : Labels, day : 0..day, limit : 0..old, batch : SUBSET Rows]
  <1>1. day \in Nat /\ old \in Nat
    BY DEF TypeOK, Days
  <1> QED BY <1>1 DEF TypeOK, Idle, Labels, Goto

LEMMA TypeInit == Init => TypeOK
  <1> SUFFICES ASSUME Init PROVE TypeOK
    OBVIOUS
  <1>1. /\ day \in Days /\ next \in 1..(MaxRow + 1) /\ table \subseteq 1..(next - 1)
        /\ old \in 0..(next - 1) /\ faults \in 0..MaxFaults /\ gone \subseteq Rows
    BY HistoryArchiveAssumption DEF Init, Days
  <1>2. /\ DOMAIN sql = Days /\ DOMAIN zip = Days /\ made \in [Days -> 0..day]
        /\ DOMAIN stream = Days
        /\ \A d \in Days : IsFile(sql[d]) /\ IsZip(zip[d]) /\ IsFile(stream[d])
    BY DEF Init, IsFile, IsZip, NoStream
  <1>3. job \in [pc : Labels, day : 0..day, limit : 0..old, batch : SUBSET Rows]
    BY DEF Init, Idle, Labels
  <1>4. cut \in [Days -> SUBSET Rows] /\ repeated \subseteq Rows
    BY DEF Init
  <1> QED BY <1>1, <1>2, <1>3, <1>4 DEF TypeOK

LEMMA TypeStep ==
    ASSUME TypeOK, Phase, [Next]_vars
    PROVE  TypeOK'
  <1> USE HistoryArchiveAssumption
  <1>0. job \in [pc : Labels, day : 0..day, limit : 0..old, batch : SUBSET Rows]
    BY DEF TypeOK
  <1>a. \A d \in Days : Readable(stream[d]) \subseteq Rows /\ Readable(zip[d]) \subseteq Rows
    BY FileRows DEF TypeOK, IsZip
  <1>1. CASE Record
    <2>1. /\ next' \in 1..(MaxRow + 1) /\ table' \subseteq 1..(next' - 1)
          /\ old \in 0..(next' - 1)
      BY <1>1 DEF Record, TypeOK
    <2> QED BY <1>1, <2>1 DEF Record, Files, History, TypeOK
  <1>2. CASE Expire
    <2>1. old' \in 0..(next - 1) /\ 0..old \subseteq 0..old'
      BY <1>2 DEF Expire, TypeOK
    <2> QED BY <1>0, <1>2, <2>1 DEF Expire, Files, History, TypeOK
  <1>3. CASE Midnight
    <2>1. day' \in Days /\ 0..day \subseteq 0..day'
      BY SMTT(30), <1>3 DEF Midnight, TypeOK, Days
    <2> QED BY <1>0, <1>3, <2>1 DEF Midnight, Files, History, TypeOK
  <1>4. CASE Retain
    <2>1. \A d \in Days : zip[d]' \in {Absent, zip[d]}
      BY <1>4 DEF Retain
    <2>2. gone' \subseteq Rows
      BY <1>4, <1>a DEF Retain, TypeOK
    <2> QED BY <1>4, <2>1, <2>2 DEF Retain, TypeOK, IsFile, IsZip
  <1>5. CASE Start \/ Look
    BY <1>5, JobType DEF Start, Look, Step, Files, TypeOK, Labels
  <1>6. CASE Count
    <2>1. job' \in [pc : Labels, day : 0..day, limit : 0..old, batch : SUBSET Rows]
      <3>1. day \in 0..day /\ old \in 0..old
        BY DEF TypeOK, Days
      <3> QED BY <1>0, <1>6, <3>1, JobType DEF Count, Labels
    <2> QED BY <1>6, <2>1 DEF Count, Step, Files, TypeOK
  <1>7. CASE Unzip
    <2>1. job.day \in Days
      BY <1>7 DEF Unzip, Step, At, Phase, Ongoing
    <2>2. \A d \in Days : IsFile(sql[d]') /\ IsFile(stream[d]')
      BY <1>7, <2>1, HalfFile DEF Unzip, TypeOK, IsZip
    <2> QED BY <1>7, <2>2, JobType DEF Unzip, Step, TypeOK, Labels
  <1>8. CASE Flush
    <2>1. PICK d \in Days :
            /\ sql' = [sql EXCEPT ![d] = stream[d]]
            /\ stream' = [stream EXCEPT ![d] = Absent]
            /\ cut' \in {cut, [cut EXCEPT ![d] = @ \ Readable(stream[d])]}
            /\ UNCHANGED <<day, table, next, old, zip, made, job, faults, gone, repeated>>
      BY <1>8 DEF Flush
    <2>2. cut' \in [Days -> SUBSET Rows]
      BY <2>1 DEF TypeOK
    <2> QED BY <2>1, <2>2 DEF TypeOK, IsFile
  <1>9. CASE Unlink
    <2>1. \A d \in Days : IsZip(zip[d]')
      BY <1>9 DEF Unlink, TypeOK, IsFile, IsZip
    <2>2. cut' \in [Days -> SUBSET Rows]
      <3>1. job.day \in Days
        BY <1>9 DEF Unlink, Step, At, Phase, Ongoing
      <3> QED BY <1>9, <1>a, <3>1 DEF Unlink, TypeOK
    <2> QED BY <1>9, <2>1, <2>2, JobType DEF Unlink, Step, TypeOK, Labels
  <1>10. CASE Select
    <2>1. table \subseteq Rows
      BY DEF TypeOK, Rows
    <2>2. job' \in [pc : Labels, day : 0..day, limit : 0..old, batch : SUBSET Rows]
      BY <1>0, <1>10, <2>1, JobType DEF Select, Expired, Labels
    <2> QED BY <1>10, <2>2 DEF Select, Step, Files, TypeOK
  <1>11. CASE AppendRows
    <2>1. \A d \in Days : IsFile(sql[d]')
      <3>1. job.batch \in SUBSET Rows
        BY <1>0
      <3>2. \A d \in Days : sql[d]' \in {sql[d], With(sql[d], job.batch)}
        BY <1>11 DEF AppendRows, TypeOK
      <3>3. \A d \in Days : IsFile(With(sql[d], job.batch))
        BY <3>1, WithBatch DEF TypeOK
      <3> QED BY <3>2, <3>3 DEF TypeOK
    <2>2. cut' \in [Days -> SUBSET Rows]
      BY <1>0, <1>11 DEF AppendRows, TypeOK
    <2> QED BY <1>11, <2>1, <2>2, JobType DEF AppendRows, Step, TypeOK, Labels
  <1>12. CASE DeleteRows
    <2>1. job' \in [pc : Labels, day : 0..day, limit : 0..old, batch : SUBSET Rows]
      BY <1>0, <1>12 DEF DeleteRows, Labels
    <2> QED BY <1>12, <2>1 DEF DeleteRows, Step, Files, TypeOK
  <1>13. CASE Zip
    <2>1. made' \in [Days -> 0..day] /\ \A d \in Days : IsZip(zip[d]')
      <3>1. made' \in [Days -> 0..day]
        <4>1. day \in 0..day /\ made \in [Days -> 0..day]
          BY DEF TypeOK, Days
        <4>2. made' = [made EXCEPT ![job.day] = day]
          BY <1>13 DEF Zip
        <4> QED BY <4>1, <4>2
      <3>2. \A d \in Days : IsZip(zip[d]')
        BY <1>13 DEF Zip, TypeOK, IsZip
      <3> QED BY <3>1, <3>2
    <2> QED BY <1>13, <2>1, JobType DEF Zip, Step, TypeOK, Labels
  <1>14. CASE Close
    <2>1. job.day \in Days
      BY <1>14 DEF Close, Step, At, Phase, Ongoing
    <2>2. \A d \in Days : IsZip(zip[d]')
      BY <1>14, <2>1 DEF Close, TypeOK, IsZip
    <2> QED BY <1>14, <2>2, JobType DEF Close, Step, TypeOK, Labels
  <1>15. CASE Remove
    <2>1. \A d \in Days : IsFile(sql[d]') /\ IsFile(stream[d]')
      BY <1>15 DEF Remove, TypeOK, IsFile
    <2> QED BY <1>15, <2>1, JobType DEF Remove, Step, TypeOK
  <1>16. CASE CannotUnzip
    BY <1>16, JobType DEF CannotUnzip, Step, Files, TypeOK
  <1>17. CASE Fault
    <2>1. faults' \in 0..MaxFaults /\ repeated' \subseteq Rows
      BY <1>0, <1>17 DEF Fault, TypeOK
    <2>2. /\ DOMAIN sql' = Days /\ DOMAIN stream' = Days /\ zip' = zip
          /\ \A d \in Days : IsFile(sql[d]') /\ IsFile(stream[d]')
      <3>1. {} \in SUBSET Rows /\ \A d \in Days : IsFile(sql[d]) /\ IsFile(stream[d])
        BY DEF TypeOK
      <3>2. \A d \in Days : IsFile(With(sql[d], {}))
        BY <3>1, WithBatch
      <3> QED BY <1>17, <3>1, <3>2, HalfDoneKeeps, HalfFile DEF IsFile
    <2> QED BY <1>17, <2>1, <2>2, JobType DEF Fault, TypeOK
  <1>18. CASE UNCHANGED vars
    BY <1>18 DEF vars, TypeOK
  <1> QED
    BY <1>1, <1>2, <1>3, <1>4, <1>5, <1>6, <1>7, <1>8, <1>9, <1>10, <1>11, <1>12,
       <1>13, <1>14, <1>15, <1>16, <1>17, <1>18 DEF Next, Run
-----------------------------------------------------------------------------
(* The archive *)

\* Where a row may be.
Safe(i) ==
    \/ i \in table \cup gone
    \/ \E d \in Days : i \in Readable(sql[d]) \cup Readable(zip[d]) \cup cut[d]

\* A step that leaves every row it finds somewhere loses none.
LEMMA NoneLost ==
    ASSUME NothingLost, next' = next, \A i : Safe(i) => Safe(i)'
    PROVE  NothingLost'
  BY DEF NothingLost, Safe

\* A step after which the files hold what they held, or more.
LEMMA FilesGrow ==
    ASSUME table \cup gone \subseteq table' \cup gone',
           \A d \in Days :
             Readable(sql[d]) \cup Readable(zip[d]) \cup cut[d] \subseteq
                  Readable(sql[d]') \cup Readable(zip[d]') \cup cut[d]' \cup gone'
    PROVE  \A i : Safe(i) => Safe(i)'
  BY DEF Safe

LEMMA InvInit == Init => IInv
  <1> SUFFICES ASSUME Init PROVE IInv
    OBVIOUS
  <1>1. TypeOK
    BY TypeInit
  <1>2. Phase
    BY DEF Init, Idle, Phase, Ongoing
  <1>3. FilesInv
    BY HistoryArchiveAssumption DEF Init, FilesInv, Whole, NoStream
  <1>4. NothingLost
    BY DEF Init, NothingLost
  <1> QED BY <1>1, <1>2, <1>3, <1>4 DEF IInv

\* Around the archive.
LEMMA AroundStep ==
    ASSUME IInv, Record \/ Expire \/ Midnight \/ Retain
    PROVE  Phase' /\ FilesInv' /\ NothingLost'
  <1> USE DEF IInv
  <1>1. CASE Record
    <2>1. Phase' /\ FilesInv'
      BY <1>1 DEF Record, Files, History, Phase, FilesInv, Ongoing, Recent
    <2>2. \A i \in 1..(next' - 1) : i \in 1..(next - 1) \/ i \in table'
      BY <1>1 DEF Record, TypeOK
    <2>3. NothingLost'
      BY <1>1, <2>2 DEF Record, Files, History, NothingLost
    <2> QED BY <2>1, <2>3
  <1>2. CASE Expire
    BY <1>2 DEF Expire, Files, History, Phase, FilesInv, Ongoing, Recent, NothingLost
  <1>3. CASE Midnight
    <2>1. day \in Nat /\ Retention \in Nat /\ job.day \in Nat
      BY HistoryArchiveAssumption DEF TypeOK, Days
    <2>3. Ongoing => Recent(job.day)'
      BY <1>3, <2>1 DEF Midnight, Recent, Phase, Days
    <2>4. Phase'
      BY <1>3, <2>3 DEF Midnight, Files, History, Phase, Ongoing
    <2>5. FilesInv'
      BY <1>3 DEF Midnight, Files, History, FilesInv
    <2> QED BY <1>3, <2>4, <2>5 DEF Midnight, Files, History, NothingLost
  <1>4. CASE Retain
    <2>0. UNCHANGED <<day, table, next, sql, made, job, stream, cut>>
      BY <1>4 DEF Retain
    <2>1. \A d \in Days :
            \/ zip[d]' = zip[d]
            \/ zip[d]' = Absent /\ Readable(zip[d]) \subseteq gone'
      <3> DEFINE aged == {d \in Days : zip[d] # Absent /\ made[d] + Retention < day}
      <3>1. /\ zip' = [d \in Days |-> IF d \in aged THEN Absent ELSE zip[d]]
            /\ gone' = gone \cup UNION {Readable(zip[d]) : d \in aged}
        BY <1>4 DEF Retain
      <3> HIDE DEF aged
      <3> QED BY <3>1
    <2>2. gone \subseteq gone'
      BY <1>4 DEF Retain
    <2>3. Ongoing => zip'[job.day] = zip[job.day]
      BY <1>4, RetainSpares DEF Phase
    <2>4. Phase'
      BY <2>0, <2>3 DEF Phase, Ongoing, Recent
    <2>5. FilesInv'
      BY <2>0, <2>1, <2>2 DEF FilesInv, Whole
    <2>6. NothingLost'
      BY <2>0, <2>1, <2>2, FilesGrow, NoneLost
    <2> QED BY <2>4, <2>5, <2>6
  <1> QED BY <1>1, <1>2, <1>3, <1>4

\* The steps that touch no file.
LEMMA IdleStep ==
    ASSUME IInv,
           \/ Start \/ Count \/ Look \/ Select \/ CannotUnzip
           \/ UNCHANGED vars
    PROVE  Phase' /\ FilesInv' /\ NothingLost'
  <1> USE DEF IInv
  <1>1. UNCHANGED <<day, next, table, sql, zip, made, stream, gone, cut>>
    BY DEF Start, Count, Look, Select, CannotUnzip, vars, Step, Files
  <1>2. FilesInv' /\ NothingLost'
    BY <1>1 DEF FilesInv, NothingLost
  <1>3. Phase'
    <2>1. CASE Start \/ CannotUnzip
      BY <1>1, <2>1 DEF Start, CannotUnzip, Step, At, Goto, Idle, Phase, Ongoing, TypeOK
    <2>2. CASE Count
      <3>1. day \in Days /\ day <= day + Retention
        BY HistoryArchiveAssumption DEF TypeOK, Days
      <3> QED BY <1>1, <2>2, <3>1 DEF Count, Step, At, Idle, Phase, Ongoing, Recent, TypeOK
    <2>3. CASE Look
      <3>1. /\ job'.day = job.day
            /\ job'.pc = IF zip[job.day] # Absent THEN "unzip" ELSE "select"
            /\ job.pc = "look"
        BY <2>3 DEF Look, Step, At, Goto, TypeOK
      <3> QED BY <1>1, <3>1 DEF Phase, Ongoing, Recent
    <2>4. CASE Select
      BY <1>1, <2>4 DEF Select, Step, At, Goto, Phase, Ongoing, Recent, TypeOK
    <2>5. CASE UNCHANGED vars
      BY <2>5 DEF vars, Phase, Ongoing, Recent
    <2> QED BY <2>1, <2>2, <2>3, <2>4, <2>5
  <1> QED BY <1>2, <1>3

\* The rest of the file is written, whatever the run does meanwhile.
LEMMA FlushStep ==
    ASSUME IInv, Flush
    PROVE  Phase' /\ FilesInv' /\ NothingLost'
  <1> USE DEF IInv
  <1>1. PICK d \in Days :
          /\ stream[d] # Absent
          /\ sql' = [sql EXCEPT ![d] = stream[d]]
          /\ stream' = [stream EXCEPT ![d] = Absent]
          /\ cut' = IF zip[d] = Absent THEN [cut EXCEPT ![d] = @ \ Readable(stream[d])]
                    ELSE cut
          /\ UNCHANGED <<day, table, next, zip, made, job, gone>>
    BY DEF Flush
  <1>2. /\ sql'[d] = stream[d] /\ stream'[d] = Absent
        /\ \A e \in Days \ {d} : sql'[e] = sql[e] /\ stream'[e] = stream[e] /\ cut'[e] = cut[e]
        /\ cut'[d] = IF zip[d] = Absent THEN cut[d] \ Readable(stream[d]) ELSE cut[d]
    BY <1>1 DEF TypeOK
  <1>3. /\ Readable(sql[d]) \subseteq cut[d]
        /\ zip[d] = stream[d] \/ Readable(stream[d]) \subseteq cut[d] \cup gone
    BY <1>1 DEF FilesInv
  <1>4. Phase'
    <2>1. ASSUME Ongoing, d = job.day
          PROVE  Phase'
      BY <1>1, <1>2, <1>3, <2>1 DEF Phase, Ongoing, Recent, Whole
    <2>2. ASSUME ~(Ongoing /\ d = job.day)
          PROVE  Phase'
      BY <1>1, <1>2, <2>2 DEF Phase, Ongoing, Recent
    <2> QED BY <2>1, <2>2
  <1>5. FilesInv'
    BY <1>1, <1>2, <1>3 DEF FilesInv, Whole
  <1>6. \A e \in Days :
          Readable(sql[e]) \cup Readable(zip[e]) \cup cut[e] \subseteq
             Readable(sql[e]') \cup Readable(zip[e]') \cup cut[e]' \cup gone'
    BY <1>1, <1>2, <1>3
  <1>7. NothingLost'
    BY <1>1, <1>6, FilesGrow, NoneLost
  <1> QED BY <1>4, <1>5, <1>7

\* The steps of a run that write files, and the one that removes rows from the
\* table.
LEMMA FileStep ==
    ASSUME IInv,
           \/ Unzip \/ Unlink \/ AppendRows \/ DeleteRows
           \/ Zip \/ Close \/ Remove
    PROVE  Phase' /\ FilesInv' /\ NothingLost'
  <1> USE DEF IInv
  <1> DEFINE D == job.day
  <1>1. /\ D \in Days /\ Recent(D) /\ UNCHANGED <<day, next, gone>>
        /\ DOMAIN sql = Days /\ DOMAIN zip = Days /\ DOMAIN stream = Days /\ DOMAIN cut = Days
        /\ IsFile(sql[D]) /\ IsZip(zip[D]) /\ IsFile(stream[D])
    BY DEF Unzip, Unlink, AppendRows, DeleteRows, Zip, Close, Remove, Step, At,
           Phase, Ongoing, TypeOK
  <1>2. CASE Unzip
    <2>1. /\ job.pc = "unzip" /\ job'.pc = "unlink" /\ job'.day = D
          /\ Whole(zip[D]) /\ sql'[D] = Half /\ stream'[D] = zip[D]
          /\ UNCHANGED <<zip, table, made, cut>>
          /\ \A d \in Days \ {D} : sql'[d] = sql[d] /\ stream'[d] = stream[d]
      BY <1>1, <1>2 DEF Unzip, Step, At, Goto, TypeOK, Whole
    <2>2. Phase'
      BY <1>1, <2>1 DEF Phase, Ongoing, Recent, Whole
    <2>3. FilesInv'
      BY <1>1, <2>1, HalfFile DEF FilesInv
    <2>4. \A d \in Days : Readable(sql[d]) \subseteq
                            Readable(sql'[d]) \cup Readable(zip'[d]) \cup cut'[d] \cup gone'
      BY <1>1, <2>1 DEF FilesInv
    <2>5. NothingLost'
      BY <1>1, <2>1, <2>4, FilesGrow, NoneLost
    <2> QED BY <2>2, <2>3, <2>5
  <1>4. CASE Unlink
    <2>1. /\ job.pc = "unlink" /\ job'.pc = "select" /\ job'.day = D
          /\ Whole(zip[D]) /\ zip'[D] = Absent /\ cut'[D] = cut[D] \cup Readable(stream[D])
          /\ stream[D] = zip[D] \/ (stream[D] = Absent /\ sql[D] = zip[D])
          /\ UNCHANGED <<sql, stream, table, made>>
          /\ \A d \in Days \ {D} : zip'[d] = zip[d] /\ cut'[d] = cut[d]
      <3>1. job.pc = "unlink" /\ UNCHANGED <<sql, stream, table, made>>
        BY <1>4 DEF Unlink, Step, At
      <3>2. job'.pc = "select" /\ job'.day = D
        BY <1>4 DEF Unlink, Goto, TypeOK
      <3>3. /\ Whole(zip[D])
            /\ stream[D] = zip[D] \/ (stream[D] = Absent /\ sql[D] = zip[D])
        BY <3>1 DEF Phase
      <3>4. zip' = [zip EXCEPT ![D] = Absent] /\ cut' = [cut EXCEPT ![D] = @ \cup Readable(stream[D])]
        BY <1>4 DEF Unlink
      <3> QED BY <1>1, <3>1, <3>2, <3>3, <3>4
    <2>2. Phase'
      BY <1>1, <2>1 DEF Phase, Ongoing, Recent, Whole
    <2>3. FilesInv'
      BY <1>1, <2>1 DEF FilesInv, Whole
    <2>4. NothingLost'
      BY <1>1, <2>1, FilesGrow, NoneLost
    <2> QED BY <2>2, <2>3, <2>4
  <1>5. CASE AppendRows
    <2>1. /\ job.pc = "append" /\ job'.pc = "delete" /\ job'.day = D
          /\ job'.batch = job.batch /\ job.batch \in SUBSET Rows
          /\ zip[D] = Absent /\ sql'[D] = With(sql[D], job.batch)
          /\ UNCHANGED <<zip, stream, table, made>>
          /\ \A d \in Days \ {D} : sql'[d] = sql[d] /\ cut'[d] = cut[d]
          /\ cut[D] \subseteq cut'[D]
          /\ stream[D] # Absent => job.batch \subseteq cut'[D]
      BY <1>1, <1>5 DEF AppendRows, Step, At, Goto, Phase, TypeOK
    <2>2. Whole(sql'[D]) /\ Readable(sql'[D]) = Readable(sql[D]) \cup job.batch
      BY <1>1, <2>1, WithBatch
    <2>3. Phase'
      BY <1>1, <2>1, <2>2 DEF Phase, Ongoing, Recent
    <2>4. FilesInv'
      BY <1>1, <2>1, <2>2 DEF FilesInv, Whole
    <2>5. NothingLost'
      BY <1>1, <2>1, <2>2, FilesGrow, NoneLost
    <2> QED BY <2>3, <2>4, <2>5
  <1>6. CASE DeleteRows
    <2>1. /\ job.pc = "delete" /\ job'.pc = "select" /\ job'.day = D
          /\ zip[D] = Absent /\ job.batch \subseteq Readable(sql[D]) \cup cut[D]
          /\ table' = table \ job.batch
          /\ UNCHANGED <<sql, zip, stream, made, cut>>
      BY <1>1, <1>6 DEF DeleteRows, Step, At, Files, Phase, TypeOK
    <2>2. Phase' /\ FilesInv'
      BY <1>1, <2>1 DEF Phase, FilesInv, Ongoing, Recent
    <2>3. \A i : Safe(i) => Safe(i)'
      BY <1>1, <2>1 DEF Safe
    <2> QED BY <1>1, <2>2, <2>3, NoneLost
  <1>7. CASE Zip
    <2>1. /\ job.pc = "zip" /\ job'.pc = "close" /\ job'.day = D
          /\ zip[D] = Absent /\ sql[D] # Absent /\ zip'[D] = Torn /\ made'[D] = day
          /\ UNCHANGED <<sql, stream, table, cut>>
          /\ \A d \in Days \ {D} : zip'[d] = zip[d] /\ made'[d] = made[d]
          /\ D <= day
      BY <1>1, <1>7 DEF Zip, Step, At, Goto, Phase, TypeOK, Days
    <2>2. Phase'
      BY <1>1, <2>1 DEF Phase, Ongoing, Recent
    <2>3. FilesInv'
      BY <1>1, <2>1, HistoryArchiveAssumption DEF FilesInv, Whole
    <2>4. NothingLost'
      BY <1>1, <2>1, FilesGrow, NoneLost DEF Readable
    <2> QED BY <2>2, <2>3, <2>4
  <1>8. CASE Close
    <2>1. /\ job.pc = "close" /\ job'.pc = "remove" /\ job'.day = D
          /\ zip[D] = Torn /\ sql[D] # Absent /\ zip'[D] = sql[D]
          /\ UNCHANGED <<sql, stream, table, made, cut>>
          /\ \A d \in Days \ {D} : zip'[d] = zip[d]
      BY <1>1, <1>8 DEF Close, Step, At, Goto, Phase, TypeOK
    <2>2. Whole(sql[D]) /\ (stream[D] # Absent => stream[D] # Torn)
      BY <1>1, <2>1, HalfFile DEF Whole, IsFile
    <2>3. Phase'
      BY <1>1, <2>1, <2>2 DEF Phase, Ongoing, Recent
    <2>4. FilesInv'
      <3>1. D <= made[D] /\ (stream[D] # Absent => Readable(stream[D]) \subseteq cut[D] \cup gone)
        BY <1>1, <2>1, <2>2, HistoryArchiveAssumption DEF FilesInv
      <3> QED BY <1>1, <2>1, <2>2, <3>1 DEF FilesInv, Whole
    <2>5. NothingLost'
      BY <1>1, <2>1, FilesGrow, NoneLost DEF Readable
    <2> QED BY <2>3, <2>4, <2>5
  <1>9. CASE Remove
    <2>1. /\ job.pc = "remove" /\ job' = Idle /\ Whole(zip[D])
          /\ sql'[D] = Absent /\ stream'[D] = Absent
          /\ UNCHANGED <<zip, table, made, cut>>
          /\ \A d \in Days \ {D} : sql'[d] = sql[d] /\ stream'[d] = stream[d]
      BY <1>1, <1>9 DEF Remove, Step, At, Phase, TypeOK
    <2>2. Phase'
      BY <1>1, <2>1 DEF Phase, Ongoing, Idle
    <2>3. FilesInv'
      BY <1>1, <2>1 DEF FilesInv, Readable
    <2>4. \A d \in Days : Readable(sql[d]) \subseteq
                            Readable(sql'[d]) \cup Readable(zip'[d]) \cup cut'[d] \cup gone'
      BY <1>1, <2>1 DEF FilesInv
    <2>5. NothingLost'
      BY <1>1, <2>1, <2>4, FilesGrow, NoneLost
    <2> QED BY <2>2, <2>3, <2>5
  <1> QED BY <1>2, <1>4, <1>5, <1>6, <1>7, <1>8, <1>9

\* An error, or the end of the process: the run is given up, and what was being
\* written goes on or is lost.
LEMMA FaultStep ==
    ASSUME IInv, Fault
    PROVE  Phase' /\ FilesInv' /\ NothingLost'
  <1> USE DEF IInv
  <1>1. job' = Idle /\ zip' = zip /\ UNCHANGED <<day, next, table, made, gone, cut>>
    BY HalfDoneKeeps DEF Fault
  <1>2. ASSUME NEW d \in Days
        PROVE  /\ stream'[d] \in {stream[d], Absent}
               /\ \/ Readable(sql'[d]) = Readable(sql[d])
                  \/ Readable(sql'[d]) = {} /\ Whole(zip[d]) /\ stream'[d] = Absent
    <2>1. IsFile(sql[d]) /\ {} \in SUBSET Rows
      BY DEF TypeOK
    <2>2. Readable(With(sql[d], {})) = Readable(sql[d]) \cup {}
      BY <2>1, WithBatch
    <2> QED BY <2>2, HalfDoneKeeps, HalfFile
  <1>3. Phase'
    BY <1>1 DEF Phase, Ongoing, Idle
  <1>4. FilesInv'
    BY <1>1, <1>2 DEF FilesInv
  <1>5. \A d \in Days : Readable(sql[d]) \subseteq
                          Readable(sql'[d]) \cup Readable(zip'[d]) \cup cut'[d] \cup gone'
    BY <1>1, <1>2 DEF FilesInv
  <1>6. NothingLost'
    BY <1>1, <1>5, FilesGrow, NoneLost
  <1> QED BY <1>3, <1>4, <1>6

LEMMA InvStep ==
    ASSUME IInv, [Next]_vars
    PROVE  IInv'
  <1>1. TypeOK'
    BY TypeStep DEF IInv
  <1>2. Phase' /\ FilesInv' /\ NothingLost'
    BY AroundStep, IdleStep, FlushStep, FileStep, FaultStep DEF Next, Run
  <1> QED BY <1>1, <1>2 DEF IInv

\* Whatever step fails and wherever the process ends, a row that was recorded is
\* in the table, or in a file or zip that can be read, until the retention removes
\* the zip it is in; unless the file it was unzipped into, or appended to, was
\* still being written when the zip was gone (archiveHistory, Zip.unzip).
THEOREM NothingIsEverLost == Spec => []NothingLost
  <1>1. IInv => NothingLost
    BY DEF IInv
  <1> QED BY <1>1, InvInit, InvStep, PTL DEF Spec

\* The variables keep their types.
THEOREM ArchiveTypes == Spec => []TypeOK
  <1>1. IInv => TypeOK
    BY DEF IInv
  <1> QED BY <1>1, InvInit, InvStep, PTL DEF Spec
-----------------------------------------------------------------------------
(* Nothing is archived twice *)

In(i, f, k) == f \notin {Absent, Torn} /\ k \in DOMAIN f /\ i \in f[k]
FilesOf(d) == {sql[d], zip[d], stream[d]}
Deleting(i) == job.pc = "delete" /\ i \in job.batch

\* A row that is in a file, its zip or what is written from it, is in one INSERT,
\* the same in all three, of one day, and out of the table or about to be.
Apart ==
    \A i \in Rows \ repeated : \A d \in Days : \A f \in FilesOf(d) : \A k :
        In(i, f, k) =>
            /\ i < next /\ (i \in table => Deleting(i))
            /\ \A e \in Days : \A g \in FilesOf(e) : \A l :
                 In(i, g, l) => d = e /\ k = l

Chosen == job.pc \in {"append", "delete"} => job.batch \subseteq table

\* No zip is torn but the one that is made, and no file is there but that of the
\* day of the run.
Tidy ==
    \A d \in Days :
        /\ zip[d] = Torn => job.pc = "close" /\ d = job.day
        /\ sql[d] # Absent \/ stream[d] # Absent =>
             d = job.day /\ job.pc \notin {"idle", "count", "look", "unzip"}

OnceInv == IInv /\ Apart /\ Chosen /\ (faults = 0 => Tidy)

LEMMA OnceInit == Init => OnceInv
  <1> SUFFICES ASSUME Init PROVE OnceInv
    OBVIOUS
  <1>1. IInv
    BY InvInit
  <1>2. \A d \in Days : sql[d] = Absent /\ zip[d] = Absent /\ stream[d] = Absent
    BY DEF Init, NoStream
  <1>3. Tidy /\ Apart
    BY <1>2, HistoryArchiveAssumption DEF Tidy, Apart, FilesOf, In
  <1>4. Chosen
    BY DEF Init, Chosen, Idle
  <1> QED BY <1>1, <1>3, <1>4 DEF OnceInv

\* A step after which every file holds what some file of its day held.
LEMMA Copied ==
    ASSUME Apart, repeated \subseteq repeated', next' >= next, next \in Nat, next' \in Nat,
           \A i \in Rows \ repeated' :
             /\ i \in table' /\ i < next => i \in table
             /\ Deleting(i) /\ i \in table' => Deleting(i)',
           \A d \in Days : \A f \in {sql'[d], zip'[d], stream'[d]} :
             \A i \in Rows \ repeated' : \A k :
               In(i, f, k) => \E f0 \in FilesOf(d) : In(i, f0, k)
    PROVE  Apart'
  <1> SUFFICES ASSUME NEW i \in Rows \ repeated', NEW d \in Days,
                      NEW f \in {sql'[d], zip'[d], stream'[d]}, NEW k, In(i, f, k)
               PROVE  /\ i < next' /\ (i \in table' => Deleting(i)')
                      /\ \A e \in Days : \A g \in {sql'[e], zip'[e], stream'[e]} : \A l :
                           In(i, g, l) => d = e /\ k = l
    BY DEF Apart, FilesOf, In
  <1>1. i \in Rows \ repeated /\ i \in Int
    BY DEF Rows
  <1>2. PICK f0 \in FilesOf(d) : In(i, f0, k)
    OBVIOUS
  <1>3. /\ i < next /\ (i \in table => Deleting(i))
        /\ \A e \in Days : \A g \in FilesOf(e) : \A l : In(i, g, l) => d = e /\ k = l
    BY <1>1, <1>2 DEF Apart
  <1>4. i < next' /\ (i \in table' => Deleting(i)')
    BY <1>1, <1>3
  <1>5. ASSUME NEW e \in Days, NEW g \in {sql'[e], zip'[e], stream'[e]}, NEW l, In(i, g, l)
        PROVE  d = e /\ k = l
    <2>1. \E g0 \in FilesOf(e) : In(i, g0, l)
      BY <1>5
    <2> QED BY <1>3, <2>1
  <1> QED BY <1>4, <1>5

LEMMA OnceQuiet ==
    ASSUME OnceInv,
           \/ Record \/ Expire \/ Midnight \/ Start \/ Count \/ Look \/ Select
           \/ CannotUnzip \/ UNCHANGED vars
    PROVE  Apart' /\ Chosen' /\ (faults' = 0 => Tidy')
  <1>1. /\ TypeOK /\ Phase /\ Apart /\ Chosen /\ (faults = 0 => Tidy)
        /\ UNCHANGED <<sql, zip, stream, repeated, faults>>
    BY DEF OnceInv, IInv, Record, Expire, Midnight, Start, Count, Look, Select, CannotUnzip,
           Step, Files, History, vars
  <1>2. /\ DOMAIN job = {"pc", "day", "limit", "batch"} /\ job = [job EXCEPT !.pc = @]
        /\ next \in Nat /\ table \subseteq 1..(next - 1)
    BY <1>1 DEF TypeOK
  <1>3. /\ next' >= next /\ next' \in Nat /\ table \subseteq table'
        /\ \A i \in table' : i < next => i \in table
    <2>1. CASE Record
      BY <1>2, <2>1 DEF Record
    <2>2. CASE ~Record
      <3>1. next' = next /\ table' = table
        BY <2>2 DEF Expire, Midnight, Start, Count, Look, Select, CannotUnzip, Step, vars
      <3> QED BY <1>2, <3>1
    <2> QED BY <2>1, <2>2
  <1>4. CASE UNCHANGED job
    <2>1. \A i : Deleting(i) => Deleting(i)'
      BY <1>4 DEF Deleting
    <2>2. Apart'
      BY <1>1, <1>2, <1>3, <2>1, Copied DEF FilesOf
    <2> QED BY <1>1, <1>3, <1>4, <2>2 DEF Chosen, Tidy
  <1>5. CASE Start \/ Count \/ Look \/ CannotUnzip
    <2>1. /\ job.pc \in {"idle", "count", "look", "unzip"}
          /\ job'.pc \in {"idle", "count", "look", "unzip", "select"}
      <3>1. CASE Start
        BY <1>2, <3>1 DEF Start, Step, At, Goto
      <3>2. CASE Count
        BY <1>2, <3>2 DEF Count, Step, At, Idle
      <3>3. CASE Look
        BY <1>2, <3>3 DEF Look, Step, At, Goto
      <3>4. CASE CannotUnzip
        BY <1>2, <3>4 DEF CannotUnzip, Step, At, Idle
      <3> QED BY <1>5, <3>1, <3>2, <3>3, <3>4
    <2>2. Apart'
      BY <1>1, <1>2, <1>3, <2>1, Copied DEF FilesOf, Deleting
    <2>3. Tidy => Tidy'
      BY <1>1, <2>1 DEF Tidy
    <2> QED BY <1>1, <2>1, <2>2, <2>3 DEF Chosen
  <1>6. CASE Select
    <2>1. PICK limit \in {job.limit, old} :
             \/ Goto("zip")
             \/ \E batch \in (SUBSET Expired(limit)) \ {{}} :
                  job' = [job EXCEPT !.pc = "append", !.batch = batch]
      BY <1>6 DEF Select
    <2>2. /\ job.pc = "select" /\ job'.day = job.day /\ job'.pc \in {"append", "zip"}
          /\ job'.pc = "append" => job'.batch \subseteq table
      <3>1. job.pc = "select"
        BY <1>6 DEF Select, Step, At
      <3>2. \A batch \in SUBSET Expired(limit) : batch \subseteq table
        BY DEF Expired
      <3> QED BY <1>2, <2>1, <3>1, <3>2 DEF Goto
    <2>3. Apart'
      BY <1>1, <1>2, <1>3, <2>2, Copied DEF FilesOf, Deleting
    <2>4. Tidy => Tidy'
      BY <1>1, <2>2 DEF Tidy
    <2> QED BY <1>1, <1>3, <2>2, <2>3, <2>4 DEF Chosen
  <1>7. Record \/ Expire \/ Midnight \/ UNCHANGED vars => UNCHANGED job
    BY DEF Record, Expire, Midnight, vars
  <1> QED BY <1>4, <1>5, <1>6, <1>7

\* The steps that copy files and remove them.
LEMMA OnceFiles ==
    ASSUME OnceInv, Unzip \/ Flush \/ Unlink \/ Zip \/ Close \/ Remove \/ Retain
    PROVE  Apart' /\ Chosen' /\ (faults' = 0 => Tidy')
  <1>1. /\ TypeOK /\ Phase /\ Apart /\ Chosen /\ (faults = 0 => Tidy)
        /\ UNCHANGED <<table, next, repeated, faults>>
        /\ DOMAIN sql = Days /\ DOMAIN zip = Days /\ DOMAIN stream = Days /\ next \in Nat
    BY DEF OnceInv, IInv, TypeOK, Unzip, Flush, Unlink, Zip, Close, Remove, Retain, Step
  <1>2. \A i, k : ~In(i, Half, k) /\ ~In(i, Absent, k) /\ ~In(i, Torn, k)
    BY DEF In, Half
  <1>3. ASSUME \A d \in Days : \A f \in {sql'[d], zip'[d], stream'[d]} :
                 f \in FilesOf(d) \cup {Half, Absent, Torn},
               \A i : Deleting(i) => Deleting(i)',
               job'.pc \in {"append", "delete"} => job' = job
        PROVE  Apart' /\ Chosen'
    <2>1. \A d \in Days : \A f \in {sql'[d], zip'[d], stream'[d]} :
             \A i \in Rows \ repeated' : \A k :
               In(i, f, k) => \E f0 \in FilesOf(d) : In(i, f0, k)
      BY <1>2, <1>3
    <2>2. Apart'
      BY <1>1, <1>3, <2>1, Copied
    <2> QED BY <1>1, <1>3, <2>2 DEF Chosen
  <1>4. CASE Flush \/ Retain
    <2>1. /\ UNCHANGED job
          /\ \A d \in Days : /\ sql'[d] \in FilesOf(d) /\ zip'[d] \in {zip[d], Absent}
                             /\ stream'[d] \in {stream[d], Absent}
                             /\ sql'[d] = sql[d] \/ stream[d] # Absent
      BY <1>1, <1>4 DEF Flush, Retain, FilesOf
    <2>2. Apart' /\ Chosen'
      BY <1>3, <2>1 DEF FilesOf, Deleting
    <2>3. Tidy => Tidy'
      BY <2>1, HistoryArchiveAssumption DEF Tidy
    <2> QED BY <1>1, <2>2, <2>3
  <1> DEFINE D == job.day
  <1>5. CASE Unzip \/ Unlink \/ Zip \/ Close \/ Remove
    <2>1. /\ D \in Days /\ job.pc \in {"unzip", "unlink", "zip", "close", "remove"}
          /\ job'.pc \in {"unlink", "select", "close", "remove", "idle"}
          /\ \A d \in Days \ {D} : UNCHANGED <<sql[d], zip[d], stream[d]>>
      BY <1>1, <1>5 DEF Unzip, Unlink, Zip, Close, Remove, Step, At, Goto, Idle, Phase,
         Ongoing, TypeOK
    <2>2. /\ sql'[D] \in FilesOf(D) \cup {Half, Absent}
          /\ zip'[D] \in FilesOf(D) \cup {Torn, Absent}
          /\ stream'[D] \in FilesOf(D) \cup {Absent}
      BY <1>1, <1>5, <2>1 DEF Unzip, Unlink, Zip, Close, Remove, FilesOf
    <2>3. Apart' /\ Chosen'
      <3>1. \A d \in Days : \A f \in {sql'[d], zip'[d], stream'[d]} :
                 f \in FilesOf(d) \cup {Half, Absent, Torn}
        <4> SUFFICES ASSUME NEW d \in Days, NEW f \in {sql'[d], zip'[d], stream'[d]}
                     PROVE  f \in FilesOf(d) \cup {Half, Absent, Torn}
          OBVIOUS
        <4>1. CASE d = D
          BY <2>2, <4>1
        <4>2. CASE d # D
          BY <2>1, <4>2 DEF FilesOf
        <4> QED BY <4>1, <4>2
      <3> QED BY <1>3, <2>1, <3>1 DEF Deleting
    <2>4. ASSUME Tidy PROVE Tidy'
      <3>1. CASE Remove
        <4>1. sql'[D] = Absent /\ stream'[D] = Absent /\ zip' = zip /\ job.pc = "remove"
          BY <1>1, <2>1, <3>1 DEF Remove, Step, At
        <4> QED BY <2>1, <2>4, <4>1 DEF Tidy
      <3>2. CASE Unzip \/ Unlink \/ Zip \/ Close
        <4>1. job'.day = D /\ job'.pc \in {"unlink", "select", "close", "remove"}
          BY <1>1, <3>2 DEF Unzip, Unlink, Zip, Close, Goto, TypeOK
        <4>2. zip'[D] = Torn => job'.pc = "close"
          <5>1. CASE Unzip
            BY <1>1, <2>1, <2>4, <5>1 DEF Unzip, Step, At, Tidy
          <5>2. CASE Unlink
            BY <1>1, <2>1, <5>2, HistoryArchiveAssumption DEF Unlink
          <5>3. CASE Zip
            BY <1>1, <5>3 DEF Zip, Goto, TypeOK
          <5>4. CASE Close
            BY <1>1, <2>1, <5>4, HalfFile, HistoryArchiveAssumption DEF Close, TypeOK, IsFile
          <5> QED BY <3>2, <5>1, <5>2, <5>3, <5>4
        <4> QED BY <2>1, <2>4, <4>1, <4>2 DEF Tidy
      <3> QED BY <1>5, <3>1, <3>2
    <2> QED BY <1>1, <2>3, <2>4
  <1> QED BY <1>4, <1>5

\* The rows of a batch go into the file while they are in the table, where no
\* INSERT has them, and then out of the table.
LEMMA OnceArchive ==
    ASSUME OnceInv, AppendRows \/ DeleteRows
    PROVE  Apart' /\ Chosen' /\ (faults' = 0 => Tidy')
  <1> DEFINE D == job.day
  <1>1. /\ TypeOK /\ Phase /\ Apart /\ Chosen /\ (faults = 0 => Tidy)
        /\ UNCHANGED <<next, repeated, faults, zip, stream>>
        /\ DOMAIN sql = Days /\ next \in Nat /\ D \in Days /\ IsFile(sql[D])
        /\ job.batch \in SUBSET Rows /\ table \subseteq 1..(next - 1)
    BY DEF OnceInv, IInv, TypeOK, AppendRows, DeleteRows, Step, At, Files, Phase, Ongoing
  <1>2. job'.day = D /\ job.pc \in {"append", "delete"} /\ job'.pc \in {"delete", "select"}
    BY <1>1 DEF AppendRows, DeleteRows, Step, At, Goto, TypeOK
  <1>3. Tidy => Tidy'
    <2>1. \A d \in Days : sql'[d] = sql[d] \/ d = D
      BY <1>1 DEF AppendRows, DeleteRows, Files
    <2> QED BY <1>1, <1>2, <2>1 DEF Tidy
  <1>4. CASE AppendRows
    <2> DEFINE f == sql[D]
               B == job.batch
    <2>1. /\ job.pc = "append" /\ job'.pc = "delete" /\ job'.batch = B
          /\ sql'[D] = With(f, B) /\ table' = table
          /\ \A d \in Days \ {D} : sql'[d] = sql[d]
      BY <1>1, <1>4 DEF AppendRows, Step, At, Goto, TypeOK
    <2>2. B \subseteq table /\ Chosen'
      BY <1>1, <2>1 DEF Chosen
    <2>3. \A i \in B : i \notin repeated => \A d \in Days : \A g \in FilesOf(d) : \A k : ~In(i, g, k)
      BY <1>1, <2>1, <2>2 DEF Apart, Deleting
    <2>4. PICK n : \A i, k : In(i, With(f, B), k) => In(i, f, k) \/ (i \in B /\ k = n)
      <3> HIDE DEF f, B
      <3>1. IsFile(f) /\ B \in SUBSET Rows
        BY <1>1 DEF f, B
      <3>2. PICK n : Longer(f, With(f, B), B, n)
        BY <3>1, WithBatch
      <3>3. f # Absent => f # Torn
        BY <3>1, HalfFile DEF IsFile
      <3> QED BY <3>2, <3>3 DEF In, Longer
    <2> HIDE DEF f, B
    <2>5. ASSUME NEW i \in Rows \ repeated, NEW d \in Days,
                 NEW g \in {sql'[d], zip'[d], stream'[d]}, NEW k, In(i, g, k)
          PROVE  \/ i \notin B /\ \E g0 \in FilesOf(d) : In(i, g0, k)
                 \/ i \in B /\ d = D /\ k = n
      <3>1. CASE g \in FilesOf(d)
        BY <2>3, <2>5, <3>1
      <3>2. CASE g \notin FilesOf(d)
        <4>1. d = D /\ g = With(f, B)
          BY <1>1, <2>1, <3>2 DEF FilesOf
        <4>2. In(i, f, k) \/ (i \in B /\ k = n)
          BY <2>4, <2>5, <4>1
        <4> QED BY <2>3, <4>1, <4>2 DEF FilesOf, f
      <3> QED BY <3>1, <3>2
    <2>6. Apart'
      <3> SUFFICES ASSUME NEW i \in Rows \ repeated, NEW d \in Days,
                          NEW g \in {sql'[d], zip'[d], stream'[d]}, NEW k, In(i, g, k)
                   PROVE  /\ i < next /\ (i \in table => Deleting(i)')
                          /\ \A e \in Days : \A h \in {sql'[e], zip'[e], stream'[e]} : \A l :
                               In(i, h, l) => d = e /\ k = l
        BY <1>1, <2>1 DEF Apart, FilesOf, In
      <3>1. CASE i \in B
        <4>1. i < next /\ Deleting(i)'
          BY <1>1, <2>1, <2>2, <3>1 DEF Deleting
        <4> QED BY <2>5, <3>1, <4>1
      <3>2. CASE i \notin B
        <4>1. PICK g0 \in FilesOf(d) : In(i, g0, k)
          BY <2>5, <3>2
        <4>2. i < next /\ (i \in table => Deleting(i))
          BY <1>1, <4>1 DEF Apart
        <4>3. i \notin table
          BY <2>1, <4>2 DEF Deleting
        <4>4. ASSUME NEW e \in Days, NEW h \in {sql'[e], zip'[e], stream'[e]}, NEW l, In(i, h, l)
              PROVE  d = e /\ k = l
          <5>1. PICK h0 \in FilesOf(e) : In(i, h0, l)
            BY <2>5, <3>2, <4>4
          <5> QED BY <1>1, <4>1, <5>1 DEF Apart
        <4> QED BY <4>2, <4>3, <4>4
      <3> QED BY <3>1, <3>2
    <2> QED BY <1>1, <1>3, <2>2, <2>6
  <1>5. CASE DeleteRows
    <2>1. /\ job.pc = "delete" /\ job'.pc = "select"
          /\ table' = table \ job.batch /\ UNCHANGED sql
      BY <1>1, <1>5 DEF DeleteRows, Step, At, Files, TypeOK
    <2>2. Apart'
      BY <1>1, <2>1, Copied DEF FilesOf, Deleting
    <2> QED BY <1>1, <1>3, <2>1, <2>2 DEF Chosen
  <1> QED BY <1>4, <1>5

\* A batch whose run fails after it was appended stays in the table.
LEMMA OnceFault ==
    ASSUME OnceInv, Fault
    PROVE  Apart' /\ Chosen' /\ (faults' = 0 => Tidy')
  <1>1. /\ TypeOK /\ Phase /\ Apart
        /\ UNCHANGED <<table, next, zip>> /\ next \in Nat
        /\ repeated' = repeated \cup (IF At("delete") THEN job.batch ELSE {})
        /\ job' = Idle /\ faults' # 0
    BY HistoryArchiveAssumption DEF OnceInv, IInv, TypeOK, Fault
  <1>2. \A i \in Rows \ repeated' : ~Deleting(i)
    BY <1>1 DEF Deleting, At
  <1>3. ASSUME NEW d \in Days, NEW g \in {sql'[d], zip'[d], stream'[d]}, NEW i, NEW k, In(i, g, k)
        PROVE  \E g0 \in FilesOf(d) : In(i, g0, k)
    <2>1. \A j, l : ~In(j, Half, l) /\ ~In(j, Absent, l)
      BY DEF In, Half
    <2>2. In(i, With(sql[d], {}), k) => In(i, sql[d], k)
      <3> DEFINE f == sql[d]
      <3>1. IsFile(f) /\ {} \in SUBSET Rows
        BY <1>1 DEF TypeOK
      <3> HIDE DEF f
      <3>2. PICK n : Longer(f, With(f, {}), {}, n)
        BY <3>1, WithBatch
      <3>3. f # Absent => f # Torn
        BY <3>1, HalfFile DEF IsFile
      <3>4. In(i, With(f, {}), k) => In(i, f, k)
        BY <3>2, <3>3 DEF In, Longer
      <3> QED BY <3>4 DEF f
    <2>3. g \in FilesOf(d) \cup {Half, Absent, With(sql[d], {})}
      BY <1>1, HalfDoneKeeps DEF FilesOf
    <2> QED BY <1>3, <2>1, <2>2, <2>3 DEF FilesOf
  <1>4. Apart'
    BY <1>1, <1>2, <1>3, Copied
  <1> QED BY <1>1, <1>4 DEF Chosen, Idle

LEMMA OnceStep ==
    ASSUME OnceInv, [Next]_vars
    PROVE  OnceInv'
  <1>1. IInv'
    BY InvStep DEF OnceInv
  <1>2. Apart' /\ Chosen' /\ (faults' = 0 => Tidy')
    BY OnceQuiet, OnceFiles, OnceArchive, OnceFault DEF Next, Run
  <1> QED BY <1>1, <1>2 DEF OnceInv

\* When no run is under way no row is in two places of the archive, or in the
\* archive and in the table, whatever has failed before; but for the batch of a
\* run that failed after it was appended.  And as long as nothing has failed, no
\* file is left beside its zip, nor a zip that is not whole (archiveHistory).
THEOREM NothingTwice == Spec => []OnceAtRest
  <1>1. ASSUME OnceInv PROVE OnceAtRest
    <2> SUFFICES ASSUME At("idle") PROVE OnceAtRest
      BY DEF OnceAtRest
    <2>1. TypeOK /\ Apart /\ (faults = 0 => Tidy) /\ job.pc = "idle"
      BY <1>1 DEF OnceInv, IInv, At
    <2>2. faults = 0 => \A d \in Days : sql[d] = Absent /\ zip[d] # Torn
      BY <2>1 DEF Tidy
    <2>3. ASSUME NEW i \in Rows, NEW d \in Days, NEW k \in DOMAIN Archive(d),
                 i \in Archive(d)[k]
          PROVE  \E f \in FilesOf(d) : In(i, f, k)
      <3>1. IsFile(sql[d]) /\ IsZip(zip[d])
        BY <2>1 DEF TypeOK
      <3>2. CASE zip[d] \notin {Absent, Torn}
        BY <2>3, <3>2 DEF Archive, In, FilesOf
      <3>3. CASE zip[d] \in {Absent, Torn} /\ sql[d] # Absent
        BY <2>3, <3>1, <3>3, HalfFile DEF Archive, In, FilesOf, IsFile
      <3>4. CASE zip[d] \in {Absent, Torn} /\ sql[d] = Absent
        BY <2>3, <3>4 DEF Archive
      <3> QED BY <3>2, <3>3, <3>4
    <2>4. ASSUME NEW i \in Rows \ repeated, NEW d \in Days, NEW e \in Days,
                 NEW k \in DOMAIN Archive(d), NEW l \in DOMAIN Archive(e)
          PROVE  /\ i \in Archive(d)[k] => i \notin table
                 /\ i \in Archive(d)[k] \cap Archive(e)[l] => d = e /\ k = l
      <3>1. ASSUME i \in Archive(d)[k] PROVE i \notin table
        BY <2>1, <2>3, <3>1 DEF Apart, Deleting
      <3>2. ASSUME i \in Archive(d)[k], i \in Archive(e)[l] PROVE d = e /\ k = l
        <4>1. PICK f \in FilesOf(d) : In(i, f, k)
          BY <2>3, <3>2
        <4>2. PICK g \in FilesOf(e) : In(i, g, l)
          BY <2>3, <3>2
        <4> QED BY <2>1, <4>1, <4>2 DEF Apart
      <3> QED BY <3>1, <3>2
    <2> QED BY <2>2, <2>4 DEF OnceAtRest
  <1>2. OnceInv => OnceAtRest
    BY <1>1
  <1> QED BY <1>2, OnceInit, OnceStep, PTL DEF Spec
=============================================================================
