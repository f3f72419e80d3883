--------------------------- MODULE HistoryArchive ---------------------------
(***************************************************************************)
(* Rows of a log table that have expired are moved into one file per day,  *)
(* batch after batch, and the file is zipped: archiveHistory of the        *)
(* OpenVPN status history and of the audit log.  A later run of the same   *)
(* day unzips the file again to append to it.  Every await ends a step;    *)
(* a step may fail, and the process may end between two of them.  Unzipping *)
(* is over when the zip has been read: the file is written behind it.      *)
(***************************************************************************)
EXTENDS Integers, Sequences, FiniteSets

CONSTANTS
    MaxRow,      \* bounds the rows recorded
    MaxDay,      \* bounds the days that pass
    MaxBatch,    \* rows archived at a time: 2000 in the code
    Retention,   \* retention_days
    MaxFaults,   \* bounds the errors and the ends of the process
    Absent, Torn \* no file; a zip that is not whole

ASSUME HistoryArchiveAssumption ==
    /\ {MaxRow, Retention, MaxFaults} \subseteq Nat
    /\ {MaxDay, MaxBatch} \subseteq Nat \ {0}
    /\ Absent # Torn
    /\ {Absent, Torn} \cap Seq(SUBSET (1..MaxRow)) = {}

VARIABLES
    day,     \* today
    table,   \* the rows in the table
    next,    \* its autoincrement
    old,     \* rows up to this one are older than archive_days
    sql,     \* the file of each day: what its INSERTs hold, batch by batch
    zip,     \* and the zip of it
    made,    \* the day on which that zip was made (its birthtime)
    job,     \* the run that has the mutex
    stream,  \* what unzip is still writing into the file of each day
    faults

(***************************************************************************)
(* History: the rows whose archive has been removed by the retention; those *)
(* that only a file not yet written holds, or held, after its zip was       *)
(* removed, and those appended to such a file; and those of a batch that    *)
(* was appended and, a step failing, not deleted from the table.            *)
(***************************************************************************)
VARIABLES gone, cut, repeated

vars == <<day, table, next, old, sql, zip, made, job, stream, faults, gone, cut,
          repeated>>

Days == 1..MaxDay
Rows == 1..MaxRow
Content == Seq(SUBSET Rows)
IsFile(f) == f = Absent \/ f \in Content
IsZip(f) == f = Torn \/ IsFile(f)
Readable(f) == IF f \in {Absent, Torn} THEN {} ELSE UNION {f[x] : x \in DOMAIN f}
Half == <<{}>> \* half an INSERT: nothing that can be read
NoStream == [d \in Days |-> Absent]

Idle == [pc |-> "idle", day |-> 0, limit |-> 0, batch |-> {}]
Labels == {"idle", "count", "look", "unzip", "unlink", "select", "append",
           "delete", "zip", "close", "remove"}

TypeOK ==
    /\ day \in Days /\ next \in 1..(MaxRow + 1)
    /\ table \subseteq 1..(next - 1) /\ old \in 0..(next - 1)
    /\ DOMAIN sql = Days /\ DOMAIN zip = Days /\ DOMAIN stream = Days
    /\ \A d \in Days : IsFile(sql[d]) /\ IsZip(zip[d]) /\ IsFile(stream[d])
    /\ made \in [Days -> 0..day] /\ faults \in 0..MaxFaults
    /\ job \in [pc : Labels, day : 0..day, limit : 0..old, batch : SUBSET Rows]
    /\ gone \subseteq Rows /\ cut \in [Days -> SUBSET Rows] /\ repeated \subseteq Rows

Init ==
    /\ day = 1 /\ table = {} /\ next = 1 /\ old = 0
    /\ sql = [d \in Days |-> Absent] /\ zip = sql /\ made = [d \in Days |-> 0]
    /\ job = Idle /\ stream = NoStream /\ faults = 0
    /\ gone = {} /\ cut = [d \in Days |-> {}] /\ repeated = {}

At(label) == job.pc = label
Goto(label) == job' = [job EXCEPT !.pc = label]
Expired(limit) == {i \in table : i <= limit}
-----------------------------------------------------------------------------
(* Around the archive *)
Files == <<sql, zip, made, stream>>
History == <<gone, cut, repeated>>

Record ==
    /\ next <= MaxRow /\ next' = next + 1
    /\ table' = table \cup {next}
    /\ UNCHANGED <<day, old, job, faults, Files, History>>

Expire ==
    /\ old + 1 < next /\ old' = old + 1
    /\ UNCHANGED <<day, table, next, job, faults, Files, History>>

\* A run is over before the retention could reach the zip that it makes.
Midnight ==
    /\ day < MaxDay /\ day' = day + 1
    /\ job.day # 0 => day - job.day < Retention
    /\ UNCHANGED <<table, next, old, job, faults, Files, History>>

\* removeExpiredFiles, synchronous: zips only, by the day they were made.
Retain ==
    LET aged == {d \in Days : zip[d] # Absent /\ made[d] + Retention < day} IN
    /\ aged # {}
    /\ zip' = [d \in Days |-> IF d \in aged THEN Absent ELSE zip[d]]
    /\ gone' = gone \cup UNION {Readable(zip[d]) : d \in aged}
    /\ UNCHANGED <<day, table, next, old, sql, made, job, stream, faults, cut, repeated>>
-----------------------------------------------------------------------------
(* archiveHistory *)
Step(label) == At(label) /\ UNCHANGED <<day, next, old, faults, gone, repeated>>

\* The schedule or a request, when tryAcquire finds the mutex free.
Start ==
    /\ Step("idle")
    /\ Goto("count")
    /\ UNCHANGED <<table, Files, cut>>

Count ==
    /\ Step("count")
    /\ job' = IF Expired(old) = {} THEN Idle
              ELSE [job EXCEPT !.pc = "look", !.day = day, !.limit = old]
    /\ UNCHANGED <<table, Files, cut>>

Look ==
    /\ Step("look")
    /\ Goto(IF zip[job.day] # Absent THEN "unzip" ELSE "select")
    /\ UNCHANGED <<table, Files, cut>>

\* Variant: what a failed run has left in the file is kept.
UnzipBehind ==
    /\ Step("unzip") /\ zip[job.day] \notin {Torn, Absent}
    /\ stream' = [stream EXCEPT ![job.day] =
                    IF sql[job.day] = Absent THEN zip[job.day]
                    ELSE sql[job.day] \o zip[job.day]]
    /\ sql' = [sql EXCEPT ![job.day] = Half]
    /\ Goto("unlink")
    /\ UNCHANGED <<table, zip, made, cut>>

\* Resolves when the zip has been read: the write stream of the file is open.
Unzip ==
    /\ Step("unzip") /\ zip[job.day] \notin {Torn, Absent}
    /\ sql' = [sql EXCEPT ![job.day] = Half]
    /\ stream' = [stream EXCEPT ![job.day] = zip[job.day]]
    /\ Goto("unlink")
    /\ UNCHANGED <<table, zip, made, cut>>

\* The last of it is written, from where the stream stands: over what has been
\* appended to the file meanwhile.
Flush ==
    \E d \in Days :
        /\ stream[d] # Absent
        /\ sql' = [sql EXCEPT ![d] = stream[d]]
        /\ stream' = [stream EXCEPT ![d] = Absent]
        /\ cut' = IF zip[d] = Absent THEN [cut EXCEPT ![d] = @ \ Readable(stream[d])]
                  ELSE cut
        /\ UNCHANGED <<day, table, next, old, zip, made, job, faults, gone, repeated>>

\* fs.remove, whatever the stream still has to write.
Unlink ==
    /\ Step("unlink")
    /\ zip' = [zip EXCEPT ![job.day] = Absent]
    /\ cut' = [cut EXCEPT ![job.day] = @ \cup Readable(stream[job.day])]
    /\ Goto("select")
    /\ UNCHANGED <<table, sql, made, stream>>

\* Some of the rows expired by now (the status history), or when the run
\* began (the audit log): LIMIT 2000.
Select ==
    /\ Step("select")
    /\ \E limit \in {job.limit, old} : LET all == Expired(limit) IN
         \/ all = {} /\ Goto("zip")
         \/ \E batch \in (SUBSET all) \ {{}} :
              /\ Cardinality(batch) <= MaxBatch
              /\ batch = all \/ Cardinality(batch) = MaxBatch
              /\ job' = [job EXCEPT !.pc = "append", !.batch = batch]
    /\ UNCHANGED <<table, Files, cut>>

With(f, batch) == IF f = Absent THEN <<batch>> ELSE Append(f, batch)

AppendRows ==
    /\ Step("append")
    /\ sql' = [sql EXCEPT ![job.day] = With(@, job.batch)]
    /\ cut' = IF stream[job.day] = Absent THEN cut
              ELSE [cut EXCEPT ![job.day] = @ \cup job.batch]
    /\ Goto("delete")
    /\ UNCHANGED <<table, zip, made, stream>>

DeleteRows ==
    /\ Step("delete")
    /\ table' = table \ job.batch
    /\ job' = [job EXCEPT !.pc = "select", !.batch = {}]
    /\ UNCHANGED <<Files, cut>>

\* Variant: not awaited.
HastyZip ==
    /\ Step("zip") /\ sql[job.day] # Absent
    /\ zip' = [zip EXCEPT ![job.day] = Torn]
    /\ made' = [made EXCEPT ![job.day] = day]
    /\ Goto("remove")
    /\ UNCHANGED <<table, sql, stream, cut>>

Zip ==
    /\ Step("zip") /\ sql[job.day] # Absent
    /\ zip' = [zip EXCEPT ![job.day] = Torn]
    /\ made' = [made EXCEPT ![job.day] = day]
    /\ Goto("close")
    /\ UNCHANGED <<table, sql, stream, cut>>

Close ==
    /\ Step("close")
    /\ zip' = [zip EXCEPT ![job.day] = sql[job.day]]
    /\ Goto("remove")
    /\ UNCHANGED <<table, sql, made, stream, cut>>

\* What is still written goes to a file that has no name any more.
Remove ==
    /\ Step("remove")
    /\ sql' = [sql EXCEPT ![job.day] = Absent]
    /\ stream' = [stream EXCEPT ![job.day] = Absent]
    /\ job' = Idle
    /\ UNCHANGED <<table, zip, made, cut>>
-----------------------------------------------------------------------------
\* A zip that is not whole has no directory and cannot be opened: the run fails,
\* as every other of that day, before the file is touched.
CannotUnzip ==
    /\ Step("unzip") /\ zip[job.day] = Torn
    /\ job' = Idle
    /\ UNCHANGED <<table, Files, cut>>

\* What the step that fails has written: half an INSERT, or half a file (half a
\* zip is what Zip has left).
HalfDone ==
    \/ UNCHANGED sql
    \/ At("append") /\ sql' = [sql EXCEPT ![job.day] = With(@, {})]
    \/ /\ At("unzip") /\ zip[job.day] # Torn
       /\ sql' = [sql EXCEPT ![job.day] = Half] /\ stream' = NoStream

\* Variant: the promise never settles, and the mutex is never released.
Hang ==
    /\ ~At("idle") /\ day < MaxDay /\ faults < MaxFaults
    /\ faults' = faults + 1
    /\ stream' \in {stream, NoStream} /\ HalfDone
    /\ repeated' = repeated \cup (IF At("delete") THEN job.batch ELSE {})
    /\ Goto("hung")
    /\ UNCHANGED <<day, table, next, old, zip, made, gone, cut>>

\* A query, a file operation or the process fails.  An error rejects, or is not
\* caught and ends the process (the status history, outside append and delete)
\* with the streams that are open: in both cases the mutex is free again.
Fault ==
    /\ ~At("idle") /\ day < MaxDay /\ faults < MaxFaults
    /\ faults' = faults + 1
    /\ stream' \in {stream, NoStream} /\ HalfDone
    /\ repeated' = repeated \cup (IF At("delete") THEN job.batch ELSE {})
    /\ job' = Idle
    /\ UNCHANGED <<day, table, next, old, zip, made, gone, cut>>

Run ==
    \/ Count \/ Look \/ Unzip \/ CannotUnzip \/ Unlink \/ Select
    \/ AppendRows \/ DeleteRows \/ Zip \/ Close \/ Remove

Next ==
    \/ Record \/ Expire \/ Midnight \/ Retain
    \/ Start \/ Run \/ Flush \/ Fault

\* The schedule starts a run again and again, whatever requests do; files and
\* the database answer; days pass.
Fairness ==
    /\ WF_vars(Start) /\ WF_vars(Run) /\ WF_vars(Flush) /\ WF_vars(Midnight)

Spec == Init /\ [][Next]_vars /\ Fairness
-----------------------------------------------------------------------------
\* Whatever step fails, a row that was recorded is in the table, or in a file or
\* zip that can be read, until the retention removes the zip it is in; but for
\* the rows of a file that was still being written when its zip was removed, or
\* when the rows were appended to it.
NothingLost ==
    \A i \in 1..(next - 1) :
        \/ i \in table \cup gone
        \/ \E d \in Days : i \in Readable(sql[d]) \cup Readable(zip[d]) \cup cut[d]

\* What is archived of a day: its zip, or the file that is to replace it.
Archive(d) ==
    IF zip[d] \notin {Absent, Torn} THEN zip[d]
    ELSE IF sql[d] = Absent THEN <<>> ELSE sql[d]

\* Runs of one day share a file, and yet no row is archived twice, or archived and
\* in the table, whatever has failed before; but for a batch whose run failed
\* after it was appended.  And no file is left beside its zip, nor a zip that is
\* not whole, by runs none of which failed.
OnceAtRest ==
    At("idle") =>
        /\ \A i \in Rows \ repeated : \A d, e \in Days :
             \A k \in DOMAIN Archive(d), l \in DOMAIN Archive(e) :
                 /\ i \in Archive(d)[k] => i \notin table
                 /\ i \in Archive(d)[k] \cap Archive(e)[l] => d = e /\ k = l
        /\ faults = 0 => \A d \in Days : sql[d] = Absent /\ zip[d] # Torn

\* An expired row leaves the table in the end, also after runs that failed and
\* days on which the zip cannot be read.
ExpiredLeaves ==
    \A i \in Rows : i \in Expired(old) ~> i \notin table
=============================================================================
