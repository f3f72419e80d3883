---------------------------- MODULE FwCloudLock ----------------------------
(***************************************************************************)
(* The exclusive lock of a FWCloud: the row of table fwcloud that names    *)
(* the session holding it, the session files that tell whether a holder is *)
(* still alive, and the HTTP requests that read and write both.  Node runs *)
(* one request at a time between two awaits, so each SQL statement and     *)
(* each file operation is one step and the steps of different requests     *)
(* interleave.  Nothing spans a transaction.                               *)
(***************************************************************************)
CONSTANTS
    Users,       \* rows of table user
    Sessions,    \* session identifiers (req.sessionID)
    UserOf,      \* the user of each session
    FwClouds,    \* rows of table fwcloud
    Requests,    \* slots for requests in flight: bounds the concurrency
    Admins,      \* sessions of users with the administrator role
    NoSession,   \* SQL null in fwcloud.locked_by
    NoFwCloud    \* a request that names no FWCloud

ASSUME ConstantsAssumption ==
    /\ UserOf \in [Sessions -> Users]
    /\ Admins \subseteq Sessions
    /\ NoSession \notin Sessions
    /\ NoFwCloud \notin FwClouds

VARIABLES
    locked,     \* fwcloud.locked
    lockedBy,   \* fwcloud.locked_by
    file,       \* the session store: what the file of each session says
    req,        \* the requests being served
    access,     \* table user__fwcloud, as pairs <<user, fwcloud>>
    \* history:
    withdrawn,  \* the pairs that access has lost at some time
    shared,     \* sessions with several requests in flight, until all are answered
    overtaken,  \* requests that read the row of their FWCloud before another wrote it
    disturbed   \* FWClouds that one of those writes, or an administrator seizes, until
                \* no request is busy there

system == <<locked, lockedBy, file, req>>
history == <<withdrawn, shared, overtaken, disturbed>>
vars == <<system, access, history>>
-----------------------------------------------------------------------------
(***************************************************************************)
(* Lock code runs at these points: LockValidation and updateFwcloudLock    *)
(* (check* is checkFwcloudLockTimeout, who* the look-up of the holder for  *)
(* the refusal), and updateFwcloudForceLock.                               *)
(***************************************************************************)
LockPath == {"access", "check", "checkFile", "checkRead", "checkClear",
             "select", "claim", "whoSelect", "whoFile", "whoRead",
             "forceSelect", "forceUpdate"}

PC == LockPath \cup
      {"idle", "run", "runUnlocked", "unlock", "unlockAll", "release",
       "destroy", "respond", "stuck"}

\* Where a request relies on what it read of the row, or of the holder's file.
Relying == {"checkFile", "checkRead", "checkClear", "claim"}

FileStates == {"unborn",   \* identifier not issued yet
               "live",     \* keepalive_ts at most keepalive_ms ago
               "stale",    \* keepalive_ts older than that
               "absent"}   \* file removed: logout, expiry or the store's reaper

Request == [pc : PC,
            s : Sessions \cup {NoSession},     \* req.sessionID
            c : FwClouds \cup {NoFwCloud},     \* req.body.fwcloud
            mutates : BOOLEAN,                 \* went through LockValidation
            seen : Sessions \cup {NoSession},  \* locked_by as last selected
            todo : SUBSET FwClouds]            \* FWClouds still to release

NoRequest == [pc |-> "idle", s |-> NoSession, c |-> NoFwCloud,
              mutates |-> FALSE, seen |-> NoSession, todo |-> {}]

TypeOK ==
    /\ locked \in [FwClouds -> BOOLEAN]
    /\ lockedBy \in [FwClouds -> Sessions \cup {NoSession}]
    /\ file \in [Sessions -> FileStates]
    /\ req \in [Requests -> Request]
    /\ access \subseteq Users \X FwClouds
    /\ withdrawn \subseteq Users \X FwClouds
    /\ shared \subseteq Sessions
    /\ overtaken \subseteq Requests
    /\ disturbed \subseteq FwClouds

Exists(s) == file[s] \in {"live", "stale"}
Dead(s) == file[s] \in {"stale", "absent"}
HeldBy(c, s) == locked[c] /\ lockedBy[c] = s
ServedFor(s) == {r \in Requests : req[r].pc \notin {"idle", "stuck"} /\ req[r].s = s}
InFlight(s) == ServedFor(s) # {}
Several(s) == \E r, q \in ServedFor(s) : r # q
Busy(c) == \E r \in Requests : req[r].pc \in LockPath \cup {"run"} /\ req[r].c = c
HasAccess(s, c) == <<UserOf[s], c>> \in access
CloudsOf(s) == {c \in FwClouds : HasAccess(s, c)}

\* A request forgets what it needs no more.
Ending == {"respond", "destroy", "stuck"}
MovedTo(r, label) ==
    [req[r] EXCEPT !.pc = label,
                   !.c = IF label \in Ending THEN NoFwCloud ELSE @,
                   !.mutates = @ /\ label \in LockPath,
                   !.seen = IF label \in Relying THEN @ ELSE NoSession]
Goto(r, label) == req' = [req EXCEPT ![r] = MovedTo(r, label)]
Remember(r, label, s) ==
    req' = [req EXCEPT ![r].pc = label, ![r].seen = s]
Answer(r) == req' = [req EXCEPT ![r] = NoRequest]
At(r, label) == req[r].pc = label

Init ==
    /\ locked = [c \in FwClouds |-> FALSE]
    /\ lockedBy = [c \in FwClouds |-> NoSession]
    /\ file = [s \in Sessions |-> "unborn"]
    /\ req = [r \in Requests |-> NoRequest]
    /\ access \in SUBSET (Users \X FwClouds)
    /\ withdrawn = {} /\ shared = {} /\ overtaken = {} /\ disturbed = {}
-----------------------------------------------------------------------------
(* An administrator gives and takes access, whatever is locked: /user is not under
   LockValidation.  One statement each. *)
AllowFwcloudAccess(u, c) == access' = access \cup {<<u, c>>} /\ UNCHANGED system
DisableFwcloudAccess(u, c) == access' = access \ {<<u, c>>} /\ UNCHANGED system

(***************************************************************************)
(* Sessions.  Time is seen only through the file of a session: Expire says *)
(* that keepalive_ms have passed since its keepalive_ts was last saved.    *)
(* The store's reaper removes the file 45 minutes later at the earliest,   *)
(* longer than any request that read the file while it was live.           *)
(***************************************************************************)
Login(s) ==
    /\ file[s] = "unborn"
    /\ file' = [file EXCEPT ![s] = "live"]
    /\ UNCHANGED <<locked, lockedBy, req>>

Expire(s) ==
    /\ file[s] = "live"
    /\ file' = [file EXCEPT ![s] = "stale"]
    /\ UNCHANGED <<locked, lockedBy, req>>

Reap(s) ==
    /\ file[s] = "stale"
    /\ ~InFlight(s)
    /\ \A r \in Requests : req[r].pc \in LockPath
           => req[r].pc \in {"access", "check", "checkFile", "checkRead"}
    /\ file' = [file EXCEPT ![s] = "absent"]
    /\ UNCHANGED <<locked, lockedBy, req>>

(***************************************************************************)
(* The session middleware loads the session and Authorization decides: a   *)
(* missing session is answered SESSION_BAD and changes nothing here, an    *)
(* expired one first gives back its locks, a good one goes on to point     *)
(* `next' with its keepalive refreshed in memory only.                     *)
(***************************************************************************)
Arrive(r, s, c, mutates, next) ==
    /\ At(r, "idle")
    /\ Exists(s)
    /\ LET expired == file[s] = "stale"
       IN
       req' = [req EXCEPT ![r] =
                 [pc |-> IF expired THEN "release" ELSE next,
                  s |-> s, c |-> IF expired THEN NoFwCloud ELSE c,
                  mutates |-> mutates /\ ~expired, seen |-> NoSession,
                  todo |-> IF expired THEN CloudsOf(s) ELSE {}]]
    /\ UNCHANGED <<locked, lockedBy, file>>

\* AccessControl lets through only the FWClouds that the user has now.
ArriveFor(r, s, c, mutates, next) ==
    HasAccess(s, c) /\ Arrive(r, s, c, mutates, next)

ReceiveMutation(r, s, c) == ArriveFor(r, s, c, TRUE, "access")
ReceiveLock(r, s, c) == ArriveFor(r, s, c, FALSE, "check")
ReceiveUnlock(r, s, c) == ArriveFor(r, s, c, FALSE, "unlock")
\* Only an administrator forces; another user is answered an error.
ReceiveForceLock(r, s, c) ==
    IF s \in Admins THEN ArriveFor(r, s, c, FALSE, "forceSelect")
    ELSE HasAccess(s, c) /\ Arrive(r, s, NoFwCloud, FALSE, "respond")
ReceiveRead(r, s) == Arrive(r, s, NoFwCloud, FALSE, "respond")
ReceiveLogout(r, s) == Arrive(r, s, NoFwCloud, FALSE, "unlockAll")

\* User.disableLockFwcloudAccess: one UPDATE per FWCloud of the user.
ReleaseOne(r) ==
    /\ At(r, "release")
    /\ \E c \in req[r].todo :
         /\ req' = [req EXCEPT ![r].todo = @ \ {c}]
         /\ IF HeldBy(c, req[r].s)
            THEN /\ locked' = [locked EXCEPT ![c] = FALSE]
                 /\ lockedBy' = [lockedBy EXCEPT ![c] = NoSession]
            ELSE UNCHANGED <<locked, lockedBy>>
    /\ UNCHANGED file

\* Variant: the UPDATEs are not awaited.
HastyReleaseDone(r) ==
    /\ At(r, "release")
    /\ Goto(r, "destroy")
    /\ UNCHANGED <<locked, lockedBy, file>>

ReleaseDone(r) ==
    /\ At(r, "release")
    /\ req[r].todo = {}
    /\ Goto(r, "destroy")
    /\ UNCHANGED <<locked, lockedBy, file>>

\* Variant: the destroyed session is saved with the answer all the same.
SavedDestroy(r) ==
    /\ At(r, "destroy")
    /\ file' = [file EXCEPT ![req[r].s] = "absent"]
    /\ Goto(r, "respond")
    /\ UNCHANGED <<locked, lockedBy>>

\* req.session.destroy, after expiry and after logout; a destroyed session is
\* not saved with the answer.
Destroy(r) ==
    /\ At(r, "destroy")
    /\ file' = [file EXCEPT ![req[r].s] = "absent"]
    /\ Answer(r)
    /\ UNCHANGED <<locked, lockedBy>>

\* The answer: express-session saves the refreshed keepalive_ts, whatever has
\* become of the file in the meantime.
Respond(r) ==
    /\ At(r, "respond")
    /\ file' = [file EXCEPT ![req[r].s] = "live"]
    /\ Answer(r)
    /\ UNCHANGED <<locked, lockedBy>>
-----------------------------------------------------------------------------
\* Variant: a locked FWCloud is let through without comparing sessions.
LaxValidateLock(r) ==
    /\ At(r, "access")
    /\ Goto(r, IF locked[req[r].c] THEN "run" ELSE "check")
    /\ UNCHANGED <<locked, lockedBy, file>>

(* LockValidation.handle: the first SELECT, for a request that changes data.  Without
   access, withdrawn since AccessControl, the handler runs and nothing is locked. *)
ValidateLock(r) ==
    LET c == req[r].c
        next == CASE ~HasAccess(req[r].s, c) -> "runUnlocked"
                  [] HasAccess(req[r].s, c) /\ ~locked[c] -> "check"
                  [] HasAccess(req[r].s, c) /\ HeldBy(c, req[r].s) -> "run"
                  [] OTHER -> "respond"
    IN /\ At(r, "access")
       /\ Goto(r, next)
       /\ UNCHANGED <<locked, lockedBy, file>>

(* checkFwcloudLockTimeout *)
CheckSelect(r) ==
    /\ At(r, "check")
    /\ IF locked[req[r].c] THEN Remember(r, "checkFile", lockedBy[req[r].c])
                           ELSE Goto(r, "select")
    /\ UNCHANGED <<locked, lockedBy, file>>

CheckFileExists(r) ==
    /\ At(r, "checkFile")
    /\ Goto(r, IF Exists(req[r].seen) THEN "checkRead" ELSE "checkClear")
    /\ UNCHANGED <<locked, lockedBy, file>>

\* Variant: a session file that can be read is that of a live session.
LaxCheckFileRead(r) ==
    /\ At(r, "checkRead")
    /\ Exists(req[r].seen)
    /\ Goto(r, "select")
    /\ UNCHANGED <<locked, lockedBy, file>>

CheckFileRead(r) ==
    /\ At(r, "checkRead")
    /\ Exists(req[r].seen)
    /\ Goto(r, IF file[req[r].seen] = "stale" THEN "checkClear" ELSE "select")
    /\ UNCHANGED <<locked, lockedBy, file>>

\* The file went away after pathExists: the rejection is awaited inside an
\* async Promise executor, nothing handles it, and Node ends the process.
\* Every request in flight is lost; the rows and the session files stay.
CheckFileGone(r) ==
    /\ At(r, "checkRead")
    /\ ~Exists(req[r].seen)
    /\ req' = [q \in Requests |-> NoRequest]
    /\ UNCHANGED <<locked, lockedBy, file>>

\* UPDATE ... SET locked = 0 WHERE id = ...: it names no holder.
CheckClear(r) ==
    /\ At(r, "checkClear")
    /\ locked' = [locked EXCEPT ![req[r].c] = FALSE]
    /\ Goto(r, "select")
    /\ UNCHANGED <<lockedBy, file>>
-----------------------------------------------------------------------------
(* updateFwcloudLock, after checkFwcloudLockTimeout *)
Lockable(c, s) == HasAccess(s, c) /\ (~locked[c] \/ lockedBy[c] = s)

\* Variant: the SELECT asks only whether the user has the FWCloud.
LaxLockSelect(r) ==
    /\ At(r, "select")
    /\ Goto(r, IF HasAccess(req[r].s, req[r].c) THEN "claim" ELSE "whoSelect")
    /\ UNCHANGED <<locked, lockedBy, file>>

LockSelect(r) ==
    /\ At(r, "select")
    /\ Goto(r, IF Lockable(req[r].c, req[r].s) THEN "claim" ELSE "whoSelect")
    /\ UNCHANGED <<locked, lockedBy, file>>

\* The UPDATE repeats none of the conditions of the SELECT.
LockClaim(r) ==
    /\ At(r, "claim")
    /\ locked' = [locked EXCEPT ![req[r].c] = TRUE]
    /\ lockedBy' = [lockedBy EXCEPT ![req[r].c] = req[r].s]
    /\ Goto(r, IF req[r].mutates THEN "run" ELSE "respond")
    /\ UNCHANGED file

WhoSelect(r) ==
    /\ At(r, "whoSelect")
    /\ IF locked[req[r].c] THEN Remember(r, "whoFile", lockedBy[req[r].c])
                           ELSE Goto(r, "respond")
    /\ UNCHANGED <<locked, lockedBy, file>>

\* Without a session file the promise is neither resolved nor rejected: the
\* request is never answered.
WhoFileExists(r) ==
    /\ At(r, "whoFile")
    /\ Goto(r, IF Exists(req[r].seen) THEN "whoRead" ELSE "stuck")
    /\ UNCHANGED <<locked, lockedBy, file>>

\* Refused, with the holder's name or with the error of the read.
WhoRead(r) ==
    /\ At(r, "whoRead")
    /\ Goto(r, "respond")
    /\ UNCHANGED <<locked, lockedBy, file>>

(* The handler behind LockValidation: it changes the FWCloud until it ends. *)
RunHandler(r) ==
    /\ At(r, "run") \/ At(r, "runUnlocked")
    /\ Goto(r, "respond")
    /\ UNCHANGED <<locked, lockedBy, file>>
-----------------------------------------------------------------------------
\* Variant: all three columns of the lock are set to null.
NullUnlock(r) ==
    /\ At(r, "unlock")
    /\ IF HeldBy(req[r].c, req[r].s)
       THEN /\ locked' = [locked EXCEPT ![req[r].c] = NoSession]
            /\ lockedBy' = [lockedBy EXCEPT ![req[r].c] = NoSession]
       ELSE UNCHANGED <<locked, lockedBy>>
    /\ Goto(r, "respond")
    /\ UNCHANGED file

(* updateFwcloudUnlock *)
Unlock(r) ==
    /\ At(r, "unlock")
    /\ IF HeldBy(req[r].c, req[r].s)
       THEN /\ locked' = [locked EXCEPT ![req[r].c] = FALSE]
            /\ lockedBy' = [lockedBy EXCEPT ![req[r].c] = NoSession]
       ELSE UNCHANGED <<locked, lockedBy>>
    /\ Goto(r, "respond")
    /\ UNCHANGED file

(* unlockAllLockedFwclouds: one UPDATE over the whole table, at logout. *)
UnlockAll(r) ==
    /\ At(r, "unlockAll")
    /\ LET mine == {c \in FwClouds : HeldBy(c, req[r].s)} IN
       /\ locked' = [c \in FwClouds |-> locked[c] /\ c \notin mine]
       /\ lockedBy' = [c \in FwClouds |->
                         IF c \in mine THEN NoSession ELSE lockedBy[c]]
    /\ Goto(r, "destroy")
    /\ UNCHANGED file

(* updateFwcloudForceLock: the session selected here is told afterwards, by an event
   that changes nothing, that it has lost the lock. *)
ForceSelect(r) ==
    /\ At(r, "forceSelect")
    /\ Goto(r, "forceUpdate")
    /\ UNCHANGED <<locked, lockedBy, file>>

ForceUpdate(r) ==
    /\ At(r, "forceUpdate")
    /\ locked' = [locked EXCEPT ![req[r].c] = TRUE]
    /\ lockedBy' = [lockedBy EXCEPT ![req[r].c] = req[r].s]
    /\ Goto(r, "respond")
    /\ UNCHANGED file
-----------------------------------------------------------------------------
Receive(r, s) ==
    \/ ReceiveRead(r, s)
    \/ ReceiveLogout(r, s)
    \/ \E c \in FwClouds :
         \/ ReceiveMutation(r, s, c)
         \/ ReceiveLock(r, s, c)
         \/ ReceiveUnlock(r, s, c)
         \/ ReceiveForceLock(r, s, c)

SessionTime(s) == Login(s) \/ Expire(s) \/ Reap(s)

Serve(r) ==
    \/ ReleaseOne(r) \/ ReleaseDone(r) \/ Destroy(r) \/ Respond(r)
    \/ ValidateLock(r)
    \/ CheckSelect(r) \/ CheckFileExists(r) \/ CheckFileRead(r)
    \/ CheckFileGone(r) \/ CheckClear(r)
    \/ LockSelect(r) \/ LockClaim(r)
    \/ WhoSelect(r) \/ WhoFileExists(r) \/ WhoRead(r)
    \/ RunHandler(r)
    \/ Unlock(r) \/ UnlockAll(r)
    \/ ForceSelect(r) \/ ForceUpdate(r)

(* History *)
RowChanged(c) == <<locked[c], lockedBy[c]>>' # <<locked[c], lockedBy[c]>>
ComesBack(s) == file[s] # "live" /\ file'[s] = "live"

\* The step is not of the request, and makes what it has read untrue.
Overtakes(r) ==
    /\ req'[r] = req[r] /\ req[r].pc \in Relying
    /\ \/ RowChanged(req[r].c)
       \/ req[r].pc # "claim" /\ ComesBack(req[r].seen)

\* A request is about to write the row on what has become untrue, or to seize it.
Disturbed(c) ==
    \E r \in Requests : /\ req[r].c = c
                        /\ \/ r \in overtaken /\ req[r].pc \in {"checkClear", "claim"}
                           \/ At(r, "forceUpdate")

History ==
    /\ withdrawn' = withdrawn \cup (access \ access')
    /\ shared' = {s \in Sessions : InFlight(s)' /\ (s \in shared \/ Several(s)')}
    /\ overtaken' = {r \in Requests : req'[r].pc \in Relying
                                      /\ (r \in overtaken \/ Overtakes(r))}
    /\ disturbed' = {c \in FwClouds : Busy(c)' /\ (c \in disturbed \/ Disturbed(c)')}

Next ==
    /\ \/ /\ \/ \E s \in Sessions : SessionTime(s)
             \/ \E r \in Requests : Serve(r)
             \/ \E r \in Requests, s \in Sessions : Receive(r, s)
          /\ UNCHANGED access
       \/ \E u \in Users, c \in FwClouds :
            AllowFwcloudAccess(u, c) \/ DisableFwcloudAccess(u, c)
    /\ History

Spec == Init /\ [][Next]_vars

\* Node's event loop runs every callback and MySQL answers every statement;
\* nothing obliges a client to send a request or a session to expire.
FairSpec == Spec /\ \A r \in Requests : WF_system(Serve(r))
-----------------------------------------------------------------------------
(* Properties *)

\* What logout and expiry have left locked when they destroy the session: nothing, but
\* the FWClouds an expired session held and whose access its user has lost (its locks
\* are given back FWCloud by FWCloud of the user).  Of a session with one request in
\* flight: another one could lock between the release and the end.
LeavesNothingLocked ==
    \A r \in Requests : LET s == req[r].s IN
        At(r, "destroy") /\ s \notin shared =>
            \A c \in FwClouds : HeldBy(c, s) =>
                file[s] = "stale" /\ <<UserOf[s], c>> \in withdrawn

\* While a handler changes a FWCloud its live session holds the lock, however requests
\* overlap, last and expire: unless an administrator seized it, a request unlocked or
\* claimed it on what it had read before another wrote it, or the session has another
\* request in flight, which may unlock.  Handlers that LockValidation let through
\* without access hold no lock.
RunnerHolds ==
    \A r \in Requests :
        /\ At(r, "run") /\ file[req[r].s] = "live"
        /\ req[r].s \notin shared /\ req[r].c \notin disturbed
        => HeldBy(req[r].c, req[r].s)

\* An identifier whose session file was removed never comes back: the request that
\* destroyed it, at logout or expiry, does not save it again with its answer.  Another
\* request of the session still in flight does.
GoneForEver ==
    [][\A s \in Sessions \ shared : file[s] = "absent" => file'[s] = "absent"]_vars

\* As long as sessions keep asking for the lock of a FWCloud, a dead holder
\* does not keep it: checkFwcloudLockTimeout takes it away.
Asked(c) == \E r \in Requests : At(r, "check") /\ req[r].c = c
HeldByDead(c) == locked[c] /\ Dead(lockedBy[c])
DeadHolderReclaimed ==
    \A c \in FwClouds : []<>Asked(c) => (HeldByDead(c) ~> ~HeldByDead(c))

\* "FWCloud is locked by another user, only read operations are allowed"
\* (utils/error_table.js): no two sessions run changing handlers on a FWCloud.
OthersOnlyRead ==
    \A r, q \in Requests :
        At(r, "run") /\ At(q, "run") /\ req[r].c = req[q].c
            => req[r].s = req[q].s

(* The lock as its users are promised it; contested are the FWClouds of requests that
   another has overtaken. *)
Ownership == INSTANCE FwCloudOwnership WITH
    Nobody <- NoSession,
    owner <- [c \in FwClouds |-> IF locked[c] THEN lockedBy[c] ELSE NoSession],
    alive <- {s \in Sessions : file[s] = "live"},
    contested <- {c \in FwClouds : \E r \in overtaken : req[r].c = c}

\* The lock code implements FwCloudOwnership.
ImplementsOwnership == Ownership!Spec
=============================================================================
