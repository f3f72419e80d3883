------------------------- MODULE FwCloudLockProofs -------------------------
(***************************************************************************)
(* Theorems about FwCloudLock, for any number of users, sessions, FWClouds *)
(* and requests that overlap anywhere: types, what a session that ends     *)
(* leaves locked, that identifiers do not come back, that a running        *)
(* handler holds the lock, and that the lock implements FwCloudOwnership.  *)
(***************************************************************************)
EXTENDS FwCloudLock, TLAPS

(***************************************************************************)
(* The inductive invariant.  Each part says of one request what it relies  *)
(* on; history tells the requests that cannot rely on it.                  *)
(***************************************************************************)
Served(r) == req[r].pc \notin {"idle", "stuck"}
Had(s, c) == <<UserOf[s], c>> \in access \cup withdrawn

Known(r) ==
    /\ ~At(r, "idle") => req[r].s \in Sessions /\ file[req[r].s] # "unborn"
    /\ req[r].pc \in LockPath \cup {"run", "runUnlocked", "unlock"} => req[r].c \in FwClouds
    /\ req[r].pc \in {"checkFile", "checkRead", "checkClear", "whoFile"}
          => req[r].seen \in Sessions
    /\ req[r].pc \in LockPath => Had(req[r].s, req[r].c)
    /\ req[r].pc \in {"forceSelect", "forceUpdate"} => req[r].s \in Admins

\* Another request of the same session, or an end of the session, makes it shared.
Alone(r) == \A q \in Requests \ {r} :
    Served(r) /\ Served(q) /\ req[r].s = req[q].s => req[r].s \in shared
Present(r) == Served(r) /\ file[req[r].s] = "absent" => req[r].s \in shared

\* What a request has read still holds, unless it is overtaken.
UpToDate(r) == r \notin overtaken => LET c == req[r].c IN
    /\ req[r].pc \in {"checkFile", "checkRead", "checkClear"}
          => locked[c] /\ lockedBy[c] = req[r].seen
    /\ At(r, "checkClear") => file[req[r].seen] # "live"
    /\ At(r, "claim") => ~locked[c] \/ lockedBy[c] = req[r].s
Warned(r) ==
    \/ r \in overtaken /\ req[r].pc \in {"checkClear", "claim"}
    \/ At(r, "forceUpdate")
    => req[r].c \in disturbed

\* What an expired session still holds is to be released, or has been withdrawn.
Leaving(r) == LET s == req[r].s IN
    /\ At(r, "release") /\ s \notin shared =>
          /\ file[s] = "stale"
          /\ \A c \in FwClouds : HeldBy(c, s) =>
                c \in req[r].todo \/ <<UserOf[s], c>> \in withdrawn
    /\ At(r, "destroy") /\ s \notin shared =>
          \A c \in FwClouds : HeldBy(c, s) =>
              file[s] = "stale" /\ <<UserOf[s], c>> \in withdrawn
Holding(r) ==
    /\ At(r, "run") /\ file[req[r].s] = "live"
    /\ req[r].s \notin shared /\ req[r].c \notin disturbed
    => HeldBy(req[r].c, req[r].s)

Sound(r) == /\ Known(r) /\ Alone(r) /\ Present(r) /\ UpToDate(r) /\ Warned(r)
            /\ Leaving(r) /\ Holding(r)

HolderHadAccess ==
    \A c \in FwClouds : locked[c] => lockedBy[c] \in Sessions /\ Had(lockedBy[c], c)

Inv == TypeOK /\ HolderHadAccess /\ \A r \in Requests : Sound(r)
-----------------------------------------------------------------------------
\* The labels are labels, so that the proofs need not enumerate PC.
LEMMA Labels ==
    /\ LockPath \subseteq PC
    /\ {"idle", "run", "runUnlocked", "unlock", "unlockAll", "release", "destroy",
        "respond", "stuck", "access", "check", "checkFile", "checkRead", "checkClear",
        "select", "claim", "whoSelect", "whoFile", "whoRead", "forceSelect",
        "forceUpdate"} \subseteq PC
BY DEF PC, LockPath

\* A request that moves on keeps what it needs there.
LEMMA GotoKeeps ==
    ASSUME TypeOK, NEW r \in Requests, NEW label \in PC, Goto(r, label)
    PROVE  /\ req' \in [Requests -> Request]
           /\ \A q \in Requests : q # r => req'[q] = req[q]
           /\ req'[r].pc = label
           /\ req'[r].s = req[r].s
           /\ req'[r].todo = req[r].todo
           /\ label \notin Ending => req'[r].c = req[r].c
           /\ label \in Relying => req'[r].seen = req[r].seen
<1>1. req[r] \in Request /\ req \in [Requests -> Request]
  BY DEF TypeOK
<1>2. req' = [req EXCEPT ![r] = MovedTo(r, label)]
  BY DEF Goto
<1>3. /\ MovedTo(r, label) \in Request /\ MovedTo(r, label).pc = label
      /\ MovedTo(r, label).s = req[r].s /\ MovedTo(r, label).todo = req[r].todo
      /\ label \notin Ending => MovedTo(r, label).c = req[r].c
      /\ label \in Relying => MovedTo(r, label).seen = req[r].seen
  BY <1>1 DEF Request, MovedTo
<1> QED BY <1>1, <1>2, <1>3

\* A request that notes the holder it has selected keeps everything else.
LEMMA RememberKeeps ==
    ASSUME TypeOK, NEW r \in Requests, NEW label \in PC,
           NEW s \in Sessions \cup {NoSession}, Remember(r, label, s)
    PROVE  /\ req' \in [Requests -> Request]
           /\ \A q \in Requests : q # r => req'[q] = req[q]
           /\ req'[r].pc = label
           /\ req'[r].s = req[r].s
           /\ req'[r].c = req[r].c
           /\ req'[r].seen = s
BY DEF TypeOK, Remember, Request

\* An answered request leaves its slot idle.
LEMMA AnswerKeeps ==
    ASSUME TypeOK, NEW r \in Requests, Answer(r)
    PROVE  /\ req' \in [Requests -> Request]
           /\ \A q \in Requests : q # r => req'[q] = req[q]
           /\ req'[r].pc = "idle"
BY Labels DEF TypeOK, Answer, NoRequest, Request
-----------------------------------------------------------------------------
(* What history does in any step. *)

HistoryTypes == /\ withdrawn \subseteq Users \X FwClouds /\ shared \subseteq Sessions
                /\ overtaken \subseteq Requests /\ disturbed \subseteq FwClouds

LEMMA HistoryKeeps ==
    ASSUME Inv, History
    PROVE  /\ HistoryTypes'
           /\ withdrawn \subseteq withdrawn'
           /\ \A s, c : Had(s, c) => Had(s, c)'
           /\ \A r \in Requests : Served(r)' /\ req'[r].s \in shared => req'[r].s \in shared'
           /\ \A r \in Requests :
                req'[r].pc \in Relying /\ r \notin overtaken' => r \notin overtaken /\ ~Overtakes(r)
           /\ \A r \in Requests :
                /\ req'[r].pc \in LockPath \cup {"run"} /\ req'[r].c \in FwClouds
                /\ req'[r].c \notin disturbed'
                => req'[r].c \notin disturbed
  <1>1. HistoryTypes'
    BY DEF HistoryTypes, History, Inv, TypeOK
  <1>2. withdrawn \subseteq withdrawn' /\ \A s, c : Had(s, c) => Had(s, c)'
    BY DEF History, Had
  <1>3. ASSUME NEW r \in Requests, Served(r)', req'[r].s \in shared
        PROVE  req'[r].s \in shared'
    <2>1. PICK s \in Sessions : s = req'[r].s
      BY <1>3 DEF Inv, TypeOK
    <2>2. InFlight(s)'
      BY <1>3, <2>1 DEF InFlight, ServedFor, Served
    <2> QED BY <1>3, <2>1, <2>2 DEF History
  <1>4. ASSUME NEW r \in Requests, req'[r].pc \in Relying, r \notin overtaken'
        PROVE  r \notin overtaken /\ ~Overtakes(r)
    BY <1>4 DEF History
  <1>5. ASSUME NEW r \in Requests, req'[r].pc \in LockPath \cup {"run"},
               req'[r].c \in FwClouds, req'[r].c \notin disturbed'
        PROVE  req'[r].c \notin disturbed
    <2>1. PICK c \in FwClouds : c = req'[r].c
      BY <1>5
    <2>2. Busy(c)'
      BY <1>5, <2>1 DEF Busy
    <2> QED BY <1>5, <2>1, <2>2 DEF History
  <1> QED BY <1>1, <1>2, <1>3, <1>4, <1>5

LEMMA AloneAndWarned ==
    ASSUME History, \A q \in Requests : Known(q)', NEW r \in Requests
    PROVE  Alone(r)' /\ Warned(r)'
  <1>1. Alone(r)'
    <2> SUFFICES ASSUME NEW q \in Requests \ {r}, Served(r)', Served(q)',
                        req'[r].s = req'[q].s
                 PROVE  req'[r].s \in shared'
      BY DEF Alone
    <2>1. PICK s \in Sessions : s = req'[r].s
      BY DEF Served, Known, At
    <2>2. InFlight(s)' /\ Several(s)'
      BY <2>1 DEF InFlight, Several, ServedFor, Served
    <2> QED BY <2>1, <2>2 DEF History
  <1>2. Warned(r)'
    <2> SUFFICES ASSUME \/ r \in overtaken' /\ req'[r].pc \in {"checkClear", "claim"}
                        \/ At(r, "forceUpdate")'
                 PROVE  req'[r].c \in disturbed'
      BY DEF Warned
    <2>1. PICK c \in FwClouds : c = req'[r].c
      BY DEF Known, LockPath, At
    <2>2. Busy(c)' /\ Disturbed(c)'
      BY <2>1 DEF Busy, Disturbed, LockPath, At
    <2> QED BY <2>1, <2>2 DEF History
  <1> QED BY <1>1, <1>2
-----------------------------------------------------------------------------
(* What a request that is served does to the rows and the files. *)

SystemTypes == /\ locked \in [FwClouds -> BOOLEAN]
               /\ lockedBy \in [FwClouds -> Sessions \cup {NoSession}]
               /\ file \in [Sessions -> FileStates]
               /\ req \in [Requests -> Request]

\* A row stays, or loses the lock of the session, or one that is cleared, or gets it.
Row(r, d) ==
    \/ locked'[d] = locked[d] /\ lockedBy'[d] = lockedBy[d]
    \/ HeldBy(d, req[r].s) /\ ~locked'[d] /\ req[r].pc \in {"release", "unlock", "unlockAll"}
    \/ At(r, "checkClear") /\ d = req[r].c /\ ~locked'[d]
    \/ /\ req[r].pc \in {"claim", "forceUpdate"} /\ d = req[r].c
       /\ locked'[d] /\ lockedBy'[d] = req[r].s

Acts(r) ==
    /\ Served(r)
    /\ SystemTypes'
    /\ \A q \in Requests : q # r => req'[q] = req[q]
    /\ req'[r].pc = "idle" \/ (req'[r].s = req[r].s /\ UNCHANGED file)
    /\ \A t \in Sessions : /\ t # req[r].s => file'[t] = file[t]
                           /\ file'[t] = "unborn" => file[t] = "unborn"
    /\ \A d \in FwClouds : Row(r, d)

LEMMA ServeActs ==
    ASSUME Inv, NEW r \in Requests, Serve(r), ~CheckFileGone(r)
    PROVE  Acts(r)
<1> USE Labels
<1>0. TypeOK /\ SystemTypes /\ Known(r)
  BY DEF Inv, Sound, TypeOK, SystemTypes
<1>1. CASE ReleaseOne(r)
  <2>1. PICK c \in req[r].todo :
          /\ req' = [req EXCEPT ![r].todo = @ \ {c}]
          /\ IF HeldBy(c, req[r].s)
             THEN /\ locked' = [locked EXCEPT ![c] = FALSE]
                  /\ lockedBy' = [lockedBy EXCEPT ![c] = NoSession]
             ELSE UNCHANGED <<locked, lockedBy>>
    BY <1>1 DEF ReleaseOne
  <2>2. At(r, "release") /\ UNCHANGED file
    BY <1>1 DEF ReleaseOne
  <2>3. /\ req' \in [Requests -> Request] /\ req'[r].s = req[r].s
        /\ \A q \in Requests : q # r => req'[q] = req[q]
    BY <1>0, <2>1 DEF SystemTypes, Request
  <2>4. c \in FwClouds
    BY <1>0 DEF SystemTypes, Request
  <2>5. /\ locked' \in [FwClouds -> BOOLEAN] /\ lockedBy' \in [FwClouds -> Sessions \cup {NoSession}]
        /\ \A d \in FwClouds : Row(r, d)
    BY <1>0, <2>1, <2>2, <2>4 DEF SystemTypes, Row, At
  <2> QED BY <1>0, <2>2, <2>3, <2>5 DEF Acts, Served, At, SystemTypes
<1>2. CASE Destroy(r) \/ Respond(r)
  <2>1. /\ req[r].pc \in {"destroy", "respond"} /\ UNCHANGED <<locked, lockedBy>>
        /\ \E f \in {"live", "absent"} : file' = [file EXCEPT ![req[r].s] = f]
        /\ Answer(r)
    BY <1>2 DEF Destroy, Respond, At
  <2>2. /\ req' \in [Requests -> Request] /\ req'[r].pc = "idle"
        /\ \A q \in Requests : q # r => req'[q] = req[q]
    BY <1>0, <2>1, AnswerKeeps
  <2>3. /\ file' \in [Sessions -> FileStates]
        /\ \A t \in Sessions : /\ t # req[r].s => file'[t] = file[t]
                               /\ file'[t] = "unborn" => file[t] = "unborn"
    BY <1>0, <2>1 DEF SystemTypes, FileStates
  <2> QED BY <1>0, <2>1, <2>2, <2>3 DEF Acts, Served, SystemTypes, Row
<1>3. CASE \/ ReleaseDone(r) \/ ValidateLock(r) \/ CheckSelect(r) \/ CheckFileExists(r)
           \/ CheckFileRead(r) \/ LockSelect(r) \/ WhoSelect(r) \/ WhoFileExists(r)
           \/ WhoRead(r) \/ RunHandler(r) \/ ForceSelect(r)
  <2>1. UNCHANGED <<locked, lockedBy, file>> /\ Served(r)
    BY <1>3 DEF ReleaseDone, ValidateLock, CheckSelect, CheckFileExists, CheckFileRead,
       LockSelect, WhoSelect, WhoFileExists, WhoRead, RunHandler, ForceSelect, Served, At
  <2>2. CASE \E label \in PC : Goto(r, label)
    BY <1>0, <2>1, <2>2, GotoKeeps DEF Acts, SystemTypes, Row
  <2>3. CASE \E label \in PC : Remember(r, label, lockedBy[req[r].c]) /\ req[r].c \in FwClouds
    <3>1. lockedBy[req[r].c] \in Sessions \cup {NoSession}
      BY <1>0, <2>3 DEF SystemTypes
    <3> QED BY <1>0, <2>1, <2>3, <3>1, RememberKeeps DEF Acts, SystemTypes, Row
  <2>4. req[r].pc \in LockPath => req[r].c \in FwClouds
    BY <1>0 DEF Known
  <2> QED
    BY <1>3, <2>2, <2>3, <2>4 DEF ReleaseDone, ValidateLock, CheckSelect, CheckFileExists,
       CheckFileRead, LockSelect, WhoSelect, WhoFileExists, WhoRead, RunHandler,
       ForceSelect, At, LockPath
<1>4. CASE \/ CheckClear(r) \/ LockClaim(r) \/ Unlock(r) \/ UnlockAll(r) \/ ForceUpdate(r)
  <2>1. PICK label \in PC : Goto(r, label)
    BY <1>4 DEF CheckClear, LockClaim, Unlock, UnlockAll, ForceUpdate
  <2>2. UNCHANGED file /\ Served(r)
    BY <1>4 DEF CheckClear, LockClaim, Unlock, UnlockAll, ForceUpdate, Served, At
  <2>3. /\ locked' \in [FwClouds -> BOOLEAN] /\ lockedBy' \in [FwClouds -> Sessions \cup {NoSession}]
        /\ \A d \in FwClouds : Row(r, d)
    <3>1. At(r, "unlockAll") \/ (req[r].c \in FwClouds /\ req[r].s \in Sessions)
      BY <1>0, <1>4 DEF CheckClear, LockClaim, Unlock, UnlockAll, ForceUpdate, Known, At, LockPath
    <3>2. CASE CheckClear(r)
      BY <1>0, <3>1, <3>2 DEF CheckClear, SystemTypes, Row, At
    <3>3. CASE LockClaim(r)
      BY <1>0, <3>1, <3>3 DEF LockClaim, SystemTypes, Row, At
    <3>4. CASE ForceUpdate(r)
      BY <1>0, <3>1, <3>4 DEF ForceUpdate, SystemTypes, Row, At
    <3>5. CASE Unlock(r)
      BY <1>0, <3>1, <3>5 DEF Unlock, SystemTypes, Row, At
    <3>6. CASE UnlockAll(r)
      BY <1>0, <3>6 DEF UnlockAll, SystemTypes, Row, At, HeldBy
    <3> QED BY <1>4, <3>2, <3>3, <3>4, <3>5, <3>6
  <2> QED BY <1>0, <2>1, <2>2, <2>3, GotoKeeps DEF Acts, SystemTypes
<1> QED BY <1>1, <1>2, <1>3, <1>4, Serve(r) DEF Serve
-----------------------------------------------------------------------------
(* Every step keeps the invariant. *)

LEMMA RowsKeep ==
    ASSUME Inv, History, NEW r \in Requests, Acts(r)
    PROVE  HolderHadAccess'
  <1> SUFFICES ASSUME NEW c \in FwClouds, locked'[c]
               PROVE  lockedBy'[c] \in Sessions /\ Had(lockedBy[c], c)'
    BY DEF HolderHadAccess
  <1>1. Row(r, c) /\ Known(r)
    BY DEF Acts, Inv, Sound
  <1>2. CASE locked'[c] = locked[c] /\ lockedBy'[c] = lockedBy[c]
    BY <1>2, HistoryKeeps DEF Inv, HolderHadAccess, Had
  <1>3. CASE /\ req[r].pc \in {"claim", "forceUpdate"} /\ c = req[r].c
             /\ lockedBy'[c] = req[r].s
    BY <1>1, <1>3, HistoryKeeps DEF Known, Had, LockPath, At
  <1> QED BY <1>1, <1>2, <1>3 DEF Row

\* The other requests, for which only the rows and the files can have changed.
LEMMA OthersSound ==
    ASSUME Inv, History, NEW r \in Requests, Acts(r), NEW q \in Requests \ {r}
    PROVE  /\ Known(q)' /\ Present(q)' /\ UpToDate(q)' /\ Leaving(q)' /\ Holding(q)'
  <1>0. Sound(q) /\ Sound(r) /\ TypeOK /\ req'[q] = req[q] /\ Served(r) /\ q \in Requests
    BY DEF Inv, Acts
  <1>1. Known(q)'
    <2>1. \A s, c : Had(s, c) => Had(s, c)'
      BY HistoryKeeps
    <2>2. req[q].s \in Sessions /\ file'[req[q].s] = "unborn" => file[req[q].s] = "unborn"
      BY DEF Acts
    <2> QED BY <1>0, <2>1, <2>2 DEF Sound, Known, At
  <1>2. ASSUME Served(q), req[q].s \notin shared'
        PROVE  /\ req[q].s \in Sessions /\ req[q].s \notin shared /\ req[r].s # req[q].s
               /\ file'[req[q].s] = file[req[q].s]
    <2>1. req[q].s \in Sessions
      BY <1>0, <1>2 DEF Sound, Known, Served, At
    <2>2. req[q].s \notin shared
      BY <1>0, <1>2, HistoryKeeps DEF Served
    <2>3. req[r].s # req[q].s
      BY <1>0, <1>2, <2>2 DEF Sound, Alone
    <2> QED BY <2>1, <2>2, <2>3 DEF Acts
  <1>3. Present(q)'
    BY <1>0, <1>2 DEF Present, Served, Sound
  <1>4. UpToDate(q)'
    <2> SUFFICES ASSUME q \notin overtaken', req[q].pc \in Relying
                 PROVE  UpToDate(q)'
      BY <1>0 DEF UpToDate, Relying, At
    <2>1. q \notin overtaken /\ ~Overtakes(q)
      BY <1>0, HistoryKeeps
    <2>2. /\ locked'[req[q].c] = locked[req[q].c] /\ lockedBy'[req[q].c] = lockedBy[req[q].c]
          /\ req[q].pc # "claim" => ~ComesBack(req[q].seen)
      BY <1>0, <2>1 DEF Overtakes, RowChanged
    <2> QED BY <1>0, <2>1, <2>2 DEF UpToDate, Sound, At, ComesBack
  <1>5. ASSUME Served(q), req[q].s \notin shared', NEW c \in FwClouds, HeldBy(c, req[q].s)'
        PROVE  HeldBy(c, req[q].s)
    <2>1. req[r].s # req[q].s /\ Row(r, c)
      BY <1>2, <1>5 DEF Acts
    <2> QED BY <1>0, <1>5, <2>1 DEF Row, HeldBy
  <1>6. Leaving(q)'
    <2>1. withdrawn \subseteq withdrawn'
      BY HistoryKeeps
    <2>2. CASE At(q, "release")
      <3>1. Served(q) /\ ~At(q, "destroy")
        BY <2>2 DEF Served, At
      <3> QED BY <1>0, <1>2, <1>5, <2>1, <2>2, <3>1 DEF Leaving, Sound, At
    <2>3. CASE At(q, "destroy")
      <3>1. Served(q) /\ ~At(q, "release")
        BY <2>3 DEF Served, At
      <3> QED BY <1>0, <1>2, <1>5, <2>1, <2>3, <3>1 DEF Leaving, Sound, At
    <2> QED BY <1>0, <2>2, <2>3 DEF Leaving, At
  <1>7. Holding(q)'
    <2> SUFFICES ASSUME At(q, "run"), file'[req[q].s] = "live", req[q].s \notin shared',
                        req[q].c \notin disturbed'
                 PROVE  HeldBy(req[q].c, req[q].s)'
      BY <1>0 DEF Holding, At
    <2>1. req[q].c \in FwClouds /\ Served(q)
      BY <1>0 DEF Sound, Known, Served, At
    <2>2. req[q].c \notin disturbed
      BY <1>0, <2>1, HistoryKeeps DEF At
    <2>3. req[r].s # req[q].s /\ file[req[q].s] = "live" /\ req[q].s \notin shared
      BY <1>2, <2>1
    <2>4. HeldBy(req[q].c, req[q].s)
      BY <1>0, <2>2, <2>3 DEF Sound, Holding
    <2>5. Row(r, req[q].c) /\ Warned(r) /\ UpToDate(r)
      BY <1>0, <2>1 DEF Acts, Sound
    <2> QED BY <1>0, <2>2, <2>3, <2>4, <2>5 DEF Row, HeldBy, Warned, UpToDate, At
  <1> QED BY <1>1, <1>3, <1>4, <1>6, <1>7

\* A request that moves on without a look at a session file of its own.
LEMMA GotoKnown ==
    ASSUME Inv, History, NEW r \in Requests, Acts(r), NEW label \in PC, Goto(r, label),
           label \in LockPath => req[r].pc \in LockPath,
           label \in {"run", "runUnlocked"} => req[r].pc \in LockPath,
           label \notin {"checkFile", "whoFile", "idle", "unlock"},
           label \in {"checkRead", "checkClear"} => req[r].pc \in {"checkFile", "checkRead"},
           label \in {"forceSelect", "forceUpdate"} => req[r].pc = "forceSelect"
    PROVE  Known(r)'
  <1>1. /\ req'[r].pc = label /\ req'[r].s = req[r].s
        /\ label \in LockPath \cup {"run", "runUnlocked", "unlock"} => req'[r].c = req[r].c
        /\ label \in {"checkRead", "checkClear"} => req'[r].seen = req[r].seen
    BY GotoKeeps DEF Inv, Ending, LockPath, Relying
  <1>2. /\ req[r].s \in Sessions => (file'[req[r].s] = "unborn" => file[req[r].s] = "unborn")
        /\ \A s, c : Had(s, c) => Had(s, c)'
    BY HistoryKeeps DEF Acts
  <1>3. Known(r) /\ Served(r)
    BY DEF Inv, Sound, Acts
  <1> QED BY <1>1, <1>2, <1>3 DEF Known, Served, At, LockPath

LEMMA ActorKnown ==
    ASSUME Inv, History, NEW r \in Requests, Serve(r), Acts(r), ~CheckFileGone(r)
    PROVE  Known(r)'
<1> USE Labels
<1>0. TypeOK /\ Known(r) /\ HolderHadAccess
  BY DEF Inv, Sound
<1>1. CASE ReleaseOne(r)
  <2>1. req'[r].pc = "release" /\ req'[r].s = req[r].s
    BY <1>0, <1>1 DEF ReleaseOne, TypeOK, Request, At
  <2>2. UNCHANGED file /\ At(r, "release")
    BY <1>1 DEF ReleaseOne
  <2> QED BY <1>0, <2>1, <2>2 DEF Known, At, LockPath
<1>2. CASE Destroy(r) \/ Respond(r)
  <2>1. req'[r].pc = "idle"
    BY <1>0, <1>2, AnswerKeeps DEF Destroy, Respond
  <2> QED BY <2>1 DEF Known, At, LockPath
<1>3. CASE \/ ReleaseDone(r) \/ ValidateLock(r) \/ CheckFileExists(r) \/ CheckFileRead(r)
           \/ LockSelect(r) \/ WhoFileExists(r) \/ WhoRead(r) \/ RunHandler(r) \/ CheckClear(r)
           \/ LockClaim(r) \/ Unlock(r) \/ UnlockAll(r) \/ ForceUpdate(r) \/ ForceSelect(r)
  <2>1. PICK label \in PC :
          /\ Goto(r, label)
          /\ label \in LockPath => req[r].pc \in LockPath
          /\ label \in {"run", "runUnlocked"} => req[r].pc \in LockPath
          /\ label \notin {"checkFile", "whoFile", "idle", "unlock"}
          /\ label \in {"checkRead", "checkClear"} => req[r].pc \in {"checkFile", "checkRead"}
          /\ label \in {"forceSelect", "forceUpdate"} => req[r].pc = "forceSelect"
    <3>1. CASE ReleaseDone(r) \/ ValidateLock(r) \/ CheckFileExists(r) \/ CheckFileRead(r)
      BY <3>1 DEF ReleaseDone, ValidateLock, CheckFileExists, CheckFileRead, At, LockPath
    <3>2. CASE LockSelect(r) \/ WhoFileExists(r) \/ WhoRead(r) \/ RunHandler(r) \/ CheckClear(r)
      BY <3>2 DEF LockSelect, WhoFileExists, WhoRead, RunHandler, CheckClear, At, LockPath
    <3>3. CASE LockClaim(r) \/ Unlock(r) \/ UnlockAll(r) \/ ForceUpdate(r) \/ ForceSelect(r)
      BY <3>3 DEF LockClaim, Unlock, UnlockAll, ForceUpdate, ForceSelect, At, LockPath
    <3> QED BY <1>3, <3>1, <3>2, <3>3
  <2> QED BY <2>1, GotoKnown
<1>4. CASE CheckSelect(r) \/ WhoSelect(r)
  <2>1. /\ req[r].pc \in {"check", "whoSelect"} /\ req[r].c \in FwClouds
        /\ UNCHANGED <<locked, lockedBy, file>>
    BY <1>0, <1>4 DEF CheckSelect, WhoSelect, Known, At, LockPath
  <2>2. CASE Goto(r, "select") \/ Goto(r, "respond")
    BY <2>1, <2>2, GotoKnown DEF LockPath
  <2>3. CASE \E label \in {"checkFile", "whoFile"} :
               Remember(r, label, lockedBy[req[r].c]) /\ locked[req[r].c]
    <3>1. PICK label \in {"checkFile", "whoFile"} :
               Remember(r, label, lockedBy[req[r].c]) /\ locked[req[r].c]
      BY <2>3
    <3>2. lockedBy[req[r].c] \in Sessions
      BY <1>0, <2>1, <3>1 DEF HolderHadAccess
    <3>3. /\ req'[r].pc = label /\ req'[r].s = req[r].s /\ req'[r].c = req[r].c
          /\ req'[r].seen = lockedBy[req[r].c]
      BY <1>0, <3>1, <3>2, RememberKeeps
    <3>4. \A s, c : Had(s, c) => Had(s, c)'
      BY HistoryKeeps
    <3> QED BY <1>0, <2>1, <3>2, <3>3, <3>4 DEF Known, At, LockPath
  <2> QED BY <1>4, <2>2, <2>3 DEF CheckSelect, WhoSelect
<1> QED BY <1>1, <1>2, <1>3, <1>4, Serve(r) DEF Serve

LEMMA ActorPresent ==
    ASSUME Inv, History, NEW r \in Requests, Acts(r)
    PROVE  Present(r)'
  <1> SUFFICES ASSUME Served(r)', file'[req'[r].s] = "absent"
               PROVE  req'[r].s \in shared'
    BY DEF Present
  <1>1. req'[r].s = req[r].s /\ UNCHANGED file /\ Served(r)
    BY DEF Acts, Served
  <1>2. req[r].s \in shared
    BY <1>1 DEF Inv, Sound, Present
  <1> QED BY <1>1, <1>2, HistoryKeeps

\* Where a request comes to rely on what it reads.
LEMMA ActorUpToDate ==
    ASSUME Inv, History, NEW r \in Requests, Serve(r), Acts(r), ~CheckFileGone(r)
    PROVE  UpToDate(r)'
<1> USE Labels
<1>0. TypeOK /\ Known(r) /\ UpToDate(r)
  BY DEF Inv, Sound
<1>1. CASE req'[r].pc \notin Relying
  BY <1>1 DEF UpToDate, Relying, At
<1>2. CASE CheckSelect(r) /\ req'[r].pc \in Relying
  <2>1. Remember(r, "checkFile", lockedBy[req[r].c]) /\ locked[req[r].c]
    <3>1. ~Goto(r, "select")
      BY <1>0, <1>2, GotoKeeps DEF Relying
    <3> QED BY <1>2, <3>1 DEF CheckSelect
  <2>2. req[r].c \in FwClouds /\ lockedBy[req[r].c] \in Sessions \cup {NoSession}
    BY <1>0, <1>2 DEF CheckSelect, Known, At, LockPath, TypeOK
  <2>3. /\ req'[r].pc = "checkFile" /\ req'[r].c = req[r].c
        /\ req'[r].seen = lockedBy[req[r].c]
    BY <1>0, <2>1, <2>2, RememberKeeps
  <2> QED BY <1>2, <2>1, <2>3 DEF CheckSelect, UpToDate, At
<1>3. CASE (CheckFileExists(r) \/ CheckFileRead(r)) /\ req'[r].pc \in Relying
  <2>1. PICK label \in {"checkRead", "checkClear", "select"} :
          /\ Goto(r, label) /\ req[r].pc \in {"checkFile", "checkRead"}
          /\ UNCHANGED <<locked, lockedBy, file>>
          /\ label = "checkClear" => file[req[r].seen] # "live"
    BY <1>3 DEF CheckFileExists, CheckFileRead, At, Exists
  <2>2. req'[r].pc = label /\ (label # "select" => req'[r].c = req[r].c /\ req'[r].seen = req[r].seen)
    BY <1>0, <2>1, GotoKeeps DEF Ending, Relying
  <2>3. label # "select"
    BY <1>3, <2>2 DEF Relying
  <2>4. r \notin overtaken' => r \notin overtaken
    BY <1>3, HistoryKeeps
  <2> QED BY <1>0, <2>1, <2>2, <2>3, <2>4 DEF UpToDate, At
<1>4. CASE LockSelect(r) /\ req'[r].pc \in Relying
  <2>1. PICK label \in {"claim", "whoSelect"} :
          /\ Goto(r, label)
          /\ label = "claim" => Lockable(req[r].c, req[r].s)
          /\ UNCHANGED <<locked, lockedBy>>
    BY <1>4 DEF LockSelect
  <2>2. req'[r].pc = label /\ req'[r].c = req[r].c /\ req'[r].s = req[r].s
    BY <1>0, <2>1, GotoKeeps DEF Ending
  <2>3. label = "claim"
    BY <1>4, <2>2 DEF Relying
  <2> QED BY <2>1, <2>2, <2>3 DEF UpToDate, At, Lockable
<1>5. CASE ReleaseOne(r) \/ Destroy(r) \/ Respond(r)
  <2>1. req'[r].pc \in {"release", "idle"}
    BY <1>0, <1>5, AnswerKeeps DEF ReleaseOne, Destroy, Respond, At, TypeOK, Request
  <2> QED BY <1>1, <2>1 DEF Relying
<1>6. CASE \/ ReleaseDone(r) \/ ValidateLock(r) \/ WhoFileExists(r) \/ WhoRead(r) \/ RunHandler(r)
           \/ CheckClear(r) \/ LockClaim(r) \/ Unlock(r) \/ UnlockAll(r) \/ ForceSelect(r)
           \/ ForceUpdate(r)
  <2>1. PICK label \in PC \ Relying : Goto(r, label)
    BY <1>6 DEF ReleaseDone, ValidateLock, WhoFileExists, WhoRead, RunHandler, CheckClear,
       LockClaim, Unlock, UnlockAll, ForceSelect, ForceUpdate, Relying
  <2> QED BY <1>0, <1>1, <2>1, GotoKeeps
<1>7. CASE WhoSelect(r)
  <2>1. req[r].c \in FwClouds /\ lockedBy[req[r].c] \in Sessions \cup {NoSession}
    BY <1>0, <1>7 DEF WhoSelect, Known, At, LockPath, TypeOK
  <2>2. req'[r].pc \in {"whoFile", "respond"}
    BY <1>0, <1>7, <2>1, GotoKeeps, RememberKeeps DEF WhoSelect
  <2> QED BY <1>1, <2>2 DEF Relying
<1> QED BY <1>1, <1>2, <1>3, <1>4, <1>5, <1>6, <1>7, Serve(r) DEF Serve

\* The ends of a session, and the two ways into a handler with the lock.
LEMMA ActorLeavingHolding ==
    ASSUME Inv, History, NEW r \in Requests, Serve(r), Acts(r), ~CheckFileGone(r)
    PROVE  Leaving(r)' /\ Holding(r)'
<1> USE Labels
<1>0. TypeOK /\ Known(r) /\ Leaving(r) /\ Served(r) /\ withdrawn \subseteq withdrawn'
  BY HistoryKeeps DEF Inv, Sound, Acts
<1>1. CASE req'[r].pc \notin {"release", "destroy", "run"}
  BY <1>1 DEF Leaving, Holding, At
<1>2. Served(r)' /\ req'[r].s = req[r].s /\ req'[r].s \notin shared' => req[r].s \notin shared
  BY HistoryKeeps
<1>3. CASE ReleaseOne(r)
  <2>1. PICK c \in req[r].todo :
          /\ req' = [req EXCEPT ![r].todo = @ \ {c}]
          /\ IF HeldBy(c, req[r].s)
             THEN /\ locked' = [locked EXCEPT ![c] = FALSE]
                  /\ lockedBy' = [lockedBy EXCEPT ![c] = NoSession]
             ELSE UNCHANGED <<locked, lockedBy>>
    BY <1>3 DEF ReleaseOne
  <2>2. /\ At(r, "release") /\ req'[r].pc = "release" /\ req'[r].s = req[r].s
        /\ req'[r].todo = req[r].todo \ {c} /\ UNCHANGED file /\ c \in FwClouds
    BY <1>0, <1>3, <2>1 DEF ReleaseOne, TypeOK, Request, At
  <2>3. \A d \in FwClouds : HeldBy(d, req[r].s)' => d # c /\ HeldBy(d, req[r].s)
    BY <1>0, <2>1, <2>2 DEF HeldBy, TypeOK
  <2>4. Served(r)'
    BY <2>2 DEF Served
  <2>5. ASSUME req'[r].s \notin shared'
        PROVE  /\ file'[req'[r].s] = "stale"
               /\ \A d \in FwClouds : HeldBy(d, req[r].s)' =>
                     d \in req'[r].todo \/ <<UserOf[req[r].s], d>> \in withdrawn'
    BY <1>0, <1>2, <2>2, <2>3, <2>4, <2>5 DEF Leaving
  <2> QED BY <2>2, <2>5 DEF Leaving, Holding, At, HeldBy
<1>4. CASE ReleaseDone(r)
  <2>1. /\ At(r, "release") /\ req[r].todo = {} /\ req'[r].pc = "destroy"
        /\ req'[r].s = req[r].s /\ UNCHANGED <<locked, lockedBy, file>>
    BY <1>0, <1>4, GotoKeeps DEF ReleaseDone
  <2>2. Served(r)'
    BY <2>1 DEF Served
  <2> QED BY <1>0, <1>2, <2>1, <2>2 DEF Leaving, Holding, At, HeldBy
<1>5. CASE UnlockAll(r)
  <2>1. req'[r].pc = "destroy" /\ req'[r].s = req[r].s
    BY <1>0, <1>5, GotoKeeps DEF UnlockAll
  <2>2. \A d \in FwClouds : ~HeldBy(d, req[r].s)'
    BY <1>5, <2>1 DEF UnlockAll, HeldBy
  <2> QED BY <2>1, <2>2 DEF Leaving, Holding, At, HeldBy
<1>6. CASE ValidateLock(r)
  <2>1. PICK label \in {"runUnlocked", "check", "run", "respond"} :
          /\ Goto(r, label)
          /\ label = "run" => HeldBy(req[r].c, req[r].s)
          /\ UNCHANGED <<locked, lockedBy, file>>
    BY <1>6 DEF ValidateLock
  <2>2. req'[r].pc = label /\ req'[r].s = req[r].s /\ (label = "run" => req'[r].c = req[r].c)
    BY <1>0, <2>1, GotoKeeps DEF Ending
  <2> QED BY <2>1, <2>2 DEF Leaving, Holding, At, HeldBy
<1>7. CASE LockClaim(r)
  <2>1. PICK label \in {"run", "respond"} : Goto(r, label)
    BY <1>7 DEF LockClaim
  <2>2. req'[r].pc = label /\ req'[r].s = req[r].s /\ (label = "run" => req'[r].c = req[r].c)
    BY <1>0, <2>1, GotoKeeps DEF Ending
  <2>3. req[r].c \in FwClouds
    BY <1>0, <1>7 DEF LockClaim, Known, At, LockPath
  <2>4. locked'[req[r].c] /\ lockedBy'[req[r].c] = req[r].s
    BY <1>0, <1>7, <2>3 DEF LockClaim, TypeOK
  <2> QED BY <2>2, <2>4 DEF Leaving, Holding, At, HeldBy
<1>8. CASE Destroy(r) \/ Respond(r)
  BY <1>0, <1>1, <1>8, AnswerKeeps DEF Destroy, Respond
<1>9. CASE \/ CheckFileExists(r) \/ CheckFileRead(r) \/ LockSelect(r) \/ WhoFileExists(r)
           \/ WhoRead(r) \/ RunHandler(r) \/ CheckClear(r) \/ Unlock(r) \/ ForceSelect(r)
           \/ ForceUpdate(r)
  <2>1. PICK label \in PC \ {"release", "destroy", "run"} : Goto(r, label)
    BY <1>9 DEF CheckFileExists, CheckFileRead, LockSelect, WhoFileExists, WhoRead, RunHandler,
       CheckClear, Unlock, ForceSelect, ForceUpdate
  <2> QED BY <1>0, <1>1, <2>1, GotoKeeps
<1>10. CASE CheckSelect(r) \/ WhoSelect(r)
  <2>1. req[r].c \in FwClouds /\ lockedBy[req[r].c] \in Sessions \cup {NoSession}
    BY <1>0, <1>10 DEF CheckSelect, WhoSelect, Known, At, LockPath, TypeOK
  <2>2. req'[r].pc \in {"checkFile", "whoFile", "select", "respond"}
    BY <1>0, <1>10, <2>1, GotoKeeps, RememberKeeps DEF CheckSelect, WhoSelect
  <2> QED BY <1>1, <2>2
<1> QED BY <1>3, <1>4, <1>5, <1>6, <1>7, <1>8, <1>9, <1>10, Serve(r) DEF Serve

\* Sessions come and go, and access with them.
LEMMA TimeSound ==
    ASSUME Inv, History, UNCHANGED <<locked, lockedBy, req>>,
           \/ UNCHANGED file
           \/ \E s \in Sessions : SessionTime(s)
    PROVE  /\ HolderHadAccess' /\ SystemTypes'
           /\ \A q \in Requests : Known(q)' /\ Present(q)' /\ UpToDate(q)' /\ Leaving(q)' /\ Holding(q)'
  <1>0. TypeOK /\ HolderHadAccess /\ (\A s, c : Had(s, c) => Had(s, c)') /\ withdrawn \subseteq withdrawn'
    BY HistoryKeeps DEF Inv
  <1>1. HolderHadAccess'
    BY <1>0 DEF HolderHadAccess
  <1>2. /\ file' \in [Sessions -> FileStates]
        /\ \A t \in Sessions :
             /\ file'[t] = "unborn" => file[t] = "unborn"
             /\ file'[t] = "live" => file[t] \in {"live", "unborn"}
             /\ file'[t] = "absent" => file[t] = "absent" \/ ~InFlight(t)
             /\ file[t] = "stale" => file'[t] = "stale" \/ ~InFlight(t)
    BY <1>0 DEF TypeOK, SessionTime, Login, Expire, Reap, FileStates
  <1>3. SystemTypes'
    BY <1>0, <1>2 DEF SystemTypes, TypeOK
  <1>4. ASSUME NEW q \in Requests
        PROVE  Known(q)' /\ Present(q)' /\ UpToDate(q)' /\ Leaving(q)' /\ Holding(q)'
    <2>0. Sound(q) /\ req'[q] = req[q]
      BY DEF Inv
    <2>1. Known(q)'
      BY <1>0, <1>2, <2>0 DEF Sound, Known, At
    <2>2. Served(q) => /\ req[q].s \in Sessions /\ file[req[q].s] # "unborn" /\ InFlight(req[q].s)
                       /\ req[q].s \notin shared' => req[q].s \notin shared
      BY <2>0, HistoryKeeps DEF Sound, Known, Served, At, InFlight, ServedFor
    <2>3. Present(q)'
      BY <1>2, <2>0, <2>2 DEF Sound, Present, Served
    <2>4. UpToDate(q)'
      <3> SUFFICES ASSUME q \notin overtaken', req[q].pc \in Relying
                   PROVE  UpToDate(q)'
        BY <2>0 DEF UpToDate, Relying, At
      <3>1. q \notin overtaken /\ ~Overtakes(q)
        BY <2>0, HistoryKeeps
      <3>2. req[q].pc # "claim" => ~ComesBack(req[q].seen)
        BY <2>0, <3>1 DEF Overtakes
      <3> QED BY <2>0, <3>1, <3>2 DEF UpToDate, Sound, At, ComesBack
    <2>5. Leaving(q)'
      <3>1. At(q, "release") \/ At(q, "destroy") => Served(q)
        BY DEF At, Served
      <3> QED BY <1>0, <1>2, <2>0, <2>2, <3>1 DEF Leaving, Sound, At, HeldBy
    <2>6. Holding(q)'
      <3> SUFFICES ASSUME At(q, "run"), file'[req[q].s] = "live", req[q].s \notin shared',
                          req[q].c \notin disturbed'
                   PROVE  HeldBy(req[q].c, req[q].s)'
        BY <2>0 DEF Holding, At
      <3>1. req[q].c \in FwClouds /\ Served(q)
        BY <2>0 DEF Sound, Known, Served, At
      <3>2. req[q].c \notin disturbed /\ file[req[q].s] = "live" /\ req[q].s \notin shared
        BY <1>2, <2>0, <2>2, <3>1, HistoryKeeps DEF At
      <3> QED BY <2>0, <3>1, <3>2 DEF Sound, Holding, HeldBy
    <2> QED BY <2>1, <2>3, <2>4, <2>5, <2>6
  <1> QED BY <1>1, <1>3, <1>4

\* A request that arrives stands for a session whose file exists, and for a FWCloud of
\* its user if it is to use one.
LEMMA ReceiveSound ==
    ASSUME Inv, History, NEW r \in Requests, NEW s \in Sessions, Receive(r, s), UNCHANGED access
    PROVE  /\ HolderHadAccess' /\ SystemTypes'
           /\ \A q \in Requests : Known(q)' /\ Present(q)' /\ UpToDate(q)' /\ Leaving(q)' /\ Holding(q)'
<1>1. ASSUME NEW c \in FwClouds \cup {NoFwCloud}, NEW m \in BOOLEAN,
             NEW next \in {"access", "check", "unlock", "forceSelect", "respond", "unlockAll"},
             Arrive(r, s, c, m, next),
             next \notin {"respond", "unlockAll"} => c \in FwClouds /\ Had(s, c),
             next = "forceSelect" => s \in Admins
      PROVE  /\ HolderHadAccess' /\ SystemTypes'
             /\ \A q \in Requests : Known(q)' /\ Present(q)' /\ UpToDate(q)' /\ Leaving(q)' /\ Holding(q)'
  <2>0. /\ TypeOK /\ HolderHadAccess /\ (\A t, d : Had(t, d) => Had(t, d)')
        /\ withdrawn \subseteq withdrawn'
    BY HistoryKeeps DEF Inv
  <2> DEFINE expired == file[s] = "stale"
             new == [pc |-> IF expired THEN "release" ELSE next, s |-> s,
                     c |-> IF expired THEN NoFwCloud ELSE c,
                     mutates |-> m /\ ~expired, seen |-> NoSession,
                     todo |-> IF expired THEN CloudsOf(s) ELSE {}]
  <2>1. /\ req' = [req EXCEPT ![r] = new] /\ UNCHANGED <<locked, lockedBy, file>>
        /\ Exists(s) /\ At(r, "idle")
    BY <1>1 DEF Arrive
  <2>2. new \in Request
    BY <1>1, Labels DEF Request, CloudsOf
  <2>3. SystemTypes'
    BY <2>0, <2>1, <2>2 DEF TypeOK, SystemTypes
  <2>4. req'[r] = new /\ \A q \in Requests : q # r => req'[q] = req[q]
    BY <2>0, <2>1 DEF TypeOK
  <2>5. /\ new.s = s /\ new.todo = IF expired THEN CloudsOf(s) ELSE {}
        /\ expired => new.pc = "release"
        /\ ~expired => new.pc = next /\ new.c = c
    OBVIOUS
  <2> HIDE DEF new
  <2>6. HolderHadAccess'
    BY <2>0, <2>1 DEF HolderHadAccess
  <2>7. ASSUME NEW q \in Requests, q # r
        PROVE  Known(q)' /\ Present(q)' /\ UpToDate(q)' /\ Leaving(q)' /\ Holding(q)'
    <3>0. Sound(q) /\ req'[q] = req[q]
      BY <2>4, <2>7 DEF Inv
    <3>1. Known(q)' /\ Present(q)'
      BY <2>0, <2>1, <3>0, HistoryKeeps DEF Sound, Known, Present, At, Served
    <3>2. UpToDate(q)'
      <4>1. req[q].pc \in Relying /\ q \notin overtaken' => q \notin overtaken
        BY <3>0, HistoryKeeps
      <4> QED BY <2>1, <3>0, <4>1 DEF Sound, UpToDate, At, Relying
    <3>3. Leaving(q)'
      <4>1. At(q, "release") \/ At(q, "destroy") => Served(q)
        BY DEF At, Served
      <4>2. Served(q) /\ req[q].s \notin shared' => req[q].s \notin shared
        BY <3>0, HistoryKeeps DEF Served
      <4> QED BY <2>0, <2>1, <3>0, <4>1, <4>2 DEF Sound, Leaving, At, HeldBy
    <3>4. Holding(q)'
      <4> SUFFICES ASSUME At(q, "run"), file[req[q].s] = "live", req[q].s \notin shared',
                          req[q].c \notin disturbed'
                   PROVE  HeldBy(req[q].c, req[q].s)
        BY <2>1, <3>0 DEF Holding, At, HeldBy
      <4>1. req[q].c \in FwClouds /\ Served(q)
        BY <3>0 DEF Sound, Known, Served, At
      <4>2. req[q].c \notin disturbed /\ req[q].s \notin shared
        BY <3>0, <4>1, HistoryKeeps DEF At, Served
      <4> QED BY <3>0, <4>2 DEF Sound, Holding
    <3> QED BY <3>1, <3>2, <3>3, <3>4
  <2>8. Known(r)' /\ Present(r)' /\ UpToDate(r)' /\ Leaving(r)' /\ Holding(r)'
    <3>1. Known(r)'
      BY <1>1, <2>0, <2>1, <2>4, <2>5 DEF Known, At, LockPath, Exists
    <3>2. Present(r)'
      BY <2>1, <2>4, <2>5 DEF Present, Exists
    <3>3. UpToDate(r)' /\ Holding(r)'
      BY <1>1, <2>4, <2>5 DEF UpToDate, Holding, At
    <3>4. Leaving(r)'
      <4>1. CASE expired
        <5>1. \A d \in FwClouds : HeldBy(d, s) => d \in CloudsOf(s) \/ <<UserOf[s], d>> \in withdrawn
          BY <2>0 DEF HolderHadAccess, Had, HeldBy, CloudsOf, HasAccess
        <5> QED BY <2>0, <2>1, <2>4, <2>5, <4>1, <5>1 DEF Leaving, At, HeldBy
      <4>2. CASE ~expired
        BY <1>1, <2>4, <2>5, <4>2 DEF Leaving, At
      <4> QED BY <4>1, <4>2
    <3> QED BY <3>1, <3>2, <3>3, <3>4
  <2> QED BY <2>3, <2>6, <2>7, <2>8
<1>2. \A c \in FwClouds : HasAccess(s, c) => Had(s, c)
  BY DEF HasAccess, Had
<1>3. CASE ReceiveRead(r, s) \/ ReceiveLogout(r, s)
  BY <1>1, <1>3 DEF ReceiveRead, ReceiveLogout
<1>4. ASSUME NEW c \in FwClouds,
             \/ ReceiveMutation(r, s, c) \/ ReceiveLock(r, s, c) \/ ReceiveUnlock(r, s, c)
             \/ ReceiveForceLock(r, s, c)
      PROVE  \E d \in FwClouds \cup {NoFwCloud}, m \in BOOLEAN,
                next \in {"access", "check", "unlock", "forceSelect", "respond", "unlockAll"} :
                /\ Arrive(r, s, d, m, next)
                /\ next \notin {"respond", "unlockAll"} => d \in FwClouds /\ Had(s, d)
                /\ next = "forceSelect" => s \in Admins
  BY <1>2, <1>4 DEF ReceiveMutation, ReceiveLock, ReceiveUnlock, ReceiveForceLock, ArriveFor
<1> QED BY <1>1, <1>3, <1>4, Receive(r, s) DEF Receive

LEMMA InvStep ==
    ASSUME Inv, [Next]_vars
    PROVE  Inv'
<1> USE Labels
<1>1. CASE UNCHANGED vars
  BY <1>1 DEF vars, system, history, Inv, TypeOK, HolderHadAccess, Had, Sound, Known, Alone,
     Present, UpToDate, Warned, Leaving, Holding, At, Served, HeldBy
<1>2. CASE Next
  <2> SUFFICES ASSUME History,
                      access' \subseteq Users \X FwClouds,
                      /\ HolderHadAccess' /\ SystemTypes'
                      /\ \A q \in Requests :
                           Known(q)' /\ Present(q)' /\ UpToDate(q)' /\ Leaving(q)' /\ Holding(q)'
               PROVE  Inv'
    <3>1. History
      BY <1>2 DEF Next
    <3>2. access' \subseteq Users \X FwClouds
      BY <1>2 DEF Next, AllowFwcloudAccess, DisableFwcloudAccess, Inv, TypeOK
    <3>3. CASE \E s \in Sessions : SessionTime(s)
      <4>1. UNCHANGED <<locked, lockedBy, req>>
        BY <3>3 DEF SessionTime, Login, Expire, Reap
      <4> QED BY <3>1, <3>2, <3>3, <4>1, TimeSound
    <3>4. CASE \E u \in Users, c \in FwClouds :
                 AllowFwcloudAccess(u, c) \/ DisableFwcloudAccess(u, c)
      <4>1. UNCHANGED <<locked, lockedBy, req, file>>
        BY <3>4 DEF AllowFwcloudAccess, DisableFwcloudAccess, system
      <4> QED BY <3>1, <3>2, <4>1, TimeSound
    <3>5. CASE \E r \in Requests, s \in Sessions : Receive(r, s) /\ UNCHANGED access
      BY <3>1, <3>2, <3>5, ReceiveSound
    <3>6. CASE \E r \in Requests : CheckFileGone(r)
      <4>1. /\ UNCHANGED <<locked, lockedBy, file>>
            /\ req' = [q \in Requests |-> NoRequest]
        BY <3>6 DEF CheckFileGone
      <4>2. SystemTypes'
        BY <4>1 DEF SystemTypes, Inv, TypeOK, NoRequest, Request
      <4>3. HolderHadAccess'
        BY <3>1, <4>1, HistoryKeeps DEF HolderHadAccess, Inv
      <4>4. ASSUME NEW q \in Requests
            PROVE  Known(q)' /\ Present(q)' /\ UpToDate(q)' /\ Leaving(q)' /\ Holding(q)'
        BY <4>1 DEF NoRequest, Known, Present, UpToDate, Leaving, Holding, Served, At, LockPath
      <4> QED BY <3>1, <3>2, <4>2, <4>3, <4>4
    <3>7. CASE \E r \in Requests : Serve(r) /\ ~CheckFileGone(r)
      <4>1. PICK r \in Requests : Serve(r) /\ ~CheckFileGone(r)
        BY <3>7
      <4>2. Acts(r)
        BY <4>1, ServeActs
      <4>3. Known(r)' /\ Present(r)' /\ UpToDate(r)' /\ Leaving(r)' /\ Holding(r)'
        BY <3>1, <4>1, <4>2, ActorKnown, ActorPresent, ActorUpToDate, ActorLeavingHolding
      <4>4. HolderHadAccess' /\ SystemTypes'
        BY <3>1, <4>2, RowsKeep DEF Acts
      <4> QED BY <3>1, <3>2, <4>2, <4>3, <4>4, OthersSound
    <3> QED BY <1>2, <3>3, <3>4, <3>5, <3>6, <3>7 DEF Next
  <2>1. \A r \in Requests : Alone(r)' /\ Warned(r)'
    BY AloneAndWarned
  <2>2. TypeOK'
    BY HistoryKeeps DEF TypeOK, SystemTypes, HistoryTypes
  <2> QED BY <2>1, <2>2 DEF Inv, Sound
<1> QED BY <1>1, <1>2

LEMMA InvInit == Init => Inv
BY ConstantsAssumption, Labels
   DEF Init, Inv, TypeOK, HolderHadAccess, FileStates, Request, NoRequest, Sound, Known, Alone,
       Present, UpToDate, Warned, Leaving, Holding, LockPath, At, Served

LEMMA InvAlways == Spec => []Inv
BY InvInit, InvStep, PTL DEF Spec
-----------------------------------------------------------------------------
\* The variables keep their types, in every interleaving.
THEOREM TypesAlways == Spec => []TypeOK
<1>1. Inv => TypeOK
  BY DEF Inv
<1> QED BY <1>1, InvAlways, PTL

\* A session that logout or expiry is about to destroy, with one request in flight,
\* holds nothing any more but, if it has expired, FWClouds whose access was withdrawn.
THEOREM NothingStaysLocked == Spec => []LeavesNothingLocked
<1>1. Inv => LeavesNothingLocked
  BY DEF Inv, Sound, Leaving, LeavesNothingLocked
<1> QED BY <1>1, InvAlways, PTL

\* A handler that changes a FWCloud runs under the lock of its live session, unless an
\* administrator seized it, a request wrote on an outdated reading, or the session has
\* other requests in flight.
THEOREM RunnerAlwaysHolds == Spec => []RunnerHolds
<1>1. Inv => RunnerHolds
  BY DEF Inv, Sound, Holding, RunnerHolds
<1> QED BY <1>1, InvAlways, PTL

\* The file of a session that has ended is written again only by another request of the
\* session, in flight when it ended.
THEOREM GoneStaysGone == Spec => GoneForEver
<1>1. Inv /\ [Next]_vars =>
        [\A s \in Sessions \ shared : file[s] = "absent" => file'[s] = "absent"]_vars
  <2> SUFFICES ASSUME Inv, Next, NEW s \in Sessions \ shared, file[s] = "absent"
               PROVE  file'[s] = "absent"
    OBVIOUS
  <2>1. ASSUME NEW r \in Requests, Serve(r)
        PROVE  file'[s] = "absent"
    <3>1. CASE CheckFileGone(r)
      BY <3>1 DEF CheckFileGone
    <3>2. CASE ~CheckFileGone(r)
      <4>1. Acts(r) /\ Present(r)
        BY <2>1, <3>2, ServeActs DEF Inv, Sound
      <4>2. req[r].s # s
        BY <4>1 DEF Acts, Present
      <4> QED BY <4>1, <4>2 DEF Acts
    <3> QED BY <3>1, <3>2
  <2>2. ASSUME NEW t \in Sessions, SessionTime(t)
        PROVE  file'[s] = "absent"
    BY <2>2 DEF SessionTime, Login, Expire, Reap, Inv, TypeOK
  <2>3. ASSUME NEW r \in Requests, NEW t \in Sessions, Receive(r, t)
        PROVE  file'[s] = "absent"
    BY <2>3 DEF Receive, ReceiveRead, ReceiveLogout, ReceiveMutation, ReceiveLock, ReceiveUnlock,
       ReceiveForceLock, ArriveFor, Arrive
  <2>4. ASSUME NEW u \in Users, NEW c \in FwClouds,
               AllowFwcloudAccess(u, c) \/ DisableFwcloudAccess(u, c)
        PROVE  file'[s] = "absent"
    BY <2>4 DEF AllowFwcloudAccess, DisableFwcloudAccess, system
  <2> QED BY <2>1, <2>2, <2>3, <2>4 DEF Next
<1> QED BY <1>1, InvAlways, PTL DEF Spec, GoneForEver
-----------------------------------------------------------------------------
(* The refinement *)

Owner(c) == IF locked[c] THEN lockedBy[c] ELSE NoSession
Alive == {s \in Sessions : file[s] = "live"}
Contested == {c \in FwClouds : \E r \in overtaken : req[r].c = c}
Mapped == [Ownership!Next]_(Ownership!vars)

LEMMA Stutters ==
    ASSUME \A c \in FwClouds : Owner(c)' = Owner(c), Alive' = Alive
    PROVE  Mapped
  <1>1. /\ [c \in FwClouds |-> Owner(c)]' = [c \in FwClouds |-> Owner(c)]
        /\ Contested' \in SUBSET FwClouds
    BY DEF Contested
  <1> QED BY <1>1 DEF Mapped, Ownership!Next, Owner, Alive, Contested

LEMMA Releases ==
    ASSUME NEW s \in Sessions, NEW C \in SUBSET FwClouds, Alive' = Alive,
           \A c \in FwClouds : Owner(c)' = IF c \in C THEN NoSession ELSE Owner(c),
           \A c \in C : Owner(c) = s
    PROVE  Mapped
  <1>1. C \in SUBSET {c \in FwClouds : Owner(c) = s} /\ Contested' \in SUBSET FwClouds
    BY DEF Contested
  <1>2. Ownership!Release(s)
    BY <1>1 DEF Ownership!Release, Owner, Alive
  <1> QED BY <1>1, <1>2 DEF Mapped, Ownership!Next, Contested

LEMMA Changes ==
    ASSUME NEW c \in FwClouds, NEW o \in Sessions \cup {NoSession}, Alive' = Alive,
           Owner(c)' = o, \A d \in FwClouds : d # c => Owner(d)' = Owner(d),
           \/ o \in Sessions /\ (Owner(c) = NoSession \/ o \in Admins)
           \/ o = NoSession /\ Owner(c) \notin Alive
           \/ c \in Contested
    PROVE  Mapped
  <1>1. /\ [d \in FwClouds |-> Owner(d)]' = [[d \in FwClouds |-> Owner(d)] EXCEPT ![c] = o]
        /\ Contested' \in SUBSET FwClouds
    BY DEF Contested
  <1>2. CASE o = NoSession /\ Owner(c) \notin Alive
    <2>1. Ownership!Reclaim(c)
      BY <1>1, <1>2 DEF Ownership!Reclaim, Owner, Alive
    <2> QED BY <1>1, <2>1 DEF Mapped, Ownership!Next, Contested
  <1>3. CASE o \in Sessions /\ Owner(c) = NoSession
    <2>1. Ownership!Acquire(c, o)
      BY <1>1, <1>3 DEF Ownership!Acquire, Owner, Alive
    <2> QED BY <1>1, <1>3, <2>1 DEF Mapped, Ownership!Next, Contested
  <1>4. CASE o \in Sessions /\ o \in Admins
    <2>1. Ownership!Seize(c, o)
      BY <1>1, <1>4 DEF Ownership!Seize, Owner, Alive
    <2> QED BY <1>1, <1>4, <2>1 DEF Mapped, Ownership!Next, Contested
  <1>5. CASE c \in Contested
    <2>1. Ownership!Overrun(c)
      BY <1>1, <1>5 DEF Ownership!Overrun, Owner, Alive, Contested
    <2> QED BY <1>1, <2>1 DEF Mapped, Ownership!Next, Contested
  <1> QED BY <1>2, <1>3, <1>4, <1>5

\* A session begins or ends.
LEMMA Turns ==
    ASSUME NEW s \in Sessions, \A c \in FwClouds : Owner(c)' = Owner(c),
           \A t \in Sessions : t # s => (t \in Alive' <=> t \in Alive)
    PROVE  Mapped
  <1>1. Contested' \in SUBSET FwClouds /\ [c \in FwClouds |-> Owner(c)]' = [c \in FwClouds |-> Owner(c)]
    BY DEF Contested
  <1>2. CASE s \in Alive /\ s \notin Alive'
    <2>1. Alive' = Alive \ {s}
      BY <1>2 DEF Alive
    <2>2. Ownership!End(s)
      BY <1>1, <1>2, <2>1 DEF Ownership!End, Owner, Alive
    <2> QED BY <1>1, <2>2 DEF Mapped, Ownership!Next, Contested
  <1>3. CASE s \notin Alive /\ s \in Alive'
    <2>1. Alive' = Alive \cup {s}
      BY <1>3 DEF Alive
    <2>2. Ownership!Begin(s)
      BY <1>1, <1>3, <2>1 DEF Ownership!Begin, Owner, Alive
    <2> QED BY <1>1, <2>2 DEF Mapped, Ownership!Next, Contested
  <1>4. CASE s \in Alive <=> s \in Alive'
    <2>1. Alive' = Alive
      BY <1>4 DEF Alive
    <2> QED BY <2>1, Stutters
  <1> QED BY <1>2, <1>3, <1>4

LEMMA ActsMap ==
    ASSUME Inv, NEW r \in Requests, Acts(r), Serve(r)
    PROVE  Mapped
<1>0. TypeOK /\ SystemTypes' /\ Known(r) /\ UpToDate(r) /\ req[r].s \in Sessions
  BY DEF Inv, Sound, Acts, Known, Served, At
<1>1. CASE req'[r].pc = "idle" /\ UNCHANGED <<locked, lockedBy>>
  <2>1. \A t \in Sessions : t # req[r].s => (t \in Alive' <=> t \in Alive)
    BY DEF Acts, Alive
  <2>2. \A c \in FwClouds : Owner(c)' = Owner(c)
    BY <1>1 DEF Owner
  <2> QED BY <1>0, <2>1, <2>2, Turns
<1>2. CASE UNCHANGED <<locked, lockedBy, file>>
  BY <1>2, Stutters DEF Owner, Alive
<1>3. CASE At(r, "release") \/ At(r, "unlock") \/ At(r, "unlockAll")
  <2> DEFINE C == {c \in FwClouds : Owner(c) = req[r].s /\ ~locked'[c]}
  <2>1. UNCHANGED file
    BY <1>3 DEF Serve, ReleaseOne, ReleaseDone, Destroy, Respond, ValidateLock, CheckSelect,
       CheckFileExists, CheckFileRead, CheckFileGone, CheckClear, LockSelect, LockClaim, WhoSelect,
       WhoFileExists, WhoRead, RunHandler, Unlock, UnlockAll, ForceSelect, ForceUpdate, At
  <2>2. ASSUME NEW c \in FwClouds
        PROVE  Owner(c)' = IF c \in C THEN NoSession ELSE Owner(c)
    <3>1. \/ locked'[c] = locked[c] /\ lockedBy'[c] = lockedBy[c]
          \/ HeldBy(c, req[r].s) /\ ~locked'[c]
      BY <1>3 DEF Acts, Row, At
    <3> QED BY <1>0, <3>1, ConstantsAssumption DEF Owner, HeldBy
  <2>3. C \in SUBSET FwClouds /\ \A c \in C : Owner(c) = req[r].s
    OBVIOUS
  <2>4. Alive' = Alive
    BY <2>1 DEF Alive
  <2> HIDE DEF C
  <2> QED BY <1>0, <2>2, <2>3, <2>4, Releases
<1>4. CASE CheckClear(r) \/ LockClaim(r) \/ ForceUpdate(r)
  <2>1. /\ UNCHANGED file /\ req[r].pc \in {"checkClear", "claim", "forceUpdate"}
        /\ req[r].pc \in LockPath
    BY <1>4 DEF CheckClear, LockClaim, ForceUpdate, At, LockPath
  <2>2. PICK c \in FwClouds : c = req[r].c
    BY <1>0, <2>1 DEF Known
  <2>3. Alive' = Alive /\ \A d \in FwClouds : d # c => Owner(d)' = Owner(d)
    BY <2>1, <2>2 DEF Acts, Row, Owner, Alive, At
  <2>4. r \in overtaken => c \in Contested
    BY <2>2 DEF Contested
  <2>5. CASE CheckClear(r)
    <3>1. Owner(c)' = NoSession
      BY <1>0, <2>2, <2>5 DEF CheckClear, TypeOK, Owner
    <3>2. r \in overtaken \/ Owner(c) \notin Alive
      BY <1>0, <2>2, <2>5, ConstantsAssumption DEF CheckClear, UpToDate, At, Owner, Alive
    <3> QED BY <2>3, <2>4, <3>1, <3>2, Changes
  <2>6. CASE LockClaim(r)
    <3>1. Owner(c)' = req[r].s
      BY <1>0, <2>2, <2>6 DEF LockClaim, TypeOK, Owner
    <3>2. r \in overtaken \/ Owner(c) \in {NoSession, req[r].s}
      BY <1>0, <2>2, <2>6 DEF LockClaim, UpToDate, At, Owner
    <3>3. CASE Owner(c) = NoSession \/ r \in overtaken
      BY <1>0, <2>3, <2>4, <3>1, <3>3, Changes
    <3>4. CASE Owner(c) = req[r].s
      BY <2>3, <3>1, <3>4, Stutters
    <3> QED BY <3>2, <3>3, <3>4
  <2>7. CASE ForceUpdate(r)
    <3>1. Owner(c)' = req[r].s /\ req[r].s \in Admins
      BY <1>0, <2>2, <2>7 DEF ForceUpdate, Known, At, TypeOK, Owner
    <3> QED BY <1>0, <2>3, <3>1, Changes
  <2> QED BY <1>4, <2>5, <2>6, <2>7
<1>5. CASE Destroy(r) \/ Respond(r)
  BY <1>0, <1>1, <1>5, AnswerKeeps DEF Destroy, Respond
<1>6. CASE ReleaseOne(r) \/ ReleaseDone(r) \/ Unlock(r) \/ UnlockAll(r)
  BY <1>3, <1>6 DEF ReleaseOne, ReleaseDone, Unlock, UnlockAll
<1>7. CASE \/ ValidateLock(r) \/ CheckSelect(r) \/ CheckFileExists(r)
           \/ CheckFileRead(r) \/ CheckFileGone(r) \/ LockSelect(r) \/ WhoSelect(r)
           \/ WhoFileExists(r) \/ WhoRead(r) \/ RunHandler(r) \/ ForceSelect(r)
  BY <1>2, <1>7 DEF ValidateLock, CheckSelect, CheckFileExists, CheckFileRead,
     CheckFileGone, LockSelect, WhoSelect, WhoFileExists, WhoRead, RunHandler, ForceSelect
<1> QED BY <1>4, <1>5, <1>6, <1>7, Serve(r) DEF Serve

\* The lock is what its users are promised: every step of the lock code is a step of
\* FwCloudOwnership or changes neither owner nor the sessions alive.
THEOREM LockImplementsOwnership == Spec => ImplementsOwnership
  <1>1. Init => Ownership!Init
    BY DEF Init, Ownership!Init
  <1>2. Inv /\ [Next]_vars => [Ownership!Next]_(Ownership!vars)
    <2> SUFFICES ASSUME Inv, [Next]_vars PROVE Mapped
      BY DEF Mapped
    <2>1. CASE UNCHANGED <<locked, lockedBy, file>>
      BY <2>1, Stutters DEF Owner, Alive
    <2>2. CASE \E r \in Requests, s \in Sessions : Receive(r, s)
      BY <2>1, <2>2 DEF Receive, ReceiveRead, ReceiveLogout, ReceiveMutation, ReceiveLock,
         ReceiveUnlock, ReceiveForceLock, ArriveFor, Arrive
    <2>3. CASE \E r \in Requests : Serve(r)
      <3>1. PICK r \in Requests : Serve(r)
        BY <2>3
      <3>2. CASE CheckFileGone(r)
        BY <2>1, <3>2 DEF CheckFileGone
      <3>3. CASE ~CheckFileGone(r)
        BY <3>1, <3>3, ServeActs, ActsMap
      <3> QED BY <3>2, <3>3
    <2>4. CASE \E s \in Sessions : SessionTime(s)
      <3>1. PICK s \in Sessions : SessionTime(s)
        BY <2>4
      <3>2. \A t \in Sessions : t # s => file'[t] = file[t]
        BY <3>1 DEF SessionTime, Login, Expire, Reap, Inv, TypeOK
      <3>3. \A t \in Sessions : t # s => (t \in Alive' <=> t \in Alive)
        BY <3>2 DEF Alive
      <3>4. \A c \in FwClouds : Owner(c)' = Owner(c)
        BY <3>1 DEF SessionTime, Login, Expire, Reap, Owner
      <3> QED BY <3>3, <3>4, Turns
    <2>5. CASE \E u \in Users, c \in FwClouds :
                 AllowFwcloudAccess(u, c) \/ DisableFwcloudAccess(u, c)
      BY <2>1, <2>5 DEF AllowFwcloudAccess, DisableFwcloudAccess, system
    <2>6. CASE UNCHANGED vars
      BY <2>1, <2>6 DEF vars, system
    <2> QED BY <2>2, <2>3, <2>4, <2>5, <2>6 DEF Next
  <1> QED BY <1>1, <1>2, InvAlways, PTL DEF Spec, ImplementsOwnership, Ownership!Spec
=============================================================================
