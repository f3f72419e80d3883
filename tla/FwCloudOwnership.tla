-------------------------- MODULE FwCloudOwnership --------------------------
(***************************************************************************)
(* What the lock of a FWCloud promises its users: at any time a FWCloud    *)
(* has one owner or none; a session gets it when it is free, keeps it      *)
(* while the session is alive, and loses it before that only to an         *)
(* administrator who seizes it - or, while it is contested, to anyone: a   *)
(* request acts on what it read of the lock before another changed it.     *)
(***************************************************************************)
CONSTANTS Sessions, FwClouds, Admins, Nobody

VARIABLES
    owner,     \* the session that may change each FWCloud
    alive,     \* the sessions that have logged in and neither left nor expired
    contested  \* the FWClouds where a request acts on what is no longer so

vars == <<owner, alive, contested>>

Init ==
    /\ owner = [c \in FwClouds |-> Nobody]
    /\ alive = {}
    /\ contested = {}

\* A session that is served while its time runs out may come back.
Begin(s) == s \notin alive /\ alive' = alive \cup {s} /\ UNCHANGED owner
End(s) == s \in alive /\ alive' = alive \ {s} /\ UNCHANGED owner

Acquire(c, s) ==
    /\ owner[c] = Nobody
    /\ owner' = [owner EXCEPT ![c] = s]
    /\ UNCHANGED alive

\* A session gives back some of its FWClouds: one at /unlock, all at /logout.
Release(s) ==
    /\ \E C \in SUBSET {c \in FwClouds : owner[c] = s} :
         owner' = [c \in FwClouds |-> IF c \in C THEN Nobody ELSE owner[c]]
    /\ UNCHANGED alive

\* The lock of a session that is no longer alive is taken off by a rival.
Reclaim(c) ==
    /\ owner[c] \notin alive
    /\ owner' = [owner EXCEPT ![c] = Nobody]
    /\ UNCHANGED alive

Seize(c, s) ==
    /\ s \in Admins
    /\ owner' = [owner EXCEPT ![c] = s]
    /\ UNCHANGED alive

Overrun(c) ==
    /\ c \in contested
    /\ \E s \in Sessions \cup {Nobody} : owner' = [owner EXCEPT ![c] = s]
    /\ UNCHANGED alive

Next ==
    /\ \/ \E s \in Sessions : Begin(s) \/ End(s) \/ Release(s)
       \/ \E c \in FwClouds : Reclaim(c) \/ Overrun(c)
       \/ \E c \in FwClouds, s \in Sessions : Acquire(c, s) \/ Seize(c, s)
       \/ UNCHANGED <<owner, alive>>
    /\ contested' \in SUBSET FwClouds

Spec == Init /\ [][Next]_vars
=============================================================================
