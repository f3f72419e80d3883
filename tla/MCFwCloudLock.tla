--------------------------- MODULE MCFwCloudLock ---------------------------
(* FwCloudLock on small instances: two sessions, of one user or of two. *)
EXTENDS FwCloudLock, TLC

CONSTANTS s1, s2, u1, u2, c1, r1, r2

OneUser == {u1}
TwoUsers == {u1, u2}
MCUserOf == [s \in Sessions |-> IF s = s1 \/ Users = OneUser THEN u1 ELSE u2]

NoAdmins == {}
OneAdmin == {s1}

Symmetry == Permutations(Requests)
=============================================================================
