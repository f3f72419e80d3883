-------------------------- MODULE MCFirewallStatus --------------------------
(* FirewallStatus on small instances. *)
EXTENDS FirewallStatus, TLC

CONSTANTS g1, r1, r2

OneGroup == {g1}
TwoRequests == {r1, r2}

Symmetry == Permutations(Requests)
=============================================================================
