---------------------------- MODULE MCRuleOrder ----------------------------
(* RuleOrder on small instances. *)
EXTENDS RuleOrder

CONSTANTS g1, r1, r2

AllKinds == {"route", "rule", "dhcp", "haproxy", "keepalived"}
OverlapKinds == {"route", "keepalived"}

NoGroups == {}
OneGroup == {g1}
OneRequest == {r1}
TwoRequests == {r1, r2}

Symmetry == Permutations(Requests)
=============================================================================
