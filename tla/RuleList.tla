------------------------------ MODULE RuleList ------------------------------
(***************************************************************************)
(* What the user of an ordered table of rules sees: a list, to which rules *)
(* are added at the end, from which rules are removed, and in which a      *)
(* selection is moved next to another rule, the rest keeping its place.    *)
(* The list is given by the pairs <<i, j>> where i is shown before j.      *)
(* Rules that come from another list may take anybody's place: nothing is  *)
(* promised then, but that one day it is a list again.                     *)
(***************************************************************************)
VARIABLES
    listed,   \* the rules of the list
    before,   \* which of them is shown before which
    unsettled \* have rules come from another list?

vars == <<listed, before, unsettled>>

IsList(S, R) ==
    /\ R \subseteq S \X S
    /\ \A i, j \in S : i = j <=> <<i, j>> \notin R /\ <<j, i>> \notin R
    /\ \A i, j, k \in S : <<i, j>> \in R /\ <<j, k>> \in R => <<i, k>> \in R

Init == IsList(listed, before) /\ ~unsettled

\* New rules, below the last one, in any order.
AddLast ==
    /\ listed \subseteq listed' /\ listed' # listed
    /\ IsList(listed', before')
    /\ before = before' \cap (listed \X listed)
    /\ \A i \in listed, j \in listed' \ listed : <<i, j>> \in before'

Delete(i) ==
    /\ listed' = listed \ {i}
    /\ before' = before \cap (listed' \X listed')

\* Is a rule that stays shown after a selection dropped beside dest?
After(j, dest, where) == <<dest, j>> \in before \/ (where = "above" /\ j = dest)

Move(S, dest, where) ==
    /\ listed' = listed
    /\ before' = {p \in listed \X listed :
                    \/ (p[1] \in S <=> p[2] \in S) /\ p \in before
                    \/ p[1] \in S /\ p[2] \notin S /\ After(p[2], dest, where)
                    \/ p[1] \notin S /\ p[2] \in S /\ ~After(p[1], dest, where)}

Edit ==
    \/ AddLast
    \/ \E i \in listed : Delete(i)
    \/ \E S \in SUBSET listed : \E dest \in listed \ S, where \in {"above", "below"} :
         Move(S, dest, where)

Unsettle == unsettled'
Settle == unsettled /\ ~unsettled' /\ IsList(listed', before')

Next == Unsettle \/ Settle \/ (~unsettled /\ ~unsettled' /\ Edit)

Spec == Init /\ [][Next]_vars
=============================================================================
