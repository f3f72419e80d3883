----------------------------- MODULE RuleMoves -----------------------------
(***************************************************************************)
(* The arithmetic of moving rules: what RouteRepository and                *)
(* RoutingRuleRepository compute, in memory, for the rules of one table    *)
(* when the selection `sel' (identifiers, by ascending order) is dropped   *)
(* above or below a destination.  A table maps identifiers to rows.        *)
(***************************************************************************)
EXTENDS Integers, Sequences, FiniteSets

CONSTANT NoGroup   \* SQL null in route_g and routing_g

Members(sel) == {sel[k] : k \in DOMAIN sel}
PositionIn(sel, i) == CHOOSE k \in DOMAIN sel : sel[k] = i

\* Variant: the destination itself never moves out of the way.
StrictBeyond(order, dest, where) == order > dest

\* Is an order on the far side of the destination's?
Beyond(order, dest, where) ==
    IF where = "above" THEN order >= dest ELSE order > dest

\* Variant: counted from 0 twice.
LowLanding(sel, i, dest, where) ==
    dest + PositionIn(sel, i) - (IF where = "above" THEN 2 ELSE 1)

\* The order a moved rule gets: next to the destination, in selection order.
Landing(sel, i, dest, where) ==
    dest + PositionIn(sel, i) - (IF where = "above" THEN 1 ELSE 0)

\* Variant: room for one rule, whatever the size of the selection.
OneShifted(order, n, first, dest, where) ==
    IF Beyond(order, dest, where) /\ (first < dest \/ order < first)
    THEN order + 1
    ELSE order

\* The order of a rule that stays.  `first' is the lowest order selected: a
\* forward move shifts all that lies beyond the destination, a backward move
\* only what lies between the destination and the first rule selected.
Shifted(order, n, first, dest, where) ==
    IF Beyond(order, dest, where) /\ (first < dest \/ order < first)
    THEN order + n
    ELSE order

\* Variant: the rules moved keep their group.
UngroupedMoveRoutes(rows, sel, first, dest, where) ==
    [i \in DOMAIN rows |->
        [rows[i] EXCEPT !.order =
            IF i \in Members(sel)
            THEN Landing(sel, i, dest.order, where)
            ELSE Shifted(@, Len(sel), first, dest.order, where)]]

MoveRoutes(rows, sel, first, dest, where) ==
    [i \in DOMAIN rows |->
        IF i \in Members(sel)
        THEN [order |-> Landing(sel, i, dest.order, where),
              group |-> dest.group]
        ELSE [rows[i] EXCEPT !.order =
                Shifted(@, Len(sel), first, dest.order, where)]]

\* Routing rules: a destination in a group only lends its group.
MoveRoutingRules(rows, sel, first, dest, where) ==
    [i \in DOMAIN rows |->
        IF i \in Members(sel)
        THEN IF dest.group = NoGroup
             THEN [order |-> Landing(sel, i, dest.order, where),
                   group |-> NoGroup]
             ELSE [rows[i] EXCEPT !.group = dest.group]
        ELSE [rows[i] EXCEPT !.order =
                Shifted(@, Len(sel), first, dest.order, where)]]

\* UPDATE ... SET order = @a := @a + 1 WHERE id IN p ORDER BY order: p lists
\* the rows hit in the order in which the database takes them.
Renumber(rows, p) ==
    [i \in DOMAIN rows |->
        IF i \in Members(p) THEN [rows[i] EXCEPT !.order = PositionIn(p, i)]
                            ELSE rows[i]]

\* Variant: an UPDATE without ORDER BY.
AnyListings(rows, S) ==
    {p \in [1..Cardinality(S) -> S] :
        \A j, k \in 1..Cardinality(S) : j < k => p[j] # p[k]}

\* The ways to list the identifiers S by ascending order: one, unless tied.
Listings(rows, S) ==
    {p \in [1..Cardinality(S) -> S] :
        \A j, k \in 1..Cardinality(S) :
            j < k => p[j] # p[k] /\ rows[p[j]].order <= rows[p[k]].order}

NoTies(rows) ==
    \A i, j \in DOMAIN rows : rows[i].order = rows[j].order => i = j

Consecutive(rows) ==
    {rows[i].order : i \in DOMAIN rows} = 1..Cardinality(DOMAIN rows)

\* Among the rules S, those of a group are shown as one block.
Grouped(rows, S) ==
    \A i, j, k \in S :
        /\ rows[i].order < rows[j].order /\ rows[j].order < rows[k].order
        /\ rows[i].group = rows[k].group
        => rows[i].group \in {NoGroup, rows[j].group}
=============================================================================
