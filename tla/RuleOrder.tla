----------------------------- MODULE RuleOrder -----------------------------
(***************************************************************************)
(* The ordered rules of one table: the routes of a routing table           *)
(* (kind = "route"), or the routing rules (kind = "rule"), DHCP, HAProxy   *)
(* or Keepalived rules of a firewall.                                      *)
(* Every await of the services and repositories ends a step, so requests   *)
(* interleave between SQL statements; repository.save reloads its rows in  *)
(* one step and writes the differences in a transaction in another.        *)
(***************************************************************************)
EXTENDS RuleMoves, FiniteSetsExt, SequencesExt

CONSTANTS
    Kinds,         \* the kinds of rules looked at
    Groups,        \* route groups; other rules are looked at outside groups
    FirstRules,    \* bounds the rules there are to begin with
    MaxId,         \* bounds the rules ever created (the autoincrement)
    Requests,      \* slots for requests in flight: bounds the concurrency
    MaxOps,        \* bounds the operations requested, 0 for no bound
    MaxSelection,  \* bounds the rules in one request
    Scattered      \* may a selection have gaps, or contain its destination?

ASSUME RuleOrderAssumption ==
    /\ Kinds \subseteq {"route", "rule", "dhcp", "haproxy", "keepalived"}
    /\ NoGroup \notin Groups
    /\ FirstRules \in Nat /\ MaxId \in Nat /\ FirstRules <= MaxId
    /\ MaxOps \in Nat /\ MaxSelection \in Nat
    /\ Scattered \in BOOLEAN

VARIABLES
    kind,     \* which repository moves the rules
    rules,    \* the rows of table route (routing_r, dhcp_r, ...), by id
    nextId,   \* its autoincrement
    ops,      \* operations requested so far, counted when MaxOps > 0
    req,      \* the requests being served
    unsettled \* history: has a rule of another firewall come, or a routing rule gone
              \* to one, since all the orders were last refreshed?

vars == <<kind, rules, nextId, ops, req, unsettled>>

Given == 1..(nextId - 1)   \* the ids rules have had so far
Row == [order : Nat \ {0}, group : {NoGroup} \cup {g \in Groups : kind = "route"}]
IsTable(t) == DOMAIN t \subseteq Given /\ t \in [DOMAIN t -> Row]
NoRows == << >>

Labels == {"idle", "last", "insert", "find", "copyLast", "copyInsert",
           "preload", "validate", "reload", "write", "reorder", "updated",
           "pick", "affected", "dest", "refreshIds", "refresh",
           "next", "affectedTables", "delete", "from", "to", "look", "arrive"}
Returns == {"idle", "reorder", "updated", "refreshIds", "affectedTables", "next"}

Request == [pc : Labels,
            then : Returns,       \* where a save returns to
            op : {"none", "create", "update", "move", "copy", "remove",
                  "moveItem", "transfer"},
            ids : SUBSET Given,   \* the rules operated on
            dest : Given \cup {0},  \* `to', 0 when not given
            where : {"above", "below"},
            todo : SUBSET Given,  \* bulkRemove: rules still to remove
            first : Nat,          \* an order read: the last, or the first selected
            alone : BOOLEAN]

NoRequest == [pc |-> "idle", then |-> "idle", op |-> "none", ids |-> {},
              dest |-> 0, where |-> "above", todo |-> {}, first |-> 0,
              alone |-> TRUE,
              sel |-> << >>,      \* the selection by ascending order
              ents |-> NoRows,    \* entities in memory
              base |-> NoRows,    \* rows as reloaded by save or remove
              later |-> NoRows]   \* entities that a second save is to write

TypeOK ==
    /\ kind \in Kinds
    /\ nextId \in Nat \ {0}
    /\ IsTable(rules)
    /\ ops \in 0..MaxOps
    /\ unsettled \in BOOLEAN
    /\ \A r \in Requests :
         /\ Restrict(req[r], DOMAIN req[r] \ {"sel", "ents", "base", "later"})
              \in Request
         /\ req[r].sel \in Seq(Given)
         /\ IsTable(req[r].ents) /\ IsTable(req[r].base) /\ IsTable(req[r].later)

At(r, label) == req[r].pc = label
Goto(r, label) == req' = [req EXCEPT ![r].pc = label]
Answer(r) == req' = [req EXCEPT ![r] = NoRequest]
Load(S) == Restrict(rules, S)
\* The rows of a table and some more.
Added(rows, more) == [i \in DOMAIN rows \cup DOMAIN more |->
                        IF i \in DOMAIN rows THEN rows[i] ELSE more[i]]

\* Variant: the order of a new rule counts the rules there are.
CountedOrder == Cardinality(DOMAIN rules)
LastOrder == Max({0} \cup {rules[i].order : i \in DOMAIN rules})
\* Which rule is shown before which.
Before == {p \in (DOMAIN rules) \X (DOMAIN rules) :
             rules[p[1]].order < rules[p[2]].order}
Idle == \A r \in Requests : At(r, "idle")

\* The repositories of models/system renumber the rules when one of a group is
\* removed, and leave a gap otherwise.
LeavesGaps == kind \in {"dhcp", "haproxy", "keepalived"}

\* DHCPRuleService.move and HAProxyRuleService.move look at the destination
\* before the repository moves the rules.
StartOfMove == IF kind \in {"dhcp", "haproxy"} THEN "look" ELSE "pick"

Init ==
    /\ kind \in Kinds
    /\ nextId \in 1..(FirstRules + 1)
    /\ \E group \in [1..(nextId - 1) ->
                       {NoGroup} \cup {g \in Groups : kind = "route"}] :
         rules = [i \in DOMAIN group |-> [order |-> i, group |-> group[i]]]
    /\ Grouped(rules, DOMAIN rules)
    /\ ops = 0
    /\ unsettled = FALSE
    /\ req = [r \in Requests |-> NoRequest]
-----------------------------------------------------------------------------
(***************************************************************************)
(* Requests.  `alone' remembers that no other request has overlapped this  *)
(* one; no action reads it.                                                *)
(***************************************************************************)
Arrive(r, op, label, ids, dest, where) ==
    /\ ops' = IF MaxOps > 0 THEN ops + 1 ELSE 0
    /\ req' = [q \in Requests |->
                 IF q = r
                 THEN [NoRequest EXCEPT
                         !.op = op, !.pc = label, !.ids = ids, !.dest = dest,
                         !.where = where, !.alone = Idle,
                         !.todo = IF op = "remove" THEN ids ELSE {}]
                 ELSE IF At(q, "idle") THEN req[q]
                 ELSE [req[q] EXCEPT !.alone = FALSE]]
    /\ UNCHANGED <<rules, nextId, unsettled>>

\* The rules one request can name, as its client sees them.
Selections ==
    {S \in SUBSET DOMAIN rules :
        /\ S # {} /\ Cardinality(S) <= MaxSelection
        /\ \/ Scattered
           \/ \E lo, hi \in {rules[i].order : i \in DOMAIN rules} :
                S = {i \in DOMAIN rules : rules[i].order \in lo..hi}}

Destinations(S) == DOMAIN rules \ (IF Scattered THEN {} ELSE S)
Offsets == {"above", "below"}
\* Rows that requests in flight are still to insert.
Pending(r) ==
    CASE req[r].pc \in {"last", "insert", "arrive"} -> 1
      [] req[r].pc \in {"find", "copyLast", "copyInsert"} -> Cardinality(req[r].ids)
      [] OTHER -> 0
Room(n) == nextId + MapThenSumSet(Pending, Requests) + n <= MaxId + 1

ReceiveCreate(r) ==
    /\ Room(1)
    /\ \/ Arrive(r, "create", "last", {}, 0, "above")
       \/ \E d \in DOMAIN rules, w \in Offsets :
            Arrive(r, "create", "last", {}, d, w)

ReceiveUpdate(r) ==
    \E i \in DOMAIN rules : Arrive(r, "update", "preload", {i}, 0, "above")

ReceiveMove(r) ==
    \E S \in Selections : \E d \in Destinations(S), w \in Offsets :
        Arrive(r, "move", StartOfMove, S, d, w)

ReceiveCopy(r) ==
    \E S \in Selections : \E d \in DOMAIN rules, w \in Offsets :
        /\ Room(Cardinality(S))
        /\ Arrive(r, "copy", "find", S, d, w)

ReceiveRemove(r) ==
    \E S \in Selections : Arrive(r, "remove", "next", S, 0, "above")

\* moveTo and moveFrom: an object goes from the items of one rule to another's.
ReceiveMoveItem(r) ==
    \E i, d \in DOMAIN rules : Arrive(r, "moveItem", "from", {i}, d, "above")

\* An update, by its id, of a rule of another firewall; of the requests in flight there
\* only its last step is looked at.
ReceiveTransfer(r) ==
    kind # "route" /\ Room(1) /\ Arrive(r, "transfer", "arrive", {}, 0, "above")

\* An await that finds no row where the code goes on to use one: TypeError or
\* EntityNotFoundError, answered as an error.
Fail(r) == Answer(r) /\ UNCHANGED rules

Step(r, label) == At(r, label) /\ UNCHANGED <<nextId, ops, unsettled>>
-----------------------------------------------------------------------------
(* create: last order + 1, the row without items, then update and move. *)
CreateLast(r) ==
    /\ Step(r, "last")
    /\ req' = [req EXCEPT ![r].pc = "insert", ![r].first = LastOrder]
    /\ UNCHANGED rules

InsertLast(r) ==
    /\ At(r, "insert")
    /\ rules' = Added(rules, [i \in {nextId} |->
                                [order |-> req[r].first + 1, group |-> NoGroup]])
    /\ nextId' = nextId + 1
    /\ UNCHANGED <<ops, unsettled>>

CreateInsert(r) ==
    /\ ~LeavesGaps /\ InsertLast(r)
    /\ req' = [req EXCEPT ![r].pc = "preload", ![r].ids = {nextId}]

\* store: one save with all the columns ...
StoreInsert(r) ==
    /\ LeavesGaps /\ InsertLast(r)
    /\ req' = [req EXCEPT ![r].pc = "updated", ![r].ids = {nextId}]

\* ... and, for a Keepalived rule with virtual addresses, a second one.
StoreVirtualIps(r) ==
    /\ kind = "keepalived" /\ InsertLast(r)
    /\ req' = [req EXCEPT ![r].pc = "reload", ![r].then = "updated",
                          ![r].ids = {nextId},
                          ![r].ents = Restrict(rules', {nextId})]

\* An error of update: RoutingRuleService.create removes the rule it has
\* created, RouteService.create and both update handlers do not.
Abort(r) ==
    /\ IF kind = "rule" /\ req[r].op = "create"
       THEN req' = [req EXCEPT ![r].pc = "next", ![r].todo = req[r].ids]
       ELSE Answer(r)
    /\ UNCHANGED rules

(* update: the row is loaded, the items validated, the whole entity saved. *)
Preload(r) ==
    /\ Step(r, "preload")
    /\ \/ /\ req[r].ids \subseteq DOMAIN rules
          /\ req' = [req EXCEPT ![r].pc = "validate",
                                ![r].ents = Load(req[r].ids)]
          /\ UNCHANGED rules
       \/ /\ ~(req[r].ids \subseteq DOMAIN rules)
          /\ Abort(r)

Validate(r) ==
    /\ ~LeavesGaps /\ Step(r, "validate")
    /\ \/ /\ req[r].ids \subseteq DOMAIN rules
          /\ req' = [req EXCEPT ![r].pc = "reload", ![r].then = "reorder"]
          /\ UNCHANGED rules
       \/ Abort(r)   \* an item is not valid, or the row has gone

\* models/system: the objects of the rule are looked up, not the rule itself.
ValidateObjects(r) ==
    /\ LeavesGaps /\ Step(r, "validate")
    /\ \/ req' = [req EXCEPT ![r].pc = "reload", ![r].then = "updated"]
       \/ Answer(r)   \* an object has gone, or the IP versions differ
    /\ UNCHANGED rules

\* reorderTo: renumbers the items of the rule and saves it once more.
Reorder(r) ==
    /\ Step(r, "reorder")
    /\ \/ /\ req[r].ids \subseteq DOMAIN rules
          /\ req' = [req EXCEPT ![r].pc = "reload", ![r].then = "updated",
                                ![r].ents = Load(req[r].ids)]
          /\ UNCHANGED rules
       \/ /\ ~(req[r].ids \subseteq DOMAIN rules)
          /\ Abort(r)

Updated(r) ==
    /\ Step(r, "updated")
    /\ IF req[r].op = "create" /\ req[r].dest # 0 THEN Goto(r, StartOfMove)
                                                 ELSE Answer(r)
    /\ UNCHANGED rules
-----------------------------------------------------------------------------
(* repository.save(ents): rows found are updated where a column differs,   *)
(* rows not found are inserted with the id the entity has.                 *)
Reload(r) ==
    /\ Step(r, "reload")
    /\ req' = [req EXCEPT ![r].pc = "write",
                          ![r].base = Load(DOMAIN req[r].ents \cap DOMAIN rules)]
    /\ UNCHANGED rules

Inserted(r) == DOMAIN req[r].ents \ DOMAIN req[r].base

Written(r, i) ==
    LET ent == req[r].ents[i]
        old == req[r].base[i]
    IN IF i \in Inserted(r) THEN ent
       ELSE [order |-> IF ent.order # old.order THEN ent.order ELSE rules[i].order,
             group |-> IF ent.group # old.group THEN ent.group ELSE rules[i].group]

Write(r) ==
    /\ Step(r, "write")
    /\ IF Inserted(r) \cap DOMAIN rules = {}
       THEN /\ rules' = [i \in DOMAIN rules \cup Inserted(r) |->
                          IF i \in DOMAIN req[r].ents THEN Written(r, i)
                                                     ELSE rules[i]]
            /\ req' = [req EXCEPT
                         ![r].pc = IF req[r].later = NoRows THEN req[r].then
                                                            ELSE "reload",
                         ![r].base = NoRows,
                         ![r].ents = req[r].later, ![r].later = NoRows]
       \* A duplicate key: rolled back.
       ELSE IF req[r].then \in {"reorder", "updated"} THEN Abort(r) ELSE Fail(r)
-----------------------------------------------------------------------------
(* An update that names another firewall, or a routing table of another: the save
   takes the rule out of this list and leaves its order what it is. *)
Leave(r) ==
    /\ At(r, "write") /\ kind # "route" /\ req[r].op = "update"
    /\ req[r].then = (IF LeavesGaps THEN "updated" ELSE "reorder")
    /\ rules' = Load(DOMAIN rules \ req[r].ids)
    /\ unsettled' = (unsettled \/ ~LeavesGaps)
    /\ Answer(r)
    /\ UNCHANGED <<nextId, ops>>

\* And the other way: a rule comes with the order it had in its own list.
MoveIn(r) ==
    /\ At(r, "arrive") /\ kind # "route"
    /\ \E n \in 1..MaxId :
         rules' = Added(rules, [i \in {nextId} |-> [order |-> n, group |-> NoGroup]])
    /\ nextId' = nextId + 1
    /\ unsettled' = TRUE
    /\ Answer(r)
    /\ UNCHANGED ops
-----------------------------------------------------------------------------
(* move: three reads, the arithmetic of RuleMoves, save, refreshOrders. *)
LookAtDest(r) ==
    /\ Step(r, "look")
    /\ IF req[r].dest \in DOMAIN rules THEN Goto(r, "pick") ELSE Answer(r)
    /\ UNCHANGED rules

Pick(r) ==
    /\ Step(r, "pick")
    /\ LET S == req[r].ids \cap DOMAIN rules IN
       \/ /\ S # {}
          /\ \E p \in Listings(rules, S) :
               req' = [req EXCEPT ![r].pc = "affected", ![r].sel = p,
                                  ![r].first = rules[p[1]].order]
       \/ S = {} /\ Answer(r)
    /\ UNCHANGED rules

Affected(r) ==
    /\ Step(r, "affected")
    /\ req' = [req EXCEPT ![r].pc = "dest", ![r].ents = rules]
    /\ UNCHANGED rules

Moved(ents, sel, first, dest, where) ==
    IF kind = "rule" THEN MoveRoutingRules(ents, sel, first, dest, where)
                     ELSE MoveRoutes(ents, sel, first, dest, where)

Dest(r) ==
    /\ Step(r, "dest")
    /\ \/ /\ req[r].dest \in DOMAIN rules
          /\ req' = [req EXCEPT ![r].pc = "reload", ![r].then = "refreshIds",
                                ![r].ents =
                                  Moved(req[r].ents, req[r].sel, req[r].first,
                                        rules[req[r].dest], req[r].where)]
       \/ req[r].dest \notin DOMAIN rules /\ Answer(r)
    /\ UNCHANGED rules

\* Variant: only the rules moved, or removed, are renumbered.
MovedRefreshIds(r) ==
    /\ Step(r, "refreshIds")
    /\ Goto(r, "refresh")
    /\ UNCHANGED rules

(* refreshOrders: the ids of the table, then one UPDATE. *)
RefreshIds(r) ==
    /\ Step(r, "refreshIds")
    /\ req' = [req EXCEPT ![r].pc = IF DOMAIN rules = {} THEN "next" ELSE "refresh",
                          ![r].ids = DOMAIN rules]
    /\ UNCHANGED rules

Refresh(r) ==
    /\ At(r, "refresh")
    /\ \E p \in Listings(rules, req[r].ids \cap DOMAIN rules) :
         rules' = Renumber(rules, p)
    /\ unsettled' = (unsettled /\ ~(DOMAIN rules \subseteq req[r].ids))
    /\ Goto(r, "next")
    /\ UNCHANGED <<nextId, ops>>
-----------------------------------------------------------------------------
(* copy: every original is read, inserted again after the last rule, moved. *)
CopyFind(r) ==
    /\ Step(r, "find")
    /\ req' = [req EXCEPT ![r].pc = "copyLast",
                          ![r].ents = Load(req[r].ids \cap DOMAIN rules)]
    /\ UNCHANGED rules

CopyLast(r) ==
    /\ Step(r, "copyLast")
    /\ IF req[r].ents = NoRows \/ rules = NoRows
       THEN Answer(r)
       ELSE req' = [req EXCEPT ![r].pc = "copyInsert", ![r].first = LastOrder]
    /\ UNCHANGED rules

\* The originals come in any order: the SELECT does not ask for one.
CopyInsert(r) ==
    /\ At(r, "copyInsert")
    /\ \E p \in SetToSeqs(DOMAIN req[r].ents) :
         LET new == nextId..(nextId + Len(p) - 1)
             nth(i) == i - nextId + 1
         IN /\ rules' = Added(rules, [i \in new |->
                              [order |-> req[r].first + nth(i),
                               group |-> req[r].ents[p[nth(i)]].group]])
            /\ nextId' = nextId + Len(p)
            /\ req' = [req EXCEPT ![r].pc = StartOfMove, ![r].ids = new,
                                  ![r].ents = NoRows]
    /\ UNCHANGED <<ops, unsettled>>
-----------------------------------------------------------------------------
(* remove and bulkRemove: one rule after the other, each first saved without
   items, then deleted, then the orders of its table refreshed. *)
RemoveNext(r) ==
    /\ Step(r, "next")
    /\ \/ req[r].todo = {} /\ Answer(r)
       \/ \E i \in req[r].todo :
            IF i \in DOMAIN rules
            THEN req' = [req EXCEPT ![r].pc = "reload",
                                    ![r].then = "affectedTables",
                                    ![r].ids = {i},
                                    ![r].todo = req[r].todo \ {i},
                                    ![r].ents = Load({i})]
            ELSE Answer(r)
    /\ UNCHANGED rules

AffectedTables(r) ==
    /\ Step(r, "affectedTables")
    /\ req' = [req EXCEPT ![r].pc = "delete",
                          ![r].base = Load(req[r].ids \cap DOMAIN rules)]
    /\ UNCHANGED rules

\* Variant: no refresh after the removal.
GappyDelete(r) ==
    /\ Step(r, "delete")
    /\ rules' = Load(DOMAIN rules \ req[r].ids)
    /\ req' = [req EXCEPT ![r].pc = "next", ![r].base = NoRows]

Delete(r) ==
    /\ Step(r, "delete")
    /\ rules' = Load(DOMAIN rules \ req[r].ids)
    /\ req' = [req EXCEPT ![r].pc = IF req[r].base = NoRows \/ LeavesGaps
                                    THEN "next" ELSE "refreshIds",
                          ![r].base = NoRows]
-----------------------------------------------------------------------------
(* moveTo, moveFrom: both rules are read and saved with all their columns,
   Keepalived rules one after the other. *)
FromRule(r) ==
    /\ Step(r, "from")
    /\ IF req[r].ids \subseteq DOMAIN rules
       THEN req' = [req EXCEPT ![r].pc = "to", ![r].ents = Load(req[r].ids)]
       ELSE Answer(r)
    /\ UNCHANGED rules

ToRule(r) ==
    /\ Step(r, "to")
    /\ IF req[r].dest \in DOMAIN rules
       THEN LET to == Load({req[r].dest}) IN
            req' = [req EXCEPT
                      ![r].pc = "reload", ![r].then = "next",
                      ![r].ents = IF kind = "keepalived" THEN @ ELSE Added(@, to),
                      ![r].later = IF kind = "keepalived" THEN to ELSE NoRows]
       ELSE Answer(r)
    /\ UNCHANGED rules
-----------------------------------------------------------------------------
Receive(r) ==
    /\ At(r, "idle")
    /\ MaxOps > 0 => ops < MaxOps
    /\ \/ ReceiveCreate(r) \/ ReceiveUpdate(r) \/ ReceiveMove(r)
       \/ ReceiveCopy(r) \/ ReceiveRemove(r) \/ ReceiveMoveItem(r)
       \/ ReceiveTransfer(r)

Serve(r) ==
    \/ CreateLast(r) \/ CreateInsert(r) \/ StoreInsert(r) \/ StoreVirtualIps(r)
    \/ Preload(r) \/ Validate(r) \/ ValidateObjects(r) \/ Reorder(r) \/ Updated(r)
    \/ Reload(r) \/ Write(r) \/ Leave(r) \/ MoveIn(r)
    \/ LookAtDest(r) \/ Pick(r) \/ Affected(r) \/ Dest(r) \/ RefreshIds(r) \/ Refresh(r)
    \/ CopyFind(r) \/ CopyLast(r) \/ CopyInsert(r)
    \/ RemoveNext(r) \/ AffectedTables(r) \/ Delete(r)
    \/ FromRule(r) \/ ToRule(r)

Next == \E r \in Requests : (Receive(r) \/ Serve(r)) /\ UNCHANGED kind

\* The event loop and the database answer every await.
Fairness == \A r \in Requests : WF_vars(Serve(r) /\ UNCHANGED kind)

Spec == Init /\ [][Next]_vars /\ Fairness
-----------------------------------------------------------------------------
\* When no request is in flight the orders of routes and routing rules are
\* 1, 2, ..., n: what refreshOrders is for; unless an update has taken a rule from one
\* firewall to another, which refreshes nothing.  Two creates in flight at the same
\* time break it.
ConsecutiveAtRest == Idle /\ ~LeavesGaps /\ ~unsettled => Consecutive(rules)

\* DHCP, HAProxy and Keepalived rules may have gaps, but when no request is in
\* flight no two rules of any kind share an order, which would leave it to the
\* database which of them comes first.  An update that takes a rule of another firewall
\* here breaks it, until the next refresh.
DistinctAtRest == Idle /\ ~unsettled => NoTies(rules)

\* A move, a copy or, of a route or routing rule, a removal that nothing
\* overlapped leaves orders 1, 2, ..., n, whatever ties and gaps earlier
\* overlapping requests left behind.
AloneRepairs ==
    [][\A r \in Requests :
        At(r, "refresh") /\ req[r].alone /\ req'[r].pc # "refresh"
          => Consecutive(rules')]_vars

\* At rest the routes of a group are next to each other, although a copy first
\* puts new members of the group at the end of the table.
GroupsTogether == Idle => Grouped(rules, DOMAIN rules)

\* After a move that nothing overlapped, in a list without rules come from another
\* firewall, the rules selected are next to the destination, on the side asked for.
MovedNextToDestination ==
    [][\A r \in Requests :
        /\ At(r, "refresh") /\ req'[r].pc = "next"
        /\ req[r].op = "move" /\ req[r].alone /\ ~unsettled
        => LET d == rules'[req[r].dest].order
               n == Len(req[r].sel)
           IN {rules'[i].order : i \in Members(req[r].sel)}
                = IF req[r].where = "above" THEN (d - n)..(d - 1)
                                            ELSE (d + 1)..(d + n)]_vars

\* The table implements the list its users see.
RuleListOf == INSTANCE RuleList WITH listed <- DOMAIN rules, before <- Before
ImplementsRuleList == RuleListOf!Spec
=============================================================================
