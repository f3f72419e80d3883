---------------------------- MODULE PolicyRules ----------------------------
(***************************************************************************)
(* The rules of one filter chain of a firewall and their groups, as        *)
(* routes/policy/rule.js and group.js change them.  A rule is put between  *)
(* two others by making a gap in the orders and writing the order found    *)
(* into it, each with a statement of its own, so requests interleave       *)
(* between the two.  Orders are never renumbered.                          *)
(***************************************************************************)
EXTENDS Integers, Sequences, FiniteSets

CONSTANTS
    Groups,        \* identifiers of policy groups
    NoGroup,       \* SQL null in idgroup
    FirstRules,    \* bounds the rules there are to begin with
    MaxId,         \* bounds the rules ever created (the autoincrement)
    Requests,      \* slots for requests in flight: bounds the concurrency
    MaxOps,        \* bounds the operations requested
    MaxSelection,  \* bounds the rules in one request
    OrderOfLast    \* do clients send the order of the catch-all rule they edit?

ASSUME PolicyRulesAssumption ==
    /\ NoGroup \notin Groups
    /\ FirstRules \in Nat \ {0} /\ MaxId \in Nat /\ FirstRules <= MaxId
    /\ MaxOps \in Nat /\ MaxSelection \in Nat
    /\ OrderOfLast \in BOOLEAN

VARIABLES
    rules,    \* the rows of policy_r, by id
    groups,   \* the rows of policy_g
    nextId,   \* the autoincrement of policy_r
    ops,      \* operations requested so far
    req       \* the requests being served

vars == <<rules, groups, nextId, ops, req>>

Ids == 1..MaxId
CatchAll == 1   \* the rule with special = 2
MaybeGroup == Groups \cup {NoGroup}
Row == [order : Nat, group : MaybeGroup]
InGroup(g) == {i \in DOMAIN rules : rules[i].group = g}

Labels == {"idle", "reorder", "insert", "check", "write", "delete",
           "paste", "rule", "gap", "shift", "groupOf", "members", "drop",
           "save", "assign", "dissolve"}

Request ==
    [pc : Labels,
     op : {"none", "create", "update", "copy", "move", "delete", "group",
           "ungroup", "dissolve"},
     todo : Seq(Ids),       \* the rules named, the current one first
     paste : Ids \cup {0},  \* pasteOnRuleId
     offset : {-1, 0, 1},   \* pasteOffset
     at : Nat,              \* the order read, then the order to write
     group : MaybeGroup,    \* the group to write
     old : MaybeGroup,      \* the group to check for emptiness
     loop : Seq(Ids),       \* removeRules: the rules still to unassign
     found : BOOLEAN,       \* ... and whether the first has been found
     alone : BOOLEAN]       \* nothing has overlapped; no action reads it

NoRequest ==
    [pc |-> "idle", op |-> "none", todo |-> << >>, paste |-> 0, offset |-> 0,
     at |-> 0, group |-> NoGroup, old |-> NoGroup, loop |-> << >>,
     found |-> FALSE, alone |-> TRUE]

TypeOK ==
    /\ DOMAIN rules \subseteq Ids /\ rules \in [DOMAIN rules -> Row]
    /\ groups \subseteq Groups
    /\ nextId \in 1..(MaxId + 1) /\ \A i \in DOMAIN rules : i < nextId
    /\ \A i \in DOMAIN rules : rules[i].group \in groups \cup {NoGroup}
    /\ ops \in 0..MaxOps
    /\ req \in [Requests -> Request]

\* A default policy; with gaps and groups as later operations leave them.
Init ==
    /\ nextId \in 2..(FirstRules + 1)
    /\ groups \in SUBSET Groups
    /\ \E group \in [2..(nextId - 1) -> groups \cup {NoGroup}] :
         rules = [i \in 1..(nextId - 1) |->
                    IF i = CatchAll THEN [order |-> nextId, group |-> NoGroup]
                                    ELSE [order |-> i, group |-> group[i]]]
    /\ ops = 0
    /\ req = [r \in Requests |-> NoRequest]

At(r, label) == req[r].pc = label
Goto(r, label) == req' = [req EXCEPT ![r].pc = label]
\* Answered; the loop of removeRules goes on without its request.
Answer(r) == req' = [req EXCEPT ![r] = [NoRequest EXCEPT !.loop = req[r].loop]]
Free(r) == At(r, "idle") /\ req[r].loop = << >>
Idle == \A r \in Requests : Free(r)
-----------------------------------------------------------------------------
(* Requests, as the middleware lets them through *)
Arrive(r, request) ==
    /\ ops' = ops + 1
    /\ req' = [q \in Requests |->
                 IF q = r THEN [request EXCEPT !.alone = Idle]
                 ELSE IF Free(q) THEN req[q]
                 ELSE [req[q] EXCEPT !.alone = FALSE]]
    /\ UNCHANGED <<rules, groups, nextId>>

\* The rules a request can name, in any order.
Selections ==
    {s \in UNION {[1..n -> DOMAIN rules] : n \in 1..MaxSelection} :
        \A j, k \in DOMAIN s : s[j] = s[k] => j = k}

\* Rows that a request in flight is still to insert.  A request comes when there
\* are identifiers for its rows and for those of any other.
Inserting(r) ==
    IF At(r, "idle") THEN 0
    ELSE CASE req[r].op = "create" -> 1
           [] req[r].op = "copy" -> Len(req[r].todo)
           [] OTHER -> 0
Room(n) == \A r \in Requests : nextId + Inserting(r) + n <= MaxId + 1

\* The client puts a rule above one that it sees, and in its group.
ReceiveCreate(r) ==
    /\ Room(1)
    /\ \E i \in DOMAIN rules :
         Arrive(r, [NoRequest EXCEPT !.op = "create", !.pc = "reorder",
                      !.at = rules[i].order, !.group = rules[i].group])

\* The client sends a rule back with the group and the order that it saw; a
\* field that it does not send (0) is not written.
ReceiveUpdate(r) ==
    \E i \in DOMAIN rules :
        Arrive(r, [NoRequest EXCEPT !.op = "update", !.pc = "check", !.todo = <<i>>,
                     !.at = IF i # CatchAll \/ OrderOfLast THEN rules[i].order ELSE 0,
                     !.group = rules[i].group])

ReceiveCopy(r) ==
    \E s \in Selections, i \in DOMAIN rules, o \in {-1, 0, 1} :
        /\ Room(Len(s))
        /\ Arrive(r, [NoRequest EXCEPT !.op = "copy", !.pc = "paste", !.todo = s,
                        !.paste = i, !.offset = o])

\* The rule pasted on cannot be among the rules moved.
ReceiveMove(r) ==
    \E s \in Selections, i \in DOMAIN rules, o \in {-1, 0, 1} :
        /\ \A k \in DOMAIN s : s[k] # i
        /\ Arrive(r, [NoRequest EXCEPT !.op = "move", !.pc = "paste", !.todo = s,
                        !.paste = i, !.offset = o])

ReceiveDelete(r) ==
    \E s \in Selections :
        Arrive(r, [NoRequest EXCEPT !.op = "delete", !.pc = "delete", !.todo = s])

ReceiveGroup(r) ==
    \E s \in Selections :
        Arrive(r, [NoRequest EXCEPT !.op = "group", !.pc = "save", !.todo = s])

ReceiveUngroup(r) ==
    \E g \in groups, s \in Selections :
        /\ \A k \in DOMAIN s : rules[s[k]].group = g
        /\ Arrive(r, [NoRequest EXCEPT !.op = "ungroup", !.pc = "members",
                        !.old = g, !.loop = s])

ReceiveDissolve(r) ==
    \E g \in groups :
        Arrive(r, [NoRequest EXCEPT !.op = "dissolve", !.pc = "dissolve", !.old = g])
-----------------------------------------------------------------------------
Step(r, label) == At(r, label) /\ UNCHANGED ops
Same == UNCHANGED <<rules, groups, nextId>>

\* Variant: only the rule that is in the way moves on.
OneShift(after) ==
    rules' = [i \in DOMAIN rules |->
                IF rules[i].order = after + 1
                THEN [rules[i] EXCEPT !.order = @ + 1] ELSE rules[i]]

\* UPDATE ... SET rule_order = rule_order + 1 WHERE rule_order > after.
Shift(after) ==
    rules' = [i \in DOMAIN rules |->
                IF rules[i].order > after
                THEN [rules[i] EXCEPT !.order = @ + 1] ELSE rules[i]]

\* reorderAfterRuleOrder
Reorder(r) ==
    /\ Step(r, "reorder")
    /\ Shift(req[r].at - 1)
    /\ Goto(r, "insert")
    /\ UNCHANGED <<groups, nextId>>

\* Variant: no foreign key.
AnyGroup(r) == req[r].group \in Groups \cup {NoGroup}

\* A group that has gone is a foreign key without a row.
GroupExists(r) == req[r].group \in groups \cup {NoGroup}

\* The next rule of a request; a copy may be pasted after the one before it.
NextRule(r, new) ==
    IF Len(req[r].todo) <= 1 THEN Answer(r)
    ELSE req' = [req EXCEPT
                   ![r].pc = IF req[r].op = "delete" THEN "delete" ELSE "paste",
                   ![r].todo = Tail(@),
                   ![r].paste = IF new # 0 /\ req[r].offset = 1 THEN new ELSE @]

Insert(r) ==
    /\ Step(r, "insert")
    /\ nextId <= MaxId
    /\ IF GroupExists(r)
       THEN /\ rules' = [i \in DOMAIN rules \cup {nextId} |->
                          IF i = nextId
                          THEN [order |-> req[r].at, group |-> req[r].group]
                          ELSE rules[i]]
            /\ nextId' = nextId + 1
            /\ NextRule(r, nextId)
       ELSE Answer(r) /\ UNCHANGED <<rules, nextId>>
    /\ UNCHANGED groups

\* PUT /policy/rule: the rule is read for its checks, then written.
Check(r) ==
    /\ Step(r, "check")
    /\ IF req[r].todo[1] \in DOMAIN rules THEN Goto(r, "write") ELSE Answer(r)
    /\ Same
-----------------------------------------------------------------------------
(* ruleCopy and ruleMove, for one rule after the other *)
PasteOn(r) ==
    /\ Step(r, "paste")
    /\ IF req[r].paste \in DOMAIN rules
       THEN req' = [req EXCEPT ![r].pc = "rule",
                               ![r].group = rules[req[r].paste].group]
       ELSE Answer(r)
    /\ Same

\* Variant: rules may be put under the catch-all rule.
LaxAllowed(r) == req[r].todo[1] # CatchAll

Allowed(r) ==
    /\ req[r].todo[1] # CatchAll
    /\ req[r].paste = CatchAll => req[r].offset # 1

ReadRule(r) ==
    LET i == req[r].todo[1] IN
    /\ Step(r, "rule")
    /\ IF i \in DOMAIN rules /\ Allowed(r)
       THEN LET into == req[r].op = "move" /\ req[r].offset = 0
            IN req' = [req EXCEPT
                  ![r].pc = IF into THEN "write" ELSE "gap",
                  ![r].at = IF into THEN rules[i].order ELSE @,
                  ![r].old = IF req[r].op = "move" THEN rules[i].group ELSE NoGroup]
       ELSE Answer(r)
    /\ Same

\* The order after which the gap is made: that of the rule pasted on, or, to
\* paste before it, of the rule before it.  A rule that has gone has no order:
\* nothing comes before it, and pasting after it is an error.
Before(p) ==
    {rules[i].order : i \in {j \in DOMAIN rules : p \in DOMAIN rules
                                 /\ rules[j].order < rules[p].order}}

\* Variant: always after the rule pasted on.
GapBelow(r) == IF req[r].paste \in DOMAIN rules THEN rules[req[r].paste].order ELSE 0

GapAfter(r) ==
    LET p == req[r].paste IN
    IF req[r].offset = 1 THEN rules[p].order
    ELSE IF Before(p) = {} THEN 0
    ELSE CHOOSE o \in Before(p) : \A q \in Before(p) : q <= o

ReadGap(r) ==
    /\ Step(r, "gap")
    /\ IF req[r].offset = 1 /\ req[r].paste \notin DOMAIN rules
       THEN Answer(r)
       ELSE req' = [req EXCEPT ![r].pc = "shift", ![r].at = GapAfter(r)]
    /\ Same

MakeGap(r) ==
    /\ Step(r, "shift")
    /\ Shift(req[r].at)
    /\ req' = [req EXCEPT ![r].pc = IF req[r].op = "copy" THEN "insert" ELSE "write",
                          ![r].at = @ + 1]
    /\ UNCHANGED <<groups, nextId>>

\* updatePolicy_r: no error when the rule has gone.
Write(r) ==
    LET i == req[r].todo[1] IN
    /\ Step(r, "write")
    /\ IF i \in DOMAIN rules /\ ~GroupExists(r)
       THEN Answer(r) /\ UNCHANGED rules
       ELSE /\ rules' = [j \in DOMAIN rules |->
                          IF j # i THEN rules[j]
                          ELSE [order |-> IF req[r].at = 0 THEN rules[j].order
                                                          ELSE req[r].at,
                                group |-> req[r].group]]
            /\ IF req[r].op = "update" THEN Answer(r) ELSE Goto(r, "groupOf")
    /\ UNCHANGED <<groups, nextId>>

ForgetGroup(r) == Step(r, "groupOf") /\ NextRule(r, 0) /\ Same

\* The group that the rule was in.  When the rule was moved into another group
\* (offset 0) its rules are not loaded: findOne takes no second argument.
GroupOf(r) ==
    /\ Step(r, "groupOf")
    /\ IF req[r].old \in groups /\ req[r].offset # 0
       THEN Goto(r, "members")
       ELSE IF req[r].old \notin groups \cup {NoGroup} /\ req[r].offset = 0
               /\ req[r].group = NoGroup
       THEN Answer(r)   \* a property of null
       ELSE NextRule(r, 0)
    /\ Same

(* deleteIfEmpty, after a move and after rules were taken out of a group *)
Checked(r) == IF req[r].op = "move" THEN NextRule(r, 0) ELSE Answer(r)

Members(r) ==
    /\ Step(r, "members")
    /\ req[r].op = "ungroup" => req[r].found
    /\ IF InGroup(req[r].old) = {} /\ req[r].old \in groups
       THEN Goto(r, "drop") ELSE Checked(r)
    /\ Same

\* The foreign key keeps a group that has rules again.
Drop(r) ==
    /\ Step(r, "drop")
    /\ IF InGroup(req[r].old) = {}
       THEN groups' = groups \ {req[r].old} /\ Checked(r)
       ELSE Answer(r) /\ UNCHANGED groups
    /\ UNCHANGED <<rules, nextId>>

Delete(r) ==
    /\ Step(r, "delete")
    /\ rules' = [i \in DOMAIN rules \ {req[r].todo[1]} |-> rules[i]]
    /\ NextRule(r, 0)
    /\ UNCHANGED <<groups, nextId>>
-----------------------------------------------------------------------------
(* group.js *)
SaveGroup(r) ==
    /\ Step(r, "save")
    /\ \E g \in Groups \ groups :
         /\ groups' = groups \cup {g}
         /\ req' = [req EXCEPT ![r].pc = "assign", ![r].group = g]
    /\ UNCHANGED <<rules, nextId>>

\* Not awaited, and after the answer: the group may have gone.
Assign(r) ==
    /\ Step(r, "assign")
    /\ rules' = IF ~GroupExists(r) THEN rules
                ELSE [i \in DOMAIN rules |->
                        IF \E k \in DOMAIN req[r].todo : req[r].todo[k] = i
                        THEN [rules[i] EXCEPT !.group = req[r].group] ELSE rules[i]]
    /\ Answer(r)
    /\ UNCHANGED <<groups, nextId>>

\* removeRules: the first rule taken out resolves its promise, and the handler
\* goes on to look whether the group is empty while the loop takes out the
\* others.  A rule that is not found ends the loop: its promise never settles.
Unassign(r) ==
    LET i == req[r].loop[1] IN
    /\ req[r].loop # << >>
    /\ IF i \in DOMAIN rules
       THEN /\ rules' = [rules EXCEPT ![i].group = NoGroup]
            /\ req' = [req EXCEPT ![r].loop = Tail(@),
                                  ![r].found = ~At(r, "idle")]
       ELSE /\ req' = [req EXCEPT ![r].loop = << >>,
                                  ![r].pc = IF req[r].found THEN @ ELSE "idle"]
            /\ UNCHANGED rules
    /\ UNCHANGED <<groups, nextId, ops>>

\* unassignPolicyRulesBeforeRemove, then the DELETE.
Dissolve(r) ==
    /\ Step(r, "dissolve")
    /\ IF req[r].old \in groups
       THEN /\ rules' = [i \in DOMAIN rules |->
                          IF rules[i].group = req[r].old
                          THEN [rules[i] EXCEPT !.group = NoGroup] ELSE rules[i]]
            /\ Goto(r, "drop")
       ELSE Answer(r) /\ UNCHANGED rules
    /\ UNCHANGED <<groups, nextId>>
-----------------------------------------------------------------------------
\* The requests of rule.js and those of group.js
ReceiveRule(r) ==
    /\ Free(r) /\ ops < MaxOps
    /\ \/ ReceiveCreate(r) \/ ReceiveUpdate(r) \/ ReceiveCopy(r)
       \/ ReceiveMove(r) \/ ReceiveDelete(r)

ReceiveOfGroup(r) ==
    /\ Free(r) /\ ops < MaxOps
    /\ ReceiveGroup(r) \/ ReceiveUngroup(r) \/ ReceiveDissolve(r)

Serve(r) ==
    \/ Reorder(r) \/ Insert(r) \/ Check(r) \/ Write(r) \/ Delete(r)
    \/ PasteOn(r) \/ ReadRule(r) \/ ReadGap(r) \/ MakeGap(r)
    \/ GroupOf(r) \/ Members(r) \/ Drop(r)
    \/ SaveGroup(r) \/ Assign(r) \/ Unassign(r) \/ Dissolve(r)

Next == \E r \in Requests : ReceiveRule(r) \/ ReceiveOfGroup(r) \/ Serve(r)

Spec == Init /\ [][Next]_vars
-----------------------------------------------------------------------------
\* The catch-all rule stays below every other rule of its chain, wherever and
\* however many rules are created, copied and moved at the same time, and
\* whatever a client that has not seen the latest orders sends.
CatchAllLast ==
    CatchAll \in DOMAIN rules =>
        \A i \in DOMAIN rules \ {CatchAll} :
            rules[i].order < rules[CatchAll].order

\* Gaps are made under the feet of other requests, and still two rules change
\* their order only by a request that writes the order of one of them.
OthersKeepOrder ==
    [][\A i, j \in DOMAIN rules \cap DOMAIN rules' :
         rules[i].order < rules[j].order =>
             \/ rules'[i].order < rules'[j].order
             \/ \E r \in Requests : At(r, "write") /\ req[r].todo[1] \in {i, j}]_vars

\* A rule that is moved or copied without overlap shares its order with no
\* other, and no other is between it and the rule that it was pasted on.
Beside(i, p, after) ==
    LET o == rules'[i].order
        d == rules'[p].order
        between == IF after THEN (d + 1)..o ELSE o..(d - 1)
    IN /\ IF after THEN d < o ELSE o < d
       /\ \A j \in DOMAIN rules' \ {i} : rules'[j].order \notin between
Copies(r) == At(r, "insert") /\ req[r].op = "copy" /\ nextId' = nextId + 1
Moves(r) == At(r, "write") /\ req'[r].pc = "groupOf" /\ req[r].offset # 0
PlacedBeside ==
    [][\A r \in Requests :
         req[r].alone /\ (Copies(r) \/ Moves(r)) =>
           Beside(IF Copies(r) THEN nextId ELSE req[r].todo[1],
                  req[r].paste, req[r].offset = 1)]_vars

\* "If we have moved rule from a group, if the group is empty remove de rules
\* group from the database" (ruleMove): so it is when the rule is moved above or
\* below another, whatever overlaps.  With offset 0 the group is left behind.
EmptiedGroupGoes ==
    [][\A r \in Requests :
         /\ req[r].op = "move" /\ req[r].offset # 0
         /\ req[r].pc \in {"groupOf", "members", "drop"}
         /\ req'[r].pc \in {"idle", "paste"}
         => \/ req[r].old \notin groups'
            \/ \E i \in DOMAIN rules' : rules'[i].group = req[r].old]_vars
=============================================================================
