--------------------------- MODULE RuleListProofs ---------------------------
(***************************************************************************)
(* Proofs about RuleOrder, for any number of rules, requests and           *)
(* operations: the orders of a table, the gaps that are in use and the     *)
(* groups that empty; then the moves, and the list that users see.  A move *)
(* keeps the orders of a table distinct, whatever its rows; and when       *)
(* requests are served one at a time and select rules without gaps between *)
(* them, the rules of a group stay together, a selection ends up next to   *)
(* its destination, and RuleOrder implements RuleList.                     *)
(***************************************************************************)
EXTENDS RuleOrder, FiniteSetTheorems, WellFoundedInduction, TLAPS

\* A finite set of naturals has a greatest element.
LEMMA GreatestExists ==
    ASSUME NEW S \in SUBSET Nat, IsFiniteSet(S), S # {}
    PROVE  \E x \in S : \A y \in S : y <= x
  <1> DEFINE Has(T) == \E x \in T : \A y \in T : y <= x
             Sizes == {n \in Nat : \E T \in SUBSET Nat :
                          T # {} /\ IsFiniteSet(T) /\ Cardinality(T) = n /\ ~Has(T)}
             R == OpToRel(<, Nat)
  <1>1. SUFFICES ASSUME ~Has(S) PROVE FALSE
    OBVIOUS
  <1>2. Cardinality(S) \in Sizes
    BY <1>1, FS_CardinalityType
  <1>3. PICK n \in Sizes : \A k \in Sizes : ~ (k < n)
    <2>1. IsWellFoundedOn(R, Nat)
      BY NatLessThanWellFounded
    <2>2. Sizes \subseteq Nat /\ Sizes # {}
      BY <1>2
    <2>3. \A u, v \in Nat : u < v => <<u, v>> \in R
      BY DEF OpToRel
    <2> HIDE DEF Sizes, R
    <2>4. PICK n \in Sizes : \A k \in Sizes : ~ (<<k, n>> \in R)
      BY <2>1, <2>2, WFMin
    <2> QED BY <2>2, <2>3, <2>4
  <1>4. PICK T \in SUBSET Nat :
          T # {} /\ IsFiniteSet(T) /\ Cardinality(T) = n /\ ~Has(T)
    BY <1>3
  <1>5. PICK x \in T : TRUE
    BY <1>4
  <1>6. IsFiniteSet(T \ {x}) /\ Cardinality(T \ {x}) = n - 1
    BY <1>4, <1>5, FS_RemoveElement
  <1>7. CASE T \ {x} = {}
    BY <1>4, <1>5, <1>7
  <1>8. CASE T \ {x} # {}
    <2>1. n - 1 \in Nat /\ n - 1 < n
      BY <1>3, <1>6, FS_CardinalityType
    <2>2. n - 1 \notin Sizes
      BY <1>3, <2>1
    <2>3. Has(T \ {x})
      BY <1>4, <1>6, <1>8, <2>1, <2>2
    <2>4. PICK z \in T \ {x} : \A y \in T \ {x} : y <= z
      BY <2>3
    <2>5. x \in Nat /\ z \in Nat /\ T \subseteq Nat
      BY <1>4, <1>5, <2>4
    <2>6. Has(T)
      <3>1. CASE x <= z
        BY <2>4, <3>1
      <3>2. CASE z < x
        BY <2>4, <2>5, <3>2
      <3> QED BY <2>5, <3>1, <3>2
    <2> QED BY <1>4, <2>6
  <1> QED BY <1>7, <1>8

\* The orders of a finite table have a greatest one, or 0 when it is empty:
\* getLastRouteInRoutingTable and its like.
LEMMA LastOfOrders ==
    ASSUME NEW t, IsFiniteSet(DOMAIN t), \A i \in DOMAIN t : t[i].order \in Nat,
           NEW last, last = Max({0} \cup {t[i].order : i \in DOMAIN t})
    PROVE  /\ last \in {0} \cup {t[i].order : i \in DOMAIN t}
           /\ last \in Nat
           /\ \A i \in DOMAIN t : t[i].order <= last
  <1> DEFINE D == DOMAIN t
             O == {t[i].order : i \in D}
             f == [i \in D |-> t[i].order]
  <1>1. f \in Surjection(D, O)
    BY DEF Surjection
  <1>2. IsFiniteSet(O)
    <2> HIDE DEF f, O
    <2> QED BY <1>1, FS_Surjection
  <1>3. IsFiniteSet({0} \cup O)
    <2> HIDE DEF O
    <2> QED BY <1>2, FS_AddElement, FS_Union, FS_Singleton
  <1>4. {0} \cup O \in SUBSET Nat /\ {0} \cup O # {}
    OBVIOUS
  <1>5. \E x \in {0} \cup O : \A y \in {0} \cup O : y <= x
    <2> HIDE DEF O
    <2> QED BY <1>3, <1>4, GreatestExists
  <1>6. last \in {0} \cup O /\ \A y \in {0} \cup O : y <= last
    <2> HIDE DEF O
    <2>1. \E x \in {0} \cup O : \A y \in {0} \cup O : x >= y
      BY <1>4, <1>5
    <2>2. last = CHOOSE x \in {0} \cup O : \A y \in {0} \cup O : x >= y
      BY DEF Max, O
    <2> QED BY <1>4, <2>1, <2>2
  <1> QED BY <1>4, <1>6

(***************************************************************************)
(* Type correctness.  Ids grow, so the types are stated for the ids below  *)
(* a bound.                                                                *)
(***************************************************************************)
Below(n) == 1..(n - 1)
TablesBelow(n) == UNION {[S -> Row] : S \in SUBSET Below(n)}
RequestBelow(n) ==
    [pc : Labels, then : Returns,
     op : {"none", "create", "update", "move", "copy", "remove", "moveItem", "transfer"},
     ids : SUBSET Below(n), dest : Below(n) \cup {0}, where : {"above", "below"},
     todo : SUBSET Below(n), first : Nat, alone : BOOLEAN,
     sel : Seq(Below(n)), ents : TablesBelow(n), base : TablesBelow(n),
     later : TablesBelow(n)]

Types ==
    /\ kind \in Kinds
    /\ nextId \in Nat \ {0}
    /\ rules \in TablesBelow(nextId)
    /\ ops \in 0..MaxOps
    /\ req \in [Requests -> RequestBelow(nextId)]
    /\ unsettled \in BOOLEAN
    /\ unsettled => kind # "route"

\* The rows there may be depend on the kind, which never changes.
LEMMA SameKind ==
    ASSUME UNCHANGED kind
    PROVE  \A n : /\ (TablesBelow(n))' = TablesBelow(n)
                  /\ (RequestBelow(n))' = RequestBelow(n)
  <1>1. Row' = Row
    BY DEF Row
  <1>2. \A n : (TablesBelow(n))' = TablesBelow(n)
    BY <1>1 DEF TablesBelow
  <1> QED BY <1>2 DEF RequestBelow

LEMMA NoRowsIsTable ==
    ASSUME NEW n
    PROVE  NoRows \in TablesBelow(n)
  <1>1. NoRows \in [{} -> Row]
    BY DEF NoRows
  <1> QED BY <1>1 DEF TablesBelow

LEMMA NoRequestType ==
    ASSUME NEW n
    PROVE  NoRequest \in RequestBelow(n)
  BY NoRowsIsTable DEF NoRequest, RequestBelow, Labels, Returns

LEMMA Relabel ==
    ASSUME NEW n, NEW q \in RequestBelow(n), NEW l \in Labels, NEW t \in Returns
    PROVE  /\ [q EXCEPT !.pc = l] \in RequestBelow(n)
           /\ [q EXCEPT !.pc = l, !.then = t] \in RequestBelow(n)
  BY DEF RequestBelow

LEMMA TablesGrow ==
    ASSUME NEW m \in Nat, NEW n \in Nat, m <= n
    PROVE  /\ Below(m) \subseteq Below(n)
           /\ TablesBelow(m) \subseteq TablesBelow(n)
           /\ Seq(Below(m)) \subseteq Seq(Below(n))
  <1>1. Below(m) \subseteq Below(n)
    BY DEF Below
  <1> QED BY <1>1 DEF TablesBelow

LEMMA RequestsGrow ==
    ASSUME NEW m \in Nat, NEW n \in Nat, m <= n
    PROVE  RequestBelow(m) \subseteq RequestBelow(n)
  BY TablesGrow DEF RequestBelow

LEMMA TypesMeanTypeOK ==
    ASSUME Types
    PROVE  TypeOK
  <1>1. ASSUME NEW t \in TablesBelow(nextId) PROVE IsTable(t)
    BY DEF TablesBelow, IsTable, Given, Below
  <1>2. ASSUME NEW q \in RequestBelow(nextId)
        PROVE  Restrict(q, DOMAIN q \ {"sel", "ents", "base", "later"}) \in Request
    <2>1. Restrict(q, DOMAIN q \ {"sel", "ents", "base", "later"})
            = [pc |-> q.pc, then |-> q.then, op |-> q.op, ids |-> q.ids,
               dest |-> q.dest, where |-> q.where, todo |-> q.todo,
               first |-> q.first, alone |-> q.alone]
      BY DEF RequestBelow, Restrict
    <2> QED BY <2>1 DEF RequestBelow, Request, Given, Below
  <1> QED BY <1>1, <1>2 DEF Types, TypeOK, RequestBelow, Given, Below

LEMMA TypesAtInit ==
    ASSUME Init
    PROVE  Types
  <1>1. nextId \in Nat \ {0}
    BY RuleOrderAssumption DEF Init
  <1>2. rules \in TablesBelow(nextId)
    <2>1. rules \in [1..(nextId - 1) -> Row]
      BY <1>1 DEF Init, Row
    <2> QED BY <2>1 DEF TablesBelow, Below
  <1>3. req \in [Requests -> RequestBelow(nextId)]
    BY NoRequestType DEF Init
  <1>4. unsettled \in BOOLEAN /\ (unsettled => kind # "route")
    BY Zenon DEF Init
  <1>5. kind \in Kinds /\ ops \in 0..MaxOps
    BY RuleOrderAssumption DEF Init
  <1> QED BY <1>1, <1>2, <1>3, <1>4, <1>5 DEF Types

LEMMA LoadType ==
    ASSUME Types, NEW S, S \subseteq DOMAIN rules
    PROVE  Load(S) \in TablesBelow(nextId)
  <1>1. PICK D \in SUBSET Below(nextId) : rules \in [D -> Row]
    BY DEF Types, TablesBelow
  <1>2. S \in SUBSET Below(nextId) /\ Load(S) \in [S -> Row]
    BY <1>1 DEF Load, Restrict
  <1> QED BY <1>2 DEF TablesBelow

LEMMA RulesType ==
    ASSUME Types
    PROVE  /\ DOMAIN rules \subseteq Below(nextId)
           /\ IsFiniteSet(DOMAIN rules)
           /\ \A i \in DOMAIN rules : rules[i] \in Row
           /\ rules \in [DOMAIN rules -> Row]
  <1>1. PICK D \in SUBSET Below(nextId) : rules \in [D -> Row]
    BY DEF Types, TablesBelow
  <1>2. IsFiniteSet(Below(nextId))
    BY FS_Interval DEF Types, Below
  <1>3. IsFiniteSet(DOMAIN rules)
    BY <1>1, <1>2, FS_Subset
  <1> QED BY <1>1, <1>3

LEMMA LastOrderType ==
    ASSUME Types
    PROVE  LastOrder \in Nat
  <1>1. \A i \in DOMAIN rules : rules[i].order \in Nat
    BY RulesType DEF Row
  <1> QED BY <1>1, RulesType, LastOfOrders DEF LastOrder

\* A request named by S is well typed whatever it asks for.
LEMMA ArriveType ==
    ASSUME Types, NEW r \in Requests, At(r, "idle"),
           MaxOps > 0 => ops < MaxOps,
           NEW op \in {"create", "update", "move", "copy", "remove", "moveItem", "transfer"},
           NEW label \in Labels, NEW S \in SUBSET DOMAIN rules,
           NEW d \in DOMAIN rules \cup {0}, NEW w \in {"above", "below"},
           Arrive(r, op, label, S, d, w), UNCHANGED kind
    PROVE  Types'
  <1>1. DOMAIN rules \subseteq Below(nextId)
    BY DEF Types, TablesBelow
  <1>2. ops' \in 0..MaxOps
    BY RuleOrderAssumption DEF Arrive, Types
  <1>3. Idle \in BOOLEAN
    BY DEF Idle
  <1>4. [NoRequest EXCEPT
           !.op = op, !.pc = label, !.ids = S, !.dest = d, !.where = w,
           !.alone = Idle, !.todo = IF op = "remove" THEN S ELSE {}]
          \in RequestBelow(nextId)
    <2>1. NoRequest \in RequestBelow(nextId)
      BY NoRequestType
    <2> QED BY ZenonT(60), <1>1, <1>3, <2>1 DEF RequestBelow
  <1>5. ASSUME NEW q \in Requests
        PROVE  [req[q] EXCEPT !.alone = FALSE] \in RequestBelow(nextId)
    <2>1. req[q] \in RequestBelow(nextId)
      BY DEF Types
    <2> QED BY <2>1 DEF RequestBelow
  <1>6. req' \in [Requests -> RequestBelow(nextId)]
    BY <1>4, <1>5 DEF Arrive, Types
  <1>7. req' \in [Requests -> (RequestBelow(nextId))']
    BY <1>6, SameKind DEF Arrive
  <1>8. rules' \in (TablesBelow(nextId))'
    BY SameKind DEF Arrive, Types
  <1> QED BY <1>2, <1>7, <1>8 DEF Arrive, Types

LEMMA ReceiveTypes ==
    ASSUME Types, NEW r \in Requests, Receive(r), UNCHANGED kind
    PROVE  Types'
  <1>1. CASE ReceiveCreate(r)
    BY <1>1, ArriveType DEF Receive, ReceiveCreate, Offsets, Labels
  <1>2. CASE ReceiveUpdate(r)
    BY <1>2, ArriveType DEF Receive, ReceiveUpdate, Labels
  <1>3. CASE ReceiveMove(r)
    BY <1>3, ArriveType DEF Receive, ReceiveMove, Selections, Destinations,
                            Offsets, Labels, StartOfMove
  <1>4. CASE ReceiveCopy(r)
    BY <1>4, ArriveType DEF Receive, ReceiveCopy, Selections, Offsets, Labels
  <1>5. CASE ReceiveRemove(r)
    BY <1>5, ArriveType DEF Receive, ReceiveRemove, Selections, Labels
  <1>6. CASE ReceiveMoveItem(r)
    BY <1>6, ArriveType DEF Receive, ReceiveMoveItem, Labels
  <1>7. CASE ReceiveTransfer(r)
    BY <1>7, ArriveType DEF Receive, ReceiveTransfer, Labels
  <1> QED BY <1>1, <1>2, <1>3, <1>4, <1>5, <1>6, <1>7 DEF Receive

\* What a step of one request may do to the types.
KeepsTypes(r) ==
    /\ nextId' \in Nat /\ nextId <= nextId'
    /\ rules' \in TablesBelow(nextId')
    /\ UNCHANGED ops
    /\ unsettled' \in BOOLEAN /\ (unsettled' => kind # "route")
    /\ \E x \in RequestBelow(nextId') : req' = [req EXCEPT ![r] = x]

LEMMA KeepsTypesIsEnough ==
    ASSUME Types, NEW r \in Requests, KeepsTypes(r), UNCHANGED kind
    PROVE  Types'
  <1>1. RequestBelow(nextId) \subseteq RequestBelow(nextId')
    BY RequestsGrow DEF Types, KeepsTypes
  <1>2. (TablesBelow(nextId))' = TablesBelow(nextId') /\ (RequestBelow(nextId))' = RequestBelow(nextId')
    BY SameKind
  <1> QED BY <1>1, <1>2 DEF Types, KeepsTypes

\* Steps that only write into the request.
LEMMA QuietKeepsTypes ==
    ASSUME Types, NEW r \in Requests, UNCHANGED <<rules, nextId, ops, unsettled>>,
           NEW x \in RequestBelow(nextId), req' = [req EXCEPT ![r] = x]
    PROVE  KeepsTypes(r)
  <1>1. nextId' \in Nat /\ nextId <= nextId' /\ rules' \in TablesBelow(nextId')
    BY DEF Types
  <1>2. \E y \in RequestBelow(nextId') : req' = [req EXCEPT ![r] = y]
    OBVIOUS
  <1> QED BY <1>1, <1>2 DEF KeepsTypes, Types

LEMMA AnswerKeepsTypes ==
    ASSUME Types, NEW r \in Requests, UNCHANGED <<rules, nextId, ops, unsettled>>, Answer(r)
    PROVE  KeepsTypes(r)
  BY NoRequestType, QuietKeepsTypes DEF Answer

LEMMA GotoKeepsTypes ==
    ASSUME Types, NEW r \in Requests, UNCHANGED <<rules, nextId, ops, unsettled>>,
           NEW l \in Labels, Goto(r, l)
    PROVE  KeepsTypes(r)
  <1>1. [req[r] EXCEPT !.pc = l] \in RequestBelow(nextId)
    BY ZenonT(60) DEF Types, RequestBelow
  <1>2. req' = [req EXCEPT ![r] = [req[r] EXCEPT !.pc = l]]
    BY DEF Goto
  <1> QED BY <1>1, <1>2, QuietKeepsTypes

LEMMA AbortKeepsTypes ==
    ASSUME Types, NEW r \in Requests, UNCHANGED <<nextId, ops, unsettled>>, Abort(r)
    PROVE  KeepsTypes(r)
  <1>1. CASE Answer(r)
    BY <1>1, AnswerKeepsTypes DEF Abort
  <1>2. CASE req' = [req EXCEPT ![r].pc = "next", ![r].todo = req[r].ids]
    <2> DEFINE x == [req[r] EXCEPT !.pc = "next", !.todo = req[r].ids]
    <2>1. req[r] \in RequestBelow(nextId)
      BY DEF Types
    <2>2. x \in RequestBelow(nextId)
      BY <2>1 DEF RequestBelow, Labels
    <2>3. req' = [req EXCEPT ![r] = x]
      BY <1>2
    <2> QED BY <2>2, <2>3, QuietKeepsTypes DEF Abort
  <1> QED BY <1>1, <1>2 DEF Abort

\* The row a request inserts.
LEMMA InsertTypes ==
    ASSUME Types, NEW r \in Requests, InsertLast(r)
    PROVE  /\ nextId' \in Nat /\ nextId <= nextId' /\ nextId \in Below(nextId')
           /\ rules' \in TablesBelow(nextId')
           /\ Restrict(rules', {nextId}) \in TablesBelow(nextId')
           /\ UNCHANGED <<ops, unsettled>>
  <1>1. PICK D \in SUBSET Below(nextId) : rules \in [D -> Row]
    BY DEF Types, TablesBelow
  <1>2. nextId' = nextId + 1 /\ nextId \in Nat \ {0}
    BY DEF InsertLast, Types
  <1>3. req[r].first \in Nat
    BY DEF Types, RequestBelow
  <1>4. [order |-> req[r].first + 1, group |-> NoGroup] \in Row
    BY <1>3 DEF Row
  <1>5. D \cup {nextId} \in SUBSET Below(nextId')
    BY <1>1, <1>2 DEF Below
  <1>6. rules' \in [D \cup {nextId} -> Row]
    BY <1>1, <1>4 DEF InsertLast, Added
  <1>7. Restrict(rules', {nextId}) \in [{nextId} -> Row]
    BY <1>6 DEF Restrict
  <1>8. nextId' \in Nat /\ nextId <= nextId' /\ nextId \in Below(nextId')
    BY <1>2 DEF Below
  <1>9. rules' \in TablesBelow(nextId')
    BY <1>5, <1>6 DEF TablesBelow
  <1>10. Restrict(rules', {nextId}) \in TablesBelow(nextId')
    BY <1>5, <1>7 DEF TablesBelow
  <1> QED BY <1>8, <1>9, <1>10 DEF InsertLast

LEMMA CreationTypes ==
    ASSUME Types, NEW r \in Requests,
           \/ CreateLast(r) \/ CreateInsert(r) \/ StoreInsert(r) \/ StoreVirtualIps(r)
    PROVE  KeepsTypes(r)
  <1>1. req[r] \in RequestBelow(nextId)
    BY DEF Types
  <1>2. CASE CreateLast(r)
    <2> DEFINE x == [req[r] EXCEPT !.pc = "insert", !.first = LastOrder]
    <2>1. LastOrder \in Nat
      BY LastOrderType
    <2>2. x \in RequestBelow(nextId)
      BY <1>1, <2>1 DEF RequestBelow, Labels
    <2>3. req' = [req EXCEPT ![r] = x]
      BY <1>2 DEF CreateLast
    <2> QED BY <1>2, <2>2, <2>3, QuietKeepsTypes DEF CreateLast, Step
  <1>3. CASE InsertLast(r)
    <2> DEFINE new == [req[r] EXCEPT !.ids = {nextId}]
               plain == [new EXCEPT !.pc = "preload"]
               stored == [new EXCEPT !.pc = "updated"]
               twice == [new EXCEPT !.pc = "reload", !.then = "updated",
                                    !.ents = Restrict(rules', {nextId})]
    <2>1. req[r] \in RequestBelow(nextId')
      BY <1>1, <1>3, InsertTypes, RequestsGrow DEF Types
    <2>2. new \in RequestBelow(nextId')
      BY <1>3, <2>1, InsertTypes DEF RequestBelow
    <2>3. plain \in RequestBelow(nextId') /\ stored \in RequestBelow(nextId')
      BY <2>2 DEF RequestBelow, Labels
    <2>4. twice \in RequestBelow(nextId')
      <3> DEFINE one == Restrict(rules', {nextId})
      <3>1. one \in TablesBelow(nextId')
        BY <1>3, InsertTypes
      <3> HIDE DEF new, one
      <3>2. [new EXCEPT !.ents = one] \in RequestBelow(nextId')
        BY <2>2, <3>1 DEF RequestBelow
      <3>3. "reload" \in Labels /\ "updated" \in Returns
        BY DEF Labels, Returns
      <3>4. [[new EXCEPT !.ents = one] EXCEPT !.pc = "reload", !.then = "updated"]
              \in RequestBelow(nextId')
        BY <3>2, <3>3, Relabel
      <3> QED BY <3>4 DEF one
    <2>5. CreateInsert(r) => req' = [req EXCEPT ![r] = plain]
      BY DEF CreateInsert
    <2>6. StoreInsert(r) => req' = [req EXCEPT ![r] = stored]
      BY DEF StoreInsert
    <2>7. StoreVirtualIps(r) => req' = [req EXCEPT ![r] = twice]
      BY DEF StoreVirtualIps
    <2>8. \E x \in RequestBelow(nextId') : req' = [req EXCEPT ![r] = x]
      <3> HIDE DEF plain, stored, twice
      <3>1. ~CreateLast(r)
        BY <1>3 DEF CreateLast, Step, InsertLast, At
      <3> QED BY <2>3, <2>4, <2>5, <2>6, <2>7, <3>1
    <2> QED BY <1>3, <2>8, InsertTypes DEF KeepsTypes, Types
  <1> QED BY <1>2, <1>3 DEF CreateInsert, StoreInsert, StoreVirtualIps
LEMMA LabelsAre ==
    /\ "idle" \in Labels /\ "last" \in Labels /\ "insert" \in Labels
    /\ "find" \in Labels /\ "copyLast" \in Labels /\ "copyInsert" \in Labels
    /\ "preload" \in Labels /\ "validate" \in Labels /\ "reload" \in Labels
    /\ "write" \in Labels /\ "reorder" \in Labels /\ "updated" \in Labels
    /\ "pick" \in Labels /\ "affected" \in Labels /\ "dest" \in Labels
    /\ "refreshIds" \in Labels /\ "refresh" \in Labels /\ "next" \in Labels
    /\ "affectedTables" \in Labels /\ "delete" \in Labels /\ "from" \in Labels
    /\ "to" \in Labels /\ "look" \in Labels /\ StartOfMove \in Labels
    /\ Returns \subseteq Labels
    /\ "reorder" \in Returns /\ "updated" \in Returns /\ "refreshIds" \in Returns
    /\ "affectedTables" \in Returns /\ "next" \in Returns
  BY DEF Labels, Returns, StartOfMove

LEMMA UpdateTypes ==
    ASSUME Types, NEW r \in Requests,
           \/ Preload(r) \/ Validate(r) \/ ValidateObjects(r) \/ Reorder(r)
           \/ Updated(r) \/ Reload(r)
    PROVE  KeepsTypes(r)
  <1>1. req[r] \in RequestBelow(nextId)
    BY DEF Types
  <1>2. CASE UNCHANGED <<nextId, ops, unsettled>> /\ Abort(r)
    BY <1>2, AbortKeepsTypes
  <1>3. CASE UNCHANGED <<rules, nextId, ops, unsettled>> /\ Answer(r)
    BY <1>3, AnswerKeepsTypes
  <1>4. ASSUME UNCHANGED <<rules, nextId, ops, unsettled>>, req[r].ids \subseteq DOMAIN rules,
               NEW l \in {"validate", "reload"}, NEW t \in Returns,
               req' = [req EXCEPT ![r].pc = l, ![r].then = t,
                                  ![r].ents = Load(req[r].ids)]
        PROVE  KeepsTypes(r)
    <2> DEFINE rows == Load(req[r].ids)
               x == [req[r] EXCEPT !.pc = l, !.then = t, !.ents = rows]
    <2>1. rows \in TablesBelow(nextId)
      BY <1>4, LoadType
    <2>2. l \in Labels
      BY <1>4, LabelsAre
    <2>3. req' = [req EXCEPT ![r] = x]
      BY <1>4
    <2>4. x \in RequestBelow(nextId)
      <3> HIDE DEF rows
      <3> QED BY <1>1, <2>1, <2>2 DEF RequestBelow
    <2> QED BY <1>4, <2>3, <2>4, QuietKeepsTypes
  <1>5. CASE Preload(r)
    <2>1. CASE /\ req[r].ids \subseteq DOMAIN rules
               /\ req' = [req EXCEPT ![r].pc = "validate", ![r].ents = Load(req[r].ids)]
               /\ UNCHANGED rules
      <3>1. req[r].then \in Returns
        BY <1>1 DEF RequestBelow
      <3>2. req' = [req EXCEPT ![r].pc = "validate", ![r].then = req[r].then,
                               ![r].ents = Load(req[r].ids)]
        BY <1>1, <2>1 DEF RequestBelow
      <3> QED BY <1>4, <1>5, <2>1, <3>1, <3>2 DEF Preload, Step
    <2> QED BY <1>2, <1>5, <2>1 DEF Preload, Step
  <1>6. ASSUME UNCHANGED <<rules, nextId, ops, unsettled>>, NEW t \in {"reorder", "updated"},
               req' = [req EXCEPT ![r].pc = "reload", ![r].then = t]
        PROVE  KeepsTypes(r)
    <2> DEFINE x == [req[r] EXCEPT !.pc = "reload", !.then = t]
    <2>1. x \in RequestBelow(nextId)
      BY <1>1, <1>6, LabelsAre, Relabel
    <2>2. req' = [req EXCEPT ![r] = x]
      BY <1>6
    <2> QED BY <1>6, <2>1, <2>2, QuietKeepsTypes
  <1>7. CASE Validate(r)
    BY <1>2, <1>6, <1>7 DEF Validate, Step
  <1>8. CASE ValidateObjects(r)
    BY <1>3, <1>6, <1>8 DEF ValidateObjects, Step
  <1>9. CASE Reorder(r)
    BY <1>2, <1>4, <1>9, LabelsAre DEF Reorder, Step
  <1>10. CASE Updated(r)
    BY <1>3, <1>10, LabelsAre, GotoKeepsTypes DEF Updated, Step
  <1>11. CASE Reload(r)
    <2> DEFINE rows == Load(DOMAIN req[r].ents \cap DOMAIN rules)
               x == [req[r] EXCEPT !.pc = "write", !.base = rows]
    <2>1. rows \in TablesBelow(nextId)
      BY LoadType
    <2>2. x \in RequestBelow(nextId)
      <3> HIDE DEF rows
      <3> QED BY <1>1, <2>1, LabelsAre DEF RequestBelow
    <2>3. req' = [req EXCEPT ![r] = x]
      BY <1>11 DEF Reload
    <2> QED BY <1>11, <2>2, <2>3, QuietKeepsTypes DEF Reload, Step
  <1> QED BY <1>5, <1>7, <1>8, <1>9, <1>10, <1>11

\* What a save leaves in the table.
LEMMA WrittenType ==
    ASSUME Types, NEW r \in Requests, NEW i \in DOMAIN req[r].ents,
           i \in DOMAIN rules \/ i \in Inserted(r)
    PROVE  Written(r, i) \in Row
  <1>1. req[r].ents[i] \in Row
    BY DEF Types, RequestBelow, TablesBelow
  <1>2. CASE i \in Inserted(r)
    BY <1>1, <1>2 DEF Written
  <1>3. CASE i \notin Inserted(r)
    <2>1. rules[i] \in Row
      BY <1>3, RulesType
    <2> QED BY <1>1, <1>3, <2>1 DEF Written, Row
  <1> QED BY <1>2, <1>3

LEMMA WriteTypes ==
    ASSUME Types, NEW r \in Requests, Write(r)
    PROVE  KeepsTypes(r)
  <1>1. req[r] \in RequestBelow(nextId)
    BY DEF Types
  <1>2. CASE Inserted(r) \cap DOMAIN rules = {}
    <2> DEFINE S == DOMAIN rules \cup Inserted(r)
               l == IF req[r].later = NoRows THEN req[r].then ELSE "reload"
               x == [req[r] EXCEPT !.pc = l, !.base = NoRows,
                                   !.ents = req[r].later, !.later = NoRows]
    <2>1. rules' = [i \in S |-> IF i \in DOMAIN req[r].ents THEN Written(r, i)
                                                           ELSE rules[i]]
      BY <1>2 DEF Write
    <2>2. S \in SUBSET Below(nextId)
      BY <1>1, RulesType DEF Inserted, RequestBelow, TablesBelow
    <2>3. rules' \in [S -> Row]
      BY <2>1, RulesType, WrittenType DEF Inserted
    <2>4. rules' \in TablesBelow(nextId)
      <3> HIDE DEF S
      <3> QED BY <2>2, <2>3 DEF TablesBelow
    <2>5. req[r].later \in TablesBelow(nextId) /\ l \in Labels
      BY <1>1, LabelsAre DEF RequestBelow
    <2>6. x \in RequestBelow(nextId)
      <3> HIDE DEF l
      <3> QED BY <1>1, <2>5, NoRowsIsTable DEF RequestBelow
    <2>7. req' = [req EXCEPT ![r] = x]
      BY <1>2 DEF Write
    <2>8. \E y \in RequestBelow(nextId') : req' = [req EXCEPT ![r] = y]
      <3> HIDE DEF x
      <3> QED BY <2>6, <2>7 DEF Write, Step
    <2>9. /\ nextId' \in Nat /\ nextId <= nextId' /\ UNCHANGED <<ops, unsettled>>
          /\ rules' \in TablesBelow(nextId')
      BY <2>4 DEF Write, Step, Types
    <2> QED BY <2>8, <2>9 DEF KeepsTypes, Types
  <1>3. CASE Inserted(r) \cap DOMAIN rules # {}
    BY <1>3, AbortKeepsTypes, AnswerKeepsTypes DEF Write, Step, Fail
  <1> QED BY <1>2, <1>3
\* A listing of rules that are there.
LEMMA ListingType ==
    ASSUME Types, NEW S \in SUBSET DOMAIN rules, NEW p \in Listings(rules, S)
    PROVE  /\ IsFiniteSet(S) /\ Cardinality(S) \in Nat
           /\ p \in Seq(Below(nextId)) /\ Len(p) = Cardinality(S)
           /\ DOMAIN p = 1..Cardinality(S)
           /\ \A k \in 1..Cardinality(S) : p[k] \in S
  <1>1. IsFiniteSet(S)
    BY RulesType, FS_Subset
  <1>2. Cardinality(S) \in Nat
    BY <1>1, FS_CardinalityType
  <1>3. p \in [1..Cardinality(S) -> S]
    BY DEF Listings
  <1>4. S \subseteq Below(nextId)
    BY RulesType
  <1> QED BY <1>1, <1>2, <1>3, <1>4

\* The rules as a move leaves them in memory.
LEMMA MovedType ==
    ASSUME NEW n, NEW ents \in TablesBelow(n), NEW sel \in Seq(Below(n)),
           NEW first \in Nat, NEW dest \in Row, NEW where \in {"above", "below"}
    PROVE  Moved(ents, sel, first, dest, where) \in TablesBelow(n)
  <1>1. PICK D \in SUBSET Below(n) : ents \in [D -> Row]
    BY DEF TablesBelow
  <1>2. \A i \in Members(sel) : Landing(sel, i, dest.order, where) \in Nat \ {0}
    <2> TAKE i \in Members(sel)
    <2>1. PositionIn(sel, i) \in DOMAIN sel
      BY DEF Members, PositionIn
    <2>2. PositionIn(sel, i) \in Nat /\ PositionIn(sel, i) >= 1
      BY <2>1
    <2>3. dest.order \in Nat /\ dest.order >= 1
      BY DEF Row
    <2> QED BY <2>2, <2>3 DEF Landing
  <1>3. \A k \in Nat \ {0} :
          Shifted(k, Len(sel), first, dest.order, where) \in Nat \ {0}
    <2>1. Len(sel) \in Nat
      OBVIOUS
    <2> QED BY <2>1 DEF Shifted
  <1>4. MoveRoutes(ents, sel, first, dest, where) \in [D -> Row]
    <2> SUFFICES ASSUME NEW i \in D
                 PROVE  MoveRoutes(ents, sel, first, dest, where)[i] \in Row
      BY <1>1 DEF MoveRoutes
    <2>1. ents[i] \in Row
      BY <1>1
    <2> QED BY <1>1, <1>2, <1>3, <2>1 DEF MoveRoutes, Row
  <1>5. MoveRoutingRules(ents, sel, first, dest, where) \in [D -> Row]
    <2> SUFFICES ASSUME NEW i \in D
                 PROVE  MoveRoutingRules(ents, sel, first, dest, where)[i] \in Row
      BY <1>1 DEF MoveRoutingRules
    <2>1. ents[i] \in Row
      BY <1>1
    <2> QED BY <1>1, <1>2, <1>3, <2>1 DEF MoveRoutingRules, Row
  <1> QED BY <1>4, <1>5 DEF Moved, TablesBelow

LEMMA MoveTypes ==
    ASSUME Types, NEW r \in Requests,
           LookAtDest(r) \/ Pick(r) \/ Affected(r) \/ Dest(r)
    PROVE  KeepsTypes(r)
  <1>1. req[r] \in RequestBelow(nextId)
    BY DEF Types
  <1>2. UNCHANGED <<rules, nextId, ops, unsettled>>
    BY DEF LookAtDest, Pick, Affected, Dest, Step
  <1>3. CASE Answer(r)
    BY <1>2, <1>3, AnswerKeepsTypes
  <1>4. CASE LookAtDest(r)
    BY <1>2, <1>3, <1>4, LabelsAre, GotoKeepsTypes DEF LookAtDest
  <1>5. CASE Pick(r)
    <2> DEFINE S == req[r].ids \cap DOMAIN rules
    <2>1. ASSUME S # {}, NEW p \in Listings(rules, S),
                 req' = [req EXCEPT ![r].pc = "affected", ![r].sel = p,
                                    ![r].first = rules[p[1]].order]
          PROVE  KeepsTypes(r)
      <3> DEFINE x == [req[r] EXCEPT !.pc = "affected", !.sel = p,
                                     !.first = rules[p[1]].order]
      <3>1. p \in Seq(Below(nextId)) /\ p[1] \in S
        <4>1. Cardinality(S) # 0
          BY <2>1, RulesType, FS_Subset, FS_EmptySet
        <4> QED BY <4>1, ListingType
      <3>2. rules[p[1]].order \in Nat
        BY <3>1, RulesType DEF Row
      <3>3. x \in RequestBelow(nextId)
        BY <1>1, <3>1, <3>2, LabelsAre DEF RequestBelow
      <3>4. req' = [req EXCEPT ![r] = x]
        BY <2>1
      <3> QED BY <1>2, <3>3, <3>4, QuietKeepsTypes
    <2> QED BY <1>3, <1>5, <2>1 DEF Pick
  <1>6. CASE Affected(r)
    <2> DEFINE x == [req[r] EXCEPT !.pc = "dest", !.ents = rules]
    <2>1. x \in RequestBelow(nextId)
      <3>1. rules \in TablesBelow(nextId)
        BY DEF Types
      <3> QED BY <1>1, <3>1, LabelsAre DEF RequestBelow
    <2>2. req' = [req EXCEPT ![r] = x]
      BY <1>6 DEF Affected
    <2> QED BY <1>2, <2>1, <2>2, QuietKeepsTypes
  <1>7. CASE Dest(r)
    <2> DEFINE new == Moved(req[r].ents, req[r].sel, req[r].first,
                            rules[req[r].dest], req[r].where)
               x == [req[r] EXCEPT !.pc = "reload", !.then = "refreshIds",
                                   !.ents = new]
    <2>1. CASE req[r].dest \in DOMAIN rules
      <3>1. rules[req[r].dest] \in Row
        BY <2>1, RulesType
      <3>2. new \in TablesBelow(nextId)
        BY <1>1, <3>1, MovedType DEF RequestBelow
      <3>3. x \in RequestBelow(nextId)
        <4> HIDE DEF new
        <4> QED BY <1>1, <3>2, LabelsAre DEF RequestBelow
      <3>4. req' = [req EXCEPT ![r] = x]
        BY <1>7, <2>1 DEF Dest
      <3> QED BY <1>2, <3>3, <3>4, QuietKeepsTypes
    <2> QED BY <1>3, <1>7, <2>1 DEF Dest
  <1> QED BY <1>4, <1>5, <1>6, <1>7

LEMMA RefreshTypes ==
    ASSUME Types, NEW r \in Requests, RefreshIds(r) \/ Refresh(r)
    PROVE  KeepsTypes(r)
  <1>1. req[r] \in RequestBelow(nextId)
    BY DEF Types
  <1>2. CASE RefreshIds(r)
    <2> DEFINE l == IF DOMAIN rules = {} THEN "next" ELSE "refresh"
               x == [req[r] EXCEPT !.pc = l, !.ids = DOMAIN rules]
    <2>1. x \in RequestBelow(nextId)
      <3>1. l \in Labels
        BY LabelsAre
      <3> HIDE DEF l
      <3> QED BY <1>1, <3>1, RulesType DEF RequestBelow
    <2>2. req' = [req EXCEPT ![r] = x]
      BY <1>2 DEF RefreshIds
    <2> QED BY <1>2, <2>1, <2>2, QuietKeepsTypes DEF RefreshIds, Step
  <1>3. CASE Refresh(r)
    <2> DEFINE S == req[r].ids \cap DOMAIN rules
               x == [req[r] EXCEPT !.pc = "next"]
    <2>1. PICK p \in Listings(rules, S) : rules' = Renumber(rules, p)
      BY <1>3 DEF Refresh
    <2>2. \A i \in Members(p) : PositionIn(p, i) \in Nat \ {0}
      <3>1. DOMAIN p = 1..Cardinality(S) /\ Cardinality(S) \in Nat
        BY ListingType
      <3> TAKE i \in Members(p)
      <3>2. PositionIn(p, i) \in DOMAIN p
        BY DEF Members, PositionIn
      <3> QED BY <3>1, <3>2
    <2>3. rules' \in [DOMAIN rules -> Row]
      <3> SUFFICES ASSUME NEW i \in DOMAIN rules PROVE rules'[i] \in Row
        BY <2>1 DEF Renumber
      <3>1. rules[i] \in Row
        BY RulesType
      <3> QED BY <2>1, <2>2, <3>1 DEF Renumber, Row
    <2>4. rules' \in TablesBelow(nextId)
      BY <2>3, RulesType DEF TablesBelow
    <2>5. x \in RequestBelow(nextId)
      BY <1>1, LabelsAre DEF RequestBelow
    <2>6. \E y \in RequestBelow(nextId') : req' = [req EXCEPT ![r] = y]
      <3>1. req' = [req EXCEPT ![r] = x]
        BY <1>3 DEF Refresh, Goto
      <3> QED BY <1>3, <2>5, <3>1 DEF Refresh, Step
    <2>7. /\ nextId' \in Nat /\ nextId <= nextId' /\ UNCHANGED ops
          /\ rules' \in TablesBelow(nextId')
      BY <1>3, <2>4 DEF Refresh, Types
    <2>8. unsettled' \in BOOLEAN /\ (unsettled' => kind # "route")
      <3>1. unsettled' = (unsettled /\ ~(DOMAIN rules \subseteq req[r].ids))
        BY <1>3 DEF Refresh
      <3> QED BY <3>1, Zenon DEF Types
    <2> QED BY <2>6, <2>7, <2>8 DEF KeepsTypes
  <1> QED BY <1>2, <1>3
LEMMA AddedType ==
    ASSUME NEW n, NEW t \in TablesBelow(n), NEW m \in TablesBelow(n)
    PROVE  Added(t, m) \in TablesBelow(n)
  <1>1. PICK D \in SUBSET Below(n) : t \in [D -> Row]
    BY DEF TablesBelow
  <1>2. PICK E \in SUBSET Below(n) : m \in [E -> Row]
    BY DEF TablesBelow
  <1>3. Added(t, m) \in [D \cup E -> Row]
    BY <1>1, <1>2 DEF Added
  <1>4. D \cup E \in SUBSET Below(n)
    BY <1>1, <1>2
  <1> QED BY <1>3, <1>4 DEF TablesBelow

LEMMA CopyTypes ==
    ASSUME Types, NEW r \in Requests,
           CopyFind(r) \/ CopyLast(r) \/ CopyInsert(r)
    PROVE  KeepsTypes(r)
  <1>1. req[r] \in RequestBelow(nextId)
    BY DEF Types
  <1>2. CASE CopyFind(r)
    <2> DEFINE rows == Load(req[r].ids \cap DOMAIN rules)
               x == [req[r] EXCEPT !.pc = "copyLast", !.ents = rows]
    <2>1. rows \in TablesBelow(nextId)
      BY LoadType
    <2>2. x \in RequestBelow(nextId)
      <3> HIDE DEF rows
      <3> QED BY <1>1, <2>1, LabelsAre DEF RequestBelow
    <2>3. req' = [req EXCEPT ![r] = x]
      BY <1>2 DEF CopyFind
    <2> QED BY <1>2, <2>2, <2>3, QuietKeepsTypes DEF CopyFind, Step
  <1>3. CASE CopyLast(r)
    <2> DEFINE x == [req[r] EXCEPT !.pc = "copyInsert", !.first = LastOrder]
    <2>1. x \in RequestBelow(nextId)
      BY <1>1, LastOrderType, LabelsAre DEF RequestBelow
    <2> QED BY <1>3, <2>1, QuietKeepsTypes, AnswerKeepsTypes DEF CopyLast, Step
  <1>4. CASE CopyInsert(r)
    <2>1. PICK p \in SetToSeqs(DOMAIN req[r].ents) :
            LET new == nextId..(nextId + Len(p) - 1)
                nth(i) == i - nextId + 1
            IN /\ rules' = Added(rules, [i \in new |->
                              [order |-> req[r].first + nth(i),
                               group |-> req[r].ents[p[nth(i)]].group]])
               /\ nextId' = nextId + Len(p)
               /\ req' = [req EXCEPT ![r].pc = StartOfMove, ![r].ids = new,
                                     ![r].ents = NoRows]
      BY <1>4 DEF CopyInsert
    <2> DEFINE O == DOMAIN req[r].ents
               n == Cardinality(O)
               new == nextId..(nextId + Len(p) - 1)
               more == [i \in new |->
                         [order |-> req[r].first + (i - nextId + 1),
                          group |-> req[r].ents[p[i - nextId + 1]].group]]
               x == [req[r] EXCEPT !.pc = StartOfMove, !.ids = new, !.ents = NoRows]
    <2>2. /\ IsFiniteSet(O) /\ n \in Nat /\ p \in [1..n -> O] /\ Len(p) = n
          /\ req[r].ents \in [O -> Row]
      <3>1. O \in SUBSET Below(nextId) /\ req[r].ents \in [O -> Row]
        BY <1>1 DEF RequestBelow, TablesBelow
      <3>2. IsFiniteSet(Below(nextId))
        BY FS_Interval DEF Types, Below
      <3>3. IsFiniteSet(O) /\ n \in Nat
        BY <3>1, <3>2, FS_Subset, FS_CardinalityType
      <3>4. p \in [1..n -> O]
        BY DEF SetToSeqs
      <3> QED BY <3>1, <3>3, <3>4
    <2>3. nextId \in Nat \ {0} /\ nextId' = nextId + n /\ nextId' \in Nat
      BY <2>1, <2>2 DEF Types
    <2>4. nextId <= nextId' /\ new \in SUBSET Below(nextId')
      BY <2>2, <2>3 DEF Below
    <2>5. more \in [new -> Row]
      <3> SUFFICES ASSUME NEW i \in new
                   PROVE  [order |-> req[r].first + (i - nextId + 1),
                           group |-> req[r].ents[p[i - nextId + 1]].group] \in Row
        OBVIOUS
      <3>1. i - nextId + 1 \in 1..n
        BY <2>2, <2>3
      <3>2. req[r].ents[p[i - nextId + 1]] \in Row
        BY <2>2, <3>1
      <3>3. req[r].first \in Nat
        BY <1>1 DEF RequestBelow
      <3>4. req[r].first + (i - nextId + 1) \in Nat \ {0}
        BY <3>1, <3>3
      <3> QED BY <3>2, <3>4 DEF Row
    <2>6. rules' \in TablesBelow(nextId')
      <3>1. more \in TablesBelow(nextId')
        <4> HIDE DEF new, more
        <4> QED BY <2>4, <2>5 DEF TablesBelow
      <3>2. rules \in TablesBelow(nextId')
        BY <2>3, <2>4, TablesGrow DEF Types
      <3>3. rules' = Added(rules, more)
        BY <2>1
      <3> HIDE DEF more
      <3> QED BY <3>1, <3>2, <3>3, AddedType
    <2>7. x \in RequestBelow(nextId')
      <3>1. req[r] \in RequestBelow(nextId')
        BY <1>1, <2>3, <2>4, RequestsGrow DEF Types
      <3> HIDE DEF new
      <3> QED BY <2>4, <3>1, LabelsAre, NoRowsIsTable DEF RequestBelow
    <2>8. \E y \in RequestBelow(nextId') : req' = [req EXCEPT ![r] = y]
      <3>1. req' = [req EXCEPT ![r] = x]
        BY <2>1
      <3> HIDE DEF x
      <3> QED BY <2>7, <3>1
    <2> HIDE DEF O, n, new, more, x
    <2> QED BY <1>4, <2>3, <2>4, <2>6, <2>8 DEF CopyInsert, KeepsTypes, Types
  <1> QED BY <1>2, <1>3, <1>4

LEMMA RemoveTypes ==
    ASSUME Types, NEW r \in Requests,
           RemoveNext(r) \/ AffectedTables(r) \/ Delete(r)
    PROVE  KeepsTypes(r)
  <1>1. req[r] \in RequestBelow(nextId)
    BY DEF Types
  <1>2. CASE RemoveNext(r)
    <2>1. CASE Answer(r)
      BY <1>2, <2>1, AnswerKeepsTypes DEF RemoveNext, Step
    <2>2. ASSUME NEW i \in req[r].todo, i \in DOMAIN rules,
                 req' = [req EXCEPT ![r].pc = "reload",
                                    ![r].then = "affectedTables",
                                    ![r].ids = {i},
                                    ![r].todo = req[r].todo \ {i},
                                    ![r].ents = Load({i})]
          PROVE  KeepsTypes(r)
      <3> DEFINE rows == Load({i})
                 x == [req[r] EXCEPT !.pc = "reload", !.then = "affectedTables",
                                     !.ids = {i}, !.todo = req[r].todo \ {i},
                                     !.ents = rows]
      <3>1. rows \in TablesBelow(nextId)
        BY <2>2, LoadType
      <3>2. {i} \in SUBSET Below(nextId)
        BY <2>2, RulesType
      <3>3. x \in RequestBelow(nextId)
        <4>1. req[r].todo \ {i} \in SUBSET Below(nextId)
          BY <1>1 DEF RequestBelow
        <4> HIDE DEF rows
        <4> QED BY <1>1, <3>1, <3>2, <4>1, LabelsAre DEF RequestBelow
      <3>4. req' = [req EXCEPT ![r] = x]
        BY <2>2
      <3> QED BY <1>2, <3>3, <3>4, QuietKeepsTypes DEF RemoveNext, Step
    <2> QED BY <1>2, <2>1, <2>2 DEF RemoveNext
  <1>3. CASE AffectedTables(r)
    <2> DEFINE rows == Load(req[r].ids \cap DOMAIN rules)
               x == [req[r] EXCEPT !.pc = "delete", !.base = rows]
    <2>1. rows \in TablesBelow(nextId)
      BY LoadType
    <2>2. x \in RequestBelow(nextId)
      <3> HIDE DEF rows
      <3> QED BY <1>1, <2>1, LabelsAre DEF RequestBelow
    <2>3. req' = [req EXCEPT ![r] = x]
      BY <1>3 DEF AffectedTables
    <2> QED BY <1>3, <2>2, <2>3, QuietKeepsTypes DEF AffectedTables, Step
  <1>4. CASE Delete(r)
    <2> DEFINE l == IF req[r].base = NoRows \/ LeavesGaps THEN "next"
                                                        ELSE "refreshIds"
               x == [req[r] EXCEPT !.pc = l, !.base = NoRows]
    <2>1. x \in RequestBelow(nextId)
      <3>1. l \in Labels
        BY LabelsAre
      <3> HIDE DEF l
      <3> QED BY <1>1, <3>1, NoRowsIsTable DEF RequestBelow
    <2>2. \E y \in RequestBelow(nextId') : req' = [req EXCEPT ![r] = y]
      <3>1. req' = [req EXCEPT ![r] = x]
        BY <1>4 DEF Delete
      <3> HIDE DEF x
      <3> QED BY <1>4, <2>1, <3>1 DEF Delete, Step
    <2>3. /\ nextId' \in Nat /\ nextId <= nextId' /\ UNCHANGED <<ops, unsettled>>
          /\ rules' \in TablesBelow(nextId')
      BY <1>4, LoadType DEF Delete, Step, Types
    <2> QED BY <2>2, <2>3 DEF KeepsTypes, Types
  <1> QED BY <1>2, <1>3, <1>4

LEMMA MoveItemTypes ==
    ASSUME Types, NEW r \in Requests, FromRule(r) \/ ToRule(r)
    PROVE  KeepsTypes(r)
  <1>1. req[r] \in RequestBelow(nextId)
    BY DEF Types
  <1>2. UNCHANGED <<rules, nextId, ops, unsettled>>
    BY DEF FromRule, ToRule, Step
  <1>3. CASE Answer(r)
    BY <1>2, <1>3, AnswerKeepsTypes
  <1>4. CASE /\ FromRule(r) /\ req[r].ids \subseteq DOMAIN rules
    <2> DEFINE rows == Load(req[r].ids)
               x == [req[r] EXCEPT !.pc = "to", !.ents = rows]
    <2>1. rows \in TablesBelow(nextId)
      BY <1>4, LoadType
    <2>2. x \in RequestBelow(nextId)
      <3> HIDE DEF rows
      <3> QED BY <1>1, <2>1, LabelsAre DEF RequestBelow
    <2>3. req' = [req EXCEPT ![r] = x]
      BY <1>4 DEF FromRule
    <2> QED BY <1>2, <2>2, <2>3, QuietKeepsTypes
  <1>5. CASE /\ ToRule(r) /\ req[r].dest \in DOMAIN rules
    <2> DEFINE to == Load({req[r].dest})
               ents == IF kind = "keepalived" THEN req[r].ents
                                              ELSE Added(req[r].ents, to)
               later == IF kind = "keepalived" THEN to ELSE NoRows
               x == [req[r] EXCEPT !.pc = "reload", !.then = "next",
                                   !.ents = ents, !.later = later]
    <2>1. to \in TablesBelow(nextId)
      BY <1>5, LoadType
    <2>2. ents \in TablesBelow(nextId) /\ later \in TablesBelow(nextId)
      <3>1. req[r].ents \in TablesBelow(nextId)
        BY <1>1 DEF RequestBelow
      <3> HIDE DEF to
      <3> QED BY <2>1, <3>1, AddedType, NoRowsIsTable
    <2>3. x \in RequestBelow(nextId)
      <3> HIDE DEF ents, later
      <3> QED BY <1>1, <2>2, LabelsAre DEF RequestBelow
    <2>4. req' = [req EXCEPT ![r] = x]
      BY <1>5 DEF ToRule
    <2> QED BY <1>2, <2>3, <2>4, QuietKeepsTypes
  <1> QED BY <1>3, <1>4, <1>5 DEF FromRule, ToRule

\* A rule that goes to another firewall, or comes from one.
LEMMA TransferTypes ==
    ASSUME Types, NEW r \in Requests, Leave(r) \/ MoveIn(r)
    PROVE  KeepsTypes(r)
  <1>1. \E x \in RequestBelow(nextId') : req' = [req EXCEPT ![r] = x]
    <2>1. NoRequest \in RequestBelow(nextId') /\ req' = [req EXCEPT ![r] = NoRequest]
      BY NoRequestType DEF Leave, MoveIn, Answer
    <2> QED BY <2>1
  <1>2. CASE Leave(r)
    <2>1. rules' \in TablesBelow(nextId)
      BY <1>2, LoadType DEF Leave
    <2>2. unsettled' \in BOOLEAN /\ kind # "route"
      <3>1. unsettled' = (unsettled \/ ~LeavesGaps) /\ kind # "route"
        BY <1>2 DEF Leave
      <3> QED BY <3>1, Zenon
    <2>3. nextId' = nextId /\ ops' = ops /\ nextId \in Nat
      BY <1>2 DEF Leave, Types
    <2>4. nextId' \in Nat /\ nextId <= nextId' /\ rules' \in TablesBelow(nextId')
      BY <2>1, <2>3
    <2> QED BY Zenon, <1>1, <2>2, <2>3, <2>4 DEF KeepsTypes
  <1>3. CASE MoveIn(r)
    <2>1. PICK D \in SUBSET Below(nextId) : rules \in [D -> Row]
      BY DEF Types, TablesBelow
    <2>2. PICK n \in 1..MaxId :
            rules' = Added(rules, [i \in {nextId} |-> [order |-> n, group |-> NoGroup]])
      BY <1>3 DEF MoveIn
    <2>3. [order |-> n, group |-> NoGroup] \in Row
      BY RuleOrderAssumption DEF Row
    <2>4. nextId' = nextId + 1 /\ nextId \in Nat \ {0}
      BY <1>3 DEF MoveIn, Types
    <2>5. D \cup {nextId} \in SUBSET Below(nextId')
      BY <2>1, <2>4 DEF Below
    <2>6. rules' \in [D \cup {nextId} -> Row]
      BY <2>1, <2>2, <2>3 DEF Added
    <2>7. rules' \in TablesBelow(nextId')
      BY <2>5, <2>6 DEF TablesBelow
    <2>8. unsettled' \in BOOLEAN /\ kind # "route"
      BY <1>3 DEF MoveIn
    <2>9. UNCHANGED ops
      BY <1>3 DEF MoveIn
    <2>10. nextId' \in Nat /\ nextId <= nextId'
      BY <2>4
    <2> QED BY Zenon, <1>1, <2>7, <2>8, <2>9, <2>10 DEF KeepsTypes
  <1> QED BY <1>2, <1>3

LEMMA ServeTypes ==
    ASSUME Types, NEW r \in Requests, Serve(r)
    PROVE  KeepsTypes(r)
  BY CreationTypes, UpdateTypes, WriteTypes, MoveTypes, RefreshTypes, CopyTypes,
     RemoveTypes, MoveItemTypes, TransferTypes DEF Serve

LEMMA TypesStep ==
    ASSUME Types, [Next]_vars
    PROVE  Types'
  <1>1. CASE Next
    BY <1>1, ReceiveTypes, ServeTypes, KeepsTypesIsEnough DEF Next
  <1>2. CASE UNCHANGED vars
    <2>1. UNCHANGED <<kind, rules, nextId, ops, req, unsettled>>
      BY <1>2 DEF vars
    <2>2. (TablesBelow(nextId))' = TablesBelow(nextId') /\ (RequestBelow(nextId))' = RequestBelow(nextId')
      BY <2>1, SameKind
    <2> QED BY <2>1, <2>2 DEF Types
  <1> QED BY <1>1, <1>2

\* What the requests read and keep in memory, and the rows of the table, are of
\* the kinds that the code expects, with orders counted from 1 and ids that
\* were given to a rule; so no request ever writes order 0 or a foreign id.
THEOREM TypeCorrect == Spec => []TypeOK
  <1>1. Init => Types
    BY TypesAtInit
  <1>2. Types /\ [Next]_vars => Types'
    BY TypesStep
  <1>3. Types => TypeOK
    BY TypesMeanTypeOK
  <1> QED BY <1>1, <1>2, <1>3, PTL DEF Spec
(***************************************************************************)
(* Requests that nothing overlaps.                                         *)
(***************************************************************************)
\* A request that nothing has overlapped is the only one being served.
Solitude ==
    \A r, q \in Requests : req[r].alone /\ ~At(r, "idle") /\ q # r => At(q, "idle")

\* The ids that its refresh has read are still those of the table.
RefreshesAll ==
    \A r \in Requests : req[r].alone /\ At(r, "refresh") => req[r].ids = DOMAIN rules

AloneInv == Types /\ Solitude /\ RefreshesAll

\* What a request keeps of itself until it is answered.
SameAsked(r) ==
    \/ req'[r] = NoRequest
    \/ /\ req'[r].alone = req[r].alone /\ req'[r].op = req[r].op
       /\ req'[r].dest = req[r].dest /\ req'[r].where = req[r].where

LEMMA StaysAsked ==
    ASSUME Types, NEW r \in Requests, Serve(r)
    PROVE  SameAsked(r)
  <1>1. req[r] \in RequestBelow(nextId) /\ DOMAIN req = Requests
    BY DEF Types
  <1>2. CASE Answer(r)
    BY <1>1, <1>2 DEF Answer, SameAsked
  <1>3. ASSUME NEW l, Goto(r, l) PROVE SameAsked(r)
    BY <1>1, <1>3 DEF Goto, SameAsked, RequestBelow
  <1>4. CASE Abort(r)
    BY <1>1, <1>2, <1>4 DEF Abort, SameAsked, RequestBelow
  <1> USE <1>1 DEF SameAsked, RequestBelow
  <1>5. CASE CreateLast(r)
    BY <1>5 DEF CreateLast
  <1>6. CASE CreateInsert(r)
    BY <1>6 DEF CreateInsert
  <1>7. CASE StoreInsert(r)
    BY <1>7 DEF StoreInsert
  <1>8. CASE StoreVirtualIps(r)
    BY <1>8 DEF StoreVirtualIps
  <1>9. CASE Preload(r)
    BY <1>4, <1>9 DEF Preload
  <1>10. CASE Validate(r)
    BY <1>4, <1>10 DEF Validate
  <1>11. CASE ValidateObjects(r)
    BY <1>2, <1>11 DEF ValidateObjects
  <1>12. CASE Reorder(r)
    BY <1>4, <1>12 DEF Reorder
  <1>13. CASE Updated(r)
    BY <1>2, <1>3, <1>13 DEF Updated
  <1>14. CASE Reload(r)
    BY <1>14 DEF Reload
  <1>15. CASE Write(r)
    BY <1>2, <1>4, <1>15 DEF Write, Fail
  <1>16. CASE LookAtDest(r)
    BY <1>2, <1>3, <1>16 DEF LookAtDest
  <1>17. CASE Pick(r)
    <2>1. ASSUME NEW p,
                 req' = [req EXCEPT ![r].pc = "affected", ![r].sel = p,
                                    ![r].first = rules[p[1]].order]
          PROVE  SameAsked(r)
      BY <2>1
    <2> HIDE DEF SameAsked, RequestBelow
    <2> QED BY <1>2, <1>17, <2>1 DEF Pick
  <1>18. CASE Affected(r)
    BY <1>18 DEF Affected
  <1>19. CASE Dest(r)
    BY <1>2, <1>19 DEF Dest
  <1>20. CASE RefreshIds(r)
    BY <1>20 DEF RefreshIds
  <1>21. CASE Refresh(r)
    BY <1>3, <1>21 DEF Refresh
  <1>22. CASE CopyFind(r)
    BY <1>22 DEF CopyFind
  <1>23. CASE CopyLast(r)
    BY <1>2, <1>23 DEF CopyLast
  <1>24. CASE CopyInsert(r)
    BY <1>24 DEF CopyInsert
  <1>25. CASE RemoveNext(r)
    <2>1. ASSUME NEW i,
                 req' = [req EXCEPT ![r].pc = "reload", ![r].then = "affectedTables",
                                    ![r].ids = {i}, ![r].todo = req[r].todo \ {i},
                                    ![r].ents = Load({i})]
          PROVE  SameAsked(r)
      BY <2>1
    <2> HIDE DEF SameAsked, RequestBelow
    <2> QED BY <1>2, <1>25, <2>1 DEF RemoveNext
  <1>26. CASE AffectedTables(r)
    BY <1>26 DEF AffectedTables
  <1>27. CASE Delete(r)
    BY <1>27 DEF Delete
  <1>28. CASE FromRule(r)
    BY <1>2, <1>28 DEF FromRule
  <1>29. CASE ToRule(r)
    BY <1>2, <1>29 DEF ToRule
  <1>30. CASE Leave(r) \/ MoveIn(r)
    BY <1>2, <1>30 DEF Leave, MoveIn
  <1> QED BY <1>5, <1>6, <1>7, <1>8, <1>9, <1>10, <1>11, <1>12, <1>13, <1>14,
             <1>15, <1>16, <1>17, <1>18, <1>19, <1>20, <1>21, <1>22, <1>23,
             <1>24, <1>25, <1>26, <1>27, <1>28, <1>29, <1>30 DEF Serve
LEMMA NotIdle ==
    ASSUME NEW r, Serve(r)
    PROVE  ~At(r, "idle")
    BY DEF Serve, CreateLast, CreateInsert, StoreInsert, StoreVirtualIps, InsertLast,
           Preload, Validate, ValidateObjects, Reorder, Updated, Reload, Write,
           LookAtDest, Pick, Affected, Dest, RefreshIds, Refresh, CopyFind, CopyLast,
           CopyInsert, RemoveNext, AffectedTables, Delete, FromRule, ToRule, Step, At,
           Leave, MoveIn

LEMMA SoleServe ==
    ASSUME Types, Solitude, NEW r \in Requests, Serve(r)
    PROVE  Solitude'
  <1>1. ~At(r, "idle")
    BY NotIdle
  <1>2. \A q \in Requests : q # r => req'[q] = req[q]
    BY ServeTypes DEF Types, KeepsTypes
  <1>3. req'[r].alone /\ ~At(r, "idle")' => req[r].alone
    BY StaysAsked DEF SameAsked, NoRequest, At
  <1>4. SUFFICES ASSUME NEW p \in Requests, NEW q \in Requests, p # q,
                        req'[p].alone, ~At(p, "idle")'
                 PROVE  At(q, "idle")'
    BY DEF Solitude, At
  <1>5. CASE p = r
    BY <1>1, <1>2, <1>3, <1>4, <1>5 DEF Solitude, At
  <1>6. CASE p # r
    <2>1. req[p].alone /\ ~At(p, "idle")
      BY <1>2, <1>4, <1>6 DEF At
    <2>2. At(r, "idle")
      BY <1>6, <2>1 DEF Solitude
    <2> QED BY <1>1, <2>2
  <1> QED BY <1>5, <1>6

LEMMA ReceiveArrives ==
    ASSUME NEW r \in Requests, Receive(r)
    PROVE  /\ At(r, "idle")
           /\ \E op, label, S, d, w : /\ Arrive(r, op, label, S, d, w)
                                      /\ label \notin {"refresh", "refreshIds"}
  <1>1. At(r, "idle")
    BY DEF Receive
  <1>2. StartOfMove \notin {"refresh", "refreshIds"}
    BY DEF StartOfMove
  <1>3. CASE ReceiveCreate(r)
    BY <1>1, <1>3 DEF ReceiveCreate
  <1>4. CASE ReceiveUpdate(r)
    BY <1>1, <1>4 DEF ReceiveUpdate
  <1>5. CASE ReceiveMove(r)
    BY <1>1, <1>2, <1>5 DEF ReceiveMove
  <1>6. CASE ReceiveCopy(r)
    BY <1>1, <1>6 DEF ReceiveCopy
  <1>7. CASE ReceiveRemove(r)
    BY <1>1, <1>7 DEF ReceiveRemove
  <1>8. CASE ReceiveMoveItem(r)
    BY <1>1, <1>8 DEF ReceiveMoveItem
  <1>9. CASE ReceiveTransfer(r)
    BY <1>1, <1>9 DEF ReceiveTransfer
  <1> QED BY <1>3, <1>4, <1>5, <1>6, <1>7, <1>8, <1>9 DEF Receive

\* What an arrival does to every request.
LEMMA Arrived ==
    ASSUME Types, NEW r \in Requests, Receive(r)
    PROVE  /\ UNCHANGED <<rules, nextId, unsettled>>
           /\ At(r, "idle") /\ ~At(r, "refresh")' /\ ~At(r, "refreshIds")'
           /\ req'[r].alone => Idle
           /\ \A q \in Requests : q # r =>
                /\ At(q, "idle") => req'[q] = req[q]
                /\ ~At(q, "idle") => req'[q] = [req[q] EXCEPT !.alone = FALSE]
  <1>1. PICK op, label, S, d, w : /\ Arrive(r, op, label, S, d, w)
                                  /\ label \notin {"refresh", "refreshIds"}
    BY ReceiveArrives
  <1>2. req'[r] = [NoRequest EXCEPT
                     !.op = op, !.pc = label, !.ids = S, !.dest = d, !.where = w,
                     !.alone = Idle, !.todo = IF op = "remove" THEN S ELSE {}]
    BY <1>1 DEF Arrive
  <1>3. req'[r].pc = label /\ req'[r].alone = Idle
    BY <1>2 DEF NoRequest
  <1>4. \A q \in Requests : q # r =>
          /\ At(q, "idle") => req'[q] = req[q]
          /\ ~At(q, "idle") => req'[q] = [req[q] EXCEPT !.alone = FALSE]
    BY <1>1 DEF Arrive
  <1>5. UNCHANGED <<rules, nextId, unsettled>>
    BY <1>1 DEF Arrive
  <1> QED BY <1>1, <1>3, <1>4, <1>5, ReceiveArrives DEF At

LEMMA SoleReceive ==
    ASSUME Types, Solitude, NEW r \in Requests, Receive(r)
    PROVE  Solitude'
  <1>1. \A q \in Requests : q # r /\ ~At(q, "idle") => ~req'[q].alone
    <2> TAKE q \in Requests
    <2>1. req[q] \in RequestBelow(nextId)
      BY DEF Types
    <2> QED BY <2>1, Arrived DEF RequestBelow
  <1>2. SUFFICES ASSUME NEW p \in Requests, NEW q \in Requests, p # q,
                        req'[p].alone, ~At(p, "idle")'
                 PROVE  At(q, "idle")'
    BY DEF Solitude, At
  <1>3. CASE p = r
    BY <1>2, <1>3, Arrived DEF Idle, At
  <1>4. CASE p # r
    <2>1. At(p, "idle")
      BY <1>1, <1>2, <1>4
    <2> QED BY <1>2, <1>4, <2>1, Arrived DEF At
  <1> QED BY <1>3, <1>4
\* What the step of a request that refreshes all the rules leaves.
LEMMA EntersRefresh ==
    ASSUME Types, NEW r \in Requests, Serve(r), At(r, "refresh")'
    PROVE  rules' = rules /\ req'[r].ids = DOMAIN rules
  <1>1. req[r] \in RequestBelow(nextId) /\ DOMAIN req = Requests
    BY DEF Types
  <1>2. CASE RefreshIds(r)
    BY <1>1, <1>2 DEF RefreshIds
  <1>3. ~Answer(r)
    BY <1>1 DEF Answer, NoRequest, At
  <1>4. \A l : l # "refresh" => ~Goto(r, l)
    BY <1>1 DEF Goto, At, RequestBelow
  <1>5. ~Abort(r)
    BY <1>1, <1>3 DEF Abort, At, RequestBelow
  <1>6. req[r].then # "refresh" /\ StartOfMove # "refresh"
    BY <1>1 DEF RequestBelow, Returns, StartOfMove
  <1>7. RefreshIds(r)
    <2> USE <1>1, <1>6 DEF At, RequestBelow
    <2>1. ~(CreateLast(r) \/ CreateInsert(r) \/ StoreInsert(r) \/ StoreVirtualIps(r))
      BY DEF CreateLast, CreateInsert, StoreInsert, StoreVirtualIps
    <2>2. ~(Preload(r) \/ Validate(r) \/ ValidateObjects(r) \/ Reorder(r))
      BY <1>3, <1>5 DEF Preload, Validate, ValidateObjects, Reorder
    <2>3. ~(Updated(r) \/ Reload(r))
      BY <1>3, <1>4 DEF Updated, Reload
    <2>4. ~Write(r)
      BY <1>3, <1>5 DEF Write, Fail
    <2>5. ~(LookAtDest(r) \/ Affected(r) \/ Dest(r) \/ Refresh(r))
      BY <1>3, <1>4 DEF LookAtDest, Affected, Dest, Refresh
    <2>6. ~Pick(r)
      <3>1. \A p : req' # [req EXCEPT ![r].pc = "affected", ![r].sel = p,
                                      ![r].first = rules[p[1]].order]
        OBVIOUS
      <3> HIDE DEF RequestBelow
      <3> QED BY <1>3, <3>1 DEF Pick
    <2>7. ~(CopyFind(r) \/ CopyLast(r) \/ CopyInsert(r))
      BY ZenonT(60), <1>3 DEF CopyFind, CopyLast, CopyInsert
    <2>8. ~RemoveNext(r)
      <3>1. \A i : req' # [req EXCEPT ![r].pc = "reload",
                                      ![r].then = "affectedTables", ![r].ids = {i},
                                      ![r].todo = req[r].todo \ {i},
                                      ![r].ents = Load({i})]
        OBVIOUS
      <3> HIDE DEF RequestBelow
      <3> QED BY <1>3, <3>1 DEF RemoveNext
    <2>9. ~(AffectedTables(r) \/ Delete(r) \/ FromRule(r) \/ ToRule(r))
      BY <1>3 DEF AffectedTables, Delete, FromRule, ToRule
    <2>10. ~(Leave(r) \/ MoveIn(r))
      BY <1>3 DEF Leave, MoveIn
    <2> HIDE DEF RequestBelow, At
    <2> QED BY <2>1, <2>2, <2>3, <2>4, <2>5, <2>6, <2>7, <2>8, <2>9, <2>10 DEF Serve
  <1> QED BY <1>2, <1>7

LEMMA AloneStep ==
    ASSUME AloneInv, [Next]_vars
    PROVE  AloneInv'
  <1>1. Types'
    BY TypesStep DEF AloneInv
  <1>2. ASSUME NEW r \in Requests, Receive(r)
        PROVE  Solitude' /\ RefreshesAll'
    <2>1. Solitude'
      BY <1>2, SoleReceive DEF AloneInv
    <2>2. ASSUME NEW p \in Requests, req'[p].alone, At(p, "refresh")'
          PROVE  req'[p].ids = DOMAIN rules'
      <3>1. CASE p = r
        BY <1>2, <2>2, <3>1, Arrived DEF AloneInv
      <3>2. CASE p # r /\ At(p, "idle")
        BY <1>2, <2>2, <3>2, Arrived DEF AloneInv, At
      <3>3. CASE p # r /\ ~At(p, "idle")
        <4>1. req[p] \in RequestBelow(nextId)
          BY DEF AloneInv, Types
        <4>2. ~req'[p].alone
          BY <1>2, <3>3, <4>1, Arrived DEF AloneInv, RequestBelow
        <4> QED BY <2>2, <4>2
      <3> QED BY <3>1, <3>2, <3>3
    <2> QED BY <2>1, <2>2 DEF RefreshesAll, At
  <1>3. ASSUME NEW r \in Requests, Serve(r)
        PROVE  Solitude' /\ RefreshesAll'
    <2>1. Solitude'
      BY <1>3, SoleServe DEF AloneInv
    <2>2. ASSUME NEW p \in Requests, req'[p].alone, At(p, "refresh")'
          PROVE  req'[p].ids = DOMAIN rules'
      <3>1. CASE p = r
        BY <1>3, <2>2, <3>1, EntersRefresh DEF AloneInv
      <3>2. CASE p # r
        <4>1. req'[p] = req[p]
          BY <1>3, <3>2, ServeTypes DEF AloneInv, Types, KeepsTypes
        <4>2. At(r, "idle")
          BY <2>2, <3>2, <4>1 DEF AloneInv, Solitude, At
        <4> QED BY <1>3, <4>2, NotIdle
      <3> QED BY <3>1, <3>2
    <2> QED BY <2>1, <2>2 DEF RefreshesAll, At
  <1>4. CASE Next
    BY <1>1, <1>2, <1>3, <1>4 DEF Next, AloneInv
  <1>5. CASE UNCHANGED vars
    BY <1>1, <1>5 DEF vars, AloneInv, Solitude, RefreshesAll, At
  <1> QED BY <1>4, <1>5
\* A listing of a finite set takes every member of it once.
LEMMA ListsAll ==
    ASSUME NEW rows, NEW S, IsFiniteSet(S), NEW p \in Listings(rows, S)
    PROVE  /\ Cardinality(S) \in Nat /\ DOMAIN p = 1..Cardinality(S)
           /\ Members(p) = S
           /\ \A i \in S : /\ PositionIn(p, i) \in 1..Cardinality(S)
                           /\ p[PositionIn(p, i)] = i
           /\ \A k \in 1..Cardinality(S) : p[k] \in S /\ PositionIn(p, p[k]) = k
  <1> DEFINE n == Cardinality(S)
  <1>1. n \in Nat
    BY FS_CardinalityType
  <1>2. p \in [1..n -> S]
    BY DEF Listings
  <1>3. \A j, k \in 1..n : j # k => p[j] # p[k]
    <2>1. \A j, k \in 1..n : j < k => p[j] # p[k]
      BY DEF Listings
    <2> QED BY <1>1, <2>1
  <1>4. p \in Injection(1..n, S)
    BY <1>2, <1>3 DEF Injection, IsInjective
  <1>5. IsFiniteSet(1..n) /\ Cardinality(1..n) = n
    BY <1>1, FS_Interval
  <1>6. p \in Surjection(1..n, S)
    <2> HIDE DEF n
    <2> QED BY <1>4, <1>5, FS_Injection DEF n
  <1>7. Members(p) = S
    BY <1>2, <1>6 DEF Surjection, Members
  <1>8. \A i \in S : PositionIn(p, i) \in 1..n /\ p[PositionIn(p, i)] = i
    BY <1>2, <1>7 DEF Members, PositionIn
  <1>9. \A k \in 1..n : p[k] \in S /\ PositionIn(p, p[k]) = k
    BY <1>2, <1>3, <1>8
  <1> QED BY <1>1, <1>2, <1>7, <1>8, <1>9

\* The UPDATE of refreshOrders, when it hits every rule of the table, numbers
\* them 1, 2, ..., n, whatever their orders were.
LEMMA RenumberAll ==
    ASSUME NEW S, IsFiniteSet(S), NEW rows \in [S -> Row],
           NEW p \in Listings(rows, S), NEW new, new = Renumber(rows, p)
    PROVE  /\ DOMAIN new = S
           /\ \A i \in S : /\ new[i].order = PositionIn(p, i)
                           /\ new[i].group = rows[i].group
           /\ Consecutive(new) /\ NoTies(new)
           /\ \A i \in S : new[i].order \in Nat /\ new[i].order <= Cardinality(S)
  <1>1. DOMAIN rows = S /\ DOMAIN new = S
    BY DEF Renumber
  <1>2. \A i \in S : new[i].order = PositionIn(p, i) /\ new[i].group = rows[i].group
    BY ListsAll DEF Renumber, Row
  <1>3. {new[i].order : i \in S} = 1..Cardinality(S)
    BY <1>2, ListsAll
  <1>4. \A i, j \in S : new[i].order = new[j].order => i = j
    BY <1>2, ListsAll
  <1>5. \A i \in S : new[i].order \in Nat /\ new[i].order <= Cardinality(S)
    BY <1>2, ListsAll
  <1> QED BY <1>1, <1>2, <1>3, <1>4, <1>5 DEF Consecutive, NoTies

\* Only the refresh leaves the label `refresh'.
LEMMA RefreshEnds ==
    ASSUME Types, Next, NEW r \in Requests, At(r, "refresh"), req'[r].pc # "refresh"
    PROVE  Refresh(r)
  <1>1. PICK q \in Requests : Receive(q) \/ Serve(q)
    BY DEF Next
  <1>2. q = r
    <2>1. CASE Receive(q)
      <3>1. req[r] \in RequestBelow(nextId)
        BY DEF Types
      <3> QED BY <2>1, <3>1, Arrived DEF At, RequestBelow
    <2>2. CASE Serve(q)
      BY <2>2, ServeTypes DEF Types, KeepsTypes, At
    <2> QED BY <1>1, <2>1, <2>2
  <1>3. ~Receive(r)
    BY DEF Receive, At
  <1> QED BY <1>1, <1>2, <1>3
     DEF At, Serve, CreateLast, CreateInsert, StoreInsert, StoreVirtualIps,
         InsertLast, Preload, Validate, ValidateObjects, Reorder, Updated, Reload,
         Write, LookAtDest, Pick, Affected, Dest, RefreshIds, CopyFind, CopyLast,
         CopyInsert, RemoveNext, AffectedTables, Delete, FromRule, ToRule, Step,
         Leave, MoveIn

LEMMA AloneRepairsStep ==
    ASSUME AloneInv, Next,
           NEW r \in Requests, At(r, "refresh"), req[r].alone, req'[r].pc # "refresh"
    PROVE  Consecutive(rules')
  <1>1. Refresh(r)
    BY RefreshEnds DEF AloneInv
  <1>2. req[r].ids \cap DOMAIN rules = DOMAIN rules
    BY DEF AloneInv, RefreshesAll
  <1>3. PICK p \in Listings(rules, DOMAIN rules) : rules' = Renumber(rules, p)
    BY <1>1, <1>2 DEF Refresh
  <1> QED BY <1>3, RulesType, RenumberAll DEF AloneInv

\* However requests overlapped before, whatever ties and gaps they left: the
\* first move, copy or removal that runs alone leaves the orders 1, 2, ..., n.
THEOREM LoneRequestRepairs == Spec => AloneRepairs
  <1>1. Init => AloneInv
    <2> SUFFICES ASSUME Init PROVE AloneInv
      OBVIOUS
    <2>1. \A r \in Requests : req[r].pc = "idle"
      BY DEF Init, NoRequest
    <2> QED BY <2>1, TypesAtInit DEF AloneInv, Solitude, RefreshesAll, At
  <1>2. AloneInv /\ [Next]_vars => AloneInv'
    BY AloneStep
  <1>3. AloneInv /\ [Next]_vars
          => [\A r \in Requests :
                At(r, "refresh") /\ req[r].alone /\ req'[r].pc # "refresh"
                  => Consecutive(rules')]_vars
    BY AloneRepairsStep
  <1> QED BY <1>1, <1>2, <1>3, PTL DEF Spec, AloneRepairs
(***************************************************************************)
(* Requests served one after the other.                                    *)
(***************************************************************************)
Orderly(rows) == NoTies(rows) /\ (~LeavesGaps => Consecutive(rows))
Same(t, rows) == \A i \in DOMAIN t : i \in DOMAIN rows /\ t[i] = rows[i]
LastOf(rows) == Max({0} \cup {rows[i].order : i \in DOMAIN rows})

\* What a request that runs alone has read is still so, and the orders are right
\* except between the write of a move, or a removal, and the refresh.
InOrder(x, rows) ==
    /\ x.pc \notin {"refreshIds", "refresh"} => Orderly(rows)
    /\ x.pc \in {"insert", "copyInsert"} => x.first = LastOf(rows)
    /\ x.pc = "refresh" => x.ids = DOMAIN rows
    /\ \/ x.pc \in {"validate", "to"}
       \/ x.pc \in {"reload", "write"} /\ x.then # "refreshIds"
       => Same(x.ents, rows)
    /\ x.later # NoRows =>
         x.pc \in {"reload", "write"} /\ x.then = "next" /\ Same(x.later, rows)
    /\ x.pc = "write" => x.base = Restrict(rows, DOMAIN x.ents \cap DOMAIN rows)
    /\ x.pc = "delete" => x.base = Restrict(rows, x.ids \cap DOMAIN rows)

OneAtATime == \A q, r \in Requests : q = r

SerialInv ==
    /\ Types
    /\ Requests = {} => Orderly(rules)
    /\ \A r \in Requests : InOrder(req[r], rules)

\* Rows appended after the last one, numbered on from it, leave the orders right.
LEMMA AppendKeepsOrder ==
    ASSUME NEW rows, IsFiniteSet(DOMAIN rows),
           \A i \in DOMAIN rows : rows[i].order \in Nat,
           NEW n \in Nat \ {0}, DOMAIN rows \subseteq 1..(n - 1),
           NEW m \in Nat, NEW more, DOMAIN more = n..(n + m - 1),
           \A i \in DOMAIN more : more[i].order = LastOf(rows) + (i - n + 1),
           Orderly(rows)
    PROVE  Orderly(Added(rows, more))
  <1> DEFINE D == DOMAIN rows
             N == n..(n + m - 1)
             last == LastOf(rows)
             new == Added(rows, more)
             c == Cardinality(D)
  <1>1. /\ last \in {0} \cup {rows[i].order : i \in D}
        /\ last \in Nat
        /\ \A i \in D : rows[i].order <= last
    BY LastOfOrders DEF LastOf
  <1>2. DOMAIN new = D \cup N /\ D \cap N = {}
    BY DEF Added
  <1>3. \A i \in D : new[i].order = rows[i].order
    BY DEF Added
  <1>4. \A i \in N : new[i].order = last + (i - n + 1)
    BY <1>2 DEF Added
  <1> HIDE DEF D, N, last, new, c
  <1>5. NoTies(new)
    <2> SUFFICES ASSUME NEW i \in D \cup N, NEW j \in D \cup N,
                        new[i].order = new[j].order
                 PROVE  i = j
      BY <1>2 DEF NoTies
    <2>1. ASSUME NEW k \in D, NEW l \in N PROVE new[k].order < new[l].order
      <3>1. l \in Nat /\ l >= n
        BY DEF N
      <3> QED BY <1>1, <1>3, <1>4, <3>1 DEF D
    <2>2. CASE i \in D /\ j \in D
      BY <1>3, <2>2 DEF Orderly, NoTies, D
    <2>3. CASE i \in N /\ j \in N
      <3>1. i \in Nat /\ j \in Nat
        BY <2>3 DEF N
      <3> QED BY <1>1, <1>4, <2>3, <3>1
    <2>4. \A k \in D \cup N : new[k].order \in Nat
      <3>1. \A k \in N : k \in Nat /\ k - n + 1 \in Nat
        BY DEF N
      <3> QED BY <1>1, <1>3, <1>4, <3>1 DEF D
    <2> QED BY <2>1, <2>2, <2>3, <2>4
  <1>6. ASSUME Consecutive(rows) PROVE Consecutive(new)
    <2>1. c \in Nat
      BY FS_CardinalityType DEF c, D
    <2>2. {rows[i].order : i \in D} = 1..c
      BY <1>6 DEF Consecutive, D, c
    <2>3. last = c
      <3>1. last \in 0..c
        <4>1. last = 0 \/ last \in {rows[i].order : i \in D}
          BY <1>1
        <4>2. last = 0 \/ last \in 1..c
          BY <2>2, <4>1
        <4> QED BY <2>1, <4>2
      <3>2. CASE c = 0
        BY <3>1, <3>2
      <3>3. CASE c # 0
        <4>1. PICK i \in D : rows[i].order = c
          BY <2>1, <2>2, <3>3
        <4> QED BY <1>1, <2>1, <3>1, <4>1
      <3> QED BY <3>2, <3>3
    <2>4. Cardinality(D \cup N) = c + m
      <3>1. IsFiniteSet(N) /\ Cardinality(N) = m
        BY FS_Interval DEF N
      <3>2. IsFiniteSet(D) /\ Cardinality(D \cap N) = 0
        BY <1>2, FS_EmptySet DEF D
      <3> QED BY <2>1, <3>1, <3>2, FS_Union DEF c
    <2>5. {new[i].order : i \in D} = 1..c
      BY <1>3, <2>2
    <2>6. {new[i].order : i \in N} = (c + 1)..(c + m)
      <3>1. \A i \in N : new[i].order \in (c + 1)..(c + m)
        BY <1>4, <2>1, <2>3 DEF N
      <3>2. ASSUME NEW k \in (c + 1)..(c + m)
            PROVE  \E i \in N : new[i].order = k
        <4>1. k - c + n - 1 \in N
          BY <2>1 DEF N
        <4>2. new[k - c + n - 1].order = k
          BY <1>4, <2>1, <2>3, <4>1
        <4> QED BY <4>1, <4>2
      <3> QED BY <3>1, <3>2
    <2>7. {new[i].order : i \in D \cup N} = 1..(c + m)
      <3>1. {new[i].order : i \in D \cup N}
              = {new[i].order : i \in D} \cup {new[i].order : i \in N}
        OBVIOUS
      <3> QED BY <2>1, <2>5, <2>6, <3>1
    <2> QED BY <1>2, <2>4, <2>7 DEF Consecutive
  <1> QED BY <1>5, <1>6 DEF Orderly, new
\* When only one request is served at a time, what it does decides.
LEMMA SerialStep ==
    ASSUME OneAtATime, SerialInv, NEW r \in Requests, Serve(r), UNCHANGED kind,
           InOrder(req'[r], rules')
    PROVE  SerialInv'
  <1>1. Types'
    BY ServeTypes, KeepsTypesIsEnough DEF SerialInv
  <1>2. \A q \in Requests : q = r
    BY DEF OneAtATime
  <1>3. LeavesGaps' = LeavesGaps
    BY DEF LeavesGaps
  <1>4. InOrder(req[r], rules)'
    BY <1>3 DEF InOrder, Orderly
  <1> QED BY <1>1, <1>2, <1>4 DEF SerialInv

LEMMA SerialFacts ==
    ASSUME SerialInv, NEW r \in Requests
    PROVE  /\ Types /\ InOrder(req[r], rules)
           /\ req[r] \in RequestBelow(nextId) /\ DOMAIN req = Requests
  BY DEF SerialInv, Types

LEMMA AnswerInOrder ==
    ASSUME SerialInv, NEW r \in Requests, UNCHANGED rules, Answer(r),
           ~At(r, "refreshIds"), ~At(r, "refresh")
    PROVE  InOrder(req'[r], rules')
  <1>1. req'[r] = NoRequest /\ Orderly(rules)
    BY SerialFacts DEF Answer, At, InOrder
  <1> QED BY <1>1 DEF InOrder, NoRequest

\* The row that a new rule gets.
LEMMA InsertInOrder ==
    ASSUME SerialInv, NEW r \in Requests, InsertLast(r)
    PROVE  /\ Orderly(rules')
           /\ Same(Restrict(rules', {nextId}), rules')
           /\ req[r].later = NoRows
  <1> DEFINE more == [i \in {nextId} |->
                        [order |-> req[r].first + 1, group |-> NoGroup]]
  <1>1. /\ Types /\ InOrder(req[r], rules) /\ req[r].pc = "insert"
    BY SerialFacts DEF InsertLast, At
  <1>2. Orderly(rules) /\ req[r].first = LastOf(rules) /\ req[r].later = NoRows
    BY <1>1 DEF InOrder
  <1>3. nextId \in Nat \ {0} /\ req[r].first \in Nat
    BY SerialFacts DEF Types, RequestBelow
  <1>4. DOMAIN more = nextId..(nextId + 1 - 1)
    BY <1>3
  <1>5. \A i \in DOMAIN more : more[i].order = LastOf(rules) + (i - nextId + 1)
    BY <1>2, <1>3
  <1>6. rules' = Added(rules, more)
    BY DEF InsertLast
  <1>7. /\ IsFiniteSet(DOMAIN rules) /\ DOMAIN rules \subseteq 1..(nextId - 1)
        /\ \A i \in DOMAIN rules : rules[i].order \in Nat
    BY <1>1, RulesType DEF Below, Row
  <1>8. Orderly(rules')
    <2> HIDE DEF more
    <2> QED BY <1>2, <1>3, <1>4, <1>5, <1>6, <1>7, AppendKeepsOrder
  <1>9. Same(Restrict(rules', {nextId}), rules')
    BY <1>6 DEF Same, Restrict, Added
  <1> QED BY <1>2, <1>8, <1>9

LEMMA CreationInOrder ==
    ASSUME SerialInv, NEW r \in Requests,
           CreateLast(r) \/ CreateInsert(r) \/ StoreInsert(r) \/ StoreVirtualIps(r)
    PROVE  InOrder(req'[r], rules')
  <1>1. req[r] \in RequestBelow(nextId) /\ DOMAIN req = Requests /\ Types
        /\ InOrder(req[r], rules)
    BY SerialFacts
  <1>2. CASE CreateLast(r)
    <2>1. /\ req'[r].pc = "insert" /\ req'[r].first = LastOf(rules)
          /\ req'[r].later = req[r].later /\ rules' = rules /\ req[r].pc = "last"
      BY <1>1, <1>2 DEF CreateLast, Step, At, RequestBelow, LastOrder, LastOf
    <2> QED BY <1>1, <2>1 DEF InOrder
  <1>3. CASE InsertLast(r)
    <2>1. /\ req'[r].later = req[r].later
          /\ \/ req'[r].pc \in {"preload", "updated"}
             \/ /\ req'[r].pc = "reload" /\ req'[r].ents = Restrict(rules', {nextId})
      BY <1>1, <1>3
      DEF CreateLast, CreateInsert, StoreInsert, StoreVirtualIps, InsertLast, Step,
          At, RequestBelow
    <2> QED BY <1>3, <2>1, InsertInOrder DEF InOrder
  <1> QED BY <1>2, <1>3 DEF CreateInsert, StoreInsert, StoreVirtualIps

LEMMA AbortInOrder ==
    ASSUME SerialInv, NEW r \in Requests, Abort(r),
           req[r].pc \in {"preload", "validate", "reorder"}
    PROVE  InOrder(req'[r], rules')
  <1>1. req[r] \in RequestBelow(nextId) /\ DOMAIN req = Requests
        /\ InOrder(req[r], rules) /\ rules' = rules
    BY SerialFacts DEF Abort
  <1>2. CASE Answer(r)
    BY <1>1, <1>2, AnswerInOrder DEF At
  <1>3. CASE req' = [req EXCEPT ![r].pc = "next", ![r].todo = req[r].ids]
    <2>1. req'[r].pc = "next" /\ req'[r].later = req[r].later
      BY <1>1, <1>3 DEF RequestBelow
    <2> QED BY <1>1, <2>1 DEF InOrder
  <1> QED BY <1>2, <1>3 DEF Abort

LEMMA LoadIsSame ==
    ASSUME NEW S, S \subseteq DOMAIN rules
    PROVE  Same(Load(S), rules)
  BY DEF Same, Load, Restrict

LEMMA UpdateInOrder ==
    ASSUME SerialInv, NEW r \in Requests,
           \/ Preload(r) \/ Validate(r) \/ ValidateObjects(r) \/ Reorder(r)
           \/ Updated(r) \/ Reload(r)
    PROVE  InOrder(req'[r], rules')
  <1>1. /\ req[r] \in RequestBelow(nextId) /\ DOMAIN req = Requests
        /\ InOrder(req[r], rules)
    BY SerialFacts
  <1>2. CASE Abort(r) /\ (Preload(r) \/ Validate(r) \/ Reorder(r))
    BY <1>2, AbortInOrder DEF Preload, Validate, Reorder, Step, At
  <1>3. CASE Answer(r) /\ (ValidateObjects(r) \/ Updated(r))
    BY <1>3, AnswerInOrder DEF ValidateObjects, Updated, Step, At
  <1>4. CASE Preload(r) /\ ~Abort(r)
    <2>1. /\ req'[r].pc = "validate" /\ req'[r].ents = Load(req[r].ids)
          /\ req[r].ids \subseteq DOMAIN rules /\ rules' = rules
          /\ req'[r].later = req[r].later /\ req[r].pc = "preload"
      BY <1>1, <1>4 DEF Preload, Step, At, RequestBelow
    <2> QED BY <1>1, <2>1, LoadIsSame DEF InOrder
  <1>5. CASE Validate(r) /\ ~Abort(r)
    <2>1. /\ req'[r].pc = "reload" /\ req'[r].ents = req[r].ents
          /\ rules' = rules /\ req'[r].then = "reorder"
          /\ req'[r].later = req[r].later /\ req[r].pc = "validate"
      BY <1>1, <1>5 DEF Validate, Step, At, RequestBelow
    <2> QED BY <1>1, <2>1 DEF InOrder
  <1>6. CASE ValidateObjects(r) /\ ~Answer(r)
    <2>1. /\ req'[r].pc = "reload" /\ req'[r].ents = req[r].ents
          /\ rules' = rules /\ req'[r].then = "updated"
          /\ req'[r].later = req[r].later /\ req[r].pc = "validate"
      BY <1>1, <1>6 DEF ValidateObjects, Step, At, RequestBelow
    <2> QED BY <1>1, <2>1 DEF InOrder
  <1>7. CASE Reorder(r) /\ ~Abort(r)
    <2>1. /\ req'[r].pc = "reload" /\ req'[r].ents = Load(req[r].ids)
          /\ req[r].ids \subseteq DOMAIN rules
          /\ rules' = rules /\ req'[r].then = "updated"
          /\ req'[r].later = req[r].later /\ req[r].pc = "reorder"
      BY <1>1, <1>7 DEF Reorder, Step, At, RequestBelow
    <2> QED BY <1>1, <2>1, LoadIsSame DEF InOrder
  <1>8. CASE Updated(r) /\ ~Answer(r)
    <2>1. /\ req'[r].pc \in {"look", "pick"}
          /\ rules' = rules /\ req[r].pc = "updated"
          /\ req'[r].later = req[r].later
      BY <1>1, <1>8 DEF Updated, Step, At, RequestBelow, Goto, StartOfMove
    <2> QED BY <1>1, <2>1 DEF InOrder
  <1>9. CASE Reload(r)
    <2>1. /\ req'[r].pc = "write" /\ req'[r].ents = req[r].ents
          /\ req'[r].then = req[r].then /\ req'[r].later = req[r].later
          /\ req'[r].base = Restrict(rules, DOMAIN req[r].ents \cap DOMAIN rules)
          /\ rules' = rules /\ req[r].pc = "reload"
      BY <1>1, <1>9 DEF Reload, Step, At, RequestBelow, Load
    <2> QED BY <1>1, <2>1 DEF InOrder
  <1> QED BY <1>2, <1>3, <1>4, <1>5, <1>6, <1>7, <1>8, <1>9

\* Nothing that a lone request saves has been inserted or removed meanwhile, and
\* except in a move it writes what is there already.
LEMMA WriteKeeps ==
    ASSUME SerialInv, NEW r \in Requests, Write(r), req[r].then # "refreshIds"
    PROVE  /\ rules' = rules
           /\ req'[r].pc = IF req[r].later = NoRows THEN req[r].then ELSE "reload"
           /\ req'[r].then = req[r].then /\ req'[r].op = req[r].op
           /\ req'[r].ids = req[r].ids /\ req'[r].dest = req[r].dest
           /\ req'[r].ents = req[r].later /\ req'[r].later = NoRows
  <1>1. /\ req[r] \in RequestBelow(nextId) /\ DOMAIN req = Requests
        /\ InOrder(req[r], rules) /\ req[r].pc = "write" /\ Types
    BY SerialFacts DEF Write, Step, At
  <1>2. /\ DOMAIN req[r].base = DOMAIN req[r].ents \cap DOMAIN rules
        /\ \A i \in DOMAIN req[r].base : req[r].base[i] = rules[i]
    BY <1>1 DEF InOrder, Restrict
  <1>3. Same(req[r].ents, rules)
    BY <1>1 DEF InOrder
  <1>4. Inserted(r) = {}
    BY <1>2, <1>3 DEF Same, Inserted
  <1>5. \A i \in DOMAIN req[r].ents : Written(r, i) = rules[i]
    <2> TAKE i \in DOMAIN req[r].ents
    <2>1. rules[i] \in Row
      BY <1>1, <1>3, RulesType DEF Same
    <2> QED BY <1>2, <1>3, <1>4, <2>1 DEF Same, Written, Row
  <1>6. rules' = [i \in DOMAIN rules \cup Inserted(r) |->
                   IF i \in DOMAIN req[r].ents THEN Written(r, i) ELSE rules[i]]
    BY <1>4 DEF Write
  <1>7. rules' = rules
    BY <1>1, <1>4, <1>5, <1>6, RulesType
  <1> QED BY <1>1, <1>4, <1>7 DEF Write, RequestBelow

LEMMA WriteInOrder ==
    ASSUME SerialInv, NEW r \in Requests, Write(r)
    PROVE  InOrder(req'[r], rules')
  <1>1. /\ req[r] \in RequestBelow(nextId) /\ DOMAIN req = Requests
        /\ InOrder(req[r], rules) /\ req[r].pc = "write"
    BY SerialFacts DEF Write, Step, At
  <1>2. CASE req[r].then = "refreshIds"
    <2>1. req[r].later = NoRows
      BY <1>1, <1>2 DEF InOrder
    <2>2. Inserted(r) \cap DOMAIN rules = {}
      BY <1>1 DEF InOrder, Inserted, Restrict
    <2>3. req'[r].pc = "refreshIds" /\ req'[r].later = NoRows
      BY <1>1, <1>2, <2>1, <2>2 DEF Write, RequestBelow
    <2> QED BY <2>3 DEF InOrder
  <1>3. CASE req[r].then # "refreshIds"
    <2>1. /\ rules' = rules
          /\ req'[r].pc = IF req[r].later = NoRows THEN req[r].then ELSE "reload"
          /\ req'[r].then = req[r].then
          /\ req'[r].ents = req[r].later /\ req'[r].later = NoRows
      BY <1>3, WriteKeeps
    <2>2. req[r].then \in Returns
      BY <1>1 DEF RequestBelow
    <2> QED BY <1>1, <1>3, <2>1, <2>2 DEF InOrder, Returns
  <1> QED BY <1>2, <1>3

LEMMA MoveInOrder ==
    ASSUME SerialInv, NEW r \in Requests,
           LookAtDest(r) \/ Pick(r) \/ Affected(r) \/ Dest(r)
    PROVE  InOrder(req'[r], rules')
  <1>1. /\ req[r] \in RequestBelow(nextId) /\ DOMAIN req = Requests
        /\ InOrder(req[r], rules)
    BY SerialFacts
  <1>2. CASE Answer(r)
    BY <1>2, AnswerInOrder DEF LookAtDest, Pick, Affected, Dest, Step, At
  <1>3. CASE ~Answer(r)
    <2>1. /\ rules' = rules /\ req[r].pc \in {"look", "pick", "affected", "dest"}
          /\ req'[r].later = req[r].later
          /\ \/ req'[r].pc \in {"pick", "affected", "dest"}
             \/ req'[r].pc = "reload" /\ req'[r].then = "refreshIds"
      <3>1. CASE Pick(r)
        <4>1. PICK p : req' = [req EXCEPT ![r].pc = "affected", ![r].sel = p,
                                          ![r].first = rules[p[1]].order]
          BY <1>3, <3>1 DEF Pick
        <4> QED BY <1>1, <3>1, <4>1 DEF Pick, Step, At, RequestBelow
      <3>2. CASE Dest(r)
        <4>1. req' = [req EXCEPT ![r].pc = "reload", ![r].then = "refreshIds",
                                 ![r].ents =
                                  Moved(req[r].ents, req[r].sel, req[r].first,
                                        rules[req[r].dest], req[r].where)]
          BY <1>3, <3>2 DEF Dest
        <4> QED BY <1>1, <3>2, <4>1 DEF Dest, Step, At, RequestBelow
      <3> QED BY <1>1, <1>3, <3>1, <3>2
           DEF LookAtDest, Affected, Goto, Step, At, RequestBelow
    <2> QED BY <1>1, <2>1 DEF InOrder
  <1> QED BY <1>2, <1>3

\* The refresh of all the rules puts their orders right.
LEMMA RefreshInOrder ==
    ASSUME SerialInv, NEW r \in Requests, RefreshIds(r) \/ Refresh(r)
    PROVE  InOrder(req'[r], rules')
  <1>1. /\ req[r] \in RequestBelow(nextId) /\ DOMAIN req = Requests
        /\ InOrder(req[r], rules) /\ Types
    BY SerialFacts
  <1>2. CASE RefreshIds(r)
    <2>1. /\ req'[r].pc = IF DOMAIN rules = {} THEN "next" ELSE "refresh"
          /\ req'[r].ids = DOMAIN rules /\ req'[r].later = req[r].later
          /\ rules' = rules /\ req[r].pc = "refreshIds"
      BY <1>1, <1>2 DEF RefreshIds, Step, At, RequestBelow
    <2>2. DOMAIN rules = {} => Orderly(rules)
      BY FS_EmptySet DEF Orderly, NoTies, Consecutive
    <2> QED BY <1>1, <2>1, <2>2 DEF InOrder
  <1>3. CASE Refresh(r)
    <2>1. /\ req'[r].pc = "next" /\ req'[r].later = req[r].later
          /\ req[r].pc = "refresh"
      BY <1>1, <1>3 DEF Refresh, Goto, Step, At, RequestBelow
    <2>2. req[r].ids \cap DOMAIN rules = DOMAIN rules
      BY <1>1, <2>1 DEF InOrder
    <2>3. PICK p \in Listings(rules, DOMAIN rules) : rules' = Renumber(rules, p)
      BY <1>3, <2>2 DEF Refresh
    <2>4. Orderly(rules')
      BY <1>1, <2>3, RulesType, RenumberAll DEF Orderly
    <2> QED BY <1>1, <2>1, <2>4 DEF InOrder
  <1> QED BY <1>2, <1>3

LEMMA CopyInOrder ==
    ASSUME SerialInv, NEW r \in Requests,
           CopyFind(r) \/ CopyLast(r) \/ CopyInsert(r)
    PROVE  InOrder(req'[r], rules')
  <1>1. /\ req[r] \in RequestBelow(nextId) /\ DOMAIN req = Requests
        /\ InOrder(req[r], rules) /\ Types
    BY SerialFacts
  <1>2. CASE Answer(r) /\ CopyLast(r)
    BY <1>2, AnswerInOrder DEF CopyLast, Step, At
  <1>3. CASE CopyFind(r)
    <2>1. /\ req'[r].pc = "copyLast" /\ req'[r].later = req[r].later
          /\ rules' = rules /\ req[r].pc = "find"
      BY <1>1, <1>3 DEF CopyFind, Step, At, RequestBelow
    <2> QED BY <1>1, <2>1 DEF InOrder
  <1>4. CASE CopyLast(r) /\ ~Answer(r)
    <2>1. /\ req'[r].pc = "copyInsert" /\ req'[r].later = req[r].later
          /\ req'[r].first = LastOf(rules)
          /\ rules' = rules /\ req[r].pc = "copyLast"
      BY <1>1, <1>4 DEF CopyLast, Step, At, RequestBelow, LastOrder, LastOf
    <2> QED BY <1>1, <2>1 DEF InOrder
  <1>5. CASE CopyInsert(r)
    <2>1. PICK p \in SetToSeqs(DOMAIN req[r].ents) :
            LET new == nextId..(nextId + Len(p) - 1)
                nth(i) == i - nextId + 1
            IN /\ rules' = Added(rules, [i \in new |->
                              [order |-> req[r].first + nth(i),
                               group |-> req[r].ents[p[nth(i)]].group]])
               /\ nextId' = nextId + Len(p)
               /\ req' = [req EXCEPT ![r].pc = StartOfMove, ![r].ids = new,
                                     ![r].ents = NoRows]
      BY <1>5 DEF CopyInsert
    <2> DEFINE more == [i \in nextId..(nextId + Len(p) - 1) |->
                         [order |-> req[r].first + (i - nextId + 1),
                          group |-> req[r].ents[p[i - nextId + 1]].group]]
    <2>2. rules' = Added(rules, more)
      BY <2>1
    <2>3. /\ req'[r].pc \in {"look", "pick"} /\ req'[r].later = req[r].later
          /\ req[r].pc = "copyInsert"
      BY <1>1, <1>5, <2>1 DEF CopyInsert, At, RequestBelow, StartOfMove
    <2>4. /\ IsFiniteSet(DOMAIN rules) /\ DOMAIN rules \subseteq 1..(nextId - 1)
          /\ \A i \in DOMAIN rules : rules[i].order \in Nat
      BY <1>1, RulesType DEF Below, Row
    <2>5. req[r].first = LastOf(rules) /\ Orderly(rules)
      BY <1>1, <2>3 DEF InOrder
    <2>6. nextId \in Nat \ {0} /\ Len(p) \in Nat
      <3>1. p \in [1..Cardinality(DOMAIN req[r].ents) -> DOMAIN req[r].ents]
        BY DEF SetToSeqs
      <3>2. IsFiniteSet(DOMAIN req[r].ents)
        <4>1. DOMAIN req[r].ents \in SUBSET Below(nextId)
          BY <1>1 DEF RequestBelow, TablesBelow
        <4>2. IsFiniteSet(Below(nextId))
          BY <1>1, FS_Interval DEF Types, Below
        <4> QED BY <4>1, <4>2, FS_Subset
      <3>3. Cardinality(DOMAIN req[r].ents) \in Nat
        BY <3>2, FS_CardinalityType
      <3>4. Len(p) = Cardinality(DOMAIN req[r].ents)
        BY <3>1, <3>3
      <3> QED BY <1>1, <3>3, <3>4 DEF Types
    <2>7. DOMAIN more = nextId..(nextId + Len(p) - 1)
      OBVIOUS
    <2>8. \A i \in DOMAIN more : more[i].order = LastOf(rules) + (i - nextId + 1)
      BY <2>5
    <2>9. Orderly(rules')
      <3> HIDE DEF more
      <3> QED BY <2>2, <2>4, <2>5, <2>6, <2>7, <2>8, AppendKeepsOrder
    <2> QED BY <1>1, <2>3, <2>9 DEF InOrder
  <1> QED BY <1>2, <1>3, <1>4, <1>5

LEMMA RemoveInOrder ==
    ASSUME SerialInv, NEW r \in Requests,
           RemoveNext(r) \/ AffectedTables(r) \/ Delete(r)
    PROVE  InOrder(req'[r], rules')
  <1>1. /\ req[r] \in RequestBelow(nextId) /\ DOMAIN req = Requests
        /\ InOrder(req[r], rules) /\ Types
    BY SerialFacts
  <1>2. CASE Answer(r) /\ RemoveNext(r)
    BY <1>2, AnswerInOrder DEF RemoveNext, Step, At
  <1>3. CASE RemoveNext(r) /\ ~Answer(r)
    <2>1. PICK i \in DOMAIN rules :
            req' = [req EXCEPT ![r].pc = "reload", ![r].then = "affectedTables",
                               ![r].ids = {i}, ![r].todo = req[r].todo \ {i},
                               ![r].ents = Load({i})]
      BY <1>3 DEF RemoveNext
    <2>2. /\ req'[r].pc = "reload" /\ req'[r].then = "affectedTables"
          /\ req'[r].ents = Load({i}) /\ req'[r].later = req[r].later
      BY <1>1, <2>1 DEF RequestBelow
    <2>3. rules' = rules /\ req[r].pc = "next"
      BY <1>3 DEF RemoveNext, Step, At
    <2> QED BY <1>1, <2>2, <2>3, LoadIsSame DEF InOrder
  <1>4. CASE AffectedTables(r)
    <2>1. /\ req'[r].pc = "delete" /\ req'[r].later = req[r].later
          /\ req'[r].base = Restrict(rules, req[r].ids \cap DOMAIN rules)
          /\ req'[r].ids = req[r].ids
          /\ rules' = rules /\ req[r].pc = "affectedTables"
      BY <1>1, <1>4 DEF AffectedTables, Step, At, RequestBelow, Load
    <2> QED BY <1>1, <2>1 DEF InOrder
  <1>5. CASE Delete(r)
    <2>1. /\ req'[r].pc = IF req[r].base = NoRows \/ LeavesGaps
                          THEN "next" ELSE "refreshIds"
          /\ req'[r].later = req[r].later /\ req[r].pc = "delete"
          /\ rules' = Restrict(rules, DOMAIN rules \ req[r].ids)
      BY <1>1, <1>5 DEF Delete, Step, At, RequestBelow, Load
    <2>2. DOMAIN req[r].base = req[r].ids \cap DOMAIN rules
      BY <1>1, <2>1 DEF InOrder, Restrict
    <2>3. Orderly(rules)
      BY <1>1, <2>1 DEF InOrder
    <2>4. CASE req[r].base = NoRows
      <3>1. req[r].ids \cap DOMAIN rules = {}
        BY <2>2, <2>4 DEF NoRows
      <3>2. rules' = rules
        BY <1>1, <2>1, <3>1, RulesType DEF Restrict
      <3> QED BY <1>1, <2>1, <2>3, <2>4, <3>2 DEF InOrder
    <2>5. CASE LeavesGaps
      <3>1. Orderly(rules')
        BY <2>1, <2>3, <2>5 DEF Orderly, NoTies, Restrict
      <3> QED BY <1>1, <2>1, <2>5, <3>1 DEF InOrder
    <2>6. CASE req[r].base # NoRows /\ ~LeavesGaps
      BY <1>1, <2>1, <2>6 DEF InOrder
    <2> QED BY <2>4, <2>5, <2>6
  <1> QED BY <1>2, <1>3, <1>4, <1>5

LEMMA MoveItemInOrder ==
    ASSUME SerialInv, NEW r \in Requests, FromRule(r) \/ ToRule(r)
    PROVE  InOrder(req'[r], rules')
  <1>1. /\ req[r] \in RequestBelow(nextId) /\ DOMAIN req = Requests
        /\ InOrder(req[r], rules)
    BY SerialFacts
  <1>2. CASE Answer(r)
    BY <1>2, AnswerInOrder DEF FromRule, ToRule, Step, At
  <1>3. CASE FromRule(r) /\ ~Answer(r)
    <2>1. /\ req'[r].pc = "to" /\ req'[r].later = req[r].later
          /\ req'[r].ents = Load(req[r].ids) /\ req[r].ids \subseteq DOMAIN rules
          /\ rules' = rules /\ req[r].pc = "from"
      BY <1>1, <1>3 DEF FromRule, Step, At, RequestBelow
    <2> QED BY <1>1, <2>1, LoadIsSame DEF InOrder
  <1>4. CASE ToRule(r) /\ ~Answer(r)
    <2> DEFINE to == Load({req[r].dest})
    <2>1. /\ req'[r].pc = "reload" /\ req'[r].then = "next"
          /\ req'[r].ents = IF kind = "keepalived" THEN req[r].ents
                                                   ELSE Added(req[r].ents, to)
          /\ req'[r].later = IF kind = "keepalived" THEN to ELSE NoRows
          /\ req[r].dest \in DOMAIN rules /\ rules' = rules /\ req[r].pc = "to"
      BY <1>1, <1>4 DEF ToRule, Step, At, RequestBelow
    <2>2. Same(to, rules) /\ Same(req[r].ents, rules) /\ Orderly(rules)
      BY <1>1, <2>1, LoadIsSame DEF InOrder
    <2>3. Same(Added(req[r].ents, to), rules)
      BY <2>2 DEF Same, Added
    <2> HIDE DEF to
    <2> QED BY <2>1, <2>2, <2>3 DEF InOrder
  <1> QED BY <1>2, <1>3, <1>4

\* A rule that leaves a list which may have gaps; the other lists are unsettled.
LEMMA LeaveInOrder ==
    ASSUME SerialInv, NEW r \in Requests, Leave(r) \/ MoveIn(r), ~unsettled'
    PROVE  InOrder(req'[r], rules')
  <1>1. Leave(r) /\ LeavesGaps
    BY DEF Leave, MoveIn
  <1>2. Orderly(rules)
    BY <1>1, SerialFacts DEF Leave, At, InOrder
  <1>3. Orderly(rules')
    BY <1>1, <1>2 DEF Leave, Load, Restrict, Orderly, NoTies
  <1>4. req'[r] = NoRequest
    BY <1>1, SerialFacts DEF Leave, Answer
  <1> QED BY <1>3, <1>4 DEF InOrder, NoRequest

LEMMA ServeInOrder ==
    ASSUME SerialInv, NEW r \in Requests, Serve(r), ~unsettled'
    PROVE  InOrder(req'[r], rules')
  BY CreationInOrder, UpdateInOrder, WriteInOrder, MoveInOrder, RefreshInOrder,
     CopyInOrder, RemoveInOrder, MoveItemInOrder, LeaveInOrder DEF Serve

LEMMA ReceiveInOrder ==
    ASSUME SerialInv, NEW r \in Requests, Receive(r)
    PROVE  InOrder(req'[r], rules')
  <1>1. At(r, "idle") /\ InOrder(req[r], rules)
    BY SerialFacts DEF Receive
  <1>2. ASSUME NEW op, NEW S, NEW d, NEW w,
               NEW label \in {"last", "preload", "look", "pick", "find", "next",
                              "from", "arrive"},
               Arrive(r, op, label, S, d, w)
        PROVE  InOrder(req'[r], rules')
    <2>1. req'[r] = [NoRequest EXCEPT
                       !.op = op, !.pc = label, !.ids = S, !.dest = d, !.where = w,
                       !.alone = Idle, !.todo = IF op = "remove" THEN S ELSE {}]
      BY <1>2 DEF Arrive
    <2>2. req'[r].pc = label /\ req'[r].later = NoRows /\ rules' = rules
      BY <1>2, <2>1 DEF NoRequest, Arrive
    <2> QED BY <1>1, <2>2 DEF InOrder, At
  <1>3. CASE ReceiveCreate(r)
    BY <1>2, <1>3 DEF ReceiveCreate
  <1>4. CASE ReceiveUpdate(r)
    BY <1>2, <1>4 DEF ReceiveUpdate
  <1>5. CASE ReceiveMove(r)
    BY <1>2, <1>5 DEF ReceiveMove, StartOfMove
  <1>6. CASE ReceiveCopy(r)
    BY <1>2, <1>6 DEF ReceiveCopy
  <1>7. CASE ReceiveRemove(r)
    BY <1>2, <1>7 DEF ReceiveRemove
  <1>8. CASE ReceiveMoveItem(r)
    BY <1>2, <1>8 DEF ReceiveMoveItem
  <1>9. CASE ReceiveTransfer(r)
    BY <1>2, <1>9 DEF ReceiveTransfer
  <1> QED BY <1>3, <1>4, <1>5, <1>6, <1>7, <1>8, <1>9 DEF Receive

LEMMA SerialInvStep ==
    ASSUME OneAtATime, SerialInv, [Next]_vars, ~unsettled'
    PROVE  SerialInv'
  <1>1. ASSUME NEW r \in Requests, Serve(r), UNCHANGED kind PROVE SerialInv'
    BY <1>1, ServeInOrder, SerialStep
  <1>2. ASSUME NEW r \in Requests, Receive(r), UNCHANGED kind PROVE SerialInv'
    <2>1. Types'
      BY <1>2, ReceiveTypes DEF SerialInv
    <2>2. InOrder(req'[r], rules')
      BY <1>2, ReceiveInOrder
    <2>3. InOrder(req[r], rules)'
      <3>1. LeavesGaps' = LeavesGaps
        BY <1>2 DEF LeavesGaps
      <3> QED BY <2>2, <3>1 DEF InOrder, Orderly
    <2> QED BY <1>2, <2>1, <2>3 DEF SerialInv, OneAtATime
  <1>3. CASE UNCHANGED vars
    <2>1. Types'
      BY <1>3, TypesStep DEF SerialInv
    <2>2. LeavesGaps' = LeavesGaps
      BY <1>3 DEF LeavesGaps, vars
    <2> QED BY <1>3, <2>1, <2>2 DEF SerialInv, InOrder, Orderly, vars
  <1> QED BY <1>1, <1>2, <1>3 DEF Next

LEMMA SerialInvAtInit ==
    ASSUME Init
    PROVE  SerialInv
  <1>1. Types /\ nextId \in Nat \ {0}
    BY TypesAtInit DEF Types
  <1>2. DOMAIN rules = 1..(nextId - 1) /\ \A i \in DOMAIN rules : rules[i].order = i
    BY DEF Init
  <1>3. Orderly(rules)
    <2>1. Cardinality(1..(nextId - 1)) = nextId - 1
      BY <1>1, FS_Interval
    <2>2. {rules[i].order : i \in 1..(nextId - 1)} = 1..(nextId - 1)
      BY <1>2
    <2> QED BY <1>2, <2>1, <2>2 DEF Orderly, NoTies, Consecutive
  <1>4. \A r \in Requests : req[r].pc = "idle" /\ req[r].later = NoRows
    BY DEF Init, NoRequest
  <1> QED BY <1>1, <1>3, <1>4 DEF SerialInv, InOrder

\* What is true of a request whatever rules came from other firewalls: no entities wait
\* for a second save when it refreshes, and a move removes nothing.
Lean(x) ==
    /\ x.later # NoRows => x.pc \in {"reload", "write"} /\ x.then = "next"
    /\ x.op = "move" => x.todo = {}

LEMMA LeanServe ==
    ASSUME Types, NEW r \in Requests, Lean(req[r]), Serve(r)
    PROVE  Lean(req'[r])
  <1>1. req[r] \in RequestBelow(nextId) /\ DOMAIN req = Requests
    BY DEF Types
  <1>2. ASSUME Answer(r) PROVE Lean(req'[r])
    BY <1>1, <1>2 DEF Answer, Lean, NoRequest
  <1>3. ASSUME NEW l, Goto(r, l), ~At(r, "reload"), ~At(r, "write")
        PROVE  Lean(req'[r])
    BY <1>1, <1>3 DEF Goto, Lean, At, RequestBelow
  <1>4. ASSUME Abort(r), req[r].later = NoRows PROVE Lean(req'[r])
    <2>1. CASE /\ req[r].op = "create"
               /\ req' = [req EXCEPT ![r].pc = "next", ![r].todo = req[r].ids]
      BY <1>1, <1>4, <2>1 DEF Lean, RequestBelow
    <2> QED BY <1>2, <1>4, <2>1 DEF Abort
  <1>5. ~At(r, "reload") /\ ~At(r, "write") => req[r].later = NoRows
    BY DEF Lean, At
  <1>6. CASE \/ CreateLast(r) \/ CreateInsert(r) \/ StoreInsert(r) \/ StoreVirtualIps(r)
    <2>1. ~At(r, "reload") /\ ~At(r, "write")
      BY <1>6 DEF CreateLast, CreateInsert, StoreInsert, StoreVirtualIps, InsertLast,
                  Step, At
    <2> QED BY <1>1, <1>5, <1>6, <2>1
        DEF CreateLast, CreateInsert, StoreInsert, StoreVirtualIps, Lean, RequestBelow
  <1>7. CASE Preload(r) \/ Validate(r) \/ ValidateObjects(r) \/ Reorder(r)
    <2>1. ~At(r, "reload") /\ ~At(r, "write")
      BY <1>7 DEF Preload, Validate, ValidateObjects, Reorder, Step, At
    <2>2. CASE Answer(r) \/ Abort(r)
      BY <1>2, <1>4, <1>5, <2>1, <2>2
    <2>3. CASE ~(Answer(r) \/ Abort(r))
      BY <1>1, <1>5, <1>7, <2>1, <2>3
      DEF Preload, Validate, ValidateObjects, Reorder, Lean, RequestBelow
    <2> QED BY <2>2, <2>3
  <1>8. CASE Updated(r)
    BY <1>2, <1>3, <1>8 DEF Updated, Step, At
  <1>9. CASE Reload(r)
    BY <1>1, <1>9 DEF Reload, Step, At, Lean, RequestBelow
  <1>10. CASE Write(r)
    <2>1. CASE Inserted(r) \cap DOMAIN rules = {}
      BY <1>1, <1>10, <2>1 DEF Write, Step, At, Lean, RequestBelow
    <2>2. CASE Inserted(r) \cap DOMAIN rules # {}
      <3>1. \/ Answer(r)
            \/ Abort(r) /\ req[r].then # "next"
        BY <1>10, <2>2 DEF Write, Fail
      <3> QED BY <1>2, <1>4, <3>1 DEF Lean
    <2> QED BY <2>1, <2>2
  <1>11. CASE Leave(r) \/ MoveIn(r)
    BY <1>2, <1>11 DEF Leave, MoveIn
  <1>12. CASE LookAtDest(r) \/ Refresh(r)
    BY <1>2, <1>3, <1>12 DEF LookAtDest, Refresh, Step, At
  <1>13. CASE Pick(r)
    <2>1. ~At(r, "reload") /\ ~At(r, "write")
      BY <1>13 DEF Pick, Step, At
    <2>2. ASSUME NEW p,
                 req' = [req EXCEPT ![r].pc = "affected", ![r].sel = p,
                                    ![r].first = rules[p[1]].order]
          PROVE  Lean(req'[r])
      BY <1>1, <1>5, <2>1, <2>2 DEF Lean, RequestBelow
    <2> QED BY <1>2, <1>13, <2>2 DEF Pick
  <1>14. CASE Affected(r) \/ Dest(r) \/ RefreshIds(r)
    <2>1. ~At(r, "reload") /\ ~At(r, "write")
      BY <1>14 DEF Affected, Dest, RefreshIds, Step, At
    <2>2. CASE ~Answer(r)
      BY <1>1, <1>5, <1>14, <2>1, <2>2 DEF Affected, Dest, RefreshIds, Lean, RequestBelow
    <2> QED BY <1>2, <2>2
  <1>15. CASE CopyFind(r) \/ CopyLast(r)
    <2>1. ~At(r, "reload") /\ ~At(r, "write")
      BY <1>15 DEF CopyFind, CopyLast, Step, At
    <2>2. CASE ~Answer(r)
      BY <1>1, <1>5, <1>15, <2>1, <2>2 DEF CopyFind, CopyLast, Lean, RequestBelow
    <2> QED BY <1>2, <2>2
  <1>16. CASE CopyInsert(r)
    <2>1. ~At(r, "reload") /\ ~At(r, "write")
      BY <1>16 DEF CopyInsert, At
    <2>2. PICK p : req' = [req EXCEPT ![r].pc = StartOfMove,
                                      ![r].ids = nextId..(nextId + Len(p) - 1),
                                      ![r].ents = NoRows]
      BY <1>16 DEF CopyInsert
    <2>3. req'[r].later = NoRows /\ req'[r].todo = req[r].todo /\ req'[r].op = req[r].op
      BY <1>1, <1>5, <2>1, <2>2 DEF RequestBelow
    <2> QED BY <2>3 DEF Lean
  <1>17. CASE RemoveNext(r)
    <2>1. ~At(r, "reload") /\ ~At(r, "write")
      BY <1>17 DEF RemoveNext, Step, At
    <2>2. ASSUME NEW i,
                 req' = [req EXCEPT ![r].pc = "reload", ![r].then = "affectedTables",
                                    ![r].ids = {i}, ![r].todo = req[r].todo \ {i},
                                    ![r].ents = Load({i})]
          PROVE  Lean(req'[r])
      <3>1. /\ req'[r].later = NoRows /\ req'[r].todo = req[r].todo \ {i}
            /\ req'[r].op = req[r].op
        BY <1>1, <1>5, <2>1, <2>2 DEF RequestBelow
      <3> QED BY <3>1 DEF Lean
    <2> QED BY <1>2, <1>17, <2>2 DEF RemoveNext
  <1>18. CASE AffectedTables(r) \/ Delete(r)
    <2>1. ~At(r, "reload") /\ ~At(r, "write")
      BY <1>18 DEF AffectedTables, Delete, Step, At
    <2> QED BY <1>1, <1>5, <1>18, <2>1 DEF AffectedTables, Delete, Lean, RequestBelow
  <1>19. CASE FromRule(r) \/ ToRule(r)
    <2>1. ~At(r, "reload") /\ ~At(r, "write")
      BY <1>19 DEF FromRule, ToRule, Step, At
    <2>2. CASE ~Answer(r)
      BY <1>1, <1>5, <1>19, <2>1, <2>2 DEF FromRule, ToRule, Lean, RequestBelow
    <2> QED BY <1>2, <2>2
  <1> QED BY <1>6, <1>7, <1>8, <1>9, <1>10, <1>11, <1>12, <1>13, <1>14, <1>15, <1>16,
             <1>17, <1>18, <1>19 DEF Serve

LEMMA LeanReceive ==
    ASSUME NEW r \in Requests, Receive(r)
    PROVE  Lean(req'[r])
  <1>1. ASSUME NEW op, NEW S, NEW d, NEW w, NEW label, Arrive(r, op, label, S, d, w)
        PROVE  Lean(req'[r])
    <2>1. req'[r] = [NoRequest EXCEPT
                       !.op = op, !.pc = label, !.ids = S, !.dest = d, !.where = w,
                       !.alone = Idle, !.todo = IF op = "remove" THEN S ELSE {}]
      BY <1>1 DEF Arrive
    <2>2. /\ req'[r].op = op /\ req'[r].later = NoRows
          /\ req'[r].todo = IF op = "remove" THEN S ELSE {}
      BY <2>1 DEF NoRequest
    <2> QED BY <2>2 DEF Lean
  <1> QED BY <1>1, ReceiveArrives

\* What holds of a list that rules of other firewalls may have come to: the orders are
\* as before once they are refreshed.
CalmInv ==
    /\ Types
    /\ \A r \in Requests : Lean(req[r])
    /\ ~unsettled => SerialInv

\* Only a refresh of all the rules settles a list.
LEMMA Settles ==
    ASSUME Next, unsettled, ~unsettled'
    PROVE  \E r \in Requests : Refresh(r) /\ DOMAIN rules \subseteq req[r].ids
  <1>1. PICK r \in Requests : Receive(r) \/ Serve(r)
    BY DEF Next
  <1>2. ~UNCHANGED unsettled
    OBVIOUS
  <1>3. ~Receive(r)
    BY <1>2 DEF Receive, ReceiveCreate, ReceiveUpdate, ReceiveMove, ReceiveCopy,
                ReceiveRemove, ReceiveMoveItem, ReceiveTransfer, Arrive
  <1>4. ~(Leave(r) \/ MoveIn(r))
    BY DEF Leave, MoveIn
  <1>5. Refresh(r)
    BY <1>1, <1>2, <1>3, <1>4
    DEF Serve, CreateLast, CreateInsert, StoreInsert, StoreVirtualIps, InsertLast,
        Preload, Validate, ValidateObjects, Reorder, Updated, Reload, Write,
        LookAtDest, Pick, Affected, Dest, RefreshIds, CopyFind, CopyLast, CopyInsert,
        RemoveNext, AffectedTables, Delete, FromRule, ToRule, Step
  <1> QED BY <1>5 DEF Refresh

LEMMA SettledRows ==
    ASSUME OneAtATime, CalmInv, Next, unsettled, ~unsettled'
    PROVE  \E r \in Requests :
             /\ \A q \in Requests : q = r
             /\ req'[r].pc = "next" /\ req'[r].later = NoRows
             /\ req'[r].op = "move" => req'[r].todo = {}
             /\ Orderly(rules')
  <1>1. PICK r \in Requests : Refresh(r) /\ DOMAIN rules \subseteq req[r].ids
    BY Settles
  <1>2. req[r] \in RequestBelow(nextId) /\ DOMAIN req = Requests /\ Types /\ Lean(req[r])
    BY DEF CalmInv, Types
  <1>3. /\ req'[r].pc = "next" /\ req'[r].later = req[r].later
        /\ req'[r].op = req[r].op /\ req'[r].todo = req[r].todo /\ req[r].pc = "refresh"
    BY <1>1, <1>2 DEF Refresh, Goto, At, RequestBelow
  <1>4. req[r].later = NoRows /\ (req[r].op = "move" => req[r].todo = {})
    BY <1>2, <1>3 DEF Lean
  <1>5. req[r].ids \cap DOMAIN rules = DOMAIN rules
    BY <1>1
  <1>6. PICK p \in Listings(rules, DOMAIN rules) : rules' = Renumber(rules, p)
    BY <1>1, <1>5 DEF Refresh
  <1>7. Orderly(rules')
    BY <1>2, <1>6, RulesType, RenumberAll DEF Orderly
  <1>8. \A q \in Requests : q = r
    BY DEF OneAtATime
  <1> QED BY <1>3, <1>4, <1>7, <1>8

LEMMA CalmStep ==
    ASSUME OneAtATime, CalmInv, [Next]_vars
    PROVE  CalmInv'
  <1>1. Types'
    BY TypesStep DEF CalmInv
  <1>2. \A r \in Requests : Lean(req'[r])
    <2>1. CASE Next
      <3>1. PICK r \in Requests : Receive(r) \/ Serve(r)
        BY <2>1 DEF Next
      <3>2. \A q \in Requests : q = r
        BY DEF OneAtATime
      <3> QED BY <3>1, <3>2, LeanServe, LeanReceive DEF CalmInv
    <2>2. CASE UNCHANGED vars
      BY <2>2 DEF vars, CalmInv
    <2> QED BY <2>1, <2>2
  <1>3. ASSUME ~unsettled' PROVE SerialInv'
    <2>1. CASE ~unsettled
      BY <1>3, <2>1, SerialInvStep DEF CalmInv
    <2>2. CASE unsettled
      <3>1. Next /\ UNCHANGED kind
        BY <1>3, <2>2 DEF vars, Next
      <3>2. PICK r \in Requests :
               /\ \A q \in Requests : q = r
               /\ req'[r].pc = "next" /\ req'[r].later = NoRows
               /\ req'[r].op = "move" => req'[r].todo = {}
               /\ Orderly(rules')
        BY <1>3, <2>2, <3>1, SettledRows
      <3>3. LeavesGaps' = LeavesGaps
        BY <3>1 DEF LeavesGaps
      <3>4. InOrder(req[r], rules)'
        BY <3>2, <3>3 DEF InOrder, Orderly
      <3> QED BY <1>1, <3>2, <3>4 DEF SerialInv
    <2> QED BY <2>1, <2>2
  <1> QED BY <1>1, <1>2, <1>3 DEF CalmInv, Lean

LEMMA CalmAtInit ==
    ASSUME Init
    PROVE  CalmInv
  <1>1. \A r \in Requests : Lean(req[r])
    BY DEF Init, NoRequest, Lean
  <1> QED BY <1>1, TypesAtInit, SerialInvAtInit DEF CalmInv

LEMMA CalmAlways ==
    ASSUME OneAtATime
    PROVE  Spec => []CalmInv
  <1>1. Init => CalmInv
    BY CalmAtInit
  <1>2. CalmInv /\ [Next]_vars => CalmInv'
    BY CalmStep
  <1> QED BY <1>1, <1>2, PTL DEF Spec

LEMMA SerialAtRest ==
    ASSUME SerialInv, Idle
    PROVE  Orderly(rules)
  <1>1. \A r \in Requests : req[r].pc = "idle"
    BY DEF Idle, At
  <1> QED BY <1>1 DEF SerialInv, InOrder

\* Served one at a time, creations, copies, moves (of any selection, with gaps or
\* not) and removals of routes and routing rules leave the orders 1, 2, ..., n; an
\* update that takes a rule from one firewall to another may not, until the next refresh.
THEOREM OneAtATimeConsecutive ==
    ASSUME OneAtATime
    PROVE  Spec => []ConsecutiveAtRest
  <1>1. CalmInv => ConsecutiveAtRest
    BY SerialAtRest DEF ConsecutiveAtRest, Orderly, CalmInv
  <1> QED BY <1>1, CalmAlways, PTL

\* Served one at a time, no operation on the rules of a firewall leaves two rules of any
\* kind with the same order, although removing DHCP, HAProxy or Keepalived rules, or an
\* update that takes them to another firewall, leaves gaps.  A rule that such an update
\* brings here may share an order, until the next refresh.
THEOREM OneAtATimeDistinct ==
    ASSUME OneAtATime
    PROVE  Spec => []DistinctAtRest
  <1>1. CalmInv => DistinctAtRest
    BY SerialAtRest DEF DistinctAtRest, Orderly, CalmInv
  <1> QED BY <1>1, CalmAlways, PTL

(***************************************************************************)
(* The arithmetic of a move.                                               *)
(***************************************************************************)
\* A move the way move() prepares it: a table without ties, a selection by
\* ascending order, and no rule that stays among the orders it spans.
WellPrepared(rows, sel, first, d, where) ==
    /\ NoTies(rows)
    /\ \A i \in DOMAIN rows : rows[i] \in Row
    /\ sel \in Seq(DOMAIN rows) /\ sel # << >>
    /\ \A j, k \in DOMAIN sel : sel[j] = sel[k] => j = k
    /\ first \in Nat
    /\ \A i \in DOMAIN rows :
         i \in Members(sel) \/ rows[i].order \notin first..(first + Len(sel) - 1)
    /\ d \in DOMAIN rows /\ d \notin Members(sel)
    /\ where \in {"above", "below"}

\* The order before the first that the selection gets.
Edge(t, where) == IF where = "above" THEN t - 1 ELSE t

\* PositionIn finds a place of the selection (indexOf after includes).
LEMMA PositionFound ==
    ASSUME NEW sel, NEW i \in Members(sel)
    PROVE  PositionIn(sel, i) \in DOMAIN sel /\ sel[PositionIn(sel, i)] = i
  BY DEF Members, PositionIn

\* A rule that stays keeps its side of the landing place, ...
LEMMA StaysOnItsSide ==
    ASSUME NEW n \in Nat, n >= 1, NEW first \in Nat, NEW t \in Nat,
           NEW where \in {"above", "below"}, t \notin first..(first + n - 1),
           NEW o \in Nat, o \notin first..(first + n - 1)
    PROVE  /\ Shifted(o, n, first, t, where) \in Nat
           /\ o > Edge(t, where)
                => Shifted(o, n, first, t, where) > Edge(t, where) + n
           /\ o <= Edge(t, where)
                => Shifted(o, n, first, t, where) <= Edge(t, where)
  BY DEF Shifted, Beyond, Edge

\* ... the destination ends up right beyond the selection, or right before it ...
LEMMA DestinationGives ==
    ASSUME NEW n \in Nat, n >= 1, NEW first \in Nat, NEW t \in Nat,
           NEW where \in {"above", "below"}, t \notin first..(first + n - 1)
    PROVE  Shifted(t, n, first, t, where)
             = IF where = "above" THEN Edge(t, where) + n + 1 ELSE Edge(t, where)
  BY DEF Shifted, Beyond, Edge

\* ... and its place among the other rules that stay.
LEMMA StaysInOrder ==
    ASSUME NEW n \in Nat, n >= 1, NEW first \in Nat, NEW t \in Nat,
           NEW where \in {"above", "below"},
           NEW o \in Nat, o \notin first..(first + n - 1),
           NEW q \in Nat, q \notin first..(first + n - 1), o < q
    PROVE  Shifted(o, n, first, t, where) < Shifted(q, n, first, t, where)
  BY DEF Shifted, Beyond

LEMMA WellPreparedFacts ==
    ASSUME NEW rows, NEW sel, NEW first, NEW d, NEW where,
           WellPrepared(rows, sel, first, d, where)
    PROVE  /\ Len(sel) \in Nat /\ Len(sel) >= 1 /\ DOMAIN sel = 1..Len(sel)
           /\ \A i \in DOMAIN rows : rows[i].order \in Nat
           /\ rows[d].order \in Nat
           /\ \A k \in 1..Len(sel) : /\ sel[k] \in DOMAIN rows /\ sel[k] \in Members(sel)
                                     /\ PositionIn(sel, sel[k]) = k
           /\ \A i \in Members(sel) : PositionIn(sel, i) \in 1..Len(sel)
  <1>1. Len(sel) \in Nat /\ Len(sel) >= 1 /\ DOMAIN sel = 1..Len(sel)
    BY DEF WellPrepared
  <1>2. \A k \in 1..Len(sel) : sel[k] \in DOMAIN rows /\ sel[k] \in Members(sel)
    BY <1>1 DEF WellPrepared, Members
  <1>3. \A k \in 1..Len(sel) : PositionIn(sel, sel[k]) = k
    BY <1>1, <1>2, PositionFound DEF WellPrepared
  <1>4. \A i \in DOMAIN rows : rows[i].order \in Nat
    BY DEF WellPrepared, Row
  <1> QED BY <1>1, <1>2, <1>3, <1>4, PositionFound DEF WellPrepared

\* Where everything is after a move.
LEMMA AfterMove ==
    ASSUME NEW rows, NEW sel, NEW first, NEW d, NEW where,
           WellPrepared(rows, sel, first, d, where),
           NEW new, DOMAIN new = DOMAIN rows,
           \A i \in DOMAIN rows :
             new[i].order = IF i \in Members(sel)
                            THEN Landing(sel, i, rows[d].order, where)
                            ELSE Shifted(rows[i].order, Len(sel), first,
                                         rows[d].order, where),
           NEW edge, edge = Edge(rows[d].order, where)
    PROVE  /\ edge \in Int
           /\ \A i \in DOMAIN rows : new[i].order \in Int
           /\ \A k \in 1..Len(sel) : new[sel[k]].order = edge + k
           /\ \A i \in DOMAIN rows \ Members(sel) :
                /\ rows[i].order > edge => new[i].order > edge + Len(sel)
                /\ rows[i].order <= edge => new[i].order <= edge
           /\ \A i, j \in DOMAIN rows \ Members(sel) :
                rows[i].order < rows[j].order => new[i].order < new[j].order
           /\ new[d].order = IF where = "above" THEN edge + Len(sel) + 1 ELSE edge
           /\ NoTies(new)
  <1> DEFINE n == Len(sel)
             t == rows[d].order
             M == Members(sel)
  <1>1. /\ n \in Nat /\ n >= 1 /\ DOMAIN sel = 1..n /\ t \in Nat
        /\ first \in Nat /\ where \in {"above", "below"}
        /\ edge = Edge(t, where) /\ edge \in Int
    <2>1. n \in Nat /\ n >= 1 /\ DOMAIN sel = 1..n /\ t \in Nat
      BY WellPreparedFacts
    <2>2. first \in Nat /\ where \in {"above", "below"}
      BY DEF WellPrepared
    <2> QED BY <2>1, <2>2 DEF Edge
  <1>2. \A i \in DOMAIN rows \ M :
          rows[i].order \in Nat /\ rows[i].order \notin first..(first + n - 1)
    <2> TAKE i \in DOMAIN rows \ M
    <2>1. rows[i].order \in Nat
      BY WellPreparedFacts
    <2>2. i \in M \/ rows[i].order \notin first..(first + n - 1)
      BY DEF WellPrepared
    <2> QED BY <2>1, <2>2
  <1>3. d \in DOMAIN rows \ M
    BY DEF WellPrepared
  <1>4. \A i \in DOMAIN rows \ M :
          new[i].order = Shifted(rows[i].order, n, first, t, where)
    OBVIOUS
  <1>5. \A k \in 1..n : new[sel[k]].order = edge + k
    <2> TAKE k \in 1..n
    <2>1. sel[k] \in DOMAIN rows /\ sel[k] \in M /\ PositionIn(sel, sel[k]) = k
      BY WellPreparedFacts
    <2>2. new[sel[k]].order = Landing(sel, sel[k], t, where)
      BY <2>1
    <2> QED BY <1>1, <2>1, <2>2 DEF Landing, Edge
  <1>6. \A i \in M : \E k \in 1..n : sel[k] = i
    BY <1>1 DEF Members
  <1> HIDE DEF n, t, M
  <1>t. t \notin first..(first + n - 1)
    BY <1>2, <1>3 DEF t
  <1>7. ASSUME NEW i \in DOMAIN rows \ M
        PROVE  /\ new[i].order \in Nat
               /\ rows[i].order > edge => new[i].order > edge + n
               /\ rows[i].order <= edge => new[i].order <= edge
    <2>1. /\ rows[i].order \in Nat /\ rows[i].order \notin first..(first + n - 1)
          /\ new[i].order = Shifted(rows[i].order, n, first, t, where)
      BY <1>2, <1>4
    <2> DEFINE o == rows[i].order
               m == new[i].order
    <2> HIDE DEF o, m
    <2>2. o \in Nat /\ o \notin first..(first + n - 1) /\ m = Shifted(o, n, first, t, where)
      BY <2>1 DEF o, m
    <2>3. m \in Nat /\ (o > edge => m > edge + n) /\ (o <= edge => m <= edge)
      <3>1. /\ Shifted(o, n, first, t, where) \in Nat
            /\ o > Edge(t, where)
                 => Shifted(o, n, first, t, where) > Edge(t, where) + n
            /\ o <= Edge(t, where)
                 => Shifted(o, n, first, t, where) <= Edge(t, where)
        BY <1>1, <1>t, <2>2, StaysOnItsSide
      <3> QED BY <1>1, <2>2, <3>1
    <2> QED BY <2>3 DEF o, m
  <1>8. ASSUME NEW i \in DOMAIN rows \ M, NEW j \in DOMAIN rows \ M,
               rows[i].order < rows[j].order
        PROVE  new[i].order < new[j].order
    <2> DEFINE o == rows[i].order
               q == rows[j].order
    <2>1. /\ o \in Nat /\ o \notin first..(first + n - 1)
          /\ q \in Nat /\ q \notin first..(first + n - 1) /\ o < q
          /\ new[i].order = Shifted(o, n, first, t, where)
          /\ new[j].order = Shifted(q, n, first, t, where)
      BY <1>2, <1>4, <1>8
    <2> HIDE DEF o, q
    <2>2. Shifted(o, n, first, t, where) < Shifted(q, n, first, t, where)
      BY <1>1, <2>1, StaysInOrder
    <2> QED BY <2>1, <2>2
  <1>9. new[d].order = IF where = "above" THEN edge + n + 1 ELSE edge
    <2>1. new[d].order = Shifted(t, n, first, t, where)
      BY <1>3, <1>4 DEF t
    <2>2. Shifted(t, n, first, t, where)
            = IF where = "above" THEN Edge(t, where) + n + 1 ELSE Edge(t, where)
      BY <1>1, <1>t, DestinationGives
    <2> QED BY <1>1, <2>1, <2>2
  <1>10. \A i \in DOMAIN rows : new[i].order \in Int
    BY <1>1, <1>5, <1>6, <1>7
  <1>11. ASSUME NEW i \in DOMAIN rows, NEW j \in DOMAIN rows,
                new[i].order = new[j].order
         PROVE  i = j
    <2>1. ASSUME NEW k \in M PROVE new[k].order \in (edge + 1)..(edge + n)
      BY <1>1, <1>5, <1>6
    <2>2. ASSUME NEW k \in DOMAIN rows \ M
          PROVE  new[k].order \notin (edge + 1)..(edge + n)
      <3>1. rows[k].order > edge \/ rows[k].order <= edge
        BY <1>1, <1>2
      <3> QED BY <1>1, <1>7, <3>1
    <2>3. CASE i \in M /\ j \in M
      <3>1. PICK k \in 1..n, l \in 1..n : sel[k] = i /\ sel[l] = j
        BY <1>6, <2>3
      <3> QED BY <1>1, <1>5, <1>11, <3>1
    <2>4. CASE i \notin M /\ j \notin M
      <3>1. rows[i].order = rows[j].order
        BY <1>2, <1>8, <1>10, <1>11, <2>4
      <3> QED BY <3>1 DEF WellPrepared, NoTies
    <2> QED BY <1>11, <2>1, <2>2, <2>3, <2>4
  <1>12. NoTies(new)
    BY <1>11 DEF NoTies
  <1> QED BY <1>1, <1>5, <1>7, <1>8, <1>9, <1>10, <1>12 DEF n, M

\* moveAbove and moveBelow give two routes the same order only if two had the
\* same order before, provided that no rule that stays has an order among those
\* the selection spans; so the refresh that follows has no tie to break.
THEOREM MoveKeepsOrdersDistinct ==
    ASSUME NEW rows, NEW sel, NEW first, NEW d, NEW where,
           WellPrepared(rows, sel, first, d, where)
    PROVE  NoTies(MoveRoutes(rows, sel, first, rows[d], where))
  <1> DEFINE new == MoveRoutes(rows, sel, first, rows[d], where)
  <1>1. DOMAIN new = DOMAIN rows
    BY DEF MoveRoutes
  <1>2. ASSUME NEW i \in DOMAIN rows
        PROVE  new[i].order
                 = IF i \in Members(sel)
                   THEN Landing(sel, i, rows[d].order, where)
                   ELSE Shifted(rows[i].order, Len(sel), first, rows[d].order, where)
    <2>1. rows[i] \in Row
      BY DEF WellPrepared
    <2>2. CASE i \in Members(sel)
      BY <2>2 DEF MoveRoutes
    <2>3. CASE i \notin Members(sel)
      BY <2>1, <2>3 DEF MoveRoutes, Row
    <2> QED BY <2>2, <2>3
  <1> HIDE DEF new
  <1> QED BY <1>1, <1>2, AfterMove DEF new

\* The rules moved join the group of the destination and stand next to it: if the
\* groups of the others were in one piece, then all are.
LEMMA MoveKeepsGroups ==
    ASSUME NEW rows, NEW sel, NEW first, NEW d, NEW where,
           WellPrepared(rows, sel, first, d, where),
           NEW new, DOMAIN new = DOMAIN rows,
           \A i \in DOMAIN rows :
             /\ new[i].order = IF i \in Members(sel)
                               THEN Landing(sel, i, rows[d].order, where)
                               ELSE Shifted(rows[i].order, Len(sel), first,
                                            rows[d].order, where)
             /\ new[i].group = IF i \in Members(sel) THEN rows[d].group
                                                     ELSE rows[i].group,
           Grouped(rows, DOMAIN rows \ Members(sel))
    PROVE  Grouped(new, DOMAIN new)
  <1> DEFINE M == Members(sel)
             D == DOMAIN rows
             edge == Edge(rows[d].order, where)
             n == Len(sel)
             Rep(i) == IF i \in M THEN d ELSE i
  <1>1. /\ edge \in Int
        /\ \A i \in D : new[i].order \in Int
        /\ \A k \in 1..n : new[sel[k]].order = edge + k
        /\ \A i \in D \ M : /\ rows[i].order > edge => new[i].order > edge + n
                            /\ rows[i].order <= edge => new[i].order <= edge
        /\ \A i, j \in D \ M : rows[i].order < rows[j].order
                                 => new[i].order < new[j].order
    BY AfterMove
  <1>2. /\ n \in Nat /\ rows[d].order \in Nat /\ DOMAIN sel = 1..n
        /\ \A i \in D : rows[i].order \in Nat
    BY WellPreparedFacts
  <1>3. d \in D \ M /\ where \in {"above", "below"} /\ NoTies(rows)
    BY DEF WellPrepared
  <1>4. \A i \in M : new[i].order >= edge + 1 /\ new[i].order <= edge + n
    <2> TAKE i \in M
    <2>1. PICK k \in 1..n : sel[k] = i
      BY <1>2 DEF Members
    <2> QED BY <1>1, <1>2, <2>1
  <1>5. \A i \in D : new[i].group = rows[Rep(i)].group /\ Rep(i) \in D \ M
    BY <1>3
  <1>6. edge < rows[d].order \/ edge = rows[d].order
    BY <1>2, <1>3 DEF Edge
  <1>7. \A o \in Nat : o > edge => o >= rows[d].order
    BY <1>2, <1>3 DEF Edge
  <1> HIDE DEF M, D, edge, n
  <1>8. ASSUME NEW i \in D, NEW j \in D, new[i].order < new[j].order
        PROVE  Rep(i) = Rep(j) \/ rows[Rep(i)].order < rows[Rep(j)].order
    <2>1. CASE i \in M /\ j \in M
      BY <2>1
    <2>2. CASE i \in M /\ j \notin M
      <3>1. rows[j].order > edge
        BY SMTT(30), <1>1, <1>2, <1>4, <1>8, <2>2
      <3>2. rows[j].order >= rows[d].order
        BY <1>2, <1>7, <3>1
      <3>3. rows[j].order = rows[d].order => j = d
        BY <1>3 DEF NoTies, D
      <3> QED BY <1>2, <2>2, <3>2, <3>3
    <2>3. CASE i \notin M /\ j \in M
      <3>1. rows[i].order <= edge
        BY SMTT(30), <1>1, <1>2, <1>4, <1>8, <2>3
      <3>2. rows[i].order <= rows[d].order
        BY <1>1, <1>2, <1>6, <3>1
      <3>3. rows[i].order = rows[d].order => i = d
        BY <1>3 DEF NoTies, D
      <3> QED BY <1>2, <2>3, <3>2, <3>3
    <2>4. CASE i \notin M /\ j \notin M
      <3>1. ~(rows[j].order < rows[i].order)
        BY <1>1, <1>8, <2>4
      <3>2. rows[i].order = rows[j].order => i = j
        BY <1>3 DEF NoTies, D
      <3> QED BY <1>2, <2>4, <3>1, <3>2
    <2> QED BY <2>1, <2>2, <2>3, <2>4
  <1>9. SUFFICES ASSUME NEW i \in D, NEW j \in D, NEW k \in D,
                        new[i].order < new[j].order, new[j].order < new[k].order,
                        new[i].group = new[k].group
                 PROVE  new[i].group \in {NoGroup, new[j].group}
    BY DEF Grouped, D
  <1>10. Rep(i) = Rep(j) \/ rows[Rep(i)].order < rows[Rep(j)].order
    BY <1>8, <1>9
  <1>11. Rep(j) = Rep(k) \/ rows[Rep(j)].order < rows[Rep(k)].order
    BY <1>8, <1>9
  <1>12. CASE Rep(i) = Rep(j) \/ Rep(j) = Rep(k)
    BY <1>5, <1>9, <1>12
  <1>13. CASE /\ rows[Rep(i)].order < rows[Rep(j)].order
              /\ rows[Rep(j)].order < rows[Rep(k)].order
    <2>1. Rep(i) \in D \ M /\ Rep(j) \in D \ M /\ Rep(k) \in D \ M
      BY <1>5
    <2>2. rows[Rep(i)].group = rows[Rep(k)].group
      BY <1>5, <1>9
    <2>3. rows[Rep(i)].group \in {NoGroup, rows[Rep(j)].group}
      <3> HIDE DEF Rep
      <3> QED BY <1>13, <2>1, <2>2 DEF Grouped, D, M
    <2> QED BY <1>5, <2>3
  <1> QED BY <1>10, <1>11, <1>12, <1>13
\* A property that holds at 1 and passes from each number to the next one holds
\* up to n: stated for a set, since the provers take no operator as a parameter.
LEMMA UpTo ==
    ASSUME NEW n \in Nat, NEW Good \in SUBSET (1..n),
           n >= 1 => 1 \in Good,
           \A k \in Good : k < n => k + 1 \in Good
    PROVE  1..n \subseteq Good
  <1> DEFINE Bad == 1..n \ Good
             R == OpToRel(<, Nat)
  <1>1. SUFFICES ASSUME Bad # {} PROVE FALSE
    OBVIOUS
  <1>2. PICK k \in Bad : \A l \in Bad : ~ (l < k)
    <2>1. IsWellFoundedOn(R, Nat)
      BY NatLessThanWellFounded
    <2>2. Bad \subseteq Nat
      OBVIOUS
    <2>3. \A u, v \in Nat : u < v => <<u, v>> \in R
      BY DEF OpToRel
    <2> HIDE DEF Bad, R
    <2>4. PICK k \in Bad : \A l \in Bad : ~ (<<l, k>> \in R)
      BY <1>1, <2>1, <2>2, WFMin
    <2> QED BY <2>2, <2>3, <2>4
  <1>3. k # 1
    BY <1>2
  <1>4. k - 1 \in 1..n /\ k - 1 < k
    BY <1>2, <1>3
  <1>5. k - 1 \in Good
    BY <1>2, <1>4
  <1> QED BY <1>2, <1>4, <1>5

\* n rules by strictly ascending order span at least n orders.
LEMMA SpanIsLong ==
    ASSUME NEW n \in Nat, NEW g, \A k \in 1..n : g[k] \in Nat,
           \A j, k \in 1..n : j < k => g[j] < g[k]
    PROVE  \A k \in 1..n : g[k] >= g[1] + k - 1
  <1> DEFINE Good == {k \in 1..n : g[k] >= g[1] + k - 1}
  <1>1. n >= 1 => 1 \in Good
    OBVIOUS
  <1>2. \A k \in Good : k < n => k + 1 \in Good
    <2> SUFFICES ASSUME NEW k \in 1..n, g[k] >= g[1] + k - 1, k < n
                 PROVE  g[k + 1] >= g[1] + (k + 1) - 1
      OBVIOUS
    <2>1. k + 1 \in 1..n /\ 1 \in 1..n /\ k < k + 1
      OBVIOUS
    <2>2. g[k] < g[k + 1] /\ g[k] \in Nat /\ g[k + 1] \in Nat /\ g[1] \in Nat
      BY <2>1
    <2> QED BY <2>2
  <1>3. Good \in SUBSET (1..n)
    OBVIOUS
  <1> HIDE DEF Good
  <1>4. 1..n \subseteq Good
    BY <1>1, <1>2, <1>3, UpTo
  <1> QED BY <1>4 DEF Good

\* The rules that one request may select: no rule that stays is between them.
Block(rows, S) ==
    \A i, k \in S : \A j \in DOMAIN rows \ S :
        ~ (rows[i].order < rows[j].order /\ rows[j].order < rows[k].order)

LEMMA SelectionPrepared ==
    ASSUME NEW D, IsFiniteSet(D), NEW rows \in [D -> Row], NoTies(rows),
           NEW S \in SUBSET D, S # {}, Block(rows, S), NEW sel \in Listings(rows, S),
           NEW d \in D \ S, NEW where \in {"above", "below"},
           D \subseteq Nat
    PROVE  /\ WellPrepared(rows, sel, rows[sel[1]].order, d, where)
           /\ Members(sel) = S /\ rows[sel[1]].order \in Nat
  <1> DEFINE n == Len(sel)
             first == rows[sel[1]].order
             g == [k \in 1..n |-> rows[sel[k]].order]
  <1>1. IsFiniteSet(S) /\ Cardinality(S) # 0
    BY FS_Subset, FS_EmptySet
  <1>2. /\ Cardinality(S) \in Nat /\ DOMAIN sel = 1..Cardinality(S)
        /\ Members(sel) = S
        /\ \A k \in 1..Cardinality(S) : sel[k] \in S /\ PositionIn(sel, sel[k]) = k
    BY <1>1, ListsAll
  <1>3. sel \in [1..Cardinality(S) -> S]
    BY DEF Listings
  <1>4. sel \in Seq(D) /\ n = Cardinality(S) /\ n >= 1 /\ n \in Nat
    <2>1. sel \in Seq(D)
      <3> DEFINE c == Cardinality(S)
      <3>1. c \in Nat /\ sel \in [1..c -> D]
        BY <1>2, <1>3
      <3> HIDE DEF c
      <3> QED BY <3>1
    <2>2. n = Cardinality(S)
      BY <1>2, <1>3
    <2> QED BY <1>1, <1>2, <2>1, <2>2
  <1>5. sel # << >>
    BY <1>4
  <1>6. \A j, k \in 1..n : sel[j] = sel[k] => j = k
    BY <1>2, <1>4
  <1>7. \A k \in 1..n : sel[k] \in S /\ sel[k] \in D /\ rows[sel[k]].order \in Nat
    BY <1>2, <1>4 DEF Row
  <1>8. \A j, k \in 1..n : j < k => rows[sel[j]].order < rows[sel[k]].order
    <2> SUFFICES ASSUME NEW j \in 1..n, NEW k \in 1..n, j < k
                 PROVE  rows[sel[j]].order < rows[sel[k]].order
      OBVIOUS
    <2>1. rows[sel[j]].order <= rows[sel[k]].order
      BY <1>4 DEF Listings
    <2>2. rows[sel[j]].order # rows[sel[k]].order
      <3>1. sel[j] # sel[k] /\ sel[j] \in D /\ sel[k] \in D
        BY <1>6, <1>7
      <3> QED BY <3>1 DEF NoTies
    <2> QED BY <1>7, <2>1, <2>2
  <1>9. rows[sel[n]].order >= first + n - 1
    <2>1. \A k \in 1..n : g[k] \in Nat
      BY <1>7
    <2>2. \A j, k \in 1..n : j < k => g[j] < g[k]
      BY <1>8
    <2>3. n \in 1..n /\ 1 \in 1..n
      BY <1>4
    <2>4. g[n] >= g[1] + n - 1
      <3> HIDE DEF g, n
      <3> QED BY <1>4, <2>1, <2>2, <2>3, SpanIsLong
    <2> QED BY <2>3, <2>4
  <1>10. ASSUME NEW i \in D, i \notin S
         PROVE  rows[i].order \notin first..(first + n - 1)
    <2>1. 1 \in 1..n /\ n \in 1..n
      BY <1>4
    <2>2. sel[1] \in S /\ sel[n] \in S
      BY <1>7, <2>1
    <2>3. /\ rows[i].order \in Nat /\ first \in Nat /\ rows[sel[n]].order \in Nat
      BY <1>7, <2>1 DEF Row
    <2>4. rows[i].order # first /\ rows[i].order # rows[sel[n]].order
      BY <1>10, <2>2 DEF NoTies
    <2>5. ~ (first < rows[i].order /\ rows[i].order < rows[sel[n]].order)
      BY <1>10, <2>2 DEF Block
    <2> QED BY <1>4, <1>9, <2>3, <2>4, <2>5
  <1>11. DOMAIN rows = D /\ \A i \in D : rows[i] \in Row
    OBVIOUS
  <1>12. first \in Nat
    BY <1>4, <1>7
  <1> HIDE DEF n, first
  <1>13. \A i \in D : i \in Members(sel) \/ rows[i].order \notin first..(first + n - 1)
    BY <1>2, <1>10
  <1>14. \A j, k \in DOMAIN sel : sel[j] = sel[k] => j = k
    BY <1>2, <1>4, <1>6
  <1>15. WellPrepared(rows, sel, first, d, where)
    BY <1>2, <1>4, <1>5, <1>11, <1>12, <1>13, <1>14 DEF WellPrepared, n
  <1> QED BY <1>2, <1>12, <1>15 DEF first

\* The rules moved join the destination, those that stay make room.
Dropped(rows, sel, first, d, where, new) ==
    /\ DOMAIN new = DOMAIN rows
    /\ \A i \in DOMAIN rows :
         /\ new[i].order = IF i \in Members(sel)
                           THEN Landing(sel, i, rows[d].order, where)
                           ELSE Shifted(rows[i].order, Len(sel), first,
                                        rows[d].order, where)
         /\ new[i].group = IF i \in Members(sel) THEN rows[d].group
                                                 ELSE rows[i].group

\* What both repositories compute, as long as routing rules are outside groups.
LEMMA MovedIs ==
    ASSUME NEW D, NEW rows \in [D -> Row], NEW sel, NEW first, NEW d \in D, NEW where,
           kind = "rule" => rows[d].group = NoGroup
    PROVE  Dropped(rows, sel, first, d, where,
                   Moved(rows, sel, first, rows[d], where))
  <1> DEFINE new == Moved(rows, sel, first, rows[d], where)
  <1>1. DOMAIN new = D
    BY DEF Moved, MoveRoutes, MoveRoutingRules
  <1>2. ASSUME NEW i \in D
        PROVE  /\ new[i].order = IF i \in Members(sel)
                                 THEN Landing(sel, i, rows[d].order, where)
                                 ELSE Shifted(rows[i].order, Len(sel), first,
                                              rows[d].order, where)
               /\ new[i].group = IF i \in Members(sel) THEN rows[d].group
                                                       ELSE rows[i].group
    <2>1. rows[i] \in Row
      OBVIOUS
    <2>2. CASE kind = "rule"
      <3>1. CASE i \in Members(sel)
        BY <2>2, <3>1 DEF Moved, MoveRoutingRules
      <3>2. CASE i \notin Members(sel)
        BY <2>1, <2>2, <3>2 DEF Moved, MoveRoutingRules, Row
      <3> QED BY <3>1, <3>2
    <2>3. CASE kind # "rule"
      <3>1. CASE i \in Members(sel)
        BY <2>3, <3>1 DEF Moved, MoveRoutes
      <3>2. CASE i \notin Members(sel)
        BY <2>1, <2>3, <3>2 DEF Moved, MoveRoutes, Row
      <3> QED BY <3>1, <3>2
    <2> QED BY <2>2, <2>3
  <1> HIDE DEF new
  <1>3. Dropped(rows, sel, first, d, where, new)
    BY <1>1, <1>2 DEF Dropped
  <1> QED BY <1>3 DEF new
\* The refresh keeps the order of the rules, and neighbours stay neighbours.
LEMMA RefreshKeepsOrder ==
    ASSUME NEW S, IsFiniteSet(S), NEW rows \in [S -> Row], NoTies(rows),
           NEW p \in Listings(rows, S), NEW new, new = Renumber(rows, p)
    PROVE  /\ \A i, j \in S :
                new[i].order < new[j].order => rows[i].order < rows[j].order
           /\ \A i, j \in S :
                rows[i].order < rows[j].order => new[i].order < new[j].order
           /\ \A i, j \in S : rows[j].order = rows[i].order + 1
                                => new[j].order = new[i].order + 1
           /\ Grouped(rows, S) => Grouped(new, DOMAIN new)
  <1>1. /\ \A i \in S : /\ new[i].order = PositionIn(p, i)
                        /\ new[i].group = rows[i].group
        /\ \A i \in S : new[i].order \in Nat
        /\ DOMAIN new = S
    BY RenumberAll
  <1>2. /\ DOMAIN p = 1..Cardinality(S) /\ Cardinality(S) \in Nat
        /\ \A i \in S : /\ PositionIn(p, i) \in 1..Cardinality(S)
                        /\ p[PositionIn(p, i)] = i
        /\ \A k \in 1..Cardinality(S) : p[k] \in S /\ PositionIn(p, p[k]) = k
    BY ListsAll
  <1>3. \A i \in S : rows[i].order \in Nat
    BY DEF Row
  <1>4. \A i, j \in S : rows[i].order = rows[j].order => i = j
    BY DEF NoTies
  <1>5. ASSUME NEW i \in S, NEW j \in S, new[i].order < new[j].order
        PROVE  rows[i].order < rows[j].order
    <2> DEFINE k == PositionIn(p, i)
               l == PositionIn(p, j)
    <2>1. k \in 1..Cardinality(S) /\ l \in 1..Cardinality(S) /\ k < l
          /\ p[k] = i /\ p[l] = j
      BY <1>1, <1>2, <1>5
    <2>2. p[k] # p[l] /\ rows[p[k]].order <= rows[p[l]].order
      <3> HIDE DEF k, l
      <3> QED BY <2>1 DEF Listings
    <2> HIDE DEF k, l
    <2>3. i # j /\ rows[i].order <= rows[j].order
      BY <2>1, <2>2
    <2> QED BY <1>3, <1>4, <2>3
  <1>6. ASSUME NEW i \in S, NEW j \in S, rows[i].order < rows[j].order
        PROVE  new[i].order < new[j].order
    <2>1. ~ (new[j].order < new[i].order)
      BY <1>3, <1>5, <1>6
    <2>2. new[i].order # new[j].order
      <3>1. new[i].order = new[j].order => i = j
        BY <1>1, <1>2
      <3> QED BY <1>3, <1>6, <3>1
    <2> QED BY <1>1, <2>1, <2>2
  <1>7. ASSUME NEW i \in S, NEW j \in S, rows[j].order = rows[i].order + 1
        PROVE  new[j].order = new[i].order + 1
    <2>1. new[i].order < new[j].order
      BY <1>3, <1>6, <1>7
    <2>2. SUFFICES ASSUME new[i].order + 1 < new[j].order PROVE FALSE
      BY <1>1, <2>1
    <2> DEFINE e == p[new[i].order + 1]
    <2>3. new[i].order + 1 \in 1..Cardinality(S)
      BY <1>1, <1>2, <2>2
    <2>4. e \in S /\ new[e].order = new[i].order + 1
      BY <1>1, <1>2, <2>3
    <2> HIDE DEF e
    <2>5. rows[i].order < rows[e].order /\ rows[e].order < rows[j].order
      <3>1. new[i].order < new[e].order /\ new[e].order < new[j].order
        BY <1>1, <2>2, <2>4
      <3> QED BY <1>5, <2>4, <3>1
    <2> QED BY <1>3, <1>7, <2>4, <2>5
  <1>8. Grouped(rows, S) => Grouped(new, DOMAIN new)
    <2> SUFFICES ASSUME Grouped(rows, S), NEW i \in S, NEW j \in S, NEW k \in S,
                        new[i].order < new[j].order, new[j].order < new[k].order,
                        new[i].group = new[k].group
                 PROVE  new[i].group \in {NoGroup, new[j].group}
      BY <1>1 DEF Grouped
    <2>1. rows[i].order < rows[j].order /\ rows[j].order < rows[k].order
      BY <1>5
    <2>2. rows[i].group = rows[k].group
      BY <1>1
    <2>3. rows[i].group \in {NoGroup, rows[j].group}
      BY <2>1, <2>2 DEF Grouped
    <2> QED BY <1>1, <2>3
  <1> QED BY <1>5, <1>6, <1>7, <1>8

\* A run of neighbours stays one.
Runs(S, rows, new) ==
    \A n \in Nat : \A c :
        /\ \A k \in 0..n : c[k] \in S
        /\ \A k \in 0..n : k < n => rows[c[k + 1]].order = rows[c[k]].order + 1
        => \A k \in 0..n : new[c[k]].order = new[c[0]].order + k

LEMMA RefreshKeepsRun ==
    ASSUME NEW S, IsFiniteSet(S), NEW rows \in [S -> Row], NoTies(rows),
           NEW p \in Listings(rows, S), NEW new, new = Renumber(rows, p)
    PROVE  Runs(S, rows, new)
  <1> SUFFICES ASSUME NEW n \in Nat, NEW c, \A k \in 0..n : c[k] \in S,
                      \A k \in 0..n : k < n => rows[c[k + 1]].order
                                                  = rows[c[k]].order + 1
               PROVE  \A k \in 0..n : new[c[k]].order = new[c[0]].order + k
    BY DEF Runs
  <1> DEFINE Good == {k \in 1..n : new[c[k]].order = new[c[0]].order + k}
  <1>1. \A k \in 0..n : new[c[k]].order \in Nat
    BY RenumberAll
  <1>2. ASSUME NEW k \in 0..n, k < n
        PROVE  new[c[k + 1]].order = new[c[k]].order + 1
    <2>1. k + 1 \in 0..n
      BY <1>2
    <2>2. c[k] \in S /\ c[k + 1] \in S /\ rows[c[k + 1]].order = rows[c[k]].order + 1
      BY <2>1
    <2> QED BY <2>2, RefreshKeepsOrder
  <1>3. n >= 1 => 1 \in Good
    <2> SUFFICES ASSUME n >= 1 PROVE new[c[1]].order = new[c[0]].order + 1
      OBVIOUS
    <2>1. 0 \in 0..n /\ 0 < n /\ 0 + 1 = 1
      OBVIOUS
    <2>2. new[c[0 + 1]].order = new[c[0]].order + 1
      BY <1>2, <2>1
    <2> QED BY <2>1, <2>2
  <1>4. \A k \in Good : k < n => k + 1 \in Good
    <2> SUFFICES ASSUME NEW k \in 1..n, new[c[k]].order = new[c[0]].order + k, k < n
                 PROVE  k + 1 \in 1..n /\ new[c[k + 1]].order = new[c[0]].order + (k + 1)
      OBVIOUS
    <2>1. new[c[k + 1]].order = new[c[k]].order + 1
      BY <1>2
    <2>2. new[c[0]].order \in Nat
      BY <1>1
    <2> QED BY <2>1, <2>2
  <1>5. Good \in SUBSET (1..n)
    OBVIOUS
  <1>6. 1..n \subseteq Good
    <2> HIDE DEF Good
    <2> QED BY <1>3, <1>4, <1>5, UpTo
  <1>7. new[c[0]].order = new[c[0]].order + 0
    BY <1>1
  <1> QED BY <1>6, <1>7

\* The rules moved, and the destination, after the write of a move.
Landed(x, rows) ==
    LET n == Len(x.sel)
        d == rows[x.dest].order
    IN /\ x.sel \in Seq(DOMAIN rows) /\ x.dest \in DOMAIN rows
       /\ \A k \in 1..n :
            rows[x.sel[k]].order = IF x.where = "above" THEN d - n - 1 + k ELSE d + k

LEMMA LandedStays ==
    ASSUME NEW S, IsFiniteSet(S), NEW rows \in [S -> Row], NoTies(rows),
           NEW p \in Listings(rows, S), NEW new, new = Renumber(rows, p),
           NEW x, x.where \in {"above", "below"}, Landed(x, rows)
    PROVE  LET d == new[x.dest].order
               n == Len(x.sel)
           IN {new[i].order : i \in Members(x.sel)}
                = IF x.where = "above" THEN (d - n)..(d - 1) ELSE (d + 1)..(d + n)
  <1> DEFINE n == Len(x.sel)
             d == rows[x.dest].order
             e == new[x.dest].order
  <1>1. /\ x.sel \in Seq(S) /\ x.dest \in S /\ n \in Nat /\ DOMAIN x.sel = 1..n
        /\ \A k \in 1..n : x.sel[k] \in S
    BY DEF Landed
  <1>2. d \in Nat /\ e \in Nat
    BY <1>1, RenumberAll DEF Row
  <1>3. \A k \in 1..n :
          rows[x.sel[k]].order = IF x.where = "above" THEN d - n - 1 + k ELSE d + k
    BY DEF Landed
  <1>4. Members(x.sel) = {x.sel[k] : k \in 1..n}
    BY <1>1 DEF Members
  <1>run. Runs(S, rows, new)
    BY RefreshKeepsRun
  <1> HIDE DEF n, d, e
  <1>5. CASE x.where = "below"
    <2> DEFINE c == [k \in 0..n |-> IF k = 0 THEN x.dest ELSE x.sel[k]]
    <2>1. \A k \in 0..n : c[k] \in S /\ rows[c[k]].order = d + k
      BY <1>1, <1>2, <1>3, <1>5 DEF d
    <2>2. c[0] = x.dest /\ \A k \in 1..n : c[k] = x.sel[k]
      BY <1>1
    <2> HIDE DEF c
    <2>3. \A k \in 0..n : new[c[k]].order = new[c[0]].order + k
      <3>1. \A k \in 0..n : c[k] \in S
        BY <2>1
      <3>2. ASSUME NEW k \in 0..n, k < n
            PROVE  rows[c[k + 1]].order = rows[c[k]].order + 1
        <4>1. k + 1 \in 0..n
          BY <1>1, <3>2
        <4>2. rows[c[k]].order = d + k /\ rows[c[k + 1]].order = d + (k + 1)
          BY <2>1, <4>1
        <4> QED BY <1>2, <4>2
      <3>3. n \in Nat
        BY <1>1
      <3> QED BY <1>run, <3>1, <3>2, <3>3 DEF Runs
    <2>4. \A k \in 1..n : new[x.sel[k]].order = e + k
      BY <1>1, <2>2, <2>3 DEF e
    <2>5. {new[i].order : i \in Members(x.sel)} = {e + k : k \in 1..n}
      BY <1>4, <2>4
    <2>6. {e + k : k \in 1..n} = (e + 1)..(e + n)
      <3>1. ASSUME NEW m \in (e + 1)..(e + n) PROVE \E k \in 1..n : m = e + k
        <4>1. m - e \in 1..n /\ m = e + (m - e)
          BY <1>1, <1>2
        <4> QED BY <4>1
      <3> QED BY <1>1, <1>2, <3>1
    <2> QED BY <1>5, <2>5, <2>6 DEF e, n
  <1>6. CASE x.where = "above"
    <2> DEFINE c == [k \in 0..n |-> IF k = n THEN x.dest ELSE x.sel[k + 1]]
    <2>1. \A k \in 0..n : c[k] \in S /\ rows[c[k]].order = (d - n) + k
      <3> TAKE k \in 0..n
      <3>1. CASE k = n
        BY <1>1, <1>2, <3>1 DEF d
      <3>2. CASE k # n
        <4>1. k + 1 \in 1..n /\ c[k] = x.sel[k + 1]
          BY <1>1, <3>2
        <4>2. rows[x.sel[k + 1]].order = d - n - 1 + (k + 1)
          BY <1>3, <1>6, <4>1
        <4> QED BY <1>1, <1>2, <4>1, <4>2
      <3> QED BY <3>1, <3>2
    <2>2. c[n] = x.dest /\ \A k \in 1..n : c[k - 1] = x.sel[k]
      BY <1>1
    <2> HIDE DEF c
    <2>3. \A k \in 0..n : new[c[k]].order = new[c[0]].order + k
      <3>1. \A k \in 0..n : c[k] \in S
        BY <2>1
      <3>2. ASSUME NEW k \in 0..n, k < n
            PROVE  rows[c[k + 1]].order = rows[c[k]].order + 1
        <4>1. k + 1 \in 0..n
          BY <1>1, <3>2
        <4>2. /\ rows[c[k]].order = (d - n) + k
              /\ rows[c[k + 1]].order = (d - n) + (k + 1)
          BY <2>1, <4>1
        <4> QED BY <1>1, <1>2, <4>2
      <3>3. n \in Nat
        BY <1>1
      <3> QED BY <1>run, <3>1, <3>2, <3>3 DEF Runs
    <2>4. \A k \in 1..n : new[x.sel[k]].order = e - n - 1 + k
      <3> TAKE k \in 1..n
      <3> DEFINE z == new[c[0]].order
      <3>1. z \in Nat
        <4>1. c[0] \in S
          BY <1>1, <2>1
        <4> QED BY <4>1, RenumberAll
      <3>2. e = z + n
        <4>1. n \in 0..n
          BY <1>1
        <4> QED BY <2>2, <2>3, <4>1 DEF e
      <3>3. k - 1 \in 0..n
        BY <1>1
      <3>4. new[x.sel[k]].order = z + (k - 1)
        BY <2>2, <2>3, <3>3
      <3> HIDE DEF z
      <3> QED BY <1>1, <3>1, <3>2, <3>4
    <2>5. {new[i].order : i \in Members(x.sel)} = {e - n - 1 + k : k \in 1..n}
      BY <1>4, <2>4
    <2>6. {e - n - 1 + k : k \in 1..n} = (e - n)..(e - 1)
      <3>1. ASSUME NEW m \in (e - n)..(e - 1)
            PROVE  \E k \in 1..n : m = e - n - 1 + k
        <4>1. m - e + n + 1 \in 1..n /\ m = e - n - 1 + (m - e + n + 1)
          BY <1>1, <1>2
        <4> QED BY <4>1
      <3>2. ASSUME NEW k \in 1..n PROVE e - n - 1 + k \in (e - n)..(e - 1)
        BY <1>1, <1>2
      <3> QED BY <3>1, <3>2
    <2> QED BY <1>6, <2>5, <2>6 DEF e, n
  <1> QED BY <1>5, <1>6
-----------------------------------------------------------------------------
(***************************************************************************)
(* Selections without gaps, moved one request at a time.                   *)
(***************************************************************************)
SavesMove(x) == x.pc \in {"reload", "write"} /\ x.then = "refreshIds"

\* Between the choice of a place and the write of the move to it ...
Moving(x) == x.pc \in {"look", "pick", "affected", "dest"} \/ SavesMove(x)
\* ... and while a new rule that has a place is made.
Making(x) ==
    /\ x.op = "create" /\ x.dest # 0
    /\ \/ x.pc \in {"preload", "validate", "reorder", "updated"}
       \/ x.pc \in {"reload", "write"} /\ x.then \in {"reorder", "updated"}

Chosen(x, rows) ==
    /\ x.ids # {} /\ x.ids \subseteq DOMAIN rows /\ Block(rows, x.ids)
    /\ x.dest \in DOMAIN rows \ x.ids

Ungrouped(rows) == \A i \in DOMAIN rows : rows[i].group = NoGroup

\* What a lone request knows of the place it moves rules to, and the groups.
Placed(x, rows) ==
    /\ Moving(x) \/ Making(x) => Chosen(x, rows)
    /\ x.pc \in {"find", "copyLast", "copyInsert"} => x.dest \in DOMAIN rows
    /\ x.pc \in {"last", "insert"} => x.dest = 0 \/ x.dest \in DOMAIN rows
    /\ x.pc \in {"copyLast", "copyInsert"} => Same(x.ents, rows)
    /\ x.pc = "copyInsert" => DOMAIN x.ents # {}
    /\ x.pc \in {"affected", "dest"} \/ SavesMove(x) =>
         x.sel \in Listings(rows, x.ids) /\ x.first = rows[x.sel[1]].order
    /\ x.pc = "dest" => x.ents = rows
    /\ SavesMove(x) =>
         x.ents = Moved(rows, x.sel, x.first, rows[x.dest], x.where)
    /\ x.pc \in {"refreshIds", "refresh"} => NoTies(rows)
    /\ x.op = "move" =>
         /\ x.todo = {}
         /\ Moving(x) \/ x.pc \in {"refreshIds", "refresh", "next"}
         /\ x.pc \in {"refreshIds", "refresh"} => Landed(x, rows)
    /\ IF Moving(x) THEN Grouped(rows, DOMAIN rows \ x.ids)
                    ELSE Grouped(rows, DOMAIN rows)
    /\ kind # "route" => Ungrouped(rows)

PlaceInv ==
    /\ SerialInv
    /\ Requests = {} => Grouped(rules, DOMAIN rules)
    /\ \A r \in Requests : Placed(req[r], rules)

LEMMA PlaceFacts ==
    ASSUME PlaceInv, NEW r \in Requests
    PROVE  /\ SerialInv /\ Types /\ Placed(req[r], rules) /\ InOrder(req[r], rules)
           /\ req[r] \in RequestBelow(nextId) /\ DOMAIN req = Requests
  BY SerialFacts DEF PlaceInv

LEMMA FewerAreGrouped ==
    ASSUME NEW rows, NEW S, NEW T, T \subseteq S, Grouped(rows, S)
    PROVE  Grouped(rows, T)
  BY DEF Grouped

LEMMA AnswerPlaced ==
    ASSUME PlaceInv, NEW r \in Requests, UNCHANGED rules, Answer(r),
           ~Moving(req[r])
    PROVE  Placed(req'[r], rules')
  <1>1. req'[r] = NoRequest /\ Placed(req[r], rules)
    BY PlaceFacts DEF Answer
  <1>2. /\ req'[r].pc = "idle" /\ req'[r].op = "none"
    BY <1>1 DEF NoRequest
  <1>3. ~Moving(req'[r]) /\ ~Making(req'[r])
    BY <1>2 DEF Moving, Making, SavesMove
  <1>4. Grouped(rules, DOMAIN rules) /\ (kind # "route" => Ungrouped(rules))
    BY <1>1 DEF Placed
  <1> QED BY <1>2, <1>3, <1>4 DEF Placed, SavesMove

\* Rules appended after the last one.
Appended(rows, more, new) ==
    /\ DOMAIN new = DOMAIN rows \cup DOMAIN more
    /\ DOMAIN rows \cap DOMAIN more = {}
    /\ \A i \in DOMAIN rows : new[i] = rows[i]
    /\ \A i \in DOMAIN more : new[i] = more[i]
    /\ \A i \in DOMAIN rows, j \in DOMAIN more : new[i].order < new[j].order
    /\ \A i \in DOMAIN new : new[i].order \in Nat
    /\ Block(new, DOMAIN more)

LEMMA AppendedAreLast ==
    ASSUME NEW rows, IsFiniteSet(DOMAIN rows),
           \A i \in DOMAIN rows : rows[i].order \in Nat,
           NEW n \in Nat \ {0}, DOMAIN rows \subseteq 1..(n - 1),
           NEW m \in Nat, NEW more, DOMAIN more = n..(n + m - 1),
           \A i \in DOMAIN more : more[i].order = LastOf(rows) + (i - n + 1)
    PROVE  Appended(rows, more, Added(rows, more))
  <1> DEFINE new == Added(rows, more)
  <1>1. /\ LastOf(rows) \in Nat
        /\ \A i \in DOMAIN rows : rows[i].order <= LastOf(rows)
    BY LastOfOrders DEF LastOf
  <1>2. DOMAIN new = DOMAIN rows \cup DOMAIN more /\ DOMAIN rows \cap DOMAIN more = {}
    BY DEF Added
  <1>3. /\ \A i \in DOMAIN rows : new[i] = rows[i]
        /\ \A i \in DOMAIN more : new[i] = more[i]
    BY <1>2 DEF Added
  <1>4. ASSUME NEW i \in DOMAIN more
        PROVE  new[i].order \in Nat /\ new[i].order > LastOf(rows)
    <2>1. i \in Nat /\ i >= n
      OBVIOUS
    <2> QED BY <1>1, <1>3, <2>1
  <1>5. \A i \in DOMAIN rows, j \in DOMAIN more : new[i].order < new[j].order
    BY <1>1, <1>3, <1>4
  <1>6. \A i \in DOMAIN new : new[i].order \in Nat
    BY <1>2, <1>3, <1>4
  <1>7. Block(new, DOMAIN more)
    <2> SUFFICES ASSUME NEW i \in DOMAIN more, NEW j \in DOMAIN rows,
                        new[i].order < new[j].order
                 PROVE  FALSE
      BY <1>2 DEF Block
    <2> QED BY <1>2, <1>5, <1>6
  <1> QED BY <1>2, <1>3, <1>5, <1>6, <1>7 DEF Appended

\* The row of a new rule: at the end, outside groups.
LEMMA InsertAppends ==
    ASSUME SerialInv, NEW r \in Requests, InsertLast(r)
    PROVE  \E more : /\ Appended(rules, more, rules') /\ DOMAIN more = {nextId}
                     /\ more[nextId].group = NoGroup
  <1> DEFINE more == [i \in {nextId} |->
                        [order |-> req[r].first + 1, group |-> NoGroup]]
  <1>1. /\ Types /\ InOrder(req[r], rules) /\ req[r].pc = "insert"
    BY SerialFacts DEF InsertLast, At
  <1>2. req[r].first = LastOf(rules)
    BY <1>1 DEF InOrder
  <1>3. nextId \in Nat \ {0} /\ req[r].first \in Nat
    BY SerialFacts DEF Types, RequestBelow
  <1>4. DOMAIN more = nextId..(nextId + 1 - 1)
    BY <1>3
  <1>5. \A i \in DOMAIN more : more[i].order = LastOf(rules) + (i - nextId + 1)
    BY <1>2, <1>3
  <1>6. DOMAIN more = {nextId} /\ more[nextId].group = NoGroup
    OBVIOUS
  <1>7. rules' = Added(rules, more)
    BY DEF InsertLast
  <1>8. /\ IsFiniteSet(DOMAIN rules) /\ DOMAIN rules \subseteq 1..(nextId - 1)
        /\ \A i \in DOMAIN rules : rules[i].order \in Nat
    BY <1>1, RulesType DEF Below, Row
  <1> HIDE DEF more
  <1>9. Appended(rules, more, Added(rules, more))
    BY <1>3, <1>4, <1>5, <1>8, AppendedAreLast
  <1> QED BY <1>6, <1>7, <1>9

LEMMA InsertPlaced ==
    ASSUME PlaceInv, NEW r \in Requests, InsertLast(r)
    PROVE  /\ Grouped(rules', DOMAIN rules') /\ Block(rules', {nextId})
           /\ DOMAIN rules \subseteq DOMAIN rules' \ {nextId}
           /\ nextId \in DOMAIN rules'
           /\ kind # "route" => Ungrouped(rules')
  <1>1. Placed(req[r], rules) /\ req[r].pc = "insert"
    BY PlaceFacts DEF InsertLast, At
  <1>2. Grouped(rules, DOMAIN rules) /\ (kind # "route" => Ungrouped(rules))
    <2>1. ~Moving(req[r])
      BY <1>1 DEF Moving, SavesMove
    <2> QED BY <1>1, <2>1 DEF Placed
  <1>3. PICK more : /\ Appended(rules, more, rules') /\ DOMAIN more = {nextId}
                    /\ more[nextId].group = NoGroup
    BY InsertAppends DEF PlaceInv
  <1>4. /\ DOMAIN rules' = DOMAIN rules \cup {nextId} /\ nextId \notin DOMAIN rules
        /\ \A i \in DOMAIN rules : /\ rules'[i] = rules[i]
                                   /\ rules'[i].order < rules'[nextId].order
        /\ rules'[nextId].group = NoGroup
        /\ \A i \in DOMAIN rules' : rules'[i].order \in Nat
        /\ Block(rules', {nextId})
    BY <1>3 DEF Appended
  <1>5. Grouped(rules', DOMAIN rules')
    <2> SUFFICES ASSUME NEW i \in DOMAIN rules', NEW j \in DOMAIN rules',
                        NEW k \in DOMAIN rules',
                        rules'[i].order < rules'[j].order,
                        rules'[j].order < rules'[k].order,
                        rules'[i].group = rules'[k].group
                 PROVE  rules'[i].group \in {NoGroup, rules'[j].group}
      BY DEF Grouped
    <2>1. CASE i = nextId \/ k = nextId
      BY <1>4, <2>1
    <2>2. CASE i \in DOMAIN rules /\ k \in DOMAIN rules
      <3>1. j # nextId
        <4>1. rules'[k].order < rules'[nextId].order
          BY <1>4, <2>2
        <4> QED BY <1>4, <4>1
      <3> QED BY <1>2, <1>4, <2>2, <3>1 DEF Grouped
    <2> QED BY <1>4, <2>1, <2>2
  <1>6. kind # "route" => Ungrouped(rules')
    BY <1>2, <1>4 DEF Ungrouped
  <1> QED BY <1>4, <1>5, <1>6

LEMMA CreationPlaced ==
    ASSUME PlaceInv, NEW r \in Requests,
           CreateLast(r) \/ CreateInsert(r) \/ StoreInsert(r) \/ StoreVirtualIps(r)
    PROVE  Placed(req'[r], rules')
  <1>1. req[r] \in RequestBelow(nextId) /\ DOMAIN req = Requests
        /\ Placed(req[r], rules)
    BY PlaceFacts
  <1>2. CASE CreateLast(r)
    <2>1. /\ req'[r].pc = "insert" /\ req[r].pc = "last"
          /\ req'[r].op = req[r].op /\ req'[r].dest = req[r].dest
          /\ rules' = rules
      BY <1>1, <1>2 DEF CreateLast, Step, At, RequestBelow
    <2> QED BY <1>1, <2>1 DEF Placed, Moving, Making, SavesMove
  <1>3. CASE InsertLast(r)
    <2>1. /\ req'[r].ids = {nextId} /\ req'[r].dest = req[r].dest
          /\ req'[r].op = req[r].op /\ req[r].pc = "insert"
          /\ \/ req'[r].pc \in {"preload", "updated"}
             \/ req'[r].pc = "reload" /\ req'[r].then = "updated"
      BY <1>1, <1>3
      DEF CreateLast, CreateInsert, StoreInsert, StoreVirtualIps, InsertLast, Step,
          At, RequestBelow
    <2>2. ~Moving(req'[r]) /\ ~Moving(req[r])
      BY <2>1 DEF Moving, SavesMove
    <2>3. req[r].op # "move" /\ (req[r].dest = 0 \/ req[r].dest \in DOMAIN rules)
      BY <1>1, <2>1, <2>2 DEF Placed
    <2>4. Making(req'[r]) => Chosen(req'[r], rules')
      <3>1. Making(req'[r]) => req'[r].dest # 0
        BY DEF Making
      <3> QED BY <1>3, <2>1, <2>3, <3>1, InsertPlaced DEF Chosen
    <2>5. /\ Grouped(rules', DOMAIN rules')
          /\ kind # "route" => Ungrouped(rules')
      BY <1>3, InsertPlaced
    <2> QED BY <2>1, <2>2, <2>3, <2>4, <2>5 DEF Placed, SavesMove
  <1> QED BY <1>2, <1>3 DEF CreateInsert, StoreInsert, StoreVirtualIps

LEMMA AbortPlaced ==
    ASSUME PlaceInv, NEW r \in Requests, Abort(r),
           req[r].pc \in {"preload", "validate", "reorder"}
    PROVE  Placed(req'[r], rules')
  <1>1. req[r] \in RequestBelow(nextId) /\ DOMAIN req = Requests
        /\ Placed(req[r], rules) /\ rules' = rules
    BY PlaceFacts DEF Abort
  <1>2. ~Moving(req[r])
    BY DEF Moving, SavesMove
  <1>3. CASE Answer(r)
    BY <1>1, <1>2, <1>3, AnswerPlaced
  <1>4. CASE req' = [req EXCEPT ![r].pc = "next", ![r].todo = req[r].ids]
    <2>1. req'[r].pc = "next" /\ req'[r].op = req[r].op /\ req[r].op # "move"
      BY <1>1, <1>2, <1>4 DEF RequestBelow, Placed
    <2>2. ~Moving(req'[r]) /\ ~Making(req'[r])
      BY <2>1 DEF Moving, Making, SavesMove
    <2> QED BY <1>1, <1>2, <2>1, <2>2 DEF Placed, SavesMove
  <1> QED BY <1>3, <1>4 DEF Abort

LEMMA UpdatePlaced ==
    ASSUME PlaceInv, NEW r \in Requests,
           \/ Preload(r) \/ Validate(r) \/ ValidateObjects(r) \/ Reorder(r)
           \/ Updated(r) \/ Reload(r)
    PROVE  Placed(req'[r], rules')
  <1>1. /\ req[r] \in RequestBelow(nextId) /\ DOMAIN req = Requests
        /\ Placed(req[r], rules)
    BY PlaceFacts
  <1>2. CASE Abort(r) /\ (Preload(r) \/ Validate(r) \/ Reorder(r))
    BY <1>2, AbortPlaced DEF Preload, Validate, Reorder, Step, At
  <1>3. CASE Answer(r) /\ (ValidateObjects(r) \/ Updated(r))
    BY <1>3, AnswerPlaced DEF ValidateObjects, Updated, Step, At, Moving, SavesMove
  <1>4. CASE \/ (Preload(r) \/ Validate(r) \/ Reorder(r)) /\ ~Abort(r)
             \/ ValidateObjects(r) /\ ~Answer(r)
    <2>1. /\ req'[r].ids = req[r].ids /\ req'[r].dest = req[r].dest
          /\ req'[r].op = req[r].op /\ rules' = rules
          /\ req[r].pc \in {"preload", "validate", "reorder"}
          /\ \/ req'[r].pc = "validate"
             \/ req'[r].pc = "reload" /\ req'[r].then \in {"reorder", "updated"}
      BY <1>1, <1>4
      DEF Preload, Validate, ValidateObjects, Reorder, Step, At, RequestBelow
    <2>2. ~Moving(req[r]) /\ ~Moving(req'[r]) /\ (Making(req'[r]) => Making(req[r]))
      BY <2>1 DEF Moving, Making, SavesMove
    <2>3. req[r].op # "move" /\ (Making(req[r]) => Chosen(req[r], rules))
      BY <1>1, <2>1, <2>2 DEF Placed
    <2>4. Making(req'[r]) => Chosen(req'[r], rules')
      BY <2>1, <2>2, <2>3 DEF Chosen
    <2> QED BY <1>1, <2>1, <2>2, <2>3, <2>4 DEF Placed, SavesMove
  <1>5. CASE Updated(r) /\ ~Answer(r)
    <2>1. /\ req'[r].pc \in {"look", "pick"} /\ req[r].pc = "updated"
          /\ req[r].op = "create" /\ req[r].dest # 0
          /\ req'[r].ids = req[r].ids /\ req'[r].dest = req[r].dest
          /\ req'[r].op = req[r].op /\ rules' = rules
      BY <1>1, <1>5 DEF Updated, Step, At, RequestBelow, Goto, StartOfMove
    <2>2. ~Moving(req[r]) /\ Making(req[r]) /\ Moving(req'[r])
      BY <2>1 DEF Moving, Making, SavesMove
    <2>3. Chosen(req'[r], rules')
      BY <1>1, <2>1, <2>2 DEF Placed, Chosen
    <2>4. Grouped(rules, DOMAIN rules \ req'[r].ids)
      BY <1>1, <2>2, FewerAreGrouped DEF Placed
    <2> QED BY <1>1, <2>1, <2>2, <2>3, <2>4 DEF Placed, SavesMove
  <1>6. CASE Reload(r)
    <2>1. /\ req'[r].pc = "write" /\ req[r].pc = "reload"
          /\ req'[r].then = req[r].then /\ req'[r].ents = req[r].ents
          /\ req'[r].ids = req[r].ids /\ req'[r].dest = req[r].dest
          /\ req'[r].op = req[r].op /\ req'[r].sel = req[r].sel
          /\ req'[r].first = req[r].first /\ req'[r].where = req[r].where
          /\ req'[r].todo = req[r].todo /\ rules' = rules
      BY <1>1, <1>6 DEF Reload, Step, At, RequestBelow
    <2>2. /\ Moving(req'[r]) <=> Moving(req[r])
          /\ Making(req'[r]) <=> Making(req[r])
      BY <2>1 DEF Moving, Making, SavesMove
    <2>3. Chosen(req'[r], rules') <=> Chosen(req[r], rules)
      BY <2>1 DEF Chosen
    <2>4. SavesMove(req'[r]) <=> SavesMove(req[r])
      BY <2>1 DEF SavesMove
    <2> QED BY <1>1, <2>1, <2>2, <2>3, <2>4 DEF Placed
  <1> QED BY <1>2, <1>3, <1>4, <1>5, <1>6

\* A move writes what it has computed from the rules that are still there.
LEMMA WriteMoves ==
    ASSUME PlaceInv, NEW r \in Requests, Write(r), req[r].then = "refreshIds"
    PROVE  /\ rules' = Moved(rules, req[r].sel, req[r].first, rules[req[r].dest],
                             req[r].where)
           /\ req'[r].pc = "refreshIds" /\ req'[r].op = req[r].op
           /\ req'[r].todo = req[r].todo /\ req'[r].sel = req[r].sel
           /\ req'[r].dest = req[r].dest /\ req'[r].where = req[r].where
  <1>1. /\ req[r] \in RequestBelow(nextId) /\ DOMAIN req = Requests
        /\ InOrder(req[r], rules) /\ Placed(req[r], rules)
        /\ req[r].pc = "write" /\ Types
    BY PlaceFacts DEF Write, Step, At
  <1> DEFINE moved == Moved(rules, req[r].sel, req[r].first, rules[req[r].dest],
                            req[r].where)
  <1>2. req[r].ents = moved
    BY <1>1 DEF Placed, SavesMove
  <1>3. DOMAIN moved = DOMAIN rules
    BY DEF Moved, MoveRoutes, MoveRoutingRules
  <1> HIDE DEF moved
  <1>4. /\ DOMAIN req[r].base = DOMAIN rules
        /\ \A i \in DOMAIN rules : req[r].base[i] = rules[i]
    BY <1>1, <1>2, <1>3 DEF InOrder, Restrict
  <1>5. Inserted(r) = {}
    BY <1>2, <1>3, <1>4 DEF Inserted
  <1>6. req[r].later = NoRows
    BY <1>1 DEF InOrder
  <1>7. \A i \in DOMAIN rules : Written(r, i) = moved[i]
    <2> TAKE i \in DOMAIN rules
    <2>1. moved[i] \in Row
      <3>1. moved \in TablesBelow(nextId)
        BY <1>1, <1>2 DEF RequestBelow
      <3> QED BY <1>3, <3>1 DEF TablesBelow
    <2>2. rules[i] \in Row
      BY <1>1, RulesType
    <2>3. i \notin Inserted(r) /\ req[r].ents[i] = moved[i] /\ req[r].base[i] = rules[i]
      BY <1>2, <1>4, <1>5
    <2> QED BY <2>1, <2>2, <2>3 DEF Written, Row
  <1>8. rules' = moved
    <2>1. rules' = [i \in DOMAIN rules |-> moved[i]]
      BY <1>2, <1>3, <1>5, <1>7 DEF Write
    <2>2. moved = [i \in DOMAIN rules |-> moved[i]]
      BY <1>1, <1>2, <1>3 DEF RequestBelow, TablesBelow
    <2> QED BY <2>1, <2>2
  <1>9. /\ req'[r].pc = "refreshIds" /\ req'[r].op = req[r].op
        /\ req'[r].todo = req[r].todo /\ req'[r].sel = req[r].sel
        /\ req'[r].dest = req[r].dest /\ req'[r].where = req[r].where
    BY <1>1, <1>5, <1>6 DEF Write, RequestBelow
  <1> QED BY <1>8, <1>9 DEF moved

\* The write of a move is the arithmetic of RuleMoves.
LEMMA MoveWritten ==
    ASSUME PlaceInv, NEW r \in Requests, Write(r), req[r].then = "refreshIds",
           NEW x, x = req[r]
    PROVE  /\ WellPrepared(rules, x.sel, x.first, x.dest, x.where)
           /\ Dropped(rules, x.sel, x.first, x.dest, x.where, rules')
           /\ Members(x.sel) = x.ids /\ x.sel \in Listings(rules, x.ids)
           /\ x.ids \subseteq DOMAIN rules /\ x.dest \in DOMAIN rules \ x.ids
           /\ Grouped(rules, DOMAIN rules \ x.ids)
           /\ kind # "route" => Ungrouped(rules)
           /\ rules \in [DOMAIN rules -> Row]
  <1>1. /\ x \in RequestBelow(nextId) /\ Placed(x, rules) /\ InOrder(x, rules)
        /\ x.pc = "write" /\ Types
    BY PlaceFacts DEF Write, Step, At
  <1>2. Moving(x) /\ SavesMove(x)
    BY <1>1 DEF Moving, SavesMove
  <1>3. /\ Chosen(x, rules) /\ x.sel \in Listings(rules, x.ids)
        /\ x.first = rules[x.sel[1]].order
        /\ Grouped(rules, DOMAIN rules \ x.ids) /\ (kind # "route" => Ungrouped(rules))
    BY <1>1, <1>2 DEF Placed
  <1>4. NoTies(rules)
    BY <1>1 DEF InOrder, Orderly
  <1>5. /\ IsFiniteSet(DOMAIN rules) /\ DOMAIN rules \subseteq Nat
        /\ rules \in [DOMAIN rules -> Row]
    BY <1>1, RulesType DEF Below, Types
  <1>6. x.where \in {"above", "below"}
    BY <1>1 DEF RequestBelow
  <1>7. /\ x.ids \in SUBSET DOMAIN rules /\ x.ids # {} /\ Block(rules, x.ids)
        /\ x.dest \in DOMAIN rules \ x.ids
    BY <1>3 DEF Chosen
  <1>8. WellPrepared(rules, x.sel, x.first, x.dest, x.where) /\ Members(x.sel) = x.ids
    BY <1>3, <1>4, <1>5, <1>6, <1>7, SelectionPrepared
  <1>9. kind = "rule" => rules[x.dest].group = NoGroup
    BY <1>3, <1>7 DEF Ungrouped
  <1>10. Dropped(rules, x.sel, x.first, x.dest, x.where,
                 Moved(rules, x.sel, x.first, rules[x.dest], x.where))
    BY <1>5, <1>7, <1>9, MovedIs
  <1>11. rules' = Moved(rules, x.sel, x.first, rules[x.dest], x.where)
    BY WriteMoves
  <1> QED BY <1>3, <1>5, <1>7, <1>8, <1>10, <1>11

\* What it leaves.
LEMMA MovePlaces ==
    ASSUME PlaceInv, NEW r \in Requests, Write(r), req[r].then = "refreshIds"
    PROVE  /\ NoTies(rules') /\ Grouped(rules', DOMAIN rules')
           /\ kind # "route" => Ungrouped(rules')
           /\ Landed(req'[r], rules')
  <1> DEFINE sel == req[r].sel
             first == req[r].first
             d == req[r].dest
             where == req[r].where
             S == req[r].ids
             edge == Edge(rules[d].order, where)
  <1>1. /\ WellPrepared(rules, sel, first, d, where)
        /\ Dropped(rules, sel, first, d, where, rules')
        /\ Members(sel) = S /\ d \in DOMAIN rules \ S
        /\ Grouped(rules, DOMAIN rules \ S) /\ (kind # "route" => Ungrouped(rules))
    BY MoveWritten
  <1>2. req'[r].sel = sel /\ req'[r].dest = d /\ req'[r].where = where
    BY WriteMoves
  <1> HIDE DEF sel, first, d, where, S, edge
  <1>3. /\ DOMAIN rules' = DOMAIN rules
        /\ \A i \in DOMAIN rules :
             /\ rules'[i].order = IF i \in Members(sel)
                                  THEN Landing(sel, i, rules[d].order, where)
                                  ELSE Shifted(rules[i].order, Len(sel), first,
                                               rules[d].order, where)
             /\ rules'[i].group = IF i \in Members(sel) THEN rules[d].group
                                                        ELSE rules[i].group
    BY <1>1 DEF Dropped
  <1>4. Grouped(rules', DOMAIN rules')
    BY <1>1, <1>3, MoveKeepsGroups
  <1>5. kind # "route" => Ungrouped(rules')
    BY <1>1, <1>3 DEF Ungrouped
  <1>6. /\ edge \in Int
        /\ \A k \in 1..Len(sel) : rules'[sel[k]].order = edge + k
        /\ rules'[d].order = IF where = "above" THEN edge + Len(sel) + 1 ELSE edge
        /\ NoTies(rules')
    BY <1>1, <1>3, AfterMove DEF edge
  <1>7. sel \in Seq(DOMAIN rules) /\ Len(sel) \in Nat /\ where \in {"above", "below"}
    BY <1>1 DEF WellPrepared
  <1>8. \A k \in 1..Len(sel) :
          rules'[sel[k]].order = IF where = "above"
                                 THEN rules'[d].order - Len(sel) - 1 + k
                                 ELSE rules'[d].order + k
    BY <1>6, <1>7
  <1>9. Landed(req'[r], rules')
    BY <1>1, <1>2, <1>3, <1>7, <1>8 DEF Landed
  <1> QED BY <1>4, <1>5, <1>6, <1>9

LEMMA WritePlaced ==
    ASSUME PlaceInv, NEW r \in Requests, Write(r)
    PROVE  Placed(req'[r], rules')
  <1>1. /\ req[r] \in RequestBelow(nextId) /\ DOMAIN req = Requests
        /\ Placed(req[r], rules) /\ InOrder(req[r], rules) /\ SerialInv
        /\ req[r].pc = "write"
    BY PlaceFacts DEF Write, Step, At
  <1>2. CASE req[r].then = "refreshIds"
    <2>1. /\ req'[r].pc = "refreshIds" /\ req'[r].op = req[r].op
          /\ req'[r].todo = req[r].todo
      BY <1>2, WriteMoves
    <2>2. ~Moving(req'[r]) /\ ~Making(req'[r]) /\ ~SavesMove(req'[r])
      BY <2>1 DEF Moving, Making, SavesMove
    <2>3. req[r].op = "move" => req[r].todo = {}
      BY <1>1 DEF Placed
    <2> QED BY <1>2, <2>1, <2>2, <2>3, MovePlaces DEF Placed
  <1>3. CASE req[r].then # "refreshIds"
    <2>1. /\ rules' = rules
          /\ req'[r].pc = IF req[r].later = NoRows THEN req[r].then ELSE "reload"
          /\ req'[r].then = req[r].then /\ req'[r].op = req[r].op
          /\ req'[r].ids = req[r].ids /\ req'[r].dest = req[r].dest
      BY <1>1, <1>3, WriteKeeps
    <2>2. req[r].then \in Returns
      BY <1>1 DEF RequestBelow
    <2>3. req[r].later # NoRows => req[r].then = "next"
      BY <1>1 DEF InOrder
    <2>4. ~Moving(req[r]) /\ ~Moving(req'[r]) /\ ~SavesMove(req'[r])
      BY <1>1, <1>3, <2>1, <2>2, <2>3 DEF Moving, SavesMove, Returns
    <2>5. Making(req'[r]) => Making(req[r])
      BY <1>1, <2>1, <2>2, <2>3 DEF Making, Returns
    <2>6. Making(req'[r]) => Chosen(req'[r], rules')
      BY <1>1, <2>1, <2>5 DEF Placed, Chosen
    <2>7. req[r].op # "move"
      BY <1>1, <2>4 DEF Placed
    <2>8. /\ req'[r].pc \in {"reload", "idle", "reorder", "updated",
                             "affectedTables", "next"}
      BY <1>3, <2>1, <2>2 DEF Returns
    <2> QED BY <1>1, <2>1, <2>4, <2>6, <2>7, <2>8 DEF Placed
  <1> QED BY <1>2, <1>3

LEMMA MoveStepPlaced ==
    ASSUME PlaceInv, NEW r \in Requests,
           LookAtDest(r) \/ Pick(r) \/ Affected(r) \/ Dest(r)
    PROVE  Placed(req'[r], rules')
  <1>1. /\ req[r] \in RequestBelow(nextId) /\ DOMAIN req = Requests
        /\ Placed(req[r], rules)
        /\ req[r].pc \in {"look", "pick", "affected", "dest"}
        /\ rules' = rules
    BY PlaceFacts DEF LookAtDest, Pick, Affected, Dest, Step, At
  <1>2. Moving(req[r])
    BY <1>1 DEF Moving
  <1>3. /\ Chosen(req[r], rules) /\ Grouped(rules, DOMAIN rules \ req[r].ids)
        /\ kind # "route" => Ungrouped(rules)
        /\ req[r].op = "move" => req[r].todo = {}
    BY <1>1, <1>2 DEF Placed
  <1>4. ASSUME Moving(req'[r]), req'[r].ids = req[r].ids, req'[r].dest = req[r].dest,
               req'[r].op = req[r].op, req'[r].todo = req[r].todo
        PROVE  /\ Chosen(req'[r], rules')
               /\ Grouped(rules', DOMAIN rules' \ req'[r].ids)
               /\ kind # "route" => Ungrouped(rules')
               /\ req'[r].op = "move" => req'[r].todo = {}
    BY <1>1, <1>3, <1>4 DEF Chosen
  <1>5. req[r].dest \in DOMAIN rules /\ req[r].ids \cap DOMAIN rules = req[r].ids
        /\ req[r].ids # {}
    BY <1>3 DEF Chosen
  <1>6. CASE LookAtDest(r)
    <2>1. /\ req'[r].pc = "pick" /\ req'[r].ids = req[r].ids
          /\ req'[r].dest = req[r].dest /\ req'[r].op = req[r].op
          /\ req'[r].todo = req[r].todo
      BY <1>1, <1>5, <1>6 DEF LookAtDest, Goto, RequestBelow
    <2>2. Moving(req'[r]) /\ ~SavesMove(req'[r])
      BY <2>1 DEF Moving, SavesMove
    <2> QED BY <1>4, <2>1, <2>2 DEF Placed
  <1>7. CASE Pick(r)
    <2>1. PICK p \in Listings(rules, req[r].ids) :
            req' = [req EXCEPT ![r].pc = "affected", ![r].sel = p,
                               ![r].first = rules[p[1]].order]
      BY <1>5, <1>7 DEF Pick
    <2>2. /\ req'[r].pc = "affected" /\ req'[r].ids = req[r].ids
          /\ req'[r].dest = req[r].dest /\ req'[r].op = req[r].op
          /\ req'[r].todo = req[r].todo /\ req'[r].sel = p
          /\ req'[r].first = rules[p[1]].order
      BY <1>1, <2>1 DEF RequestBelow
    <2>3. Moving(req'[r]) /\ ~SavesMove(req'[r])
      BY <2>2 DEF Moving, SavesMove
    <2> QED BY <1>1, <1>4, <2>2, <2>3 DEF Placed
  <1>8. CASE Affected(r)
    <2>1. /\ req'[r].pc = "dest" /\ req[r].pc = "affected"
          /\ req'[r].ids = req[r].ids /\ req'[r].ents = rules
          /\ req'[r].dest = req[r].dest /\ req'[r].op = req[r].op
          /\ req'[r].todo = req[r].todo /\ req'[r].sel = req[r].sel
          /\ req'[r].first = req[r].first
      BY <1>1, <1>8 DEF Affected, Step, At, RequestBelow
    <2>2. Moving(req'[r]) /\ ~SavesMove(req'[r])
      BY <2>1 DEF Moving, SavesMove
    <2>3. /\ req[r].sel \in Listings(rules, req[r].ids)
          /\ req[r].first = rules[req[r].sel[1]].order
      BY <1>1, <2>1 DEF Placed
    <2> QED BY <1>1, <1>4, <2>1, <2>2, <2>3 DEF Placed
  <1>9. CASE Dest(r)
    <2> DEFINE moved == Moved(rules, req[r].sel, req[r].first, rules[req[r].dest],
                              req[r].where)
    <2>1. req[r].pc = "dest" /\ req[r].ents = rules
          /\ req[r].sel \in Listings(rules, req[r].ids)
          /\ req[r].first = rules[req[r].sel[1]].order
      BY <1>1, <1>9 DEF Dest, Step, At, Placed
    <2>2. req' = [req EXCEPT ![r].pc = "reload", ![r].then = "refreshIds",
                             ![r].ents = moved]
      BY <1>5, <1>9, <2>1 DEF Dest
    <2> HIDE DEF moved
    <2>3. /\ req'[r].pc = "reload" /\ req'[r].then = "refreshIds"
          /\ req'[r].ids = req[r].ids /\ req'[r].ents = moved
          /\ req'[r].dest = req[r].dest /\ req'[r].op = req[r].op
          /\ req'[r].todo = req[r].todo /\ req'[r].sel = req[r].sel
          /\ req'[r].first = req[r].first /\ req'[r].where = req[r].where
      BY <1>1, <2>2 DEF RequestBelow
    <2>4. Moving(req'[r])
      BY <2>3 DEF Moving, SavesMove
    <2>5. req'[r].ents = Moved(rules', req'[r].sel, req'[r].first,
                               rules'[req'[r].dest], req'[r].where)
      BY <1>1, <2>3 DEF moved
    <2> QED BY <1>1, <1>4, <2>1, <2>3, <2>4, <2>5 DEF Placed
  <1> QED BY <1>6, <1>7, <1>8, <1>9

LEMMA RefreshPlaced ==
    ASSUME PlaceInv, NEW r \in Requests, RefreshIds(r) \/ Refresh(r)
    PROVE  Placed(req'[r], rules')
  <1>1. /\ req[r] \in RequestBelow(nextId) /\ DOMAIN req = Requests
        /\ Placed(req[r], rules) /\ InOrder(req[r], rules) /\ Types
        /\ req[r].pc \in {"refreshIds", "refresh"}
    BY PlaceFacts DEF RefreshIds, Refresh, Step, At
  <1>2. ~Moving(req[r])
    BY <1>1 DEF Moving, SavesMove
  <1>3. /\ NoTies(rules) /\ Grouped(rules, DOMAIN rules)
        /\ kind # "route" => Ungrouped(rules)
        /\ req[r].op = "move" => req[r].todo = {} /\ Landed(req[r], rules)
    BY <1>1, <1>2 DEF Placed
  <1>4. CASE RefreshIds(r)
    <2>1. /\ req'[r].pc \in {"next", "refresh"} /\ req'[r].op = req[r].op
          /\ req'[r].todo = req[r].todo /\ req'[r].sel = req[r].sel
          /\ req'[r].dest = req[r].dest /\ req'[r].where = req[r].where
          /\ rules' = rules
      BY <1>1, <1>4 DEF RefreshIds, Step, RequestBelow
    <2>2. ~Moving(req'[r]) /\ ~Making(req'[r]) /\ ~SavesMove(req'[r])
      BY <2>1 DEF Moving, Making, SavesMove
    <2>3. Landed(req[r], rules) => Landed(req'[r], rules')
      BY <2>1 DEF Landed
    <2> QED BY <1>3, <2>1, <2>2, <2>3 DEF Placed
  <1>5. CASE Refresh(r)
    <2>1. /\ req'[r].pc = "next" /\ req'[r].op = req[r].op
          /\ req'[r].todo = req[r].todo /\ req[r].pc = "refresh"
      BY <1>1, <1>5 DEF Refresh, Goto, Step, At, RequestBelow
    <2>2. ~Moving(req'[r]) /\ ~Making(req'[r]) /\ ~SavesMove(req'[r])
      BY <2>1 DEF Moving, Making, SavesMove
    <2>3. req[r].ids \cap DOMAIN rules = DOMAIN rules
      BY <1>1, <2>1 DEF InOrder
    <2>4. PICK p \in Listings(rules, DOMAIN rules) : rules' = Renumber(rules, p)
      BY <1>5, <2>3 DEF Refresh
    <2>5. IsFiniteSet(DOMAIN rules) /\ rules \in [DOMAIN rules -> Row]
      BY <1>1, RulesType
    <2>6. Grouped(rules', DOMAIN rules')
      BY <1>3, <2>4, <2>5, RefreshKeepsOrder
    <2>7. kind # "route" => Ungrouped(rules')
      BY <1>3, <2>4, <2>5, RenumberAll DEF Ungrouped
    <2> QED BY <1>3, <2>1, <2>2, <2>6, <2>7 DEF Placed
  <1> QED BY <1>4, <1>5

\* Copies come after the last rule.
LEMMA CopyAppends ==
    ASSUME PlaceInv, NEW r \in Requests, CopyInsert(r)
    PROVE  /\ req'[r].pc \in {"look", "pick"} /\ req'[r].op = req[r].op
           /\ req'[r].dest = req[r].dest
           /\ \E more : /\ Appended(rules, more, rules')
                        /\ DOMAIN more = req'[r].ids /\ DOMAIN more # {}
                        /\ kind # "route" => \A i \in DOMAIN more :
                                              more[i].group = NoGroup
  <1>a. /\ req[r] \in RequestBelow(nextId) /\ DOMAIN req = Requests
        /\ Placed(req[r], rules) /\ InOrder(req[r], rules) /\ Types
        /\ req[r].pc = "copyInsert"
    BY PlaceFacts DEF CopyInsert, At
  <1>b. kind # "route" => Ungrouped(rules)
    BY <1>a DEF Placed
  <1>1. PICK p \in SetToSeqs(DOMAIN req[r].ents) :
          LET new == nextId..(nextId + Len(p) - 1)
              nth(i) == i - nextId + 1
          IN /\ rules' = Added(rules, [i \in new |->
                            [order |-> req[r].first + nth(i),
                             group |-> req[r].ents[p[nth(i)]].group]])
             /\ nextId' = nextId + Len(p)
             /\ req' = [req EXCEPT ![r].pc = StartOfMove, ![r].ids = new,
                                   ![r].ents = NoRows]
    BY DEF CopyInsert
  <1> DEFINE more == [i \in nextId..(nextId + Len(p) - 1) |->
                       [order |-> req[r].first + (i - nextId + 1),
                        group |-> req[r].ents[p[i - nextId + 1]].group]]
  <1>2. rules' = Added(rules, more)
    BY <1>1
  <1>3. /\ req'[r].pc \in {"look", "pick"} /\ req'[r].op = req[r].op
        /\ req'[r].dest = req[r].dest
        /\ req'[r].ids = nextId..(nextId + Len(p) - 1)
        /\ req[r].pc = "copyInsert"
    BY <1>a, <1>1 DEF CopyInsert, At, RequestBelow, StartOfMove
  <1>4. /\ IsFiniteSet(DOMAIN rules) /\ DOMAIN rules \subseteq 1..(nextId - 1)
        /\ \A i \in DOMAIN rules : rules[i].order \in Nat
    BY <1>a, RulesType DEF Below, Row
  <1>5. /\ req[r].first = LastOf(rules) /\ Same(req[r].ents, rules)
        /\ DOMAIN req[r].ents # {}
    BY <1>a, <1>3 DEF InOrder, Placed
  <1>6. /\ nextId \in Nat \ {0} /\ Len(p) \in Nat /\ Len(p) >= 1
        /\ \A k \in 1..Len(p) : p[k] \in DOMAIN req[r].ents
    <2>1. p \in [1..Cardinality(DOMAIN req[r].ents) -> DOMAIN req[r].ents]
      BY DEF SetToSeqs
    <2>2. IsFiniteSet(DOMAIN req[r].ents)
      <3>1. DOMAIN req[r].ents \in SUBSET Below(nextId)
        BY <1>a DEF RequestBelow, TablesBelow
      <3>2. IsFiniteSet(Below(nextId))
        BY <1>a, FS_Interval DEF Types, Below
      <3> QED BY <3>1, <3>2, FS_Subset
    <2>3. /\ Cardinality(DOMAIN req[r].ents) \in Nat
          /\ Cardinality(DOMAIN req[r].ents) # 0
      BY <1>5, <2>2, FS_CardinalityType, FS_EmptySet
    <2>4. Len(p) = Cardinality(DOMAIN req[r].ents)
      BY <2>1, <2>3
    <2> QED BY <1>a, <2>1, <2>3, <2>4 DEF Types
  <1>7. DOMAIN more = nextId..(nextId + Len(p) - 1)
    OBVIOUS
  <1>8. \A i \in DOMAIN more : more[i].order = LastOf(rules) + (i - nextId + 1)
    BY <1>5
  <1>9. kind # "route" => \A i \in DOMAIN more : more[i].group = NoGroup
    <2> SUFFICES ASSUME kind # "route", NEW i \in nextId..(nextId + Len(p) - 1)
                 PROVE  req[r].ents[p[i - nextId + 1]].group = NoGroup
      OBVIOUS
    <2>1. i - nextId + 1 \in 1..Len(p)
      BY <1>6
    <2>2. p[i - nextId + 1] \in DOMAIN req[r].ents
      BY <1>6, <2>1
    <2> QED BY <1>b, <1>5, <2>2 DEF Same, Ungrouped
  <1> HIDE DEF more
  <1>10. Appended(rules, more, Added(rules, more))
    BY <1>4, <1>6, <1>7, <1>8, AppendedAreLast
  <1>11. Appended(rules, more, rules')
    BY <1>2, <1>10
  <1>12. DOMAIN more = req'[r].ids /\ DOMAIN more # {}
    BY <1>3, <1>6, <1>7
  <1> QED BY <1>3, <1>9, <1>11, <1>12

LEMMA CopyPlaced ==
    ASSUME PlaceInv, NEW r \in Requests,
           CopyFind(r) \/ CopyLast(r) \/ CopyInsert(r)
    PROVE  Placed(req'[r], rules')
  <1>1. /\ req[r] \in RequestBelow(nextId) /\ DOMAIN req = Requests
        /\ Placed(req[r], rules) /\ InOrder(req[r], rules) /\ Types
        /\ req[r].pc \in {"find", "copyLast", "copyInsert"}
    BY PlaceFacts DEF CopyFind, CopyLast, CopyInsert, Step, At
  <1>2. ~Moving(req[r])
    BY <1>1 DEF Moving, SavesMove
  <1>3. /\ Grouped(rules, DOMAIN rules) /\ (kind # "route" => Ungrouped(rules))
        /\ req[r].op # "move" /\ req[r].dest \in DOMAIN rules
    BY <1>1, <1>2 DEF Placed
  <1>4. CASE Answer(r) /\ CopyLast(r)
    BY <1>2, <1>4, AnswerPlaced DEF CopyLast
  <1>5. CASE CopyFind(r)
    <2>1. /\ req'[r].pc = "copyLast" /\ req'[r].op = req[r].op
          /\ req'[r].dest = req[r].dest /\ rules' = rules
          /\ req'[r].ents = Load(req[r].ids \cap DOMAIN rules)
      BY <1>1, <1>5 DEF CopyFind, Step, RequestBelow
    <2>2. ~Moving(req'[r]) /\ ~Making(req'[r]) /\ ~SavesMove(req'[r])
      BY <2>1 DEF Moving, Making, SavesMove
    <2>3. Same(req'[r].ents, rules')
      <3>1. req[r].ids \cap DOMAIN rules \subseteq DOMAIN rules
        OBVIOUS
      <3> QED BY <2>1, <3>1, LoadIsSame
    <2> QED BY <1>3, <2>1, <2>2, <2>3 DEF Placed
  <1>6. CASE CopyLast(r) /\ ~Answer(r)
    <2>1. /\ req'[r].pc = "copyInsert" /\ req'[r].op = req[r].op
          /\ req'[r].dest = req[r].dest /\ rules' = rules
          /\ req'[r].ents = req[r].ents /\ req[r].ents # NoRows
          /\ req[r].pc = "copyLast"
      BY <1>1, <1>6 DEF CopyLast, Step, At, RequestBelow
    <2>2. ~Moving(req'[r]) /\ ~Making(req'[r]) /\ ~SavesMove(req'[r])
      BY <2>1 DEF Moving, Making, SavesMove
    <2>3. Same(req'[r].ents, rules')
      BY <1>1, <2>1 DEF Placed
    <2>4. DOMAIN req'[r].ents # {}
      <3>1. PICK S : req[r].ents \in [S -> Row]
        BY <1>1 DEF RequestBelow, TablesBelow
      <3>2. S = {} => req[r].ents = NoRows
        BY <3>1 DEF NoRows
      <3> QED BY <2>1, <3>1, <3>2
    <2> QED BY <1>3, <2>1, <2>2, <2>3, <2>4 DEF Placed
  <1>7. CASE CopyInsert(r)
    <2>1. /\ req'[r].pc \in {"look", "pick"} /\ req'[r].op = req[r].op
          /\ req'[r].dest = req[r].dest
      BY <1>7, CopyAppends
    <2>2. PICK more : /\ Appended(rules, more, rules')
                      /\ DOMAIN more = req'[r].ids /\ DOMAIN more # {}
                      /\ kind # "route" => \A i \in DOMAIN more :
                                            more[i].group = NoGroup
      BY <1>7, CopyAppends
    <2>3. /\ DOMAIN rules' = DOMAIN rules \cup DOMAIN more
          /\ DOMAIN rules \cap DOMAIN more = {}
          /\ \A i \in DOMAIN rules : rules'[i] = rules[i]
          /\ \A i \in DOMAIN more : rules'[i] = more[i]
          /\ Block(rules', DOMAIN more)
      BY <2>2 DEF Appended
    <2>4. Chosen(req'[r], rules')
      BY <1>3, <2>1, <2>2, <2>3 DEF Chosen
    <2>5. Grouped(rules', DOMAIN rules' \ req'[r].ids)
      <3>1. DOMAIN rules' \ req'[r].ids = DOMAIN rules
        BY <2>2, <2>3
      <3>2. Grouped(rules', DOMAIN rules)
        BY <1>3, <2>3 DEF Grouped
      <3> QED BY <3>1, <3>2
    <2>6. kind # "route" => Ungrouped(rules')
      BY <1>3, <2>2, <2>3 DEF Ungrouped
    <2>7. Moving(req'[r]) /\ ~SavesMove(req'[r])
      BY <2>1 DEF Moving, SavesMove
    <2> QED BY <1>3, <2>1, <2>4, <2>5, <2>6, <2>7 DEF Placed
  <1> QED BY <1>4, <1>5, <1>6, <1>7

LEMMA RemovePlaced ==
    ASSUME PlaceInv, NEW r \in Requests,
           \/ RemoveNext(r) \/ AffectedTables(r) \/ Delete(r)
           \/ FromRule(r) \/ ToRule(r)
    PROVE  Placed(req'[r], rules')
  <1>1. /\ req[r] \in RequestBelow(nextId) /\ DOMAIN req = Requests
        /\ Placed(req[r], rules) /\ InOrder(req[r], rules)
        /\ req[r].pc \in {"next", "affectedTables", "delete", "from", "to"}
    BY PlaceFacts DEF RemoveNext, AffectedTables, Delete, FromRule, ToRule, Step, At
  <1>2. ~Moving(req[r])
    BY <1>1 DEF Moving, SavesMove
  <1>3. Grouped(rules, DOMAIN rules) /\ (kind # "route" => Ungrouped(rules))
    BY <1>1, <1>2 DEF Placed
  <1>4. CASE Answer(r) /\ ~AffectedTables(r) /\ ~Delete(r)
    BY <1>2, <1>4, AnswerPlaced DEF RemoveNext, FromRule, ToRule
  <1>5. CASE RemoveNext(r) /\ ~Answer(r)
    <2>1. PICK i \in req[r].todo :
            req' = [req EXCEPT ![r].pc = "reload", ![r].then = "affectedTables",
                               ![r].ids = {i}, ![r].todo = req[r].todo \ {i},
                               ![r].ents = Load({i})]
      BY <1>5 DEF RemoveNext
    <2>2. /\ req'[r].pc = "reload" /\ req'[r].then = "affectedTables"
          /\ req'[r].op = req[r].op /\ rules' = rules
      BY <1>1, <1>5, <2>1 DEF RemoveNext, RequestBelow
    <2>3. req[r].op # "move"
      BY <1>1, <2>1 DEF Placed
    <2>4. ~Moving(req'[r]) /\ ~Making(req'[r]) /\ ~SavesMove(req'[r])
      BY <2>2 DEF Moving, Making, SavesMove
    <2> QED BY <1>3, <2>2, <2>3, <2>4 DEF Placed
  <1>6. CASE AffectedTables(r)
    <2>1. /\ req'[r].pc = "delete" /\ req'[r].op = req[r].op /\ rules' = rules
          /\ req[r].pc = "affectedTables"
      BY <1>1, <1>6 DEF AffectedTables, Step, At, RequestBelow
    <2>2. ~Moving(req'[r]) /\ ~Making(req'[r]) /\ ~SavesMove(req'[r])
      BY <2>1 DEF Moving, Making, SavesMove
    <2>3. req[r].op # "move"
      BY <1>1, <1>2, <2>1 DEF Placed
    <2> QED BY <1>3, <2>1, <2>2, <2>3 DEF Placed
  <1>7. CASE Delete(r)
    <2>1. /\ req'[r].pc \in {"next", "refreshIds"} /\ req'[r].op = req[r].op
          /\ rules' = Restrict(rules, DOMAIN rules \ req[r].ids)
          /\ req[r].pc = "delete"
      BY <1>1, <1>7 DEF Delete, Step, At, RequestBelow, Load
    <2>2. ~Moving(req'[r]) /\ ~Making(req'[r]) /\ ~SavesMove(req'[r])
      BY <2>1 DEF Moving, Making, SavesMove
    <2>3. req[r].op # "move"
      BY <1>1, <1>2, <2>1 DEF Placed
    <2>4. /\ DOMAIN rules' \subseteq DOMAIN rules
          /\ \A i \in DOMAIN rules' : rules'[i] = rules[i]
      BY <2>1 DEF Restrict
    <2>5. NoTies(rules)
      BY <1>1, <2>1 DEF InOrder, Orderly
    <2>6. NoTies(rules') /\ Grouped(rules', DOMAIN rules')
          /\ (kind # "route" => Ungrouped(rules'))
      BY <1>3, <2>4, <2>5 DEF NoTies, Grouped, Ungrouped
    <2> QED BY <2>1, <2>2, <2>3, <2>6 DEF Placed
  <1>8. CASE (FromRule(r) \/ ToRule(r)) /\ ~Answer(r)
    <2>1. /\ \/ req'[r].pc = "to"
             \/ req'[r].pc = "reload" /\ req'[r].then = "next"
          /\ req'[r].op = req[r].op /\ rules' = rules
          /\ req[r].pc \in {"from", "to"}
      BY <1>1, <1>8 DEF FromRule, ToRule, Step, At, RequestBelow
    <2>2. ~Moving(req'[r]) /\ ~Making(req'[r]) /\ ~SavesMove(req'[r])
      BY <2>1 DEF Moving, Making, SavesMove
    <2>3. req[r].op # "move"
      BY <1>1, <1>2, <2>1 DEF Placed
    <2> QED BY <1>3, <2>1, <2>2, <2>3 DEF Placed
  <1> QED BY <1>4, <1>5, <1>6, <1>7, <1>8

\* Of the rules that an update takes from one firewall to another, the list sees those
\* that leave: the rest stay in their groups.
LEMMA LeavePlaced ==
    ASSUME PlaceInv, NEW r \in Requests, Leave(r) \/ MoveIn(r), ~unsettled'
    PROVE  Placed(req'[r], rules')
  <1>1. /\ req[r].pc = "write" /\ req[r].then = "updated"
        /\ rules' = Restrict(rules, DOMAIN rules \ req[r].ids)
        /\ Answer(r)
    BY DEF Leave, MoveIn, At, Load
  <1>2. ~Moving(req[r])
    BY <1>1 DEF Moving, SavesMove
  <1>3. Grouped(rules, DOMAIN rules) /\ (kind # "route" => Ungrouped(rules))
    BY <1>2, PlaceFacts DEF Placed
  <1>4. /\ DOMAIN rules' \subseteq DOMAIN rules
        /\ \A i \in DOMAIN rules' : rules'[i] = rules[i]
    BY <1>1 DEF Restrict
  <1>5. Grouped(rules', DOMAIN rules') /\ (kind # "route" => Ungrouped(rules'))
    BY <1>3, <1>4 DEF Grouped, Ungrouped
  <1>6. req'[r] = NoRequest
    BY <1>1, PlaceFacts DEF Answer
  <1>7. req'[r].pc = "idle" /\ req'[r].op = "none"
    BY <1>6 DEF NoRequest
  <1>8. ~Moving(req'[r]) /\ ~Making(req'[r]) /\ ~SavesMove(req'[r])
    BY <1>7 DEF Moving, Making, SavesMove
  <1> QED BY <1>5, <1>7, <1>8 DEF Placed

LEMMA ServePlaced ==
    ASSUME PlaceInv, NEW r \in Requests, Serve(r), ~unsettled'
    PROVE  Placed(req'[r], rules')
  BY CreationPlaced, UpdatePlaced, WritePlaced, LeavePlaced, MoveStepPlaced,
     RefreshPlaced, CopyPlaced, RemovePlaced DEF Serve

LEMMA ReceivePlaced ==
    ASSUME ~Scattered, PlaceInv, NEW r \in Requests, Receive(r)
    PROVE  Placed(req'[r], rules')
  <1>1. At(r, "idle") /\ Placed(req[r], rules) /\ Types
    BY PlaceFacts DEF Receive
  <1>2. Grouped(rules, DOMAIN rules) /\ (kind # "route" => Ungrouped(rules))
    <2>1. ~Moving(req[r])
      BY <1>1 DEF Moving, SavesMove, At
    <2> QED BY <1>1, <2>1 DEF Placed
  <1>3. ASSUME NEW op, NEW S, NEW d, NEW w, NEW label,
               Arrive(r, op, label, S, d, w)
        PROVE  /\ req'[r].pc = label /\ req'[r].op = op /\ req'[r].ids = S
               /\ req'[r].dest = d /\ rules' = rules
               /\ op # "remove" => req'[r].todo = {}
    <2>1. req'[r] = [NoRequest EXCEPT
                       !.op = op, !.pc = label, !.ids = S, !.dest = d, !.where = w,
                       !.alone = Idle, !.todo = IF op = "remove" THEN S ELSE {}]
      BY <1>3 DEF Arrive
    <2> QED BY <1>3, <2>1 DEF NoRequest, Arrive
  <1>4. ASSUME NEW label \in {"last", "preload", "find", "next", "from", "arrive"},
               NEW op, op # "move", NEW S, NEW d, NEW w,
               Arrive(r, op, label, S, d, w),
               label = "last" => d = 0 \/ d \in DOMAIN rules,
               label = "find" => d \in DOMAIN rules,
               label = "preload" => op # "create"
        PROVE  Placed(req'[r], rules')
    <2>1. /\ req'[r].pc = label /\ req'[r].op = op /\ req'[r].dest = d
          /\ rules' = rules
      BY <1>3, <1>4
    <2>2. ~Moving(req'[r]) /\ ~Making(req'[r]) /\ ~SavesMove(req'[r])
      BY <1>4, <2>1 DEF Moving, Making, SavesMove
    <2> QED BY <1>2, <1>4, <2>1, <2>2 DEF Placed
  <1>5. CASE ReceiveCreate(r)
    BY <1>4, <1>5 DEF ReceiveCreate
  <1>6. CASE ReceiveUpdate(r)
    BY <1>4, <1>6 DEF ReceiveUpdate
  <1>7. CASE ReceiveMove(r)
    <2>a. PICK S \in Selections :
            \E d \in Destinations(S), w \in Offsets :
              Arrive(r, "move", StartOfMove, S, d, w)
      BY <1>7 DEF ReceiveMove
    <2>1. PICK d \in Destinations(S), w \in Offsets :
            Arrive(r, "move", StartOfMove, S, d, w)
      BY <2>a
    <2>2. /\ req'[r].pc \in {"look", "pick"} /\ req'[r].op = "move"
          /\ req'[r].ids = S /\ req'[r].dest = d /\ rules' = rules
          /\ req'[r].todo = {}
      BY <1>3, <2>1 DEF StartOfMove
    <2>3. S # {} /\ S \subseteq DOMAIN rules /\ d \in DOMAIN rules \ S
      BY <2>1 DEF Selections, Destinations
    <2>4. Block(rules, S)
      <3>1. PICK lo \in {rules[i].order : i \in DOMAIN rules},
                 hi \in {rules[i].order : i \in DOMAIN rules} :
              S = {i \in DOMAIN rules : rules[i].order \in lo..hi}
        BY <2>1 DEF Selections
      <3>2. \A i \in DOMAIN rules : rules[i].order \in Nat
        BY <1>1, RulesType DEF Row
      <3>3. lo \in Nat /\ hi \in Nat
        BY <3>2
      <3> QED BY <3>1, <3>2, <3>3 DEF Block
    <2>5. Chosen(req'[r], rules')
      BY <2>2, <2>3, <2>4 DEF Chosen
    <2>6. Grouped(rules, DOMAIN rules \ S)
      BY <1>2, FewerAreGrouped
    <2>7. Moving(req'[r]) /\ ~SavesMove(req'[r])
      BY <2>2 DEF Moving, SavesMove
    <2> QED BY <1>2, <2>2, <2>5, <2>6, <2>7 DEF Placed
  <1>8. CASE ReceiveCopy(r)
    BY <1>4, <1>8 DEF ReceiveCopy
  <1>9. CASE ReceiveRemove(r)
    BY <1>4, <1>9 DEF ReceiveRemove
  <1>10. CASE ReceiveMoveItem(r)
    BY <1>4, <1>10 DEF ReceiveMoveItem
  <1>11. CASE ReceiveTransfer(r)
    BY <1>4, <1>11 DEF ReceiveTransfer
  <1> QED BY <1>5, <1>6, <1>7, <1>8, <1>9, <1>10, <1>11 DEF Receive

LEMMA PlaceStep ==
    ASSUME OneAtATime, ~Scattered, PlaceInv, [Next]_vars, ~unsettled'
    PROVE  PlaceInv'
  <1>1. SerialInv'
    BY SerialInvStep DEF PlaceInv
  <1>2. ASSUME NEW r \in Requests, Receive(r) \/ Serve(r), UNCHANGED kind
        PROVE  PlaceInv'
    <2>1. Placed(req'[r], rules')
      BY <1>2, ServePlaced, ReceivePlaced
    <2>2. Placed(req[r], rules)'
      BY <1>2, <2>1 DEF Placed, Moved
    <2>3. \A q \in Requests : q = r
      BY <1>2 DEF OneAtATime
    <2> QED BY <1>1, <2>2, <2>3 DEF PlaceInv
  <1>3. CASE UNCHANGED vars
    <2>1. \A r \in Requests : Placed(req[r], rules)'
      BY <1>3 DEF PlaceInv, Placed, Moved, vars
    <2> QED BY <1>1, <1>3, <2>1 DEF PlaceInv, vars
  <1> QED BY <1>2, <1>3 DEF Next

LEMMA PlaceAtInit ==
    ASSUME Init
    PROVE  PlaceInv
  <1>1. SerialInv /\ Grouped(rules, DOMAIN rules)
    BY SerialInvAtInit DEF Init
  <1>2. kind # "route" => Ungrouped(rules)
    BY DEF Init, Ungrouped
  <1>3. ASSUME NEW r \in Requests PROVE Placed(req[r], rules)
    <2>1. req[r].pc = "idle" /\ req[r].op = "none"
      BY DEF Init, NoRequest
    <2>2. ~Moving(req[r]) /\ ~Making(req[r]) /\ ~SavesMove(req[r])
      BY <2>1 DEF Moving, Making, SavesMove
    <2> QED BY <1>1, <1>2, <2>1, <2>2 DEF Placed
  <1> QED BY <1>1, <1>3 DEF PlaceInv

\* Only lists outside of groups are ever unsettled, and the refresh that settles one
\* moves nothing.
LEMMA PlaceSettles ==
    ASSUME OneAtATime, CalmInv, CalmInv', Next, unsettled, ~unsettled'
    PROVE  PlaceInv'
  <1>1. UNCHANGED kind /\ kind # "route"
    BY DEF Next, CalmInv, Types
  <1>2. PICK r \in Requests :
          /\ \A q \in Requests : q = r
          /\ req'[r].pc = "next" /\ req'[r].later = NoRows
          /\ req'[r].op = "move" => req'[r].todo = {}
          /\ Orderly(rules')
    BY SettledRows
  <1>3. SerialInv'
    BY DEF CalmInv
  <1>4. Ungrouped(rules')
    <2>1. Row' = Row /\ \A x \in Row : x.group = NoGroup
      BY <1>1 DEF Row
    <2>2. rules' \in (TablesBelow(nextId))'
      BY <1>3 DEF SerialInv, Types
    <2>3. PICK S : rules' \in [S -> Row]
      BY <2>1, <2>2 DEF TablesBelow
    <2> QED BY <2>1, <2>3 DEF Ungrouped
  <1>5. \A S \in SUBSET DOMAIN rules' : Grouped(rules', S)
    BY <1>4 DEF Ungrouped, Grouped
  <1>6. ~Moving(req'[r]) /\ ~Making(req'[r]) /\ ~SavesMove(req'[r])
    BY <1>2 DEF Moving, Making, SavesMove
  <1>7. Placed(req'[r], rules')
    BY <1>2, <1>4, <1>5, <1>6 DEF Placed
  <1>8. Placed(req[r], rules)'
    BY <1>1, <1>7 DEF Placed, Moved
  <1> QED BY <1>2, <1>3, <1>8 DEF PlaceInv

PlacedOnceCalm == CalmInv /\ (~unsettled => PlaceInv)

LEMMA PlacedStep ==
    ASSUME OneAtATime, ~Scattered, PlacedOnceCalm, [Next]_vars
    PROVE  PlacedOnceCalm'
  <1>1. CalmInv'
    BY CalmStep DEF PlacedOnceCalm
  <1>2. ASSUME ~unsettled' PROVE PlaceInv'
    <2>1. CASE ~unsettled
      BY <1>2, <2>1, PlaceStep DEF PlacedOnceCalm
    <2>2. CASE unsettled
      <3>1. Next
        BY <1>2, <2>2 DEF vars
      <3> QED BY <1>1, <1>2, <2>2, <3>1, PlaceSettles DEF PlacedOnceCalm
    <2> QED BY <2>1, <2>2
  <1> QED BY <1>1, <1>2 DEF PlacedOnceCalm

LEMMA PlacedAlways ==
    ASSUME OneAtATime, ~Scattered
    PROVE  Spec => []PlacedOnceCalm
  <1>1. Init => PlacedOnceCalm
    BY PlaceAtInit, CalmAtInit DEF PlacedOnceCalm
  <1>2. PlacedOnceCalm /\ [Next]_vars => PlacedOnceCalm'
    BY PlacedStep
  <1> QED BY <1>1, <1>2, PTL DEF Spec

\* Served one at a time, selections without gaps: when a move is over the rules of
\* every group are next to each other, although a copy puts new members of a group
\* at the end of the table first, and a move may land in the middle of a group.
THEOREM OneAtATimeGrouped ==
    ASSUME OneAtATime, ~Scattered
    PROVE  Spec => []GroupsTogether
  <1>1. ASSUME PlaceInv, Idle PROVE Grouped(rules, DOMAIN rules)
    <2>1. ASSUME NEW r \in Requests PROVE Grouped(rules, DOMAIN rules)
      <3>1. req[r].pc = "idle"
        BY <1>1 DEF Idle, At
      <3>2. ~Moving(req[r])
        BY <3>1 DEF Moving, SavesMove
      <3> QED BY <1>1, <3>2 DEF PlaceInv, Placed
    <2> QED BY <1>1, <2>1 DEF PlaceInv
  <1>2. ASSUME Types, unsettled PROVE Grouped(rules, DOMAIN rules)
    <2>1. \A x \in Row : x.group = NoGroup
      BY <1>2 DEF Types, Row
    <2>2. rules \in [DOMAIN rules -> Row]
      BY <1>2, RulesType
    <2> QED BY <2>1, <2>2 DEF Grouped
  <1>3. PlacedOnceCalm => GroupsTogether
    BY <1>1, <1>2 DEF GroupsTogether, PlacedOnceCalm, CalmInv
  <1> QED BY <1>3, PlacedAlways, PTL

\* The refresh that ends a move leaves the rules selected next to the destination.
LEMMA MoveEndsPlaced ==
    ASSUME PlaceInv, Next, NEW r \in Requests,
           At(r, "refresh"), req'[r].pc = "next", req[r].op = "move"
    PROVE  LET d == rules'[req[r].dest].order
               n == Len(req[r].sel)
           IN {rules'[i].order : i \in Members(req[r].sel)}
                = IF req[r].where = "above" THEN (d - n)..(d - 1)
                                            ELSE (d + 1)..(d + n)
  <1>1. Refresh(r)
    BY RefreshEnds DEF PlaceInv, SerialInv
  <1>2. /\ req[r] \in RequestBelow(nextId) /\ Placed(req[r], rules)
        /\ InOrder(req[r], rules) /\ Types /\ req[r].pc = "refresh"
    BY PlaceFacts DEF At
  <1>3. NoTies(rules) /\ Landed(req[r], rules)
    BY <1>2 DEF Placed
  <1>4. req[r].ids \cap DOMAIN rules = DOMAIN rules
    BY <1>2 DEF InOrder
  <1>5. PICK p \in Listings(rules, DOMAIN rules) : rules' = Renumber(rules, p)
    BY <1>1, <1>4 DEF Refresh
  <1>6. IsFiniteSet(DOMAIN rules) /\ rules \in [DOMAIN rules -> Row]
    BY <1>2, RulesType
  <1>7. req[r].where \in {"above", "below"}
    BY <1>2 DEF RequestBelow
  <1> QED BY <1>3, <1>5, <1>6, <1>7, LandedStays

\* Served one at a time, whatever was created, copied or removed before: after a
\* move of rules without gaps between them, they are next to the destination, on
\* the side asked for, in tables of any size; rules come from another firewall may be
\* in between until the next refresh.
THEOREM OneAtATimeNextToDestination ==
    ASSUME OneAtATime, ~Scattered
    PROVE  Spec => MovedNextToDestination
  <1>1. PlacedOnceCalm /\ [Next]_vars
          => [\A r \in Requests :
                /\ At(r, "refresh") /\ req'[r].pc = "next"
                /\ req[r].op = "move" /\ req[r].alone /\ ~unsettled
                => LET d == rules'[req[r].dest].order
                       n == Len(req[r].sel)
                   IN {rules'[i].order : i \in Members(req[r].sel)}
                        = IF req[r].where = "above" THEN (d - n)..(d - 1)
                                                    ELSE (d + 1)..(d + n)]_vars
    BY MoveEndsPlaced DEF PlacedOnceCalm
  <1> QED BY <1>1, PlacedAlways, PTL DEF Spec, MovedNextToDestination
-----------------------------------------------------------------------------
(***************************************************************************)
(* The list that users see.                                                *)
(***************************************************************************)
BeforeIn(rows) == {p \in (DOMAIN rows) \X (DOMAIN rows) :
                     rows[p[1]].order < rows[p[2]].order}

LEMMA BeforeInPair ==
    ASSUME NEW rows, NEW i, NEW j
    PROVE  <<i, j>> \in BeforeIn(rows) <=>
             i \in DOMAIN rows /\ j \in DOMAIN rows /\ rows[i].order < rows[j].order
  BY DEF BeforeIn

\* A table without ties shows its rules as a list.
LEMMA NoTiesIsList ==
    ASSUME NEW rows, NoTies(rows), \A i \in DOMAIN rows : rows[i].order \in Nat
    PROVE  RuleListOf!IsList(DOMAIN rows, BeforeIn(rows))
  <1>1. BeforeIn(rows) \subseteq (DOMAIN rows) \X (DOMAIN rows)
    BY DEF BeforeIn
  <1>2. ASSUME NEW i \in DOMAIN rows, NEW j \in DOMAIN rows
        PROVE  i = j <=> <<i, j>> \notin BeforeIn(rows) /\ <<j, i>> \notin BeforeIn(rows)
    <2>1. rows[i].order \in Nat /\ rows[j].order \in Nat
      OBVIOUS
    <2>2. rows[i].order = rows[j].order <=> i = j
      BY DEF NoTies
    <2> QED BY <2>1, <2>2, BeforeInPair
  <1>3. ASSUME NEW i \in DOMAIN rows, NEW j \in DOMAIN rows, NEW k \in DOMAIN rows,
               <<i, j>> \in BeforeIn(rows), <<j, k>> \in BeforeIn(rows)
        PROVE  <<i, k>> \in BeforeIn(rows)
    <2>1. rows[i].order \in Nat /\ rows[j].order \in Nat /\ rows[k].order \in Nat
      OBVIOUS
    <2>2. rows[i].order < rows[j].order /\ rows[j].order < rows[k].order
      BY <1>3, BeforeInPair
    <2> QED BY <2>1, <2>2, BeforeInPair
  <1> QED BY <1>1, <1>2, <1>3 DEF RuleListOf!IsList

\* Rules appended come last in the list.
LEMMA AppendedInList ==
    ASSUME NEW rows, NEW more, NEW new, Appended(rows, more, new), DOMAIN more # {}
    PROVE  /\ DOMAIN rows \subseteq DOMAIN new /\ DOMAIN new # DOMAIN rows
           /\ BeforeIn(rows) = BeforeIn(new) \cap ((DOMAIN rows) \X (DOMAIN rows))
           /\ \A i \in DOMAIN rows, j \in DOMAIN new \ DOMAIN rows :
                <<i, j>> \in BeforeIn(new)
  <1>1. /\ DOMAIN new = DOMAIN rows \cup DOMAIN more
        /\ DOMAIN rows \cap DOMAIN more = {}
        /\ \A i \in DOMAIN rows : new[i] = rows[i]
        /\ \A i \in DOMAIN rows, j \in DOMAIN more : new[i].order < new[j].order
    BY DEF Appended
  <1>2. BeforeIn(rows) = BeforeIn(new) \cap ((DOMAIN rows) \X (DOMAIN rows))
    BY <1>1 DEF BeforeIn
  <1>3. ASSUME NEW i \in DOMAIN rows, NEW j \in DOMAIN new \ DOMAIN rows
        PROVE  <<i, j>> \in BeforeIn(new)
    BY <1>1, <1>3, BeforeInPair
  <1> QED BY <1>1, <1>2, <1>3

\* Where the rules that stay end up, seen from a selection dropped beside dest.
Beside(rows, d, where, j) == rows[d].order < rows[j].order \/ (where = "above" /\ j = d)

LEMMA DroppedInList ==
    ASSUME NEW rows, NEW S, IsFiniteSet(S), NEW sel \in Listings(rows, S),
           Members(sel) = S,
           NEW first, NEW d, NEW where, WellPrepared(rows, sel, first, d, where),
           NEW new, Dropped(rows, sel, first, d, where, new),
           NEW i \in DOMAIN rows, NEW j \in DOMAIN rows
    PROVE  new[i].order < new[j].order <=>
             \/ (i \in S <=> j \in S) /\ rows[i].order < rows[j].order
             \/ i \in S /\ j \notin S /\ Beside(rows, d, where, j)
             \/ i \notin S /\ j \in S /\ ~Beside(rows, d, where, i)
  <1> DEFINE edge == Edge(rows[d].order, where)
             n == Len(sel)
  <1>1. /\ DOMAIN new = DOMAIN rows
        /\ \A e \in DOMAIN rows :
             new[e].order = IF e \in Members(sel)
                            THEN Landing(sel, e, rows[d].order, where)
                            ELSE Shifted(rows[e].order, Len(sel), first,
                                         rows[d].order, where)
    BY DEF Dropped
  <1>2. /\ n \in Nat /\ rows[d].order \in Nat
        /\ rows[i].order \in Nat /\ rows[j].order \in Nat
        /\ d \in DOMAIN rows /\ where \in {"above", "below"}
        /\ \A e \in DOMAIN rows : rows[e].order = rows[d].order => e = d
    BY WellPreparedFacts DEF WellPrepared, NoTies
  <1>3. /\ edge \in Int
        /\ \A e \in DOMAIN rows : new[e].order \in Int
        /\ \A k \in 1..n : new[sel[k]].order = edge + k
        /\ \A e \in DOMAIN rows \ Members(sel) :
             /\ rows[e].order > edge => new[e].order > edge + n
             /\ rows[e].order <= edge => new[e].order <= edge
        /\ \A e, f \in DOMAIN rows \ Members(sel) :
             rows[e].order < rows[f].order => new[e].order < new[f].order
    BY <1>1, AfterMove
  <1>4. \A e \in DOMAIN rows : e \in S =>
          /\ PositionIn(sel, e) \in 1..n /\ sel[PositionIn(sel, e)] = e
    BY WellPreparedFacts, PositionFound
  <1>5. \A e \in DOMAIN rows : e \in S => new[e].order = edge + PositionIn(sel, e)
    BY <1>3, <1>4
  <1>6. \A e \in DOMAIN rows : rows[e].order \in Nat =>
          (Beside(rows, d, where, e) <=> rows[e].order > edge)
    BY <1>2 DEF Beside, Edge
  <1>7. rows[i].order = rows[j].order => i = j
    BY DEF WellPrepared, NoTies
  <1> HIDE DEF edge, n
  <1>8. CASE i \in S /\ j \in S
    <2> DEFINE k == PositionIn(sel, i)
               l == PositionIn(sel, j)
    <2>1. /\ k \in 1..n /\ l \in 1..n /\ sel[k] = i /\ sel[l] = j
          /\ new[i].order = edge + k /\ new[j].order = edge + l
      BY <1>4, <1>5, <1>8
    <2> HIDE DEF k, l
    <2>2. n = Cardinality(S)
      <3>1. sel \in [1..Cardinality(S) -> S]
        BY DEF Listings
      <3>2. DOMAIN sel = 1..n
        BY WellPreparedFacts DEF n
      <3>3. DOMAIN sel = 1..Cardinality(S)
        BY <3>1
      <3>4. Cardinality(S) \in Nat
        BY FS_CardinalityType
      <3> QED BY <1>2, <3>2, <3>3, <3>4
    <2>3. /\ k < l => rows[i].order <= rows[j].order
          /\ l < k => rows[j].order <= rows[i].order
      <3>1. \A a, b \in 1..Cardinality(S) :
              a < b => sel[a] # sel[b] /\ rows[sel[a]].order <= rows[sel[b]].order
        BY DEF Listings
      <3>2. k \in 1..Cardinality(S) /\ l \in 1..Cardinality(S)
        BY <2>1, <2>2
      <3> QED BY <2>1, <3>1, <3>2
    <2>4. k = l <=> i = j
      BY <2>1 DEF k, l
    <2>5. k < l <=> rows[i].order < rows[j].order
      BY <1>2, <1>7, <2>1, <2>3, <2>4, <1>3
    <2> QED BY <1>3, <1>8, <2>1, <2>5, <1>2
  <1>9. CASE i \notin S /\ j \notin S
    <2>1. /\ rows[i].order < rows[j].order => new[i].order < new[j].order
          /\ rows[j].order < rows[i].order => new[j].order < new[i].order
      BY <1>3, <1>9
    <2>2. new[i].order \in Int /\ new[j].order \in Int
      BY <1>3
    <2> QED BY <1>2, <1>7, <1>9, <2>1, <2>2
  <1>10. CASE i \in S /\ j \notin S
    <2>1. new[i].order = edge + PositionIn(sel, i) /\ PositionIn(sel, i) \in 1..n
      BY <1>4, <1>5, <1>10
    <2>2. /\ rows[j].order > edge => new[j].order > edge + n
          /\ rows[j].order <= edge => new[j].order <= edge
          /\ new[j].order \in Int
      BY <1>3, <1>10
    <2> QED BY <1>2, <1>3, <1>6, <1>10, <2>1, <2>2
  <1>11. CASE i \notin S /\ j \in S
    <2>1. new[j].order = edge + PositionIn(sel, j) /\ PositionIn(sel, j) \in 1..n
      BY <1>4, <1>5, <1>11
    <2>2. /\ rows[i].order > edge => new[i].order > edge + n
          /\ rows[i].order <= edge => new[i].order <= edge
          /\ new[i].order \in Int
      BY <1>3, <1>11
    <2> QED BY <1>2, <1>3, <1>6, <1>11, <2>1, <2>2
  <1> QED BY <1>8, <1>9, <1>10, <1>11

LEMMA NoTiesNow ==
    ASSUME NEW x, NEW rows, InOrder(x, rows), Placed(x, rows)
    PROVE  NoTies(rows)
  BY DEF InOrder, Orderly, Placed

LEMMA QuietInList ==
    ASSUME UNCHANGED <<rules, unsettled>>
    PROVE  UNCHANGED RuleListOf!vars
  BY DEF RuleListOf!vars, Before

LEMMA AppendAddsLast ==
    ASSUME NEW more, Appended(rules, more, rules'), DOMAIN more # {}, NoTies(rules')
    PROVE  RuleListOf!AddLast
  <1>1. RuleListOf!IsList(DOMAIN rules', BeforeIn(rules'))
    BY NoTiesIsList DEF Appended
  <1>2. Before = BeforeIn(rules) /\ Before' = BeforeIn(rules')
    BY DEF Before, BeforeIn
  <1>3. /\ DOMAIN rules \subseteq DOMAIN rules' /\ DOMAIN rules' # DOMAIN rules
        /\ BeforeIn(rules) = BeforeIn(rules') \cap ((DOMAIN rules) \X (DOMAIN rules))
        /\ \A i \in DOMAIN rules, j \in DOMAIN rules' \ DOMAIN rules :
             <<i, j>> \in BeforeIn(rules')
    BY AppendedInList
  <1> QED BY <1>1, <1>2, <1>3 DEF RuleListOf!AddLast

LEMMA InsertInList ==
    ASSUME PlaceInv, NEW r \in Requests, InsertLast(r), NoTies(rules')
    PROVE  RuleListOf!AddLast
  <1>1. PICK more : Appended(rules, more, rules') /\ DOMAIN more = {nextId}
    BY InsertAppends DEF PlaceInv
  <1> QED BY <1>1, AppendAddsLast

LEMMA CopyInList ==
    ASSUME PlaceInv, NEW r \in Requests, CopyInsert(r), NoTies(rules')
    PROVE  RuleListOf!AddLast
  <1>1. PICK more : Appended(rules, more, rules') /\ DOMAIN more # {}
    BY CopyAppends
  <1> QED BY <1>1, AppendAddsLast

LEMMA MoveInList ==
    ASSUME PlaceInv, NEW r \in Requests, Write(r), req[r].then = "refreshIds"
    PROVE  RuleListOf!Edit
  <1> DEFINE x == req[r]
             S == x.ids
             d == x.dest
             where == x.where
  <1>1. /\ WellPrepared(rules, x.sel, x.first, d, where)
        /\ Dropped(rules, x.sel, x.first, d, where, rules')
        /\ Members(x.sel) = S /\ x.sel \in Listings(rules, S)
        /\ S \subseteq DOMAIN rules /\ d \in DOMAIN rules \ S
    BY MoveWritten
  <1>2. IsFiniteSet(S)
    <2>1. IsFiniteSet(DOMAIN rules)
      BY PlaceFacts, RulesType
    <2> QED BY <1>1, <2>1, FS_Subset
  <1>3. where \in {"above", "below"}
    BY <1>1 DEF WellPrepared
  <1>4. DOMAIN rules' = DOMAIN rules
    BY <1>1 DEF Dropped
  <1>5. ASSUME NEW i \in DOMAIN rules, NEW j \in DOMAIN rules
        PROVE  rules'[i].order < rules'[j].order <=>
                 \/ (i \in S <=> j \in S) /\ rules[i].order < rules[j].order
                 \/ i \in S /\ j \notin S /\ Beside(rules, d, where, j)
                 \/ i \notin S /\ j \in S /\ ~Beside(rules, d, where, i)
    BY <1>1, <1>2, DroppedInList
  <1> HIDE DEF x, S, d, where
  <1>6. ASSUME NEW j \in DOMAIN rules
        PROVE  Beside(rules, d, where, j) <=> RuleListOf!After(j, d, where)
    BY <1>1 DEF Beside, RuleListOf!After, Before
  <1>7. Before' = {p \in (DOMAIN rules) \X (DOMAIN rules) :
                     \/ (p[1] \in S <=> p[2] \in S) /\ p \in Before
                     \/ p[1] \in S /\ p[2] \notin S /\ RuleListOf!After(p[2], d, where)
                     \/ p[1] \notin S /\ p[2] \in S /\ ~RuleListOf!After(p[1], d, where)}
    <2>1. Before' = {p \in (DOMAIN rules) \X (DOMAIN rules) :
                       rules'[p[1]].order < rules'[p[2]].order}
      BY <1>4 DEF Before
    <2>2. ASSUME NEW p \in (DOMAIN rules) \X (DOMAIN rules)
          PROVE  rules'[p[1]].order < rules'[p[2]].order <=>
                     \/ (p[1] \in S <=> p[2] \in S) /\ p \in Before
                     \/ p[1] \in S /\ p[2] \notin S /\ RuleListOf!After(p[2], d, where)
                     \/ p[1] \notin S /\ p[2] \in S /\ ~RuleListOf!After(p[1], d, where)
      <3>1. p \in Before <=> rules[p[1]].order < rules[p[2]].order
        BY DEF Before
      <3>2. p[1] \in DOMAIN rules /\ p[2] \in DOMAIN rules
        OBVIOUS
      <3> QED BY <1>5, <1>6, <3>1, <3>2
    <2> QED BY <2>1, <2>2
  <1>8. RuleListOf!Move(S, d, where)
    BY <1>4, <1>7 DEF RuleListOf!Move
  <1> QED BY <1>1, <1>3, <1>8 DEF RuleListOf!Edit

LEMMA RefreshInList ==
    ASSUME PlaceInv, NEW r \in Requests, Refresh(r), UNCHANGED unsettled
    PROVE  UNCHANGED RuleListOf!vars
  <1>1. /\ Types /\ InOrder(req[r], rules) /\ Placed(req[r], rules)
        /\ req[r].pc = "refresh"
    BY PlaceFacts DEF Refresh, Step, At
  <1>2. req[r].ids \cap DOMAIN rules = DOMAIN rules
    BY <1>1 DEF InOrder
  <1>3. PICK p \in Listings(rules, DOMAIN rules) : rules' = Renumber(rules, p)
    BY <1>2 DEF Refresh
  <1>4. IsFiniteSet(DOMAIN rules) /\ rules \in [DOMAIN rules -> Row] /\ NoTies(rules)
    BY <1>1, RulesType, NoTiesNow
  <1>5. \A i, j \in DOMAIN rules :
          rules'[i].order < rules'[j].order <=> rules[i].order < rules[j].order
    BY <1>3, <1>4, RefreshKeepsOrder
  <1>6. DOMAIN rules' = DOMAIN rules
    BY <1>3 DEF Renumber
  <1> QED BY <1>5, <1>6 DEF RuleListOf!vars, Before

\* Updates and removals take the rules they were asked for one at a time.
NamesOne(x) ==
    \/ x.pc \in {"preload", "validate", "reorder", "affectedTables", "delete"}
    \/ x.pc \in {"reload", "write"} /\ x.then \in {"reorder", "updated", "affectedTables"}
    => \E i : x.ids = {i}

\* A rule that is removed, or leaves for another firewall.
LEMMA GoneInList ==
    ASSUME Types, NEW i, rules' = Restrict(rules, DOMAIN rules \ {i})
    PROVE  RuleListOf!Edit \/ UNCHANGED rules
  <1>1. rules \in [DOMAIN rules -> Row]
    BY RulesType
  <1>2. CASE i \notin DOMAIN rules
    <2>1. rules' = rules
      BY <1>1, <1>2 DEF Restrict
    <2> QED BY <2>1
  <1>3. CASE i \in DOMAIN rules
    <2>1. /\ DOMAIN rules' = DOMAIN rules \ {i}
          /\ \A j \in DOMAIN rules' : rules'[j] = rules[j]
      BY DEF Restrict
    <2>2. Before' = Before \cap ((DOMAIN rules') \X (DOMAIN rules'))
      BY <2>1 DEF Before
    <2>3. RuleListOf!Delete(i)
      BY <2>1, <2>2 DEF RuleListOf!Delete
    <2> QED BY <1>3, <2>3 DEF RuleListOf!Edit
  <1> QED BY <1>2, <1>3

LEMMA ServeNamesOne ==
    ASSUME PlaceInv, NEW r \in Requests, Serve(r), NamesOne(req[r])
    PROVE  NamesOne(req'[r])
  <1>1. req[r] \in RequestBelow(nextId) /\ DOMAIN req = Requests
    BY PlaceFacts
  <1>2. ASSUME Answer(r) PROVE NamesOne(req'[r])
    <2>1. req'[r].pc = "idle"
      BY <1>1, <1>2 DEF Answer, NoRequest
    <2> QED BY <2>1 DEF NamesOne
  <1>3. ASSUME \/ req'[r].pc \notin {"preload", "validate", "reorder", "affectedTables",
                                     "delete", "reload", "write"}
               \/ /\ req'[r].pc \in {"reload", "write"}
                  /\ req'[r].then \notin {"reorder", "updated", "affectedTables"}
        PROVE  NamesOne(req'[r])
    BY <1>3 DEF NamesOne
  <1>4. ASSUME Abort(r) PROVE NamesOne(req'[r])
    <2>1. ASSUME req' = [req EXCEPT ![r].pc = "next", ![r].todo = req[r].ids]
          PROVE  req'[r].pc = "next"
      BY <1>1, <2>1 DEF RequestBelow
    <2> QED BY <1>2, <1>3, <1>4, <2>1 DEF Abort
  <1>5. CASE CreateLast(r) \/ CreateInsert(r) \/ StoreInsert(r) \/ StoreVirtualIps(r)
    <2>1. \/ req'[r].pc \in {"insert", "updated"}
          \/ req'[r].ids = {nextId}
      BY <1>1, <1>5
      DEF CreateLast, CreateInsert, StoreInsert, StoreVirtualIps, RequestBelow
    <2> QED BY <1>3, <2>1 DEF NamesOne
  <1>6. CASE Preload(r) \/ Validate(r) \/ ValidateObjects(r) \/ Reorder(r) \/ Updated(r)
    <2>1. CASE Answer(r) \/ Abort(r)
      BY <1>2, <1>4, <2>1
    <2>2. CASE ~Answer(r) /\ ~Abort(r)
      <3>1. CASE Updated(r)
        <4>1. req'[r].pc \in {"look", "pick"}
          BY <1>1, <2>2, <3>1 DEF Updated, Goto, StartOfMove, RequestBelow
        <4> QED BY <1>3, <4>1
      <3>2. CASE ~Updated(r)
        <4>1. req[r].pc \in {"preload", "validate", "reorder"}
          BY <1>6, <3>2 DEF Preload, Validate, ValidateObjects, Reorder, Step, At
        <4>2. req'[r].ids = req[r].ids
          BY <1>1, <1>6, <2>2, <3>2
          DEF Preload, Validate, ValidateObjects, Reorder, RequestBelow
        <4> QED BY <4>1, <4>2 DEF NamesOne
      <3> QED BY <3>1, <3>2
    <2> QED BY <2>1, <2>2
  <1>7. CASE Reload(r)
    <2>1. /\ req[r].pc = "reload" /\ req'[r].pc = "write"
          /\ req'[r].then = req[r].then /\ req'[r].ids = req[r].ids
      BY <1>1, <1>7 DEF Reload, Step, At, RequestBelow
    <2> QED BY <2>1 DEF NamesOne
  <1>8. CASE Write(r)
    <2>1. req[r].pc = "write" /\ req[r].then \in Returns
      BY <1>1, <1>8 DEF Write, Step, At, RequestBelow
    <2>2. CASE req[r].then = "refreshIds"
      BY <1>3, <1>8, <2>2, WriteMoves
    <2>3. CASE req[r].then # "refreshIds"
      <3>1. /\ req'[r].pc \in {req[r].then, "reload"}
            /\ req'[r].then = req[r].then /\ req'[r].ids = req[r].ids
        BY <1>8, <2>3, WriteKeeps DEF PlaceInv
      <3> QED BY <2>1, <3>1 DEF NamesOne, Returns
    <2> QED BY <2>2, <2>3
  <1>17. CASE Leave(r) \/ MoveIn(r)
    BY <1>2, <1>17 DEF Leave, MoveIn
  <1>9. CASE LookAtDest(r) \/ Pick(r) \/ Affected(r) \/ Dest(r)
    <2>1. CASE Answer(r)
      BY <1>2, <2>1
    <2>2. CASE Pick(r) /\ ~Answer(r)
      <3>1. PICK p : req' = [req EXCEPT ![r].pc = "affected", ![r].sel = p,
                                        ![r].first = rules[p[1]].order]
        BY <2>2 DEF Pick
      <3>2. req'[r].pc = "affected"
        BY <1>1, <3>1 DEF RequestBelow
      <3> QED BY <1>3, <3>2
    <2>3. CASE Dest(r) /\ ~Answer(r)
      <3>1. PICK e : req' = [req EXCEPT ![r].pc = "reload", ![r].then = "refreshIds",
                                        ![r].ents = e]
        BY <2>3 DEF Dest
      <3>2. req'[r].pc = "reload" /\ req'[r].then = "refreshIds"
        BY <1>1, <3>1 DEF RequestBelow
      <3> QED BY <1>3, <3>2
    <2>4. CASE (LookAtDest(r) \/ Affected(r)) /\ ~Answer(r)
      <3>1. req'[r].pc \in {"pick", "dest"}
        BY <1>1, <2>4 DEF LookAtDest, Affected, Goto, RequestBelow
      <3> QED BY <1>3, <3>1
    <2> QED BY <1>9, <2>1, <2>2, <2>3, <2>4
  <1>10. CASE RefreshIds(r) \/ Refresh(r)
    <2>1. req'[r].pc \in {"next", "refresh"}
      BY <1>1, <1>10 DEF RefreshIds, Refresh, Goto, RequestBelow
    <2> QED BY <1>3, <2>1
  <1>11. CASE CopyFind(r) \/ CopyLast(r)
    <2>1. req'[r].pc \in {"copyLast", "copyInsert"} \/ Answer(r)
      BY <1>1, <1>11 DEF CopyFind, CopyLast, RequestBelow
    <2> QED BY <1>2, <1>3, <2>1
  <1>12. CASE CopyInsert(r)
    <2>1. req'[r].pc \in {"look", "pick"}
      BY <1>12, CopyAppends
    <2> QED BY <1>3, <2>1
  <1>13. CASE RemoveNext(r) /\ ~Answer(r)
    <2>1. PICK i : req' = [req EXCEPT ![r].pc = "reload",
                                      ![r].then = "affectedTables", ![r].ids = {i},
                                      ![r].todo = req[r].todo \ {i},
                                      ![r].ents = Load({i})]
      BY <1>13 DEF RemoveNext
    <2>2. req'[r].ids = {i}
      BY <1>1, <2>1 DEF RequestBelow
    <2> QED BY <2>2 DEF NamesOne
  <1>14. CASE AffectedTables(r)
    <2>1. req[r].pc = "affectedTables" /\ req'[r].ids = req[r].ids
      BY <1>1, <1>14 DEF AffectedTables, Step, At, RequestBelow
    <2> QED BY <2>1 DEF NamesOne
  <1>15. CASE Delete(r)
    <2>1. req'[r].pc \in {"next", "refreshIds"}
      BY <1>1, <1>15 DEF Delete, RequestBelow
    <2> QED BY <1>3, <2>1
  <1>16. CASE FromRule(r) \/ ToRule(r)
    <2>1. \/ Answer(r) \/ req'[r].pc = "to"
          \/ req'[r].pc = "reload" /\ req'[r].then = "next"
      BY <1>1, <1>16 DEF FromRule, ToRule, RequestBelow
    <2> QED BY <1>2, <1>3, <2>1
  <1> QED BY <1>2, <1>5, <1>6, <1>7, <1>8, <1>9, <1>10, <1>11, <1>12, <1>13, <1>14,
             <1>15, <1>16, <1>17 DEF Serve

LEMMA ReceiveNamesOne ==
    ASSUME NEW r \in Requests, Receive(r)
    PROVE  NamesOne(req'[r])
  <1>1. ASSUME NEW op, NEW S, NEW d, NEW w,
               NEW label \in {"last", "preload", "look", "pick", "find", "next",
                              "from", "arrive"},
               Arrive(r, op, label, S, d, w),
               label = "preload" => \E i : S = {i}
        PROVE  NamesOne(req'[r])
    <2>1. req'[r] = [NoRequest EXCEPT
                       !.op = op, !.pc = label, !.ids = S, !.dest = d, !.where = w,
                       !.alone = Idle, !.todo = IF op = "remove" THEN S ELSE {}]
      BY <1>1 DEF Arrive
    <2>2. req'[r].pc = label /\ req'[r].ids = S
      BY <2>1 DEF NoRequest
    <2> QED BY <1>1, <2>2 DEF NamesOne
  <1>2. CASE ReceiveCreate(r)
    BY <1>1, <1>2 DEF ReceiveCreate
  <1>3. CASE ReceiveUpdate(r)
    BY <1>1, <1>3 DEF ReceiveUpdate
  <1>4. CASE ReceiveMove(r)
    BY <1>1, <1>4 DEF ReceiveMove, StartOfMove
  <1>5. CASE ReceiveCopy(r)
    BY <1>1, <1>5 DEF ReceiveCopy
  <1>6. CASE ReceiveRemove(r)
    BY <1>1, <1>6 DEF ReceiveRemove
  <1>7. CASE ReceiveMoveItem(r)
    BY <1>1, <1>7 DEF ReceiveMoveItem
  <1>8. CASE ReceiveTransfer(r)
    BY <1>1, <1>8 DEF ReceiveTransfer
  <1> QED BY <1>2, <1>3, <1>4, <1>5, <1>6, <1>7, <1>8 DEF Receive

ListInv == PlaceInv /\ \A r \in Requests : NamesOne(req[r])
ListedOnceCalm == PlacedOnceCalm /\ (~unsettled => \A r \in Requests : NamesOne(req[r]))

LEMMA ListedStep ==
    ASSUME OneAtATime, ~Scattered, ListedOnceCalm, [Next]_vars
    PROVE  ListedOnceCalm'
  <1>1. PlacedOnceCalm'
    BY PlacedStep DEF ListedOnceCalm
  <1>2. ASSUME ~unsettled', ~unsettled, NEW r \in Requests, Receive(r) \/ Serve(r),
               NEW q \in Requests
        PROVE  NamesOne(req'[q])
    <2>1. PlaceInv /\ NamesOne(req[r]) /\ q = r
      BY <1>2 DEF ListedOnceCalm, PlacedOnceCalm, OneAtATime
    <2> QED BY <1>2, <2>1, ServeNamesOne, ReceiveNamesOne
  <1>3. ASSUME ~unsettled', unsettled, Next, NEW q \in Requests
        PROVE  NamesOne(req'[q])
    <2>1. req'[q].pc = "next"
      BY <1>3, SettledRows DEF ListedOnceCalm, PlacedOnceCalm
    <2> QED BY <2>1 DEF NamesOne
  <1>4. ASSUME ~unsettled', UNCHANGED vars, NEW q \in Requests
        PROVE  NamesOne(req'[q])
    BY <1>4 DEF vars, ListedOnceCalm
  <1>5. ASSUME ~unsettled', NEW q \in Requests PROVE NamesOne(req'[q])
    BY <1>2, <1>3, <1>4, <1>5 DEF Next
  <1> QED BY <1>1, <1>5 DEF ListedOnceCalm, NamesOne

\* While no rule comes from another firewall, every step of a request is an edit of the
\* list, or none.
LEMMA ServeInList ==
    ASSUME ListInv, Types', NEW r \in Requests, Serve(r), ~unsettled, ~unsettled'
    PROVE  RuleListOf!Edit \/ UNCHANGED RuleListOf!vars
  <1>1. NoTies(rules')
    <2>1. InOrder(req'[r], rules') /\ Placed(req'[r], rules')
      BY ServeInOrder, ServePlaced DEF ListInv, PlaceInv
    <2> QED BY <2>1, NoTiesNow
  <1>2. UNCHANGED unsettled
    <2>1. unsettled \in BOOLEAN /\ unsettled' \in BOOLEAN
      BY PlaceFacts DEF Types, ListInv
    <2> QED BY <2>1, Zenon
  <1>3. CASE InsertLast(r)
    BY <1>1, <1>3, InsertInList DEF ListInv, RuleListOf!Edit
  <1>4. CASE CopyInsert(r)
    BY <1>1, <1>4, CopyInList DEF ListInv, RuleListOf!Edit
  <1>5. CASE Write(r)
    <2>1. CASE req[r].then = "refreshIds"
      BY <1>5, <2>1, MoveInList DEF ListInv
    <2>2. CASE req[r].then # "refreshIds"
      BY <1>2, <1>5, <2>2, WriteKeeps, QuietInList DEF ListInv, PlaceInv
    <2> QED BY <2>1, <2>2
  <1>6. CASE Leave(r) \/ MoveIn(r)
    <2>1. /\ req[r].pc = "write" /\ req[r].then = "updated"
          /\ rules' = Restrict(rules, DOMAIN rules \ req[r].ids)
      BY <1>6 DEF Leave, MoveIn, At, Load
    <2>2. PICK i : req[r].ids = {i}
      BY <2>1 DEF ListInv, NamesOne
    <2> QED BY <1>2, <2>1, <2>2, GoneInList, QuietInList, PlaceFacts DEF ListInv
  <1>7. CASE Refresh(r)
    BY <1>2, <1>7, RefreshInList DEF ListInv
  <1>8. CASE Delete(r)
    <2>1. req[r].pc = "delete" /\ rules' = Restrict(rules, DOMAIN rules \ req[r].ids)
      BY <1>8 DEF Delete, Step, At, Load
    <2>2. PICK i : req[r].ids = {i}
      BY <2>1 DEF ListInv, NamesOne
    <2> QED BY <1>2, <2>1, <2>2, GoneInList, QuietInList, PlaceFacts DEF ListInv
  <1>9. CASE UNCHANGED rules
    BY <1>2, <1>9, QuietInList
  <1> QED BY <1>3, <1>4, <1>5, <1>6, <1>7, <1>8, <1>9
      DEF Serve, CreateLast, CreateInsert, StoreInsert, StoreVirtualIps, Preload,
          Validate, ValidateObjects, Reorder, Updated, Reload, LookAtDest, Pick,
          Affected, Dest, RefreshIds, CopyFind, CopyLast, RemoveNext, AffectedTables,
          FromRule, ToRule, Abort

LEMMA ReceiveInList ==
    ASSUME NEW r \in Requests, Receive(r)
    PROVE  UNCHANGED RuleListOf!vars
  <1>1. UNCHANGED <<rules, unsettled>>
    BY DEF Receive, ReceiveCreate, ReceiveUpdate, ReceiveMove, ReceiveCopy,
           ReceiveRemove, ReceiveMoveItem, ReceiveTransfer, Arrive
  <1> QED BY <1>1, QuietInList

\* The refresh of all the rules makes a list of them again.
LEMMA RefreshMakesList ==
    ASSUME OneAtATime, CalmInv, CalmInv', Next, unsettled, ~unsettled'
    PROVE  RuleListOf!Settle
  <1>1. PICK r \in Requests : Orderly(rules')
    BY SettledRows
  <1>2. PICK S : rules' \in [S -> Row']
    BY DEF CalmInv, Types, TablesBelow
  <1>3. \A i \in DOMAIN rules' : rules'[i].order \in Nat
    BY <1>2 DEF Row
  <1>4. RuleListOf!IsList(DOMAIN rules', BeforeIn(rules'))
    BY <1>1, <1>3, NoTiesIsList DEF Orderly
  <1>5. Before' = BeforeIn(rules')
    BY DEF Before, BeforeIn
  <1> QED BY <1>4, <1>5 DEF RuleListOf!Settle

\* Served one at a time, with selections without gaps, the operations on a table of
\* rules of any size are operations on the list that its users see: the rules of a
\* group, the gaps in the orders, the shifting and the renumbering do not show.  Where
\* rules come from another firewall there is a list again after the next refresh.
THEOREM OneAtATimeImplementsList ==
    ASSUME OneAtATime, ~Scattered
    PROVE  Spec => ImplementsRuleList
  <1>1. Init => ListedOnceCalm
    <2>1. Init => \A r \in Requests : NamesOne(req[r])
      BY DEF Init, NoRequest, NamesOne
    <2> QED BY <2>1, PlaceAtInit, CalmAtInit DEF ListedOnceCalm, PlacedOnceCalm
  <1>2. ListedOnceCalm /\ [Next]_vars => ListedOnceCalm'
    BY ListedStep
  <1>3. Init => RuleListOf!Init
    <2> SUFFICES ASSUME Init PROVE RuleListOf!Init
      OBVIOUS
    <2>1. \A i \in DOMAIN rules : rules[i].order = i
      BY DEF Init
    <2>2. NoTies(rules) /\ \A i \in DOMAIN rules : rules[i].order \in Nat
      <3>1. rules \in [DOMAIN rules -> Row]
        BY SerialInvAtInit, RulesType DEF SerialInv
      <3> QED BY <2>1, <3>1 DEF NoTies, Row
    <2>3. RuleListOf!IsList(DOMAIN rules, BeforeIn(rules))
      BY <2>2, NoTiesIsList
    <2>4. Before = BeforeIn(rules) /\ ~unsettled
      BY DEF Before, BeforeIn, Init
    <2> QED BY <2>3, <2>4 DEF RuleListOf!Init
  <1>4. ListedOnceCalm /\ ListedOnceCalm' /\ [Next]_vars
          => [RuleListOf!Next]_(RuleListOf!vars)
    <2> SUFFICES ASSUME ListedOnceCalm, ListedOnceCalm', [Next]_vars
                 PROVE  [RuleListOf!Next]_(RuleListOf!vars)
      OBVIOUS
    <2>1. CASE UNCHANGED vars
      BY <2>1, QuietInList DEF vars
    <2>2. CASE unsettled'
      BY <2>2 DEF RuleListOf!Next, RuleListOf!Unsettle
    <2>3. CASE Next /\ unsettled /\ ~unsettled'
      BY <2>3, RefreshMakesList DEF RuleListOf!Next, ListedOnceCalm, PlacedOnceCalm
    <2>4. CASE Next /\ ~unsettled /\ ~unsettled'
      <3>1. PICK r \in Requests : Receive(r) \/ Serve(r)
        BY <2>4 DEF Next
      <3>2. ListInv
        BY <2>4 DEF ListedOnceCalm, PlacedOnceCalm, ListInv
      <3>3. Types'
        BY DEF ListedOnceCalm, PlacedOnceCalm, CalmInv
      <3> QED BY <2>4, <3>1, <3>2, <3>3, ReceiveInList, ServeInList DEF RuleListOf!Next
    <2> QED BY <2>1, <2>2, <2>3, <2>4
  <1> QED BY <1>1, <1>2, <1>3, <1>4, PTL DEF Spec, ImplementsRuleList, RuleListOf!Spec
=============================================================================
