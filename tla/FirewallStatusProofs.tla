------------------------ MODULE FirewallStatusProofs ------------------------
(***************************************************************************)
(* Proofs about PolicyRules and FirewallStatus, for chains of any length   *)
(* and any number of requests, compilations and installations that overlap *)
(* anywhere.  The catch-all rule stays last; where no change overlaps, the *)
(* status bits of a firewall tell the truth, what is pasted is where it    *)
(* was asked to be, and a group that a move has emptied goes.              *)
(***************************************************************************)
EXTENDS FirewallStatus, WellFoundedInduction, TLAPS

-----------------------------------------------------------------------------
(* Types *)

LEMMA NoRequestType == NoRequest \in Request
  BY PolicyRulesAssumption, SMT DEF NoRequest, Request, Labels, MaybeGroup, Ids

\* The rules that a request names are a sequence of identifiers.
LEMMA SelectionType ==
    ASSUME TypeOK, NEW s \in Selections
    PROVE  s \in Seq(Ids) /\ s # << >> /\ s[1] \in DOMAIN rules
  <1>1. PICK n \in 1..MaxSelection : s \in [1..n -> DOMAIN rules]
    BY DEF Selections
  <1>2. n \in Nat /\ n >= 1 /\ DOMAIN rules \subseteq Ids
    BY PolicyRulesAssumption DEF TypeOK
  <1> QED BY <1>1, <1>2

\* What overlaps a request is noted in it.
LEMMA AloneType ==
    ASSUME NEW q \in Request, NEW b \in BOOLEAN
    PROVE  [q EXCEPT !.alone = b] \in Request
  BY DEF Request

\* A request arrives with the fields that its handler takes from it.
LEMMA ArriveType ==
    ASSUME TypeOK, ops < MaxOps, NEW r \in Requests,
           NEW request \in Request, Arrive(r, request)
    PROVE  TypeOK'
  <1>1. req' \in [Requests -> Request]
    <2>1. Idle \in BOOLEAN
      BY DEF Idle
    <2>2. [request EXCEPT !.alone = Idle] \in Request
      BY <2>1, AloneType
    <2>3. \A q \in Requests : req[q] \in Request
                                /\ [req[q] EXCEPT !.alone = FALSE] \in Request
      BY AloneType DEF TypeOK
    <2> QED BY <2>2, <2>3 DEF Arrive
  <1>2. ops' \in 0..MaxOps
    BY PolicyRulesAssumption DEF Arrive, TypeOK
  <1> QED BY <1>1, <1>2 DEF Arrive, TypeOK, Row

\* What the steps of one request do to the requests in flight.
Others(r) == \A q \in Requests \ {r} : req'[q] = req[q]
Typed == req' \in [Requests -> Request]

LEMMA AnswerType ==
    ASSUME TypeOK, NEW r \in Requests, Answer(r)
    PROVE  Typed /\ Others(r) /\ req'[r].pc = "idle"
  <1>1. [NoRequest EXCEPT !.loop = req[r].loop] \in Request
    BY NoRequestType DEF TypeOK, Request
  <1>2. [NoRequest EXCEPT !.loop = req[r].loop].pc = "idle"
    BY DEF NoRequest
  <1> QED BY <1>1, <1>2 DEF TypeOK, Answer, Typed, Others

LEMMA GotoType ==
    ASSUME TypeOK, NEW r \in Requests, NEW label \in Labels, Goto(r, label)
    PROVE  /\ Typed /\ Others(r)
           /\ req'[r] = [req[r] EXCEPT !.pc = label]
           /\ req'[r].pc = label /\ req'[r].at = req[r].at
           /\ req'[r].todo = req[r].todo /\ req'[r].op = req[r].op
           /\ req'[r].paste = req[r].paste /\ req'[r].offset = req[r].offset
  <1>1. req[r] \in Request
    BY DEF TypeOK
  <1>2. [req[r] EXCEPT !.pc = label] \in Request
    BY <1>1 DEF Request
  <1> QED BY <1>1, <1>2 DEF TypeOK, Goto, Typed, Others, Request

LEMMA NextRuleType ==
    ASSUME TypeOK, NEW r \in Requests, NEW new \in Ids \cup {0}, NextRule(r, new)
    PROVE  /\ Typed /\ Others(r)
           /\ req'[r].pc \in {"idle", "delete", "paste"}
  <1>1. CASE Len(req[r].todo) <= 1
    BY <1>1, AnswerType DEF NextRule
  <1>2. CASE ~(Len(req[r].todo) <= 1)
    <2> DEFINE pc == IF req[r].op = "delete" THEN "delete" ELSE "paste"
               paste == IF new # 0 /\ req[r].offset = 1 THEN new ELSE req[r].paste
               next == [[[req[r] EXCEPT !.pc = pc] EXCEPT !.todo = Tail(req[r].todo)]
                           EXCEPT !.paste = paste]
    <2>1. req[r] \in Request /\ req[r].todo \in Seq(Ids) /\ req[r].todo # << >>
      BY <1>2 DEF TypeOK, Request
    <2>2. Tail(req[r].todo) \in Seq(Ids)
      BY <2>1
    <2>3. pc \in Labels /\ paste \in Ids \cup {0}
      BY <2>1 DEF Labels, Request
    <2>4. next \in Request /\ next.pc = pc
      BY <2>1, <2>2, <2>3 DEF Request
    <2>5. req' = [req EXCEPT ![r] = next]
      BY <1>2 DEF NextRule
    <2> QED BY <2>4, <2>5 DEF TypeOK, Typed, Others
  <1> QED BY <1>1, <1>2
-----------------------------------------------------------------------------
(* The invariant *)

Last == rules[CatchAll].order

\* What a request in flight carries: the order to be written is below that of
\* the catch-all rule, and so is the rule after which a gap is to be made.  An
\* order read stays good whatever the others do, for the catch-all rule only
\* ever goes down.
Sound(q) ==
    /\ q.pc \in {"gap", "shift"} => q.todo[1] # CatchAll
    /\ q.pc = "gap" /\ q.offset = 1 => q.paste # CatchAll
    /\ q.pc \in {"check", "write"} /\ q.todo[1] = CatchAll => q.at = 0
    /\ CatchAll \in DOMAIN rules =>
         /\ q.pc = "reorder" => q.at <= Last
         /\ q.pc \in {"insert", "check", "write", "shift"} => q.at < Last

CatchAllStands ==
    /\ nextId > 1
    /\ CatchAllLast
    /\ CatchAll \in DOMAIN rules => Last >= 1

IInv ==
    /\ TypeOK
    /\ CatchAllStands
    /\ \A r \in Requests : Sound(req[r])

\* The catch-all rule never comes back and never goes up.
Sinks ==
    CatchAll \in DOMAIN rules' =>
        CatchAll \in DOMAIN rules /\ rules[CatchAll].order <= rules'[CatchAll].order

\* What every step of request r does.
Keeps(r) ==
    TypeOK' /\ CatchAllStands' /\ Sinks /\ Others(r) /\ Sound(req[r])'

LEMMA KeepsIsEnough ==
    ASSUME IInv, NEW r \in Requests, Keeps(r)
    PROVE  IInv'
  <1> SUFFICES ASSUME NEW q \in Requests, q # r
               PROVE  Sound(req[q])'
    BY DEF IInv, Keeps
  <1>1. req'[q] = req[q] /\ Sound(req[q]) /\ req[q].at \in Nat
    BY DEF IInv, Keeps, Others, TypeOK, Request
  <1>2. CatchAll \in DOMAIN rules' =>
          /\ CatchAll \in DOMAIN rules
          /\ rules[CatchAll].order \in Nat /\ rules'[CatchAll].order \in Nat
          /\ rules[CatchAll].order <= rules'[CatchAll].order
    BY DEF IInv, Keeps, Sinks, TypeOK, Row
  <1> QED BY <1>1, <1>2 DEF Sound, Last

\* Rules go and groups change.
LEMMA SameOrders ==
    ASSUME IInv, TypeOK', nextId' = nextId, DOMAIN rules' \subseteq DOMAIN rules,
           \A i \in DOMAIN rules' : rules'[i].order = rules[i].order
    PROVE  CatchAllStands' /\ Sinks
  <1>1. \A i \in DOMAIN rules : rules[i].order \in Nat
    BY DEF IInv, TypeOK, Row
  <1> QED BY <1>1 DEF IInv, CatchAllStands, CatchAllLast, Sinks, Last

LEMMA SameType ==
    ASSUME TypeOK, Same, UNCHANGED ops, Typed
    PROVE  TypeOK'
  BY DEF TypeOK, Same, Typed

\* Nothing but the requests changes.
LEMMA SameKeeps ==
    ASSUME IInv, NEW r \in Requests, Same, UNCHANGED ops, Typed, Others(r),
           Sound(req[r])'
    PROVE  Keeps(r)
  BY SameType, SameOrders DEF IInv, Keeps, Same

\* An answered request carries nothing.
LEMMA IdleSound ==
    ASSUME NEW r \in Requests,
           req'[r].pc \in {"idle", "delete", "paste", "rule", "groupOf",
                           "members", "drop", "save", "assign", "dissolve"}
    PROVE  Sound(req[r])'
  BY DEF Sound

\* A gap keeps the order of the rules, and the catch-all rule comes after it.
LEMMA ShiftKeeps ==
    ASSUME IInv, NEW a \in Int, Shift(a), nextId' = nextId
    PROVE  /\ DOMAIN rules' = DOMAIN rules
           /\ rules' \in [DOMAIN rules -> Row]
           /\ \A i \in DOMAIN rules : rules'[i].group = rules[i].group
           /\ CatchAllStands' /\ Sinks
           /\ CatchAll \in DOMAIN rules /\ a < Last =>
                rules'[CatchAll].order = Last + 1
  <1>1. /\ DOMAIN rules' = DOMAIN rules
        /\ \A i \in DOMAIN rules :
             rules'[i] = IF rules[i].order > a
                         THEN [rules[i] EXCEPT !.order = @ + 1] ELSE rules[i]
    BY DEF Shift
  <1>2. \A i \in DOMAIN rules : rules[i] \in Row /\ rules[i].order \in Nat
    BY DEF IInv, TypeOK, Row
  <1>3. \A i \in DOMAIN rules :
          /\ rules'[i] \in Row /\ rules'[i].group = rules[i].group
          /\ rules'[i].order = IF rules[i].order > a THEN rules[i].order + 1
                                                     ELSE rules[i].order
    BY <1>1, <1>2 DEF Row
  <1>4. rules' \in [DOMAIN rules -> Row]
    BY <1>1, <1>3 DEF Shift
  <1>5. CatchAllStands'
    <2>1. nextId' > 1
      BY DEF IInv, CatchAllStands
    <2>2. CatchAllLast'
      BY <1>1, <1>2, <1>3 DEF IInv, CatchAllStands, CatchAllLast
    <2>3. CatchAll \in DOMAIN rules' => rules'[CatchAll].order >= 1
      BY <1>1, <1>2, <1>3 DEF IInv, CatchAllStands, Last
    <2> QED BY <2>1, <2>2, <2>3 DEF CatchAllStands, Last
  <1> QED BY <1>1, <1>2, <1>3, <1>4, <1>5 DEF Sinks, Last
-----------------------------------------------------------------------------
(* The steps that change no rule *)

LEMMA StepLabels ==
    {"idle", "reorder", "insert", "check", "write", "delete", "paste", "rule",
     "gap", "shift", "groupOf", "members", "drop", "save", "assign",
     "dissolve"} \subseteq Labels
  BY DEF Labels

LEMMA AnswerKeeps ==
    ASSUME IInv, NEW r \in Requests, Answer(r), Same, UNCHANGED ops
    PROVE  Keeps(r)
  BY AnswerType, IdleSound, SameKeeps DEF IInv

LEMMA CheckKeeps ==
    ASSUME IInv, NEW r \in Requests, Check(r)
    PROVE  Keeps(r)
  <1>1. CASE Answer(r)
    BY <1>1, AnswerKeeps DEF Check, Step
  <1>2. CASE Goto(r, "write") /\ req[r].pc = "check"
    <2>1. Typed /\ Others(r) /\ req'[r].pc = "write"
            /\ req'[r].at = req[r].at /\ req'[r].todo = req[r].todo
      BY <1>2, GotoType, StepLabels DEF IInv
    <2>2. Sound(req[r])'
      BY <1>2, <2>1 DEF Check, Same, IInv, Sound, Last
    <2> QED BY <2>1, <2>2, SameKeeps DEF Check, Step
  <1> QED BY <1>1, <1>2 DEF Check, Step, At

LEMMA PasteOnKeeps ==
    ASSUME IInv, NEW r \in Requests, PasteOn(r)
    PROVE  Keeps(r)
  <1>1. CASE Answer(r)
    BY <1>1, AnswerKeeps DEF PasteOn, Step
  <1>2. CASE req[r].paste \in DOMAIN rules
    <2> DEFINE p == req[r].paste
               next == [[req[r] EXCEPT !.pc = "rule"]
                                EXCEPT !.group = rules[p].group]
    <2>1. req[r] \in Request /\ rules[p].group \in MaybeGroup
      BY <1>2 DEF IInv, TypeOK, Row
    <2>2. next \in Request /\ next.pc = "rule"
      BY <2>1 DEF Request, Labels
    <2>3. req' = [req EXCEPT ![r] = next]
      BY <1>2 DEF PasteOn
    <2>4. Typed /\ Others(r) /\ req'[r].pc = "rule"
      BY <2>2, <2>3 DEF IInv, TypeOK, Typed, Others
    <2> QED BY <2>4, IdleSound, SameKeeps DEF PasteOn, Step
  <1> QED BY <1>1, <1>2 DEF PasteOn

LEMMA ReadRuleKeeps ==
    ASSUME IInv, NEW r \in Requests, ReadRule(r)
    PROVE  Keeps(r)
  <1>1. CASE Answer(r)
    BY <1>1, AnswerKeeps DEF ReadRule, Step
  <1>2. CASE req[r].todo[1] \in DOMAIN rules /\ Allowed(r)
    <2> DEFINE i == req[r].todo[1]
               into == req[r].op = "move" /\ req[r].offset = 0
               pc == IF into THEN "write" ELSE "gap"
               at == IF into THEN rules[i].order ELSE req[r].at
               old == IF req[r].op = "move" THEN rules[i].group ELSE NoGroup
               next == [[[req[r] EXCEPT !.pc = pc] EXCEPT !.at = at]
                                 EXCEPT !.old = old]
    <2>1. req[r] \in Request /\ rules[i].group \in MaybeGroup /\ rules[i].order \in Nat
      BY <1>2 DEF IInv, TypeOK, Row
    <2>2. pc \in Labels /\ at \in Nat /\ old \in MaybeGroup
      BY <2>1 DEF Request, Labels, MaybeGroup
    <2>3. /\ next \in Request /\ next.pc = pc /\ next.at = at
          /\ next.todo = req[r].todo /\ next.paste = req[r].paste
          /\ next.offset = req[r].offset
      BY <2>1, <2>2 DEF Request
    <2>4. req' = [req EXCEPT ![r] = next]
      BY <1>2 DEF ReadRule
    <2>5. Typed /\ Others(r) /\ req'[r] = next
      BY <2>3, <2>4 DEF IInv, TypeOK, Typed, Others
    <2>6. i # CatchAll /\ (req[r].offset = 1 => req[r].paste # CatchAll)
      BY <1>2 DEF Allowed
    <2>7. CatchAll \in DOMAIN rules => rules[i].order < Last
      BY <1>2, <2>6 DEF IInv, CatchAllStands, CatchAllLast, Last
    <2>8. rules' = rules
      BY DEF ReadRule, Same
    <2> HIDE DEF next
    <2>9. Sound(req[r])'
      BY <2>3, <2>5, <2>6, <2>7, <2>8 DEF Sound, Last
    <2> QED BY <2>5, <2>9, SameKeeps DEF ReadRule, Step
  <1> QED BY <1>1, <1>2 DEF ReadRule

\* A set of naturals with a bound has a greatest element.
LEMMA GreatestExists ==
    ASSUME NEW m \in Nat, NEW S, S \subseteq 0..m, S # {}
    PROVE  \E x \in S : \A y \in S : y <= x
  <1> DEFINE T == {m - x : x \in S}
             R == OpToRel(<, Nat)
  <1>1. T \subseteq Nat
    OBVIOUS
  <1>2. T # {}
    <2>1. PICK x \in S : TRUE
      OBVIOUS
    <2>2. m - x \in T
      BY <2>1
    <2> QED BY <2>2
  <1>3. IsWellFoundedOn(R, Nat)
    BY NatLessThanWellFounded
  <1>4. \A u, t \in Nat : u < t => <<u, t>> \in R
    BY DEF OpToRel
  <1> HIDE DEF T, R
  <1>5. PICK t \in T : \A u \in T : ~ (<<u, t>> \in R)
    BY <1>1, <1>2, <1>3, WFMin
  <1>6. \A u \in T : ~ (u < t)
    BY <1>1, <1>4, <1>5
  <1>7. PICK x \in S : t = m - x
    BY <1>5 DEF T
  <1>8. ASSUME NEW y \in S PROVE y <= x
    <2>1. m - y \in T
      BY DEF T
    <2>2. ~ (m - y < m - x)
      BY <2>1, <1>6, <1>7
    <2>3. x \in Nat /\ y \in Nat
      OBVIOUS
    <2> QED BY <2>2, <2>3
  <1> QED BY <1>8

\* What a gap is made after comes before the catch-all rule.
LEMMA GapAfterBelow ==
    ASSUME IInv, NEW r \in Requests, At(r, "gap"),
           req[r].offset = 1 => req[r].paste \in DOMAIN rules
    PROVE  /\ GapAfter(r) \in Nat
           /\ CatchAll \in DOMAIN rules => GapAfter(r) < Last
  <1> DEFINE p == req[r].paste
  <1>1. /\ \A i \in DOMAIN rules : rules[i].order \in Nat
        /\ CatchAll \in DOMAIN rules =>
             /\ Last \in Nat /\ Last >= 1
             /\ \A i \in DOMAIN rules \ {CatchAll} : rules[i].order < Last
    BY DEF IInv, TypeOK, Row, CatchAllStands, CatchAllLast, Last
  <1>2. CASE req[r].offset = 1
    <2>1. p \in DOMAIN rules /\ p # CatchAll
      BY <1>2 DEF At, IInv, Sound
    <2>2. GapAfter(r) = rules[p].order
      BY <1>2 DEF GapAfter
    <2> QED BY <2>1, <2>2, <1>1
  <1>3. CASE req[r].offset # 1 /\ Before(p) = {}
    <2>1. GapAfter(r) = 0
      BY <1>3 DEF GapAfter
    <2> QED BY <2>1, <1>1
  <1>4. CASE req[r].offset # 1 /\ Before(p) # {}
    <2>1. p \in DOMAIN rules
      BY <1>4 DEF Before
    <2>2. Before(p) \subseteq 0..rules[p].order
          /\ \A o \in Before(p) : o < rules[p].order
      BY <2>1, <1>1 DEF Before
    <2>3. \E o \in Before(p) : \A q \in Before(p) : q <= o
      BY <2>1, <2>2, <1>1, <1>4, GreatestExists
    <2>4. GapAfter(r) = CHOOSE o \in Before(p) : \A q \in Before(p) : q <= o
      BY <1>4 DEF GapAfter
    <2>5. GapAfter(r) \in Before(p)
      BY <2>3, <2>4
    <2>6. rules[p].order \in Nat
            /\ (CatchAll \in DOMAIN rules => rules[p].order <= Last)
      BY <2>1, <1>1 DEF Last
    <2>7. GapAfter(r) \in Nat /\ GapAfter(r) < rules[p].order
      BY <2>2, <2>5, <2>6
    <2> QED BY <2>6, <2>7, <1>1
  <1> QED BY <1>2, <1>3, <1>4

LEMMA ReadGapKeeps ==
    ASSUME IInv, NEW r \in Requests, ReadGap(r)
    PROVE  Keeps(r)
  <1>1. CASE Answer(r)
    BY <1>1, AnswerKeeps DEF ReadGap, Step
  <1>2. CASE req[r].offset = 1 => req[r].paste \in DOMAIN rules
    <2> DEFINE next == [[req[r] EXCEPT !.pc = "shift"] EXCEPT !.at = GapAfter(r)]
    <2>1. GapAfter(r) \in Nat /\ (CatchAll \in DOMAIN rules => GapAfter(r) < Last)
      BY <1>2, GapAfterBelow DEF ReadGap, Step
    <2>2. req[r] \in Request /\ req[r].pc = "gap" /\ Sound(req[r])
      BY DEF ReadGap, Step, At, IInv, TypeOK
    <2>3. next \in Request /\ next.pc = "shift" /\ next.at = GapAfter(r)
            /\ next.todo = req[r].todo
      BY <2>1, <2>2 DEF Request, Labels
    <2>4. req' = [req EXCEPT ![r] = next]
      BY <1>2 DEF ReadGap
    <2>5. Typed /\ Others(r) /\ req'[r] = next
      BY <2>3, <2>4 DEF IInv, TypeOK, Typed, Others
    <2>6. rules' = rules
      BY DEF ReadGap, Same
    <2> HIDE DEF next
    <2>7. Sound(req[r])'
      BY <2>1, <2>2, <2>3, <2>5, <2>6 DEF Sound, Last
    <2> QED BY <2>5, <2>7, SameKeeps DEF ReadGap, Step
  <1> QED BY <1>1, <1>2 DEF ReadGap

LEMMA GroupOfKeeps ==
    ASSUME IInv, NEW r \in Requests, GroupOf(r)
    PROVE  Keeps(r)
  <1>1. CASE Answer(r)
    BY <1>1, AnswerKeeps DEF GroupOf, Step
  <1>2. CASE Goto(r, "members")
    BY <1>2, GotoType, StepLabels, IdleSound, SameKeeps DEF GroupOf, Step, IInv
  <1>3. CASE NextRule(r, 0)
    <2>1. Typed /\ Others(r) /\ req'[r].pc \in {"idle", "delete", "paste"}
      BY <1>3, NextRuleType DEF IInv
    <2> QED BY <2>1, IdleSound, SameKeeps DEF GroupOf, Step
  <1> QED BY <1>1, <1>2, <1>3 DEF GroupOf

LEMMA CheckedType ==
    ASSUME TypeOK, NEW r \in Requests, Checked(r)
    PROVE  Typed /\ Others(r) /\ req'[r].pc \in {"idle", "delete", "paste"}
  BY NextRuleType, AnswerType DEF Checked

LEMMA MembersKeeps ==
    ASSUME IInv, NEW r \in Requests, Members(r)
    PROVE  Keeps(r)
  <1>1. CASE Goto(r, "drop")
    BY <1>1, GotoType, StepLabels, IdleSound, SameKeeps DEF Members, Step, IInv
  <1>2. CASE Checked(r)
    BY <1>2, CheckedType, IdleSound, SameKeeps DEF Members, Step, IInv
  <1> QED BY <1>1, <1>2 DEF Members
-----------------------------------------------------------------------------
(* The steps that change groups *)

LEMMA DropKeeps ==
    ASSUME IInv, NEW r \in Requests, Drop(r)
    PROVE  Keeps(r)
  <1>1. Typed /\ Others(r) /\ req'[r].pc \in {"idle", "delete", "paste"}
    BY CheckedType, AnswerType DEF Drop, IInv
  <1>2. TypeOK'
    <2>1. CASE InGroup(req[r].old) = {}
      <3>1. \A i \in DOMAIN rules : rules[i].group \in groups' \cup {NoGroup}
        BY <2>1 DEF IInv, TypeOK, Drop, InGroup
      <3> QED BY <1>1, <2>1, <3>1 DEF IInv, TypeOK, Typed, Drop, Step
    <2>2. CASE groups' = groups
      BY <1>1, <2>2 DEF IInv, TypeOK, Typed, Drop, Step
    <2> QED BY <2>1, <2>2 DEF Drop
  <1>3. Sound(req[r])'
    BY <1>1, IdleSound
  <1>4. CatchAllStands' /\ Sinks
    BY <1>2, SameOrders DEF Drop
  <1> QED BY <1>1, <1>2, <1>3, <1>4 DEF Keeps

LEMMA SaveGroupKeeps ==
    ASSUME IInv, NEW r \in Requests, SaveGroup(r)
    PROVE  Keeps(r)
  <1>1. PICK g \in Groups \ groups :
          /\ groups' = groups \cup {g}
          /\ req' = [req EXCEPT ![r].pc = "assign", ![r].group = g]
    BY DEF SaveGroup
  <1> DEFINE next == [[req[r] EXCEPT !.pc = "assign"] EXCEPT !.group = g]
  <1>2. next \in Request /\ next.pc = "assign"
    <2>1. req[r] \in Request /\ g \in MaybeGroup
      BY DEF IInv, TypeOK, MaybeGroup
    <2> QED BY <2>1 DEF Request, Labels
  <1>3. req' = [req EXCEPT ![r] = next]
    BY <1>1
  <1>4. Typed /\ Others(r) /\ req'[r].pc = "assign"
    BY <1>2, <1>3 DEF IInv, TypeOK, Typed, Others
  <1>5. TypeOK'
    BY <1>1, <1>4 DEF IInv, TypeOK, Typed, SaveGroup, Step
  <1>6. Sound(req[r])'
    BY <1>4, IdleSound
  <1>7. CatchAllStands' /\ Sinks
    BY <1>5, SameOrders DEF SaveGroup
  <1> QED BY <1>4, <1>5, <1>6, <1>7 DEF Keeps
-----------------------------------------------------------------------------
(* The steps that change rules *)

\* The rules stay, or some of them go; their orders stay and their groups exist.
LEMMA RegroupKeeps ==
    ASSUME IInv, NEW r \in Requests, Typed, Others(r), Sound(req[r])',
           UNCHANGED <<groups, nextId, ops>>, DOMAIN rules' \subseteq DOMAIN rules,
           rules' \in [DOMAIN rules' -> Row],
           \A i \in DOMAIN rules' :
               /\ rules'[i].order = rules[i].order
               /\ rules'[i].group \in groups \cup {NoGroup}
    PROVE  Keeps(r)
  <1>1. TypeOK'
    BY DEF IInv, TypeOK, Typed
  <1> QED BY <1>1, SameOrders DEF Keeps

LEMMA DeleteKeeps ==
    ASSUME IInv, NEW r \in Requests, Delete(r)
    PROVE  Keeps(r)
  <1>1. Typed /\ Others(r) /\ req'[r].pc \in {"idle", "delete", "paste"}
    BY NextRuleType DEF Delete, IInv
  <1>2. Sound(req[r])'
    BY <1>1, IdleSound
  <1>3. /\ DOMAIN rules' \subseteq DOMAIN rules
        /\ rules' \in [DOMAIN rules' -> Row]
        /\ \A i \in DOMAIN rules' : rules'[i] = rules[i]
    BY DEF Delete, IInv, TypeOK
  <1>4. \A i \in DOMAIN rules : rules[i].group \in groups \cup {NoGroup}
    BY DEF IInv, TypeOK
  <1> QED BY <1>1, <1>2, <1>3, <1>4, RegroupKeeps DEF Delete, Step

LEMMA AssignKeeps ==
    ASSUME IInv, NEW r \in Requests, Assign(r)
    PROVE  Keeps(r)
  <1>1. Typed /\ Others(r) /\ req'[r].pc = "idle"
    BY AnswerType DEF Assign, IInv
  <1>2. Sound(req[r])'
    BY <1>1, IdleSound
  <1>3. rules \in [DOMAIN rules -> Row]
          /\ \A i \in DOMAIN rules : rules[i].group \in groups \cup {NoGroup}
    BY DEF IInv, TypeOK
  <1>4. CASE ~GroupExists(r)
    BY <1>1, <1>2, <1>3, <1>4, RegroupKeeps DEF Assign, Step
  <1>5. CASE GroupExists(r)
    <2> DEFINE Named(i) == \E k \in DOMAIN req[r].todo : req[r].todo[k] = i
               g == req[r].group
    <2>1. rules' = [i \in DOMAIN rules |->
                      IF Named(i) THEN [rules[i] EXCEPT !.group = g] ELSE rules[i]]
      BY <1>5 DEF Assign
    <2>2. g \in groups \cup {NoGroup} /\ g \in MaybeGroup
      BY <1>5 DEF GroupExists, IInv, TypeOK, MaybeGroup
    <2> HIDE DEF Named
    <2>3. \A i \in DOMAIN rules : [rules[i] EXCEPT !.group = g] \in Row
      BY <1>3, <2>2 DEF Row
    <2>4. \A i \in DOMAIN rules :
            /\ rules'[i] \in Row
            /\ rules'[i].order = rules[i].order
            /\ rules'[i].group \in groups \cup {NoGroup}
      BY <1>3, <2>1, <2>2, <2>3 DEF Row
    <2>5. DOMAIN rules' = DOMAIN rules /\ rules' \in [DOMAIN rules -> Row]
      BY <2>1, <2>4
    <2> QED BY <1>1, <1>2, <2>4, <2>5, RegroupKeeps DEF Assign, Step
  <1> QED BY <1>4, <1>5

LEMMA DissolveKeeps ==
    ASSUME IInv, NEW r \in Requests, Dissolve(r)
    PROVE  Keeps(r)
  <1>1. CASE Answer(r) /\ UNCHANGED rules
    BY <1>1, AnswerKeeps DEF Dissolve, Step, Same
  <1>2. CASE Goto(r, "drop") /\ req[r].old \in groups
    <2> DEFINE g == req[r].old
    <2>1. Typed /\ Others(r) /\ req'[r].pc = "drop"
      BY <1>2, GotoType, StepLabels DEF IInv
    <2>2. Sound(req[r])'
      BY <2>1, IdleSound
    <2>3. rules \in [DOMAIN rules -> Row]
            /\ \A i \in DOMAIN rules : rules[i].group \in groups \cup {NoGroup}
      BY DEF IInv, TypeOK
    <2>4. CASE rules' = [i \in DOMAIN rules |->
                           IF rules[i].group = g
                           THEN [rules[i] EXCEPT !.group = NoGroup] ELSE rules[i]]
      <3>1. \A i \in DOMAIN rules : [rules[i] EXCEPT !.group = NoGroup] \in Row
        BY <2>3 DEF Row, MaybeGroup
      <3>2. \A i \in DOMAIN rules :
              /\ rules'[i] \in Row
              /\ rules'[i].order = rules[i].order
              /\ rules'[i].group \in groups \cup {NoGroup}
        BY <2>3, <2>4, <3>1 DEF Row
      <3>3. DOMAIN rules' = DOMAIN rules /\ rules' \in [DOMAIN rules -> Row]
        BY <2>4, <3>2
      <3> QED BY <2>1, <2>2, <3>2, <3>3, RegroupKeeps DEF Dissolve, Step
    <2>5. CASE rules' = rules
      BY <2>1, <2>2, <2>3, <2>5, RegroupKeeps DEF Dissolve, Step
    <2> QED BY <2>4, <2>5 DEF Dissolve
  <1> QED BY <1>1, <1>2 DEF Dissolve

LEMMA UnassignKeeps ==
    ASSUME IInv, NEW r \in Requests, Unassign(r)
    PROVE  Keeps(r)
  <1> DEFINE i == req[r].loop[1]
  <1>1. req[r] \in Request /\ req[r].loop \in Seq(Ids) /\ req[r].loop # << >>
    BY DEF Unassign, IInv, TypeOK, Request
  <1>2. rules \in [DOMAIN rules -> Row]
          /\ \A j \in DOMAIN rules : rules[j].group \in groups \cup {NoGroup}
    BY DEF IInv, TypeOK
  <1>3. CASE i \in DOMAIN rules
    <2> DEFINE next == [[req[r] EXCEPT !.loop = Tail(req[r].loop)]
                               EXCEPT !.found = ~At(r, "idle")]
    <2>1. (~At(r, "idle")) \in BOOLEAN /\ Tail(req[r].loop) \in Seq(Ids)
      BY <1>1
    <2>2. /\ next \in Request /\ next.pc = req[r].pc /\ next.at = req[r].at
          /\ next.todo = req[r].todo /\ next.paste = req[r].paste
          /\ next.offset = req[r].offset
      BY <1>1, <2>1 DEF Request
    <2>3. req' = [req EXCEPT ![r] = next]
      BY <1>3 DEF Unassign
    <2>4. Typed /\ Others(r) /\ req'[r] = next
      BY <2>2, <2>3 DEF IInv, TypeOK, Typed, Others
    <2>5. rules' = [rules EXCEPT ![i].group = NoGroup]
      BY <1>3 DEF Unassign
    <2>6. [rules[i] EXCEPT !.group = NoGroup] \in Row
      BY <1>2, <1>3 DEF Row, MaybeGroup
    <2>7. \A j \in DOMAIN rules :
            /\ rules'[j] \in Row /\ rules'[j].order = rules[j].order
            /\ rules'[j].group \in groups \cup {NoGroup}
      BY <1>2, <1>3, <2>5, <2>6 DEF Row
    <2>8. DOMAIN rules' = DOMAIN rules /\ rules' \in [DOMAIN rules -> Row]
      BY <2>5, <2>7
    <2> HIDE DEF next
    <2>9. Sound(req[r])'
      <3>1. CatchAll \in DOMAIN rules => Last' = Last
        BY <2>7 DEF Last
      <3>2. Sound(req[r])
        BY DEF IInv
      <3> QED BY <2>2, <2>4, <2>8, <3>1, <3>2 DEF Sound
    <2> QED BY <2>4, <2>7, <2>8, <2>9, RegroupKeeps DEF Unassign
  <1>4. CASE i \notin DOMAIN rules
    <2> DEFINE label == IF req[r].found THEN req[r].pc ELSE "idle"
               next == [[req[r] EXCEPT !.loop = << >>] EXCEPT !.pc = label]
    <2>1. label \in Labels /\ label \in {req[r].pc, "idle"}
      BY <1>1 DEF Request, Labels
    <2>3. req' = [req EXCEPT ![r] = next]
      BY <1>4 DEF Unassign
    <2>2. /\ next \in Request /\ next.pc = label /\ next.at = req[r].at
          /\ next.todo = req[r].todo /\ next.paste = req[r].paste
          /\ next.offset = req[r].offset
      <3>1. << >> \in Seq(Ids)
        OBVIOUS
      <3> QED BY <1>1, <2>1, <3>1 DEF Request
    <2>4. Typed /\ Others(r) /\ req'[r] = next
      BY <2>2, <2>3 DEF IInv, TypeOK, Typed, Others
    <2>5. rules' = rules
      BY <1>4 DEF Unassign
    <2> HIDE DEF next
    <2>6. Sound(req[r])
      BY DEF IInv
    <2>7. Sound(req[r])'
      BY <2>1, <2>2, <2>4, <2>5, <2>6 DEF Sound, Last
    <2> QED BY <1>2, <2>4, <2>5, <2>7, RegroupKeeps DEF Unassign
  <1> QED BY <1>3, <1>4
-----------------------------------------------------------------------------
(* The steps that write orders *)

\* Types after a gap.
LEMMA GapKeeps ==
    ASSUME IInv, NEW r \in Requests, NEW a \in Int, Shift(a),
           UNCHANGED <<groups, nextId, ops>>, Typed, Others(r), Sound(req[r])'
    PROVE  Keeps(r)
  <1>1. TypeOK'
    BY ShiftKeeps DEF IInv, TypeOK, Typed
  <1> QED BY <1>1, ShiftKeeps DEF Keeps

LEMMA ReorderKeeps ==
    ASSUME IInv, NEW r \in Requests, Reorder(r)
    PROVE  Keeps(r)
  <1>1. /\ req[r] \in Request /\ req[r].at \in Nat /\ req[r].pc = "reorder"
        /\ Sound(req[r])
        /\ CatchAll \in DOMAIN rules => Last \in Nat
    BY DEF Reorder, Step, At, IInv, TypeOK, Request, Row, Last
  <1>2. Typed /\ Others(r) /\ req'[r].pc = "insert" /\ req'[r].at = req[r].at
    BY GotoType, StepLabels DEF Reorder, IInv
  <1>3. req[r].at - 1 \in Int /\ Shift(req[r].at - 1)
    BY <1>1 DEF Reorder
  <1>4. CatchAll \in DOMAIN rules' =>
          CatchAll \in DOMAIN rules /\ rules'[CatchAll].order = Last + 1
            /\ req[r].at <= Last
    BY <1>1, <1>3, ShiftKeeps DEF Sound, Reorder
  <1>5. Sound(req[r])'
    BY <1>1, <1>2, <1>4 DEF Sound, Last
  <1> QED BY <1>2, <1>3, <1>5, GapKeeps DEF Reorder, Step

LEMMA MakeGapKeeps ==
    ASSUME IInv, NEW r \in Requests, MakeGap(r)
    PROVE  Keeps(r)
  <1> DEFINE label == IF req[r].op = "copy" THEN "insert" ELSE "write"
             next == [[req[r] EXCEPT !.pc = label] EXCEPT !.at = req[r].at + 1]
  <1>1. /\ req[r] \in Request /\ req[r].at \in Nat /\ req[r].pc = "shift"
        /\ Sound(req[r])
        /\ CatchAll \in DOMAIN rules => Last \in Nat
    BY DEF MakeGap, Step, At, IInv, TypeOK, Request, Row, Last
  <1>2. label \in {"insert", "write"} /\ req' = [req EXCEPT ![r] = next]
    BY DEF MakeGap
  <1>3. next \in Request /\ next.pc = label /\ next.at = req[r].at + 1
          /\ next.todo = req[r].todo
    <2>1. label \in Labels /\ req[r].at + 1 \in Nat
      BY <1>1, <1>2 DEF Labels
    <2> QED BY <1>1, <2>1 DEF Request
  <1>4. Typed /\ Others(r) /\ req'[r] = next
    BY <1>2, <1>3 DEF IInv, TypeOK, Typed, Others
  <1>5. req[r].at \in Int /\ Shift(req[r].at)
    BY <1>1 DEF MakeGap
  <1>6. CatchAll \in DOMAIN rules' =>
          CatchAll \in DOMAIN rules /\ rules'[CatchAll].order = Last + 1
            /\ req[r].at < Last
    BY <1>1, <1>5, ShiftKeeps DEF Sound, MakeGap
  <1> HIDE DEF next
  <1>7. Sound(req[r])'
    BY <1>1, <1>2, <1>3, <1>4, <1>6 DEF Sound, Last
  <1> QED BY <1>4, <1>5, <1>7, GapKeeps DEF MakeGap, Step

LEMMA InsertKeeps ==
    ASSUME IInv, NEW r \in Requests, Insert(r)
    PROVE  Keeps(r)
  <1>1. CASE Answer(r) /\ UNCHANGED <<rules, nextId>>
    BY <1>1, AnswerKeeps DEF Insert, Step, Same
  <1>2. CASE GroupExists(r) /\ NextRule(r, nextId)
    <2> DEFINE row == [order |-> req[r].at, group |-> req[r].group]
    <2>1. /\ req[r] \in Request /\ req[r].at \in Nat /\ req[r].pc = "insert"
          /\ Sound(req[r])
          /\ nextId \in Ids /\ nextId > 1 /\ nextId \notin DOMAIN rules
          /\ DOMAIN rules \subseteq Ids
          /\ \A i \in DOMAIN rules :
               /\ rules[i] \in Row /\ rules[i].order \in Nat /\ i < nextId
               /\ rules[i].group \in groups \cup {NoGroup}
      BY DEF Insert, Step, At, IInv, TypeOK, Request, Row, Ids, CatchAllStands
    <2>2. row \in Row /\ row.order = req[r].at /\ row.group \in groups \cup {NoGroup}
      BY <1>2, <2>1 DEF Row, GroupExists, Request
    <2>3. /\ rules' = [i \in DOMAIN rules \cup {nextId} |->
                         IF i = nextId THEN row ELSE rules[i]]
          /\ nextId' = nextId + 1 /\ groups' = groups /\ ops' = ops
      BY <1>2 DEF Insert, Step
    <2> HIDE DEF row
    <2>4. Typed /\ Others(r) /\ req'[r].pc \in {"idle", "delete", "paste"}
      BY <1>2, <2>1, NextRuleType DEF IInv
    <2>5. /\ DOMAIN rules' = DOMAIN rules \cup {nextId}
          /\ rules'[nextId] = row
          /\ \A i \in DOMAIN rules : rules'[i] = rules[i]
      BY <2>1, <2>3
    <2>6. rules' \in [DOMAIN rules' -> Row]
      BY <2>1, <2>2, <2>3
    <2>7. TypeOK'
      <3>1. nextId' \in 1..(MaxId + 1) /\ \A i \in DOMAIN rules' : i < nextId'
        BY <2>1, <2>3, <2>5, PolicyRulesAssumption DEF Ids
      <3> QED BY <2>1, <2>2, <2>3, <2>4, <2>5, <2>6, <3>1 DEF TypeOK, Typed, IInv
    <2>8. CatchAllStands' /\ Sinks
      <3>1. CatchAll \in DOMAIN rules' =>
              /\ CatchAll \in DOMAIN rules /\ rules'[CatchAll] = rules[CatchAll]
              /\ row.order < Last
        BY <2>1, <2>2, <2>5 DEF CatchAll, Sound
      <3>2. CatchAllLast'
        BY <2>1, <2>5, <3>1 DEF CatchAllLast, IInv, CatchAllStands, Last
      <3>3. nextId' > 1
        BY <2>1, <2>3 DEF Ids
      <3> QED BY <2>1, <3>1, <3>2, <3>3 DEF CatchAllStands, Sinks, Last, IInv
    <2> QED BY <2>4, <2>7, <2>8, IdleSound DEF Keeps
  <1> QED BY <1>1, <1>2 DEF Insert

LEMMA WriteKeeps ==
    ASSUME IInv, NEW r \in Requests, Write(r)
    PROVE  Keeps(r)
  <1> DEFINE i == req[r].todo[1]
  <1>1. CASE Answer(r) /\ UNCHANGED rules
    BY <1>1, AnswerKeeps DEF Write, Step, Same
  <1>2. CASE ~(i \in DOMAIN rules /\ ~GroupExists(r))
    <2> DEFINE at == IF req[r].at = 0 THEN rules[i].order ELSE req[r].at
               row == [order |-> at, group |-> req[r].group]
    <2>1. /\ rules' = [j \in DOMAIN rules |-> IF j # i THEN rules[j] ELSE row]
          /\ UNCHANGED <<groups, nextId, ops>>
          /\ Answer(r) \/ Goto(r, "groupOf")
      <3>1. \A j \in DOMAIN rules : (j # i \/ j = i)
        OBVIOUS
      <3>2. rules' = [j \in DOMAIN rules |->
                        IF j # i THEN rules[j]
                        ELSE [order |-> IF req[r].at = 0 THEN rules[j].order
                                                       ELSE req[r].at,
                              group |-> req[r].group]]
        BY <1>2 DEF Write
      <3> QED BY <1>2, <3>2 DEF Write, Step
    <2>2. /\ req[r] \in Request /\ req[r].at \in Nat /\ req[r].pc = "write"
          /\ Sound(req[r])
          /\ rules \in [DOMAIN rules -> Row]
          /\ \A j \in DOMAIN rules :
               /\ rules[j] \in Row /\ rules[j].order \in Nat
               /\ rules[j].group \in groups \cup {NoGroup}
      BY DEF Write, Step, At, IInv, TypeOK, Request, Row
    <2>3. Typed /\ Others(r) /\ req'[r].pc \in {"idle", "groupOf"}
      BY <2>1, AnswerType, GotoType, StepLabels DEF IInv
    <2>4. Sound(req[r])'
      BY <2>3, IdleSound
    <2>5. i \in DOMAIN rules =>
            /\ row \in Row /\ row.order = at
            /\ row.group \in groups \cup {NoGroup}
      BY <1>2, <2>2 DEF Row, GroupExists, Request
    <2>6. /\ i \in DOMAIN rules /\ i = CatchAll => row.order = rules[i].order
          /\ i \in DOMAIN rules /\ i # CatchAll /\ CatchAll \in DOMAIN rules =>
               row.order < Last
      BY <2>2, <2>5 DEF Sound, IInv, CatchAllStands, CatchAllLast, Last
    <2> HIDE DEF i, at, row
    <2>7. /\ DOMAIN rules' = DOMAIN rules
          /\ \A j \in DOMAIN rules : rules'[j] = IF j # i THEN rules[j] ELSE row
      BY <2>1
    <2>8. rules' \in [DOMAIN rules -> Row]
      BY <2>1, <2>2, <2>5
    <2>9. TypeOK'
      BY <2>1, <2>2, <2>3, <2>5, <2>7, <2>8 DEF IInv, TypeOK, Typed
    <2>10. CatchAll \in DOMAIN rules => rules'[CatchAll].order = Last
      BY <2>6, <2>7 DEF Last
    <2>11. CatchAllLast'
      BY <2>6, <2>7, <2>10 DEF IInv, CatchAllStands, CatchAllLast, Last
    <2>12. CatchAllStands' /\ Sinks
      BY <2>1, <2>2, <2>7, <2>10, <2>11 DEF IInv, CatchAllStands, Sinks, Last
    <2> QED BY <2>3, <2>4, <2>9, <2>12 DEF Keeps
  <1> QED BY <1>1, <1>2 DEF Write
-----------------------------------------------------------------------------
(* Arrivals *)

\* Whether requests overlap is noted and changes nothing else.
LEMMA ArriveFields ==
    ASSUME TypeOK, NEW r \in Requests, NEW request \in Request, Arrive(r, request),
           NEW q \in Requests, NEW x, x = IF q = r THEN request ELSE req[q]
    PROVE  /\ req'[q].pc = x.pc /\ req'[q].op = x.op /\ req'[q].todo = x.todo
           /\ req'[q].at = x.at /\ req'[q].paste = x.paste
           /\ req'[q].offset = x.offset /\ req'[q].loop = x.loop
  <1>1. x \in Request /\ Idle \in BOOLEAN
    BY DEF TypeOK, Idle
  <1>2. \/ req'[q] = x
        \/ \E b \in BOOLEAN : req'[q] = [x EXCEPT !.alone = b]
    <2>1. req'[q] \in {x, [x EXCEPT !.alone = Idle], [x EXCEPT !.alone = FALSE]}
      BY DEF Arrive
    <2> QED BY <1>1, <2>1
  <1> QED BY <1>1, <1>2 DEF Request

LEMMA ArriveKeeps ==
    ASSUME IInv, ops < MaxOps, NEW r \in Requests, NEW request \in Request,
           Sound(request), Arrive(r, request)
    PROVE  IInv'
  <1>1. TypeOK'
    BY ArriveType DEF IInv
  <1>2. rules' = rules /\ nextId' = nextId
    BY DEF Arrive
  <1>3. CatchAllStands'
    BY <1>2 DEF IInv, CatchAllStands, CatchAllLast, Last
  <1>4. ASSUME NEW q \in Requests PROVE Sound(req[q])'
    <2>1. PICK x : x = IF q = r THEN request ELSE req[q]
      OBVIOUS
    <2>2. Sound(x)
      BY <2>1 DEF IInv
    <2>3. /\ req'[q].pc = x.pc /\ req'[q].todo = x.todo /\ req'[q].at = x.at
          /\ req'[q].paste = x.paste /\ req'[q].offset = x.offset
      BY <2>1, ArriveFields DEF IInv
    <2> QED BY <1>2, <2>2, <2>3 DEF Sound, Last
  <1> QED BY <1>1, <1>3, <1>4 DEF IInv

\* Only requests that change rules reach the steps that write orders.
Changing == {"reorder", "insert", "check", "write", "delete", "paste", "rule",
             "gap", "shift", "groupOf"}
Apart(q) == q.pc \in Changing => q.op \in Changes

\* What a request of each kind goes through, and carries: a rule that is moved
\* is never put beside itself, and only rules taken out of a group are looped over.
Kind(q) ==
    /\ q.pc = "reorder" => q.op = "create"
    /\ q.pc = "check" => q.op = "update"
    /\ q.pc = "delete" => q.op = "delete"
    /\ q.pc \in {"paste", "rule", "gap", "shift"} => q.op \in {"copy", "move"}
    /\ q.pc = "insert" => q.op \in {"create", "copy"}
    /\ q.pc = "write" => q.op \in {"update", "move"}
    /\ q.pc = "groupOf" => q.op = "move"
    /\ q.op = "create" => q.todo = << >>
    /\ q.op = "move" =>
         q.todo # << >> /\ \A k \in DOMAIN q.todo : q.todo[k] # q.paste
    /\ q.loop # << >> => q.op \in {"none", "ungroup"}

\* How a request starts.
Starts(q) ==
    /\ Kind(q)
    /\ q.pc \in {"reorder", "check", "paste", "delete", "save", "members", "dissolve"}
    /\ q.pc = "reorder" => \E i \in DOMAIN rules : q.at = rules[i].order

\* Each handler starts with a request that carries nothing amiss.
LEMMA RuleRequest ==
    ASSUME ~OrderOfLast, IInv, NEW r \in Requests, ReceiveRule(r)
    PROVE  \E request \in Request :
               /\ Arrive(r, request) /\ Sound(request) /\ Apart(request)
               /\ Starts(request)
  <1>1. /\ \A i \in DOMAIN rules :
             i \in Ids /\ rules[i].order \in Nat /\ rules[i].group \in MaybeGroup
        /\ CatchAll \in DOMAIN rules =>
             /\ Last \in Nat /\ Last >= 1
             /\ \A i \in DOMAIN rules \ {CatchAll} : rules[i].order < Last
    BY DEF IInv, TypeOK, Row, CatchAllStands, CatchAllLast, Last
  <1>2. NoRequest \in Request /\ NoRequest.todo = << >> /\ NoRequest.loop = << >>
    BY NoRequestType DEF NoRequest
  <1>3. CASE ReceiveCreate(r)
    <2>1. PICK i \in DOMAIN rules :
            Arrive(r, [NoRequest EXCEPT !.op = "create", !.pc = "reorder",
                         !.at = rules[i].order, !.group = rules[i].group])
      BY <1>3 DEF ReceiveCreate
    <2> DEFINE request == [NoRequest EXCEPT !.op = "create", !.pc = "reorder",
                             !.at = rules[i].order, !.group = rules[i].group]
    <2>2. /\ request \in Request /\ request.pc = "reorder"
          /\ request.at = rules[i].order /\ request.op = "create"
          /\ request.todo = << >> /\ request.loop = << >>
      BY <1>1, <1>2 DEF Request, Labels
    <2>3. CatchAll \in DOMAIN rules => rules[i].order <= Last
      BY <1>1 DEF Last
    <2>4. Sound(request) /\ Apart(request) /\ Starts(request)
      BY <2>2, <2>3 DEF Sound, Apart, Changes, Starts, Kind
    <2> HIDE DEF request
    <2> QED BY <2>1, <2>2, <2>4 DEF request
  <1>4. CASE ReceiveUpdate(r)
    <2>1. PICK i \in DOMAIN rules :
            Arrive(r, [NoRequest EXCEPT !.op = "update", !.pc = "check", !.todo = <<i>>,
                         !.at = IF i # CatchAll \/ OrderOfLast THEN rules[i].order
                                                              ELSE 0,
                         !.group = rules[i].group])
      BY <1>4 DEF ReceiveUpdate
    <2> DEFINE at == IF i # CatchAll \/ OrderOfLast THEN rules[i].order ELSE 0
               request == [NoRequest EXCEPT !.op = "update", !.pc = "check",
                             !.todo = <<i>>, !.at = at, !.group = rules[i].group]
    <2>2. <<i>> \in Seq(Ids) /\ at \in Nat /\ <<i>>[1] = i
      BY <1>1
    <2>3. /\ request \in Request /\ request.pc = "check" /\ request.at = at
          /\ request.todo = <<i>> /\ request.op = "update"
          /\ request.loop = << >>
      BY <1>1, <1>2, <2>2 DEF Request, Labels
    <2>4. (i = CatchAll => at = 0) /\ (CatchAll \in DOMAIN rules => at < Last)
      BY <1>1
    <2> HIDE DEF request, at
    <2>5. Sound(request) /\ Apart(request) /\ Starts(request)
      BY <2>2, <2>3, <2>4 DEF Sound, Apart, Changes, Starts, Kind
    <2> QED BY <2>1, <2>3, <2>5 DEF request, at
  <1>5. CASE ReceiveCopy(r) \/ ReceiveMove(r)
    <2>1. PICK s \in Selections, i \in DOMAIN rules, o \in {-1, 0, 1},
                op \in {"copy", "move"} :
            /\ op = "move" => \A k \in DOMAIN s : s[k] # i
            /\ Arrive(r, [NoRequest EXCEPT !.op = op, !.pc = "paste", !.todo = s,
                            !.paste = i, !.offset = o])
      BY <1>5 DEF ReceiveCopy, ReceiveMove
    <2> DEFINE request == [NoRequest EXCEPT !.op = op, !.pc = "paste", !.todo = s,
                             !.paste = i, !.offset = o]
    <2>2. s \in Seq(Ids) /\ s # << >> /\ i \in Ids
      BY <1>1, SelectionType DEF IInv
    <2>3. /\ request \in Request /\ request.pc = "paste" /\ request.op = op
          /\ request.todo = s /\ request.paste = i /\ request.loop = << >>
      BY <1>2, <2>2 DEF Request, Labels
    <2> HIDE DEF request
    <2>4. Sound(request) /\ Apart(request) /\ Starts(request)
      BY <2>1, <2>2, <2>3 DEF Sound, Apart, Changes, Starts, Kind
    <2> QED BY <2>1, <2>3, <2>4 DEF request
  <1>6. CASE ReceiveDelete(r)
    <2>1. PICK s \in Selections :
            Arrive(r, [NoRequest EXCEPT !.op = "delete", !.pc = "delete", !.todo = s])
      BY <1>6 DEF ReceiveDelete
    <2> DEFINE request == [NoRequest EXCEPT !.op = "delete", !.pc = "delete", !.todo = s]
    <2>2. s \in Seq(Ids)
      BY SelectionType DEF IInv
    <2>3. request \in Request /\ request.pc = "delete" /\ request.op = "delete"
            /\ request.loop = << >>
      BY <1>2, <2>2 DEF Request, Labels
    <2> HIDE DEF request
    <2>4. Sound(request) /\ Apart(request) /\ Starts(request)
      BY <2>3 DEF Sound, Apart, Changes, Starts, Kind
    <2> QED BY <2>1, <2>3, <2>4 DEF request
  <1> QED BY <1>3, <1>4, <1>5, <1>6 DEF ReceiveRule

LEMMA GroupRequest ==
    ASSUME IInv, NEW r \in Requests, ReceiveOfGroup(r)
    PROVE  \E request \in Request :
               /\ Arrive(r, request) /\ Sound(request) /\ Apart(request)
               /\ request.op \notin Changes /\ Starts(request)
  <1>1. NoRequest \in Request /\ NoRequest.loop = << >> /\ groups \subseteq MaybeGroup
          /\ \A s \in Selections : s \in Seq(Ids)
    BY NoRequestType, SelectionType DEF IInv, TypeOK, MaybeGroup, NoRequest
  <1>2. CASE ReceiveGroup(r)
    <2>1. PICK s \in Selections :
            Arrive(r, [NoRequest EXCEPT !.op = "group", !.pc = "save", !.todo = s])
      BY <1>2 DEF ReceiveGroup
    <2> DEFINE request == [NoRequest EXCEPT !.op = "group", !.pc = "save", !.todo = s]
    <2>2. request \in Request /\ request.pc = "save" /\ request.op = "group"
            /\ request.loop = << >>
      BY <1>1 DEF Request, Labels
    <2> HIDE DEF request
    <2>3. Sound(request) /\ Apart(request) /\ request.op \notin Changes
            /\ Starts(request)
      BY <2>2 DEF Sound, Apart, Changing, Changes, Starts, Kind
    <2> QED BY <2>1, <2>2, <2>3 DEF request
  <1>3. CASE ReceiveUngroup(r)
    <2>1. PICK g \in groups, s \in Selections :
            Arrive(r, [NoRequest EXCEPT !.op = "ungroup", !.pc = "members",
                         !.old = g, !.loop = s])
      BY <1>3 DEF ReceiveUngroup
    <2> DEFINE request == [NoRequest EXCEPT !.op = "ungroup", !.pc = "members",
                             !.old = g, !.loop = s]
    <2>2. request \in Request /\ request.pc = "members" /\ request.op = "ungroup"
      BY <1>1 DEF Request, Labels
    <2> HIDE DEF request
    <2>3. Sound(request) /\ Apart(request) /\ request.op \notin Changes
            /\ Starts(request)
      BY <2>2 DEF Sound, Apart, Changing, Changes, Starts, Kind
    <2> QED BY <2>1, <2>2, <2>3 DEF request
  <1>4. CASE ReceiveDissolve(r)
    <2>1. PICK g \in groups :
            Arrive(r, [NoRequest EXCEPT !.op = "dissolve", !.pc = "dissolve", !.old = g])
      BY <1>4 DEF ReceiveDissolve
    <2> DEFINE request == [NoRequest EXCEPT !.op = "dissolve", !.pc = "dissolve",
                             !.old = g]
    <2>2. request \in Request /\ request.pc = "dissolve" /\ request.op = "dissolve"
            /\ request.loop = << >>
      BY <1>1 DEF Request, Labels
    <2> HIDE DEF request
    <2>3. Sound(request) /\ Apart(request) /\ request.op \notin Changes
            /\ Starts(request)
      BY <2>2 DEF Sound, Apart, Changing, Changes, Starts, Kind
    <2> QED BY <2>1, <2>2, <2>3 DEF request
  <1> QED BY <1>2, <1>3, <1>4 DEF ReceiveOfGroup

LEMMA ReceiveKeeps ==
    ASSUME ~OrderOfLast, IInv, NEW r \in Requests,
           ReceiveRule(r) \/ ReceiveOfGroup(r)
    PROVE  IInv'
  <1>1. ops < MaxOps
    BY DEF ReceiveRule, ReceiveOfGroup
  <1> QED BY <1>1, RuleRequest, GroupRequest, ArriveKeeps

LEMMA ServeKeeps ==
    ASSUME IInv, NEW r \in Requests, Serve(r)
    PROVE  Keeps(r)
  BY ReorderKeeps, InsertKeeps, CheckKeeps, WriteKeeps, DeleteKeeps, PasteOnKeeps,
     ReadRuleKeeps, ReadGapKeeps, MakeGapKeeps, GroupOfKeeps, MembersKeeps,
     DropKeeps, SaveGroupKeeps, AssignKeeps, UnassignKeeps, DissolveKeeps
  DEF Serve
-----------------------------------------------------------------------------
(* Theorems *)

LEMMA InitInv == StatusInit => IInv
  <1> SUFFICES ASSUME Init PROVE IInv
    BY DEF StatusInit
  <1>1. PICK group \in [2..(nextId - 1) -> groups \cup {NoGroup}] :
          rules = [i \in 1..(nextId - 1) |->
                     IF i = CatchAll THEN [order |-> nextId, group |-> NoGroup]
                                     ELSE [order |-> i, group |-> group[i]]]
    BY DEF Init
  <1>2. nextId \in Nat /\ nextId > 1 /\ nextId <= MaxId + 1 /\ nextId - 1 \in Nat
          /\ groups \subseteq Groups /\ FirstRules \in Nat /\ MaxId \in Nat
    BY PolicyRulesAssumption DEF Init
  <1>3. /\ DOMAIN rules = 1..(nextId - 1)
        /\ \A i \in DOMAIN rules :
             /\ rules[i].order = IF i = CatchAll THEN nextId ELSE i
             /\ rules[i].group \in groups \cup {NoGroup}
             /\ rules[i] \in Row
    <2>1. ASSUME NEW i \in 1..(nextId - 1), i # CatchAll
          PROVE  i \in 2..(nextId - 1) /\ group[i] \in groups \cup {NoGroup}
                 /\ i \in Nat
      BY <1>2, <2>1 DEF CatchAll
    <2> QED BY <1>1, <1>2, <2>1 DEF Row, MaybeGroup
  <1>4. TypeOK
    <2>1. req \in [Requests -> Request]
      BY NoRequestType DEF Init
    <2>2. ops \in 0..MaxOps
      BY PolicyRulesAssumption DEF Init
    <2>3. DOMAIN rules \subseteq Ids /\ rules \in [DOMAIN rules -> Row]
      BY <1>1, <1>2, <1>3 DEF Ids
    <2> QED BY <1>2, <1>3, <2>1, <2>2, <2>3 DEF TypeOK
  <1>5. CatchAllStands
    BY <1>2, <1>3 DEF CatchAllStands, CatchAllLast, CatchAll, Last
  <1>6. \A r \in Requests : Sound(req[r])
    BY DEF Init, NoRequest, Sound
  <1> QED BY <1>4, <1>5, <1>6 DEF IInv

\* Compilations and installations count as operations and change no rule.
LEMMA BesideKeeps ==
    ASSUME IInv, UNCHANGED <<rules, groups, nextId, req>>,
           ops' = ops \/ (ops < MaxOps /\ ops' = ops + 1)
    PROVE  IInv'
  <1>1. TypeOK'
    BY PolicyRulesAssumption DEF IInv, TypeOK
  <1> QED BY <1>1 DEF IInv, CatchAllStands, CatchAllLast, Last, Sound

LEMMA StepInv ==
    ASSUME ~OrderOfLast, IInv, [StatusNext]_allVars
    PROVE  IInv'
  <1>1. CASE UNCHANGED allVars
    BY <1>1, BesideKeeps DEF allVars
  <1>2. ASSUME NEW r \in Requests, ReceiveChange(r) \/ ReceiveOther(r)
        PROVE  IInv'
    BY <1>2, ReceiveKeeps DEF ReceiveChange, ReceiveOther
  <1>3. ASSUME NEW r \in Requests, Serve(r)
        PROVE  IInv'
    BY <1>3, ServeKeeps, KeepsIsEnough
  <1>4. CASE CompileOpen \/ InstallSend
    BY <1>4, BesideKeeps DEF CompileOpen, InstallSend
  <1>5. CASE CompileRead \/ CompileEnd \/ CompileClear \/ CompileFails \/ InstallClear
    BY <1>5, BesideKeeps DEF CompileRead, CompileEnd, CompileClear, CompileAt,
                             CompileFails, InstallClear
  <1> QED BY <1>1, <1>2, <1>3, <1>4, <1>5 DEF StatusNext

\* The catch-all rule stays below every other rule of its chain, if clients do
\* not send its order when they edit it: for chains of any length, any number
\* of requests and whatever is compiled and installed meanwhile.
THEOREM CatchAllStaysLast ==
    ASSUME ~OrderOfLast
    PROVE  StatusSpec => []CatchAllLast
  <1>1. IInv => CatchAllLast
    BY DEF IInv, CatchAllStands
  <1>2. StatusInit => IInv
    BY InitInv
  <1>3. IInv /\ [StatusNext]_allVars => IInv'
    BY StepInv
  <1> QED BY <1>1, <1>2, <1>3, PTL DEF StatusSpec

\* Two rules of which neither is written keep their order.
KeepOrder ==
    \A i, j \in DOMAIN rules \cap DOMAIN rules' :
        rules[i].order < rules[j].order =>
            \/ rules'[i].order < rules'[j].order
            \/ \E r \in Requests : At(r, "write") /\ req[r].todo[1] \in {i, j}

LEMMA ServeKeepsOrder ==
    ASSUME IInv, NEW r \in Requests, Serve(r)
    PROVE  KeepOrder
  <1>1. \A i \in DOMAIN rules : rules[i] \in Row /\ rules[i].order \in Nat
    BY DEF IInv, TypeOK, Row
  <1>2. ASSUME NEW a \in Int, Shift(a)
        PROVE  KeepOrder
    <2>1. \A i \in DOMAIN rules :
            rules'[i].order = IF rules[i].order > a THEN rules[i].order + 1
                                                    ELSE rules[i].order
      BY <1>1, <1>2 DEF Shift, Row
    <2> QED BY <1>1, <2>1 DEF KeepOrder
  <1>3. ASSUME \A i \in DOMAIN rules \cap DOMAIN rules' :
                   rules'[i].order = rules[i].order
        PROVE  KeepOrder
    BY <1>3 DEF KeepOrder
  <1>4. CASE Reorder(r)
    <2>1. req[r].at - 1 \in Int /\ Shift(req[r].at - 1)
      BY <1>4 DEF Reorder, IInv, TypeOK, Request
    <2> QED BY <2>1, <1>2
  <1>5. CASE MakeGap(r)
    <2>1. req[r].at \in Int /\ Shift(req[r].at)
      BY <1>5 DEF MakeGap, IInv, TypeOK, Request
    <2> QED BY <2>1, <1>2
  <1>6. CASE Insert(r)
    <2>1. nextId \notin DOMAIN rules
      BY DEF IInv, TypeOK
    <2> QED BY <1>3, <1>6, <2>1 DEF Insert
  <1>7. CASE Write(r)
    <2>1. At(r, "write")
      BY <1>7 DEF Write, Step
    <2>2. \A i \in DOMAIN rules : i # req[r].todo[1] => rules'[i] = rules[i]
      BY <1>7 DEF Write
    <2> QED BY <2>1, <2>2 DEF KeepOrder
  <1>8. CASE Delete(r)
    BY <1>3, <1>8 DEF Delete
  <1>9. CASE Assign(r)
    <2>1. \A i \in DOMAIN rules : rules'[i].order = rules[i].order
      BY <1>1, <1>9 DEF Assign, Row
    <2> QED BY <1>3, <2>1
  <1>10. CASE Unassign(r)
    <2>1. \A i \in DOMAIN rules : rules'[i].order = rules[i].order
      BY <1>1, <1>10 DEF Unassign, Row
    <2> QED BY <1>3, <2>1
  <1>11. CASE Dissolve(r)
    <2>1. \A i \in DOMAIN rules : rules'[i].order = rules[i].order
      BY <1>1, <1>11 DEF Dissolve, Row
    <2> QED BY <1>3, <2>1
  <1>12. CASE UNCHANGED rules
    BY <1>3, <1>12
  <1> QED
    BY <1>4, <1>5, <1>6, <1>7, <1>8, <1>9, <1>10, <1>11, <1>12
    DEF Serve, Check, PasteOn, ReadRule, ReadGap, GroupOf, Members, Drop,
        SaveGroup, Same

\* Gaps made under the feet of other requests change the order of no two rules,
\* unless a request writes the order of one of them.
THEOREM OthersAlwaysKeepOrder ==
    ASSUME ~OrderOfLast
    PROVE  StatusSpec => OthersKeepOrder
  <1>1. IInv /\ [StatusNext]_allVars => [KeepOrder]_vars
    <2> SUFFICES ASSUME IInv, [StatusNext]_allVars
                 PROVE  KeepOrder
      OBVIOUS
    <2>0. CASE rules' = rules
      BY <2>0 DEF KeepOrder
    <2>1. CASE \E r \in Requests : Serve(r)
      BY <2>1, ServeKeepsOrder
    <2>2. rules' = rules \/ \E r \in Requests : Serve(r)
      BY DEF StatusNext, allVars, ReceiveChange, ReceiveOther, ReceiveRule,
             ReceiveOfGroup, ReceiveCreate, ReceiveUpdate, ReceiveCopy,
             ReceiveMove, ReceiveDelete, ReceiveGroup, ReceiveUngroup,
             ReceiveDissolve, Arrive, CompileOpen, CompileAt, CompileRead,
             CompileEnd, CompileClear, CompileFails, InstallSend, InstallClear
    <2> QED BY <2>0, <2>1, <2>2
  <1>2. StatusInit => IInv
    BY InitInv
  <1>3. IInv /\ [StatusNext]_allVars => IInv'
    BY StepInv
  <1>4. StatusSpec => [][KeepOrder]_vars
    BY <1>1, <1>2, <1>3, PTL DEF StatusSpec
  <1> QED BY <1>4 DEF OthersKeepOrder, KeepOrder

\* What a script is compiled from keeps its type.
LEMMA StatusStep ==
    ASSUME ~OrderOfLast, IInv, StatusTypeOK, [StatusNext]_allVars
    PROVE  StatusTypeOK'
  <1>1. TypeOK'
    BY StepInv DEF IInv
  <1>2. Content \in Contents
    <2>1. \A i \in DOMAIN rules : <<i, rules[i].order>> \in Ids \X Nat
      BY DEF IInv, TypeOK, Row
    <2> QED BY <2>1 DEF Contents, Content
  <1>3. Partial \in Contents /\ {} \in Contents
    <2>1. Partial \in Contents
      BY DEF Contents
    <2>2. {} \in Contents
      BY DEF Contents
    <2> QED BY <2>1, <2>2
  <1>4. CASE UNCHANGED statusVars
    BY <1>1, <1>4 DEF StatusTypeOK, statusVars
  <1>5. ASSUME NEW r \in Requests, ReceiveChange(r)
        PROVE  StatusTypeOK'
    <2>1. calm' \in BOOLEAN /\ kept' \in BOOLEAN
      BY <1>5 DEF ReceiveChange
    <2> QED BY <1>1, <1>5, <2>1 DEF StatusTypeOK, ReceiveChange, Flagged
  <1>6. CASE CompileOpen
    <2>1. calm' \in BOOLEAN /\ kept' \in BOOLEAN
      BY <1>6 DEF CompileOpen
    <2> QED BY <1>1, <1>3, <1>6, <2>1 DEF StatusTypeOK, CompileOpen
  <1>7. CASE CompileRead
    BY <1>1, <1>2, <1>7 DEF StatusTypeOK, CompileRead, CompileAt
  <1>8. CASE CompileEnd
    BY <1>1, <1>3, <1>8 DEF StatusTypeOK, CompileEnd, CompileAt
  <1>9. CASE CompileClear
    BY <1>1, <1>9 DEF StatusTypeOK, CompileClear, CompileAt
  <1>10. CASE CompileFails
    BY <1>1, <1>3, <1>10 DEF StatusTypeOK, CompileFails
  <1>11. CASE InstallSend
    <2>1. kept' \in BOOLEAN
      BY <1>11 DEF InstallSend
    <2> QED BY <1>1, <1>11, <2>1 DEF StatusTypeOK, InstallSend
  <1>12. CASE InstallClear
    BY <1>1, <1>12 DEF StatusTypeOK, InstallClear
  <1> QED
    BY <1>4, <1>5, <1>6, <1>7, <1>8, <1>9, <1>10, <1>11, <1>12
    DEF StatusNext, ReceiveOther, allVars, statusVars

LEMMA StatusTypeInit == StatusInit => StatusTypeOK
  <1>1. {} \in Contents
    BY DEF Contents
  <1> SUFFICES ASSUME StatusInit PROVE StatusTypeOK
    OBVIOUS
  <1>2. TypeOK
    BY InitInv DEF IInv
  <1>3. compile \in [pc : {"idle", "read", "end", "clear"}, seen : Contents]
    BY <1>1 DEF StatusInit
  <1> QED BY <1>1, <1>2, <1>3 DEF StatusInit, StatusTypeOK

\* The variables keep their types; every group that a rule names exists.
THEOREM StatusTypes ==
    ASSUME ~OrderOfLast
    PROVE  StatusSpec => []StatusTypeOK
  <1>1. StatusInit => IInv /\ StatusTypeOK
    BY InitInv, StatusTypeInit
  <1>2. IInv /\ StatusTypeOK /\ [StatusNext]_allVars => (IInv /\ StatusTypeOK)'
    BY StepInv, StatusStep
  <1> QED BY <1>1, <1>2, PTL DEF StatusSpec
-----------------------------------------------------------------------------
(* What the requests change *)

AllApart == \A r \in Requests : Apart(req[r])

\* No request that changes rules is in flight.
Quiet == \A r \in Requests : req[r].op \notin Changes

LEMMA AnswerOp ==
    ASSUME TypeOK, NEW r \in Requests, Answer(r)
    PROVE  req'[r].op = "none" /\ req'[r].pc = "idle"
  BY DEF Answer, NoRequest, TypeOK

LEMMA GotoOp ==
    ASSUME TypeOK, NEW r \in Requests, NEW label, Goto(r, label)
    PROVE  req'[r].op = req[r].op /\ req'[r].pc = label
  <1>1. req[r] \in Request
    BY DEF TypeOK
  <1> QED BY <1>1 DEF Goto, TypeOK, Request

LEMMA NextRuleOp ==
    ASSUME TypeOK, NEW r \in Requests, NEW new, NextRule(r, new)
    PROVE  \/ req'[r].op = req[r].op
           \/ req'[r].op = "none" /\ req'[r].pc = "idle"
  <1>1. CASE Answer(r)
    BY <1>1, AnswerOp
  <1>2. CASE ~Answer(r)
    <2>1. req[r] \in Request
      BY DEF TypeOK
    <2> QED BY <1>2, <2>1 DEF NextRule, TypeOK, Request
  <1> QED BY <1>1, <1>2

\* A step keeps what kind of request it serves, until the answer.
LEMMA ServeOp ==
    ASSUME IInv, AllApart, NEW r \in Requests, Serve(r)
    PROVE  /\ req'[r].op \in {req[r].op, "none"}
           /\ Apart(req[r])'
  <1>1. req[r] \in Request /\ Apart(req[r]) /\ TypeOK
    BY DEF IInv, TypeOK, AllApart
  <1>2. CASE Answer(r)
    BY <1>2, AnswerOp, <1>1 DEF Apart, Changing
  <1>3. CASE \E label \in {"insert", "write", "groupOf"} :
               Goto(r, label) /\ req[r].pc \in Changing
    BY <1>1, <1>3, GotoOp DEF Apart
  <1>4. CASE \E label \in {"members", "drop"} : Goto(r, label)
    BY <1>1, <1>4, GotoOp DEF Apart, Changing
  <1>5. CASE \E new : NextRule(r, new) /\ req[r].pc \in Changing
    BY <1>1, <1>5, NextRuleOp DEF Apart, Changing
  <1>6. CASE Checked(r)
    BY <1>1, <1>6, NextRuleOp, AnswerOp DEF Apart, Changing, Checked, Changes
  <1>7. CASE PasteOn(r) \/ ReadRule(r) \/ ReadGap(r) \/ MakeGap(r)
    <2>1. req[r].pc \in Changing
      BY <1>7 DEF PasteOn, ReadRule, ReadGap, MakeGap, Step, At, Changing
    <2>2. CASE ~Answer(r)
      <3>1. req'[r].op = req[r].op
        BY <1>1, <1>7, <2>2 DEF PasteOn, ReadRule, ReadGap, MakeGap, TypeOK, Request
      <3> QED BY <1>1, <2>1, <3>1 DEF Apart
    <2> QED BY <1>2, <2>2
  <1>8. CASE SaveGroup(r)
    <2>1. req'[r].op = req[r].op /\ req'[r].pc = "assign"
      BY <1>1, <1>8 DEF SaveGroup, TypeOK, Request
    <2> QED BY <2>1 DEF Apart, Changing
  <1>9. CASE Unassign(r)
    <2>1. req'[r].op = req[r].op /\ req'[r].pc \in {req[r].pc, "idle"}
      BY <1>1, <1>9 DEF Unassign, TypeOK, Request
    <2> QED BY <1>1, <2>1 DEF Apart, Changing
  <1>10. CASE Reorder(r) \/ Insert(r) \/ Check(r) \/ Write(r) \/ Delete(r) \/ GroupOf(r)
    BY <1>2, <1>3, <1>4, <1>5, <1>10
    DEF Reorder, Insert, Check, Write, Delete, GroupOf, Step, At, Changing
  <1>11. CASE Members(r) \/ Drop(r) \/ Assign(r) \/ Dissolve(r)
    BY <1>2, <1>4, <1>6, <1>11 DEF Members, Drop, Assign, Dissolve
  <1> QED BY <1>7, <1>8, <1>9, <1>10, <1>11 DEF Serve

\* The other requests change groups: what is compiled stays.
LEMMA ServeContent ==
    ASSUME IInv, AllApart, NEW r \in Requests, Serve(r), req[r].op \notin Changes
    PROVE  Content' = Content
  <1>1. req[r].pc \notin Changing
    BY DEF AllApart, Apart
  <1>2. \A i \in DOMAIN rules : rules[i] \in Row
    BY DEF IInv, TypeOK
  <1>3. /\ DOMAIN rules' = DOMAIN rules
        /\ \A i \in DOMAIN rules : rules'[i].order = rules[i].order
    <2>1. CASE Members(r) \/ Drop(r) \/ SaveGroup(r)
      BY <2>1 DEF Members, Drop, SaveGroup, Same
    <2>2. CASE Assign(r)
      BY <1>2, <2>2 DEF Assign, Row
    <2>3. CASE Unassign(r)
      BY <1>2, <2>3 DEF Unassign, Row
    <2>4. CASE Dissolve(r)
      BY <1>2, <2>4 DEF Dissolve, Row
    <2> QED BY <1>1, <2>1, <2>2, <2>3, <2>4
            DEF Serve, Reorder, Insert, Check, Write, Delete, PasteOn, ReadRule,
                ReadGap, MakeGap, GroupOf, Step, At, Changing
  <1> QED BY <1>3 DEF Content
-----------------------------------------------------------------------------
(* The bits *)

\* While calm, a compilation that runs, or has cleared the bit, has no change
\* beside it, and what it has read, written or left is what the rules say.
CalmInv ==
    calm =>
      /\ compile.pc # "idle" \/ "compile" \notin status => Quiet
      /\ compile.pc = "end" => compile.seen = Content
      /\ compile.pc = "clear" => script = Content
      /\ compile.pc = "idle" /\ "compile" \notin status => script = Content

\* The same of an installation.
KeptInv ==
    kept /\ (install = "clear" \/ "install" \notin status) =>
        Quiet /\ installed = Content

StatusInv == IInv /\ StatusTypeOK /\ AllApart /\ CalmInv /\ KeptInv

LEMMA StatusInvInit == StatusInit => StatusInv
  <1> SUFFICES ASSUME StatusInit PROVE StatusInv
    OBVIOUS
  <1>1. IInv
    BY InitInv
  <1>2. AllApart
    BY DEF StatusInit, Init, NoRequest, AllApart, Apart, Changing
  <1> QED BY <1>1, <1>2, StatusTypeInit DEF StatusInit, StatusInv, CalmInv, KeptInv

\* Requests that arrive change no rule; those of groups leave it quiet.
LEMMA ArriveApart ==
    ASSUME TypeOK, AllApart, NEW r \in Requests, NEW request \in Request,
           Arrive(r, request), Apart(request)
    PROVE  /\ AllApart' /\ Content' = Content
           /\ request.op \notin Changes /\ Quiet => Quiet'
  <1>1. \A q \in Requests :
          /\ req'[q].pc = (IF q = r THEN request ELSE req[q]).pc
          /\ req'[q].op = (IF q = r THEN request ELSE req[q]).op
    BY ArriveFields
  <1>2. Content' = Content
    BY DEF Arrive, Content
  <1> QED BY <1>1, <1>2 DEF AllApart, Apart, Quiet

LEMMA ReceiveStatus ==
    ASSUME ~OrderOfLast, StatusInv, NEW r \in Requests,
           ReceiveChange(r) \/ ReceiveOther(r)
    PROVE  AllApart' /\ CalmInv' /\ KeptInv'
  <1>1. CASE ReceiveChange(r)
    <2>1. AllApart' /\ Content' = Content
      BY <1>1, RuleRequest, ArriveApart DEF StatusInv, IInv, ReceiveChange
    <2>2. /\ "compile" \in status' /\ "install" \in status'
          /\ calm' => compile.pc = "idle"
          /\ kept' => install = "idle"
          /\ UNCHANGED <<compile, install>>
      BY <1>1 DEF ReceiveChange, Flagged
    <2> QED BY <2>1, <2>2 DEF CalmInv, KeptInv
  <1>2. CASE ReceiveOther(r)
    <2>1. AllApart' /\ Content' = Content /\ (Quiet => Quiet')
      BY <1>2, GroupRequest, ArriveApart DEF StatusInv, IInv, ReceiveOther
    <2> QED BY <1>2, <2>1 DEF StatusInv, CalmInv, KeptInv, ReceiveOther, statusVars
  <1> QED BY <1>1, <1>2

LEMMA ServeStatus ==
    ASSUME StatusInv, NEW r \in Requests, Serve(r), UNCHANGED statusVars
    PROVE  AllApart' /\ CalmInv' /\ KeptInv'
  <1>1. Others(r)
    BY ServeKeeps DEF StatusInv, Keeps
  <1>2. req'[r].op \in {req[r].op, "none"} /\ Apart(req[r])'
    BY ServeOp DEF StatusInv
  <1>3. AllApart'
    BY <1>1, <1>2 DEF StatusInv, AllApart, Apart, Others
  <1>4. (Quiet => Quiet') /\ (Quiet => Content' = Content)
    <2>1. Quiet => Quiet'
      BY <1>1, <1>2 DEF Quiet, Others, Changes
    <2>2. Quiet => Content' = Content
      BY ServeContent DEF StatusInv, Quiet
    <2> QED BY <2>1, <2>2
  <1>5. CalmInv'
    BY <1>4 DEF StatusInv, CalmInv, statusVars
  <1>6. KeptInv'
    BY <1>4 DEF StatusInv, KeptInv, statusVars
  <1> QED BY <1>3, <1>5, <1>6

\* Compilations and installations
LEMMA BesideStatus ==
    ASSUME StatusInv, UNCHANGED <<rules, req>>,
           \/ CompileOpen \/ CompileRead \/ CompileEnd \/ CompileClear
           \/ CompileFails \/ InstallSend \/ InstallClear
    PROVE  AllApart' /\ CalmInv' /\ KeptInv'
  <1>1. AllApart' /\ Content' = Content /\ Quiet' = Quiet
    BY DEF StatusInv, AllApart, Apart, Content, Quiet
  <1>2. CASE CompileOpen
    <2>1. calm' => Quiet
      BY <1>2 DEF CompileOpen, Quiet
    <2>2. compile'.pc = "read"
      BY <1>2 DEF StatusInv, StatusTypeOK, CompileOpen
    <2> QED BY <1>1, <1>2, <2>1, <2>2 DEF StatusInv, CompileOpen, CalmInv, KeptInv
  <1>3. CASE CompileRead
    BY <1>1, <1>3 DEF StatusInv, CompileRead, CompileAt, CalmInv, KeptInv
  <1>4. CASE CompileEnd
    BY <1>1, <1>4 DEF StatusInv, CompileEnd, CompileAt, CalmInv, KeptInv
  <1>5. CASE CompileClear
    BY <1>1, <1>5 DEF StatusInv, CompileClear, CompileAt, CalmInv, KeptInv
  <1>6. CASE CompileFails
    BY <1>1, <1>6 DEF StatusInv, CompileFails, CalmInv, KeptInv
  <1>7. CASE InstallSend
    BY <1>1, <1>7 DEF StatusInv, InstallSend, CalmInv, KeptInv
  <1>8. CASE InstallClear
    BY <1>1, <1>8 DEF StatusInv, InstallClear, CalmInv, KeptInv
  <1> QED BY <1>2, <1>3, <1>4, <1>5, <1>6, <1>7, <1>8

LEMMA StatusInvStep ==
    ASSUME ~OrderOfLast, StatusInv, [StatusNext]_allVars
    PROVE  StatusInv'
  <1>1. IInv' /\ StatusTypeOK'
    BY StepInv, StatusStep DEF StatusInv
  <1>2. CASE UNCHANGED allVars
    BY <1>1, <1>2 DEF StatusInv, allVars, AllApart, Apart, CalmInv, KeptInv,
                      Quiet, Content
  <1>3. CASE \E r \in Requests : ReceiveChange(r) \/ ReceiveOther(r)
    BY <1>1, <1>3, ReceiveStatus DEF StatusInv
  <1>4. CASE \E r \in Requests : Serve(r) /\ UNCHANGED statusVars
    BY <1>1, <1>4, ServeStatus DEF StatusInv
  <1>5. CASE \/ CompileOpen \/ CompileRead \/ CompileEnd \/ CompileClear
             \/ CompileFails \/ InstallSend \/ InstallClear
    <2>1. UNCHANGED <<rules, req>>
      BY <1>5 DEF CompileOpen, CompileRead, CompileEnd, CompileClear, CompileAt,
                  CompileFails, InstallSend, InstallClear
    <2> QED BY <1>1, <1>5, <2>1, BesideStatus DEF StatusInv
  <1> QED BY <1>2, <1>3, <1>4, <1>5 DEF StatusNext

\* The first bit is clear only when the script is what the rules say, unless a
\* change overlapped the compilation that cleared it, or one has failed.
THEOREM CompiledStaysCurrent ==
    ASSUME ~OrderOfLast
    PROVE  StatusSpec => []CompiledIsCurrent
  <1>1. StatusInv => CompiledIsCurrent
    BY DEF StatusInv, CalmInv, CompiledIsCurrent
  <1> QED BY <1>1, StatusInvInit, StatusInvStep, PTL DEF StatusSpec

\* The second is clear only when the firewall runs what the rules say, unless a
\* change overlapped the installation that cleared it, or that one was asked
\* for before the rules were compiled.
THEOREM InstalledStaysCurrent ==
    ASSUME ~OrderOfLast
    PROVE  StatusSpec => []InstalledIsCurrent
  <1>1. StatusInv => InstalledIsCurrent
    BY DEF StatusInv, KeptInv, InstalledIsCurrent
  <1> QED BY <1>1, StatusInvInit, StatusInvStep, PTL DEF StatusSpec
-----------------------------------------------------------------------------
(* Where rules are put, and the groups that they leave *)

Kinds == \A r \in Requests : Kind(req[r])

\* While a request that nothing has overlapped is served, no other is in flight.
Solitude ==
    \A r \in Requests : ~At(r, "idle") /\ req[r].alone =>
        \A q \in Requests \ {r} : Free(q)

LEMMA NextRuleFields ==
    ASSUME TypeOK, NEW r \in Requests, NEW new, NextRule(r, new), ~Answer(r)
    PROVE  /\ Len(req[r].todo) > 1
           /\ req'[r].pc = IF req[r].op = "delete" THEN "delete" ELSE "paste"
           /\ req'[r].todo = Tail(req[r].todo)
           /\ new = 0 => req'[r].paste = req[r].paste
           /\ req'[r].op = req[r].op /\ req'[r].loop = req[r].loop
           /\ req'[r].alone = req[r].alone
  <1>1. req[r] \in Request /\ req[r].todo \in Seq(Ids)
    BY DEF TypeOK, Request
  <1> QED BY <1>1 DEF NextRule, TypeOK, Request

LEMMA AnswerKind ==
    ASSUME TypeOK, NEW r \in Requests, Answer(r)
    PROVE  Kind(req[r])'
  <1>1. /\ req'[r].pc = "idle" /\ req'[r].op = "none"
    BY DEF Answer, NoRequest, TypeOK
  <1> QED BY <1>1 DEF Kind

LEMMA NextRuleKind ==
    ASSUME TypeOK, NEW r \in Requests, NEW new, NextRule(r, new), Kind(req[r]),
           \/ req[r].op \in {"create", "copy", "delete"}
           \/ req[r].op = "move" /\ new = 0
    PROVE  Kind(req[r])'
  <1>1. CASE Answer(r)
    BY <1>1, AnswerKind
  <1>2. CASE ~Answer(r)
    <2>1. req[r].todo \in Seq(Ids) /\ Len(req[r].todo) > 1
      BY <1>2, NextRuleFields DEF TypeOK, Request
    <2>2. Tail(req[r].todo) # << >>
      BY <2>1
    <2>3. \A k \in DOMAIN Tail(req[r].todo) :
            k + 1 \in DOMAIN req[r].todo /\ Tail(req[r].todo)[k] = req[r].todo[k + 1]
      BY <2>1
    <2>4. req[r].op # "create"
      BY <2>1 DEF Kind
    <2>5. /\ req'[r].pc = IF req[r].op = "delete" THEN "delete" ELSE "paste"
          /\ req'[r].todo = Tail(req[r].todo)
          /\ new = 0 => req'[r].paste = req[r].paste
          /\ req'[r].op = req[r].op /\ req'[r].loop = req[r].loop
      BY <1>2, NextRuleFields
    <2>6. CASE req[r].op \in {"copy", "delete"}
      BY <2>5, <2>6 DEF Kind
    <2>7. CASE req[r].op = "move" /\ new = 0
      <3>1. \A k \in DOMAIN req'[r].todo : req'[r].todo[k] # req'[r].paste
        BY <2>3, <2>5, <2>7 DEF Kind
      <3> QED BY <2>2, <2>5, <2>7, <3>1 DEF Kind
    <2> QED BY <2>4, <2>6, <2>7
  <1> QED BY <1>1, <1>2

\* A step that changes where a request is, or a field that its kind leaves free.
LEMMA SameKind ==
    ASSUME NEW r \in Requests, Kind(req[r]),
           req'[r].op = req[r].op, req'[r].todo = req[r].todo,
           req'[r].paste = req[r].paste, req'[r].loop = req[r].loop,
           \/ req'[r].pc \in {"idle", "members", "drop", "assign"}
           \/ req'[r].pc = "insert" /\ req[r].op \in {"create", "copy"}
           \/ req'[r].pc = "write" /\ req[r].op \in {"update", "move"}
           \/ req'[r].pc = "groupOf" /\ req[r].op = "move"
           \/ req'[r].pc \in {"rule", "gap", "shift"} /\ req[r].op \in {"copy", "move"}
    PROVE  Kind(req[r])'
  BY DEF Kind

LEMMA ServeKind ==
    ASSUME IInv, NEW r \in Requests, Serve(r), Kind(req[r])
    PROVE  Kind(req[r])'
  <1>1. req[r] \in Request /\ TypeOK /\ req \in [Requests -> Request]
    BY DEF IInv, TypeOK
  <1>2. CASE Answer(r)
    BY <1>1, <1>2, AnswerKind
  <1>3. ASSUME NEW label, Goto(r, label)
        PROVE  /\ req'[r].op = req[r].op /\ req'[r].todo = req[r].todo
               /\ req'[r].paste = req[r].paste /\ req'[r].loop = req[r].loop
               /\ req'[r].pc = label
    BY <1>1, <1>3 DEF Goto, Request
  <1>4. CASE Reorder(r)
    BY <1>3, <1>4, SameKind DEF Reorder, Step, At, Kind
  <1>5. CASE Insert(r)
    BY <1>1, <1>2, <1>5, NextRuleKind DEF Insert, Step, At, Kind
  <1>6. CASE Check(r)
    BY <1>2, <1>3, <1>6, SameKind DEF Check, Step, At, Kind
  <1>7. CASE Write(r)
    BY <1>2, <1>3, <1>7, SameKind DEF Write, Step, At, Kind
  <1>8. CASE Delete(r)
    BY <1>1, <1>2, <1>8, NextRuleKind DEF Delete, Step, At, Kind
  <1>9. CASE PasteOn(r) \/ ReadRule(r) \/ ReadGap(r) \/ MakeGap(r)
    <2>1. ~Answer(r) =>
            /\ req'[r].op = req[r].op /\ req'[r].todo = req[r].todo
            /\ req'[r].paste = req[r].paste /\ req'[r].loop = req[r].loop
      BY <1>1, <1>9 DEF PasteOn, ReadRule, ReadGap, MakeGap, Request
    <2>2. req[r].op \in {"copy", "move"}
      BY <1>9 DEF PasteOn, ReadRule, ReadGap, MakeGap, Step, At, Kind
    <2>3. ~Answer(r) =>
            \/ req'[r].pc \in {"rule", "gap", "shift"}
            \/ req'[r].pc = "write" /\ req[r].op = "move"
            \/ req'[r].pc = "insert" /\ req[r].op = "copy"
      BY <1>1, <1>9, <2>2 DEF PasteOn, ReadRule, ReadGap, MakeGap, Request
    <2> QED BY <1>2, <2>1, <2>2, <2>3, SameKind
  <1>10. CASE GroupOf(r)
    BY <1>1, <1>2, <1>3, <1>10, SameKind, NextRuleKind DEF GroupOf, Step, At, Kind
  <1>11. CASE Checked(r)
    BY <1>1, <1>2, <1>11, NextRuleKind DEF Checked
  <1>12. CASE Members(r) \/ Drop(r) \/ Assign(r) \/ Dissolve(r)
    BY <1>2, <1>3, <1>11, <1>12, SameKind DEF Members, Drop, Assign, Dissolve
  <1>13. CASE SaveGroup(r)
    <2>1. /\ req'[r].op = req[r].op /\ req'[r].todo = req[r].todo
          /\ req'[r].paste = req[r].paste /\ req'[r].loop = req[r].loop
          /\ req'[r].pc = "assign"
      BY <1>1, <1>13 DEF SaveGroup, Request
    <2> QED BY <2>1, SameKind
  <1>14. CASE Unassign(r)
    <2>1. /\ req'[r].op = req[r].op /\ req'[r].todo = req[r].todo
          /\ req'[r].paste = req[r].paste /\ req'[r].pc \in {req[r].pc, "idle"}
      BY <1>1, <1>14 DEF Unassign, Request
    <2>2. req[r].op \in {"none", "ungroup"}
      BY <1>14 DEF Unassign, Kind
    <2> QED BY <2>1, <2>2 DEF Kind
  <1> QED BY <1>4, <1>5, <1>6, <1>7, <1>8, <1>9, <1>10, <1>12, <1>13, <1>14 DEF Serve

\* A request that is served keeps whether it was overlapped.
LEMMA ServeAlone ==
    ASSUME IInv, NEW r \in Requests, Serve(r)
    PROVE  /\ ~Free(r)
           /\ req'[r].pc # "idle" =>
                req[r].pc # "idle" /\ req'[r].alone = req[r].alone
  <1>1. req[r] \in Request /\ TypeOK /\ req \in [Requests -> Request]
    BY DEF IInv, TypeOK
  <1>2. ~Free(r)
    BY DEF Free, Serve, Step, At, Reorder, Insert, Check, Write, Delete, PasteOn,
           ReadRule, ReadGap, MakeGap, GroupOf, Members, Drop, SaveGroup, Assign,
           Unassign, Dissolve
  <1>3. CASE Answer(r)
    BY <1>1, <1>2, <1>3, AnswerType
  <1>4. CASE Unassign(r)
    BY <1>1, <1>2, <1>4 DEF Unassign, Request
  <1>5. CASE ~Answer(r) /\ ~Unassign(r)
    <2>1. req[r].pc # "idle"
      BY <1>5 DEF Serve, Step, At, Reorder, Insert, Check, Write, Delete, PasteOn,
             ReadRule, ReadGap, MakeGap, GroupOf, Members, Drop, SaveGroup, Assign,
             Dissolve
    <2>2. ASSUME NEW label, Goto(r, label)
          PROVE  req'[r].alone = req[r].alone
      BY <1>1, <2>2 DEF Goto, Request
    <2>3. ASSUME NEW new, NextRule(r, new)
          PROVE  req'[r].alone = req[r].alone
      BY <1>1, <1>5, <2>3, NextRuleFields
    <2>4. CASE PasteOn(r) \/ ReadRule(r) \/ ReadGap(r) \/ MakeGap(r) \/ SaveGroup(r)
      <3>1. req'[r].alone = req[r].alone
        BY <1>1, <1>5, <2>4 DEF PasteOn, ReadRule, ReadGap, MakeGap, SaveGroup, Request
      <3> QED BY <1>2, <2>1, <3>1
    <2>5. CASE ~(PasteOn(r) \/ ReadRule(r) \/ ReadGap(r) \/ MakeGap(r) \/ SaveGroup(r))
      BY <1>2, <1>5, <2>1, <2>2, <2>3, <2>5
      DEF Serve, Reorder, Insert, Check, Write, Delete, GroupOf, Members, Drop,
          Assign, Dissolve, Checked
    <2> QED BY <2>4, <2>5
  <1> QED BY <1>3, <1>4, <1>5

LEMMA ServeSolitude ==
    ASSUME IInv, Solitude, NEW r \in Requests, Serve(r)
    PROVE  Solitude'
  <1>1. Others(r)
    BY ServeKeeps DEF Keeps
  <1> SUFFICES ASSUME NEW p \in Requests, ~At(p, "idle")', req'[p].alone,
                      NEW q \in Requests \ {p}
               PROVE  Free(q)'
    BY DEF Solitude
  <1>2. Free(q) /\ p = r
    BY <1>1, ServeAlone DEF Solitude, At, Others
  <1> QED BY <1>1, <1>2 DEF Free, At, Others

LEMMA ArriveSolitude ==
    ASSUME TypeOK, Solitude, NEW r \in Requests, NEW request \in Request,
           Free(r), Arrive(r, request)
    PROVE  /\ Solitude'
           /\ \A q \in Requests \ {r} : req'[q].alone => req'[q] = req[q] /\ Free(q)
  <1>1. Idle \in BOOLEAN /\ \A q \in Requests : req[q] \in Request
    BY DEF Idle, TypeOK
  <1>2. /\ req'[r] = [request EXCEPT !.alone = Idle]
        /\ \A q \in Requests \ {r} :
             req'[q] = IF Free(q) THEN req[q] ELSE [req[q] EXCEPT !.alone = FALSE]
    BY DEF Arrive
  <1>3. ASSUME NEW q \in Requests \ {r}, ~Free(q)
        PROVE  ~req'[q].alone
    <2>1. req'[q] = [req[q] EXCEPT !.alone = FALSE] /\ req[q] \in Request
      BY <1>1, <1>2, <1>3
    <2> QED BY <2>1 DEF Request
  <1>4. req'[r].alone => Idle
    BY <1>1, <1>2 DEF Request
  <1>5. \A q \in Requests \ {r} : Free(q) => req'[q] = req[q]
    BY <1>2
  <1> SUFFICES ASSUME NEW p \in Requests, ~At(p, "idle")', req'[p].alone,
                      NEW q \in Requests \ {p}
               PROVE  Free(q)'
    BY <1>3, <1>5 DEF Solitude
  <1>6. p = r
    BY <1>3, <1>5 DEF At, Free
  <1>7. req'[q] = req[q] /\ Free(q)
    BY <1>4, <1>5, <1>6 DEF Idle
  <1> QED BY <1>7 DEF Free, At

LEMMA ArriveKind ==
    ASSUME TypeOK, Kinds, NEW r \in Requests, NEW request \in Request,
           Arrive(r, request), Kind(request)
    PROVE  Kinds'
  <1> SUFFICES ASSUME NEW q \in Requests PROVE Kind(req[q])'
    BY DEF Kinds
  <1>1. PICK x : x = IF q = r THEN request ELSE req[q]
    OBVIOUS
  <1>2. Kind(x)
    BY <1>1 DEF Kinds
  <1>3. /\ req'[q].pc = x.pc /\ req'[q].op = x.op /\ req'[q].todo = x.todo
        /\ req'[q].paste = x.paste /\ req'[q].loop = x.loop
    BY <1>1, ArriveFields
  <1> QED BY <1>2, <1>3 DEF Kind

Positive ==
    /\ \A i \in DOMAIN rules : rules[i].order >= 1
    /\ \A r \in Requests : req[r].pc \in {"reorder", "insert"} => req[r].at >= 1

\* The order to be written is free, and nothing is between it and the rule
\* that the request pastes on.
Gap(q) ==
    LET d == rules[q.paste].order
    IN  /\ q.at >= 1
        /\ q.offset = 1 => q.at = d + 1
        /\ q.offset # 1 => q.at < d
        /\ \A i \in DOMAIN rules :
             /\ rules[i].order # q.at
             /\ q.offset # 1 => rules[i].order < q.at \/ d <= rules[i].order

\* What a request that nothing overlaps knows of the rules.
Placing(r) ==
    LET q == req[r]
    IN  /\ q.pc \in {"rule", "gap", "shift"} => q.paste \in DOMAIN rules
        /\ q.pc \in {"gap", "shift"} /\ q.op = "move" => q.todo[1] \in DOMAIN rules
        /\ q.pc = "shift" => q.at = GapAfter(r)
        /\ q.pc = "insert" /\ q.op = "copy" => q.paste \in DOMAIN rules /\ Gap(q)
        /\ q.pc = "write" /\ q.op = "move" /\ q.offset # 0 =>
             q.paste \in DOMAIN rules /\ q.todo[1] \in DOMAIN rules /\ Gap(q)

\* Nothing is between the order after which a gap is made and the rule that is
\* pasted on.
LEMMA GapAfterNext ==
    ASSUME TypeOK, Positive, NEW r \in Requests, req[r].paste \in DOMAIN rules,
           NEW d, d = rules[req[r].paste].order, NEW a, a = GapAfter(r)
    PROVE  /\ a \in Nat /\ d \in Nat
           /\ req[r].offset = 1 => a = d
           /\ req[r].offset # 1 =>
                a < d /\ \A i \in DOMAIN rules : rules[i].order <= a \/ d <= rules[i].order
  <1> DEFINE p == req[r].paste
  <1>1. \A i \in DOMAIN rules : rules[i].order \in Nat /\ rules[i].order >= 1
    BY DEF TypeOK, Row, Positive
  <1>2. CASE req[r].offset = 1
    BY <1>1, <1>2 DEF GapAfter
  <1>3. \A i \in DOMAIN rules : rules[i].order < d => rules[i].order \in Before(p)
    BY DEF Before
  <1>4. CASE req[r].offset # 1 /\ Before(p) = {}
    BY <1>1, <1>3, <1>4 DEF GapAfter
  <1>5. CASE req[r].offset # 1 /\ Before(p) # {}
    <2>1. Before(p) \subseteq 0..d /\ \A o \in Before(p) : o < d
      BY <1>1 DEF Before
    <2>2. \E o \in Before(p) : \A q \in Before(p) : q <= o
      BY <1>1, <1>5, <2>1, GreatestExists
    <2>3. a = CHOOSE o \in Before(p) : \A q \in Before(p) : q <= o
      BY <1>5 DEF GapAfter
    <2>4. a \in Before(p) /\ \A q \in Before(p) : q <= a
      BY <2>2, <2>3
    <2>5. a \in Nat /\ a < d
      BY <1>1, <2>1, <2>4
    <2>6. ASSUME NEW i \in DOMAIN rules PROVE rules[i].order <= a \/ d <= rules[i].order
      BY <1>1, <1>3, <2>4
    <2> QED BY <1>1, <1>5, <2>5, <2>6
  <1> QED BY <1>2, <1>4, <1>5

\* The gap is made.
LEMMA MakeGapPlacing ==
    ASSUME IInv, Positive, NEW r \in Requests, Placing(r), MakeGap(r)
    PROVE  Placing(r)'
  <1> DEFINE p == req[r].paste
             a == req[r].at
             d == rules[p].order
             label == IF req[r].op = "copy" THEN "insert" ELSE "write"
  <1>1. req[r] \in Request /\ TypeOK /\ req \in [Requests -> Request]
    BY DEF IInv, TypeOK
  <1>2. p \in DOMAIN rules /\ a = GapAfter(r) /\ Shift(a)
          /\ (req[r].op = "move" => req[r].todo[1] \in DOMAIN rules)
    BY DEF Placing, MakeGap, Step, At
  <1>3. /\ req'[r].pc = label /\ req'[r].at = a + 1
        /\ req'[r].op = req[r].op /\ req'[r].todo = req[r].todo
        /\ req'[r].paste = p /\ req'[r].offset = req[r].offset
    BY <1>1 DEF MakeGap, Request
  <1>4. /\ a \in Nat /\ d \in Nat
        /\ req[r].offset = 1 => a = d
        /\ req[r].offset # 1 =>
             a < d /\ \A i \in DOMAIN rules : rules[i].order <= a \/ d <= rules[i].order
    BY <1>1, <1>2, GapAfterNext
  <1>5. /\ DOMAIN rules' = DOMAIN rules
        /\ \A i \in DOMAIN rules :
             /\ rules[i].order \in Nat
             /\ rules'[i].order = IF rules[i].order > a THEN rules[i].order + 1
                                                        ELSE rules[i].order
    BY <1>1, <1>2 DEF Shift, TypeOK, Row
  <1> HIDE DEF p, a, d, label
  <1>6. rules'[p].order = IF req[r].offset = 1 THEN d ELSE d + 1
    BY <1>2, <1>4, <1>5 DEF d
  <1>7. \A i \in DOMAIN rules :
          /\ rules'[i].order # a + 1
          /\ req[r].offset # 1 => rules'[i].order < a + 1 \/ d + 1 <= rules'[i].order
    BY <1>4, <1>5
  <1>8. Gap(req[r])'
    BY <1>3, <1>4, <1>5, <1>6, <1>7 DEF Gap
  <1> QED BY <1>2, <1>3, <1>5, <1>8 DEF Placing, label

LEMMA ServePlacing ==
    ASSUME IInv, Positive, NEW r \in Requests, Kind(req[r]), Placing(r), Serve(r)
    PROVE  Placing(r)'
  <1>1. req[r] \in Request /\ TypeOK /\ req \in [Requests -> Request]
    BY DEF IInv, TypeOK
  <1>2. ASSUME req'[r].pc \notin {"rule", "gap", "shift", "insert", "write"}
        PROVE  Placing(r)'
    BY <1>2 DEF Placing
  <1>3. CASE Answer(r)
    BY <1>1, <1>2, <1>3, AnswerType
  <1>4. ASSUME NEW label, Goto(r, label)
        PROVE  req'[r].pc = label /\ req'[r].op = req[r].op
    BY <1>1, <1>4 DEF Goto, Request
  <1>5. CASE \E new : NextRule(r, new)
    <2>1. PICK new : NextRule(r, new)
      BY <1>5
    <2>2. ~Answer(r) => req'[r].pc \in {"delete", "paste"}
      BY <1>1, <2>1, NextRuleFields
    <2> QED BY <1>2, <1>3, <2>2
  <1>6. CASE Reorder(r)
    <2>1. req'[r].pc = "insert" /\ req'[r].op = "create"
      BY <1>4, <1>6 DEF Reorder, Step, At, Kind
    <2> QED BY <2>1 DEF Placing
  <1>7. CASE Check(r)
    <2>1. CASE Goto(r, "write")
      <3>1. req'[r].pc = "write" /\ req'[r].op = "update"
        BY <1>4, <1>7, <2>1 DEF Check, Step, At, Kind
      <3> QED BY <3>1 DEF Placing
    <2> QED BY <1>3, <1>7, <2>1 DEF Check
  <1>8. CASE Insert(r) \/ Delete(r)
    BY <1>3, <1>5, <1>8 DEF Insert, Delete
  <1>9. CASE Write(r) \/ GroupOf(r) \/ Members(r) \/ Drop(r) \/ Assign(r) \/ Dissolve(r)
    <2>1. CASE Checked(r)
      BY <1>3, <1>5, <2>1 DEF Checked
    <2>2. CASE \E label \in {"groupOf", "members", "drop"} : Goto(r, label)
      BY <1>2, <1>4, <2>2
    <2> QED BY <1>3, <1>5, <1>9, <2>1, <2>2
            DEF Write, GroupOf, Members, Drop, Assign, Dissolve
  <1>10. CASE PasteOn(r)
    <2>1. CASE req[r].paste \in DOMAIN rules
      <3>1. req'[r].pc = "rule" /\ req'[r].paste = req[r].paste
        BY <1>1, <1>10, <2>1 DEF PasteOn, Request
      <3>2. rules' = rules
        BY <1>10 DEF PasteOn, Same
      <3> QED BY <2>1, <3>1, <3>2 DEF Placing
    <2> QED BY <1>3, <1>10, <2>1 DEF PasteOn
  <1>11. CASE ReadRule(r) /\ ~Answer(r)
    <2>1. /\ req'[r].paste = req[r].paste /\ req'[r].todo = req[r].todo
          /\ req'[r].op = req[r].op /\ req'[r].offset = req[r].offset
          /\ \/ req'[r].pc = "gap"
             \/ req'[r].pc = "write" /\ req[r].offset = 0
      BY <1>1, <1>11 DEF ReadRule, Request
    <2>2. req[r].paste \in DOMAIN rules'
      BY <1>11 DEF ReadRule, Step, At, Placing, Same
    <2>3. req[r].todo[1] \in DOMAIN rules'
      BY <1>11 DEF ReadRule, Same
    <2> QED BY <2>1, <2>2, <2>3 DEF Placing
  <1>12. CASE ReadGap(r) /\ ~Answer(r)
    <2>1. /\ req'[r].paste = req[r].paste /\ req'[r].todo = req[r].todo
          /\ req'[r].op = req[r].op /\ req'[r].offset = req[r].offset
          /\ req'[r].pc = "shift" /\ req'[r].at = GapAfter(r)
      BY <1>1, <1>12 DEF ReadGap, Request
    <2>2. rules' = rules
      BY <1>12 DEF ReadGap, Same
    <2>3. GapAfter(r)' = GapAfter(r)
      BY <2>1, <2>2 DEF GapAfter, Before
    <2>4. /\ req[r].paste \in DOMAIN rules
          /\ req[r].op = "move" => req[r].todo[1] \in DOMAIN rules
      BY <1>12 DEF ReadGap, Step, At, Placing
    <2> QED BY <2>1, <2>2, <2>3, <2>4 DEF Placing
  <1>13. CASE MakeGap(r)
    BY <1>13, MakeGapPlacing
  <1>14. CASE SaveGroup(r)
    BY <1>1, <1>2, <1>14 DEF SaveGroup
  <1>15. CASE Unassign(r)
    <2>1. req'[r].pc \in {req[r].pc, "idle"}
      BY <1>1, <1>15 DEF Unassign, Request
    <2>2. req[r].op \in {"none", "ungroup"}
      BY <1>15 DEF Unassign, Kind
    <2> QED BY <1>2, <2>1, <2>2 DEF Kind
  <1> QED BY <1>3, <1>6, <1>7, <1>8, <1>9, <1>10, <1>11, <1>12, <1>13, <1>14, <1>15
          DEF Serve

LEMMA ServePositive ==
    ASSUME IInv, Kinds, Positive, NEW r \in Requests, Serve(r)
    PROVE  Positive'
  <1>1. /\ req[r] \in Request /\ TypeOK /\ req \in [Requests -> Request]
        /\ \A i \in DOMAIN rules :
             rules[i] \in Row /\ rules[i].order \in Nat /\ rules[i].order >= 1
    BY DEF IInv, TypeOK, Row, Positive
  <1>2. Others(r)
    BY ServeKeeps DEF Keeps
  <1>3. ASSUME \A i \in DOMAIN rules' : rules'[i].order >= 1,
               req'[r].pc \in {"reorder", "insert"} => req'[r].at >= 1
        PROVE  Positive'
    BY <1>2, <1>3 DEF Positive, Others
  <1>4. ASSUME NEW label, Goto(r, label)
        PROVE  req'[r].pc = label /\ req'[r].at = req[r].at
    BY <1>1, <1>4 DEF Goto, Request
  <1>5. ASSUME NEW new, NextRule(r, new)
        PROVE  req'[r].pc \in {"idle", "delete", "paste"}
    BY <1>1, <1>5, AnswerType, NextRuleFields
  <1>6. Answer(r) => req'[r].pc = "idle"
    BY <1>1, AnswerType
  <1>7. CASE Reorder(r)
    <2>1. req'[r].at >= 1
      BY <1>4, <1>7 DEF Reorder, Step, At, Positive
    <2>2. \A i \in DOMAIN rules' : rules'[i].order >= 1
      BY <1>1, <1>7 DEF Reorder, Shift, Row
    <2> QED BY <1>3, <2>1, <2>2
  <1>8. CASE MakeGap(r)
    <2>1. req'[r].at >= 1
      BY <1>1, <1>8 DEF MakeGap, Request
    <2>2. \A i \in DOMAIN rules' : rules'[i].order >= 1
      BY <1>1, <1>8 DEF MakeGap, Shift, Row
    <2> QED BY <1>3, <2>1, <2>2
  <1>9. CASE Insert(r)
    <2>1. req'[r].pc \in {"idle", "delete", "paste"}
      BY <1>5, <1>6, <1>9 DEF Insert
    <2>2. req[r].at >= 1
      BY <1>9 DEF Insert, Step, At, Positive
    <2>3. \A i \in DOMAIN rules' : rules'[i].order >= 1
      BY <1>1, <1>9, <2>2 DEF Insert
    <2> QED BY <1>3, <2>1, <2>3
  <1>10. CASE Write(r)
    <2>1. req'[r].pc \in {"idle", "groupOf"}
      BY <1>4, <1>6, <1>10 DEF Write
    <2>2. req[r].at \in Nat
      BY <1>1 DEF Request
    <2>3. \A i \in DOMAIN rules' : rules'[i].order >= 1
      BY <1>1, <1>10, <2>2 DEF Write
    <2> QED BY <1>3, <2>1, <2>3
  <1>11. CASE Delete(r)
    <2>1. \A i \in DOMAIN rules' : rules'[i].order >= 1
      BY <1>1, <1>11 DEF Delete
    <2> QED BY <1>3, <1>5, <1>11, <2>1 DEF Delete
  <1>12. CASE Assign(r) \/ Dissolve(r)
    <2>1. req'[r].pc \in {"idle", "drop"}
      BY <1>4, <1>6, <1>12 DEF Assign, Dissolve
    <2>2. \A i \in DOMAIN rules' : rules'[i].order >= 1
      BY <1>1, <1>12 DEF Assign, Dissolve, Row
    <2> QED BY <1>3, <2>1, <2>2
  <1>13. CASE Unassign(r)
    <2>1. req'[r].pc \in {req[r].pc, "idle"} /\ req'[r].at = req[r].at
      BY <1>1, <1>13 DEF Unassign, Request
    <2>2. \A i \in DOMAIN rules' : rules'[i].order >= 1
      BY <1>1, <1>13 DEF Unassign, Row
    <2> QED BY <1>3, <2>1, <2>2 DEF Positive
  <1>14. CASE Check(r) \/ GroupOf(r) \/ Members(r) \/ Drop(r)
    <2>1. req'[r].pc \in {"idle", "delete", "paste", "write", "members", "drop"}
      BY <1>4, <1>5, <1>6, <1>14 DEF Check, GroupOf, Members, Drop, Checked
    <2>2. rules' = rules
      BY <1>14 DEF Check, GroupOf, Members, Drop, Same
    <2> QED BY <1>1, <1>3, <2>1, <2>2
  <1>15. CASE PasteOn(r) \/ ReadRule(r) \/ ReadGap(r) \/ SaveGroup(r)
    <2>1. req'[r].pc \in {"idle", "rule", "write", "gap", "shift", "assign"}
      BY <1>1, <1>6, <1>15 DEF PasteOn, ReadRule, ReadGap, SaveGroup, Request
    <2>2. rules' = rules
      BY <1>15 DEF PasteOn, ReadRule, ReadGap, SaveGroup, Same
    <2> QED BY <1>1, <1>3, <2>1, <2>2
  <1> QED BY <1>7, <1>8, <1>9, <1>10, <1>11, <1>12, <1>13, <1>14, <1>15 DEF Serve

PlacingInv ==
    /\ IInv /\ Kinds /\ Solitude /\ Positive
    /\ \A r \in Requests : req[r].alone => Placing(r)

LEMMA ServePlacingInv ==
    ASSUME PlacingInv, NEW r \in Requests, Serve(r)
    PROVE  PlacingInv'
  <1>1. IInv' /\ Others(r)
    BY ServeKeeps, KeepsIsEnough DEF PlacingInv, Keeps
  <1>2. Kinds'
    BY <1>1, ServeKind DEF PlacingInv, Kinds, Kind, Others
  <1>3. Solitude' /\ Positive'
    BY ServeSolitude, ServePositive DEF PlacingInv
  <1>4. ASSUME NEW q \in Requests, req'[q].alone
        PROVE  Placing(q)'
    <2>1. CASE q = r /\ req'[r].pc # "idle"
      <3>1. Placing(r) /\ Kind(req[r])
        BY <1>4, <2>1, ServeAlone DEF PlacingInv, Kinds
      <3> QED BY <2>1, <3>1, ServePlacing DEF PlacingInv
    <2>2. CASE q # r
      <3>1. req'[q] = req[q]
        BY <1>1, <2>2 DEF Others
      <3>2. req[q].pc = "idle"
        BY <1>4, <2>2, <3>1, ServeAlone DEF PlacingInv, Solitude, At
      <3> QED BY <3>1, <3>2 DEF Placing
    <2>3. CASE req'[q].pc = "idle"
      BY <2>3 DEF Placing
    <2> QED BY <2>1, <2>2, <2>3
  <1> QED BY <1>1, <1>2, <1>3, <1>4 DEF PlacingInv

LEMMA ArrivePlacingInv ==
    ASSUME PlacingInv, IInv', NEW r \in Requests, NEW request \in Request,
           Free(r), Arrive(r, request), Starts(request)
    PROVE  PlacingInv'
  <1>1. TypeOK /\ rules' = rules /\ nextId' = nextId
    BY DEF PlacingInv, IInv, Arrive
  <1>2. Kinds'
    BY <1>1, ArriveKind DEF PlacingInv, Starts
  <1>3. /\ Solitude'
        /\ \A q \in Requests \ {r} : req'[q].alone => req'[q] = req[q] /\ Free(q)
    BY <1>1, ArriveSolitude DEF PlacingInv
  <1>4. \A q \in Requests :
          /\ req'[q].pc = (IF q = r THEN request ELSE req[q]).pc
          /\ req'[q].at = (IF q = r THEN request ELSE req[q]).at
    BY <1>1, ArriveFields
  <1>5. Positive'
    <2>1. \A q \in Requests : req'[q].pc \in {"reorder", "insert"} => req'[q].at >= 1
      BY <1>4 DEF PlacingInv, Positive, Starts
    <2> QED BY <1>1, <2>1 DEF PlacingInv, Positive
  <1>6. ASSUME NEW q \in Requests, req'[q].alone
        PROVE  Placing(q)'
    <2>1. req'[q].pc \notin {"rule", "gap", "shift", "insert", "write"}
      BY <1>3, <1>4, <1>6 DEF Starts, Free, At
    <2> QED BY <2>1 DEF Placing
  <1> QED BY <1>2, <1>3, <1>5, <1>6 DEF PlacingInv

\* What a step of the firewall does to the requests.
LEMMA StatusSteps ==
    ASSUME [StatusNext]_allVars
    PROVE  \/ \E r \in Requests : ReceiveRule(r) \/ ReceiveOfGroup(r)
           \/ \E r \in Requests : Serve(r)
           \/ UNCHANGED <<rules, groups, nextId, req>>
  BY DEF StatusNext, allVars, ReceiveChange, ReceiveOther, CompileOpen, CompileAt,
         CompileRead, CompileEnd, CompileClear, CompileFails, InstallSend, InstallClear

\* A request arrives where none is.
LEMMA Arrivals ==
    ASSUME ~OrderOfLast, IInv, NEW r \in Requests, ReceiveRule(r) \/ ReceiveOfGroup(r)
    PROVE  /\ Free(r)
           /\ \E request \in Request : Arrive(r, request) /\ Starts(request)
  <1>1. Free(r)
    BY DEF ReceiveRule, ReceiveOfGroup
  <1> QED BY <1>1, RuleRequest, GroupRequest

LEMMA PlacingInvStep ==
    ASSUME ~OrderOfLast, PlacingInv, [StatusNext]_allVars
    PROVE  PlacingInv'
  <1>1. IInv'
    BY StepInv DEF PlacingInv
  <1>2. CASE \E r \in Requests : Serve(r)
    BY <1>2, ServePlacingInv
  <1>3. CASE \E r \in Requests : ReceiveRule(r) \/ ReceiveOfGroup(r)
    BY <1>1, <1>3, Arrivals, ArrivePlacingInv DEF PlacingInv
  <1>4. CASE UNCHANGED <<rules, groups, nextId, req>>
    <2>1. Kinds' /\ Solitude' /\ Positive'
      BY <1>4 DEF PlacingInv, Kinds, Kind, Solitude, At, Free, Positive
    <2>2. ASSUME NEW r \in Requests, Placing(r)
          PROVE  Placing(r)'
      <3>1. GapAfter(r)' = GapAfter(r) /\ (Gap(req[r])' = Gap(req[r]))
        BY <1>4 DEF Gap, GapAfter, Before
      <3> QED BY <1>4, <2>2, <3>1 DEF Placing
    <2>3. req' = req
      BY <1>4
    <2> QED BY <1>1, <2>1, <2>2, <2>3 DEF PlacingInv
  <1> QED BY <1>2, <1>3, <1>4, StatusSteps

LEMMA PlacingInvInit == StatusInit => PlacingInv
  <1> SUFFICES ASSUME StatusInit PROVE PlacingInv
    OBVIOUS
  <1>1. IInv /\ Init
    BY InitInv DEF StatusInit
  <1>2. \A r \in Requests : req[r] = NoRequest
    BY <1>1 DEF Init
  <1>3. Kinds /\ Solitude
    BY <1>2 DEF NoRequest, Kinds, Kind, Solitude, At
  <1>4. Positive
    <2>1. nextId \in Nat /\ nextId >= 2
      BY <1>1, PolicyRulesAssumption DEF Init
    <2>2. /\ DOMAIN rules = 1..(nextId - 1)
          /\ \A i \in DOMAIN rules : rules[i].order \in {i, nextId}
      BY <1>1 DEF Init
    <2> QED BY <1>2, <2>1, <2>2 DEF NoRequest, Positive
  <1>5. \A r \in Requests : Placing(r)
    BY <1>2 DEF NoRequest, Placing
  <1> QED BY <1>1, <1>3, <1>4, <1>5 DEF PlacingInv

\* What happens to a request in flight that nothing overlaps, it does.
LEMMA AloneStep ==
    ASSUME ~OrderOfLast, PlacingInv, [StatusNext]_allVars, NEW r \in Requests,
           req[r].alone, req[r].pc # "idle"
    PROVE  \/ Serve(r)
           \/ rules' = rules /\ nextId' = nextId /\ req'[r].pc = req[r].pc
  <1>1. CASE \E s \in Requests : Serve(s)
    BY <1>1, ServeAlone DEF PlacingInv, Solitude, At
  <1>2. ASSUME NEW s \in Requests, ReceiveRule(s) \/ ReceiveOfGroup(s)
        PROVE  rules' = rules /\ nextId' = nextId /\ req'[r].pc = req[r].pc
    <2>1. PICK request \in Request : Arrive(s, request) /\ r # s
      BY <1>2, Arrivals DEF PlacingInv, Free, At
    <2>2. req'[r].pc = req[r].pc
      BY <2>1, ArriveFields DEF PlacingInv, IInv
    <2> QED BY <2>1, <2>2 DEF Arrive
  <1>3. CASE UNCHANGED <<rules, groups, nextId, req>>
    BY <1>3
  <1> QED BY <1>1, <1>2, <1>3, StatusSteps

\* Where a copy, and a rule that is moved, are put.
LEMMA CopyBeside ==
    ASSUME PlacingInv, NEW r \in Requests, req[r].alone, Serve(r), Copies(r)
    PROVE  Beside(nextId, req[r].paste, req[r].offset = 1)
  <1> DEFINE p == req[r].paste
  <1>1. /\ TypeOK /\ nextId \in Nat /\ nextId \notin DOMAIN rules
        /\ req[r].at \in Nat /\ \A i \in DOMAIN rules : rules[i].order \in Nat
    BY DEF PlacingInv, IInv, TypeOK, Request, Row
  <1>2. Insert(r)
    BY <1>1 DEF Serve, Copies, Step, At, Reorder, Check, Write, Delete, PasteOn,
                ReadRule, ReadGap, MakeGap, GroupOf, Members, Drop, SaveGroup, Assign,
                Unassign, Dissolve
  <1>3. p \in DOMAIN rules /\ Gap(req[r])
    BY DEF PlacingInv, Placing, Copies, At
  <1>4. /\ DOMAIN rules' = DOMAIN rules \cup {nextId}
        /\ rules'[nextId].order = req[r].at
        /\ \A i \in DOMAIN rules : rules'[i] = rules[i]
    BY <1>1, <1>2 DEF Insert, Copies
  <1>5. rules'[p].order = rules[p].order
    BY <1>3, <1>4
  <1> HIDE DEF p
  <1>6. CASE req[r].offset = 1
    BY <1>1, <1>3, <1>4, <1>5, <1>6 DEF Gap, Beside, p
  <1>7. CASE req[r].offset # 1
    BY <1>1, <1>3, <1>4, <1>5, <1>7 DEF Gap, Beside, p
  <1> QED BY <1>6, <1>7

LEMMA MoveBeside ==
    ASSUME PlacingInv, NEW r \in Requests, req[r].alone, Serve(r), Moves(r)
    PROVE  Beside(req[r].todo[1], req[r].paste, req[r].offset = 1)
  <1> DEFINE p == req[r].paste
             i == req[r].todo[1]
  <1>1. /\ TypeOK /\ req[r].at \in Nat /\ req[r].todo \in Seq(Ids)
        /\ \A j \in DOMAIN rules : rules[j].order \in Nat
    BY DEF PlacingInv, IInv, TypeOK, Request, Row
  <1>2. Write(r)
    <2>1. ~Unassign(r)
      BY DEF Moves, At, Unassign, PlacingInv, Kinds, Kind
    <2> QED BY <2>1 DEF Serve, Moves, Step, At, Reorder, Insert, Check, Delete, PasteOn,
                        ReadRule, ReadGap, MakeGap, GroupOf, Members, Drop, SaveGroup,
                        Assign, Dissolve
  <1>3. ~Answer(r)
    BY <1>1, AnswerType DEF Moves
  <1>4. req[r].op = "move"
    BY <1>2, <1>3 DEF PlacingInv, Kinds, Kind, Moves, At, Write
  <1>5. p \in DOMAIN rules /\ i \in DOMAIN rules /\ Gap(req[r])
    BY <1>4 DEF PlacingInv, Placing, Moves, At
  <1>6. i # p
    BY <1>1, <1>4 DEF PlacingInv, Kinds, Kind
  <1>7. req[r].at # 0
    BY <1>1, <1>5 DEF Gap
  <1>8. /\ DOMAIN rules' = DOMAIN rules
        /\ rules'[i].order = req[r].at
        /\ \A j \in DOMAIN rules \ {i} : rules'[j] = rules[j]
    BY <1>2, <1>3, <1>5, <1>7 DEF Write
  <1>9. rules'[p].order = rules[p].order
    BY <1>5, <1>6, <1>8
  <1> HIDE DEF p, i
  <1>10. CASE req[r].offset = 1
    BY <1>1, <1>5, <1>8, <1>9, <1>10 DEF Gap, Beside, p, i
  <1>11. CASE req[r].offset # 1
    BY <1>1, <1>5, <1>8, <1>9, <1>11 DEF Gap, Beside, p, i
  <1> QED BY <1>10, <1>11

PlaceStep ==
    \A r \in Requests :
        req[r].alone /\ (Copies(r) \/ Moves(r)) =>
          Beside(IF Copies(r) THEN nextId ELSE req[r].todo[1],
                 req[r].paste, req[r].offset = 1)

\* A rule that is moved or copied without overlap shares its order with no
\* other, and no other is between it and the rule that it was pasted on: for
\* chains of any length, with gaps and ties wherever earlier requests left them.
THEOREM PastesBeside ==
    ASSUME ~OrderOfLast
    PROVE  StatusSpec => PlacedBeside
  <1>1. PlacingInv /\ [StatusNext]_allVars => [PlaceStep]_vars
    <2> SUFFICES ASSUME PlacingInv, [StatusNext]_allVars, NEW r \in Requests,
                        req[r].alone, Copies(r) \/ Moves(r)
                 PROVE  Beside(IF Copies(r) THEN nextId ELSE req[r].todo[1],
                               req[r].paste, req[r].offset = 1)
      BY DEF PlaceStep
    <2>1. Serve(r)
      <3>1. req[r].pc # "idle"
        BY DEF Copies, Moves, At
      <3>2. ~(nextId' = nextId /\ req'[r].pc = req[r].pc)
        <4>1. nextId \in Nat
          BY DEF PlacingInv, IInv, TypeOK
        <4> QED BY <4>1 DEF Copies, Moves, At
      <3> QED BY <3>1, <3>2, AloneStep
    <2>2. CASE Copies(r)
      BY <2>1, <2>2, CopyBeside
    <2>3. CASE ~Copies(r)
      BY <2>1, <2>3, MoveBeside
    <2> QED BY <2>2, <2>3
  <1>2. StatusSpec => [][PlaceStep]_vars
    BY <1>1, PlacingInvInit, PlacingInvStep, PTL DEF StatusSpec
  <1> QED BY <1>2 DEF PlacedBeside, PlaceStep

GroupGoes ==
    \A r \in Requests :
        /\ req[r].op = "move" /\ req[r].offset # 0
        /\ req[r].pc \in {"groupOf", "members", "drop"}
        /\ req'[r].pc \in {"idle", "paste"}
        => \/ req[r].old \notin groups'
           \/ \E i \in DOMAIN rules' : rules'[i].group = req[r].old

\* A move above or below another rule ends with the group that the rule was in
\* gone, or with a rule in it, whatever overlaps.
THEOREM EmptiedGroupsGo ==
    ASSUME ~OrderOfLast
    PROVE  StatusSpec => EmptiedGroupGoes
  <1>1. PlacingInv /\ [StatusNext]_allVars => [GroupGoes]_vars
    <2> SUFFICES ASSUME PlacingInv, [StatusNext]_allVars, NEW r \in Requests,
                        req[r].op = "move", req[r].offset # 0,
                        req[r].pc \in {"groupOf", "members", "drop"},
                        req'[r].pc \in {"idle", "paste"}
                 PROVE  \/ req[r].old \notin groups'
                        \/ \E i \in DOMAIN rules' : rules'[i].group = req[r].old
      BY DEF GroupGoes
    <2>1. TypeOK /\ req[r] \in Request /\ req[r].loop = << >>
      BY DEF PlacingInv, IInv, TypeOK, Kinds, Kind
    <2>2. ASSUME NEW label, Goto(r, label) PROVE label \in {"idle", "paste"}
      BY <2>1, <2>2, GotoOp
    <2>3. CASE Serve(r)
      <3>1. GroupOf(r) \/ Members(r) \/ Drop(r)
        BY <2>1, <2>3
        DEF Serve, Step, At, Reorder, Insert, Check, Write, Delete, PasteOn, ReadRule,
            ReadGap, MakeGap, SaveGroup, Assign, Unassign, Dissolve
      <3>2. CASE GroupOf(r)
        BY <2>2, <3>2 DEF GroupOf, Same
      <3>3. CASE Members(r)
        BY <2>2, <3>3 DEF Members, Same, InGroup
      <3>4. CASE Drop(r)
        BY <3>4 DEF Drop, InGroup
      <3> QED BY <3>1, <3>2, <3>3, <3>4
    <2>4. ASSUME NEW s \in Requests, s # r, Serve(s)
          PROVE  FALSE
      BY <2>4, ServeKeeps DEF PlacingInv, Keeps, Others
    <2>5. ASSUME NEW s \in Requests, ReceiveRule(s) \/ ReceiveOfGroup(s)
          PROVE  FALSE
      <3>1. PICK request \in Request : Arrive(s, request) /\ r # s
        BY <2>5, Arrivals DEF PlacingInv, Free, At
      <3>2. req'[r].pc = req[r].pc
        BY <2>1, <3>1, ArriveFields
      <3> QED BY <3>2
    <2> QED BY <2>3, <2>4, <2>5, StatusSteps
  <1>2. StatusSpec => [][GroupGoes]_vars
    BY <1>1, PlacingInvInit, PlacingInvStep, PTL DEF StatusSpec
  <1> QED BY <1>2 DEF EmptiedGroupGoes, GroupGoes
=============================================================================
