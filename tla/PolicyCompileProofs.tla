------------------------- MODULE PolicyCompileProofs -------------------------
(***************************************************************************)
(* Compiling a policy, proved for every policy, every object and every     *)
(* limit of the constants: a script of commands that the firewall can read *)
(* does with a packet, once installed, what the rules of the policy say.   *)
(* The argument follows the compiler:                                      *)
(*   - Flow is what a list of commands does with a packet; two lists agree *)
(*     when they come to the same verdict after the same effects;          *)
(*   - the lists that the compiler folds (grouped ports, ordered positions)*)
(*     have the objects they are made of;                                  *)
(*   - loading a script and walking through what has been loaded does what *)
(*     its commands do (LoadedHolds, WalkIs);                              *)
(*   - generateCompilationString lets exactly the packets through that     *)
(*     meet one condition of every position (GenerateIs);                  *)
(*   - the commands of a rule are taken by the firewall after those of the *)
(*     other rules, and do what the rule says (RuleBlock);                 *)
(*   - so the script of the first rules does what these say (WrittenNext), *)
(*     and the filter it is loaded into keeps the promise (PromiseKept).   *)
(***************************************************************************)
EXTENDS PolicyCompile, WellFoundedInduction, TLAPS

(***************************************************************************)
(* Induction over the natural numbers, for the elements of a set.          *)
(***************************************************************************)
LEMMA LeastNatural ==
    ASSUME NEW S \in SUBSET Nat, S # {}
    PROVE  \E n \in S : \A k \in S : n <= k
<1> DEFINE R == OpToRel(<, Nat)
<1>1. IsWellFoundedOn(R, Nat)
  BY NatLessThanWellFounded
<1>2. \A u, v \in Nat : u < v => <<u, v>> \in R
  BY DEF OpToRel
<1> HIDE DEF R
<1>3. PICK n \in S : \A k \in S : ~ (<<k, n>> \in R)
  BY <1>1, WFMin
<1>4. ASSUME NEW k \in S PROVE n <= k
  <2>1. ~ (k < n)
    BY <1>2, <1>3
  <2>2. k \in Nat /\ n \in Nat
    OBVIOUS
  <2> QED BY <2>1, <2>2
<1> QED BY <1>4

\* The hypothesis of the laws of FoldLaws.
LEMMA NatWellOrdered == \A S \in SUBSET Nat : S # {} => \E n \in S : \A k \in S : n <= k
BY LeastNatural

\* What has 0 and the successors of its elements has every natural number.
LEMMA SetInduction ==
    ASSUME NEW S, 0 \in S, \A n \in Nat : n \in S => n + 1 \in S
    PROVE  Nat \subseteq S
<1> SUFFICES ASSUME Nat \ S # {} PROVE FALSE
  OBVIOUS
<1>1. PICK n \in Nat \ S : \A k \in Nat \ S : n <= k
  BY LeastNatural
<1>2. n # 0 /\ n - 1 \in Nat
  BY <1>1
<1>3. n - 1 \in S
  BY <1>1, <1>2
<1> QED BY <1>1, <1>2, <1>3

\* Up to a bound, and from a bound down.
LEMMA UpTo ==
    ASSUME NEW S, NEW m \in Nat, 0 \in S, \A n \in 0..(m - 1) : n \in S => n + 1 \in S
    PROVE  0..m \subseteq S
<1> DEFINE T == {n \in Nat : n <= m => n \in S}
<1>1. 0 \in T /\ \A n \in Nat : n \in T => n + 1 \in T
  OBVIOUS
<1> HIDE DEF T
<1>2. Nat \subseteq T
  BY <1>1, SetInduction
<1> QED BY <1>2 DEF T

\* ... and from a bound down.
LEMMA DownFrom ==
    ASSUME NEW S, NEW m \in Nat, m \in S, \A n \in 0..(m - 1) : n + 1 \in S => n \in S
    PROVE  0..m \subseteq S
<1> DEFINE T == {n \in 0..m : m - n \in S}
<1>1. 0 \in T
  OBVIOUS
<1>2. \A n \in 0..(m - 1) : n \in T => n + 1 \in T
  <2> SUFFICES ASSUME NEW n \in 0..(m - 1), m - n \in S PROVE m - (n + 1) \in S
    OBVIOUS
  <2>1. m - (n + 1) \in 0..(m - 1) /\ (m - (n + 1)) + 1 = m - n
    OBVIOUS
  <2> QED BY <2>1
<1> HIDE DEF T
<1>3. 0..m \subseteq T
  BY <1>1, <1>2, UpTo
<1>4. \A n \in 0..m : m - n \in 0..m /\ m - (m - n) = n
  OBVIOUS
<1> QED BY <1>3, <1>4 DEF T

(***************************************************************************)
(* What happens to a packet.                                               *)
(***************************************************************************)
Kinds == {"create", "none", "PREROUTING", "INPUT", "FORWARD", "OUTPUT", "POSTROUTING",
          "CH", "M1", "M2", "ACC", "LOGCHAIN"} \cup Final \cup Silent
Tables == {"filter", "nat", "mangle"}
Targets == [kind : Kinds, id : Nat, n : Nat]
Results == [end : Targets, trail : Seq(Targets)]

\* The same verdict after the same effects, in the same order if x.
Agrees(x, a, b) ==
    a.end = b.end /\ ToSet(a.trail) = ToSet(b.trail) /\ (x => a.trail = b.trail)

\* What a result is made of.
LEMMA ResultFields ==
    ASSUME NEW a \in Results
    PROVE  /\ a.end \in Targets /\ a.trail \in Seq(Targets)
           /\ a = [end |-> a.end, trail |-> a.trail]
BY DEF Results

\* The elements of a concatenation.
LEMMA ToSetConcat ==
    ASSUME NEW S, NEW s \in Seq(S), NEW t \in Seq(S)
    PROVE  ToSet(s \o t) = ToSet(s) \cup ToSet(t)
<1>1. ASSUME NEW x \in ToSet(s \o t) PROVE x \in ToSet(s) \cup ToSet(t)
  <2>1. PICK i \in 1..(Len(s) + Len(t)) : (s \o t)[i] = x
    BY DEF ToSet
  <2>2. CASE i <= Len(s)
    <3>1. i \in 1..Len(s) /\ s[i] = x
      BY <2>1, <2>2
    <3> QED BY <3>1 DEF ToSet
  <2>3. CASE i > Len(s)
    <3>1. i - Len(s) \in 1..Len(t) /\ t[i - Len(s)] = x
      BY <2>1, <2>3
    <3> QED BY <3>1 DEF ToSet
  <2> QED BY <2>2, <2>3
<1>2. ASSUME NEW i \in 1..Len(s) PROVE s[i] \in ToSet(s \o t)
  <2>1. i \in DOMAIN (s \o t) /\ (s \o t)[i] = s[i]
    OBVIOUS
  <2> QED BY <2>1 DEF ToSet
<1>3. ASSUME NEW i \in 1..Len(t) PROVE t[i] \in ToSet(s \o t)
  <2>1. Len(s) + i \in DOMAIN (s \o t) /\ (s \o t)[Len(s) + i] = t[i]
    OBVIOUS
  <2> QED BY <2>1 DEF ToSet
<1>4. ToSet(s) = {s[i] : i \in 1..Len(s)} /\ ToSet(t) = {t[i] : i \in 1..Len(t)}
  BY DEF ToSet
<1> QED BY <1>1, <1>2, <1>3, <1>4

\* A sequence is one of its own elements.
LEMMA ToSetIs ==
    ASSUME NEW S, NEW s \in Seq(S)
    PROVE  ToSet(s) \subseteq S /\ s \in Seq(ToSet(s)) /\ ToSet(s) = {s[i] : i \in 1..Len(s)}
BY DEF ToSet

\* Doing nothing is a result.
LEMMA NoneType == None \in Targets /\ Nothing \in Results /\ Nothing.end = None
                  /\ Nothing.trail = << >> /\ ToSet(<< >>) = {}
<1>1. None \in Targets
  <2>1. None = [kind |-> "none", id |-> 0, n |-> 0]
    BY DEF None, Name
  <2> QED BY <2>1 DEF Targets, Kinds
<1>2. Nothing.end = None /\ Nothing.trail = << >> /\ Nothing = [end |-> None, trail |-> << >>]
  BY DEF Nothing
<1>3. << >> \in Seq(Targets)
  OBVIOUS
<1>4. Nothing \in Results
  BY <1>1, <1>2, <1>3 DEF Results
<1>5. ToSet(<< >>) = {}
  BY DEF ToSet
<1> QED BY <1>1, <1>2, <1>4, <1>5

\* One result after another is a result.
LEMMA ThenType ==
    ASSUME NEW a \in Results, NEW b \in Results
    PROVE  Then(a, b) \in Results
BY DEF Then, Results

\* Nothing before or after changes nothing.
LEMMA ThenNothing ==
    ASSUME NEW a \in Results
    PROVE  Then(a, Nothing) = a /\ Then(Nothing, a) = a
<1>1. a.trail \o << >> = a.trail /\ << >> \o a.trail = a.trail
  BY ResultFields
<1> QED BY <1>1, ResultFields DEF Then, Nothing

\* Concatenation is associative.
LEMMA ConcatAssociates ==
    ASSUME NEW S, NEW r \in Seq(S), NEW s \in Seq(S), NEW t \in Seq(S)
    PROVE  (r \o s) \o t = r \o (s \o t)
OBVIOUS

\* Three results in a row may be taken in any two steps.
LEMMA ThenAssociates ==
    ASSUME NEW a \in Results, NEW b \in Results, NEW c \in Results
    PROVE  Then(Then(a, b), c) = Then(a, Then(b, c))
<1>0. a.trail \in Seq(Targets) /\ b.trail \in Seq(Targets) /\ c.trail \in Seq(Targets)
  BY ResultFields
<1>1. (a.trail \o b.trail) \o c.trail = a.trail \o (b.trail \o c.trail)
  <2> DEFINE r == a.trail
             s == b.trail
             t == c.trail
  <2> HIDE DEF r, s, t
  <2>1. r \in Seq(Targets) /\ s \in Seq(Targets) /\ t \in Seq(Targets)
    BY <1>0 DEF r, s, t
  <2>2. (r \o s) \o t = r \o (s \o t)
    BY <2>1, ConcatAssociates
  <2> QED BY <2>2 DEF r, s, t
<1>2. CASE a.end # None
  BY <1>2 DEF Then
<1>3. CASE a.end = None /\ b.end # None
  BY <1>3 DEF Then
<1>4. CASE a.end = None /\ b.end = None
  BY <1>1, <1>4 DEF Then
<1> QED BY <1>2, <1>3, <1>4

\* Results that agree, after results that agree, agree.
LEMMA AgreesThen ==
    ASSUME NEW a \in Results, NEW b \in Results, NEW c \in Results, NEW d \in Results, NEW x,
           Agrees(x, a, c), Agrees(x, b, d)
    PROVE  Agrees(x, Then(a, b), Then(c, d))
<1>1. CASE a.end # None
  BY <1>1 DEF Agrees, Then
<1>2. CASE a.end = None
  <2>1. ToSet(a.trail \o b.trail) = ToSet(a.trail) \cup ToSet(b.trail)
        /\ ToSet(c.trail \o d.trail) = ToSet(c.trail) \cup ToSet(d.trail)
    BY ToSetConcat, ResultFields
  <2> DEFINE ab == a.trail \o b.trail
             cd == c.trail \o d.trail
  <2>2. Then(a, b) = [end |-> b.end, trail |-> ab] /\ Then(c, d) = [end |-> d.end, trail |-> cd]
    BY <1>2 DEF Agrees, Then
  <2>3. ToSet(a.trail) = ToSet(c.trail) /\ ToSet(b.trail) = ToSet(d.trail) /\ b.end = d.end
        /\ (x => a.trail = c.trail /\ b.trail = d.trail)
    BY DEF Agrees
  <2>4. ToSet(a.trail \o b.trail) = ToSet(c.trail \o d.trail)
    BY <2>1, <2>3
  <2>5. x => a.trail \o b.trail = c.trail \o d.trail
    BY <2>3
  <2>6. Then(a, b).end = Then(c, d).end /\ Then(a, b).trail = ab /\ Then(c, d).trail = cd
    <3> HIDE DEF ab, cd
    <3> QED BY <2>2, <2>3
  <2> QED BY <2>4, <2>5, <2>6 DEF Agrees
<1> QED BY <1>1, <1>2

\* Agreement is an equivalence, and exact agreement is the stronger one.
LEMMA AgreesIs ==
    ASSUME NEW a, NEW b, NEW c, NEW x, NEW y
    PROVE  /\ Agrees(x, a, a)
           /\ Agrees(x, a, b) => Agrees(x, b, a)
           /\ Agrees(x, a, b) /\ Agrees(x, b, c) => Agrees(x, a, c)
           /\ (y => x) /\ Agrees(x, a, b) => Agrees(y, a, b)
BY DEF Agrees

\* Done twice, the same effects, but perhaps twice.
LEMMA ThenTwice ==
    ASSUME NEW a \in Results
    PROVE  Agrees(Then(a, a) = a, Then(a, a), a) /\ (a.end # None => Then(a, a) = a)
<1>1. CASE a.end # None
  BY <1>1 DEF Agrees, Then
<1>2. CASE a.end = None
  <2>0. a.trail \in Seq(Targets)
    BY ResultFields
  <2> DEFINE t == a.trail
  <2>1. ToSet(t \o t) = ToSet(t) \cup ToSet(t)
    <3> HIDE DEF t
    <3> QED BY <2>0, ToSetConcat DEF t
  <2>3. ToSet(t \o t) = ToSet(t)
    BY <2>1
  <2>2. Then(a, a) = [end |-> a.end, trail |-> a.trail \o a.trail]
    BY <1>2 DEF Then
  <2> QED BY <1>2, <2>2, <2>3 DEF Agrees
<1> QED BY <1>1, <1>2

(***************************************************************************)
(* What a list of commands does with a packet p in one chain of a table,   *)
(* when e is what happens to it at every target: g = [table, chain, p, e]. *)
(***************************************************************************)
Lines(C) == [table : Tables, chain : Targets, match : SUBSET C, to : Targets]

Part(g, l) ==
    IF l.table = g.table /\ l.chain = g.chain /\ l.to # Create /\ Hit(l, g.p)
    THEN g.e[l.to] ELSE Nothing
Pass(g, v, l) == Then(v, Part(g, l))

Flows == INSTANCE FoldLaws WITH Op <- Pass

Flow(g, s) == Flows!Folded(g, Nothing, s)
Reaction(g) == g.e \in [Targets -> Results]

\* What one command does is a result.
LEMMA PartType ==
    ASSUME NEW g, Reaction(g), NEW C, NEW l \in Lines(C)
    PROVE  Part(g, l) \in Results
<1>1. l.to \in Targets
  BY DEF Lines
<1> QED BY <1>1, NoneType DEF Part, Reaction

\* No command does nothing.
LEMMA FlowEmpty ==
    ASSUME NEW g PROVE Flow(g, << >>) = Nothing
BY NatWellOrdered, Flows!FoldEmpty DEF Flows!WellOrdered, Flow

\* A last command does its part after the others.
LEMMA FlowAppend ==
    ASSUME NEW g, NEW C, NEW s \in Seq(Lines(C)), NEW l
    PROVE  Flow(g, Append(s, l)) = Then(Flow(g, s), Part(g, l))
<1>1. Flows!Folded(g, Nothing, Append(s, l)) = Pass(g, Flows!Folded(g, Nothing, s), l)
  BY NatWellOrdered, Flows!FoldAppend DEF Flows!WellOrdered
<1> QED BY <1>1 DEF Flow, Pass

\* A property of a flow, proved along the list.
LEMMA FlowInduction ==
    ASSUME NEW C, NEW s \in Seq(Lines(C)), NEW T,
           << >> \in T,
           \A i \in 0..(Len(s) - 1) :
              SubSeq(s, 1, i) \in T => Append(SubSeq(s, 1, i), s[i + 1]) \in T
    PROVE  s \in T
<1> DEFINE S == {i \in 0..Len(s) : SubSeq(s, 1, i) \in T}
<1>1. 0 \in S
  <2>1. SubSeq(s, 1, 0) = << >> /\ 0 \in 0..Len(s)
    OBVIOUS
  <2> QED BY <2>1
<1>2. ASSUME NEW i \in 0..(Len(s) - 1), i \in S PROVE i + 1 \in S
  <2>1. SubSeq(s, 1, i + 1) = Append(SubSeq(s, 1, i), s[i + 1]) /\ i + 1 \in 0..Len(s)
    OBVIOUS
  <2> QED BY <1>2, <2>1
<1> HIDE DEF S
<1>3. 0..Len(s) \subseteq S
  <2>1. Len(s) \in Nat /\ \A i \in 0..(Len(s) - 1) : i \in S => i + 1 \in S
    BY <1>2
  <2> QED BY <1>1, <2>1, UpTo
<1>4. Len(s) \in S
  BY <1>3
<1>5. SubSeq(s, 1, Len(s)) = s
  OBVIOUS
<1> QED BY <1>4, <1>5 DEF S

\* What a list of commands does is a result.
LEMMA FlowType ==
    ASSUME NEW g, Reaction(g), NEW C, NEW s \in Seq(Lines(C))
    PROVE  Flow(g, s) \in Results
<1> DEFINE T == {r \in Seq(Lines(C)) : Flow(g, r) \in Results}
<1>1. << >> \in T
  BY FlowEmpty, NoneType
<1>2. ASSUME NEW i \in 0..(Len(s) - 1), SubSeq(s, 1, i) \in T
      PROVE  Append(SubSeq(s, 1, i), s[i + 1]) \in T
  <2> DEFINE r == SubSeq(s, 1, i)
             l == s[i + 1]
  <2>1. r \in Seq(Lines(C)) /\ l \in Lines(C) /\ Flow(g, r) \in Results
    BY <1>2
  <2> HIDE DEF r, l
  <2>2. Flow(g, Append(r, l)) = Then(Flow(g, r), Part(g, l))
    BY <2>1, FlowAppend
  <2>3. Flow(g, Append(r, l)) \in Results
    BY <2>1, <2>2, PartType, ThenType
  <2>4. Append(r, l) \in T
    BY <2>1, <2>3
  <2> QED BY <2>4 DEF r, l
<1> HIDE DEF T
<1>3. s \in T
  BY <1>1, <1>2, FlowInduction
<1> QED BY <1>3 DEF T

\* Two lists of commands do one what the other leaves to do.
LEMMA FlowConcat ==
    ASSUME NEW g, Reaction(g), NEW C, NEW r \in Seq(Lines(C)), NEW s \in Seq(Lines(C))
    PROVE  Flow(g, r \o s) = Then(Flow(g, r), Flow(g, s))
<1> DEFINE T == {t \in Seq(Lines(C)) : Flow(g, r \o t) = Then(Flow(g, r), Flow(g, t))}
<1>1. << >> \in T
  <2>1. r \o << >> = r /\ << >> \in Seq(Lines(C))
    OBVIOUS
  <2>2. Flow(g, << >>) = Nothing /\ Then(Flow(g, r), Nothing) = Flow(g, r)
    BY FlowEmpty, FlowType, ThenNothing
  <2> QED BY <2>1, <2>2
<1>2. ASSUME NEW i \in 0..(Len(s) - 1), SubSeq(s, 1, i) \in T
      PROVE  Append(SubSeq(s, 1, i), s[i + 1]) \in T
  <2> DEFINE t == SubSeq(s, 1, i)
             l == s[i + 1]
             w == r \o t
  <2>1. t \in Seq(Lines(C)) /\ l \in Lines(C) /\ Flow(g, w) = Then(Flow(g, r), Flow(g, t))
    BY <1>2
  <2> HIDE DEF t, l
  <2>2. r \o Append(t, l) = Append(w, l) /\ w \in Seq(Lines(C)) /\ Append(t, l) \in Seq(Lines(C))
    BY <2>1
  <2> HIDE DEF w
  <2>3. Flow(g, Append(w, l)) = Then(Flow(g, w), Part(g, l))
        /\ Flow(g, Append(t, l)) = Then(Flow(g, t), Part(g, l))
    BY <2>1, <2>2, FlowAppend
  <2>4. Flow(g, r) \in Results /\ Flow(g, t) \in Results /\ Part(g, l) \in Results
    BY <2>1, FlowType, PartType
  <2>6. Then(Then(Flow(g, r), Flow(g, t)), Part(g, l))
          = Then(Flow(g, r), Then(Flow(g, t), Part(g, l)))
    BY <2>4, ThenAssociates
  <2>7. Flow(g, r \o Append(t, l)) = Then(Flow(g, r), Flow(g, Append(t, l)))
    BY <2>1, <2>2, <2>3, <2>6
  <2>5. Append(t, l) \in T
    BY <2>2, <2>7
  <2> QED BY <2>5 DEF t, l
<1> HIDE DEF T
<1>3. s \in T
  BY <1>1, <1>2, FlowInduction
<1> QED BY <1>3 DEF T

\* A list of one command does what that does.
LEMMA FlowOne ==
    ASSUME NEW g, Reaction(g), NEW C, NEW l \in Lines(C)
    PROVE  Flow(g, <<l>>) = Part(g, l)
<1>1. <<l>> = Append(<< >>, l) /\ << >> \in Seq(Lines(C))
  OBVIOUS
<1>2. Flow(g, Append(<< >>, l)) = Then(Flow(g, << >>), Part(g, l))
  BY <1>1, FlowAppend
<1> QED BY <1>1, <1>2, FlowEmpty, PartType, ThenNothing

\* Lists that do the same, command by command.
LEMMA FlowSame ==
    ASSUME NEW g, Reaction(g), NEW h, Reaction(h), NEW C, NEW D,
           NEW r \in Seq(Lines(C)), NEW s \in Seq(Lines(D)), Len(r) = Len(s),
           \A i \in 1..Len(s) : Part(g, r[i]) = Part(h, s[i])
    PROVE  Flow(g, r) = Flow(h, s)
<1> DEFINE T == {t \in Seq(Lines(C)) :
                   Len(t) <= Len(s) => Flow(g, t) = Flow(h, SubSeq(s, 1, Len(t)))}
<1>1. << >> \in T
  <2>1. SubSeq(s, 1, Len(<< >>)) = << >> /\ << >> \in Seq(Lines(C))
    OBVIOUS
  <2> QED BY <2>1, FlowEmpty
<1>2. ASSUME NEW i \in 0..(Len(r) - 1), SubSeq(r, 1, i) \in T
      PROVE  Append(SubSeq(r, 1, i), r[i + 1]) \in T
  <2> DEFINE t == SubSeq(r, 1, i)
             l == r[i + 1]
             u == SubSeq(s, 1, i)
             m == s[i + 1]
  <2>1. t \in Seq(Lines(C)) /\ Len(t) = i /\ i <= Len(s) /\ u \in Seq(Lines(D))
        /\ SubSeq(s, 1, i + 1) = Append(u, m) /\ Part(g, l) = Part(h, m)
        /\ Append(t, l) \in Seq(Lines(C)) /\ Len(Append(t, l)) = i + 1
    OBVIOUS
  <2>2. Flow(g, t) = Flow(h, u)
    BY <1>2, <2>1
  <2> HIDE DEF t, l, u, m
  <2>3. Flow(g, Append(t, l)) = Then(Flow(g, t), Part(g, l))
        /\ Flow(h, Append(u, m)) = Then(Flow(h, u), Part(h, m))
    BY <2>1, FlowAppend
  <2>4. Append(t, l) \in T
    BY <2>1, <2>2, <2>3
  <2> QED BY <2>4 DEF t, l
<1> HIDE DEF T
<1>3. r \in T
  BY <1>1, <1>2, FlowInduction
<1>4. SubSeq(s, 1, Len(s)) = s
  OBVIOUS
<1>5. Len(r) <= Len(s)
  OBVIOUS
<1> QED BY <1>3, <1>4, <1>5 DEF T

\* Commands for other chains do nothing.
LEMMA FlowElsewhere ==
    ASSUME NEW g, Reaction(g), NEW C, NEW s \in Seq(Lines(C)),
           \A i \in 1..Len(s) : Part(g, s[i]) = Nothing
    PROVE  Flow(g, s) = Nothing
<1> DEFINE T == {t \in Seq(Lines(C)) :
                   (\A i \in 1..Len(t) : Part(g, t[i]) = Nothing) => Flow(g, t) = Nothing}
<1>1. << >> \in T
  BY FlowEmpty
<1>2. ASSUME NEW i \in 0..(Len(s) - 1), SubSeq(s, 1, i) \in T
      PROVE  Append(SubSeq(s, 1, i), s[i + 1]) \in T
  <2> DEFINE t == SubSeq(s, 1, i)
             l == s[i + 1]
  <2>1. t \in Seq(Lines(C)) /\ l \in Lines(C) /\ Part(g, l) = Nothing
        /\ \A j \in 1..Len(t) : Part(g, t[j]) = Nothing
    OBVIOUS
  <2>2. Flow(g, t) = Nothing
    BY <1>2, <2>1
  <2> HIDE DEF t, l
  <2>3. Flow(g, Append(t, l)) = Nothing
    BY <2>1, <2>2, FlowAppend, NoneType, ThenNothing
  <2>4. Append(t, l) \in T
    BY <2>1, <2>3
  <2> QED BY <2>4 DEF t, l
<1> HIDE DEF T
<1>3. s \in T
  BY <1>1, <1>2, FlowInduction
<1> QED BY <1>3 DEF T

(***************************************************************************)
(* The lists of the compiler.                                              *)
(***************************************************************************)
\* What a loop that keeps what passes a test has made of a list.
KeptOf(s, yes, i, r, S) ==
    /\ r \in Seq(S) /\ Len(r) <= i
    /\ \A x : x \in ToSet(r) <=> \E j \in 1..i : yes[j] /\ x = s[j]
    /\ \A a, b \in 1..Len(r) : a < b =>
         \E j, k \in 1..i : j < k /\ yes[j] /\ yes[k] /\ r[a] = s[j] /\ r[b] = s[k]

\* A loop that keeps some elements keeps these, in their order.
LEMMA KeptTrace ==
    ASSUME NEW S, NEW s \in Seq(S), NEW yes \in [1..Len(s) -> BOOLEAN], NEW f,
           f[0] = << >>, \A i \in 1..Len(s) : f[i] = Kept(f[i - 1], s[i], yes[i])
    PROVE  KeptOf(s, yes, Len(s), f[Len(s)], S)
<1> DEFINE T == {i \in 0..Len(s) : KeptOf(s, yes, i, f[i], S)}
<1>1. 0 \in T
  <2> DEFINE r == f[0]
  <2>1. r = << >> /\ ToSet(<< >>) = {} /\ 0 \in 0..Len(s) /\ Len(r) = 0 /\ r \in Seq(S)
    BY DEF ToSet
  <2>2. 1..0 = {} /\ 1..Len(r) = {}
    BY <2>1
  <2> HIDE DEF r
  <2>3. KeptOf(s, yes, 0, r, S)
    BY <2>1, <2>2 DEF KeptOf
  <2> QED BY <2>1, <2>3 DEF r
<1>2. ASSUME NEW i \in 0..(Len(s) - 1), i \in T PROVE i + 1 \in T
  <2> DEFINE r == f[i]
             x == s[i + 1]
  <2>0. i \in Nat /\ i + 1 \in 0..Len(s) /\ i + 1 \in 1..Len(s) /\ x \in S
    OBVIOUS
  <2>1. KeptOf(s, yes, i, r, S)
    BY <1>2
  <2>2. f[i + 1] = IF yes[i + 1] THEN Append(r, x) ELSE r
    <3>1. f[i + 1] = Kept(f[(i + 1) - 1], s[i + 1], yes[i + 1])
      BY <2>0
    <3> QED BY <3>1, <2>0 DEF Kept
  <2> DEFINE q == f[i + 1]
  <2> HIDE DEF r, q
  <2>3. KeptOf(s, yes, i + 1, q, S)
    <3>1. CASE ~yes[i + 1]
      <4>1. q = r
        BY <2>2, <3>1 DEF q
      <4>2. \A j \in 1..(i + 1) : yes[j] => j \in 1..i
        BY <2>0, <3>1
      <4>3. \A j \in 1..i : j \in 1..(i + 1)
        BY <2>0
      <4>4. r \in Seq(S) /\ Len(r) <= i + 1
        BY <2>0, <2>1 DEF KeptOf
      <4>5. \A y : y \in ToSet(r) <=> \E j \in 1..(i + 1) : yes[j] /\ y = s[j]
        BY <2>1, <4>2, <4>3 DEF KeptOf
      <4>6. \A a, b \in 1..Len(r) : a < b =>
              \E j, k \in 1..(i + 1) : j < k /\ yes[j] /\ yes[k] /\ r[a] = s[j] /\ r[b] = s[k]
        BY <2>1, <4>3 DEF KeptOf
      <4>7. KeptOf(s, yes, i + 1, r, S)
        BY <4>4, <4>5, <4>6, Zenon DEF KeptOf
      <4> QED BY <4>1, <4>7
    <3>2. CASE yes[i + 1]
      <4>0. r \in Seq(S) /\ Len(r) <= i
        BY <2>1 DEF KeptOf
      <4>1. q = Append(r, x)
        BY <2>2, <3>2 DEF q
      <4>2. q \in Seq(S) /\ Len(q) = Len(r) + 1 /\ Len(q) <= i + 1 /\ q[Len(r) + 1] = x
            /\ \A a \in 1..Len(r) : q[a] = r[a]
        BY <2>0, <4>0, <4>1
      <4>3. ToSet(q) = ToSet(r) \cup {x}
        <5>0. DOMAIN q = 1..(Len(r) + 1) /\ DOMAIN r = 1..Len(r)
          BY <4>0, <4>2
        <5>1. ToSet(q) = {q[a] : a \in 1..(Len(r) + 1)} /\ ToSet(r) = {r[a] : a \in 1..Len(r)}
          BY <5>0, Zenon DEF ToSet
        <5>2. ASSUME NEW y PROVE y \in ToSet(q) <=> y \in ToSet(r) \cup {x}
          <6>1. ASSUME NEW a \in 1..(Len(r) + 1), y = q[a] PROVE y \in ToSet(r) \cup {x}
            <7>1. CASE a = Len(r) + 1
              BY <4>2, <6>1, <7>1
            <7>2. CASE a # Len(r) + 1
              <8>1. a \in 1..Len(r)
                BY <4>0, <7>2
              <8> QED BY <4>2, <5>1, <6>1, <8>1
            <7> QED BY <7>1, <7>2
          <6>2. ASSUME NEW a \in 1..Len(r), y = r[a] PROVE y \in ToSet(q)
            <7>1. a \in 1..(Len(r) + 1) /\ q[a] = y
              BY <4>0, <4>2, <6>2
            <7> QED BY <5>1, <7>1
          <6>3. x \in ToSet(q)
            <7>1. Len(r) + 1 \in 1..(Len(r) + 1)
              BY <4>0
            <7> QED BY <4>2, <5>1, <7>1
          <6> QED BY <5>1, <6>1, <6>2, <6>3
        <5> QED BY <5>2
      <4>4. \A y : y \in ToSet(q) <=> \E j \in 1..(i + 1) : yes[j] /\ y = s[j]
        <5>1. \A y : y \in ToSet(r) <=> \E j \in 1..i : yes[j] /\ y = s[j]
          BY <2>1 DEF KeptOf
        <5>2. \A j : j \in 1..(i + 1) <=> (j \in 1..i \/ j = i + 1)
          BY <2>0
        <5> QED BY <3>2, <4>3, <5>1, <5>2
      <4>5. ASSUME NEW a \in 1..Len(q), NEW b \in 1..Len(q), a < b
            PROVE \E j, k \in 1..(i + 1) : j < k /\ yes[j] /\ yes[k] /\ q[a] = s[j] /\ q[b] = s[k]
        <5>1. a \in 1..Len(r)
          BY <4>0, <4>2, <4>5
        <5>2. CASE b \in 1..Len(r)
          <6>1. PICK j \in 1..i, k \in 1..i : j < k /\ yes[j] /\ yes[k] /\ r[a] = s[j] /\ r[b] = s[k]
            BY <2>1, <4>5, <5>1, <5>2 DEF KeptOf
          <6>2. j \in 1..(i + 1) /\ k \in 1..(i + 1)
            BY <2>0
          <6> QED BY <4>2, <5>1, <5>2, <6>1, <6>2
        <5>3. CASE b = Len(r) + 1
          <6>1. r[a] \in ToSet(r)
            BY <4>0, <5>1 DEF ToSet
          <6>2. PICK j \in 1..i : yes[j] /\ r[a] = s[j]
            BY <2>1, <6>1 DEF KeptOf
          <6>3. j \in 1..(i + 1) /\ i + 1 \in 1..(i + 1) /\ j < i + 1
            BY <2>0
          <6>4. q[a] = s[j] /\ q[b] = s[i + 1]
            BY <4>2, <5>1, <5>3, <6>2
          <6> QED BY <3>2, <6>2, <6>3, <6>4
        <5> QED BY <4>0, <4>2, <5>2, <5>3
      <4> QED BY <4>2, <4>4, <4>5 DEF KeptOf
    <3> QED BY <2>0, <3>1, <3>2
  <2> QED BY <2>0, <2>3 DEF q
<1> HIDE DEF T
<1>3. 0..Len(s) \subseteq T
  <2>1. Len(s) \in Nat /\ \A i \in 0..(Len(s) - 1) : i \in T => i + 1 \in T
    BY <1>2
  <2> QED BY <1>1, <2>1, UpTo
<1>4. Len(s) \in T
  BY <1>3
<1> QED BY <1>4 DEF T

SameIpFolds == INSTANCE FoldLaws WITH Op <- SameIp
OfPortFolds == INSTANCE FoldLaws WITH Op <- SamePort
SidedFolds == INSTANCE FoldLaws WITH Op <- Sided
NotEmptyOf(g, list, p) == NotEmpty(list, p)
NotEmptyFolds == INSTANCE FoldLaws WITH Op <- NotEmptyOf

\* The loop over the objects of one IP version.
LEMMA SameIpKept ==
    ASSUME NEW ip, NEW S, NEW s \in Seq(S)
    PROVE  KeptOf(s, [i \in 1..Len(s) |-> s[i].ip \in {0, ip}], Len(s),
                  OfIp(ip, s), S)
<1> DEFINE yes == [i \in 1..Len(s) |-> s[i].ip \in {0, ip}]
<1>0. OfIp(ip, s) = SameIpFolds!Folded(ip, << >>, s)
  BY DEF SameIpFolds!Folded, FoldLeft, MapThenFoldSet, OfIp,
         SameIpFolds!Largest, Max
<1>1. PICK f : SameIpFolds!Trace(f, ip, << >>, s) /\ f[Len(s)] = SameIpFolds!Folded(ip, << >>, s)
  BY NatWellOrdered, SameIpFolds!FoldTrace DEF SameIpFolds!WellOrdered
<1>2. f[0] = << >> /\ \A i \in 1..Len(s) : f[i] = Kept(f[i - 1], s[i], yes[i])
  BY <1>1 DEF SameIpFolds!Trace, SameIp
<1>3. yes \in [1..Len(s) -> BOOLEAN]
  OBVIOUS
<1> HIDE DEF yes
<1>4. KeptOf(s, yes, Len(s), f[Len(s)], S)
  BY <1>2, <1>3, KeptTrace
<1> QED BY <1>0, <1>1, <1>4 DEF yes

\* The loop over the services of one kind.
LEMMA OfPortKept ==
    ASSUME NEW port, NEW S, NEW s \in Seq(S)
    PROVE  KeptOf(s, [i \in 1..Len(s) |-> s[i].port = port], Len(s),
                  OfPort(port, s), S)
<1> DEFINE yes == [i \in 1..Len(s) |-> s[i].port = port]
<1>0. OfPort(port, s) = OfPortFolds!Folded(port, << >>, s)
  BY DEF OfPortFolds!Folded, FoldLeft, MapThenFoldSet, OfPort,
         OfPortFolds!Largest, Max
<1>1. PICK f : OfPortFolds!Trace(f, port, << >>, s) /\ f[Len(s)] = OfPortFolds!Folded(port, << >>, s)
  BY NatWellOrdered, OfPortFolds!FoldTrace DEF OfPortFolds!WellOrdered
<1>2. f[0] = << >> /\ \A i \in 1..Len(s) : f[i] = Kept(f[i - 1], s[i], yes[i])
  BY <1>1 DEF OfPortFolds!Trace, SamePort
<1>3. yes \in [1..Len(s) -> BOOLEAN]
  OBVIOUS
<1> HIDE DEF yes
<1>4. KeptOf(s, yes, Len(s), f[Len(s)], S)
  BY <1>2, <1>3, KeptTrace
<1> QED BY <1>0, <1>1, <1>4 DEF yes

\* The loop over the negated positions, or over the others.
LEMMA SideKept ==
    ASSUME NEW neg, NEW S, NEW s \in Seq(S)
    PROVE  KeptOf(s, [i \in 1..Len(s) |-> s[i].neg = neg], Len(s), Side(neg, s), S)
<1> DEFINE yes == [i \in 1..Len(s) |-> s[i].neg = neg]
<1>0. Side(neg, s) = SidedFolds!Folded(neg, << >>, s)
  BY DEF SidedFolds!Folded, FoldLeft, MapThenFoldSet, Side,
         SidedFolds!Largest, Max
<1>1. PICK f : SidedFolds!Trace(f, neg, << >>, s) /\ f[Len(s)] = SidedFolds!Folded(neg, << >>, s)
  BY NatWellOrdered, SidedFolds!FoldTrace DEF SidedFolds!WellOrdered
<1>2. f[0] = << >> /\ \A i \in 1..Len(s) : f[i] = Kept(f[i - 1], s[i], yes[i])
  BY <1>1 DEF SidedFolds!Trace, Sided
<1>3. yes \in [1..Len(s) -> BOOLEAN]
  OBVIOUS
<1> HIDE DEF yes
<1>4. KeptOf(s, yes, Len(s), f[Len(s)], S)
  BY <1>2, <1>3, KeptTrace
<1> QED BY <1>0, <1>1, <1>4 DEF yes

\* The loop over the positions that have conditions.
LEMMA NotEmptyKept ==
    ASSUME NEW S, NEW s \in Seq(S)
    PROVE  KeptOf(s, [i \in 1..Len(s) |-> s[i].items # << >>], Len(s),
                  FoldLeft(NotEmpty, << >>, s), S)
<1> DEFINE yes == [i \in 1..Len(s) |-> s[i].items # << >>]
<1>0. FoldLeft(NotEmpty, << >>, s) = NotEmptyFolds!Folded(0, << >>, s)
  BY DEF NotEmptyFolds!Folded, FoldLeft, MapThenFoldSet, NotEmptyOf,
         NotEmptyFolds!Largest, Max
<1>1. PICK f : NotEmptyFolds!Trace(f, 0, << >>, s) /\ f[Len(s)] = NotEmptyFolds!Folded(0, << >>, s)
  BY NatWellOrdered, NotEmptyFolds!FoldTrace DEF NotEmptyFolds!WellOrdered
<1>2. f[0] = << >> /\ \A i \in 1..Len(s) : f[i] = Kept(f[i - 1], s[i], yes[i])
  BY <1>1 DEF NotEmptyFolds!Trace, NotEmpty, NotEmptyOf
<1>3. yes \in [1..Len(s) -> BOOLEAN]
  OBVIOUS
<1> HIDE DEF yes
<1>4. KeptOf(s, yes, Len(s), f[Len(s)], S)
  BY <1>2, <1>3, KeptTrace
<1> QED BY <1>0, <1>1, <1>4 DEF yes

GroupOf(g, s, o) == Group(s, o)
GroupFolds == INSTANCE FoldLaws WITH Op <- GroupOf
AddPortsOf(g, n, o) == AddPorts(n, o)
AddPortsFolds == INSTANCE FoldLaws WITH Op <- AddPortsOf

PortSum(s) == AddPortsFolds!Folded(0, 0, s)

\* A multiport condition has the ports of its services.
LEMMA MultiportIs ==
    ASSUME NEW s
    PROVE  Multiport(s) = [dim |-> "SVC", vals |-> UNION {o.vals : o \in ToSet(s)},
                           ports |-> PortSum(s), form |-> "ipv4"]
<1>1. FoldLeft(AddPorts, 0, s) = PortSum(s)
  BY DEF PortSum, AddPortsFolds!Folded, FoldLeft, MapThenFoldSet,
         AddPortsOf, AddPortsFolds!Largest, Max
<1> QED BY <1>1 DEF Multiport, Condition

\* One more service adds what its ports count for.
LEMMA PortSumAppend ==
    ASSUME NEW S, NEW s \in Seq(S), NEW o
    PROVE  PortSum(Append(s, o)) = PortSum(s) + o.ports
<1>1. AddPortsFolds!Folded(0, 0, Append(s, o)) = AddPortsOf(0, AddPortsFolds!Folded(0, 0, s), o)
  BY NatWellOrdered, AddPortsFolds!FoldAppend DEF AddPortsFolds!WellOrdered
<1> QED BY <1>1 DEF PortSum, AddPortsOf, AddPorts

\* No service has no port.
LEMMA PortSumEmpty == PortSum(<< >>) = 0
BY NatWellOrdered, AddPortsFolds!FoldEmpty DEF AddPortsFolds!WellOrdered, PortSum

Multis(S) == {m \in {Multiport(q) : q \in Seq(S)} : m.ports \in 0..MultiportLimit}

\* A group within the limit is met by the packets of its services alone.
LEMMA MultisAre ==
    ASSUME NEW S, NEW m \in Multis(S)
    PROVE  /\ m.dim = "SVC" /\ m.ports \in 0..MultiportLimit
           /\ \A v \in m.vals : \E o \in S : v \in o.vals
<1>1. PICK q \in Seq(S) : m = Multiport(q)
  BY DEF Multis
<1>2. m = [dim |-> "SVC", vals |-> UNION {o.vals : o \in ToSet(q)}, ports |-> PortSum(q), form |-> "ipv4"]
  BY <1>1, MultiportIs
<1>3. ToSet(q) \subseteq S
  BY ToSetIs
<1>4. m.vals = UNION {o.vals : o \in ToSet(q)}
  BY <1>2
<1>5. m.dim = "SVC"
  BY <1>2
<1> QED BY <1>3, <1>4, <1>5 DEF Multis

\* The elements after an append.
LEMMA ToSetAppend ==
    ASSUME NEW S, NEW s \in Seq(S), NEW x \in S
    PROVE  ToSet(Append(s, x)) = ToSet(s) \cup {x} /\ Append(s, x) \in Seq(S)
           /\ Append(s, x) # << >>
<1>1. Append(s, x) = s \o <<x>> /\ <<x>> \in Seq(S)
  OBVIOUS
<1>2. ToSet(<<x>>) = {x}
  BY DEF ToSet
<1>3. ToSet(s \o <<x>>) = ToSet(s) \cup ToSet(<<x>>)
  BY <1>1, ToSetConcat
<1> QED BY <1>1, <1>2, <1>3

Grouped(S, ports, i, s) ==
    /\ s = [done |-> s.done, last |-> s.last, n |-> s.n]
    /\ s.done \in Seq(Multis(S)) /\ s.last \in Seq(S)
    /\ s.n = PortSum(s.last) /\ s.n \in 0..MultiportLimit
    /\ \A v : (\E m \in ToSet(s.done) : v \in m.vals) \/ (\E o \in ToSet(s.last) : v \in o.vals)
                <=> \E j \in 1..i : v \in ports[j].vals

\* One service more, in the last group or in one of its own.
LEMMA GroupStep ==
    ASSUME NEW S, \A o \in S : o.ports \in 0..MultiportLimit, MultiportLimit \in Nat,
           NEW ports \in Seq(S), NEW i \in 0..(Len(ports) - 1), NEW s, Grouped(S, ports, i, s)
    PROVE  Grouped(S, ports, i + 1, Group(s, ports[i + 1]))
<1> DEFINE o == ports[i + 1]
           r == Group(s, o)
<1>1. o \in S /\ i \in Nat /\ \A v : (\E j \in 1..(i + 1) : v \in ports[j].vals)
        <=> (\E j \in 1..i : v \in ports[j].vals) \/ v \in o.vals
  <2>1. o \in S /\ i \in Nat
    OBVIOUS
  <2>2. \A j : j \in 1..(i + 1) <=> j \in 1..i \/ j = i + 1
    BY <2>1
  <2> QED BY <2>1, <2>2
<1>2. o.ports \in 0..MultiportLimit
  BY <1>1
<1>3. s.done \in Seq(Multis(S)) /\ s.last \in Seq(S) /\ s.n = PortSum(s.last)
      /\ s.n \in 0..MultiportLimit
  BY DEF Grouped
<1>s. \A v : (\E m \in ToSet(s.done) : v \in m.vals) \/ (\E q \in ToSet(s.last) : v \in q.vals)
                <=> \E j \in 1..i : v \in ports[j].vals
  BY DEF Grouped
<1> HIDE DEF o
<1>4. CASE s.n + o.ports <= MultiportLimit
  <2>1. r = [done |-> s.done, last |-> Append(s.last, o), n |-> s.n + o.ports]
    <3>1. r = [s EXCEPT !.n = @ + o.ports, !.last = Append(@, o)]
      BY <1>4 DEF Group
    <3> HIDE DEF r
    <3>2. s = [done |-> s.done, last |-> s.last, n |-> s.n]
      BY DEF Grouped
    <3> QED BY <3>1, <3>2
  <2> DEFINE l == Append(s.last, o)
  <2>2. l \in Seq(S) /\ PortSum(l) = s.n + o.ports /\ ToSet(l) = ToSet(s.last) \cup {o}
    BY <1>1, <1>3, PortSumAppend, ToSetAppend
  <2>3. s.n + o.ports \in 0..MultiportLimit
    BY <1>2, <1>3, <1>4
  <2> HIDE DEF r, l
  <2>4. r.done = s.done /\ r.last = l /\ r.n = s.n + o.ports
        /\ r = [done |-> r.done, last |-> r.last, n |-> r.n]
    BY <2>1 DEF l
  <2>5. \A v : (\E m \in ToSet(s.done) : v \in m.vals) \/ (\E q \in ToSet(l) : v \in q.vals)
                <=> \E j \in 1..(i + 1) : v \in ports[j].vals
    BY <1>1, <1>s, <2>2
  <2>6. Grouped(S, ports, i + 1, r)
    BY <1>3, <2>2, <2>3, <2>4, <2>5 DEF Grouped
  <2> QED BY <2>6 DEF r, o
<1>5. CASE ~(s.n + o.ports <= MultiportLimit)
  <2> DEFINE m0 == Multiport(s.last)
             d == Append(s.done, m0)
             l == <<o>>
  <2>1. r = [done |-> d, last |-> l, n |-> o.ports]
    BY <1>5 DEF Group
  <2>2. m0 = [dim |-> "SVC", vals |-> UNION {q.vals : q \in ToSet(s.last)},
              ports |-> PortSum(s.last), form |-> "ipv4"]
    BY MultiportIs
  <2>3. m0 \in Multis(S) /\ m0.vals = UNION {q.vals : q \in ToSet(s.last)}
    <3> HIDE DEF m0
    <3>1. m0.ports = PortSum(s.last) /\ m0.vals = UNION {q.vals : q \in ToSet(s.last)}
      BY <2>2
    <3> QED BY <1>3, <3>1 DEF Multis, m0
  <2>4. d \in Seq(Multis(S)) /\ ToSet(d) = ToSet(s.done) \cup {m0}
    <3> HIDE DEF m0
    <3> QED BY <1>3, <2>3, ToSetAppend
  <2>5. l \in Seq(S) /\ ToSet(l) = {o} /\ PortSum(l) = o.ports
    <3>1. l = Append(<< >>, o) /\ << >> \in Seq(S)
      OBVIOUS
    <3>2. PortSum(Append(<< >>, o)) = 0 + o.ports
      BY <3>1, PortSumAppend, PortSumEmpty
    <3>3. ToSet(l) = {o}
      BY DEF ToSet
    <3>4. l \in Seq(S)
      BY <1>1
    <3> QED BY <1>2, <3>1, <3>2, <3>3, <3>4
  <2> HIDE DEF r, l, d, m0
  <2>6. r.done = d /\ r.last = l /\ r.n = o.ports
        /\ r = [done |-> r.done, last |-> r.last, n |-> r.n]
    BY <2>1
  <2>7. \A v : (\E m \in ToSet(d) : v \in m.vals) \/ (\E q \in ToSet(l) : v \in q.vals)
                <=> \E j \in 1..(i + 1) : v \in ports[j].vals
    <3>1. \A v : (\E m \in ToSet(d) : v \in m.vals)
                <=> (\E m \in ToSet(s.done) : v \in m.vals) \/ v \in m0.vals
      BY <2>4
    <3>2. \A v : v \in m0.vals <=> \E q \in ToSet(s.last) : v \in q.vals
      BY <2>3
    <3> QED BY <1>1, <1>s, <2>5, <3>1, <3>2
  <2>8. Grouped(S, ports, i + 1, r)
    BY <1>2, <2>4, <2>5, <2>6, <2>7 DEF Grouped
  <2> QED BY <2>8 DEF r, o
<1> QED BY <1>4, <1>5

\* Grouping loses no port, adds none, and exceeds no limit.
LEMMA PortGroupsAre ==
    ASSUME NEW S, \A o \in S : o.ports \in 0..MultiportLimit, MultiportLimit \in Nat,
           NEW ports \in Seq(S)
    PROVE  LET r == PortGroups(ports)
           IN /\ r \in Seq(Multis(S)) /\ r # << >>
              /\ \A v : (\E m \in ToSet(r) : v \in m.vals) <=> \E o \in ToSet(ports) : v \in o.vals
<1> DEFINE start == [done |-> << >>, last |-> << >>, n |-> 0]
           end == FoldLeft(Group, start, ports)
           r == Append(end.done, Multiport(end.last))
<1>1. PortGroups(ports) = r
  BY DEF PortGroups
<1>2. end = GroupFolds!Folded(0, start, ports)
  BY DEF GroupFolds!Folded, FoldLeft, MapThenFoldSet,
         GroupOf, GroupFolds!Largest, Max
<1>3. PICK f : GroupFolds!Trace(f, 0, start, ports)
               /\ f[Len(ports)] = GroupFolds!Folded(0, start, ports)
  BY NatWellOrdered, GroupFolds!FoldTrace DEF GroupFolds!WellOrdered
<1> DEFINE T == {i \in 0..Len(ports) : Grouped(S, ports, i, f[i])}
<1>4. 0 \in T
  <2>1. ToSet(<< >>) = {} /\ PortSum(<< >>) = 0 /\ << >> \in Seq(Multis(S)) /\ << >> \in Seq(S)
        /\ 0 \in 0..MultiportLimit
    BY PortSumEmpty DEF ToSet
  <2>2. start.done = << >> /\ start.last = << >> /\ start.n = 0
        /\ start = [done |-> start.done, last |-> start.last, n |-> start.n]
    OBVIOUS
  <2> HIDE DEF start
  <2>3. Grouped(S, ports, 0, start)
    BY <2>1, <2>2 DEF Grouped
  <2>4. f[0] = start
    BY <1>3 DEF GroupFolds!Trace
  <2> QED BY <2>3, <2>4
<1>5. ASSUME NEW i \in 0..(Len(ports) - 1), i \in T PROVE i + 1 \in T
  <2>1. i + 1 \in 0..Len(ports) /\ i + 1 \in 1..Len(ports) /\ (i + 1) - 1 = i
    OBVIOUS
  <2>2. f[i + 1] = Group(f[i], ports[i + 1])
    <3>1. f[i + 1] = GroupOf(0, f[(i + 1) - 1], ports[i + 1])
      BY <1>3, <2>1 DEF GroupFolds!Trace
    <3> QED BY <2>1, <3>1 DEF GroupOf
  <2>3. Grouped(S, ports, i, f[i])
    BY <1>5
  <2>4. Grouped(S, ports, i + 1, f[i + 1])
    BY <2>2, <2>3, GroupStep
  <2> QED BY <2>1, <2>4
<1> HIDE DEF T
<1>6. 0..Len(ports) \subseteq T
  <2>1. Len(ports) \in Nat /\ \A i \in 0..(Len(ports) - 1) : i \in T => i + 1 \in T
    BY <1>5
  <2> QED BY <1>4, <2>1, UpTo
<1>7. Grouped(S, ports, Len(ports), end)
  <2>1. Len(ports) \in T
    BY <1>6
  <2> QED BY <1>2, <1>3, <2>1 DEF T
<1> HIDE DEF end
<1> DEFINE m0 == Multiport(end.last)
<1>8. m0 = [dim |-> "SVC", vals |-> UNION {q.vals : q \in ToSet(end.last)},
            ports |-> PortSum(end.last), form |-> "ipv4"]
  BY MultiportIs
<1>9. end.done \in Seq(Multis(S)) /\ end.last \in Seq(S) /\ end.n = PortSum(end.last)
      /\ end.n \in 0..MultiportLimit
  BY <1>7 DEF Grouped
<1>10. m0 \in Multis(S) /\ m0.vals = UNION {q.vals : q \in ToSet(end.last)}
  <2> HIDE DEF m0
  <2>1. m0.ports = PortSum(end.last) /\ m0.vals = UNION {q.vals : q \in ToSet(end.last)}
    BY <1>8
  <2> QED BY <1>9, <2>1 DEF Multis, m0
<1>11. r \in Seq(Multis(S)) /\ ToSet(r) = ToSet(end.done) \cup {m0} /\ r # << >>
  <2> HIDE DEF m0
  <2>1. Append(end.done, m0) \in Seq(Multis(S)) /\ Append(end.done, m0) # << >>
        /\ ToSet(Append(end.done, m0)) = ToSet(end.done) \cup {m0}
    BY <1>9, <1>10, ToSetAppend
  <2> QED BY <2>1 DEF m0
<1>12. \A v : (\E m \in ToSet(end.done) : v \in m.vals) \/ (\E o \in ToSet(end.last) : v \in o.vals)
              <=> \E j \in 1..Len(ports) : v \in ports[j].vals
  BY <1>7 DEF Grouped
<1>13. \A v : (\E m \in ToSet(r) : v \in m.vals) <=> \E o \in ToSet(ports) : v \in o.vals
  <2> HIDE DEF m0, r
  <2>1. \A v : v \in m0.vals <=> \E q \in ToSet(end.last) : v \in q.vals
    BY <1>10
  <2>2. ToSet(ports) = {ports[j] : j \in 1..Len(ports)}
    BY ToSetIs
  <2> QED BY <1>11, <1>12, <2>1, <2>2
<1> HIDE DEF r
<1> QED BY <1>1, <1>11, <1>13

SwapOf(g, ps, i) == Swap(ps, i)
SwapFolds == INSTANCE FoldLaws WITH Op <- SwapOf

Size(p) == Len(p.items)
Sizes(P) == \A p \in P : Size(p) \in Nat

\* The selection sort selects the shortest of the rest.
LEMMA LeastIs ==
    ASSUME NEW P, Sizes(P), NEW ps \in Seq(P), NEW i \in 1..Len(ps)
    PROVE  /\ Least(ps, i) \in i..Len(ps)
           /\ \A q \in i..Len(ps) : Size(ps[Least(ps, i)]) <= Size(ps[q])
<1> DEFINE N == {Size(ps[q]) : q \in i..Len(ps)}
           J == {j \in i..Len(ps) : \A q \in i..Len(ps) : Size(ps[j]) <= Size(ps[q])}
<1>1. \A q \in i..Len(ps) : q \in 1..Len(ps) /\ ps[q] \in P /\ Size(ps[q]) \in Nat
  BY DEF Sizes
<1>2. PICK n \in N : \A k \in N : n <= k
  <2>1. N \in SUBSET Nat
    BY <1>1
  <2>2. i \in i..Len(ps)
    OBVIOUS
  <2>3. N # {}
    BY <2>2
  <2> HIDE DEF N
  <2> QED BY <2>1, <2>3, LeastNatural
<1>3. PICK j0 \in i..Len(ps) : n = Size(ps[j0])
  BY <1>2
<1>4. j0 \in J
  BY <1>2, <1>3
<1>5. PICK j \in J : \A k \in J : j <= k
  <2>1. J \in SUBSET Nat
    OBVIOUS
  <2> HIDE DEF J
  <2> QED BY <1>4, <2>1, LeastNatural
<1>6. Least(ps, i) = Min(J)
  BY DEF Least, Size
<1>7. Min(J) \in J
  <2> HIDE DEF J
  <2> QED BY <1>5 DEF Min
<1> QED BY <1>6, <1>7

SortedUpTo(ps, i) ==
    \A a \in 1..i : \A b \in a..Len(ps) : Size(ps[a]) <= Size(ps[b])

\* One step of the sort puts one more position in its place.
LEMMA SwapSorts ==
    ASSUME NEW P, Sizes(P), NEW ps \in Seq(P), NEW i \in 1..Len(ps), SortedUpTo(ps, i - 1)
    PROVE  LET r == Swap(ps, i)
           IN /\ r \in Seq(P) /\ Len(r) = Len(ps) /\ ToSet(r) = ToSet(ps)
              /\ SortedUpTo(r, i)
<1> DEFINE l == Least(ps, i)
           r == Swap(ps, i)
<1>1. l \in i..Len(ps) /\ \A q \in i..Len(ps) : Size(ps[l]) <= Size(ps[q])
  BY LeastIs
<1>2. r = [ps EXCEPT ![i] = ps[l], ![l] = ps[i]]
  BY DEF Swap
<1> HIDE DEF l, r
<1>3. l \in 1..Len(ps) /\ i <= l
  BY <1>1
<1>4. r \in Seq(P) /\ Len(r) = Len(ps)
  BY <1>2, <1>3
<1>5. r[l] = ps[i] /\ r[i] = ps[l] /\ \A q \in 1..Len(ps) : q # i /\ q # l => r[q] = ps[q]
  BY <1>2, <1>3
<1>6. ToSet(r) = ToSet(ps)
  <2>1. ToSet(r) = {r[q] : q \in 1..Len(ps)} /\ ToSet(ps) = {ps[q] : q \in 1..Len(ps)}
    BY <1>4, ToSetIs
  <2>2. ASSUME NEW q \in 1..Len(ps) PROVE r[q] \in ToSet(ps) /\ ps[q] \in ToSet(r)
    BY <1>3, <1>5, <2>1
  <2> QED BY <2>1, <2>2
<1>7. ASSUME NEW q \in i..Len(ps) PROVE r[q] \in {ps[k] : k \in i..Len(ps)}
  <2>1. q \in 1..Len(ps) /\ i \in i..Len(ps)
    OBVIOUS
  <2> QED BY <1>1, <1>5, <2>1
<1>8. ASSUME NEW a \in 1..i, NEW b \in a..Len(r) PROVE Size(r[a]) <= Size(r[b])
  <2>0. \A q \in 1..Len(ps) : Size(ps[q]) \in Nat
    BY DEF Sizes
  <2>1. CASE a = i
    <3>1. PICK k \in i..Len(ps) : r[b] = ps[k]
      BY <1>4, <1>7, <1>8, <2>1
    <3> QED BY <1>1, <1>5, <2>1, <3>1
  <2>2. CASE a < i
    <3>1. a \in 1..(i - 1) /\ a # i /\ a # l /\ r[a] = ps[a]
      BY <1>3, <1>5, <1>8, <2>2
    <3>2. \A k \in a..Len(ps) : Size(ps[a]) <= Size(ps[k])
      BY <3>1 DEF SortedUpTo
    <3>3. CASE b \in i..Len(ps)
      <4>1. PICK k \in i..Len(ps) : r[b] = ps[k]
        BY <1>7, <3>3
      <4>2. k \in a..Len(ps)
        BY <2>2, <4>1
      <4> QED BY <3>1, <3>2, <4>1, <4>2
    <3>4. CASE b < i
      <4>1. b \in 1..Len(ps) /\ b # i /\ b # l /\ b \in a..Len(ps)
        BY <1>3, <1>4, <1>8, <3>4
      <4> QED BY <1>5, <3>1, <3>2, <4>1
    <3> QED BY <1>4, <1>8, <3>3, <3>4
  <2> QED BY <1>8, <2>1, <2>2
<1>9. SortedUpTo(r, i)
  BY <1>8 DEF SortedUpTo
<1> QED BY <1>4, <1>6, <1>9 DEF r

\* The sort sorts, and loses no position.
LEMMA BySizeIs ==
    ASSUME NEW P, Sizes(P), NEW ps \in Seq(P)
    PROVE  LET r == BySize(ps)
           IN /\ r \in Seq(P) /\ Len(r) = Len(ps) /\ ToSet(r) = ToSet(ps)
              /\ SortedUpTo(r, Len(r))
<1> DEFINE Sorts(i, r) == r \in Seq(P) /\ Len(r) = Len(ps) /\ ToSet(r) = ToSet(ps)
                          /\ SortedUpTo(r, i)
<1>1. BySize(ps) = SwapFolds!Positioned(0, ps, ps)
  BY DEF SwapFolds!Positioned, FoldLeft, MapThenFoldSet, BySize,
         SwapFolds!Folded, FoldLeftDomain,
         SwapOf, SwapFolds!Largest, Max
<1>2. PICK f : SwapFolds!Trace(f, 0, ps, [i \in DOMAIN ps |-> i])
               /\ f[Len(ps)] = SwapFolds!Positioned(0, ps, ps)
  <2>1. SwapFolds!WellOrdered
    BY NatWellOrdered DEF SwapFolds!WellOrdered
  <2> HIDE DEF Sorts
  <2> QED BY <2>1, SwapFolds!PositionTrace
<1>3. f[0] = ps /\ \A i \in 1..Len(ps) : f[i] = Swap(f[i - 1], i)
  BY <1>2 DEF SwapFolds!Trace, SwapOf
<1> DEFINE T == {i \in 0..Len(ps) : Sorts(i, f[i])}
<1>4. 0 \in T
  BY <1>3 DEF SortedUpTo
<1>5. ASSUME NEW i \in 0..(Len(ps) - 1), i \in T PROVE i + 1 \in T
  <2> DEFINE r == f[i]
  <2>1. i + 1 \in 0..Len(ps) /\ i + 1 \in 1..Len(ps) /\ (i + 1) - 1 = i
    OBVIOUS
  <2>2. f[i + 1] = Swap(r, i + 1)
    BY <1>3, <2>1
  <2>3. r \in Seq(P) /\ Len(r) = Len(ps) /\ ToSet(r) = ToSet(ps) /\ SortedUpTo(r, (i + 1) - 1)
        /\ i + 1 \in 1..Len(r)
    BY <1>5, <2>1
  <2> HIDE DEF r
  <2> DEFINE q == Swap(r, i + 1)
  <2>4. q \in Seq(P) /\ Len(q) = Len(r) /\ ToSet(q) = ToSet(r) /\ SortedUpTo(q, i + 1)
    BY <2>3, SwapSorts
  <2> HIDE DEF q
  <2>5. Sorts(i + 1, q)
    BY <2>3, <2>4
  <2> QED BY <2>1, <2>2, <2>5 DEF q
<1> HIDE DEF T
<1>6. 0..Len(ps) \subseteq T
  <2>1. Len(ps) \in Nat /\ \A i \in 0..(Len(ps) - 1) : i \in T => i + 1 \in T
    BY <1>5
  <2> QED BY <1>4, <2>1, UpTo
<1>7. Sorts(Len(ps), f[Len(ps)])
  <2>1. Len(ps) \in T
    BY <1>6
  <2> QED BY <2>1 DEF T
<1> QED BY <1>1, <1>2, <1>7

IsSingle(p) == Len(p.items) = 1 /\ ~p.neg

\* The conditions of a rule, in the order they are compiled: what takes no
\* chain of its own comes first.
LEMMA OrderedIs ==
    ASSUME NEW P, Sizes(P), \A p \in P : p.neg \in BOOLEAN /\ Size(p) # 0, NEW ps \in Seq(P)
    PROVE  LET r == Ordered(ps)
           IN /\ r \in Seq(P) /\ Len(r) <= 2 * Len(ps) /\ ToSet(r) = ToSet(ps)
              /\ \A i, j \in 1..Len(r) : i < j /\ IsSingle(r[j]) => IsSingle(r[i])
<1> DEFINE b == BySize(ps)
           x == Side(FALSE, b)
           y == Side(TRUE, b)
           r == Ordered(ps)
<1>1. b \in Seq(P) /\ Len(b) = Len(ps) /\ ToSet(b) = ToSet(ps) /\ SortedUpTo(b, Len(b))
  BY BySizeIs
<1> HIDE DEF b
<1>2. KeptOf(b, [i \in 1..Len(b) |-> b[i].neg = FALSE], Len(b), x, P)
  BY <1>1, SideKept
<1>3. KeptOf(b, [i \in 1..Len(b) |-> b[i].neg = TRUE], Len(b), y, P)
  BY <1>1, SideKept
<1>4. r = x \o y
  BY DEF Ordered, b
<1> HIDE DEF x, y, r
<1>5. x \in Seq(P) /\ y \in Seq(P) /\ Len(x) <= Len(ps) /\ Len(y) <= Len(ps)
  BY <1>1, <1>2, <1>3 DEF KeptOf
<1>6. r \in Seq(P) /\ Len(r) = Len(x) + Len(y)
  BY <1>4, <1>5
<1>a. ToSet(b) = {b[j] : j \in 1..Len(b)}
  BY <1>1, ToSetIs
<1>b. \A j \in 1..Len(b) : b[j] \in P /\ b[j].neg \in BOOLEAN
  BY <1>1
<1> DEFINE no == [i \in 1..Len(b) |-> b[i].neg = FALSE]
<1>n. \A j \in 1..Len(b) : no[j] <=> ~b[j].neg
  BY <1>b
<1> HIDE DEF no
<1>m. KeptOf(b, no, Len(b), x, P)
  BY <1>2 DEF no
<1>7. \A p : p \in ToSet(x) <=> \E j \in 1..Len(b) : ~b[j].neg /\ p = b[j]
  BY <1>m, <1>n DEF KeptOf
<1>8. \A p : p \in ToSet(y) <=> \E j \in 1..Len(b) : b[j].neg /\ p = b[j]
  BY <1>3, <1>b DEF KeptOf
<1>9. ToSet(r) = ToSet(ps)
  <2>1. ToSet(r) = ToSet(x) \cup ToSet(y)
    BY <1>4, <1>5, ToSetConcat
  <2> QED BY <1>1, <1>7, <1>8, <1>a, <2>1
<1>10. ASSUME NEW i \in 1..Len(r), NEW j \in 1..Len(r), i < j, IsSingle(r[j])
       PROVE  IsSingle(r[i])
  <2>1. j \in 1..Len(x)
    <3> SUFFICES ASSUME ~(j \in 1..Len(x)) PROVE FALSE
      OBVIOUS
    <3>1. j - Len(x) \in 1..Len(y) /\ r[j] = y[j - Len(x)]
      BY <1>4, <1>5, <1>6
    <3>2. r[j] \in ToSet(y)
      BY <1>5, <3>1, ToSetIs
    <3> QED BY <1>8, <1>10, <3>2 DEF IsSingle
  <2>2. i \in 1..Len(x) /\ r[i] = x[i] /\ r[j] = x[j]
    BY <1>4, <1>5, <1>10, <2>1
  <2>3. PICK k \in 1..Len(b), l \in 1..Len(b) :
          k < l /\ ~b[k].neg /\ ~b[l].neg /\ x[i] = b[k] /\ x[j] = b[l]
    <3>1. PICK k \in 1..Len(b), l \in 1..Len(b) :
            k < l /\ no[k] /\ no[l] /\ x[i] = b[k] /\ x[j] = b[l]
      BY <1>m, <1>10, <2>1, <2>2 DEF KeptOf
    <3> QED BY <3>1, <1>n
  <2>4. l \in k..Len(b) /\ Size(b[k]) <= Size(b[l])
    BY <1>1, <2>3 DEF SortedUpTo
  <2>5. Size(b[k]) \in Nat /\ Size(b[k]) # 0
    BY <1>b DEF Sizes
  <2>6. Size(b[l]) = 1
    BY <1>10, <2>2, <2>3 DEF IsSingle, Size
  <2>7. Size(b[k]) = 1
    BY <2>4, <2>5, <2>6
  <2> QED BY <2>2, <2>3, <2>7 DEF IsSingle, Size
<1>11. Len(r) <= 2 * Len(ps)
  BY <1>1, <1>5, <1>6
<1> QED BY <1>6, <1>9, <1>10, <1>11 DEF r

(***************************************************************************)
(* The conditions of a position.                                           *)
(***************************************************************************)
Objects(rule, d) ==
    {o \in ToSet(rule.pos[d].objs) : d \in {"SRC", "DST"} => o.ip \in {0, rule.ip}}

ConditionOK(d, m) ==
    /\ m.dim = d /\ m.ports \in 0..MultiportLimit
    /\ d = "SVC" => \A v, w \in m.vals : Proto[v] = Proto[w]

\* A list of conditions of a position that takes the values of a set of objects.
Conditions(d, list, objs) ==
    /\ list \in Seq(ToSet(list)) /\ (list = << >> <=> objs = {})
    /\ \A m \in ToSet(list) : ConditionOK(d, m)
    /\ \A v : (\E m \in ToSet(list) : v \in m.vals) <=> \E o \in objs : v \in o.vals

\* Conditions of one object each are the conditions of these objects.
LEMMA OnesAre ==
    ASSUME NEW S, NEW s \in Seq(S), NEW d, MultiportLimit \in Nat,
           d = "SVC" => \A o \in S : \A v, w \in o.vals : Proto[v] = Proto[w]
    PROVE  Conditions(d, [i \in DOMAIN s |-> One(d, s[i])], ToSet(s))
<1> DEFINE r == [i \in DOMAIN s |-> One(d, s[i])]
           C == {One(d, o) : o \in S}
<1>1. DOMAIN r = 1..Len(s) /\ r \in Seq(C) /\ Len(r) = Len(s)
      /\ \A i \in 1..Len(s) : r[i] = [dim |-> d, vals |-> s[i].vals, ports |-> 0, form |-> s[i].form]
  BY DEF One, Condition
<1>2. \A i \in 1..Len(s) : r[i].vals = s[i].vals /\ r[i].dim = d /\ r[i].ports = 0
  <2> HIDE DEF r, C
  <2> QED BY <1>1
<1> HIDE DEF r, C
<1>3. ToSet(r) = {r[i] : i \in 1..Len(s)} /\ ToSet(s) = {s[i] : i \in 1..Len(s)}
      /\ r \in Seq(ToSet(r))
  BY <1>1, ToSetIs
<1>4. r = << >> <=> ToSet(s) = {}
  <2>1. CASE Len(s) = 0
    BY <1>1, <1>3, <2>1
  <2>2. CASE Len(s) # 0
    <3>1. 1 \in 1..Len(s)
      BY <2>2
    <3>2. r # << >> /\ s[1] \in ToSet(s)
      BY <1>1, <1>3, <3>1
    <3> QED BY <3>2
  <2> QED BY <2>1, <2>2
<1>5. \A i \in 1..Len(s) : ConditionOK(d, r[i])
  BY <1>2 DEF ConditionOK
<1>6. ASSUME NEW v
      PROVE  (\E m \in ToSet(r) : v \in m.vals) <=> (\E o \in ToSet(s) : v \in o.vals)
  <2>1. (\E m \in ToSet(r) : v \in m.vals) <=> (\E i \in 1..Len(s) : v \in r[i].vals)
    BY <1>3
  <2>2. (\E o \in ToSet(s) : v \in o.vals) <=> (\E i \in 1..Len(s) : v \in s[i].vals)
    BY <1>3
  <2> QED BY <1>2, <2>1, <2>2
<1> QED BY <1>3, <1>4, <1>5, <1>6 DEF Conditions, r

\* The conditions of some objects and of others are those of all.
LEMMA ConditionsConcat ==
    ASSUME NEW d, NEW r, NEW s, NEW A, NEW B, Conditions(d, r, A), Conditions(d, s, B)
    PROVE  Conditions(d, r \o s, A \cup B)
<1> DEFINE C == ToSet(r) \cup ToSet(s)
<1>1. r \in Seq(C) /\ s \in Seq(C)
  BY DEF Conditions
<1>2. ToSet(r \o s) = C /\ r \o s \in Seq(C)
  BY <1>1, ToSetConcat
<1>3. r \o s = << >> <=> r = << >> /\ s = << >>
  BY <1>1
<1> HIDE DEF C
<1>4. r \o s = << >> <=> A \cup B = {}
  BY <1>3 DEF Conditions
<1>5. \A m \in C : ConditionOK(d, m)
  BY DEF Conditions, C
<1>6. \A v : (\E m \in C : v \in m.vals) <=> \E o \in A \cup B : v \in o.vals
  BY DEF Conditions, C
<1> QED BY <1>2, <1>4, <1>5, <1>6 DEF Conditions

\* Ports grouped for multiport are the conditions of their services.
LEMMA MultiportsAre ==
    ASSUME NEW S, NEW s \in Seq(S), MultiportLimit \in Nat, NEW port,
           \A o \in ToSet(s) : o.ports \in 0..MultiportLimit /\ \A v \in o.vals : Proto[v] = port
    PROVE  Conditions("SVC", PortsLimitControl(s), ToSet(s))
<1> DEFINE r == PortsLimitControl(s)
           T == ToSet(s)
<1>1. s \in Seq(T)
  BY ToSetIs
<1> HIDE DEF T
<1>a. CASE Len(s) < 2
  <2>1. r = [i \in DOMAIN s |-> One("SVC", s[i])]
    BY <1>a DEF PortsLimitControl
  <2>2. \A o \in T : \A v, w \in o.vals : Proto[v] = Proto[w]
    BY DEF T
  <2>3. Conditions("SVC", [i \in DOMAIN s |-> One("SVC", s[i])], T)
    BY <1>1, <2>2, OnesAre DEF T
  <2> QED BY <2>1, <2>3 DEF T
<1>b. SUFFICES ASSUME ~(Len(s) < 2) PROVE Conditions("SVC", r, ToSet(s))
  BY <1>a
<1>2. r \in Seq(Multis(T)) /\ (r = << >> <=> s = << >>)
      /\ \A v : (\E m \in ToSet(r) : v \in m.vals) <=> \E o \in ToSet(s) : v \in o.vals
  <2>1. r = PortGroups(s) /\ s # << >>
    BY <1>b DEF PortsLimitControl
  <2> HIDE DEF r
  <2>2. LET q == PortGroups(s)
        IN /\ q \in Seq(Multis(T)) /\ q # << >>
           /\ \A v : (\E m \in ToSet(q) : v \in m.vals) <=> \E o \in ToSet(s) : v \in o.vals
    BY <1>1, PortGroupsAre DEF T
  <2> QED BY <2>1, <2>2
<1> HIDE DEF r
<1>3. ToSet(r) \subseteq Multis(T) /\ r \in Seq(ToSet(r))
  BY <1>2, ToSetIs
<1>4. ASSUME NEW m \in ToSet(r) PROVE ConditionOK("SVC", m)
  <2>1. m \in Multis(T)
    BY <1>3
  <2>2. m.dim = "SVC" /\ m.ports \in 0..MultiportLimit /\ \A v \in m.vals : \E o \in T : v \in o.vals
    BY <2>1, MultisAre
  <2>3. \A v \in m.vals : Proto[v] = port
    BY <2>2 DEF T
  <2> QED BY <2>2, <2>3 DEF ConditionOK
<1>5. s = << >> <=> ToSet(s) = {}
  <2>1. ToSet(s) = {s[i] : i \in 1..Len(s)}
    BY ToSetIs
  <2> QED BY <2>1
<1> QED BY <1>2, <1>3, <1>4, <1>5 DEF Conditions, r

\* The services of one kind.
LEMMA OfPortIs ==
    ASSUME NEW port, NEW S, NEW s \in Seq(S)
    PROVE  LET r == OfPort(port, s)
           IN r \in Seq(S) /\ ToSet(r) = {o \in ToSet(s) : o.port = port}
<1> DEFINE r == OfPort(port, s)
           yes == [i \in 1..Len(s) |-> s[i].port = port]
<1>1. KeptOf(s, yes, Len(s), r, S)
  BY OfPortKept
<1>2. \A i \in 1..Len(s) : yes[i] <=> s[i].port = port
  OBVIOUS
<1> HIDE DEF r, yes
<1>3. r \in Seq(S) /\ \A x : x \in ToSet(r) <=> \E j \in 1..Len(s) : s[j].port = port /\ x = s[j]
  BY <1>1, <1>2 DEF KeptOf
<1>4. ToSet(s) = {s[j] : j \in 1..Len(s)}
  BY ToSetIs
<1> QED BY <1>3, <1>4 DEF r

\* The objects that the IP version of the rule lets in.
LEMMA SameIpIs ==
    ASSUME NEW ip, NEW S, NEW s \in Seq(S)
    PROVE  LET r == OfIp(ip, s)
           IN r \in Seq(S) /\ ToSet(r) = {o \in ToSet(s) : o.ip \in {0, ip}}
<1> DEFINE r == OfIp(ip, s)
           yes == [i \in 1..Len(s) |-> s[i].ip \in {0, ip}]
<1>1. KeptOf(s, yes, Len(s), r, S)
  BY SameIpKept
<1>2. \A i \in 1..Len(s) : yes[i] <=> s[i].ip \in {0, ip}
  OBVIOUS
<1> HIDE DEF r, yes
<1>3. r \in Seq(S) /\ \A x : x \in ToSet(r) <=> \E j \in 1..Len(s) : s[j].ip \in {0, ip} /\ x = s[j]
  BY <1>1, <1>2 DEF KeptOf
<1>4. ToSet(s) = {s[j] : j \in 1..Len(s)}
  BY ToSetIs
<1> QED BY <1>3, <1>4 DEF r

\* compileSvc makes conditions of all services, whatever their kinds.
LEMMA CompileSvcIs ==
    ASSUME NEW S, NEW objs \in Seq(S), MultiportLimit \in Nat, \A o \in ToSet(objs) : ObjectOK("SVC", o)
    PROVE  Conditions("SVC", CompileSvc(objs), ToSet(objs))
<1> DEFINE Of(port) == OfPort(port, objs)
           a == [i \in DOMAIN Of("") |-> One("SVC", Of("")[i])]
           b == PortsLimitControl(Of("tcp"))
           c == PortsLimitControl(Of("udp"))
           T == ToSet(objs)
<1>1. CompileSvc(objs) = (a \o b) \o c
  BY DEF CompileSvc
<1>2. \A port : Of(port) \in Seq(S) /\ ToSet(Of(port)) = {o \in T : o.port = port}
  BY OfPortIs
<1>3. \A o \in T : /\ o.ports \in 0..MultiportLimit /\ o.port \in {"", "tcp", "udp"}
                   /\ \A v, w \in o.vals : Proto[v] = Proto[w]
                   /\ o.port # "" => \A v \in o.vals : Proto[v] = o.port
  BY DEF ObjectOK
<1> HIDE DEF Of, T
<1>4. Conditions("SVC", a, ToSet(Of("")))
  <2> DEFINE s == Of("")
  <2>1. s \in Seq(S) /\ ToSet(s) = {o \in T : o.port = ""}
    BY <1>2
  <2> HIDE DEF s
  <2>2. s \in Seq(ToSet(s))
    BY <2>1, ToSetIs
  <2>3. \A o \in ToSet(s) : \A v, w \in o.vals : Proto[v] = Proto[w]
    BY <1>3, <2>1
  <2>4. Conditions("SVC", [i \in DOMAIN s |-> One("SVC", s[i])], ToSet(s))
    BY <2>2, <2>3, OnesAre
  <2> QED BY <2>4 DEF s
<1>5. ASSUME NEW port \in {"tcp", "udp"}
      PROVE  Conditions("SVC", PortsLimitControl(Of(port)), ToSet(Of(port)))
  <2> DEFINE s == Of(port)
  <2>1. s \in Seq(S) /\ ToSet(s) = {o \in T : o.port = port}
    BY <1>2
  <2> HIDE DEF s
  <2>3. \A o \in ToSet(s) : o.ports \in 0..MultiportLimit /\ \A v \in o.vals : Proto[v] = port
    BY <1>3, <2>1
  <2>4. Conditions("SVC", PortsLimitControl(s), ToSet(s))
    BY <2>1, <2>3, MultiportsAre
  <2> QED BY <2>4 DEF s
<1>6. Conditions("SVC", b, ToSet(Of("tcp"))) /\ Conditions("SVC", c, ToSet(Of("udp")))
  BY <1>5
<1> HIDE DEF a, b, c
<1>7. Conditions("SVC", (a \o b) \o c, (ToSet(Of("")) \cup ToSet(Of("tcp"))) \cup ToSet(Of("udp")))
  <2>1. Conditions("SVC", a \o b, ToSet(Of("")) \cup ToSet(Of("tcp")))
    BY <1>4, <1>6, ConditionsConcat
  <2> QED BY <1>6, <2>1, ConditionsConcat
<1>8. (ToSet(Of("")) \cup ToSet(Of("tcp"))) \cup ToSet(Of("udp")) = T
  BY <1>2, <1>3
<1> QED BY <1>1, <1>7, <1>8 DEF T

\* The positions of a kind of rules.
LEMMA PositionsAre ==
    ASSUME NEW type \in FilterTypes \cup NatTypes
    PROVE  /\ Positions(type) \in Seq({"IN", "OUT", "SVC", "SRC", "DST"})
           /\ Len(Positions(type)) <= 5
           /\ {"SVC", "SRC"} \subseteq ToSet(Positions(type))
           /\ ToSet(Positions(type)) \subseteq {"IN", "OUT", "SVC", "SRC", "DST"}
           /\ type # "FORWARD" => {"IN", "OUT"} \cap ToSet(Positions(type))
                = IF type \in {"INPUT", "DNAT"} THEN {"IN"} ELSE {"OUT"}
<1>1. CASE type = "FORWARD"
  <2>1. Positions(type) = <<"IN", "OUT", "SVC", "SRC", "DST">>
    BY <1>1 DEF Positions
  <2>2. ToSet(Positions(type)) = {"IN", "OUT", "SVC", "SRC", "DST"}
    BY <2>1 DEF ToSet
  <2>3. Len(Positions(type)) = 5
    BY <2>1
  <2>4. Positions(type) \in Seq({"IN", "OUT", "SVC", "SRC", "DST"})
    BY <2>1
  <2>5. {"SVC", "SRC"} \subseteq ToSet(Positions(type))
        /\ ToSet(Positions(type)) \subseteq {"IN", "OUT", "SVC", "SRC", "DST"}
    BY <2>2
  <2>6. Len(Positions(type)) <= 5
    BY <2>3
  <2> QED BY <1>1, <2>4, <2>5, <2>6, Zenon
<1>2. CASE type \in {"OUTPUT", "SNAT"}
  <2>1. Positions(type) = <<"OUT", "SVC", "SRC", "DST">>
    BY <1>2 DEF Positions
  <2>2. ToSet(Positions(type)) = {"OUT", "SVC", "SRC", "DST"}
    BY <2>1 DEF ToSet
  <2> QED BY <1>2, <2>1, <2>2
<1>3. CASE type \in {"INPUT", "DNAT"}
  <2>1. Positions(type) = <<"IN", "SVC", "SRC", "DST">>
    BY <1>3 DEF Positions
  <2>2. ToSet(Positions(type)) = {"IN", "SVC", "SRC", "DST"}
    BY <2>1 DEF ToSet
  <2> QED BY <1>3, <2>1, <2>2
<1> QED BY <1>1, <1>2, <1>3 DEF FilterTypes, NatTypes

\* What a position is compiled to is met by the packets its objects let in.
LEMMA ItemsAre ==
    ASSUME NEW rule, RuleOK(rule), MultiportLimit \in Nat, NEW d \in ToSet(Positions(rule.type))
    PROVE  Conditions(d, Items(rule, d), Objects(rule, d))
<1> DEFINE objs == rule.pos[d].objs
<1>1. objs \in Seq(ToSet(objs)) /\ \A o \in ToSet(objs) : ObjectOK(d, o)
  BY DEF RuleOK
<1>2. d \in {"IN", "OUT", "SVC", "SRC", "DST"}
  BY PositionsAre DEF RuleOK
<1> HIDE DEF objs
<1>3. CASE d = "SVC"
  <2>1. Items(rule, d) = CompileSvc(objs) /\ Objects(rule, d) = ToSet(objs)
    BY <1>3 DEF Items, Objects, objs
  <2> QED BY <1>1, <1>3, <2>1, CompileSvcIs
<1>4. CASE d \in {"IN", "OUT"}
  <2>1. Items(rule, d) = [i \in DOMAIN objs |-> One(d, objs[i])] /\ Objects(rule, d) = ToSet(objs)
    BY <1>4 DEF Items, Objects, objs, CompileInterface
  <2> QED BY <1>1, <1>4, <2>1, OnesAre
<1>5. CASE d \in {"SRC", "DST"}
  <2> DEFINE s == OfIp(rule.ip, objs)
  <2>1. s \in Seq(ToSet(objs)) /\ ToSet(s) = {o \in ToSet(objs) : o.ip \in {0, rule.ip}}
    BY <1>1, SameIpIs
  <2>2. Items(rule, d) = [i \in DOMAIN s |-> One(d, s[i])]
    BY <1>5 DEF Items, objs, CompileSrcDst
  <2>3. Objects(rule, d) = {o \in ToSet(objs) : o.ip \in {0, rule.ip}}
    BY <1>5 DEF Objects, objs
  <2> HIDE DEF s
  <2> QED BY <1>5, <2>1, <2>2, <2>3, OnesAre
<1> QED BY <1>2, <1>3, <1>4, <1>5

\* A compiled position.
PositionOf(rule, d) == [neg |-> rule.pos[d].neg, items |-> Items(rule, d)]
Used(rule) == {d \in ToSet(Positions(rule.type)) : Items(rule, d) # << >>}

\* compileRulePositions loses no position that has conditions.
LEMMA RulePositionsAre ==
    ASSUME NEW rule, RuleOK(rule), MultiportLimit \in Nat
    PROVE  LET ps == CompileRulePositions(rule)
           IN /\ ToSet(ps) = {PositionOf(rule, d) : d \in Used(rule)}
              /\ ps \in Seq(ToSet(ps)) /\ Len(ps) <= 10
              /\ \A i, j \in 1..Len(ps) : i < j /\ IsSingle(ps[j]) => IsSingle(ps[i])
<1> DEFINE dims == Positions(rule.type)
           all == [i \in DOMAIN dims |-> [neg |-> rule.pos[dims[i]].neg,
                                          items |-> Items(rule, dims[i])]]
           kept == FoldLeft(NotEmpty, << >>, all)
           ps == CompileRulePositions(rule)
           P == {PositionOf(rule, d) : d \in Used(rule)}
           A == {PositionOf(rule, d) : d \in ToSet(dims)}
           yes == [i \in 1..Len(all) |-> all[i].items # << >>]
<1>1. ps = Ordered(kept)
  BY DEF CompileRulePositions
<1>2. dims \in Seq({"IN", "OUT", "SVC", "SRC", "DST"}) /\ Len(dims) <= 5
  BY PositionsAre DEF RuleOK
<1>d. ToSet(dims) = {dims[i] : i \in 1..Len(dims)} /\ dims \in Seq(ToSet(dims))
  BY <1>2, ToSetIs
<1>3. all \in Seq(A) /\ Len(all) = Len(dims) /\ DOMAIN dims = 1..Len(dims)
      /\ \A i \in 1..Len(dims) : all[i] = PositionOf(rule, dims[i])
  <2> HIDE DEF dims
  <2>0. DOMAIN dims = 1..Len(dims)
    BY <1>2
  <2>1. \A i \in 1..Len(dims) : all[i] = PositionOf(rule, dims[i]) /\ all[i] \in A
    BY <1>d, <2>0 DEF PositionOf
  <2>2. DOMAIN all = 1..Len(dims) /\ Len(dims) \in Nat
    BY <2>0, <1>2
  <2> HIDE DEF A, all
  <2>3. all = [i \in 1..Len(dims) |-> all[i]]
    BY <2>0 DEF all
  <2> QED BY <2>0, <2>1, <2>2, <2>3
<1> HIDE DEF all, dims
<1>4. KeptOf(all, yes, Len(all), kept, A)
  BY <1>3, NotEmptyKept
<1>5. \A i \in 1..Len(dims) : yes[i] <=> Items(rule, dims[i]) # << >>
  <2>0. \A d : PositionOf(rule, d).items = Items(rule, d)
    BY DEF PositionOf
  <2>1. \A i \in 1..Len(dims) : all[i].items = Items(rule, dims[i])
    BY <1>3, <2>0
  <2> QED BY <1>3, <2>1
<1> HIDE DEF yes, kept, A
<1>6. ToSet(kept) = P
  <2>1. \A x : x \in ToSet(kept) <=> \E j \in 1..Len(all) : yes[j] /\ x = all[j]
    BY <1>4 DEF KeptOf
  <2>2. \A x : x \in ToSet(kept) <=>
          \E j \in 1..Len(dims) : Items(rule, dims[j]) # << >> /\ x = PositionOf(rule, dims[j])
    BY <1>3, <1>5, <2>1
  <2>3. Used(rule) = {d \in ToSet(dims) : Items(rule, d) # << >>}
    BY DEF Used, dims
  <2> QED BY <1>d, <2>2, <2>3
<1>7. kept \in Seq(P) /\ Len(kept) <= 5
  <2>1. kept \in Seq(A) /\ Len(kept) <= Len(all)
    BY <1>4 DEF KeptOf
  <2>2. kept \in Seq(ToSet(kept))
    BY <2>1, ToSetIs
  <2> QED BY <1>2, <1>3, <1>6, <2>1, <2>2
<1>8. Sizes(P) /\ \A p \in P : p.neg \in BOOLEAN /\ Size(p) # 0
  <2>1. ASSUME NEW d \in Used(rule)
        PROVE  /\ Size(PositionOf(rule, d)) \in Nat /\ Size(PositionOf(rule, d)) # 0
               /\ PositionOf(rule, d).neg \in BOOLEAN
    <3>1. d \in ToSet(Positions(rule.type)) /\ Items(rule, d) # << >>
      BY DEF Used
    <3>2. Items(rule, d) \in Seq(ToSet(Items(rule, d)))
      BY <3>1, ItemsAre DEF Conditions
    <3>3. rule.pos[d].neg \in BOOLEAN
      BY <3>1 DEF RuleOK
    <3>4. PositionOf(rule, d).items = Items(rule, d) /\ PositionOf(rule, d).neg = rule.pos[d].neg
      BY DEF PositionOf
    <3>5. Len(Items(rule, d)) \in Nat /\ Len(Items(rule, d)) # 0
      BY <3>1, <3>2
    <3> QED BY <3>3, <3>4, <3>5 DEF Size
  <2> QED BY <2>1 DEF Sizes
<1> HIDE DEF P
<1>9. ps \in Seq(P) /\ Len(ps) <= 2 * Len(kept) /\ ToSet(ps) = ToSet(kept)
      /\ \A i, j \in 1..Len(ps) : i < j /\ IsSingle(ps[j]) => IsSingle(ps[i])
  BY <1>1, <1>7, <1>8, OrderedIs
<1> HIDE DEF ps
<1>10. Len(ps) <= 10 /\ ps \in Seq(ToSet(ps))
  BY <1>6, <1>7, <1>9
<1> QED BY <1>6, <1>9, <1>10 DEF P, ps

(***************************************************************************)
(* Loading a script: what a list of commands does is what the chain it has *)
(* been loaded into does.                                                  *)
(***************************************************************************)
\* The chains of a table there are once a list of commands has been run.
Known(t, K, s) ==
    K \cup {l.chain : l \in {m \in ToSet(s) : m.table = t /\ m.to = Create}}

\* A command that the firewall takes, when K are the chains there are; or
\* refuses for its protocols only.
Ready(t, K, l) ==
    l.table = t =>
      IF l.to = Create THEN l.chain \notin K
      ELSE /\ l.chain \in K
           /\ l.to.kind \in Final \cup Silent \/ l.to \in K
           /\ \A m \in l.match : m.ports <= MultiportLimit
           /\ l.chain = Name("PREROUTING", 0) => \A m \in l.match : m.dim # "OUT"

Sound(t, K, s) == \A i \in 1..Len(s) : Ready(t, Known(t, K, SubSeq(s, 1, i - 1)), s[i])

\* Commands that iptables refuses, which must not be for packets as p.
Clashing(l) == compiler = "IPTables" /\ TwoProtocols(l)

View(t, c, p, e) == [table |-> t, chain |-> c, p |-> p, e |-> e]

\* The fields of a view.
LEMMA ViewIs ==
    ASSUME NEW t, NEW c, NEW p, NEW e \in [Targets -> Results]
    PROVE  LET g == View(t, c, p, e)
           IN Reaction(g) /\ g.table = t /\ g.chain = c /\ g.p = p /\ g.e = e
BY DEF View, Reaction

AFunction(k) == k = [tc \in DOMAIN k |-> k[tc]]
\* The same chains in a table, with the same rules.
SameIn(t, k, h) ==
    /\ AFunction(h)
    /\ \A c : <<t, c>> \in DOMAIN h <=> <<t, c>> \in DOMAIN k
    /\ \A c : <<t, c>> \in DOMAIN k => h[<<t, c>>] = k[<<t, c>>]

\* The filter k holds in table t what the commands q do.
Holds(t, S, p, e, k, q, K) ==
    /\ AFunction(k)
    /\ K \subseteq Targets /\ \A c : <<t, c>> \in DOMAIN k <=> c \in K
    /\ \A c \in K : /\ k[<<t, c>>] \in Seq(S)
                    /\ \A i \in 1..Len(k[<<t, c>>]) :
                         LET l == k[<<t, c>>][i]
                         IN l.to # Create /\ (l.to.kind \in Final \cup Silent \/ l.to \in K)
                              /\ l.chain = c /\ l.table = t
                    /\ Flow(View(t, c, p, e), k[<<t, c>>]) = Flow(View(t, c, p, e), q)
    /\ \A c \in Targets \ K : Flow(View(t, c, p, e), q) = Nothing

\* The chains known after two lists of commands.
LEMMA KnownConcat ==
    ASSUME NEW t, NEW K, NEW S, NEW s \in Seq(S), NEW r \in Seq(S)
    PROVE  Known(t, K, s \o r) = Known(t, Known(t, K, s), r)
<1>1. ToSet(s \o r) = ToSet(s) \cup ToSet(r)
  BY ToSetConcat
<1> QED BY <1>1 DEF Known

\* A list is sound that goes on soundly.
LEMMA SoundConcat ==
    ASSUME NEW t, NEW K, NEW S, NEW s \in Seq(S), NEW r \in Seq(S),
           Sound(t, K, s), Sound(t, Known(t, K, s), r)
    PROVE  Sound(t, K, s \o r)
<1> SUFFICES ASSUME NEW i \in 1..Len(s \o r)
             PROVE  Ready(t, Known(t, K, SubSeq(s \o r, 1, i - 1)), (s \o r)[i])
  BY DEF Sound
<1>1. CASE i <= Len(s)
  <2>1. SubSeq(s \o r, 1, i - 1) = SubSeq(s, 1, i - 1) /\ (s \o r)[i] = s[i] /\ i \in 1..Len(s)
    BY <1>1
  <2> QED BY <2>1 DEF Sound
<1>2. CASE i > Len(s)
  <2> DEFINE j == i - Len(s)
             q == SubSeq(r, 1, j - 1)
  <2>1. SubSeq(s \o r, 1, i - 1) = s \o q /\ (s \o r)[i] = r[j] /\ j \in 1..Len(r) /\ q \in Seq(S)
    BY <1>2
  <2>2. Ready(t, Known(t, Known(t, K, s), q), r[j])
    BY <2>1 DEF Sound
  <2> HIDE DEF j, q
  <2>3. Known(t, K, s \o q) = Known(t, Known(t, K, s), q)
    BY <2>1, KnownConcat
  <2> QED BY <2>1, <2>2, <2>3
<1> QED BY <1>1, <1>2

\* A command for another table.
LEMMA CommandElsewhere ==
    ASSUME NEW t, NEW k, NEW l, l.table # t, AFunction(k),
           NEW h, h = Command(k, l)
    PROVE  SameIn(t, k, h)
<1> DEFINE here == <<l.table, l.chain>>
<1>1. \A c : <<t, c>> # here
  OBVIOUS
<1>2. CASE Fails(k, l)
  BY <1>2 DEF Command, SameIn
<1>3. CASE ~Fails(k, l) /\ l.to = Create
  <2>1. h = [tc \in DOMAIN k \cup {here} |-> IF tc \in DOMAIN k THEN k[tc] ELSE << >>]
    BY <1>3 DEF Command
  <2> HIDE DEF here
  <2>2. DOMAIN h = DOMAIN k \cup {here} /\ \A tc \in DOMAIN k : h[tc] = k[tc]
    BY <2>1
  <2>3. AFunction(h)
    BY <2>1 DEF AFunction
  <2> QED BY <1>1, <2>2, <2>3 DEF SameIn
<1>4. CASE ~Fails(k, l) /\ l.to # Create
  <2>1. h = [k EXCEPT ![here] = Append(@, l)]
    BY <1>4 DEF Command
  <2> HIDE DEF here
  <2>2. DOMAIN h = DOMAIN k /\ \A tc \in DOMAIN k : tc # here => h[tc] = k[tc]
    BY <2>1
  <2>3. AFunction(h)
    BY <2>1 DEF AFunction
  <2> QED BY <1>1, <2>2, <2>3 DEF SameIn
<1> QED BY <1>2, <1>3, <1>4

\* Commands for other tables change nothing of this one.
LEMMA HoldsElsewhere ==
    ASSUME NEW t, NEW C, NEW S \in SUBSET Lines(C), NEW p, NEW e \in [Targets -> Results],
           NEW k, NEW h, NEW K, NEW q \in Seq(S), NEW r \in Seq(S),
           \A i \in 1..Len(r) : r[i].table # t,
           Holds(t, S, p, e, k, q, K),
           SameIn(t, k, h)
    PROVE  Holds(t, S, p, e, h, q \o r, Known(t, K, r))
<1>1. Known(t, K, r) = K
  <2>1. ToSet(r) = {r[i] : i \in 1..Len(r)}
    BY ToSetIs
  <2> QED BY <2>1 DEF Known
<1>2. ASSUME NEW c \in Targets
      PROVE  Flow(View(t, c, p, e), q \o r) = Flow(View(t, c, p, e), q)
  <2> DEFINE g == View(t, c, p, e)
  <2>1. Reaction(g) /\ g.table = t
    BY ViewIs
  <2> HIDE DEF g
  <2>2. q \in Seq(Lines(C)) /\ r \in Seq(Lines(C))
    OBVIOUS
  <2>3. \A i \in 1..Len(r) : Part(g, r[i]) = Nothing
    BY <2>1 DEF Part
  <2>6. Flow(g, r) = Nothing
    BY <2>1, <2>2, <2>3, FlowElsewhere
  <2>4. Flow(g, q \o r) = Then(Flow(g, q), Nothing)
    BY <2>1, <2>2, <2>6, FlowConcat
  <2>5. Flow(g, q \o r) = Flow(g, q)
    BY <2>1, <2>2, <2>4, FlowType, ThenNothing
  <2> QED BY <2>5 DEF g
<1>3. K \subseteq Targets /\ \A c : <<t, c>> \in DOMAIN k <=> c \in K
  BY DEF Holds
<1>4. \A c \in K : h[<<t, c>>] = k[<<t, c>>]
  BY <1>3 DEF SameIn
<1>5. \A c \in Targets \ K : Flow(View(t, c, p, e), q \o r) = Nothing
  BY <1>2 DEF Holds
<1>6. ASSUME NEW c \in K
      PROVE  /\ k[<<t, c>>] \in Seq(S)
             /\ \A i \in 1..Len(k[<<t, c>>]) :
                  LET m == k[<<t, c>>][i]
                  IN m.to # Create /\ (m.to.kind \in Final \cup Silent \/ m.to \in K)
                       /\ m.chain = c /\ m.table = t
             /\ Flow(View(t, c, p, e), k[<<t, c>>]) = Flow(View(t, c, p, e), q \o r)
  BY <1>2, <1>3 DEF Holds
<1>7. \A c : <<t, c>> \in DOMAIN h <=> c \in K
  BY <1>3 DEF SameIn
<1> QED BY <1>1, <1>3, <1>4, <1>5, <1>6, <1>7 DEF Holds, SameIn

\* One command that is ready keeps what has been loaded what it should be.
LEMMA CommandHolds ==
    ASSUME NEW t, NEW C, NEW S \in SUBSET Lines(C), NEW p, NEW e \in [Targets -> Results],
           NEW k, NEW K, NEW q \in Seq(S), NEW l \in S, Holds(t, S, p, e, k, q, K),
           Ready(t, K, l), l.table = t /\ Refused(l) => ~Hit(l, p)
    PROVE  Holds(t, S, p, e, Command(k, l), Append(q, l), Known(t, K, <<l>>))
<1> DEFINE h == Command(k, l)
           r == Append(q, l)
<1>0. CASE l.table # t
  <2>1. AFunction(k)
    BY DEF Holds
  <2>2. SameIn(t, k, h)
    <3>1. h = Command(k, l)
      OBVIOUS
    <3> HIDE DEF h
    <3> QED BY <1>0, <2>1, <3>1, CommandElsewhere
  <2> HIDE DEF h
  <2>3. Holds(t, S, p, e, h, Append(q, l), Known(t, K, <<l>>))
    <3> DEFINE r1 == <<l>>
    <3>1. r1 \in Seq(S) /\ (\A i \in 1..Len(r1) : r1[i].table # t) /\ Append(q, l) = q \o r1
      BY <1>0
    <3> HIDE DEF r1
    <3>2. Holds(t, S, p, e, h, q \o r1, Known(t, K, r1))
      BY <2>2, <3>1, HoldsElsewhere
    <3> QED BY <3>1, <3>2 DEF r1
  <2> QED BY <2>3 DEF h
<1>1. SUFFICES ASSUME l.table = t PROVE Holds(t, S, p, e, h, r, Known(t, K, <<l>>))
  BY <1>0
<1>2. q \in Seq(Lines(C)) /\ l \in Lines(C) /\ r = Append(q, l) /\ l.chain \in Targets
  <2>1. l \in Lines(C)
    OBVIOUS
  <2>2. l.chain \in Targets
    BY <2>1 DEF Lines
  <2> QED BY <2>1, <2>2
<1> HIDE DEF h, r
<1>3. AFunction(k) /\ K \subseteq Targets
      /\ \A c : <<t, c>> \in DOMAIN k <=> c \in K
  BY DEF Holds
<1>4. \A c \in Targets \ K : Flow(View(t, c, p, e), q) = Nothing
  BY DEF Holds
<1> DEFINE SameRules(f, c, Q) ==
             /\ f[<<t, c>>] \in Seq(S)
             /\ \A i \in 1..Len(f[<<t, c>>]) :
                  LET m == f[<<t, c>>][i]
                  IN m.to # Create /\ (m.to.kind \in Final \cup Silent \/ m.to \in Q)
                       /\ m.chain = c /\ m.table = t
<1>5. \A c \in K : SameRules(k, c, K) /\ Flow(View(t, c, p, e), k[<<t, c>>]) = Flow(View(t, c, p, e), q)
  BY DEF Holds
<1>6. ASSUME NEW c \in Targets
      PROVE  LET g == View(t, c, p, e)
             IN /\ Reaction(g) /\ Flow(g, q) \in Results
                /\ Flow(g, r) = Then(Flow(g, q), Part(g, l)) /\ Part(g, l) \in Results
                /\ l.to = Create \/ l.chain # c => Flow(g, r) = Flow(g, q)
  <2> DEFINE g == View(t, c, p, e)
  <2>1. Reaction(g) /\ g.chain = c
    BY ViewIs
  <2> HIDE DEF g
  <2>2. Flow(g, q) \in Results /\ Flow(g, r) = Then(Flow(g, q), Part(g, l)) /\ Part(g, l) \in Results
    BY <1>2, <2>1, FlowType, FlowAppend, PartType
  <2>3. l.to = Create \/ l.chain # c => Part(g, l) = Nothing
    BY <2>1 DEF Part
  <2> QED BY <2>1, <2>2, <2>3, ThenNothing DEF g
<1>7. CASE l.to = Create
  <2> DEFINE n == l.chain
             Q == K \cup {n}
  <2>1. Known(t, K, <<l>>) = Q
    BY <1>1, <1>7 DEF Known, ToSet
  <2>2. n \notin K /\ n \in Targets /\ <<t, n>> \notin DOMAIN k
    BY <1>1, <1>2, <1>3, <1>7 DEF Ready
  <2>3. h = [tc \in DOMAIN k \cup {<<t, n>>} |-> IF tc \in DOMAIN k THEN k[tc] ELSE << >>]
    BY <1>1, <1>7, <2>2 DEF Command, Fails, h
  <2> HIDE DEF n
  <2>4. DOMAIN h = DOMAIN k \cup {<<t, n>>} /\ h[<<t, n>>] = << >>
        /\ \A tc \in DOMAIN k : h[tc] = k[tc]
    BY <2>2, <2>3
  <2>5. AFunction(h)
    BY <2>3 DEF AFunction
  <2>6. \A c : <<t, c>> \in DOMAIN h <=> c \in Q
    BY <1>3, <2>4
  <2>7. ASSUME NEW c \in K
        PROVE  SameRules(h, c, Q) /\ Flow(View(t, c, p, e), h[<<t, c>>]) = Flow(View(t, c, p, e), r)
    <3>1. h[<<t, c>>] = k[<<t, c>>]
      BY <1>3, <2>4
    <3> QED BY <1>3, <1>5, <1>6, <1>7, <3>1
  <2>8. SameRules(h, n, Q) /\ Flow(View(t, n, p, e), h[<<t, n>>]) = Flow(View(t, n, p, e), r)
    <3>1. h[<<t, n>>] = << >> /\ Len(<< >>) = 0
      BY <2>4
    <3>2. Flow(View(t, n, p, e), << >>) = Nothing
      BY FlowEmpty
    <3> QED BY <1>4, <1>6, <1>7, <2>2, <3>1, <3>2
  <2>9. \A c \in Targets \ Q : Flow(View(t, c, p, e), r) = Nothing
    BY <1>4, <1>6, <1>7
  <2>10. Q \subseteq Targets
    BY <1>3, <2>2
  <2> HIDE DEF Q
  <2>11. \A c \in Q : SameRules(h, c, Q) /\ Flow(View(t, c, p, e), h[<<t, c>>]) = Flow(View(t, c, p, e), r)
    BY <2>7, <2>8 DEF Q
  <2> QED BY <2>1, <2>5, <2>6, <2>9, <2>10, <2>11 DEF Holds
<1>8. CASE l.to # Create
  <2> DEFINE n == l.chain
  <2>1. Known(t, K, <<l>>) = K
    BY <1>8 DEF Known, ToSet
  <2>2. n \in K /\ <<t, n>> \in DOMAIN k /\ n \in Targets
        /\ (l.to.kind \in Final \cup Silent \/ l.to \in K)
    BY <1>1, <1>2, <1>3, <1>8 DEF Ready
  <2>3. \A c \in Targets \ K : Flow(View(t, c, p, e), r) = Nothing
    BY <1>4, <1>6, <2>2
  <2>4. CASE Refused(l)
    <3>1. h = k
      BY <1>8, <2>4 DEF Command, Fails, Accepted, h
    <3>2. \A c \in Targets : Part(View(t, c, p, e), l) = Nothing
      BY <1>1, <2>4, ViewIs DEF Part
    <3>3. \A c \in Targets : Flow(View(t, c, p, e), r) = Flow(View(t, c, p, e), q)
      BY <1>6, <3>2, ThenNothing
    <3>4. \A c \in K : SameRules(h, c, K)
                       /\ Flow(View(t, c, p, e), h[<<t, c>>]) = Flow(View(t, c, p, e), r)
      BY <1>3, <1>5, <3>1, <3>3
    <3> QED BY <1>3, <2>1, <2>3, <3>1, <3>4 DEF Holds
  <2>5. CASE ~Refused(l)
    <3>1. Accepted(k, l)
      <4>1. l.to.kind \in Final \cup Silent \/ <<t, l.to>> \in DOMAIN k
        <5>1. l.to \in Targets
          BY DEF Lines
        <5> QED BY <1>3, <2>2, <5>1
      <4> QED BY <1>1, <1>8, <2>2, <2>5, <4>1 DEF Accepted, Ready
    <3>2. h = [k EXCEPT ![<<t, n>>] = Append(@, l)]
      BY <1>1, <1>8, <3>1 DEF Command, Fails, h
    <3> HIDE DEF n
    <3>3. DOMAIN h = DOMAIN k /\ h[<<t, n>>] = Append(k[<<t, n>>], l)
          /\ \A tc \in DOMAIN k : tc # <<t, n>> => h[tc] = k[tc]
      BY <2>2, <3>2
    <3>4. AFunction(h)
      BY <3>2 DEF AFunction
    <3>5. ASSUME NEW c \in K, c # n
          PROVE  SameRules(h, c, K) /\ Flow(View(t, c, p, e), h[<<t, c>>]) = Flow(View(t, c, p, e), r)
      <4>1. h[<<t, c>>] = k[<<t, c>>]
        BY <1>3, <3>3, <3>5
      <4> QED BY <1>3, <1>5, <1>6, <3>5, <4>1 DEF n
    <3>6. SameRules(h, n, K) /\ Flow(View(t, n, p, e), h[<<t, n>>]) = Flow(View(t, n, p, e), r)
      <4> DEFINE s == k[<<t, n>>]
                 u == Append(s, l)
                 g == View(t, n, p, e)
      <4>1. s \in Seq(S) /\ Flow(g, s) = Flow(g, q)
            /\ \A i \in 1..Len(s) :
                 s[i].to # Create /\ (s[i].to.kind \in Final \cup Silent \/ s[i].to \in K)
                   /\ s[i].chain = n /\ s[i].table = t
        BY <1>5, <2>2
      <4>2. h[<<t, n>>] = u
        BY <3>3
      <4> HIDE DEF s, g
      <4>3. u \in Seq(S) /\ Len(u) = Len(s) + 1 /\ u[Len(s) + 1] = l
            /\ \A i \in 1..Len(s) : u[i] = s[i]
        BY <4>1
      <4>4. ASSUME NEW i \in 1..Len(u)
            PROVE  u[i].to # Create /\ (u[i].to.kind \in Final \cup Silent \/ u[i].to \in K)
                     /\ u[i].chain = n /\ u[i].table = t
        <5>1. CASE i = Len(s) + 1
          BY <1>1, <1>8, <2>2, <4>3, <5>1 DEF n
        <5>2. CASE i # Len(s) + 1
          <6>1. i \in 1..Len(s) /\ u[i] = s[i]
            BY <4>1, <4>3, <5>2
          <6> QED BY <4>1, <6>1
        <5> QED BY <5>1, <5>2
      <4>5. Flow(g, u) = Then(Flow(g, s), Part(g, l))
        <5>1. s \in Seq(Lines(C))
          BY <4>1
        <5> QED BY <5>1, FlowAppend
      <4>6. Flow(g, r) = Then(Flow(g, q), Part(g, l))
        BY <1>6, <2>2 DEF g
      <4> HIDE DEF u
      <4> QED BY <4>1, <4>2, <4>3, <4>4, <4>5, <4>6 DEF g
    <3>7. \A c \in K : SameRules(h, c, K)
                       /\ Flow(View(t, c, p, e), h[<<t, c>>]) = Flow(View(t, c, p, e), r)
      BY <3>5, <3>6
    <3> QED BY <1>3, <2>1, <2>3, <3>3, <3>4, <3>7 DEF Holds
  <2> QED BY <2>4, <2>5
<1> QED BY <1>7, <1>8

CommandOf(g, k, l) == Command(k, l)
CommandFolds == INSTANCE FoldLaws WITH Op <- CommandOf
TryOf(g, s, l) == Try(s, l)
TryFolds == INSTANCE FoldLaws WITH Op <- TryOf
RestoreOf(g, k, b) == Restore(k, b)
RestoreFolds == INSTANCE FoldLaws WITH Op <- RestoreOf
BufferOf(g, bs, l) == Buffer(bs, l)
BufferFolds == INSTANCE FoldLaws WITH Op <- BufferOf

\* An append as a concatenation.
LEMMA AppendIs ==
    ASSUME NEW S, NEW s \in Seq(S), NEW x \in S
    PROVE  /\ Append(s, x) \in Seq(S) /\ Append(s, x) = s \o <<x>> /\ Append(s, x) # << >>
           /\ <<x>> \in Seq(S)
OBVIOUS

\* The chains that are there from the start.
LEMMA HooksAre == Hooks \subseteq Targets /\ Create \in Targets /\ \A c \in Hooks : c.id = 0 /\ c.n = 0
<1>1. \A x \in {"PREROUTING", "INPUT", "FORWARD", "OUTPUT", "POSTROUTING", "create"} :
         Name(x, 0) = [kind |-> x, id |-> 0, n |-> 0]
  BY DEF Name
<1>2. \A x \in {"PREROUTING", "INPUT", "FORWARD", "OUTPUT", "POSTROUTING", "create"} :
         Name(x, 0) \in Targets /\ Name(x, 0).id = 0 /\ Name(x, 0).n = 0
  BY <1>1 DEF Targets, Kinds
<1> QED BY <1>2 DEF Hooks, Create

\* Nothing has been loaded at first.
LEMMA EmptyHolds ==
    ASSUME NEW t \in Tables, NEW S, NEW p, NEW e
    PROVE  Holds(t, S, p, e, Empty, << >>, Hooks)
<1> DEFINE k == Empty
<1>1. DOMAIN k = Tables \X Hooks /\ AFunction(k) /\ \A tc \in Tables \X Hooks : k[tc] = << >>
  BY DEF Empty, Tables, AFunction
<1> HIDE DEF k
<1>2. \A c : <<t, c>> \in DOMAIN k <=> c \in Hooks
  BY <1>1
<1>3. \A c \in Hooks : k[<<t, c>>] = << >>
  BY <1>1
<1>4. \A c : Flow(View(t, c, p, e), << >>) = Nothing
  BY FlowEmpty
<1>5. << >> \in Seq(S) /\ Len(<< >>) = 0
  OBVIOUS
<1>6. Holds(t, S, p, e, k, << >>, Hooks)
  <2>1. Hooks \subseteq Targets /\ \A c : <<t, c>> \in DOMAIN k <=> c \in Hooks
    BY <1>2, HooksAre
  <2>2. ASSUME NEW c \in Hooks
        PROVE  /\ k[<<t, c>>] \in Seq(S)
               /\ \A i \in 1..Len(k[<<t, c>>]) :
                    LET l == k[<<t, c>>][i]
                    IN l.to # Create /\ (l.to.kind \in Final \cup Silent \/ l.to \in Hooks)
                         /\ l.chain = c /\ l.table = t
               /\ Flow(View(t, c, p, e), k[<<t, c>>]) = Flow(View(t, c, p, e), << >>)
    <3> DEFINE b == k[<<t, c>>]
    <3>1. b = << >>
      BY <1>3
    <3> HIDE DEF b
    <3>2. b \in Seq(S) /\ Len(b) = 0
      BY <1>5, <3>1
    <3>3. \A i \in 1..Len(b) : FALSE
      BY <3>2
    <3> QED BY <3>1, <3>2, <3>3, Zenon DEF b
  <2> QED BY <1>1, <1>4, <2>1, <2>2 DEF Holds
<1> QED BY <1>6 DEF k

\* A command that is ready, and that iptables does not refuse, is taken.
LEMMA NotFailing ==
    ASSUME NEW t, NEW C, NEW S \in SUBSET Lines(C), NEW p, NEW e, NEW k, NEW K, NEW q,
           NEW l \in S, Holds(t, S, p, e, k, q, K),
           Ready(t, K, l), l.table = t, ~Refused(l)
    PROVE  ~Fails(k, l)
<1>1. l.chain \in Targets /\ l.to \in Targets
  <2>1. l \in Lines(C)
    OBVIOUS
  <2> QED BY <2>1 DEF Lines
<1>2. \A c : <<t, c>> \in DOMAIN k <=> c \in K
  BY DEF Holds
<1>3. CASE l.to = Create
  BY <1>1, <1>2, <1>3 DEF Ready, Fails
<1>4. CASE l.to # Create
  <2>1. <<l.table, l.chain>> \in DOMAIN k
        /\ (l.to.kind \in Final \cup Silent \/ <<l.table, l.to>> \in DOMAIN k)
    BY <1>1, <1>2, <1>4 DEF Ready
  <2>2. compiler = "IPTables" =>
          /\ \A m \in l.match : m.ports <= MultiportLimit
          /\ l.chain = Name("PREROUTING", 0) => \A m \in l.match : m.dim # "OUT"
    BY <1>4 DEF Ready
  <2> QED BY <1>4, <2>1, <2>2 DEF Fails, Accepted
<1> QED BY <1>3, <1>4

\* One command more.
LEMMA PrefixStep ==
    ASSUME NEW t, NEW K, NEW S, NEW s \in Seq(S), NEW i \in 0..(Len(s) - 1), Sound(t, K, s)
    PROVE  /\ SubSeq(s, 1, i) \in Seq(S) /\ s[i + 1] \in S
           /\ SubSeq(s, 1, i + 1) = Append(SubSeq(s, 1, i), s[i + 1])
           /\ Ready(t, Known(t, K, SubSeq(s, 1, i)), s[i + 1])
           /\ Known(t, Known(t, K, SubSeq(s, 1, i)), <<s[i + 1]>>) = Known(t, K, SubSeq(s, 1, i + 1))
<1> DEFINE q == SubSeq(s, 1, i)
           l == s[i + 1]
<1>1. q \in Seq(S) /\ l \in S /\ SubSeq(s, 1, i + 1) = Append(q, l) /\ (i + 1) - 1 = i
      /\ i + 1 \in 1..Len(s)
  OBVIOUS
<1>2. Ready(t, Known(t, K, SubSeq(s, 1, (i + 1) - 1)), s[i + 1])
  BY <1>1 DEF Sound
<1>3. Ready(t, Known(t, K, q), l)
  BY <1>1, <1>2
<1> HIDE DEF q, l
<1>4. q \o <<l>> = Append(q, l) /\ <<l>> \in Seq(S)
  BY <1>1
<1>5. Known(t, Known(t, K, q), <<l>>) = Known(t, K, q \o <<l>>)
  <2> DEFINE r == <<l>>
  <2>1. r \in Seq(S)
    BY <1>4
  <2> HIDE DEF r
  <2>2. Known(t, Known(t, K, q), r) = Known(t, K, q \o r)
    BY <1>1, <2>1, KnownConcat
  <2> QED BY <2>2 DEF r
<1> QED BY <1>1, <1>3, <1>4, <1>5 DEF q, l

\* Loading command by command.
LEMMA CommandsHold ==
    ASSUME NEW t \in Tables, NEW C, NEW S \in SUBSET Lines(C), NEW p, NEW e \in [Targets -> Results],
           NEW s \in Seq(S), Sound(t, Hooks, s),
           \A l \in S : l.table = t /\ Refused(l) => ~Hit(l, p)
    PROVE  Holds(t, S, p, e, FoldLeft(Command, Empty, s), s, Known(t, Hooks, s))
<1>1. FoldLeft(Command, Empty, s) = CommandFolds!Folded(0, Empty, s)
  BY DEF CommandFolds!Folded, FoldLeft, MapThenFoldSet,
         CommandOf, CommandFolds!Largest, Max
<1>2. PICK f : CommandFolds!Trace(f, 0, Empty, s) /\ f[Len(s)] = CommandFolds!Folded(0, Empty, s)
  BY NatWellOrdered, CommandFolds!FoldTrace DEF CommandFolds!WellOrdered
<1>3. f[0] = Empty /\ \A i \in 1..Len(s) : f[i] = Command(f[i - 1], s[i])
  BY <1>2 DEF CommandFolds!Trace, CommandOf
<1> DEFINE Q(i) == SubSeq(s, 1, i)
           T == {i \in 0..Len(s) : Holds(t, S, p, e, f[i], Q(i), Known(t, Hooks, Q(i)))}
<1>4. 0 \in T
  <2>1. Q(0) = << >> /\ 0 \in 0..Len(s) /\ f[0] = Empty
    BY <1>3
  <2>2. Known(t, Hooks, << >>) = Hooks
    BY DEF Known, ToSet
  <2>3. Holds(t, S, p, e, Empty, << >>, Hooks)
    BY EmptyHolds
  <2> HIDE DEF Q
  <2> QED BY <2>1, <2>2, <2>3
<1>5. ASSUME NEW i \in 0..(Len(s) - 1), i \in T PROVE i + 1 \in T
  <2> DEFINE k == f[i]
             q == Q(i)
             K == Known(t, Hooks, q)
             l == s[i + 1]
  <2>1. q \in Seq(S) /\ l \in S /\ Q(i + 1) = Append(q, l) /\ Ready(t, K, l)
        /\ Known(t, K, <<l>>) = Known(t, Hooks, Q(i + 1))
    BY PrefixStep
  <2>2. i + 1 \in 0..Len(s) /\ i + 1 \in 1..Len(s) /\ (i + 1) - 1 = i
    OBVIOUS
  <2>3. f[i + 1] = Command(k, l)
    BY <1>3, <2>2
  <2>4. Holds(t, S, p, e, k, q, K)
    BY <1>5
  <2> HIDE DEF k, q, K, l, Q
  <2>5. Holds(t, S, p, e, Command(k, l), Append(q, l), Known(t, K, <<l>>))
    BY <2>1, <2>4, CommandHolds
  <2> QED BY <2>1, <2>2, <2>3, <2>5
<1> HIDE DEF T
<1>6. 0..Len(s) \subseteq T
  <2>1. Len(s) \in Nat /\ \A i \in 0..(Len(s) - 1) : i \in T => i + 1 \in T
    BY <1>5
  <2> QED BY <1>4, <2>1, UpTo
<1>7. Len(s) \in T /\ Q(Len(s)) = s
  BY <1>6
<1> QED BY <1>1, <1>2, <1>7 DEF T

\* A block is committed, unless it is for another table.
LEMMA RestoreHolds ==
    ASSUME NEW t, NEW C, NEW S \in SUBSET Lines(C), NEW p, NEW e \in [Targets -> Results],
           NEW k, NEW K, NEW q \in Seq(S), NEW r \in Seq(S), Holds(t, S, p, e, k, q, K),
           Sound(t, K, r), NEW own, \A i \in 1..Len(r) : r[i].table = own,
           \A l \in S : l.table = t => ~Refused(l)
    PROVE  Holds(t, S, p, e, Restore(k, r), q \o r, Known(t, K, r))
<1> DEFINE start == [ok |-> TRUE, k |-> k]
           end == FoldLeft(Try, start, r)
<1>1. end = TryFolds!Folded(0, start, r)
  BY DEF TryFolds!Folded, FoldLeft, MapThenFoldSet,
         TryOf, TryFolds!Largest, Max
<1>2. PICK f : TryFolds!Trace(f, 0, start, r) /\ f[Len(r)] = TryFolds!Folded(0, start, r)
  BY NatWellOrdered, TryFolds!FoldTrace DEF TryFolds!WellOrdered
<1>3. f[0] = start /\ \A i \in 1..Len(r) : f[i] = Try(f[i - 1], r[i])
  BY <1>2 DEF TryFolds!Trace, TryOf
<1>4. Restore(k, r) = IF end.ok THEN end.k ELSE k
  BY DEF Restore
<1>5. end = f[Len(r)]
  BY <1>1, <1>2
<1> HIDE DEF end
<1> DEFINE Q(i) == SubSeq(r, 1, i)
<1>6. CASE own = t
  <2> DEFINE T == {i \in 0..Len(r) : f[i].ok
                     /\ Holds(t, S, p, e, f[i].k, q \o Q(i), Known(t, K, Q(i)))}
  <2>1. 0 \in T
    <3>1. Q(0) = << >> /\ 0 \in 0..Len(r) /\ q \o << >> = q /\ f[0].ok /\ f[0].k = k
      BY <1>3
    <3>2. Known(t, K, << >>) = K
      BY DEF Known, ToSet
    <3> HIDE DEF Q
    <3> QED BY <3>1, <3>2
  <2>2. ASSUME NEW i \in 0..(Len(r) - 1), i \in T PROVE i + 1 \in T
    <3> DEFINE w == f[i]
               h == w.k
               u == Q(i)
               x == q \o u
               J == Known(t, K, u)
               l == r[i + 1]
    <3>1. u \in Seq(S) /\ l \in S /\ Q(i + 1) = Append(u, l) /\ Ready(t, J, l)
          /\ Known(t, J, <<l>>) = Known(t, K, Q(i + 1))
      BY PrefixStep
    <3>2. i + 1 \in 0..Len(r) /\ i + 1 \in 1..Len(r) /\ (i + 1) - 1 = i
      OBVIOUS
    <3>3. f[i + 1] = Try(w, l) /\ l.table = t
      BY <1>3, <1>6, <3>2
    <3>4. w.ok /\ Holds(t, S, p, e, h, x, J)
      BY <2>2
    <3> HIDE DEF l, u, J, Q
    <3>5. q \o Append(u, l) = Append(x, l) /\ x \in Seq(S)
      BY <3>1
    <3> HIDE DEF w, h, x
    <3>6. ~Fails(h, l)
      BY <3>1, <3>3, <3>4, NotFailing
    <3>7. f[i + 1] = [ok |-> TRUE, k |-> Command(h, l)]
      BY <3>3, <3>4, <3>6 DEF Try, h
    <3>8. Holds(t, S, p, e, Command(h, l), Append(x, l), Known(t, J, <<l>>))
      BY <3>1, <3>3, <3>4, <3>5, CommandHolds
    <3>9. f[i + 1].ok /\ f[i + 1].k = Command(h, l)
      BY <3>7
    <3> QED BY <3>1, <3>2, <3>5, <3>8, <3>9
  <2> HIDE DEF T
  <2>3. 0..Len(r) \subseteq T
    <3>1. Len(r) \in Nat /\ \A i \in 0..(Len(r) - 1) : i \in T => i + 1 \in T
      BY <2>2
    <3> QED BY <2>1, <3>1, UpTo
  <2>4. Len(r) \in T /\ Q(Len(r)) = r
    BY <2>3
  <2> QED BY <1>4, <1>5, <2>4 DEF T
<1>7. CASE own # t
  <2>0. AFunction(k)
    BY DEF Holds
  <2> DEFINE T == {i \in 0..Len(r) : SameIn(t, k, f[i].k)}
  <2>1. 0 \in T
    <3>1. 0 \in 0..Len(r) /\ f[0].k = k
      BY <1>3
    <3> QED BY <2>0, <3>1 DEF SameIn
  <2>2. ASSUME NEW i \in 0..(Len(r) - 1), i \in T PROVE i + 1 \in T
    <3> DEFINE w == f[i]
               h == w.k
               l == r[i + 1]
               m == f[i + 1].k
    <3>2. i + 1 \in 0..Len(r) /\ i + 1 \in 1..Len(r) /\ (i + 1) - 1 = i
      OBVIOUS
    <3>3. f[i + 1] = Try(w, l) /\ l.table # t
      BY <1>3, <1>7, <3>2
    <3>4. SameIn(t, k, h)
      BY <2>2
    <3>5. m = h \/ m = Command(h, l)
      <4>1. CASE w.ok /\ ~Fails(w.k, l)
        <5>1. f[i + 1] = [ok |-> TRUE, k |-> Command(w.k, l)]
          BY <3>3, <4>1 DEF Try
        <5> QED BY <5>1
      <4>2. CASE ~(w.ok /\ ~Fails(w.k, l))
        <5>1. f[i + 1] = [w EXCEPT !.ok = FALSE]
          BY <3>3, <4>2 DEF Try
        <5>2. [w EXCEPT !.ok = FALSE].k = w.k
          OBVIOUS
        <5> QED BY <5>1, <5>2
      <4> QED BY <4>1, <4>2
    <3> HIDE DEF w, h, l, m
    <3>6. SameIn(t, k, m)
      <4>1. CASE m = h
        BY <3>4, <4>1
      <4>2. CASE m = Command(h, l)
        <5>1. AFunction(h)
          BY <3>4 DEF SameIn
        <5>2. SameIn(t, h, m)
          BY <3>3, <4>2, <5>1, CommandElsewhere
        <5> QED BY <3>4, <5>2 DEF SameIn
      <4> QED BY <3>5, <4>1, <4>2
    <3> QED BY <3>2, <3>6 DEF m
  <2> HIDE DEF T
  <2>3. 0..Len(r) \subseteq T
    <3>1. Len(r) \in Nat /\ \A i \in 0..(Len(r) - 1) : i \in T => i + 1 \in T
      BY <2>2
    <3> QED BY <2>1, <3>1, UpTo
  <2>4. Len(r) \in T
    BY <2>3
  <2>5. SameIn(t, k, end.k) /\ SameIn(t, k, k)
    BY <1>5, <2>0, <2>4 DEF T, SameIn
  <2> DEFINE h == Restore(k, r)
  <2>6. SameIn(t, k, h)
    BY <1>4, <2>5
  <2> HIDE DEF h
  <2>7. \A i \in 1..Len(r) : r[i].table # t
    BY <1>7
  <2>8. Holds(t, S, p, e, h, q \o r, Known(t, K, r))
    BY <2>6, <2>7, HoldsElsewhere
  <2> QED BY <2>8 DEF h
<1> QED BY <1>6, <1>7

\* A list of one command.
LEMMA SoundOne ==
    ASSUME NEW t, NEW K, NEW l, Ready(t, K, l)
    PROVE  Sound(t, K, <<l>>)
<1> SUFFICES ASSUME NEW i \in 1..Len(<<l>>) PROVE Ready(t, Known(t, K, SubSeq(<<l>>, 1, i - 1)), <<l>>[i])
  BY DEF Sound
<1>1. i = 1 /\ <<l>>[1] = l
  OBVIOUS
<1>2. SubSeq(<<l>>, 1, i - 1) = << >>
  BY <1>1
<1>3. Known(t, K, << >>) = K
  BY DEF Known, ToSet
<1> QED BY <1>1, <1>2, <1>3

Restored(bs) == FoldLeft(Restore, Empty, bs)

\* Loading block by block, one more block.
LEMMA RestoredIs ==
    ASSUME NEW B, NEW bs \in Seq(B), NEW b
    PROVE  Restored(<< >>) = Empty /\ Restored(Append(bs, b)) = Restore(Restored(bs), b)
<1>1. \A cs : Restored(cs) = RestoreFolds!Folded(0, Empty, cs)
  BY DEF RestoreFolds!Folded, FoldLeft, MapThenFoldSet, Restored,
         RestoreOf, RestoreFolds!Largest, Max
<1>2. RestoreFolds!Folded(0, Empty, << >>) = Empty
  BY NatWellOrdered, RestoreFolds!FoldEmpty DEF RestoreFolds!WellOrdered
<1>3. RestoreFolds!Folded(0, Empty, Append(bs, b))
        = RestoreOf(0, RestoreFolds!Folded(0, Empty, bs), b)
  BY NatWellOrdered, RestoreFolds!FoldAppend DEF RestoreFolds!WellOrdered
<1> QED BY <1>1, <1>2, <1>3 DEF RestoreOf

\* What has been read of a script q: blocks, of which all but the last one
\* hold what comes before the last one.
Buffered(t, S, p, e, q, bs) ==
    /\ bs \in Seq(Seq(S))
    /\ \/ q = << >> /\ bs = << >>
       \/ bs # << >> /\ \E own : \E a \in Seq(S), r \in Seq(S) :
            /\ r = Last(bs) /\ q = a \o r /\ r # << >>
            /\ \A i \in 1..Len(r) : r[i].table = own
            /\ Holds(t, S, p, e, Restored(Front(bs)), a, Known(t, Hooks, a))
            /\ Sound(t, Known(t, Hooks, a), r)

\* Blocks that have been buffered hold what they should once loaded.
LEMMA BufferedHolds ==
    ASSUME NEW t \in Tables, NEW C, NEW S \in SUBSET Lines(C), NEW p, NEW e \in [Targets -> Results],
           NEW q, NEW bs, Buffered(t, S, p, e, q, bs), \A l \in S : l.table = t => ~Refused(l)
    PROVE  Holds(t, S, p, e, Restored(bs), q, Known(t, Hooks, q))
<1>1. CASE q = << >> /\ bs = << >>
  <2>1. Restored(<< >>) = Empty
    <3>1. << >> \in Seq(S)
      OBVIOUS
    <3> QED BY <3>1, RestoredIs
  <2>2. Known(t, Hooks, << >>) = Hooks
    BY DEF Known, ToSet
  <2> QED BY <1>1, <2>1, <2>2, EmptyHolds
<1>2. CASE ~(q = << >> /\ bs = << >>)
  <2>0. bs \in Seq(Seq(S)) /\ bs # << >>
    BY <1>2 DEF Buffered
  <2>a. PICK own : \E a \in Seq(S), r \in Seq(S) :
            /\ r = Last(bs) /\ q = a \o r /\ r # << >>
            /\ \A i \in 1..Len(r) : r[i].table = own
            /\ Holds(t, S, p, e, Restored(Front(bs)), a, Known(t, Hooks, a))
            /\ Sound(t, Known(t, Hooks, a), r)
    BY <1>2 DEF Buffered
  <2>1. PICK a \in Seq(S), r \in Seq(S) :
            /\ r = Last(bs) /\ q = a \o r /\ r # << >>
            /\ \A i \in 1..Len(r) : r[i].table = own
            /\ Holds(t, S, p, e, Restored(Front(bs)), a, Known(t, Hooks, a))
            /\ Sound(t, Known(t, Hooks, a), r)
    BY <2>a
  <2> DEFINE fs == Front(bs)
             k == Restored(fs)
             K == Known(t, Hooks, a)
  <2>2. bs = Append(fs, r) /\ fs \in Seq(Seq(S))
    BY <2>0, <2>1 DEF Front, Last
  <2> HIDE DEF fs
  <2>3. Restored(bs) = Restore(k, r)
    BY <2>2, RestoredIs
  <2>4. Holds(t, S, p, e, k, a, K)
    BY <2>1 DEF fs
  <2>5. Sound(t, K, r) /\ Known(t, Hooks, q) = Known(t, K, r)
    BY <2>1, KnownConcat
  <2> HIDE DEF k, K
  <2>6. Holds(t, S, p, e, Restore(k, r), a \o r, Known(t, K, r))
    BY <2>1, <2>4, <2>5, RestoreHolds
  <2> QED BY <2>1, <2>3, <2>5, <2>6
<1> QED BY <1>1, <1>2

\* A command joins the last block when it is for its table, or opens one.
LEMMA BufferStep ==
    ASSUME NEW t \in Tables, NEW C, NEW S \in SUBSET Lines(C), NEW p, NEW e \in [Targets -> Results],
           NEW q \in Seq(S), NEW bs, Buffered(t, S, p, e, q, bs),
           \A l \in S : l.table = t => ~Refused(l),
           NEW l \in S, Ready(t, Known(t, Hooks, q), l)
    PROVE  Buffered(t, S, p, e, Append(q, l), Buffer(bs, l))
<1> DEFINE w == Append(q, l)
           cs == Buffer(bs, l)
<1>0. bs \in Seq(Seq(S)) /\ <<l>> \in Seq(S) /\ w = q \o <<l>>
  <2>1. bs \in Seq(Seq(S))
    BY DEF Buffered
  <2>2. <<l>> \in Seq(S) /\ w = q \o <<l>>
    OBVIOUS
  <2> QED BY <2>1, <2>2
<1>t. \A m : Together(m, l) => m.table = l.table
  BY DEF Together
<1>1. CASE bs # << >> /\ Together(Last(Last(bs)), l)
  <2>a. PICK own : \E a \in Seq(S), r \in Seq(S) :
            /\ r = Last(bs) /\ q = a \o r /\ r # << >>
            /\ \A i \in 1..Len(r) : r[i].table = own
            /\ Holds(t, S, p, e, Restored(Front(bs)), a, Known(t, Hooks, a))
            /\ Sound(t, Known(t, Hooks, a), r)
    BY <1>1 DEF Buffered
  <2>1. PICK a \in Seq(S), r \in Seq(S) :
            /\ r = Last(bs) /\ q = a \o r /\ r # << >>
            /\ \A i \in 1..Len(r) : r[i].table = own
            /\ Holds(t, S, p, e, Restored(Front(bs)), a, Known(t, Hooks, a))
            /\ Sound(t, Known(t, Hooks, a), r)
    BY <2>a
  <2> DEFINE u == Append(r, l)
             K == Known(t, Hooks, a)
  <2>2. cs = [bs EXCEPT ![Len(bs)] = u]
    BY <1>1, <2>1 DEF Buffer, ReplaceAt
  <2>3. u \in Seq(S) /\ u = r \o <<l>> /\ u # << >>
    <3>1. r \in Seq(S)
      BY <2>1, Zenon
    <3> QED BY <3>1, AppendIs
  <2>4. \A i \in 1..Len(u) : u[i].table = own
    <3>1. Len(r) \in 1..Len(r) /\ r[Len(r)].table = l.table
      BY <1>1, <1>t, <2>1 DEF Last
    <3>2. l.table = own
      BY <2>1, <3>1
    <3>3. \A i \in 1..Len(u) : (i \in 1..Len(r) /\ u[i] = r[i]) \/ u[i] = l
      OBVIOUS
    <3> HIDE DEF u
    <3> QED BY <2>1, <3>2, <3>3
  <2>5. Sound(t, K, u)
    <3> DEFINE v == <<l>>
    <3>1. Known(t, K, r) = Known(t, Hooks, q)
      BY <2>1, KnownConcat
    <3>2. Sound(t, Known(t, K, r), v) /\ Sound(t, K, r) /\ v \in Seq(S)
      BY <1>0, <2>1, <3>1, SoundOne
    <3> HIDE DEF v, K
    <3>3. Sound(t, K, r \o v)
      BY <3>2, SoundConcat
    <3> QED BY <2>3, <3>3 DEF v
  <2> HIDE DEF u
  <2>6. cs \in Seq(Seq(S)) /\ cs # << >> /\ Last(cs) = u /\ Front(cs) = Front(bs)
    <3>1. cs \in Seq(Seq(S)) /\ Len(cs) = Len(bs) /\ cs # << >> /\ cs[Len(bs)] = u
      BY <1>0, <1>1, <2>2, <2>3
    <3>2. \A i \in 1..(Len(bs) - 1) : cs[i] = bs[i]
      BY <1>0, <2>2
    <3> HIDE DEF cs
    <3>3. SubSeq(cs, 1, Len(cs) - 1) = SubSeq(bs, 1, Len(bs) - 1)
      BY <1>0, <3>1, <3>2
    <3> QED BY <3>1, <3>3 DEF Last, Front
  <2>7. w = a \o u
    <3> DEFINE v == <<l>>
    <3>1. v \in Seq(S) /\ w = q \o v /\ u = r \o v
      BY <1>0, <2>3
    <3> HIDE DEF v, u, w
    <3>2. (a \o r) \o v = a \o (r \o v)
      BY <2>1, <3>1, ConcatAssociates, SMTT(30)
    <3> QED BY <2>1, <3>1, <3>2
  <2> HIDE DEF cs, w
  <2>8. Buffered(t, S, p, e, w, cs)
    BY <2>1, <2>3, <2>4, <2>5, <2>6, <2>7 DEF Buffered
  <2> QED BY <2>8 DEF cs, w
<1>2. CASE ~(bs # << >> /\ Together(Last(Last(bs)), l))
  <2> DEFINE u == <<l>>
             K == Known(t, Hooks, q)
  <2>1. cs = Append(bs, u)
    BY <1>2 DEF Buffer
  <2>2. u \in Seq(S) /\ u # << >> /\ \A i \in 1..Len(u) : u[i].table = l.table
    OBVIOUS
  <2>3. Sound(t, K, u)
    BY SoundOne
  <2>4. Holds(t, S, p, e, Restored(bs), q, K)
    BY BufferedHolds
  <2>5. w = q \o u
    BY <1>0
  <2> HIDE DEF u
  <2>6. cs \in Seq(Seq(S)) /\ cs # << >> /\ Last(cs) = u /\ Front(cs) = bs
    <3>1. cs \in Seq(Seq(S)) /\ Len(cs) = Len(bs) + 1 /\ cs # << >> /\ cs[Len(bs) + 1] = u
      BY <1>0, <2>1, <2>2
    <3>2. \A i \in 1..Len(bs) : cs[i] = bs[i]
      BY <1>0, <2>1, <2>2
    <3> HIDE DEF cs
    <3>3. SubSeq(cs, 1, Len(cs) - 1) = bs
      BY <1>0, <3>1, <3>2
    <3> QED BY <1>0, <3>1, <3>3 DEF Last, Front
  <2> HIDE DEF cs, w
  <2>7. \E own : \E a \in Seq(S), r \in Seq(S) :
            /\ r = Last(cs) /\ w = a \o r /\ r # << >>
            /\ \A i \in 1..Len(r) : r[i].table = own
            /\ Holds(t, S, p, e, Restored(Front(cs)), a, Known(t, Hooks, a))
            /\ Sound(t, Known(t, Hooks, a), r)
    <3>1. /\ u = Last(cs) /\ w = q \o u /\ u # << >>
          /\ \A i \in 1..Len(u) : u[i].table = l.table
          /\ Holds(t, S, p, e, Restored(Front(cs)), q, Known(t, Hooks, q))
          /\ Sound(t, Known(t, Hooks, q), u)
      BY <2>2, <2>3, <2>4, <2>5, <2>6 DEF K
    <3> QED BY <2>2, <3>1, Zenon
  <2>8. Buffered(t, S, p, e, w, cs)
    BY <2>6, <2>7 DEF Buffered
  <2> QED BY <2>8 DEF cs, w
<1> QED BY <1>1, <1>2

\* Loading in blocks.
LEMMA BlocksHold ==
    ASSUME NEW t \in Tables, NEW C, NEW S \in SUBSET Lines(C), NEW p, NEW e \in [Targets -> Results],
           NEW s \in Seq(S), Sound(t, Hooks, s), \A l \in S : l.table = t => ~Refused(l)
    PROVE  Holds(t, S, p, e, Restored(Blocks(s)), s, Known(t, Hooks, s))
<1>1. Blocks(s) = BufferFolds!Folded(0, << >>, s)
  BY DEF BufferFolds!Folded, FoldLeft, MapThenFoldSet, Blocks,
         BufferOf, BufferFolds!Largest, Max
<1>2. PICK f : BufferFolds!Trace(f, 0, << >>, s) /\ f[Len(s)] = BufferFolds!Folded(0, << >>, s)
  BY NatWellOrdered, BufferFolds!FoldTrace DEF BufferFolds!WellOrdered
<1>3. f[0] = << >> /\ \A i \in 1..Len(s) : f[i] = Buffer(f[i - 1], s[i])
  BY <1>2 DEF BufferFolds!Trace, BufferOf
<1> DEFINE Q(i) == SubSeq(s, 1, i)
           T == {i \in 0..Len(s) : Buffered(t, S, p, e, Q(i), f[i])}
<1>4. 0 \in T
  <2>1. Q(0) = << >> /\ 0 \in 0..Len(s) /\ f[0] = << >> /\ << >> \in Seq(Seq(S))
    BY <1>3
  <2> HIDE DEF Q
  <2> QED BY <2>1 DEF Buffered
<1>5. ASSUME NEW i \in 0..(Len(s) - 1), i \in T PROVE i + 1 \in T
  <2> DEFINE bs == f[i]
             q == Q(i)
             l == s[i + 1]
  <2>1. q \in Seq(S) /\ l \in S /\ Q(i + 1) = Append(q, l) /\ Ready(t, Known(t, Hooks, q), l)
    BY PrefixStep
  <2>2. i + 1 \in 0..Len(s) /\ i + 1 \in 1..Len(s) /\ (i + 1) - 1 = i
    OBVIOUS
  <2>3. f[i + 1] = Buffer(bs, l)
    BY <1>3, <2>2
  <2>4. Buffered(t, S, p, e, q, bs)
    BY <1>5
  <2> HIDE DEF bs, q, l, Q
  <2>5. Buffered(t, S, p, e, Append(q, l), Buffer(bs, l))
    BY <2>1, <2>4, BufferStep
  <2> QED BY <2>1, <2>2, <2>3, <2>5
<1> HIDE DEF T
<1>6. 0..Len(s) \subseteq T
  <2>1. Len(s) \in Nat /\ \A i \in 0..(Len(s) - 1) : i \in T => i + 1 \in T
    BY <1>5
  <2> QED BY <1>4, <2>1, UpTo
<1>7. Len(s) \in T /\ Q(Len(s)) = s
  BY <1>6
<1>8. Buffered(t, S, p, e, s, Blocks(s))
  BY <1>1, <1>2, <1>7 DEF T
<1> QED BY <1>8, BufferedHolds

\* What is refused of a script is nothing to do with the packet, or the script
\* is not loaded in blocks and so loses nothing else.
Harmless(t, S, p) ==
    \A l \in S : l.table = t /\ Refused(l) => ~optimized /\ ~Hit(l, p)

\* What has been loaded holds, chain by chain, what the commands say.
LEMMA LoadedHolds ==
    ASSUME NEW t \in Tables, NEW C, NEW S \in SUBSET Lines(C), NEW p, NEW e \in [Targets -> Results],
           NEW s \in Seq(S), Sound(t, Hooks, s), Harmless(t, S, p)
    PROVE  Holds(t, S, p, e, Loaded(s), s, Known(t, Hooks, s))
<1>1. CASE optimized
  <2>1. Loaded(s) = Restored(Blocks(s))
    BY <1>1 DEF Loaded, Restored
  <2>2. \A l \in S : l.table = t => ~Refused(l)
    BY <1>1 DEF Harmless
  <2> QED BY <2>1, <2>2, BlocksHold
<1>2. CASE ~optimized
  <2>1. Loaded(s) = FoldLeft(Command, Empty, s)
    BY <1>2 DEF Loaded
  <2>2. \A l \in S : l.table = t /\ Refused(l) => ~Hit(l, p)
    BY DEF Harmless
  <2> QED BY <2>1, <2>2, CommandsHold
<1> QED BY <1>1, <1>2

(***************************************************************************)
(* Walking through what a script has loaded.                               *)
(***************************************************************************)
VisitOf(g, walk, at) == Visit(g[1], g[2], g[3], walk, at)
Walks == INSTANCE FoldLaws WITH Op <- VisitOf

\* A rule leads to a chain of a lower rank: no packet is sent in circles.
Rank(c) ==
    IF c.kind = "LOGCHAIN" THEN 1 ELSE IF c.kind = "ACC" THEN 2
    ELSE IF c.kind \in {"CH", "M1", "M2"} THEN (IF c.n <= 20 THEN 30 - c.n ELSE 3)
    ELSE IF c.kind \in {"PREROUTING", "INPUT", "FORWARD", "OUTPUT", "POSTROUTING"} THEN 40
    ELSE 0

Terminal(to) == to.kind \in Final \cup Silent

Ranked(t, S) ==
    \A l \in S : l.table = t /\ l.to # Create =>
        Terminal(l.to) \/ Rank(l.to) < Rank(l.chain)

\* What happens to a packet sent to a chain that does r with it.
Back(to, r) ==
    [end |-> IF r.end.kind = "RETURN" THEN None ELSE r.end,
     trail |-> (IF to.kind = "ACC" THEN <<to>> ELSE << >>) \o r.trail]

\* The effects of the targets a packet finds, when s has been loaded.
Effects(t, p, s, K, e) ==
    /\ e \in [Targets -> Results]
    /\ \A to \in Targets : to.kind \in Final => e[to] = [end |-> to, trail |-> << >>]
    /\ \A to \in Targets : to.kind \in Silent => e[to] = [end |-> None, trail |-> <<to>>]
    /\ \A to \in K : ~Terminal(to) => e[to] = Back(to, Flow(View(t, to, p, e), s))

\* Ranks are natural numbers.
LEMMA RankType ==
    ASSUME NEW c \in Targets PROVE Rank(c) \in Nat
<1>1. c.n \in Nat
  BY DEF Targets
<1> QED BY <1>1 DEF Rank

\* Finitely many natural numbers have a bound.
LEMMA Bounded ==
    ASSUME NEW m \in Nat, NEW F, \A i \in 1..m : F[i] \in Nat
    PROVE  \E b \in Nat : \A i \in 1..m : F[i] <= b
<1> DEFINE T == {n \in 0..m : \E b \in Nat : \A i \in 1..n : F[i] <= b}
<1>1. 0 \in T
  <2>1. \A i \in 1..0 : F[i] <= 0
    OBVIOUS
  <2> QED BY <2>1
<1>2. ASSUME NEW n \in 0..(m - 1), n \in T PROVE n + 1 \in T
  <2>1. PICK b \in Nat : \A i \in 1..n : F[i] <= b
    BY <1>2
  <2>2. F[n + 1] \in Nat /\ n + 1 \in 0..m
    OBVIOUS
  <2>3. \A i \in 1..(n + 1) : F[i] <= b + F[n + 1]
    BY <2>1, <2>2
  <2> QED BY <2>2, <2>3
<1> HIDE DEF T
<1>3. 0..m \subseteq T
  BY <1>1, <1>2, UpTo
<1>4. m \in T
  BY <1>3
<1> QED BY <1>4 DEF T

\* A lower rank counts more than any place in a chain.
LEMMA Lexicographic ==
    ASSUME NEW a \in Nat, NEW b \in Nat, NEW n \in Nat, a < b, NEW i \in 0..n
    PROVE  a * (n + 1) + i < b * (n + 1)
<1>1. PICK d \in Nat : b = a + 1 + d
  <2>1. b - (a + 1) \in Nat
    OBVIOUS
  <2>2. b = a + 1 + (b - (a + 1))
    OBVIOUS
  <2> QED BY <2>1, <2>2
<1>2. (a + 1 + d) * (n + 1) = a * (n + 1) + (n + 1) + d * (n + 1)
  OBVIOUS
<1>3. d * (n + 1) >= 0 /\ a * (n + 1) \in Nat
  OBVIOUS
<1> QED BY <1>1, <1>2, <1>3

\* No chain is longer than some bound.
LEMMA ChainsBounded ==
    ASSUME NEW t, NEW C, NEW S \in SUBSET Lines(C), NEW p, NEW e \in [Targets -> Results],
           NEW s \in Seq(S), NEW k, Holds(t, S, p, e, k, s, Known(t, Hooks, s))
    PROVE  \E b \in Nat : \A c \in Known(t, Hooks, s) : Len(k[<<t, c>>]) <= b
<1> DEFINE K == Known(t, Hooks, s)
<1>1. \A c \in K : Len(k[<<t, c>>]) \in Nat
  <2>1. \A c \in K : k[<<t, c>>] \in Seq(S)
    BY DEF Holds
  <2> QED BY <2>1
<1>2. \A c \in K : c \in Hooks \/ \E i \in 1..Len(s) : c = s[i].chain
  <2>1. ToSet(s) = {s[i] : i \in 1..Len(s)}
    BY ToSetIs
  <2> QED BY <2>1 DEF Known
<1>h. Hooks \subseteq K
  BY DEF Known
<1> HIDE DEF K
<1> DEFINE F == [i \in 1..Len(s) |-> IF s[i].chain \in K THEN Len(k[<<t, s[i].chain>>]) ELSE 0]
<1>3. \A i \in 1..Len(s) : F[i] \in Nat /\ (s[i].chain \in K => F[i] = Len(k[<<t, s[i].chain>>]))
  BY <1>1
<1> HIDE DEF F
<1>4. PICK b \in Nat : \A i \in 1..Len(s) : F[i] <= b
  <2>1. Len(s) \in Nat
    OBVIOUS
  <2> QED BY <1>3, <2>1, Bounded
<1> DEFINE N(h) == Len(k[<<t, Name(h, 0)>>])
<1>5. \A h \in {"PREROUTING", "INPUT", "FORWARD", "OUTPUT", "POSTROUTING"} :
         Name(h, 0) \in K /\ N(h) \in Nat
  BY <1>1, <1>h DEF Hooks
<1>6. \A c \in Hooks : \E h \in {"PREROUTING", "INPUT", "FORWARD", "OUTPUT", "POSTROUTING"} :
         Len(k[<<t, c>>]) = N(h)
  BY DEF Hooks
<1> HIDE DEF N
<1> DEFINE a == b + N("PREROUTING") + N("INPUT") + N("FORWARD") + N("OUTPUT") + N("POSTROUTING")
<1>7. a \in Nat /\ a >= b
      /\ \A h \in {"PREROUTING", "INPUT", "FORWARD", "OUTPUT", "POSTROUTING"} : N(h) <= a
  BY <1>5
<1> HIDE DEF a
<1>8. ASSUME NEW c \in K PROVE Len(k[<<t, c>>]) <= a
  <2>1. CASE c \in Hooks
    BY <1>6, <1>7, <2>1
  <2>2. CASE \E i \in 1..Len(s) : c = s[i].chain
    <3>1. PICK i \in 1..Len(s) : c = s[i].chain
      BY <2>2
    <3>2. Len(k[<<t, c>>]) = F[i] /\ F[i] <= b /\ F[i] \in Nat
      BY <1>3, <1>4, <3>1
    <3> QED BY <1>7, <3>2
  <2> QED BY <1>2, <2>1, <2>2
<1> QED BY <1>7, <1>8 DEF K

\* What Holds says of the chains, whatever the effects are.
ChainsOf(t, S, k, K) ==
    /\ AFunction(k) /\ K \subseteq Targets /\ \A c : <<t, c>> \in DOMAIN k <=> c \in K
    /\ \A c \in K : /\ k[<<t, c>>] \in Seq(S)
                    /\ \A i \in 1..Len(k[<<t, c>>]) :
                         LET l == k[<<t, c>>][i]
                         IN l.to # Create /\ (Terminal(l.to) \/ l.to \in K) /\ l.chain = c /\ l.table = t

Walking(t, p, k, K, w) == w = [at \in K \X (Nat \ {0}) |-> Visit(k, t, p, w, at)]

\* What every visit keeps, when later ones do, all visits keep.
LEMMA VisitKeeps ==
    ASSUME NEW g, NEW D, NEW M \in [D -> Nat],
           NEW f, \A x \in D : f[x] = VisitOf(g, f, x),
           \A x \in D : (\A y \in D : M[y] < M[x] => f[y] \in Results)
                           => VisitOf(g, f, x) \in Results
    PROVE  \A x \in D : f[x] \in Results
<1>1. Walks!WellOrdered
  BY NatWellOrdered DEF Walks!WellOrdered
<1> QED BY <1>1, Walks!RecursionKeeps

\* A packet finds its way: no rule leads back to where it has been.
LEMMA WalkExists ==
    ASSUME NEW t, NEW C, NEW S \in SUBSET Lines(C), NEW p, NEW k, NEW K, ChainsOf(t, S, k, K),
           NEW b \in Nat, \A c \in K : Len(k[<<t, c>>]) <= b, Ranked(t, S)
    PROVE  /\ \E w : Walking(t, p, k, K, w)
           /\ \A w : Walking(t, p, k, K, w) => \A x \in K \X (Nat \ {0}) : w[x] \in Results
<1> DEFINE D == K \X (Nat \ {0})
           L(c) == Len(k[<<t, c>>])
           Left(c, i) == IF i <= L(c) THEN (L(c) + 1) - i ELSE 0
           M == [x \in D |-> Rank(x[1]) * (b + 1) + Left(x[1], x[2])]
           g == <<k, t, p>>
           R(c, i) == k[<<t, c>>][i]
<1>1. ASSUME NEW c \in K PROVE L(c) \in Nat /\ L(c) <= b /\ Rank(c) \in Nat
  <2>1. k[<<t, c>>] \in Seq(S) /\ c \in Targets
    BY DEF ChainsOf
  <2>2. L(c) \in Nat
    BY <2>1
  <2>3. Rank(c) \in Nat
    BY <2>1, RankType
  <2> QED BY <2>2, <2>3, Zenon
<1>2. ASSUME NEW c \in K, NEW i \in Nat \ {0}
      PROVE  Left(c, i) \in 0..b /\ (i <= L(c) => Left(c, i + 1) < Left(c, i))
  <2>1. L(c) \in Nat /\ L(c) <= b
    BY <1>1
  <2> HIDE DEF L
  <2> QED BY <2>1
<1> HIDE DEF Left
<1>3a. \A c \in K : Rank(c) \in Nat /\ \A i \in Nat \ {0} : Left(c, i) \in Nat
  <2> TAKE c \in K
  <2>1. ASSUME NEW i \in Nat \ {0} PROVE Left(c, i) \in Nat
    <3>1. Left(c, i) \in 0..b
      BY <1>2
    <3> QED BY <3>1
  <2>2. Rank(c) \in Nat
    BY <1>1
  <2> QED BY <2>1, <2>2, Zenon
<1>3. ASSUME NEW c \in K, NEW i \in Nat \ {0}
      PROVE  <<c, i>> \in D /\ <<c, i>>[1] = c /\ <<c, i>>[2] = i
             /\ M[<<c, i>>] = Rank(c) * (b + 1) + Left(c, i) /\ M[<<c, i>>] \in Nat
  <2>1. <<c, i>> \in D /\ <<c, i>>[1] = c /\ <<c, i>>[2] = i
    OBVIOUS
  <2>2. M[<<c, i>>] = Rank(c) * (b + 1) + Left(c, i)
    BY <2>1
  <2>3. Rank(c) \in Nat /\ Left(c, i) \in Nat
    BY <1>3a
  <2>4. Rank(c) * (b + 1) \in Nat
    BY <2>3
  <2> QED BY <2>1, <2>2, <2>3, <2>4
<1>4. \A x \in D : \E c \in K, i \in Nat \ {0} : x = <<c, i>>
  OBVIOUS
<1>m. M \in [D -> Nat]
  <2>1. M = [x \in D |-> M[x]]
    OBVIOUS
  <2>2. \A x \in D : M[x] \in Nat
    BY <1>3, <1>4
  <2> HIDE DEF M
  <2> QED BY <2>1, <2>2
<1> HIDE DEF M
\* The rule that is visited, and what it leads to.
<1>5. ASSUME NEW c \in K, NEW i \in Nat \ {0}, i <= L(c)
      PROVE  /\ R(c, i) \in S /\ R(c, i).to \in Targets
             /\ <<c, i + 1>> \in D /\ M[<<c, i + 1>>] < M[<<c, i>>]
             /\ ~Terminal(R(c, i).to) =>
                  <<R(c, i).to, 1>> \in D /\ M[<<R(c, i).to, 1>>] < M[<<c, i>>]
  <2> DEFINE l == R(c, i)
             d == l.to
  <2>0. \A x \in K : Left(x, 1) \in Nat /\ Left(x, 1) \in 0..b
    <3> TAKE x \in K
    <3>1. 1 \in Nat \ {0}
      OBVIOUS
    <3>2. Left(x, 1) \in 0..b
      BY <1>2, <3>1, Zenon
    <3> QED BY <3>2
  <2>1. i \in 1..L(c) /\ i + 1 \in Nat \ {0}
    BY <1>1, <1>5
  <2>2. l \in S /\ d # Create /\ (Terminal(d) \/ d \in K) /\ l.chain = c /\ l.table = t
    <3>1. i \in 1..Len(k[<<t, c>>]) /\ k[<<t, c>>] \in Seq(S)
      BY <2>1 DEF ChainsOf
    <3> QED BY <3>1 DEF ChainsOf
  <2>3. d \in Targets
    <3>1. l \in Lines(C)
      BY <2>2
    <3> QED BY <3>1 DEF Lines
  <2>4. M[<<c, i + 1>>] < M[<<c, i>>] /\ <<c, i + 1>> \in D
    <3>1. M[<<c, i>>] = Rank(c) * (b + 1) + Left(c, i)
          /\ M[<<c, i + 1>>] = Rank(c) * (b + 1) + Left(c, i + 1) /\ <<c, i + 1>> \in D
      BY <1>3, <2>1
    <3>2. Left(c, i + 1) < Left(c, i) /\ Left(c, i) \in Nat /\ Left(c, i + 1) \in Nat
      BY <1>2, <1>5, <2>1
    <3>3. Rank(c) * (b + 1) \in Nat
      <4>1. Rank(c) \in Nat
        BY <1>1
      <4> QED BY <4>1
    <3> QED BY <3>1, <3>2, <3>3
  <2>5. ASSUME ~Terminal(d) PROVE <<d, 1>> \in D /\ M[<<d, 1>>] < M[<<c, i>>]
    <3>1. d \in K /\ Rank(d) < Rank(c)
      BY <2>2, <2>5 DEF Ranked
    <3>2. M[<<d, 1>>] = Rank(d) * (b + 1) + Left(d, 1) /\ <<d, 1>> \in D
          /\ M[<<c, i>>] = Rank(c) * (b + 1) + Left(c, i)
      BY <1>3, <3>1
    <3>3. Left(d, 1) \in 0..b /\ Left(c, i) \in Nat /\ Rank(d) \in Nat /\ Rank(c) \in Nat
      <4>1. Left(d, 1) \in 0..b
        BY <2>0, <3>1, Zenon
      <4>2. Left(c, i) \in Nat
        BY <1>3a
      <4>3. Rank(d) \in Nat /\ Rank(c) \in Nat
        BY <1>1, <3>1, Zenon
      <4> QED BY <4>1, <4>2, <4>3, Zenon
    <3>4. Rank(d) * (b + 1) + Left(d, 1) < Rank(c) * (b + 1)
      BY <3>1, <3>3, Lexicographic
    <3>5. Rank(c) * (b + 1) \in Nat /\ Rank(d) * (b + 1) \in Nat
      BY <3>3
    <3> QED BY <3>2, <3>3, <3>4, <3>5
  <2> QED BY <2>2, <2>3, <2>4, <2>5
<1>6. ASSUME NEW c \in K, NEW i \in Nat \ {0}, NEW f, NEW h,
             \A y \in D : M[y] < M[<<c, i>>] => f[y] = h[y]
      PROVE  VisitOf(g, f, <<c, i>>) = VisitOf(g, h, <<c, i>>)
  <2>1. \A w : VisitOf(g, w, <<c, i>>) =
          IF i > L(c) THEN Nothing
          ELSE IF Hit(R(c, i), p) THEN Then(Effect(w, R(c, i).to), w[<<c, i + 1>>])
          ELSE w[<<c, i + 1>>]
    BY <1>3 DEF VisitOf, Visit
  <2> DEFINE d == R(c, i).to
  <2>2. CASE i > L(c)
    BY <2>1, <2>2
  <2>3. CASE ~(i > L(c))
    <3>0. i <= L(c)
      BY <1>1, <2>3
    <3>1. f[<<c, i + 1>>] = h[<<c, i + 1>>]
      BY <1>5, <1>6, <3>0
    <3>2. Effect(f, d) = Effect(h, d)
      <4>1. CASE Terminal(d)
        <5>1. CASE d.kind \in Final
          BY <5>1 DEF Effect
        <5>2. CASE d.kind \notin Final /\ d.kind \in Silent
          BY <5>2 DEF Effect
        <5> QED BY <4>1, <5>1, <5>2 DEF Terminal
      <4>2. CASE ~Terminal(d)
        <5>1. f[<<d, 1>>] = h[<<d, 1>>]
          BY <1>5, <1>6, <3>0, <4>2
        <5> HIDE DEF d
        <5> QED BY <5>1 DEF Effect
      <4> QED BY <4>1, <4>2
    <3> HIDE DEF R, L
    <3> QED BY <2>1, <3>1, <3>2
  <2> QED BY <2>2, <2>3
<1>7. \E w : w = [x \in D |-> VisitOf(g, w, x)]
  <2>1. \A x \in D : \A f, h :
          (\A y \in D : M[y] < M[x] => f[y] = h[y]) => VisitOf(g, f, x) = VisitOf(g, h, x)
    <3> TAKE x \in D
    <3>1. PICK c \in K, i \in Nat \ {0} : x = <<c, i>>
      BY <1>4
    <3> TAKE f, h
    <3> HAVE \A y \in D : M[y] < M[x] => f[y] = h[y]
    <3>2. \A y \in D : M[y] < M[<<c, i>>] => f[y] = h[y]
      BY <3>1
    <3> HIDE DEF D, g
    <3>3. VisitOf(g, f, <<c, i>>) = VisitOf(g, h, <<c, i>>)
      BY <1>6, <3>2, SMTT(30)
    <3> QED BY <3>1, <3>3, Zenon
  <2> HIDE DEF D, g
  <2>2. Walks!WellOrdered
    BY NatWellOrdered DEF Walks!WellOrdered
  <2> QED BY <1>m, <2>1, <2>2, Walks!RecursionWorks
<1>8. \E w : Walking(t, p, k, K, w)
  <2>1. PICK w : w = [x \in D |-> VisitOf(g, w, x)]
    BY <1>7
  <2>2. w = [x \in D |-> Visit(k, t, p, w, x)]
    BY <2>1 DEF VisitOf
  <2> QED BY <2>2 DEF Walking
<1>9. ASSUME NEW w, Walking(t, p, k, K, w) PROVE \A x \in D : w[x] \in Results
  <2>1. \A x \in D : (\A y \in D : M[y] < M[x] => w[y] \in Results) => VisitOf(g, w, x) \in Results
    <3> TAKE x \in D
    <3>1. PICK c \in K, i \in Nat \ {0} : x = <<c, i>>
      BY <1>4
    <3> HAVE \A y \in D : M[y] < M[x] => w[y] \in Results
    <3>2. VisitOf(g, w, <<c, i>>) =
            IF i > L(c) THEN Nothing
            ELSE IF Hit(R(c, i), p) THEN Then(Effect(w, R(c, i).to), w[<<c, i + 1>>])
            ELSE w[<<c, i + 1>>]
      BY <1>3 DEF VisitOf, Visit
    <3>3. CASE i > L(c)
      BY <3>1, <3>2, <3>3, NoneType
    <3>4. CASE ~(i > L(c))
      <4>0. i <= L(c)
        BY <1>1, <3>4
      <4> DEFINE d == R(c, i).to
                 r == w[<<c, i + 1>>]
      <4>1. r \in Results /\ d \in Targets
        BY <1>5, <3>1, <4>0
      <4>2. Effect(w, d) \in Results
        <5>1. CASE d.kind \in Final
          <6>1. Effect(w, d) = [end |-> d, trail |-> << >>]
            BY <5>1 DEF Effect
          <6>2. << >> \in Seq(Targets)
            OBVIOUS
          <6> QED BY <4>1, <6>1, <6>2 DEF Results
        <5>2. CASE d.kind \notin Final /\ d.kind \in Silent
          <6>1. Effect(w, d) = [end |-> None, trail |-> <<d>>]
            BY <5>2 DEF Effect
          <6>2. <<d>> \in Seq(Targets)
            BY <4>1
          <6> QED BY <6>1, <6>2, NoneType DEF Results
        <5>3. CASE d.kind \notin Final /\ d.kind \notin Silent
          <6>1. w[<<d, 1>>] \in Results
            BY <1>5, <3>1, <4>0, <5>3 DEF Terminal
          <6> DEFINE sub == w[<<d, 1>>]
                     o == IF d.kind = "ACC" THEN <<d>> ELSE << >>
          <6> HIDE DEF d
          <6>2. Effect(w, d) = [end |-> IF sub.end.kind = "RETURN" THEN None ELSE sub.end,
                                trail |-> o \o sub.trail]
            BY <5>3 DEF Effect
          <6>3. o \in Seq(Targets) /\ sub.trail \in Seq(Targets) /\ sub.end \in Targets
            BY <4>1, <6>1, ResultFields
          <6> HIDE DEF o, sub
          <6>4. o \o sub.trail \in Seq(Targets)
            BY <6>3
          <6> QED BY <6>2, <6>3, <6>4, NoneType DEF Results
        <5> QED BY <5>1, <5>2, <5>3
      <4>3. Then(Effect(w, d), r) \in Results
        BY <4>1, <4>2, ThenType
      <4> QED BY <3>1, <3>2, <3>4, <4>1, <4>3
    <3> QED BY <3>3, <3>4
  <2>2. \A x \in D : w[x] = VisitOf(g, w, x)
    <3>1. w = [x \in D |-> Visit(k, t, p, w, x)]
      BY <1>9 DEF Walking
    <3>2. \A x \in D : w[x] = Visit(k, t, p, w, x)
      BY <3>1
    <3> QED BY <3>2 DEF VisitOf
  <2> HIDE DEF D, g
  <2> QED BY <1>m, <2>1, <2>2, VisitKeeps
<1> QED BY <1>8, <1>9

\* A first command does its part before the others.
LEMMA FlowFirst ==
    ASSUME NEW g, Reaction(g), NEW C, NEW l \in Lines(C), NEW s \in Seq(Lines(C))
    PROVE  Flow(g, <<l>> \o s) = Then(Part(g, l), Flow(g, s))
<1> DEFINE r == <<l>>
<1>1. r \in Seq(Lines(C)) /\ Flow(g, r) = Part(g, l)
  BY FlowOne
<1> HIDE DEF r
<1>2. Flow(g, r \o s) = Then(Flow(g, r), Flow(g, s))
  BY <1>1, FlowConcat
<1> QED BY <1>1, <1>2 DEF r

\* The walk through a chain is what its rules do one after the other.
LEMMA WalkFlows ==
    ASSUME NEW t, NEW C, NEW S \in SUBSET Lines(C), NEW p, NEW k, NEW K, ChainsOf(t, S, k, K),
           NEW w, Walking(t, p, k, K, w), \A x \in K \X (Nat \ {0}) : w[x] \in Results,
           NEW e \in [Targets -> Results],
           \A to \in Targets : Terminal(to) \/ to \in K => e[to] = Effect(w, to),
           NEW c \in K
    PROVE  w[<<c, 1>>] = Flow(View(t, c, p, e), k[<<t, c>>])
<1> DEFINE g == View(t, c, p, e)
           r == k[<<t, c>>]
           n == Len(r)
           Q(i) == SubSeq(r, i + 1, n)
           T == {i \in 0..n : w[<<c, i + 1>>] = Flow(g, Q(i))}
<1>1. r \in Seq(S) /\ \A i \in 1..n : r[i].to # Create /\ (Terminal(r[i].to) \/ r[i].to \in K)
                                      /\ r[i].chain = c /\ r[i].table = t
  BY DEF ChainsOf
<1>2. Reaction(g) /\ g.table = t /\ g.chain = c /\ g.p = p /\ g.e = e
  BY ViewIs
<1> HIDE DEF g
<1>3. ASSUME NEW i \in Nat \ {0}
      PROVE  /\ w[<<c, i>>] = IF i > n THEN Nothing
                              ELSE IF Hit(r[i], p) THEN Then(Effect(w, r[i].to), w[<<c, i + 1>>])
                              ELSE w[<<c, i + 1>>]
             /\ w[<<c, i>>] \in Results
  <2>1. <<c, i>> \in K \X (Nat \ {0}) /\ <<c, i>>[1] = c /\ <<c, i>>[2] = i
    OBVIOUS
  <2>2. w[<<c, i>>] = Visit(k, t, p, w, <<c, i>>)
    BY <2>1 DEF Walking
  <2> QED BY <2>1, <2>2 DEF Visit
<1> HIDE DEF r
<1>0. n \in Nat
  BY <1>1
<1>4. n \in T
  <2>1. Q(n) = << >> /\ n + 1 \in Nat \ {0} /\ n \in 0..n /\ n + 1 > n
    BY <1>0, <1>1
  <2> HIDE DEF Q, n
  <2> QED BY <1>3, <2>1, FlowEmpty
<1>5. ASSUME NEW i \in 0..(n - 1), i + 1 \in T PROVE i \in T
  <2> DEFINE l == r[i + 1]
             q == Q(i + 1)
             d == l.to
             rest == w[<<c, (i + 1) + 1>>]
  <2>1. i + 1 \in 1..n /\ i \in 0..n /\ i + 1 \in Nat \ {0} /\ ~(i + 1 > n)
        /\ (i + 1) + 1 \in Nat \ {0}
    BY <1>0
  <2>2. l \in S /\ q \in Seq(S) /\ Q(i) = <<l>> \o q
    BY <1>1, <2>1
  <2>3. d # Create /\ (Terminal(d) \/ d \in K) /\ l.chain = c /\ l.table = t
    BY <1>1, <2>1
  <2>4. rest = Flow(g, q) /\ rest \in Results
    BY <1>3, <1>5, <2>1
  <2>5. d \in Targets /\ l \in Lines(C)
    <3>1. l \in Lines(C)
      BY <2>2
    <3> QED BY <3>1 DEF Lines
  <2>6. e[d] = Effect(w, d)
    BY <2>3, <2>5
  <2>7. w[<<c, i + 1>>] = IF Hit(l, p) THEN Then(Effect(w, d), rest) ELSE rest
    BY <1>3, <2>1
  <2> HIDE DEF d, rest, q, Q
  <2>8. Part(g, l) = IF Hit(l, p) THEN e[d] ELSE Nothing
    BY <1>2, <2>3 DEF Part, d
  <2> HIDE DEF l
  <2>9. Flow(g, <<l>> \o q) = Then(Part(g, l), Flow(g, q))
    <3>1. q \in Seq(Lines(C))
      BY <2>2
    <3> QED BY <1>2, <2>5, <3>1, FlowFirst
  <2>10. w[<<c, i + 1>>] = Then(Part(g, l), Flow(g, q))
    BY <2>4, <2>6, <2>7, <2>8, ThenNothing
  <2> QED BY <2>1, <2>2, <2>9, <2>10
<1> HIDE DEF T
<1>6. 0 \in T
  <2>1. 0..n \subseteq T
    <3> HIDE DEF n
    <3>1. \A i \in 0..(n - 1) : i + 1 \in T => i \in T
      BY <1>5
    <3> QED BY <1>0, <1>4, <3>1, DownFrom
  <2>2. 0 \in 0..n
    BY <1>0
  <2> QED BY <2>1, <2>2, Zenon
<1>7. Q(0) = r /\ 0 + 1 = 1
  BY <1>1
<1> QED BY <1>6, <1>7 DEF T, g, r

\* The five hooks.
LEMMA HookIs ==
    ASSUME NEW h \in {"PREROUTING", "INPUT", "FORWARD", "OUTPUT", "POSTROUTING"}
    PROVE  Name(h, 0) \in Hooks
BY DEF Hooks

\* With the effects e, a packet that enters what has been loaded by one of the
\* five hooks meets what the commands do.
Walked(t, p, s, e) ==
    /\ Effects(t, p, s, Known(t, Hooks, s), e)
    /\ \A h \in {"PREROUTING", "INPUT", "FORWARD", "OUTPUT", "POSTROUTING"} :
         Walk(Loaded(s), t, h, p) = Flow(View(t, Name(h, 0), p, e), s)

\* A packet on its way through what has been loaded meets what the commands do.
LEMMA WalkIs ==
    ASSUME NEW t \in Tables, NEW C, NEW S \in SUBSET Lines(C), NEW p,
           NEW s \in Seq(S), Sound(t, Hooks, s), Harmless(t, S, p), Ranked(t, S)
    PROVE  \E e : Walked(t, p, s, e)
<1> DEFINE k == Loaded(s)
           K == Known(t, Hooks, s)
           e0 == [to \in Targets |-> Nothing]
<1>1. e0 \in [Targets -> Results]
  BY NoneType
<1> HIDE DEF e0
<1>2. \A e \in [Targets -> Results] : Holds(t, S, p, e, k, s, K)
  BY LoadedHolds
<1>h. Hooks \subseteq K
  BY DEF Known
<1>3. PICK b \in Nat : \A c \in K : Len(k[<<t, c>>]) <= b
  <2>1. Holds(t, S, p, e0, k, s, K)
    BY <1>1, <1>2
  <2> HIDE DEF k
  <2> QED BY <1>1, <2>1, ChainsBounded
<1>4. ChainsOf(t, S, k, K)
  <2>1. Holds(t, S, p, e0, k, s, K)
    BY <1>1, <1>2
  <2> HIDE DEF k, K
  <2> QED BY <2>1 DEF Holds, ChainsOf, Terminal
<1> HIDE DEF k, K
<1> DEFINE w == CHOOSE x : Walking(t, p, k, K, x)
<1>5. Walking(t, p, k, K, w) /\ \A x \in K \X (Nat \ {0}) : w[x] \in Results
  <2>1. /\ \E x : Walking(t, p, k, K, x)
        /\ \A y : Walking(t, p, k, K, y) => \A x \in K \X (Nat \ {0}) : y[x] \in Results
    BY <1>3, <1>4, WalkExists
  <2>2. Walking(t, p, k, K, w)
    BY <2>1
  <2> HIDE DEF w
  <2> QED BY <2>1, <2>2
<1>w. \A h \in {"PREROUTING", "INPUT", "FORWARD", "OUTPUT", "POSTROUTING"} :
        Walk(k, t, h, p) = w[<<Name(h, 0), 1>>]
  <2>1. Chains(k, t) = K
    <3>1. \A c : <<t, c>> \in DOMAIN k <=> c \in K
      BY <1>4 DEF ChainsOf
    <3>2. \A c : <<t, c>>[2] = c
      OBVIOUS
    <3>3. \A c \in K : c \in {tc[2] : tc \in DOMAIN k}
      BY <3>1, <3>2
    <3> QED BY <3>1, <3>3 DEF Chains
  <2> QED BY <2>1 DEF Walk, Walking
<1> HIDE DEF w
<1> DEFINE e == [to \in Targets |-> IF Terminal(to) \/ to \in K THEN Effect(w, to) ELSE Nothing]
<1>6. ASSUME NEW to \in Targets
      PROVE  /\ to.kind \in Final => Effect(w, to) = [end |-> to, trail |-> << >>]
             /\ to.kind \in Silent => Effect(w, to) = [end |-> None, trail |-> <<to>>]
             /\ ~Terminal(to) => Effect(w, to) = Back(to, w[<<to, 1>>])
             /\ Terminal(to) \/ to \in K => Effect(w, to) \in Results
  <2>1. to.kind \in Final => Effect(w, to) = [end |-> to, trail |-> << >>]
    BY DEF Effect
  <2>2. to.kind \in Silent => Effect(w, to) = [end |-> None, trail |-> <<to>>]
    <3> HAVE to.kind \in Silent
    <3>1. to.kind \notin Final
      BY DEF Silent, Final
    <3> QED BY <3>1 DEF Effect
  <2>3. ~Terminal(to) => Effect(w, to) = Back(to, w[<<to, 1>>])
    BY DEF Terminal, Effect, Back
  <2>4. << >> \in Seq(Targets) /\ <<to>> \in Seq(Targets)
    OBVIOUS
  <2>5. ASSUME to.kind \in Final PROVE Effect(w, to) \in Results
    <3>1. [end |-> to, trail |-> << >>] \in Results
      BY <2>4 DEF Results
    <3> QED BY <2>1, <2>5, <3>1
  <2>6. ASSUME to.kind \in Silent PROVE Effect(w, to) \in Results
    <3>1. [end |-> None, trail |-> <<to>>] \in Results
      BY <2>4, NoneType DEF Results
    <3> QED BY <2>2, <2>6, <3>1
  <2>7. ASSUME ~Terminal(to), to \in K PROVE Effect(w, to) \in Results
    <3> DEFINE r == w[<<to, 1>>]
               o == IF to.kind = "ACC" THEN <<to>> ELSE << >>
    <3>1. r \in Results
      <4>1. <<to, 1>> \in K \X (Nat \ {0})
        BY <2>7
      <4> QED BY <1>5, <4>1, Zenon
    <3> HIDE DEF r
    <3>2. r.end \in Targets /\ r.trail \in Seq(Targets) /\ o \in Seq(Targets)
      BY <2>4, <3>1, ResultFields
    <3> HIDE DEF o
    <3>3. o \o r.trail \in Seq(Targets)
      BY <3>2
    <3>4. Back(to, r) \in Results
      BY <3>2, <3>3, NoneType DEF Back, Results, o
    <3> QED BY <2>3, <2>7, <3>4 DEF r
  <2> QED BY <2>1, <2>2, <2>3, <2>5, <2>6, <2>7 DEF Terminal
<1>7. e \in [Targets -> Results]
  BY <1>6, NoneType
<1>8. \A to \in Targets : Terminal(to) \/ to \in K => e[to] = Effect(w, to)
  OBVIOUS
<1> HIDE DEF e
<1>9. ASSUME NEW c \in K PROVE w[<<c, 1>>] = Flow(View(t, c, p, e), s)
  <2>1. w[<<c, 1>>] = Flow(View(t, c, p, e), k[<<t, c>>])
    <3> HIDE DEF w
    <3>1. /\ S \in SUBSET Lines(C) /\ ChainsOf(t, S, k, K)
          /\ Walking(t, p, k, K, w) /\ \A x \in K \X (Nat \ {0}) : w[x] \in Results
          /\ e \in [Targets -> Results] /\ c \in K
          /\ \A to \in Targets : Terminal(to) \/ to \in K => e[to] = Effect(w, to)
      BY <1>4, <1>5, <1>7, <1>8
    <3> QED BY ONLY <3>1, WalkFlows
  <2>2. Flow(View(t, c, p, e), k[<<t, c>>]) = Flow(View(t, c, p, e), s)
    BY <1>2, <1>7 DEF Holds
  <2> QED BY <2>1, <2>2
<1>10. Effects(t, p, s, K, e)
  <2>1. \A to \in Targets : to.kind \in Final => e[to] = [end |-> to, trail |-> << >>]
    BY <1>6, <1>8 DEF Terminal
  <2>2. \A to \in Targets : to.kind \in Silent => e[to] = [end |-> None, trail |-> <<to>>]
    BY <1>6, <1>8 DEF Terminal
  <2>3. ASSUME NEW to \in K, ~Terminal(to) PROVE e[to] = Back(to, Flow(View(t, to, p, e), s))
    <3>1. to \in Targets
      BY <1>4 DEF ChainsOf
    <3> QED BY <1>6, <1>8, <1>9, <2>3, <3>1
  <2> QED BY <1>7, <2>1, <2>2, <2>3 DEF Effects
<1>11. ASSUME NEW h \in {"PREROUTING", "INPUT", "FORWARD", "OUTPUT", "POSTROUTING"}
       PROVE  Walk(k, t, h, p) = Flow(View(t, Name(h, 0), p, e), s)
  <2>1. Name(h, 0) \in K
    BY <1>h, HookIs
  <2> QED BY <1>9, <1>w, <2>1
<1>12. Walked(t, p, s, e)
  BY <1>10, <1>11 DEF k, K, Walked
<1> QED BY <1>12

(***************************************************************************)
(* What a list of rules does that have one target and a condition each.    *)
(***************************************************************************)
Met(m, p) == p[IF m.dim = "PROTO" THEN "SVC" ELSE m.dim] \in m.vals
AllMet(M, p) == \A m \in M : Met(m, p)
Twice(items, p) == \E i, j \in 1..Len(items) : i # j /\ Met(items[i], p) /\ Met(items[j], p)
Again(r) == Then(r, r) = r
If(b, r) == IF b THEN r ELSE Nothing

\* A command is for the packets that meet all its conditions.
LEMMA HitIs == ASSUME NEW l, NEW p PROVE Hit(l, p) <=> AllMet(l.match, p)
BY DEF Hit, AllMet, Met

\* The fields of a command.
LEMMA RuleIs ==
    ASSUME NEW table, NEW chain, NEW M, NEW to
    PROVE  LET l == Rule(table, chain, M, to)
           IN /\ l = [table |-> table, chain |-> chain, match |-> M, to |-> to]
              /\ l.table = table /\ l.chain = chain /\ l.match = M /\ l.to = to
BY DEF Rule

\* A result or nothing is a result.
LEMMA IfType == ASSUME NEW r \in Results, NEW b PROVE If(b, r) \in Results
BY NoneType DEF If

\* One command for each condition.
LEMMA RulesAre ==
    ASSUME NEW C, NEW table \in Tables, NEW chain \in Targets, NEW to \in Targets,
           NEW items \in Seq(C), NEW more \in SUBSET C
    PROVE  LET r == Rules(table, chain, items, more, to)
           IN /\ r \in Seq(Lines(C)) /\ Len(r) = Len(items)
              /\ \A i \in 1..Len(items) : r[i] = Rule(table, chain, {items[i]} \cup more, to)
<1> DEFINE r == Rules(table, chain, items, more, to)
<1>1. DOMAIN items = 1..Len(items) /\ Len(items) \in Nat
  OBVIOUS
<1>2. r = [i \in 1..Len(items) |-> Rule(table, chain, {items[i]} \cup more, to)]
  BY <1>1 DEF Rules
<1>3. \A i \in 1..Len(items) : Rule(table, chain, {items[i]} \cup more, to) \in Lines(C)
  <2> TAKE i \in 1..Len(items)
  <2>1. {items[i]} \cup more \in SUBSET C
    OBVIOUS
  <2> QED BY <2>1 DEF Rule, Lines
<1> QED BY <1>1, <1>2, <1>3

\* Commands for one condition each, to one target, do what it does once.
LEMMA AnyOf ==
    ASSUME NEW C, NEW t \in Tables, NEW c \in Targets, NEW to \in Targets, to # Create,
           NEW items \in Seq(C), NEW more \in SUBSET C, NEW p, NEW e \in [Targets -> Results],
           NEW x, x => ~Twice(items, p) \/ Again(e[to])
    PROVE  Agrees(x, Flow(View(t, c, p, e), Rules(t, c, items, more, to)),
                  If(AllMet(more, p) /\ \E i \in 1..Len(items) : Met(items[i], p), e[to]))
<1> DEFINE g == View(t, c, p, e)
           r == Rules(t, c, items, more, to)
           Q(i) == SubSeq(r, 1, i)
           any(i) == AllMet(more, p) /\ \E j \in 1..i : Met(items[j], p)
           T == {i \in 0..Len(r) : Agrees(x, Flow(g, Q(i)), If(any(i), e[to]))}
<1>1. Reaction(g) /\ g.table = t /\ g.chain = c /\ g.p = p /\ g.e = e
  BY ViewIs
<1> HIDE DEF g
<1>2. r \in Seq(Lines(C)) /\ Len(r) = Len(items)
      /\ \A i \in 1..Len(items) : r[i] = Rule(t, c, {items[i]} \cup more, to)
  BY RulesAre
<1> HIDE DEF r
<1>3. 0 \in T
  <2>1. Q(0) = << >> /\ 0 \in 0..Len(r) /\ ~any(0)
    BY <1>2
  <2> HIDE DEF Q, any
  <2>2. Flow(g, Q(0)) = If(any(0), e[to])
    BY <2>1, FlowEmpty DEF If
  <2> QED BY <2>1, <2>2, AgreesIs
<1>4. ASSUME NEW i \in 0..(Len(r) - 1), i \in T PROVE i + 1 \in T
  <2> DEFINE q == Q(i)
             l == r[i + 1]
             m == items[i + 1]
  <2>1. q \in Seq(Lines(C)) /\ l \in Lines(C) /\ Q(i + 1) = Append(q, l) /\ i + 1 \in 0..Len(r)
        /\ i + 1 \in 1..Len(items)
    BY <1>2
  <2>2. l = Rule(t, c, {m} \cup more, to)
    BY <1>2, <2>1
  <2>3. Agrees(x, Flow(g, q), If(any(i), e[to]))
    BY <1>4
  <2>a. any(i + 1) <=> any(i) \/ (AllMet(more, p) /\ Met(m, p))
    <3>1. 1..(i + 1) = 1..i \cup {i + 1}
      OBVIOUS
    <3> QED BY <3>1
  <2>b. any(i) /\ Met(m, p) => Twice(items, p)
    <3> SUFFICES ASSUME NEW j \in 1..i, Met(items[j], p), Met(m, p) PROVE Twice(items, p)
      OBVIOUS
    <3>1. j \in 1..Len(items) /\ j # i + 1
      BY <1>2
    <3> QED BY <2>1, <3>1 DEF Twice
  <2> HIDE DEF q, l, m, Q, any
  <2>4. Part(g, l) = If(AllMet(more, p) /\ Met(m, p), e[to])
    <3>1. l.table = t /\ l.chain = c /\ l.to = to /\ l.match = {m} \cup more
      BY <2>2, RuleIs
    <3>2. Hit(l, p) <=> AllMet(more, p) /\ Met(m, p)
      BY <3>1, HitIs DEF AllMet
    <3> QED BY <1>1, <3>1, <3>2 DEF Part, If
  <2>5. Flow(g, Q(i + 1)) = Then(Flow(g, q), Part(g, l))
    BY <2>1, FlowAppend
  <2>6. Flow(g, q) \in Results /\ e[to] \in Results /\ Nothing \in Results
    BY <1>1, <2>1, FlowType, NoneType
  <2>7. CASE ~(AllMet(more, p) /\ Met(m, p))
    <3>1. Flow(g, Q(i + 1)) = Flow(g, q)
      BY <2>4, <2>5, <2>6, <2>7, ThenNothing DEF If
    <3>2. any(i + 1) <=> any(i)
      BY <2>7, <2>a
    <3>3. If(any(i + 1), e[to]) = If(any(i), e[to])
      BY <3>2 DEF If
    <3> QED BY <2>1, <2>3, <3>1, <3>3
  <2>8. CASE AllMet(more, p) /\ Met(m, p)
    <3> DEFINE R == e[to]
    <3>0. Part(g, l) = R /\ If(any(i + 1), R) = R
      BY <2>4, <2>8, <2>a DEF If
    <3> HIDE DEF R
    <3>a. R \in Results
      BY <2>6 DEF R
    <3>1. CASE ~any(i)
      <4>1. Agrees(x, Flow(g, q), Nothing)
        BY <2>3, <3>1 DEF If
      <4>2. Agrees(x, R, R)
        BY AgreesIs
      <4>3. Agrees(x, Then(Flow(g, q), R), Then(Nothing, R))
        BY <2>6, <3>a, <4>1, <4>2, AgreesThen
      <4>4. Then(Nothing, R) = R
        BY <3>a, ThenNothing
      <4> QED BY <2>1, <2>5, <3>0, <4>3, <4>4 DEF R
    <3>2. CASE any(i)
      <4>1. Agrees(x, Flow(g, q), R)
        BY <2>3, <3>2 DEF If, R
      <4>2. Agrees(x, R, R)
        BY AgreesIs
      <4>3. Agrees(x, Then(Flow(g, q), R), Then(R, R))
        BY <2>6, <3>a, <4>1, <4>2, AgreesThen
      <4>4. x => Then(R, R) = R
        BY <2>8, <2>b, <3>2 DEF Again, R
      <4>5. Agrees(Then(R, R) = R, Then(R, R), R)
        BY <3>a, ThenTwice
      <4>6. Agrees(x, Then(R, R), R)
        BY <4>4, <4>5 DEF Agrees
      <4>7. Agrees(x, Then(Flow(g, q), R), R)
        BY <4>3, <4>6 DEF Agrees
      <4> QED BY <2>1, <2>5, <3>0, <4>7 DEF R
    <3> QED BY <3>1, <3>2
  <2> QED BY <2>7, <2>8
<1> HIDE DEF T
<1>5. Len(r) \in T
  <2>0. Len(r) \in Nat /\ \A i \in 0..(Len(r) - 1) : i \in T => i + 1 \in T
    BY <1>2, <1>4
  <2>1. 0..Len(r) \subseteq T
    BY <1>3, <2>0, UpTo
  <2> QED BY <2>0, <2>1
<1>6. Q(Len(r)) = r
  BY <1>2
<1> QED BY <1>2, <1>5, <1>6 DEF T, g, r

(***************************************************************************)
(* The chains of the conditions of a rule.                                 *)
(***************************************************************************)
Return == Name("RETURN", 0)

\* Whether a packet passes a position, whatever conditions it has been given.
Satisfied(q, p) == ~q.neg <=> \E i \in 1..Len(q.items) : Met(q.items[i], p)

\* What generateCompilationString is called with.
GenOK(g, C) ==
    /\ g.table \in Tables /\ g.start \in Hooks /\ g.id \in Nat /\ g.kind \in {"CH", "M1", "M2"}
    /\ g.action \in Targets /\ (Terminal(g.action) \/ g.action.kind \in {"ACC", "LOGCHAIN"})
    /\ g.ps \in Seq(ToSet(g.ps)) /\ Len(g.ps) <= 10
    /\ \A i \in 1..Len(g.ps) : /\ g.ps[i].neg \in BOOLEAN /\ g.ps[i].items \in Seq(C)
                               /\ Len(g.ps[i].items) # 0
    /\ \A i, j \in 1..Len(g.ps) : i < j /\ IsSingle(g.ps[j]) => IsSingle(g.ps[i])
    /\ g.state \subseteq C /\ g.end \subseteq C

\* The chains there are when the onto one is the n-th.
Numbered(g, n) == {ChainOf(g, j) : j \in 1..(n - 1)}

\* The commands for the chain of a position q that leads onto another.
Way(g, here, q, onto) ==
    Rules(g.table, here, q.items, {}, IF q.neg THEN Return ELSE onto)
      \o (IF q.neg THEN <<Rule(g.table, here, {}, onto)>> ELSE << >>)

\* The numbered chains of a rule.
LEMMA ChainIs ==
    ASSUME NEW g, NEW C, GenOK(g, C), NEW n \in Nat
    PROVE  /\ ChainOf(g, n) = [kind |-> g.kind, id |-> g.id, n |-> n]
           /\ ChainOf(g, n) \in Targets /\ ChainOf(g, n).kind = g.kind /\ ChainOf(g, n).id = g.id
           /\ ChainOf(g, n).n = n
           /\ ~Terminal(ChainOf(g, n)) /\ ChainOf(g, n) # Create /\ ChainOf(g, n) # g.action
           /\ ChainOf(g, n) \notin Hooks /\ ChainOf(g, n).kind # "ACC"
<1>1. ChainOf(g, n) = [kind |-> g.kind, id |-> g.id, n |-> n]
  BY DEF ChainOf
<1>2. g.kind \in {"CH", "M1", "M2"} /\ g.id \in Nat
  BY DEF GenOK
<1>3. ChainOf(g, n) \in Targets /\ ChainOf(g, n).kind = g.kind /\ ChainOf(g, n).n = n
      /\ ChainOf(g, n).id = g.id
  BY <1>1, <1>2 DEF Targets, Kinds
<1> DEFINE c == ChainOf(g, n)
<1> HIDE DEF c
<1>4. c.kind \in {"CH", "M1", "M2"}
  BY <1>2, <1>3 DEF c
<1>5. ~Terminal(c) /\ c.kind # "ACC"
  BY <1>4 DEF Terminal, Final, Silent
<1>6. c # Create
  <2>1. Create.kind = "create"
    BY DEF Create, Name
  <2> QED BY <1>4, <2>1
<1>7. c # g.action
  BY <1>4, <1>5 DEF GenOK
<1>8. c \notin Hooks
  <2>1. \A h \in {"PREROUTING", "INPUT", "FORWARD", "OUTPUT", "POSTROUTING"} : Name(h, 0).kind = h
    BY DEF Name
  <2> QED BY <1>4, <2>1 DEF Hooks
<1> QED BY <1>1, <1>3, <1>5, <1>6, <1>7, <1>8 DEF c

\* RETURN is a verdict.
LEMMA ReturnIs ==
    /\ Return \in Targets /\ Return.kind = "RETURN" /\ Return # Create /\ Terminal(Return)
    /\ None.kind = "none" /\ Create.kind = "create"
<1>1. Return = [kind |-> "RETURN", id |-> 0, n |-> 0] /\ None = [kind |-> "none", id |-> 0, n |-> 0]
      /\ Create = [kind |-> "create", id |-> 0, n |-> 0]
  BY DEF Return, Name, None, Create
<1>2. Return.kind = "RETURN" /\ None.kind = "none" /\ Create.kind = "create"
  BY <1>1
<1>3. Return \in Targets
  BY <1>1 DEF Targets, Kinds, Final
<1>4. Terminal(Return)
  BY <1>2 DEF Terminal, Final
<1> QED BY <1>2, <1>3, <1>4

\* An action is a target of its own.
LEMMA ActionIs ==
    ASSUME NEW g, NEW C, GenOK(g, C)
    PROVE  g.action # Create /\ g.action # None
<1>1. g.action.kind \in Final \cup Silent \cup {"ACC", "LOGCHAIN"}
  BY DEF GenOK, Terminal
<1>2. "create" \notin Final \cup Silent \cup {"ACC", "LOGCHAIN"}
      /\ "none" \notin Final \cup Silent \cup {"ACC", "LOGCHAIN"}
  BY DEF Final, Silent
<1> QED BY <1>1, <1>2, ReturnIs

\* What comes back from a chain.
LEMMA BackIs ==
    ASSUME NEW r \in Results, NEW c, c.kind # "ACC"
    PROVE  /\ Back(c, r) \in Results /\ Back(c, r).end.kind # "RETURN"
           /\ r.end.kind # "RETURN" => Back(c, r) = r
           /\ r.end.kind = "RETURN" => Back(c, r) = [end |-> None, trail |-> r.trail]
<1>1. r.trail \in Seq(Targets) /\ r.end \in Targets /\ r = [end |-> r.end, trail |-> r.trail]
  BY ResultFields
<1>2. << >> \o r.trail = r.trail
  BY <1>1
<1>3. Back(c, r) = [end |-> IF r.end.kind = "RETURN" THEN None ELSE r.end, trail |-> r.trail]
  BY <1>2 DEF Back
<1>4. Back(c, r).end = IF r.end.kind = "RETURN" THEN None ELSE r.end
  BY <1>3
<1>5. None.kind = "none" /\ None \in Targets
  BY ReturnIs, NoneType
<1>6. Back(c, r) \in Results
  BY <1>1, <1>3, <1>5 DEF Results
<1> QED BY <1>1, <1>3, <1>4, <1>5, <1>6

\* The commands of one numbered chain.
LEMMA WayType ==
    ASSUME NEW g, NEW C, GenOK(g, C), NEW here \in Targets, NEW onto \in Targets, NEW q,
           q.items \in Seq(C), q.neg \in BOOLEAN
    PROVE  LET w == Way(g, here, q, onto)
           IN /\ w \in Seq(Lines(C))
              /\ \A i \in 1..Len(w) : w[i].table = g.table /\ w[i].chain = here
                                      /\ w[i].to \in {onto} \cup (IF q.neg THEN {Return} ELSE {})
                                      /\ w[i].match \subseteq C
<1> DEFINE to == IF q.neg THEN Return ELSE onto
           items == q.items
           t == g.table
           r == Rules(t, here, items, {}, to)
           l == Rule(t, here, {}, onto)
           tail == IF q.neg THEN <<l>> ELSE << >>
           w == Way(g, here, q, onto)
<1>0. t \in Tables /\ to \in Targets /\ {} \in SUBSET C
  BY ReturnIs DEF GenOK
<1>1. r \in Seq(Lines(C)) /\ Len(r) = Len(items)
      /\ \A i \in 1..Len(items) : r[i] = Rule(t, here, {items[i]} \cup {}, to)
  <2>1. items \in Seq(C) /\ here \in Targets
    OBVIOUS
  <2> HIDE DEF to, items, t
  <2> QED BY <1>0, <2>1, RulesAre
<1>2. l \in Lines(C)
  BY <1>0 DEF Lines, Rule
<1>3. w = r \o tail
  BY DEF Way
<1> HIDE DEF r, l
<1>4. tail \in Seq(Lines(C)) /\ (Len(tail) = 0 \/ (q.neg /\ Len(tail) = 1 /\ tail[1] = l))
  BY <1>2
<1> HIDE DEF tail, w
<1>5. w \in Seq(Lines(C)) /\ Len(w) = Len(r) + Len(tail)
      /\ (\A i \in 1..Len(r) : w[i] = r[i])
      /\ (\A j \in 1..Len(tail) : w[Len(r) + j] = tail[j])
  BY <1>1, <1>3, <1>4
<1>6. ASSUME NEW i \in 1..Len(w)
      PROVE  /\ w[i].table = g.table /\ w[i].chain = here
             /\ w[i].to \in {onto} \cup (IF q.neg THEN {Return} ELSE {}) /\ w[i].match \subseteq C
  <2>0. w[i] \in Lines(C)
    BY <1>5
  <2>m. w[i].match \subseteq C
    BY <2>0 DEF Lines
  <2>1. CASE i <= Len(r)
    <3>1. i \in 1..Len(r) /\ i \in 1..Len(items) /\ w[i] = r[i]
      BY <1>1, <1>5, <2>1
    <3> HIDE DEF items
    <3>2. w[i] = Rule(t, here, {items[i]} \cup {}, to)
      BY <1>1, <3>1
    <3> QED BY <2>m, <3>2, RuleIs
  <2>2. CASE i > Len(r)
    <3> DEFINE j == i - Len(r)
    <3>1. i = Len(r) + j /\ j \in 1..Len(tail)
      <4>1. Len(r) \in Nat /\ Len(tail) \in Nat
        BY <1>1, <1>4
      <4> QED BY <1>5, <2>2, <4>1
    <3> HIDE DEF j
    <3>2. w[i] = tail[j]
      BY <1>5, <3>1
    <3>a. ~(Len(tail) = 0)
      BY <3>1
    <3>b. q.neg /\ Len(tail) = 1 /\ tail[1] = l
      BY <1>4, <3>a, Zenon
    <3>3. q.neg /\ j = 1 /\ tail[1] = l
      BY <3>1, <3>b
    <3>4. w[i] = l
      BY <3>2, <3>3
    <3> QED BY <2>m, <3>3, <3>4, RuleIs DEF l
  <2> QED BY <1>1, <2>1, <2>2
<1> QED BY <1>5, <1>6 DEF w

\* A chain leads on exactly what passes its position.
LEMMA WayIs ==
    ASSUME NEW g, NEW C, GenOK(g, C), NEW here \in Targets, here.kind # "ACC",
           NEW onto \in Targets, onto # Create,
           NEW q, q.items \in Seq(C), q.neg \in BOOLEAN, NEW p,
           NEW e \in [Targets -> Results], e[Return] = [end |-> Return, trail |-> << >>],
           e[onto].end.kind # "RETURN", NEW x, x => ~Twice(q.items, p) \/ Again(e[onto])
    PROVE  Agrees(x, Back(here, Flow(View(g.table, here, p, e), Way(g, here, q, onto))),
                  If(Satisfied(q, p), e[onto]))
<1> DEFINE t == g.table
           v == View(t, here, p, e)
           items == q.items
           any == \E i \in 1..Len(items) : Met(items[i], p)
           X == e[onto]
<1>0. t \in Tables /\ items \in Seq(C) /\ {} \in SUBSET C /\ X \in Results
      /\ (x => ~Twice(items, p) \/ Again(X))
  BY DEF GenOK
<1>1. Reaction(v) /\ v.table = t /\ v.chain = here /\ v.p = p /\ v.e = e
  BY ViewIs
<1>e. AllMet({}, p)
  BY DEF AllMet
<1>2. CASE ~q.neg
  <2> DEFINE r == Rules(t, here, items, {}, onto)
  <2>1. Agrees(x, Flow(v, r), If(AllMet({}, p) /\ any, X))
    <3> HIDE DEF t, items, X
    <3> USE DEF X
    <3> QED BY <1>0, AnyOf
  <2>2. Way(g, here, q, onto) = r
    <3>1. r \in Seq(Lines(C))
      BY <1>0, RulesAre
    <3> HIDE DEF r
    <3>2. r \o << >> = r
      BY <3>1
    <3> QED BY <1>2, <3>2 DEF Way, r
  <2>3. If(AllMet({}, p) /\ any, X) = If(Satisfied(q, p), X)
    <3>1. (AllMet({}, p) /\ any) <=> Satisfied(q, p)
      BY <1>2, <1>e DEF Satisfied
    <3> QED BY <3>1 DEF If
  <2> DEFINE f == Flow(v, r)
  <2>4. f \in Results
    <3>1. r \in Seq(Lines(C))
      BY <1>0, RulesAre
    <3> HIDE DEF r, v
    <3> QED BY <1>1, <3>1, FlowType
  <2>5. f.end.kind # "RETURN"
    <3>1. f.end = X.end \/ f.end = None
      BY <2>1, NoneType DEF Agrees, If
    <3> QED BY <3>1, ReturnIs
  <2> HIDE DEF f, r
  <2>6. Back(here, f) = f
    BY <2>4, <2>5, BackIs
  <2> QED BY <2>1, <2>2, <2>3, <2>6 DEF f
<1>3. CASE q.neg
  <2> DEFINE r == Rules(t, here, items, {}, Return)
             l == Rule(t, here, {}, onto)
             R == e[Return]
             f == Flow(v, r)
             tail == <<l>>
  <2>0. r \in Seq(Lines(C)) /\ l \in Lines(C)
    <3>1. r \in Seq(Lines(C))
      BY <1>0, ReturnIs, RulesAre
    <3>2. l \in Lines(C)
      BY <1>0 DEF Lines, Rule
    <3> QED BY <3>1, <3>2
  <2>r. R.end = Return /\ R.trail = << >> /\ R \in Results /\ R.end # None
    BY ReturnIs
  <2>1. Again(R)
    <3> HIDE DEF R
    <3> QED BY <2>r, ThenTwice DEF Again
  <2>2. Agrees(TRUE, f, If(AllMet({}, p) /\ any, R))
    <3> HIDE DEF t, items, R
    <3> USE DEF R
    <3> QED BY <1>0, <2>1, ReturnIs, AnyOf
  <2>3. Way(g, here, q, onto) = r \o tail
    BY <1>3 DEF Way
  <2>4. Flow(v, r \o tail) = Then(f, Flow(v, tail)) /\ Flow(v, tail) = Part(v, l) /\ f \in Results
    <3> HIDE DEF v, r, l
    <3>1. tail \in Seq(Lines(C))
      BY <2>0
    <3>2. Flow(v, tail) = Part(v, l)
      BY <1>1, <2>0, FlowOne
    <3> HIDE DEF tail
    <3>3. Flow(v, r \o tail) = Then(Flow(v, r), Flow(v, tail))
      BY <1>1, <2>0, <3>1, FlowConcat
    <3>4. Flow(v, r) \in Results
      BY <1>1, <2>0, FlowType
    <3> QED BY <3>2, <3>3, <3>4
  <2>5. Part(v, l) = X
    <3>1. l.table = t /\ l.chain = here /\ l.to = onto /\ l.match = {}
      BY RuleIs
    <3>2. Hit(l, p)
      BY <1>e, <3>1, HitIs
    <3> HIDE DEF l, v, t
    <3> QED BY <1>1, <3>1, <3>2 DEF Part
  <2> HIDE DEF r, l, v, tail, f, R, X
  <2>6. CASE any
    <3>1. f = R
      <4>1. If(AllMet({}, p) /\ any, R) = R
        BY <1>e, <2>6 DEF If
      <4>2. f.end = R.end /\ f.trail = R.trail
        BY <2>2, <4>1 DEF Agrees
      <4> QED BY <2>4, <2>r, <4>2, ResultFields
    <3>2. Flow(v, r \o tail) = R
      BY <2>4, <2>r, <3>1 DEF Then
    <3>3. Back(here, R) = [end |-> None, trail |-> << >>]
      BY <2>r, BackIs, ReturnIs
    <3>4. ~Satisfied(q, p)
      BY <1>3, <2>6 DEF Satisfied
    <3>5. Back(here, Flow(v, r \o tail)) = If(Satisfied(q, p), X)
      BY <3>2, <3>3, <3>4 DEF If, Nothing
    <3> QED BY <2>3, <3>5, AgreesIs DEF v, X
  <2>7. CASE ~any
    <3>1. f = Nothing
      <4>1. If(AllMet({}, p) /\ any, R) = Nothing
        BY <2>7 DEF If
      <4>2. f.end = Nothing.end /\ f.trail = Nothing.trail
        BY <2>2, <4>1 DEF Agrees
      <4> QED BY <2>4, <4>2, NoneType, ResultFields
    <3>2. Flow(v, r \o tail) = X
      BY <1>0, <2>4, <2>5, <3>1, ThenNothing
    <3>3. Back(here, X) = X
      BY <1>0, BackIs DEF X
    <3>4. Satisfied(q, p)
      BY <1>3, <2>7 DEF Satisfied
    <3>5. Back(here, Flow(v, r \o tail)) = If(Satisfied(q, p), X)
      BY <3>2, <3>3, <3>4 DEF If
    <3> QED BY <2>3, <3>5, AgreesIs DEF v, X
  <2> QED BY <2>6, <2>7
<1> QED BY <1>2, <1>3

(***************************************************************************)
(* The loop over the positions.                                            *)
(***************************************************************************)
LineOK(g, n, l) ==
    /\ l.table = g.table /\ l.chain \in {g.start} \cup Numbered(g, n)
    /\ l.to = Create => l.chain \in Numbered(g, n)
    /\ l.to # Create => Terminal(l.to) \/ Rank(l.to) < Rank(l.chain)

Jump(g, s) == Rule(g.table, g.start, s.open \cup g.state, ChainOf(g, 1))
\* The commands with which what has been opened is left for the next chain.
Opened(g, s) == IF s.n = 1 THEN Append(s.lines, Jump(g, s)) ELSE s.lines
Onto(g, n, i) == IF n > 1 /\ i = Len(g.ps) THEN g.action ELSE ChainOf(g, n)

Building(g, C, i, s) ==
    /\ s \in [n : 1..(i + 1), open : SUBSET C, lines : Seq(Lines(C))]
    /\ \A k \in 1..Len(s.lines) : LineOK(g, s.n, s.lines[k])

\* Conditions that the firewall takes in a rule of a chain.
Fit(c, M) ==
    \A m \in M : m.ports <= MultiportLimit /\ (c = Name("PREROUTING", 0) => m.dim # "OUT")

\* What the commands need to be taken: the chain they start in and the ones
\* they lead to, and none of those they create.
Takes(g, n, onto, K) ==
    /\ g.start \in K /\ (Terminal(g.action) \/ g.action \in K) /\ (Terminal(onto) \/ onto \in K)
    /\ K \cap Numbered(g, n) = {}

\* A command whose chains are there.
Reach(t, K, l) ==
    l.table = t =>
      IF l.to = Create THEN l.chain \notin K
      ELSE l.chain \in K /\ (Terminal(l.to) \/ l.to \in K)

Placed(t, K, s) == \A i \in 1..Len(s) : Reach(t, Known(t, K, SubSeq(s, 1, i - 1)), s[i])

Loads(g, n, onto, lines) ==
    \A K : Takes(g, n, onto, K) =>
        Placed(g.table, K, lines) /\ Known(g.table, K, lines) = K \cup Numbered(g, n)

Once(g, p) == \A j \in 1..Len(g.ps) : ~Twice(g.ps[j].items, p)

\* e is what happens at the chains that the lines are, and at where they lead.
Linked(g, p, e, n, lines, onto, x) ==
    /\ e \in [Targets -> Results] /\ e[Return] = [end |-> Return, trail |-> << >>]
    /\ e[onto].end.kind # "RETURN"
    /\ \A j \in 1..(n - 1) : e[ChainOf(g, j)] =
         Back(ChainOf(g, j), Flow(View(g.table, ChainOf(g, j), p, e), lines))
    /\ x => Once(g, p) \/ Again(e[onto])

Passes(g, i, p) == AllMet(g.state, p) /\ \A j \in 1..i : Satisfied(g.ps[j], p)

Leads(g, n, onto, i, lines) ==
    \A p, e, x : Linked(g, p, e, n, lines, onto, x) =>
        Agrees(x, Flow(View(g.table, g.start, p, e), lines), If(Passes(g, i, p), e[onto]))

\* A later chain has a lower rank, and the action a lower one still.
LEMMA RankIs ==
    ASSUME NEW g, NEW C, GenOK(g, C)
    PROVE  /\ \A n \in 0..20 : Rank(ChainOf(g, n)) = 30 - n
           /\ Rank(g.start) = 40 /\ (Terminal(g.action) \/ Rank(g.action) \in {1, 2})
<1>1. ASSUME NEW n \in 0..20 PROVE Rank(ChainOf(g, n)) = 30 - n
  <2> DEFINE c == ChainOf(g, n)
  <2>0. n \in Nat
    OBVIOUS
  <2>1. c.n = n /\ c.kind = g.kind
    BY <2>0, ChainIs
  <2>2. g.kind \in {"CH", "M1", "M2"}
    BY DEF GenOK
  <2> HIDE DEF c
  <2>3. Rank(c) = 30 - n
    BY <2>1, <2>2 DEF Rank
  <2> QED BY <2>3 DEF c
<1>2. Rank(g.start) = 40
  <2>1. \A h \in {"PREROUTING", "INPUT", "FORWARD", "OUTPUT", "POSTROUTING"} : Name(h, 0).kind = h
    BY DEF Name
  <2>2. g.start.kind \in {"PREROUTING", "INPUT", "FORWARD", "OUTPUT", "POSTROUTING"}
    BY <2>1 DEF GenOK, Hooks
  <2> DEFINE c == g.start
  <2> HIDE DEF c
  <2>3. Rank(c) = 40
    BY <2>2 DEF Rank, c
  <2> QED BY <2>3 DEF c
<1>3. Terminal(g.action) \/ Rank(g.action) \in {1, 2}
  <2> DEFINE c == g.action
  <2>1. Terminal(c) \/ c.kind \in {"ACC", "LOGCHAIN"}
    BY DEF GenOK
  <2> HIDE DEF c
  <2>2. Terminal(c) \/ Rank(c) \in {1, 2}
    BY <2>1 DEF Rank
  <2> QED BY <2>2 DEF c
<1> QED BY <1>1, <1>2, <1>3

\* One more numbered chain.
LEMMA NumberedIs ==
    ASSUME NEW g, NEW C, GenOK(g, C), NEW n \in Nat \ {0}
    PROVE  /\ Numbered(g, n + 1) = Numbered(g, n) \cup {ChainOf(g, n)}
           /\ ChainOf(g, n) \notin Numbered(g, n) /\ Numbered(g, 1) = {}
           /\ Numbered(g, n) \subseteq Targets
           /\ Numbered(g, n) \cap Hooks = {} /\ g.start \notin Numbered(g, n)
           /\ ChainOf(g, n) # g.start
<1>1. \A i, j \in Nat : ChainOf(g, i) = ChainOf(g, j) => i = j
  <2> TAKE i, j \in Nat
  <2>1. ChainOf(g, i).n = i /\ ChainOf(g, j).n = j
    BY ChainIs
  <2> QED BY <2>1
<1>2. 1..((n + 1) - 1) = 1..(n - 1) \cup {n} /\ n \notin 1..(n - 1)
  OBVIOUS
<1>3. \A j \in Nat : ChainOf(g, j) \in Targets /\ ChainOf(g, j) \notin Hooks
  BY ChainIs
<1>4. g.start \in Hooks
  BY DEF GenOK
<1>5. Numbered(g, n + 1) = Numbered(g, n) \cup {ChainOf(g, n)}
  BY <1>2 DEF Numbered
<1>6. ChainOf(g, n) \notin Numbered(g, n)
  BY <1>1, <1>2 DEF Numbered
<1>7. Numbered(g, 1) = {}
  BY DEF Numbered
<1>8. Numbered(g, n) \subseteq Targets /\ Numbered(g, n) \cap Hooks = {}
  BY <1>3 DEF Numbered
<1> QED BY <1>3, <1>4, <1>5, <1>6, <1>7, <1>8

\* A list for one chain that is there.
LEMMA PlacedRules ==
    ASSUME NEW t, NEW K, NEW S, NEW s \in Seq(S), NEW c \in K,
           \A i \in 1..Len(s) : /\ s[i].chain = c /\ s[i].to # Create
                                /\ (Terminal(s[i].to) \/ s[i].to \in K)
    PROVE  Placed(t, K, s) /\ Known(t, K, s) = K
<1>1. \A r \in Seq(S) : (\A i \in 1..Len(r) : r[i].to # Create) => Known(t, K, r) = K
  <2> TAKE r \in Seq(S)
  <2>1. ToSet(r) = {r[i] : i \in 1..Len(r)}
    BY ToSetIs
  <2> QED BY <2>1 DEF Known
<1>2. Known(t, K, s) = K
  BY <1>1
<1>3. ASSUME NEW i \in 1..Len(s) PROVE Reach(t, Known(t, K, SubSeq(s, 1, i - 1)), s[i])
  <2> DEFINE r == SubSeq(s, 1, i - 1)
  <2>1. r \in Seq(S) /\ \A j \in 1..Len(r) : r[j] = s[j] /\ j \in 1..Len(s)
    OBVIOUS
  <2> HIDE DEF r
  <2>2. Known(t, K, r) = K
    BY <1>1, <2>1
  <2>3. Reach(t, K, s[i])
    BY DEF Reach
  <2> QED BY <2>2, <2>3 DEF r
<1> QED BY <1>2, <1>3 DEF Placed
\* A list is placed that goes on in its place.
LEMMA PlacedConcat ==
    ASSUME NEW t, NEW K, NEW S, NEW s \in Seq(S), NEW r \in Seq(S),
           Placed(t, K, s), Placed(t, Known(t, K, s), r)
    PROVE  Placed(t, K, s \o r)
<1> SUFFICES ASSUME NEW i \in 1..Len(s \o r)
             PROVE  Reach(t, Known(t, K, SubSeq(s \o r, 1, i - 1)), (s \o r)[i])
  BY DEF Placed
<1>1. CASE i <= Len(s)
  <2>1. SubSeq(s \o r, 1, i - 1) = SubSeq(s, 1, i - 1) /\ (s \o r)[i] = s[i] /\ i \in 1..Len(s)
    BY <1>1
  <2> QED BY <2>1 DEF Placed
<1>2. CASE i > Len(s)
  <2> DEFINE j == i - Len(s)
             q == SubSeq(r, 1, j - 1)
  <2>1. SubSeq(s \o r, 1, i - 1) = s \o q /\ (s \o r)[i] = r[j] /\ j \in 1..Len(r) /\ q \in Seq(S)
    BY <1>2
  <2>2. Reach(t, Known(t, Known(t, K, s), q), r[j])
    BY <2>1 DEF Placed
  <2> HIDE DEF j, q
  <2>3. Known(t, K, s \o q) = Known(t, Known(t, K, s), q)
    BY <2>1, KnownConcat
  <2> QED BY <2>1, <2>2, <2>3
<1> QED BY <1>1, <1>2

\* A list of one command is placed.
LEMMA PlacedOne ==
    ASSUME NEW t, NEW K, NEW l, Reach(t, K, l)
    PROVE  Placed(t, K, <<l>>)
<1> SUFFICES ASSUME NEW i \in 1..Len(<<l>>) PROVE Reach(t, Known(t, K, SubSeq(<<l>>, 1, i - 1)), <<l>>[i])
  BY DEF Placed
<1>1. i = 1 /\ <<l>>[1] = l
  OBVIOUS
<1>2. SubSeq(<<l>>, 1, i - 1) = << >>
  BY <1>1
<1>3. Known(t, K, << >>) = K
  BY DEF Known, ToSet
<1> QED BY <1>1, <1>2, <1>3

\* Sound commands are the ones that are placed, with conditions that are taken.
LEMMA SoundPlaced ==
    ASSUME NEW t, NEW K, NEW s, Placed(t, K, s),
           \A i \in 1..Len(s) : s[i].table = t /\ s[i].to # Create => Fit(s[i].chain, s[i].match)
    PROVE  Sound(t, K, s)
BY DEF Sound, Placed, Ready, Reach, Fit, Terminal

(***************************************************************************)
(* A position gets a chain.                                                *)
(***************************************************************************)
Grown(g, s, here, q, onto) ==
    (<<New(g.table, here)>> \o Opened(g, s)) \o Way(g, here, q, onto)

\* The elements of a concatenation, by their places.
LEMMA ConcatSeq ==
    ASSUME NEW S, NEW r \in Seq(S), NEW s \in Seq(S)
    PROVE  /\ r \o s \in Seq(S) /\ Len(r \o s) = Len(r) + Len(s)
           /\ \A i \in 1..Len(r \o s) : (i \in 1..Len(r) /\ (r \o s)[i] = r[i])
                \/ (i - Len(r) \in 1..Len(s) /\ (r \o s)[i] = s[i - Len(r)])
OBVIOUS

\* The command that creates a chain.
LEMMA NewIs ==
    ASSUME NEW C, NEW t \in Tables, NEW c \in Targets
    PROVE  LET l == New(t, c)
           IN l \in Lines(C) /\ l.table = t /\ l.chain = c /\ l.to = Create /\ l.match = {}
<1>1. New(t, c) = [table |-> t, chain |-> c, match |-> {}, to |-> Create]
  BY DEF New
<1>2. Create \in Targets
  BY HooksAre
<1> QED BY <1>1, <1>2 DEF Lines

\* The command that leaves for the first numbered chain.
LEMMA JumpIs ==
    ASSUME NEW g, NEW C, GenOK(g, C), NEW s, s.open \subseteq C
    PROVE  LET l == Jump(g, s)
           IN /\ l \in Lines(C) /\ l.table = g.table /\ l.chain = g.start
              /\ l.to = ChainOf(g, 1) /\ l.to # Create /\ l.match \subseteq C /\ LineOK(g, 1, l)
<1> DEFINE l == Jump(g, s)
           M == s.open \cup g.state
           to == ChainOf(g, 1)
<1>1. l.table = g.table /\ l.chain = g.start /\ l.to = to /\ l.match = M
      /\ l = [table |-> g.table, chain |-> g.start, match |-> M, to |-> to]
  <2> HIDE DEF M, to
  <2>1. l = [table |-> g.table, chain |-> g.start, match |-> M, to |-> to]
    BY DEF Jump, Rule, M, to
  <2> HIDE DEF l
  <2> QED BY <2>1
<1>2. to \in Targets /\ to # Create
  <2>1. 1 \in Nat
    OBVIOUS
  <2> QED BY <2>1, ChainIs
<1>3. M \subseteq C /\ g.table \in Tables /\ g.start \in Targets
  BY HooksAre DEF GenOK
<1>4. Rank(to) = 30 - 1 /\ Rank(g.start) = 40
  <2>1. 1 \in 0..20
    OBVIOUS
  <2> QED BY <2>1, RankIs
<1> HIDE DEF M, to, l
<1>5. l \in Lines(C)
  BY <1>1, <1>2, <1>3 DEF Lines
<1>6. LineOK(g, 1, l)
  BY <1>1, <1>2, <1>4 DEF LineOK
<1> QED BY <1>1, <1>2, <1>3, <1>5, <1>6 DEF l, to

\* What has been built, with the jump to the first chain, is commands.
LEMMA OpenedType ==
    ASSUME NEW g, NEW C, GenOK(g, C), NEW i \in Nat, NEW s, Building(g, C, i, s)
    PROVE  /\ Opened(g, s) \in Seq(Lines(C))
           /\ \A k \in 1..Len(Opened(g, s)) : LineOK(g, s.n, Opened(g, s)[k])
<1>1. s.n \in 1..(i + 1) /\ s.open \subseteq C /\ s.lines \in Seq(Lines(C))
      /\ \A k \in 1..Len(s.lines) : LineOK(g, s.n, s.lines[k])
  BY DEF Building
<1>2. CASE s.n = 1
  <2> DEFINE l == Jump(g, s)
             r == s.lines
             o == Append(r, l)
  <2>1. l \in Lines(C) /\ LineOK(g, 1, l)
    BY <1>1, JumpIs
  <2>2. Opened(g, s) = o
    BY <1>2 DEF Opened
  <2>r. r \in Seq(Lines(C)) /\ \A k \in 1..Len(r) : LineOK(g, 1, r[k])
    BY <1>1, <1>2
  <2> HIDE DEF l, r
  <2>3. o \in Seq(Lines(C)) /\ \A k \in 1..Len(o) : (k \in 1..Len(r) /\ o[k] = r[k]) \/ o[k] = l
    BY <2>1, <2>r
  <2> HIDE DEF o
  <2>4. \A k \in 1..Len(o) : LineOK(g, 1, o[k])
    BY <2>1, <2>3, <2>r
  <2> QED BY <1>2, <2>2, <2>3, <2>4
<1>3. CASE s.n # 1
  BY <1>1, <1>3 DEF Opened
<1> QED BY <1>2, <1>3

\* What was in order with fewer chains is with one more.
LEMMA LineOKGrows ==
    ASSUME NEW g, NEW C, GenOK(g, C), NEW n \in Nat \ {0}, NEW l, LineOK(g, n, l)
    PROVE  LineOK(g, n + 1, l)
<1>1. Numbered(g, n) \subseteq Numbered(g, n + 1)
  BY NumberedIs
<1> QED BY <1>1 DEF LineOK

\* With one more chain the commands are in order.
LEMMA GrownType ==
    ASSUME NEW g, NEW C, GenOK(g, C), NEW i \in 0..9, NEW s, Building(g, C, i, s),
           NEW q, q.items \in Seq(C), q.neg \in BOOLEAN,
           NEW onto, onto \in {g.action, ChainOf(g, s.n + 1)}
    PROVE  LET r == Grown(g, s, ChainOf(g, s.n), q, onto)
           IN r \in Seq(Lines(C)) /\ \A k \in 1..Len(r) : LineOK(g, s.n + 1, r[k])
<1> DEFINE n == s.n
           here == ChainOf(g, n)
           o == Opened(g, s)
           w == Way(g, here, q, onto)
           t == g.table
           N == New(t, here)
           h == <<N>>
           r == Grown(g, s, here, q, onto)
<1>1. n \in 1..(i + 1) /\ n \in Nat \ {0} /\ n \in Nat /\ n + 1 \in Nat /\ n \in 0..20 /\ n + 1 \in 0..20
  <2>1. n \in 1..(i + 1)
    BY DEF Building
  <2> HIDE DEF n
  <2> QED BY <2>1
<1> HIDE DEF n
<1>2. here \in Targets /\ onto \in Targets /\ onto # Create
  <2>1. here \in Targets
    BY <1>1, ChainIs
  <2>2. ChainOf(g, n + 1) \in Targets /\ ChainOf(g, n + 1) # Create
    BY <1>1, ChainIs
  <2>3. g.action \in Targets /\ g.action # Create
    BY ActionIs DEF GenOK
  <2> HIDE DEF here
  <2> QED BY <2>1, <2>2, <2>3 DEF n
<1>3. Terminal(onto) \/ Rank(onto) < Rank(here)
  <2>1. Rank(here) = 30 - n /\ Rank(ChainOf(g, n + 1)) = 30 - (n + 1)
        /\ (Terminal(g.action) \/ Rank(g.action) \in {1, 2})
    BY <1>1, RankIs
  <2>2. Rank(here) > 2 /\ Rank(ChainOf(g, n + 1)) < Rank(here)
    BY <1>1, <2>1
  <2> HIDE DEF here
  <2>3. CASE onto = g.action
    <3>1. Terminal(onto) \/ Rank(onto) \in {1, 2}
      BY <2>1, <2>3
    <3>2. Rank(here) \in Nat
      BY <1>2, RankType
    <3> QED BY <2>2, <3>1, <3>2
  <2>4. CASE onto = ChainOf(g, n + 1)
    <3> DEFINE c == ChainOf(g, n + 1)
    <3> HIDE DEF c
    <3> QED BY <2>2, <2>4 DEF c
  <2> QED BY <2>3, <2>4 DEF n
<1>4. here \in Numbered(g, n + 1)
  BY <1>1, NumberedIs
<1> HIDE DEF here
<1>5. o \in Seq(Lines(C)) /\ \A k \in 1..Len(o) : LineOK(g, n, o[k])
  <2>1. i \in Nat
    OBVIOUS
  <2> QED BY <2>1, OpenedType DEF n
<1>6. w \in Seq(Lines(C)) /\ \A k \in 1..Len(w) : LineOK(g, n + 1, w[k])
  <2>1. w \in Seq(Lines(C))
        /\ \A k \in 1..Len(w) : w[k].table = g.table /\ w[k].chain = here
                                /\ w[k].to \in {onto} \cup (IF q.neg THEN {Return} ELSE {})
    BY <1>2, WayType
  <2> HIDE DEF w
  <2>2. \A k \in 1..Len(w) : w[k].to = onto \/ w[k].to = Return
    BY <2>1
  <2>3. \A k \in 1..Len(w) : LineOK(g, n + 1, w[k])
    BY <1>2, <1>3, <1>4, <2>1, <2>2, ReturnIs DEF LineOK
  <2> QED BY <2>1, <2>3
<1>7. N \in Lines(C) /\ LineOK(g, n + 1, N)
  <2>1. t \in Tables
    BY DEF GenOK
  <2>2. N \in Lines(C) /\ N.table = t /\ N.chain = here /\ N.to = Create
    <3> HIDE DEF t
    <3>1. here \in Targets
      BY <1>2
    <3> HIDE DEF o, w, n
    <3> QED BY <2>1, <3>1, NewIs
  <2> HIDE DEF N
  <2> QED BY <1>4, <2>2 DEF LineOK
<1> HIDE DEF N, o, w
<1>8. h \in Seq(Lines(C)) /\ \A k \in 1..Len(h) : LineOK(g, n + 1, h[k])
  BY <1>7
<1>9. \A k \in 1..Len(o) : LineOK(g, n + 1, o[k])
  BY <1>1, <1>5, LineOKGrows
<1> DEFINE a == h \o o
<1> HIDE DEF h
<1>10. a \in Seq(Lines(C)) /\ \A k \in 1..Len(a) : LineOK(g, n + 1, a[k])
  <2>1. \A k \in 1..Len(a) : (k \in 1..Len(h) /\ a[k] = h[k])
                             \/ (k - Len(h) \in 1..Len(o) /\ a[k] = o[k - Len(h)])
    BY <1>5, <1>8, ConcatSeq
  <2>2. a \in Seq(Lines(C))
    BY <1>5, <1>8
  <2> HIDE DEF a
  <2> QED BY <1>8, <1>9, <2>1, <2>2
<1> HIDE DEF a
<1> DEFINE b == a \o w
<1>11. b \in Seq(Lines(C)) /\ \A k \in 1..Len(b) : LineOK(g, n + 1, b[k])
  <2>1. \A k \in 1..Len(b) : (k \in 1..Len(a) /\ b[k] = a[k])
                             \/ (k - Len(a) \in 1..Len(w) /\ b[k] = w[k - Len(a)])
    BY <1>6, <1>10, ConcatSeq
  <2>2. b \in Seq(Lines(C))
    BY <1>6, <1>10
  <2> HIDE DEF b
  <2> QED BY <1>6, <1>10, <2>1, <2>2
<1>12. r = b
  BY DEF Grown, b, a, h, N, o, w
<1> QED BY <1>11, <1>12 DEF n, here

\* With one more chain the commands load.
LEMMA GrownLoads ==
    ASSUME NEW g, NEW C, GenOK(g, C), NEW i \in 0..9, NEW s, Building(g, C, i, s),
           NEW q, q.items \in Seq(C), q.neg \in BOOLEAN,
           NEW onto, onto \in {g.action, ChainOf(g, s.n + 1)},
           Loads(g, s.n, ChainOf(g, s.n), Opened(g, s))
    PROVE  Loads(g, s.n + 1, onto, Grown(g, s, ChainOf(g, s.n), q, onto))
<1> DEFINE n == s.n
           t == g.table
           here == ChainOf(g, n)
           o == Opened(g, s)
           w == Way(g, here, q, onto)
           N == New(t, here)
           h == <<N>>
           r == Grown(g, s, here, q, onto)
<1>0. r = (h \o o) \o w
  BY DEF Grown
<1>1. n \in Nat \ {0} /\ n \in Nat /\ n + 1 \in Nat
  <2>1. n \in 1..(i + 1)
    BY DEF Building
  <2> HIDE DEF n
  <2> QED BY <2>1
<1>i. i \in Nat
  OBVIOUS
<1>2. o \in Seq(Lines(C))
  BY <1>i, OpenedType
<1>L. Loads(g, n, here, o)
  OBVIOUS
<1> HIDE DEF n, o
<1>3. here \in Targets /\ here \notin Hooks /\ here # Create
  BY <1>1, ChainIs
<1>c. Numbered(g, n + 1) = Numbered(g, n) \cup {here} /\ here \notin Numbered(g, n)
  BY <1>1, NumberedIs
<1>o. onto \in Targets /\ onto # Create
  <2>1. ChainOf(g, n + 1) \in Targets /\ ChainOf(g, n + 1) # Create
    BY <1>1, ChainIs
  <2>2. g.action \in Targets /\ g.action # Create
    BY ActionIs DEF GenOK
  <2> QED BY <2>1, <2>2 DEF n
<1> HIDE DEF here
<1>t. t \in Tables
  BY DEF GenOK
<1>4. w \in Seq(Lines(C))
      /\ \A k \in 1..Len(w) : w[k].table = t /\ w[k].chain = here
                              /\ w[k].to \in {onto} \cup (IF q.neg THEN {Return} ELSE {})
  <2> DEFINE v == Way(g, here, q, onto)
  <2>1. /\ GenOK(g, C) /\ here \in Targets /\ onto \in Targets
        /\ q.items \in Seq(C) /\ q.neg \in BOOLEAN
    BY <1>3, <1>o
  <2>2. /\ v \in Seq(Lines(C))
        /\ \A k \in 1..Len(v) : v[k].table = g.table /\ v[k].chain = here
              /\ v[k].to \in {onto} \cup (IF q.neg THEN {Return} ELSE {})
    BY ONLY <2>1, WayType
  <2> HIDE DEF N, r, v
  <2> QED BY <2>2 DEF v
<1>5. N \in Lines(C) /\ N.table = t /\ N.chain = here /\ N.to = Create
  <2> HIDE DEF t, w
  <2> QED BY <1>3, <1>t, NewIs
<1> HIDE DEF w, N, t, r
<1> SUFFICES ASSUME NEW K, Takes(g, n + 1, onto, K)
             PROVE  Placed(t, K, r) /\ Known(t, K, r) = K \cup Numbered(g, n + 1)
  BY DEF Loads, n, here, t, r
<1> DEFINE K1 == K \cup {here}
           K2 == K1 \cup Numbered(g, n)
<1>6. h \in Seq(Lines(C)) /\ Placed(t, K, h) /\ Known(t, K, h) = K1
  <2>1. Reach(t, K, N)
    BY <1>5, <1>c DEF Reach, Takes
  <2>2. Placed(t, K, h)
    BY <2>1, PlacedOne
  <2>3. ToSet(h) = {N}
    BY DEF ToSet
  <2>4. Known(t, K, h) = K1
    BY <1>5, <2>3 DEF Known
  <2> QED BY <1>5, <2>2, <2>4
<1> HIDE DEF h
<1>7. Placed(t, K1, o) /\ Known(t, K1, o) = K2
  <2>1. Takes(g, n, here, K1)
    BY <1>c DEF Takes
  <2> QED BY <1>L, <2>1 DEF Loads, t
<1>8. Placed(t, K2, w) /\ Known(t, K2, w) = K2
  <2>1. here \in K2
    OBVIOUS
  <2>2. Terminal(onto) \/ onto \in K2
    BY DEF Takes
  <2> HIDE DEF K2
  <2>3. \A k \in 1..Len(w) : /\ w[k].chain = here /\ w[k].to # Create
                             /\ (Terminal(w[k].to) \/ w[k].to \in K2)
    <3> TAKE k \in 1..Len(w)
    <3>1. w[k].chain = here /\ (w[k].to = onto \/ w[k].to = Return)
      BY <1>4
    <3> QED BY <1>o, <2>2, <3>1, ReturnIs
  <2> QED BY <1>4, <2>1, <2>3, PlacedRules
<1> HIDE DEF K1
<1> DEFINE a == h \o o
<1>9. a \in Seq(Lines(C)) /\ Placed(t, K, a) /\ Known(t, K, a) = K2
  <2> HIDE DEF K2
  <2>1. Placed(t, K, a)
    BY <1>2, <1>6, <1>7, PlacedConcat
  <2>2. Known(t, K, a) = Known(t, K1, o)
    BY <1>2, <1>6, KnownConcat
  <2> QED BY <1>2, <1>6, <1>7, <2>1, <2>2
<1>10. r = a \o w
  BY <1>0
<1> HIDE DEF a
<1>11. Placed(t, K, r) /\ Known(t, K, r) = K2
  <2> HIDE DEF K2
  <2>1. Placed(t, K, a \o w)
    BY <1>4, <1>8, <1>9, PlacedConcat
  <2>2. Known(t, K, a \o w) = Known(t, K2, w)
    BY <1>4, <1>9, KnownConcat
  <2> QED BY <1>8, <1>10, <2>1, <2>2
<1>12. K2 = K \cup Numbered(g, n + 1)
  BY <1>c DEF K1
<1> QED BY <1>11, <1>12

\* The list r is w for one chain, and o for the others.
Adds(t, here, p, e, r, w, o) ==
    /\ Flow(View(t, here, p, e), r) = Flow(View(t, here, p, e), w)
    /\ \A c \in Targets \ {here} : Flow(View(t, c, p, e), r) = Flow(View(t, c, p, e), o)

\* The new chain does what its own commands do, the others as before.
LEMMA GrownFlow ==
    ASSUME NEW g, NEW C, GenOK(g, C), NEW i \in 0..9, NEW s, Building(g, C, i, s),
           NEW q, q.items \in Seq(C), q.neg \in BOOLEAN,
           NEW onto, onto \in {g.action, ChainOf(g, s.n + 1)}, NEW p, NEW e \in [Targets -> Results]
    PROVE  LET here == ChainOf(g, s.n)
           IN Adds(g.table, here, p, e, Grown(g, s, here, q, onto), Way(g, here, q, onto), Opened(g, s))
<1> DEFINE n == s.n
           t == g.table
           here == ChainOf(g, n)
           o == Opened(g, s)
           w == Way(g, here, q, onto)
           N == New(t, here)
           h == <<N>>
           r == Grown(g, s, here, q, onto)
<1>0. r = (h \o o) \o w
  BY DEF Grown
<1>1. n \in Nat \ {0} /\ n \in Nat /\ n + 1 \in Nat
  <2>1. n \in 1..(i + 1)
    BY DEF Building
  <2> HIDE DEF n
  <2> QED BY <2>1
<1>i. i \in Nat
  OBVIOUS
<1>2. o \in Seq(Lines(C)) /\ \A k \in 1..Len(o) : LineOK(g, n, o[k])
  BY <1>i, OpenedType
<1> HIDE DEF n, o
<1>3. here \in Targets /\ here \notin Hooks /\ here # Create
  BY <1>1, ChainIs
<1>c. here \notin Numbered(g, n) /\ here # g.start
  BY <1>1, NumberedIs
<1>o. onto \in Targets /\ onto # Create
  <2>1. ChainOf(g, n + 1) \in Targets /\ ChainOf(g, n + 1) # Create
    BY <1>1, ChainIs
  <2>2. g.action \in Targets /\ g.action # Create
    BY ActionIs DEF GenOK
  <2> QED BY <2>1, <2>2 DEF n
<1> HIDE DEF here
<1>t. t \in Tables
  BY DEF GenOK
<1>4. w \in Seq(Lines(C)) /\ \A k \in 1..Len(w) : w[k].chain = here
  BY <1>3, <1>o, WayType
<1>5. N \in Lines(C) /\ N.to = Create
  <2> HIDE DEF t, w
  <2> QED BY <1>3, <1>t, NewIs
<1> HIDE DEF w, N, t, r
<1>6. h \in Seq(Lines(C)) /\ \A k \in 1..Len(h) : h[k].to = Create
  BY <1>5
<1> HIDE DEF h
<1>7. \A k \in 1..Len(o) : o[k].chain # here
  BY <1>2, <1>c DEF LineOK
<1> DEFINE a == h \o o
<1>a. a \in Seq(Lines(C))
  BY <1>2, <1>6
<1>8. ASSUME NEW c \in Targets
      PROVE  LET v == View(t, c, p, e)
             IN /\ Flow(v, r) = Then(Flow(v, o), Flow(v, w))
                /\ Flow(v, o) \in Results /\ Flow(v, w) \in Results
                /\ (c # here => Flow(v, w) = Nothing) /\ (c = here => Flow(v, o) = Nothing)
  <2> DEFINE v == View(t, c, p, e)
  <2>1. Reaction(v) /\ v.chain = c
    BY ViewIs
  <2> HIDE DEF v
  <2>2. Flow(v, h) = Nothing
    <3>1. \A k \in 1..Len(h) : Part(v, h[k]) = Nothing
      BY <1>6 DEF Part
    <3> QED BY <1>6, <2>1, <3>1, FlowElsewhere
  <2>3. c # here => Flow(v, w) = Nothing
    <3> HAVE c # here
    <3>1. \A k \in 1..Len(w) : Part(v, w[k]) = Nothing
      BY <1>4, <2>1 DEF Part
    <3> QED BY <1>4, <2>1, <3>1, FlowElsewhere
  <2>4. c = here => Flow(v, o) = Nothing
    <3> HAVE c = here
    <3>1. \A k \in 1..Len(o) : Part(v, o[k]) = Nothing
      BY <1>7, <2>1 DEF Part
    <3> QED BY <1>2, <2>1, <3>1, FlowElsewhere
  <2>5. Flow(v, a) = Then(Flow(v, h), Flow(v, o))
    BY <1>2, <1>6, <2>1, FlowConcat
  <2>6. Flow(v, o) \in Results /\ Flow(v, w) \in Results
    BY <1>2, <1>4, <2>1, FlowType
  <2>7. Flow(v, a) = Flow(v, o)
    BY <2>2, <2>5, <2>6, ThenNothing
  <2>8. r = a \o w
    BY <1>0
  <2> HIDE DEF a
  <2>9. Flow(v, r) = Then(Flow(v, a), Flow(v, w))
    BY <1>4, <1>a, <2>1, <2>8, FlowConcat
  <2> QED BY <2>3, <2>4, <2>6, <2>7, <2>9 DEF v
<1>9. Flow(View(t, here, p, e), r) = Flow(View(t, here, p, e), w)
  BY <1>3, <1>8, ThenNothing
<1>10. \A c \in Targets \ {here} : Flow(View(t, c, p, e), r) = Flow(View(t, c, p, e), o)
  BY <1>8, ThenNothing
<1> QED BY <1>9, <1>10 DEF Adds, t, here, n, o, w, r

\* Exact agreement is equality.
LEMMA AgreesEqual ==
    ASSUME NEW a \in Results, NEW b \in Results, Agrees(TRUE, a, b)
    PROVE  a = b
<1>1. a.end = b.end /\ a.trail = b.trail
  BY DEF Agrees
<1> QED BY <1>1, ResultFields

\* With one more chain, packets pass that meet one more position.
LEMMA GrownLeads ==
    ASSUME NEW g, NEW C, GenOK(g, C), NEW i \in 0..9, i < Len(g.ps), NEW s, Building(g, C, i, s),
           NEW onto, onto \in {g.action, ChainOf(g, s.n + 1)},
           Leads(g, s.n, ChainOf(g, s.n), i, Opened(g, s))
    PROVE  Leads(g, s.n + 1, onto, i + 1, Grown(g, s, ChainOf(g, s.n), g.ps[i + 1], onto))
<1> DEFINE n == s.n
           t == g.table
           q == g.ps[i + 1]
           here == ChainOf(g, n)
           o == Opened(g, s)
           w == Way(g, here, q, onto)
           r == Grown(g, s, here, q, onto)
<1>1. n \in Nat \ {0} /\ n \in Nat /\ n + 1 \in Nat /\ n \in 1..((n + 1) - 1)
  <2>1. n \in 1..(i + 1)
    BY DEF Building
  <2> HIDE DEF n
  <2> QED BY <2>1
<1>i. i + 1 \in 1..Len(g.ps)
  <2>1. Len(g.ps) \in Nat
    BY DEF GenOK
  <2> QED BY <2>1
<1>q. q.items \in Seq(C) /\ q.neg \in BOOLEAN
  BY <1>i DEF GenOK
<1> HIDE DEF q
<1>3. here \in Targets /\ here \notin Hooks /\ here # Create /\ here.kind # "ACC"
  BY <1>1, ChainIs
<1>o. onto \in Targets /\ onto # Create
  <2>1. ChainOf(g, n + 1) \in Targets /\ ChainOf(g, n + 1) # Create
    BY <1>1, ChainIs
  <2>2. g.action \in Targets /\ g.action # Create
    BY ActionIs DEF GenOK
  <2> QED BY <2>1, <2>2 DEF n
<1>c. Numbered(g, n) \subseteq Targets /\ here \notin Numbered(g, n)
      /\ here # g.start /\ g.start \in Targets
  BY <1>1, NumberedIs, HooksAre DEF GenOK
<1> SUFFICES ASSUME NEW p, NEW e, NEW x, Linked(g, p, e, n + 1, r, onto, x)
             PROVE  Agrees(x, Flow(View(t, g.start, p, e), r), If(Passes(g, i + 1, p), e[onto]))
  BY DEF Leads, n, t, r, q, here
<1>2. /\ e \in [Targets -> Results] /\ e[Return] = [end |-> Return, trail |-> << >>]
      /\ e[onto].end.kind # "RETURN"
      /\ \A j \in 1..((n + 1) - 1) :
           e[ChainOf(g, j)] = Back(ChainOf(g, j), Flow(View(t, ChainOf(g, j), p, e), r))
      /\ (x => Once(g, p) \/ Again(e[onto]))
  BY DEF Linked
<1>4. /\ Flow(View(t, here, p, e), r) = Flow(View(t, here, p, e), w)
      /\ \A c \in Targets \ {here} : Flow(View(t, c, p, e), r) = Flow(View(t, c, p, e), o)
  <2>1. e \in [Targets -> Results]
    BY <1>2
  <2>2. Adds(t, here, p, e, r, w, o)
    BY <1>q, <2>1, GrownFlow
  <2> HIDE DEF t, here, r, w, o
  <2> QED BY <2>2 DEF Adds
<1>5. Agrees(x, Back(here, Flow(View(t, here, p, e), w)), If(Satisfied(q, p), e[onto]))
  <2>1. x => ~Twice(q.items, p) \/ Again(e[onto])
    BY <1>2, <1>i DEF Once, q
  <2> QED BY <1>q, <1>2, <1>3, <1>o, <2>1, WayIs
<1>6. e[here] = Back(here, Flow(View(t, here, p, e), w))
  BY <1>1, <1>2, <1>4
<1>w. w \in Seq(Lines(C))
  BY <1>q, <1>3, <1>o, WayType
<1> DEFINE X == e[onto]
           Y == e[here]
<1>7. Y \in Results /\ X \in Results /\ Agrees(x, Y, If(Satisfied(q, p), X))
  BY <1>2, <1>3, <1>5, <1>6, <1>o
<1>8. Y.end.kind # "RETURN"
  <2> DEFINE f == Flow(View(t, here, p, e), w)
  <2>1. f \in Results
    <3>1. Reaction(View(t, here, p, e))
      BY <1>2, ViewIs
    <3> QED BY <1>w, <3>1, FlowType
  <2> HIDE DEF f
  <2>2. Back(here, f).end.kind # "RETURN"
    BY <1>3, <2>1, BackIs
  <2> QED BY <1>6, <2>2 DEF f
<1> HIDE DEF w, o, r
<1>9. x => Once(g, p) \/ Again(Y)
  <2> SUFFICES ASSUME x, Again(X) PROVE Again(Y)
    BY <1>2
  <2> DEFINE Z == If(Satisfied(q, p), X)
  <2>1. Z \in Results
    BY <1>7, IfType
  <2>2. Agrees(TRUE, Y, Z)
    BY <1>7 DEF Agrees
  <2> HIDE DEF Y, Z
  <2>3. Y = Z
    BY <1>7, <2>1, <2>2, AgreesEqual
  <2>4. Again(Nothing)
    BY NoneType, ThenNothing DEF Again
  <2> QED BY <2>3, <2>4 DEF Z, If
<1>10. \A j \in 1..(n - 1) : e[ChainOf(g, j)] = Back(ChainOf(g, j), Flow(View(t, ChainOf(g, j), p, e), o))
  <2> TAKE j \in 1..(n - 1)
  <2>1. j \in 1..((n + 1) - 1)
    BY <1>1
  <2>2. ChainOf(g, j) \in Numbered(g, n)
    BY DEF Numbered
  <2>3. ChainOf(g, j) \in Targets \ {here}
    BY <1>c, <2>2
  <2> QED BY <1>2, <1>4, <2>1, <2>3
<1>11. Linked(g, p, e, n, o, here, x)
  BY <1>2, <1>8, <1>9, <1>10 DEF Linked
<1>12. Agrees(x, Flow(View(t, g.start, p, e), o), If(Passes(g, i, p), Y))
  BY <1>11 DEF Leads, n, here, o, t
<1>13. Flow(View(t, g.start, p, e), r) = Flow(View(t, g.start, p, e), o)
  BY <1>4, <1>c
<1>14. Agrees(x, If(Passes(g, i, p), Y), If(Passes(g, i + 1, p), X))
  <2>1. Passes(g, i + 1, p) <=> Passes(g, i, p) /\ Satisfied(q, p)
    <3>1. 1..(i + 1) = 1..i \cup {i + 1}
      OBVIOUS
    <3> QED BY <3>1 DEF Passes, q
  <2> HIDE DEF X, Y
  <2>2. CASE Passes(g, i, p)
    BY <1>7, <2>1, <2>2 DEF If
  <2>3. CASE ~Passes(g, i, p)
    BY <2>1, <2>3, AgreesIs DEF If
  <2> QED BY <2>2, <2>3
<1> QED BY <1>12, <1>13, <1>14 DEF Agrees

StepOf(g, s, i) == Position(g, s, i)
Steps == INSTANCE FoldLaws WITH Op <- StepOf

\* Conditions that are all single, collected in one rule.
Plain(g, i, s) ==
    /\ s.lines = << >> /\ \A j \in 1..i : IsSingle(g.ps[j])
    /\ s.open = {g.ps[j].items[1] : j \in 1..i}

Made(g, C, i, s) ==
    /\ Building(g, C, i, s)
    /\ s.n > 1 => i >= 1 /\ ~IsSingle(g.ps[i])
    /\ s.n = 1 => Plain(g, i, s) \/ (i = 1 /\ ~IsSingle(g.ps[1]) /\ ~g.ps[1].neg)
    /\ Loads(g, s.n, Onto(g, s.n, i), Opened(g, s))
    /\ Leads(g, s.n, Onto(g, s.n, i), i, Opened(g, s))

\* A position with one condition, not negated.
LEMMA SingleMet ==
    ASSUME NEW q, NEW C, q.items \in Seq(C), IsSingle(q), NEW p
    PROVE  Satisfied(q, p) <=> Met(q.items[1], p)
<1>1. ~q.neg /\ 1..Len(q.items) = {1}
  BY DEF IsSingle
<1> QED BY <1>1 DEF Satisfied

\* A rule with all the conditions does what its target does.
OnlyIf(g, i, s, M, to, p, e) ==
    Flow(View(g.table, g.start, p, e), <<Rule(g.table, g.start, s.open \cup M, to)>>)
      = If(AllMet(M, p) /\ \A j \in 1..i : Satisfied(g.ps[j], p), e[to])

\* A command line with the conditions of the first positions.
LEMMA PlainRule ==
    ASSUME NEW g, NEW C, GenOK(g, C), NEW i \in 0..Len(g.ps), NEW s, Plain(g, i, s), s.open \subseteq C,
           NEW M \in SUBSET C, NEW to \in Targets, to # Create, NEW p, NEW e \in [Targets -> Results]
    PROVE  OnlyIf(g, i, s, M, to, p, e)
<1> DEFINE t == g.table
           c == g.start
           O == s.open
           l == Rule(t, c, O \cup M, to)
           v == View(t, c, p, e)
<1>1. Reaction(v) /\ v.table = t /\ v.chain = c /\ v.p = p /\ v.e = e
  BY ViewIs
<1>2. t \in Tables /\ c \in Targets /\ O \in SUBSET C
  BY HooksAre DEF GenOK
<1>3. AllMet(O, p) <=> \A j \in 1..i : Satisfied(g.ps[j], p)
  <2>1. ASSUME NEW j \in 1..i PROVE Satisfied(g.ps[j], p) <=> Met(g.ps[j].items[1], p)
    <3> DEFINE q == g.ps[j]
    <3>1. Len(g.ps) \in Nat
      BY DEF GenOK
    <3>2. j \in 1..Len(g.ps)
      BY <3>1
    <3>3. q.items \in Seq(C) /\ IsSingle(q)
      BY <3>2 DEF GenOK, Plain
    <3> HIDE DEF q
    <3> QED BY <3>3, SingleMet DEF q
  <2>2. O = {g.ps[j].items[1] : j \in 1..i}
    BY DEF Plain
  <2> HIDE DEF O
  <2> QED BY <2>1, <2>2 DEF AllMet
<1> HIDE DEF t, c, v, O
<1>4. l.table = t /\ l.chain = c /\ l.match = O \cup M /\ l.to = to /\ l \in Lines(C)
  <2>1. l = [table |-> t, chain |-> c, match |-> O \cup M, to |-> to]
    BY DEF Rule
  <2> HIDE DEF l
  <2> QED BY <1>2, <2>1 DEF Lines
<1>5. Hit(l, p) <=> AllMet(O, p) /\ AllMet(M, p)
  <2> HIDE DEF l
  <2> QED BY <1>4, HitIs DEF AllMet
<1> HIDE DEF l
<1>6. Flow(v, <<l>>) = Part(v, l)
  BY <1>1, <1>4, FlowOne
<1>7. Part(v, l) = If(Hit(l, p), e[to])
  BY <1>1, <1>4 DEF Part, If
<1>8. Hit(l, p) <=> (AllMet(M, p) /\ \A j \in 1..i : Satisfied(g.ps[j], p))
  BY <1>3, <1>5
<1>9. If(Hit(l, p), e[to]) = If(AllMet(M, p) /\ \A j \in 1..i : Satisfied(g.ps[j], p), e[to])
  BY <1>8 DEF If
<1> QED BY <1>6, <1>7, <1>9 DEF l, v, t, c, O, OnlyIf

\* The first numbered chain.
LEMMA FirstChain ==
    ASSUME NEW g, NEW C, GenOK(g, C)
    PROVE  LET to == ChainOf(g, 1)
           IN /\ to \in Targets /\ to # Create /\ ~Terminal(to) /\ Numbered(g, 1) = {}
              /\ g.start \in Targets /\ g.start \in Hooks /\ g.table \in Tables
              /\ Rank(to) < Rank(g.start)
<1>1. 1 \in Nat /\ 1 \in Nat \ {0} /\ 1 \in 0..20
  OBVIOUS
<1>2. ChainOf(g, 1) \in Targets /\ ChainOf(g, 1) # Create /\ ~Terminal(ChainOf(g, 1))
  BY <1>1, ChainIs
<1>3. Numbered(g, 1) = {}
  BY <1>1, NumberedIs
<1>4. Rank(ChainOf(g, 1)) = 30 - 1 /\ Rank(g.start) = 40
  BY <1>1, RankIs
<1>5. Rank(ChainOf(g, 1)) < Rank(g.start)
  BY <1>4
<1>6. g.start \in Targets /\ g.start \in Hooks /\ g.table \in Tables
  BY HooksAre DEF GenOK
<1> QED BY <1>2, <1>3, <1>5, <1>6

\* Rules for the chain of the hook.
LEMMA StartLoads ==
    ASSUME NEW g, NEW C, GenOK(g, C), NEW to, to # Create, NEW r \in Seq(Lines(C)),
           \A k \in 1..Len(r) : r[k].chain = g.start /\ r[k].to = to
    PROVE  Loads(g, 1, to, r)
<1> SUFFICES ASSUME NEW K, Takes(g, 1, to, K)
             PROVE  Placed(g.table, K, r) /\ Known(g.table, K, r) = K \cup Numbered(g, 1)
  BY DEF Loads
<1>1. Numbered(g, 1) = {} /\ g.start \in K /\ (Terminal(to) \/ to \in K)
  BY FirstChain DEF Takes
<1> DEFINE c == g.start
           t == g.table
<1>4. c \in K /\ \A k \in 1..Len(r) : /\ r[k].chain = c /\ r[k].to # Create
                                      /\ (Terminal(r[k].to) \/ r[k].to \in K)
  BY <1>1
<1> HIDE DEF c, t
<1>5. Placed(t, K, r) /\ Known(t, K, r) = K
  BY <1>4, PlacedRules
<1> QED BY <1>1, <1>5 DEF t

\* Positions of one condition, that come first, need no chain.
LEMMA PlainMade ==
    ASSUME NEW g, NEW C, GenOK(g, C), NEW i \in 0..Len(g.ps), NEW s,
           s \in [n : 1..(i + 1), open : SUBSET C, lines : Seq(Lines(C))],
           s.n = 1, Plain(g, i, s)
    PROVE  Made(g, C, i, s)
<1> DEFINE to == ChainOf(g, 1)
           l == Jump(g, s)
           o == <<l>>
<1>1. to \in Targets /\ to # Create
  BY FirstChain
<1>2. Opened(g, s) = o
  BY DEF Opened, Plain
<1>3. Onto(g, s.n, i) = to
  BY DEF Onto
<1>4. s.open \subseteq C /\ Building(g, C, i, s)
  BY DEF Building, Plain
<1>5. l \in Lines(C) /\ l.chain = g.start /\ l.to = to
  BY <1>4, JumpIs
<1>6. Loads(g, 1, to, o)
  <2> HIDE DEF to, l
  <2>1. o \in Seq(Lines(C)) /\ \A k \in 1..Len(o) : o[k].chain = g.start /\ o[k].to = to
    BY <1>5
  <2> HIDE DEF o
  <2> QED BY <1>1, <2>1, StartLoads
<1>7. Leads(g, 1, to, i, o)
  <2> SUFFICES ASSUME NEW p, NEW e, NEW x, Linked(g, p, e, 1, o, to, x)
               PROVE  Agrees(x, Flow(View(g.table, g.start, p, e), o), If(Passes(g, i, p), e[to]))
    BY DEF Leads
  <2>1. e \in [Targets -> Results]
    BY DEF Linked
  <2>2. g.state \in SUBSET C
    BY DEF GenOK
  <2> DEFINE M == g.state
  <2> HIDE DEF to, M
  <2>a. M \in SUBSET C
    BY <2>2 DEF M
  <2>b. OnlyIf(g, i, s, M, to, p, e)
    BY <1>1, <1>4, <2>1, <2>a, PlainRule
  <2>3. Flow(View(g.table, g.start, p, e), <<Rule(g.table, g.start, s.open \cup M, to)>>)
          = If(AllMet(M, p) /\ \A j \in 1..i : Satisfied(g.ps[j], p), e[to])
    BY <2>b DEF OnlyIf
  <2>4. o = <<Rule(g.table, g.start, s.open \cup M, to)>>
    BY DEF Jump, to, M
  <2>5. If(Passes(g, i, p), e[to]) = If(AllMet(M, p) /\ \A j \in 1..i : Satisfied(g.ps[j], p), e[to])
    BY DEF Passes, M
  <2> QED BY <2>3, <2>4, <2>5, AgreesIs
<1> HIDE DEF o, to
<1> QED BY <1>2, <1>3, <1>4, <1>6, <1>7 DEF Made

\* What has been built has its type.
LEMMA BuildingOf ==
    ASSUME NEW g, NEW C, NEW i \in Nat, NEW n \in 1..(i + 1), NEW open \in SUBSET C,
           NEW lines \in Seq(Lines(C)), \A k \in 1..Len(lines) : LineOK(g, n, lines[k])
    PROVE  LET s == [n |-> n, open |-> open, lines |-> lines]
           IN Building(g, C, i, s) /\ s.n = n /\ s.open = open /\ s.lines = lines
BY DEF Building

\* The last of the rules is the jump, or closes the command line.
Closes(t, c, items, M, to) ==
    Append(Rules(t, c, Front(items), M, to), Rule(t, c, {Last(items)} \cup M, to))
      = Rules(t, c, items, M, to)

\* The last of several commands can wait.
LEMMA FrontRules ==
    ASSUME NEW C, NEW items \in Seq(C), Len(items) # 0, NEW t, NEW c, NEW M, NEW to
    PROVE  Closes(t, c, items, M, to)
<1> DEFINE n == Len(items)
           F == Front(items)
           R(i) == Rule(t, c, {items[i]} \cup M, to)
<1>1. n \in Nat \ {0} /\ DOMAIN items = 1..n
  OBVIOUS
<1>2. F = [i \in 1..(n - 1) |-> items[i]] /\ DOMAIN F = 1..(n - 1)
  BY <1>1 DEF Front
<1>3. Rules(t, c, F, M, to) = [i \in 1..(n - 1) |-> R(i)]
  <2>1. \A i \in 1..(n - 1) : F[i] = items[i]
    BY <1>2
  <2> HIDE DEF F
  <2> QED BY <1>2, <2>1 DEF Rules
<1>4. Rules(t, c, items, M, to) = [i \in 1..n |-> R(i)]
  BY <1>1 DEF Rules
<1>5. Rule(t, c, {Last(items)} \cup M, to) = R(n)
  BY DEF Last
<1> HIDE DEF R, F, n
<1>6. Append([i \in 1..(n - 1) |-> R(i)], R(n)) = [i \in 1..n |-> R(i)]
  <2> DEFINE S == {R(i) : i \in 1..n}
             r == [i \in 1..(n - 1) |-> R(i)]
             a == Append(r, R(n))
             b == [i \in 1..n |-> R(i)]
  <2>0. \A i \in 1..n : R(i) \in S
    OBVIOUS
  <2> HIDE DEF S
  <2>1. r \in Seq(S) /\ Len(r) = n - 1 /\ \A i \in 1..(n - 1) : r[i] = R(i)
    BY <1>1, <2>0
  <2> HIDE DEF r
  <2>r. n \in 1..n
    BY <1>1
  <2>2. a \in Seq(S) /\ Len(a) = n /\ a[n] = R(n) /\ \A i \in 1..(n - 1) : a[i] = r[i]
    BY <1>1, <2>0, <2>1, <2>r
  <2>3. b \in Seq(S) /\ Len(b) = n /\ \A i \in 1..n : b[i] = R(i)
    BY <1>1, <2>0
  <2> HIDE DEF a, b
  <2>5. \A i \in 1..n : a[i] = b[i]
    BY <1>1, <2>1, <2>2, <2>3
  <2>6. a = b
    BY <2>2, <2>3, <2>5
  <2> QED BY <2>6 DEF a, b, r
<1> QED BY <1>3, <1>4, <1>5, <1>6 DEF F, Closes

Starts(g, q, M, to) ==
    LET r == Rules(g.table, g.start, q.items, M, to)
    IN \A p, e, x : e \in [Targets -> Results] /\ (x => ~Twice(q.items, p) \/ Again(e[to]))
                   => Agrees(x, Flow(View(g.table, g.start, p, e), r),
                             If(AllMet(M, p) /\ Satisfied(q, p), e[to]))

\* One command for each condition, in the chain of the hook.
LEMMA StartRules ==
    ASSUME NEW g, NEW C, GenOK(g, C), NEW q, q.items \in Seq(C), ~q.neg,
           NEW M \in SUBSET C, NEW to \in Targets, to # Create
    PROVE  LET r == Rules(g.table, g.start, q.items, M, to)
           IN /\ r \in Seq(Lines(C)) /\ Len(r) = Len(q.items) /\ Loads(g, 1, to, r)
              /\ \A k \in 1..Len(r) : r[k].table = g.table /\ r[k].chain = g.start /\ r[k].to = to
              /\ Starts(g, q, M, to)
<1> DEFINE t == g.table
           c == g.start
           items == q.items
           r == Rules(t, c, items, M, to)
<1>1. t \in Tables /\ c \in Targets
  BY HooksAre DEF GenOK
<1>q. items \in Seq(C)
  OBVIOUS
<1>s. \A p : Satisfied(q, p) <=> \E i \in 1..Len(items) : Met(items[i], p)
  BY DEF Satisfied
<1> HIDE DEF t, c, items
<1>m. M \in SUBSET C /\ to \in Targets
  OBVIOUS
<1>2. r \in Seq(Lines(C)) /\ Len(r) = Len(items)
      /\ \A i \in 1..Len(items) : r[i] = Rule(t, c, {items[i]} \cup M, to)
  BY ONLY <1>1, <1>q, <1>m, RulesAre
<1>3. \A k \in 1..Len(r) : r[k].table = t /\ r[k].chain = c /\ r[k].to = to
  <2> TAKE k \in 1..Len(r)
  <2>1. r[k] = Rule(t, c, {items[k]} \cup M, to)
    BY <1>2
  <2> DEFINE N == {items[k]} \cup M
             l == r[k]
  <2>2. l = Rule(t, c, N, to)
    BY <2>1
  <2> HIDE DEF N, l
  <2>3. l.table = t /\ l.chain = c /\ l.to = to
    BY <2>2, RuleIs
  <2> QED BY <2>3 DEF l
<1>4. ASSUME NEW p, NEW e, NEW x, e \in [Targets -> Results], x => ~Twice(items, p) \/ Again(e[to])
      PROVE  Agrees(x, Flow(View(t, c, p, e), r), If(AllMet(M, p) /\ Satisfied(q, p), e[to]))
  <2>1. Agrees(x, Flow(View(t, c, p, e), r),
               If(AllMet(M, p) /\ \E i \in 1..Len(items) : Met(items[i], p), e[to]))
    BY <1>1, <1>q, <1>4, AnyOf
  <2>2. If(AllMet(M, p) /\ Satisfied(q, p), e[to])
          = If(AllMet(M, p) /\ \E i \in 1..Len(items) : Met(items[i], p), e[to])
    BY <1>s DEF If
  <2> QED BY <2>1, <2>2
<1> HIDE DEF r
<1>5. Loads(g, 1, to, r)
  BY <1>2, <1>3, StartLoads DEF c
<1>6. Starts(g, q, M, to)
  BY <1>4 DEF Starts, r, t, c, items
<1> QED BY <1>2, <1>3, <1>5, <1>6 DEF r, t, c, items

\* The first position, when it has several conditions.
LEMMA SpreadIs ==
    ASSUME NEW g, NEW q
    PROVE  Spread(g, Start, q)
             = [n |-> 1, open |-> {Last(q.items)},
                lines |-> Rules(g.table, g.start, Front(q.items), g.state, ChainOf(g, 1))]
BY DEF Spread, Start

\* ... starts with commands in the chain of the hook.
LEMMA SpreadMade ==
    ASSUME NEW g, NEW C, GenOK(g, C), 1 <= Len(g.ps),
           ~IsSingle(g.ps[1]), ~g.ps[1].neg
    PROVE  Made(g, C, 1, Spread(g, Start, g.ps[1]))
<1> DEFINE q == g.ps[1]
           items == q.items
           to == ChainOf(g, 1)
           t == g.table
           c == g.start
           M == g.state
           r == Rules(t, c, items, M, to)
           F == Front(items)
           f == Rules(t, c, F, M, to)
           O == {Last(items)}
           s == Spread(g, Start, q)
<1>1. q.items \in Seq(C) /\ Len(q.items) # 0 /\ M \in SUBSET C /\ t \in Tables /\ c \in Targets
  <2>1. 1 \in 1..Len(g.ps)
    BY DEF GenOK
  <2>2. q.items \in Seq(C) /\ Len(q.items) # 0
    BY <2>1 DEF GenOK
  <2> HIDE DEF q
  <2> QED BY <2>2, HooksAre DEF GenOK
<1>n. ~q.neg
  OBVIOUS
<1> HIDE DEF q
<1>2. to \in Targets /\ to # Create
  BY FirstChain
<1>3. Spread(g, Start, q) = [n |-> 1, open |-> O, lines |-> f]
  BY SpreadIs
<1>4. F \in Seq(C) /\ O \in SUBSET C
  BY <1>1 DEF Front, Last
<1> HIDE DEF to, F, O, s, t, c, M
<1>5. f \in Seq(Lines(C)) /\ \A k \in 1..Len(f) : LineOK(g, 1, f[k])
  <2>1. f \in Seq(Lines(C)) /\ Len(f) = Len(F)
        /\ \A i \in 1..Len(F) : f[i] = Rule(t, c, {F[i]} \cup M, to)
    BY ONLY <1>1, <1>2, <1>4, RulesAre
  <2> SUFFICES ASSUME NEW k \in 1..Len(f) PROVE LineOK(g, 1, f[k])
    BY <2>1
  <2> DEFINE N == {F[k]} \cup M
             l == f[k]
  <2>2. l = Rule(t, c, N, to)
    BY <2>1
  <2> HIDE DEF N, l
  <2>3. l.table = t /\ l.chain = c /\ l.to = to
    BY <2>2, RuleIs
  <2>4. LineOK(g, 1, l)
    BY <1>2, <2>3, FirstChain DEF LineOK, to, t, c
  <2> QED BY <2>4 DEF l
<1> HIDE DEF f
<1>6. Building(g, C, 1, s) /\ s.n = 1 /\ s.open = O /\ s.lines = f
  <2>1. 1 \in Nat /\ 1 \in 1..(1 + 1) /\ f \in Seq(Lines(C)) /\ \A k \in 1..Len(f) : LineOK(g, 1, f[k])
    BY <1>5
  <2>2. LET z == [n |-> 1, open |-> O, lines |-> f]
        IN Building(g, C, 1, z) /\ z.n = 1 /\ z.open = O /\ z.lines = f
    BY ONLY <1>4, <2>1, BuildingOf
  <2> QED BY <1>3, <2>2 DEF s
<1>7. Opened(g, s) = r
  <2>1. Opened(g, s) = Append(f, Rule(t, c, O \cup M, to))
    BY <1>6 DEF Opened, Jump, t, c, M, to
  <2>2. Append(f, Rule(t, c, O \cup M, to)) = r
    <3>1. items \in Seq(C) /\ Len(items) # 0
      BY <1>1
    <3> HIDE DEF t, c, M, items
    <3>2. Closes(t, c, items, M, to)
      BY ONLY <3>1, FrontRules
    <3> QED BY <3>2 DEF f, F, O, Closes
  <2> QED BY <2>1, <2>2
<1>8. Onto(g, s.n, 1) = to
  BY <1>6 DEF Onto, to
<1>9. Loads(g, 1, to, r) /\ Starts(g, q, M, to)
  <2>1. /\ GenOK(g, C)
        /\ q.items \in Seq(C) /\ ~q.neg /\ M \in SUBSET C /\ to \in Targets /\ to # Create
    BY <1>1, <1>2, <1>n
  <2>2. Loads(g, 1, to, Rules(g.table, g.start, q.items, M, to)) /\ Starts(g, q, M, to)
    BY ONLY <2>1, StartRules
  <2> QED BY <2>2 DEF t, c
<1>10. Leads(g, 1, to, 1, r)
  <2> HIDE DEF r
  <2> SUFFICES ASSUME NEW p, NEW e, NEW x, Linked(g, p, e, 1, r, to, x)
               PROVE  Agrees(x, Flow(View(g.table, g.start, p, e), r), If(Passes(g, 1, p), e[to]))
    BY DEF Leads
  <2>1. e \in [Targets -> Results] /\ (x => Once(g, p) \/ Again(e[to]))
    BY DEF Linked
  <2>2. x => ~Twice(q.items, p) \/ Again(e[to])
    <3>1. 1 \in 1..Len(g.ps)
      BY DEF GenOK
    <3> QED BY <2>1, <3>1 DEF Once, q
  <2>3. Agrees(x, Flow(View(g.table, g.start, p, e), r), If(AllMet(M, p) /\ Satisfied(q, p), e[to]))
    BY <1>9, <2>1, <2>2 DEF Starts, r, t, c
  <2>4. Passes(g, 1, p) <=> AllMet(M, p) /\ Satisfied(q, p)
    <3>1. \A j : j \in 1..1 <=> j = 1
      OBVIOUS
    <3> QED BY <3>1 DEF Passes, q, M
  <2>5. If(Passes(g, 1, p), e[to]) = If(AllMet(M, p) /\ Satisfied(q, p), e[to])
    BY <2>4 DEF If
  <2> QED BY <2>3, <2>5
<1>11. ~IsSingle(g.ps[1]) /\ ~g.ps[1].neg
  OBVIOUS
<1> HIDE DEF r
<1>12. Made(g, C, 1, s)
  BY <1>6, <1>7, <1>8, <1>9, <1>10, <1>11 DEF Made
<1> QED BY <1>12 DEF s, q

\* A position in a chain of its own.
LEMMA ChainedIs ==
    ASSUME NEW g, NEW C, GenOK(g, C), NEW i \in 0..9, NEW s, Building(g, C, i, s),
           NEW q, q.items \in Seq(C), q.neg \in BOOLEAN, NEW last \in BOOLEAN
    PROVE  LET onto == IF last THEN g.action ELSE ChainOf(g, s.n + 1)
           IN Chained(g, s, q, last)
                = [n |-> s.n + 1, open |-> s.open, lines |-> Grown(g, s, ChainOf(g, s.n), q, onto)]
<1> DEFINE n == s.n
           t == g.table
           here == ChainOf(g, n)
           onto == IF last THEN g.action ELSE ChainOf(g, n + 1)
           N == <<New(t, here)>>
           L == s.lines
           l == Rule(t, g.start, s.open \cup g.state, here)
           J == IF n = 1 THEN <<l>> ELSE << >>
           R == Rules(t, here, q.items, {}, IF q.neg THEN Return ELSE onto)
           k == Rule(t, here, {}, onto)
           T == IF q.neg THEN <<k>> ELSE << >>
<1>1. L \in Seq(Lines(C)) /\ n \in Nat /\ s.open \subseteq C
  <2>1. n \in 1..(i + 1) /\ L \in Seq(Lines(C)) /\ s.open \subseteq C
    BY DEF Building
  <2> HIDE DEF n, L
  <2> QED BY <2>1
<1>2. t \in Tables /\ here \in Targets /\ g.start \in Targets /\ onto \in Targets
  <2>1. n + 1 \in Nat
    BY <1>1
  <2>2. here \in Targets /\ ChainOf(g, n + 1) \in Targets
    <3> HIDE DEF n
    <3> QED BY <1>1, <2>1, ChainIs
  <2>3. g.action \in Targets /\ t \in Tables /\ g.start \in Hooks
    BY DEF GenOK
  <2> HIDE DEF here, n, t
  <2> QED BY <2>2, <2>3, HooksAre
<1>3. N \in Seq(Lines(C))
  <2> HIDE DEF t, here
  <2>1. New(t, here) \in Lines(C)
    BY <1>2, NewIs
  <2> QED BY <2>1
<1>4. J \in Seq(Lines(C)) /\ Opened(g, s) = L \o J
  <2>1. l = Jump(g, s) \/ n # 1
    BY DEF Jump
  <2>2. Jump(g, s) \in Lines(C)
    BY <1>1, JumpIs
  <2>3. Opened(g, s) = IF n = 1 THEN Append(L, Jump(g, s)) ELSE L
    BY DEF Opened
  <2> HIDE DEF l, n, L
  <2>4. CASE n = 1
    BY <1>1, <2>1, <2>2, <2>3, <2>4
  <2>5. CASE n # 1
    BY <1>1, <2>3, <2>5
  <2> QED BY <2>4, <2>5
<1>5. R \in Seq(Lines(C)) /\ T \in Seq(Lines(C)) /\ Way(g, here, q, onto) = R \o T
  <2> DEFINE to == IF q.neg THEN Return ELSE onto
             items == q.items
             none == {}
  <2>1. to \in Targets /\ items \in Seq(C) /\ none \in SUBSET C
    BY <1>2, ReturnIs
  <2>2. R = Rules(t, here, items, none, to)
    OBVIOUS
  <2>3. k \in Lines(C)
    <3> HIDE DEF t, here, onto
    <3> QED BY <1>2, RuleIs DEF Lines, Rule
  <2>4. Way(g, here, q, onto) = R \o T
    BY DEF Way
  <2> HIDE DEF to, items, none, R, t, here, onto, k
  <2>5. R \in Seq(Lines(C))
    <3>1. Rules(t, here, items, none, to) \in Seq(Lines(C))
      BY ONLY <1>2, <2>1, RulesAre
    <3> QED BY <2>2, <3>1
  <2> QED BY <2>3, <2>4, <2>5
<1>6. Chained(g, s, q, last)
        = [n |-> n + 1, open |-> s.open, lines |-> (((N \o L) \o J) \o R) \o T]
  BY DEF Chained, NextChain, Return
<1>7. Grown(g, s, here, q, onto) = (N \o (L \o J)) \o (R \o T)
  <2>1. Grown(g, s, here, q, onto) = (N \o Opened(g, s)) \o Way(g, here, q, onto)
    BY DEF Grown
  <2> HIDE DEF N, L, J, R, T, here, onto
  <2> QED BY <1>4, <1>5, <2>1
<1>8. (((N \o L) \o J) \o R) \o T = (N \o (L \o J)) \o (R \o T)
  <2> DEFINE S == Lines(C)
  <2>0. N \in Seq(S) /\ L \in Seq(S) /\ J \in Seq(S) /\ R \in Seq(S) /\ T \in Seq(S)
    BY <1>1, <1>3, <1>4, <1>5
  <2> HIDE DEF N, L, J, R, T, S
  <2>1. (N \o L) \o J = N \o (L \o J)
    BY <2>0, ConcatAssociates, SMTT(30)
  <2> DEFINE A == N \o (L \o J)
  <2>2. A \in Seq(S)
    BY <2>0
  <2> HIDE DEF A
  <2>3. (A \o R) \o T = A \o (R \o T)
    BY ONLY <2>0, <2>2, ConcatAssociates, SMTT(30)
  <2> QED BY <2>1, <2>3 DEF A
<1> HIDE DEF N, L, J, R, T, here, onto, n
<1>9. Chained(g, s, q, last) = [n |-> n + 1, open |-> s.open, lines |-> Grown(g, s, here, q, onto)]
  BY <1>6, <1>7, <1>8
<1> QED BY <1>9 DEF here, onto, n

\* ... is met by the packets that reach the next chain.
LEMMA ChainedMade ==
    ASSUME NEW g, NEW C, GenOK(g, C), NEW i \in 0..9, i < Len(g.ps), NEW s,
           Made(g, C, i, s), ~IsSingle(g.ps[i + 1])
    PROVE  Made(g, C, i + 1, Chained(g, s, g.ps[i + 1], i + 1 = Len(g.ps)))
<1> DEFINE n == s.n
           q == g.ps[i + 1]
           last == i + 1 = Len(g.ps)
           onto == IF last THEN g.action ELSE ChainOf(g, n + 1)
           r == Grown(g, s, ChainOf(g, n), q, onto)
           z == Chained(g, s, q, last)
<1>1. Building(g, C, i, s) /\ Loads(g, n, Onto(g, n, i), Opened(g, s))
      /\ Leads(g, n, Onto(g, n, i), i, Opened(g, s))
  BY DEF Made
<1>2. n \in 1..(i + 1) /\ n \in Nat /\ n + 1 \in 1..((i + 1) + 1) /\ n + 1 > 1 /\ i + 1 >= 1
      /\ i + 1 \in Nat /\ s.open \in SUBSET C
  <2>1. n \in 1..(i + 1) /\ s.open \in SUBSET C
    BY <1>1 DEF Building
  <2> HIDE DEF n
  <2> QED BY <2>1
<1>i. i + 1 \in 1..Len(g.ps) /\ i # Len(g.ps)
  <2>1. Len(g.ps) \in Nat
    BY DEF GenOK
  <2> QED BY <2>1
<1>q. q.items \in Seq(C) /\ q.neg \in BOOLEAN /\ ~IsSingle(q)
  <2>1. g.ps[i + 1].neg \in BOOLEAN /\ g.ps[i + 1].items \in Seq(C)
    BY <1>i DEF GenOK
  <2> QED BY <2>1
<1>3. Onto(g, n, i) = ChainOf(g, n)
  BY <1>i DEF Onto
<1>4. last \in BOOLEAN /\ onto \in {g.action, ChainOf(g, n + 1)}
  OBVIOUS
<1>5. z = [n |-> n + 1, open |-> s.open, lines |-> r]
  <2> HIDE DEF last, q
  <2>1. LET w == IF last THEN g.action ELSE ChainOf(g, s.n + 1)
        IN Chained(g, s, q, last)
             = [n |-> s.n + 1, open |-> s.open, lines |-> Grown(g, s, ChainOf(g, s.n), q, w)]
    BY <1>1, <1>q, <1>4, ChainedIs
  <2> QED BY <2>1
<1>6. r \in Seq(Lines(C)) /\ \A k \in 1..Len(r) : LineOK(g, n + 1, r[k])
  <2> HIDE DEF q, onto
  <2> QED BY <1>1, <1>q, <1>4, GrownType
<1>7. Loads(g, n + 1, onto, r)
  <2>1. Loads(g, s.n, ChainOf(g, s.n), Opened(g, s))
    BY <1>1, <1>3
  <2> HIDE DEF q, onto
  <2> QED BY <1>1, <1>q, <1>4, <2>1, GrownLoads
<1>8. Leads(g, n + 1, onto, i + 1, r)
  <2>1. Leads(g, s.n, ChainOf(g, s.n), i, Opened(g, s))
    BY <1>1, <1>3
  <2> HIDE DEF onto
  <2> QED BY <1>1, <1>4, <2>1, GrownLeads
<1>9. onto = Onto(g, n + 1, i + 1)
  BY <1>2 DEF Onto
<1> HIDE DEF r, onto, z, n
<1>10. Building(g, C, i + 1, z) /\ z.n = n + 1 /\ z.lines = r
  <2> DEFINE O == s.open
             j == i + 1
             m == n + 1
  <2>1. j \in Nat /\ m \in 1..(j + 1) /\ O \in SUBSET C /\ r \in Seq(Lines(C))
        /\ \A k \in 1..Len(r) : LineOK(g, m, r[k])
    BY <1>2, <1>6
  <2> HIDE DEF O, j, m
  <2>2. LET x == [n |-> m, open |-> O, lines |-> r]
        IN Building(g, C, j, x) /\ x.n = m /\ x.open = O /\ x.lines = r
    BY ONLY <2>1, BuildingOf
  <2> QED BY <1>5, <2>2 DEF O, j, m
<1>11. Opened(g, z) = r
  <2>1. z.n # 1
    BY <1>2, <1>10
  <2> QED BY <1>10, <2>1 DEF Opened
<1>12. Made(g, C, i + 1, z)
  <2>1. z.n > 1 /\ z.n # 1
    BY <1>2, <1>10
  <2>2. Loads(g, z.n, Onto(g, z.n, i + 1), Opened(g, z))
    BY <1>7, <1>9, <1>10, <1>11
  <2>3. Leads(g, z.n, Onto(g, z.n, i + 1), i + 1, Opened(g, z))
    BY <1>8, <1>9, <1>10, <1>11
  <2>4. z.n > 1 => i + 1 >= 1 /\ ~IsSingle(g.ps[i + 1])
    BY <1>2
  <2> QED BY <1>10, <2>1, <2>2, <2>3, <2>4 DEF Made
<1> QED BY <1>12 DEF z

\* A position of one condition goes on the command line.
LEMMA SingleMade ==
    ASSUME NEW g, NEW C, GenOK(g, C), NEW i \in 0..9, i < Len(g.ps), NEW s,
           Made(g, C, i, s), IsSingle(g.ps[i + 1])
    PROVE  Made(g, C, i + 1, Single(s, g.ps[i + 1]))
<1> DEFINE q == g.ps[i + 1]
           a == q.items[1]
           O == s.open \cup {a}
           z == Single(s, q)
<1>i. Len(g.ps) \in Nat /\ i + 1 \in 1..Len(g.ps) /\ i + 1 \in 0..Len(g.ps) /\ i + 1 \in Nat
      /\ 1 \in Nat
      /\ 1..(i + 1) = 1..i \cup {i + 1} /\ \A j \in 1..i : j \in 1..Len(g.ps) /\ j < i + 1
  <2>1. Len(g.ps) \in Nat
    BY DEF GenOK
  <2> QED BY <2>1
<1>1. \A j \in 1..i : IsSingle(g.ps[j])
  BY <1>i DEF GenOK
<1>2. Building(g, C, i, s)
  BY DEF Made
<1>s. s \in [n : 1..(i + 1), open : SUBSET C, lines : Seq(Lines(C))]
  BY <1>2 DEF Building
<1>3. s.n = 1
  <2>1. s.n \in 1..(i + 1)
    BY <1>s
  <2>2. ~(s.n > 1)
    <3> SUFFICES ASSUME s.n > 1 PROVE FALSE
      OBVIOUS
    <3>1. i >= 1 /\ ~IsSingle(g.ps[i])
      BY DEF Made
    <3>2. i \in 1..i
      BY <3>1
    <3> QED BY <1>1, <3>1, <3>2
  <2> DEFINE n == s.n
  <2> HIDE DEF n
  <2>3. n = 1
    BY <2>1, <2>2 DEF n
  <2> QED BY <2>3 DEF n
<1>4. Plain(g, i, s)
  <2>1. Plain(g, i, s) \/ (i = 1 /\ ~IsSingle(g.ps[1]) /\ ~g.ps[1].neg)
    BY <1>3 DEF Made
  <2>2. i = 1 => 1 \in 1..i
    OBVIOUS
  <2> QED BY <1>1, <2>1, <2>2
<1>5. a \in C
  <2>1. q.items \in Seq(C) /\ Len(q.items) = 1
    BY <1>i DEF GenOK, IsSingle
  <2> HIDE DEF q
  <2> QED BY <2>1
<1>6. z = [s EXCEPT !.open = O]
  BY DEF Single
<1> HIDE DEF a, z
<1>7. z \in [n : 1..((i + 1) + 1), open : SUBSET C, lines : Seq(Lines(C))]
      /\ z.n = 1 /\ z.open = O /\ z.lines = s.lines
  <2>1. O \in SUBSET C
    BY <1>5, <1>s
  <2> HIDE DEF O
  <2>2. z.n = s.n /\ z.open = O /\ z.lines = s.lines
        /\ z = [n |-> s.n, open |-> O, lines |-> s.lines]
    BY <1>6, <1>s
  <2>3. 1 \in 1..((i + 1) + 1) /\ s.lines \in Seq(Lines(C))
    BY <1>s
  <2>4. z \in [n : 1..((i + 1) + 1), open : SUBSET C, lines : Seq(Lines(C))]
    BY <1>3, <2>1, <2>2, <2>3
  <2> QED BY <1>3, <2>2, <2>4
<1>8. Plain(g, i + 1, z)
  <2>1. s.lines = << >> /\ s.open = {g.ps[j].items[1] : j \in 1..i}
    BY <1>4 DEF Plain
  <2>2. O = {g.ps[j].items[1] : j \in 1..(i + 1)}
    <3>1. a = g.ps[i + 1].items[1]
      BY DEF a
    <3> QED BY <1>i, <2>1, <3>1
  <2>3. \A j \in 1..(i + 1) : IsSingle(g.ps[j])
    BY <1>1, <1>i
  <2> QED BY <1>7, <2>1, <2>2, <2>3 DEF Plain
<1>9. Made(g, C, i + 1, z)
  BY <1>i, <1>7, <1>8, PlainMade
<1> QED BY <1>9 DEF z

\* One round of the loop over the positions.
LEMMA MadeStep ==
    ASSUME NEW g, NEW C, GenOK(g, C), NEW i \in 0..9, i < Len(g.ps), NEW s,
           Made(g, C, i, s)
    PROVE  Made(g, C, i + 1, Position(g, s, i + 1))
<1> DEFINE q == g.ps[i + 1]
<1>0. Position(g, s, i + 1) = IF IsSingle(q) THEN Single(s, q)
                              ELSE IF i + 1 = 1 /\ ~q.neg THEN Spread(g, s, q)
                              ELSE Chained(g, s, q, i + 1 = Len(g.ps))
  BY DEF Position, IsSingle
<1>1. CASE IsSingle(q)
  BY <1>0, <1>1, SingleMade
<1>2. CASE ~IsSingle(q) /\ i = 0 /\ ~q.neg
  <2>1. s.n = 1 /\ s = Start
    <3>1. s \in [n : 1..(0 + 1), open : SUBSET C, lines : Seq(Lines(C))]
      BY <1>2 DEF Made, Building
    <3>2. s.n = 1
      BY <3>1
    <3>3. Plain(g, 0, s)
      BY <1>2, <3>2 DEF Made
    <3>4. s.lines = << >> /\ s.open = {}
      BY <3>3 DEF Plain
    <3>5. s = [n |-> s.n, open |-> s.open, lines |-> s.lines]
      BY <3>1
    <3> QED BY <3>2, <3>4, <3>5 DEF Start
  <2>2. 1 <= Len(g.ps) /\ q = g.ps[1]
    <3>1. Len(g.ps) \in Nat
      BY DEF GenOK
    <3> QED BY <1>2, <3>1
  <2>3. Made(g, C, 1, Spread(g, Start, g.ps[1]))
    BY <1>2, <2>2, SpreadMade
  <2>4. Position(g, s, i + 1) = Spread(g, s, q)
    BY <1>0, <1>2
  <2> QED BY <1>2, <2>1, <2>2, <2>3, <2>4
<1>3. CASE ~IsSingle(q) /\ ~(i = 0 /\ ~q.neg)
  <2>1. Position(g, s, i + 1) = Chained(g, s, q, i + 1 = Len(g.ps))
    BY <1>0, <1>3
  <2> QED BY <1>3, <2>1, ChainedMade
<1> QED BY <1>1, <1>2, <1>3

\* All rounds.
LEMMA AllMade ==
    ASSUME NEW g, NEW C, GenOK(g, C)
    PROVE  Made(g, C, Len(g.ps), AllPositions(g))
<1> DEFINE ps == g.ps
           S == ToSet(ps)
           L == Len(ps)
<1>0. ps \in Seq(S) /\ L \in 0..10
  <2>1. ps \in Seq(S) /\ Len(ps) <= 10
    BY DEF GenOK
  <2> HIDE DEF ps, S
  <2>2. L \in Nat /\ L <= 10
    BY <2>1
  <2> HIDE DEF L
  <2>3. L \in 0..10
    BY <2>2
  <2> QED BY <2>1, <2>3
<1>1. AllPositions(g) = Steps!Positioned(g, Start, ps)
  BY DEF Steps!Positioned, FoldLeft, MapThenFoldSet, AllPositions,
         Steps!Folded, FoldLeftDomain, StepOf, Steps!Largest, Max
<1> HIDE DEF S
<1>2. PICK f : Steps!Trace(f, g, Start, [i \in DOMAIN ps |-> i])
               /\ f[Len(ps)] = Steps!Positioned(g, Start, ps)
  BY <1>0, NatWellOrdered, Steps!PositionTrace DEF Steps!WellOrdered
<1>3. f[0] = Start /\ \A i \in 1..Len(ps) : f[i] = Position(g, f[i - 1], i)
  <2>1. f[0] = Start
    BY <1>2 DEF Steps!Trace
  <2>2. Len([i \in DOMAIN ps |-> i]) = Len(ps) /\ \A i \in 1..Len(ps) : [j \in DOMAIN ps |-> j][i] = i
    <3> HIDE DEF ps
    <3> QED BY <1>0
  <2> DEFINE r == [i \in DOMAIN ps |-> i]
  <2>3. \A i \in 1..Len(r) : f[i] = StepOf(g, f[i - 1], r[i])
    BY <1>2 DEF Steps!Trace
  <2>4. Len(r) = Len(ps) /\ \A i \in 1..Len(ps) : r[i] = i
    BY <2>2
  <2> HIDE DEF r
  <2>5. \A i \in 1..Len(ps) : f[i] = StepOf(g, f[i - 1], i)
    BY <2>3, <2>4
  <2> QED BY <2>1, <2>5 DEF StepOf
<1> DEFINE T == {i \in 0..Len(ps) : Made(g, C, i, f[i])}
<1>4. 0 \in T
  <2>1. Start \in [n : 1..(0 + 1), open : SUBSET C, lines : Seq(Lines(C))] /\ Start.n = 1
    BY DEF Start
  <2>2. Plain(g, 0, Start)
    <3>1. Start.lines = << >> /\ Start.open = {}
      BY DEF Start
    <3> QED BY <3>1 DEF Plain
  <2>3. 0 \in 0..Len(ps)
    BY <1>0
  <2>4. Made(g, C, 0, Start)
    BY <2>1, <2>2, <2>3, PlainMade
  <2> QED BY <1>3, <2>3, <2>4
<1>5. ASSUME NEW i \in 0..(Len(ps) - 1), i \in T PROVE i + 1 \in T
  <2>1. i \in 0..9 /\ i < Len(ps) /\ i + 1 \in 1..Len(ps) /\ (i + 1) - 1 = i /\ i + 1 \in 0..Len(ps)
    <3> HIDE DEF L
    <3>1. i \in 0..(L - 1)
      BY DEF L
    <3>2. i \in 0..9 /\ i < L /\ i + 1 \in 1..L /\ (i + 1) - 1 = i /\ i + 1 \in 0..L
      BY <1>0, <3>1
    <3> QED BY <3>2 DEF L
  <2>2. Made(g, C, i, f[i])
    BY <1>5
  <2>3. Made(g, C, i + 1, Position(g, f[i], i + 1))
    BY <2>1, <2>2, MadeStep
  <2>4. f[i + 1] = Position(g, f[i], i + 1)
    BY <1>3, <2>1
  <2> QED BY <2>1, <2>3, <2>4
<1> HIDE DEF T
<1>6. 0..Len(ps) \subseteq T
  <2>1. Len(ps) \in Nat /\ \A i \in 0..(Len(ps) - 1) : i \in T => i + 1 \in T
    BY <1>0, <1>5
  <2> QED BY <1>4, <2>1, UpTo
<1>7. Len(ps) \in T
  BY <1>0, <1>6
<1> QED BY <1>1, <1>2, <1>7 DEF T

(***************************************************************************)
(* What generateCompilationString returns.                                 *)
(***************************************************************************)
Passed(g, p) == AllMet(g.end, p) /\ \A j \in 1..Len(g.ps) : Satisfied(g.ps[j], p)

Generated(g, C, n, r) ==
    /\ r \in Seq(Lines(C)) /\ \A k \in 1..Len(r) : LineOK(g, n, r[k])
    /\ Loads(g, n, g.action, r)
    /\ \A p, e, x : Linked(g, p, e, n, r, g.action, x) =>
         Agrees(x, Flow(View(g.table, g.start, p, e), r), If(Passed(g, p), e[g.action]))

\* A command in the chain of the hook that leads to the action.
LEMMA ToAction ==
    ASSUME NEW g, NEW C, GenOK(g, C), NEW l, l.table = g.table, l.chain = g.start, l.to = g.action
    PROVE  LineOK(g, 1, l)
<1>1. g.action # Create
  BY ActionIs
<1>2. Rank(g.start) = 40 /\ (Terminal(g.action) \/ Rank(g.action) \in {1, 2})
  BY RankIs
<1> QED BY <1>1, <1>2 DEF LineOK

\* A rule with one position, not negated.
LEMMA OneList ==
    ASSUME NEW g, NEW C, GenOK(g, C), Len(g.ps) = 1, ~g.ps[1].neg
    PROVE  Generated(g, C, 1, Rules(g.table, g.start, g.ps[1].items, g.end, g.action))
<1> DEFINE q == g.ps[1]
           M == g.end
           to == g.action
           r == Rules(g.table, g.start, q.items, M, to)
<1>1. q.items \in Seq(C) /\ ~q.neg /\ M \in SUBSET C /\ to \in Targets /\ to # Create
  <2>1. 1 \in 1..Len(g.ps)
    OBVIOUS
  <2> QED BY <2>1, ActionIs DEF GenOK
<1>2. \A p : Passed(g, p) <=> AllMet(M, p) /\ Satisfied(q, p)
  BY DEF Passed
<1>3. \A p : Once(g, p) => ~Twice(q.items, p)
  BY DEF Once
<1>4. /\ GenOK(g, C)
  OBVIOUS
<1> HIDE DEF q, M, to
<1>5. LET z == Rules(g.table, g.start, q.items, M, to)
      IN /\ z \in Seq(Lines(C)) /\ Len(z) = Len(q.items) /\ Loads(g, 1, to, z)
         /\ \A k \in 1..Len(z) : z[k].table = g.table /\ z[k].chain = g.start /\ z[k].to = to
         /\ Starts(g, q, M, to)
  BY ONLY <1>1, <1>4, StartRules
<1>6. r \in Seq(Lines(C)) /\ Loads(g, 1, to, r)
      /\ \A k \in 1..Len(r) : r[k].table = g.table /\ r[k].chain = g.start /\ r[k].to = to
  BY <1>5
<1>7. \A k \in 1..Len(r) : LineOK(g, 1, r[k])
  <2> HIDE DEF r
  <2> QED BY <1>6, ToAction DEF to
<1>8. ASSUME NEW p, NEW e, NEW x, Linked(g, p, e, 1, r, g.action, x)
      PROVE  Agrees(x, Flow(View(g.table, g.start, p, e), r), If(Passed(g, p), e[g.action]))
  <2>1. e \in [Targets -> Results] /\ (x => Once(g, p) \/ Again(e[to]))
    BY <1>8 DEF Linked, to
  <2>2. Agrees(x, Flow(View(g.table, g.start, p, e), r), If(AllMet(M, p) /\ Satisfied(q, p), e[to]))
    BY <1>3, <1>5, <2>1 DEF Starts
  <2>3. If(Passed(g, p), e[to]) = If(AllMet(M, p) /\ Satisfied(q, p), e[to])
    BY <1>2 DEF If
  <2> QED BY <2>2, <2>3 DEF to
<1> HIDE DEF r
<1>9. Generated(g, C, 1, r)
  BY <1>6, <1>7, <1>8 DEF Generated, to
<1> QED BY <1>9 DEF r, q, M, to

\* A rule whose positions have one condition each, or none.
LEMMA OneRule ==
    ASSUME NEW g, NEW C, GenOK(g, C), NEW s, Plain(g, Len(g.ps), s), s.open \subseteq C
    PROVE  Generated(g, C, 1, Append(s.lines, Rule(g.table, g.start, s.open \cup g.end, g.action)))
<1> DEFINE M == g.end
           to == g.action
           O == s.open
           l == Rule(g.table, g.start, O \cup M, to)
           r == <<l>>
           N == Len(g.ps)
<1>1. M \in SUBSET C /\ to \in Targets /\ to # Create /\ g.table \in Tables /\ g.start \in Targets
  BY ActionIs, HooksAre DEF GenOK
<1>2. N \in 0..N
  <2>1. g.ps \in Seq(ToSet(g.ps))
    BY DEF GenOK
  <2>2. N \in Nat
    BY <2>1
  <2> QED BY <2>2
<1> HIDE DEF M, to
<1>3. \A p, e : e \in [Targets -> Results] => OnlyIf(g, N, s, M, to, p, e)
  BY <1>1, <1>2, PlainRule
<1>4. l.table = g.table /\ l.chain = g.start /\ l.to = to /\ l \in Lines(C)
  <2> DEFINE A == O \cup M
             t == g.table
             c == g.start
  <2>1. A \subseteq C
    BY <1>1
  <2>2. l = Rule(t, c, A, to)
    OBVIOUS
  <2> HIDE DEF A, l, t, c
  <2> QED BY <1>1, <2>1, <2>2 DEF Rule, Lines, t, c
<1> HIDE DEF l
<1>5. r \in Seq(Lines(C)) /\ \A k \in 1..Len(r) : r[k] = l
  BY <1>4
<1>6. \A k \in 1..Len(r) : LineOK(g, 1, r[k])
  <2>1. LineOK(g, 1, l)
    BY <1>4, ToAction DEF to
  <2> HIDE DEF r
  <2> QED BY <1>5, <2>1
<1>7. Loads(g, 1, to, r)
  <2> HIDE DEF r
  <2>1. \A k \in 1..Len(r) : r[k].chain = g.start /\ r[k].to = to
    BY <1>4, <1>5
  <2> QED BY <1>1, <1>5, <2>1, StartLoads
<1>8. ASSUME NEW p, NEW e, NEW x, Linked(g, p, e, 1, r, g.action, x)
      PROVE  Agrees(x, Flow(View(g.table, g.start, p, e), r), If(Passed(g, p), e[g.action]))
  <2>1. e \in [Targets -> Results]
    BY <1>8 DEF Linked
  <2>2. Flow(View(g.table, g.start, p, e), r)
          = If(AllMet(M, p) /\ \A j \in 1..N : Satisfied(g.ps[j], p), e[to])
    BY <1>3, <2>1 DEF OnlyIf, l
  <2>3. If(Passed(g, p), e[to]) = If(AllMet(M, p) /\ \A j \in 1..N : Satisfied(g.ps[j], p), e[to])
    BY DEF Passed, M
  <2> QED BY <2>2, <2>3, AgreesIs DEF to
<1>9. Generated(g, C, 1, r)
  <2> HIDE DEF r
  <2> QED BY <1>5, <1>6, <1>7, <1>8 DEF Generated, to
<1>10. Append(s.lines, l) = r
  BY DEF Plain
<1> QED BY <1>9, <1>10 DEF l, M, to

\* generateCompilationString: who meets every position reaches the action.
LEMMA GenerateIs ==
    ASSUME NEW g, NEW C, GenOK(g, C), g.end = g.state \/ g.ps = << >>
    PROVE  \E n \in 1..11 : Generated(g, C, n, Generate(g))
<1> DEFINE s == AllPositions(g)
           N == Len(g.ps)
<1>1. Made(g, C, N, s)
  BY AllMade
<1>N. N \in 0..10
  <2>1. g.ps \in Seq(ToSet(g.ps)) /\ Len(g.ps) <= 10
    BY DEF GenOK
  <2>2. N \in Nat /\ N <= 10
    BY <2>1
  <2> HIDE DEF N
  <2> QED BY <2>2
<1>0. Generate(g) = IF N = 1 /\ ~g.ps[1].neg
                    THEN Rules(g.table, g.start, g.ps[1].items, g.end, g.action)
                    ELSE IF s.n = 1
                    THEN Append(s.lines, Rule(g.table, g.start, s.open \cup g.end, g.action))
                    ELSE s.lines
  BY DEF Generate
<1>2. s \in [n : 1..(N + 1), open : SUBSET C, lines : Seq(Lines(C))]
      /\ \A k \in 1..Len(s.lines) : LineOK(g, s.n, s.lines[k])
  BY <1>1 DEF Made, Building
<1> HIDE DEF s
<1>3. s.n \in 1..(N + 1) /\ s.open \subseteq C /\ s.lines \in Seq(Lines(C))
  BY <1>2
<1> DEFINE n == s.n
<1>4. n \in 1..11 /\ 1 \in 1..11 /\ (n # 1 => n > 1 /\ N # 0)
  <2> HIDE DEF n, N
  <2>1. n \in 1..(N + 1)
    BY <1>3 DEF n
  <2> QED BY <1>N, <2>1
<1>5. CASE N = 1 /\ ~g.ps[1].neg
  <2>1. Generated(g, C, 1, Generate(g))
    BY <1>0, <1>5, OneList
  <2> QED BY <1>4, <2>1
<1>6. CASE ~(N = 1 /\ ~g.ps[1].neg) /\ n = 1
  <2>1. Plain(g, N, s)
    BY <1>1, <1>6 DEF Made
  <2>2. Generated(g, C, 1, Append(s.lines, Rule(g.table, g.start, s.open \cup g.end, g.action)))
    BY <1>3, <2>1, OneRule
  <2> QED BY <1>0, <1>4, <1>6, <2>2
<1>7. CASE ~(N = 1 /\ ~g.ps[1].neg) /\ n # 1
  <2>1. Generate(g) = s.lines
    BY <1>0, <1>7
  <2>2. n > 1 /\ N # 0 /\ g.end = g.state
    <3>1. n > 1 /\ N # 0
      BY <1>4, <1>7
    <3> QED BY <3>1
  <2>3. Onto(g, n, N) = g.action
    BY <2>2 DEF Onto
  <2>4. Opened(g, s) = s.lines
    BY <1>7 DEF Opened
  <2>5. Loads(g, n, g.action, s.lines) /\ Leads(g, n, g.action, N, s.lines)
    BY <1>1, <2>3, <2>4 DEF Made
  <2>6. \A p : Passes(g, N, p) <=> Passed(g, p)
    BY <2>2 DEF Passes, Passed
  <2> DEFINE r == s.lines
  <2> HIDE DEF n, r, N
  <2>7. ASSUME NEW p, NEW e, NEW x, Linked(g, p, e, n, r, g.action, x)
        PROVE  Agrees(x, Flow(View(g.table, g.start, p, e), r), If(Passed(g, p), e[g.action]))
    <3>1. Agrees(x, Flow(View(g.table, g.start, p, e), r), If(Passes(g, N, p), e[g.action]))
      BY <2>5, <2>7 DEF Leads, r
    <3>2. If(Passes(g, N, p), e[g.action]) = If(Passed(g, p), e[g.action])
      BY <2>6 DEF If
    <3> QED BY <3>1, <3>2
  <2>8. r \in Seq(Lines(C)) /\ \A k \in 1..Len(r) : LineOK(g, n, r[k])
    BY <1>2, <1>3 DEF r, n
  <2>9. Generated(g, C, n, r)
    BY <2>5, <2>7, <2>8 DEF Generated, r
  <2> QED BY <1>4, <2>1, <2>9 DEF r
<1> QED BY <1>5, <1>6, <1>7

(***************************************************************************)
(* What a rule is compiled with.                                           *)
(***************************************************************************)
PositionConds(rule) == UNION {ToSet(Items(rule, d)) : d \in ToSet(Positions(rule.type))}
Conds(rule) ==
    PositionConds(rule) \cup NatProtocol(rule) \cup Stateful(rule) \cup EndConditions(rule)

\* Conditions for the chain of a hook that the firewall takes, but for their
\* protocols; and a service that has one of a protocol has no other.
CondsOK(hook, C) ==
    /\ Fit(Name(hook, 0), C)
    /\ \A m, q \in C : m.dim = "SVC" /\ q.dim = "PROTO" /\ m.vals \cap q.vals # {}
                         => m.vals \subseteq q.vals

\* A condition on a service has services of one protocol; one on a protocol has
\* all the services of it.
Pure(m) ==
    /\ m.ports \in 0..MultiportLimit
    /\ m.dim = "SVC" => m.vals \subseteq Values["SVC"] /\ \A v, w \in m.vals : Proto[v] = Proto[w]
    /\ m.dim = "PROTO" => \E z : m.vals = {v \in Values["SVC"] : Proto[v] = z}

\* Conditions of one kind each are accepted and do not overlap in part.
LEMMA PureConds ==
    ASSUME NEW C, \A m \in C : Pure(m), MultiportLimit \in Nat, NEW hook,
           hook = "PREROUTING" => \A m \in C : m.dim # "OUT"
    PROVE  CondsOK(hook, C)
<1>1. \A m \in C : m.ports <= MultiportLimit
  BY DEF Pure
<1>2. Name(hook, 0) = Name("PREROUTING", 0) => hook = "PREROUTING"
  <2>1. Name(hook, 0).kind = hook /\ Name("PREROUTING", 0).kind = "PREROUTING"
    BY DEF Name
  <2> QED BY <2>1
<1>3. Fit(Name(hook, 0), C)
  BY <1>1, <1>2 DEF Fit
<1>4. ASSUME NEW m \in C, NEW q \in C, m.dim = "SVC", q.dim = "PROTO", m.vals \cap q.vals # {}
      PROVE  m.vals \subseteq q.vals
  <2>1. PICK z : q.vals = {v \in Values["SVC"] : Proto[v] = z}
    BY <1>4 DEF Pure
  <2>2. m.vals \subseteq Values["SVC"] /\ \A v, w \in m.vals : Proto[v] = Proto[w]
    BY <1>4 DEF Pure
  <2>3. PICK u : u \in m.vals /\ u \in q.vals
    BY <1>4
  <2>4. \A v \in m.vals : Proto[v] = z
    BY <2>1, <2>2, <2>3
  <2> QED BY <2>1, <2>2, <2>4
<1> QED BY <1>3, <1>4 DEF CondsOK

\* Services are values of the packets.
LEMMA ItemValues ==
    ASSUME NEW rule, RuleOK(rule), MultiportLimit \in Nat, NEW m \in ToSet(Items(rule, "SVC"))
    PROVE  m.vals \subseteq Values["SVC"]
<1>1. "SVC" \in ToSet(Positions(rule.type))
  BY PositionsAre DEF RuleOK
<1>2. Conditions("SVC", Items(rule, "SVC"), Objects(rule, "SVC"))
  BY <1>1, ItemsAre
<1>3. \A o \in Objects(rule, "SVC") : o.vals \subseteq Values["SVC"]
  BY <1>1 DEF Objects, RuleOK, ObjectOK
<1>4. ASSUME NEW v \in m.vals PROVE v \in Values["SVC"]
  <2>1. \E o \in Objects(rule, "SVC") : v \in o.vals
    BY <1>2 DEF Conditions
  <2> QED BY <1>3, <2>1
<1> QED BY <1>4

\* The conditions of a position are of its kind.
LEMMA ItemPure ==
    ASSUME NEW rule, RuleOK(rule), MultiportLimit \in Nat,
           NEW d \in ToSet(Positions(rule.type)), NEW m \in ToSet(Items(rule, d))
    PROVE  Pure(m) /\ m.dim = d
<1>1. ConditionOK(d, m)
  BY ItemsAre DEF Conditions
<1>2. d \in {"IN", "OUT", "SVC", "SRC", "DST"}
  BY PositionsAre DEF RuleOK
<1>3. d = "SVC" => m.vals \subseteq Values["SVC"]
  BY ItemValues
<1> QED BY <1>1, <1>2, <1>3 DEF Pure, ConditionOK

\* The conditions that come with the action are of one kind each.
LEMMA OtherPure ==
    ASSUME NEW rule, MultiportLimit \in Nat,
           NEW m \in NatProtocol(rule) \cup Stateful(rule) \cup EndConditions(rule)
    PROVE  Pure(m) /\ m.dim \in {"PROTO", "CT", "SRC"}
<1>0. \A d, v, f : LET c == Condition(d, v, 0, f) IN c.dim = d /\ c.vals = v /\ c.ports = 0
  BY DEF Condition
<1>1. ASSUME NEW v, NEW d \in {"CT", "SRC"}, NEW f, m = Condition(d, v, 0, f) PROVE Pure(m) /\ m.dim = d
  <2>1. m.dim = d /\ m.ports = 0
    BY <1>0, <1>1
  <2> QED BY <2>1 DEF Pure
<1>2. \A k \in Stateful(rule) : k = Condition("CT", {Opening}, 0, "any")
  BY DEF Stateful, Simple
<1>3. CASE m \in NatProtocol(rule)
  <2> DEFINE V == {v \in Values["SVC"] : Proto[v] = rule.tr.svc}
  <2>1. m = Condition("PROTO", V, 0, "ipv4")
    BY <1>3 DEF NatProtocol
  <2>2. m.dim = "PROTO" /\ m.vals = V /\ m.ports = 0
    <3> HIDE DEF V
    <3> QED BY <1>0, <2>1
  <2> QED BY <2>2 DEF Pure
<1>4. CASE m \in Stateful(rule)
  BY <1>1, <1>2, <1>4
<1>5. CASE m \in EndConditions(rule)
  <2>1. CASE rule.special = "stateful"
    BY <1>1, <1>5, <2>1 DEF EndConditions, Simple
  <2>2. CASE rule.special = "crowdsec"
    BY <1>1, <1>5, <2>2 DEF EndConditions
  <2>3. CASE rule.special # "stateful" /\ rule.special # "crowdsec"
    <3>1. m \in Stateful(rule)
      BY <1>5, <2>3 DEF EndConditions
    <3> QED BY <1>1, <1>2, <3>1
  <2> QED BY <2>1, <2>2, <2>3
<1> QED BY <1>3, <1>4, <1>5

\* So are all of a rule.
LEMMA CondsPure ==
    ASSUME NEW rule, RuleOK(rule), MultiportLimit \in Nat, NEW m \in Conds(rule)
    PROVE  Pure(m) /\ m.dim \in ToSet(Positions(rule.type)) \cup {"PROTO", "CT", "SRC"}
<1>1. CASE m \in NatProtocol(rule) \cup Stateful(rule) \cup EndConditions(rule)
  BY <1>1, OtherPure
<1>2. CASE m \in PositionConds(rule)
  <2>1. PICK d \in ToSet(Positions(rule.type)) : m \in ToSet(Items(rule, d))
    BY <1>2 DEF PositionConds
  <2> QED BY <2>1, ItemPure
<1> QED BY <1>1, <1>2 DEF Conds

(***************************************************************************)
(* What the chain of a rule is generated from, and what it lets through.   *)
(***************************************************************************)
\* A rule that is compiled, in a chain of which C has the conditions.
Compiling(rule, C) ==
    /\ RuleOK(rule) /\ ~Bad(rule) /\ ~Scripted(rule) /\ Conds(rule) \subseteq C
    /\ MultiportLimit \in Nat
    /\ rule.special \in {"stateful", "crowdsec"} => CompileRulePositions(rule) = << >>

\* The positions of a rule, as generateCompilationString takes them.
LEMMA PsAre ==
    ASSUME NEW rule, RuleOK(rule), MultiportLimit \in Nat, NEW C, Conds(rule) \subseteq C
    PROVE  LET ps == CompileRulePositions(rule)
           IN /\ ps \in Seq(ToSet(ps)) /\ Len(ps) <= 10
              /\ \A i \in 1..Len(ps) : /\ ps[i].neg \in BOOLEAN /\ ps[i].items \in Seq(C)
                                       /\ Len(ps[i].items) # 0
              /\ \A i, j \in 1..Len(ps) : i < j /\ IsSingle(ps[j]) => IsSingle(ps[i])
              /\ \A d \in Used(rule) : \E i \in 1..Len(ps) : ps[i] = PositionOf(rule, d)
              /\ \A i \in 1..Len(ps) : \E d \in Used(rule) : ps[i] = PositionOf(rule, d)
<1> DEFINE ps == CompileRulePositions(rule)
<1>1. /\ ToSet(ps) = {PositionOf(rule, d) : d \in Used(rule)}
      /\ ps \in Seq(ToSet(ps)) /\ Len(ps) <= 10
      /\ \A i, j \in 1..Len(ps) : i < j /\ IsSingle(ps[j]) => IsSingle(ps[i])
  BY RulePositionsAre
<1> HIDE DEF ps
<1>2. ToSet(ps) = {ps[i] : i \in 1..Len(ps)}
  BY <1>1, ToSetIs
<1>3. /\ \A d \in Used(rule) : \E i \in 1..Len(ps) : ps[i] = PositionOf(rule, d)
      /\ \A i \in 1..Len(ps) : \E d \in Used(rule) : ps[i] = PositionOf(rule, d)
  BY <1>1, <1>2
<1>4. ASSUME NEW d \in Used(rule)
      PROVE  LET q == PositionOf(rule, d)
             IN q.neg \in BOOLEAN /\ q.items \in Seq(C) /\ Len(q.items) # 0
  <2> DEFINE items == Items(rule, d)
             q == PositionOf(rule, d)
  <2>1. d \in ToSet(Positions(rule.type)) /\ items # << >>
    BY DEF Used
  <2>2. items \in Seq(ToSet(items))
    BY <2>1, ItemsAre DEF Conditions
  <2>3. ToSet(items) \subseteq C
    <3> DEFINE T == ToSet(items)
    <3>1. T \subseteq Conds(rule)
      BY <2>1 DEF Conds, PositionConds
    <3> HIDE DEF T
    <3>2. T \subseteq C
      BY <3>1
    <3> QED BY <3>2 DEF T
  <2>4. q.neg = rule.pos[d].neg /\ q.items = items
    BY DEF PositionOf
  <2>5. rule.pos[d].neg \in BOOLEAN
    BY <2>1 DEF RuleOK
  <2> HIDE DEF q, items
  <2>6. items \in Seq(C) /\ Len(items) # 0
    <3> DEFINE T == ToSet(items)
    <3>1. items \in Seq(T) /\ T \subseteq C /\ items # << >>
      BY <2>1, <2>2, <2>3
    <3> HIDE DEF T
    <3> QED BY <3>1
  <2> QED BY <2>4, <2>5, <2>6 DEF q
<1>5. \A i \in 1..Len(ps) : ps[i].neg \in BOOLEAN /\ ps[i].items \in Seq(C) /\ Len(ps[i].items) # 0
  BY <1>3, <1>4
<1> QED BY <1>1, <1>3, <1>5 DEF ps

\* The fields of a name.
LEMMA NameIs ==
    ASSUME NEW kind \in Kinds, NEW id \in Nat
    PROVE  /\ Name(kind, id) \in Targets /\ Name(kind, id).kind = kind
           /\ Name(kind, id).id = id /\ Name(kind, id).n = 0
<1>1. Name(kind, id) = [kind |-> kind, id |-> id, n |-> 0]
  BY DEF Name
<1> QED BY <1>1 DEF Targets

\* What a rule does is a verdict, or it counts.
LEMMA BaseActionIs ==
    ASSUME NEW rule, RuleOK(rule)
    PROVE  LET b == BaseAction(rule)
           IN /\ b \in Targets /\ b.id = rule.id
              /\ Accounted(rule) => b = AccChain(rule) /\ b.kind = "ACC"
              /\ ~Accounted(rule) => b.kind \in {"ACCEPT", "DROP", "REJECT", "SNAT", "DNAT", "MASQUERADE"}
<1> DEFINE K == {"ACCEPT", "DROP", "REJECT", "SNAT", "DNAT", "MASQUERADE"}
<1>1. rule.id \in Nat /\ rule.type \in FilterTypes \cup NatTypes
      /\ rule.action \in {"ACCEPT", "DROP", "REJECT", "ACCOUNTING"}
  BY DEF RuleOK
<1>2. K \subseteq Kinds /\ "ACC" \in Kinds
  BY DEF Kinds, Final
<1>3. \A kind \in K \cup {"ACC"} : LET b == Name(kind, rule.id)
                                   IN b \in Targets /\ b.id = rule.id /\ b.kind = kind
  BY <1>1, <1>2, NameIs
<1>4. CASE rule.type \in NatTypes
  <2>1. ~Accounted(rule)
    BY <1>4 DEF Accounted, NatTypes, FilterTypes
  <2>2. BaseAction(rule) = NatAction(rule)
    BY <1>4 DEF BaseAction
  <2>3. NatAction(rule) = Name("MASQUERADE", rule.id) \/ NatAction(rule) = Name(rule.type, rule.id)
    BY DEF NatAction
  <2>4. rule.type \in K
    BY <1>4 DEF NatTypes
  <2> QED BY <1>3, <2>1, <2>2, <2>3, <2>4
<1>5. CASE rule.type \notin NatTypes /\ Accounted(rule)
  <2>1. BaseAction(rule) = AccChain(rule)
    BY <1>5 DEF BaseAction
  <2> QED BY <1>3, <1>5, <2>1 DEF AccChain
<1>6. CASE rule.type \notin NatTypes /\ ~Accounted(rule)
  <2>1. rule.action \in K
    BY <1>1, <1>6 DEF Accounted
  <2>2. BaseAction(rule) = Name("ACCEPT", rule.id) \/ BaseAction(rule) = Name(rule.action, rule.id)
    BY <1>6 DEF BaseAction
  <2> QED BY <1>3, <1>6, <2>1, <2>2
<1> QED BY <1>4, <1>5, <1>6

\* The chain and the table a rule is compiled for.
LEMMA HookNames ==
    ASSUME NEW type \in FilterTypes \cup NatTypes
    PROVE  /\ Hook(type) \in {"PREROUTING", "INPUT", "FORWARD", "OUTPUT", "POSTROUTING"}
           /\ TableOf(type) \in {"filter", "nat"}
           /\ type \in FilterTypes <=> TableOf(type) = "filter"
           /\ Hook(type) = "PREROUTING" => type = "DNAT"
BY DEF FilterTypes, NatTypes, Hook, TableOf

\* ruleCompile hands generateCompilationString what it takes.
LEMMA MatchingIs ==
    ASSUME NEW rule, NEW C, Compiling(rule, C)
    PROVE  LET g == Matching(rule)
           IN /\ GenOK(g, C) /\ (g.end = g.state \/ g.ps = << >>)
              /\ g.action = Action(rule) /\ g.action.id = rule.id /\ g.id = rule.id /\ g.kind = "CH"
              /\ g.table = TableOf(rule.type) /\ g.start = Name(Hook(rule.type), 0)
              /\ g.ps = CompileRulePositions(rule) /\ g.end = EndConditions(rule)
<1> DEFINE g == Matching(rule)
<1>1. /\ g.id = rule.id /\ g.kind = "CH" /\ g.table = TableOf(rule.type)
      /\ g.start = Name(Hook(rule.type), 0) /\ g.ps = CompileRulePositions(rule)
      /\ g.action = Action(rule) /\ g.state = Stateful(rule) /\ g.end = EndConditions(rule)
  BY DEF Matching
<1> HIDE DEF g
<1>2. RuleOK(rule) /\ MultiportLimit \in Nat /\ Conds(rule) \subseteq C
  BY DEF Compiling
<1>3. g.table \in Tables /\ g.start \in Hooks /\ g.id \in Nat
  BY <1>1, <1>2, HookNames, HookIs DEF RuleOK, Tables
<1>4. g.action \in Targets /\ g.action.id = rule.id
      /\ (Terminal(g.action) \/ g.action.kind \in {"ACC", "LOGCHAIN"})
  <2>1. BaseAction(rule) \in Targets /\ BaseAction(rule).id = rule.id
        /\ BaseAction(rule).kind \in {"ACC", "ACCEPT", "DROP", "REJECT", "SNAT", "DNAT", "MASQUERADE"}
    BY <1>2, BaseActionIs
  <2>2. Terminal(BaseAction(rule)) \/ BaseAction(rule).kind = "ACC"
    BY <2>1 DEF Terminal, Final
  <2>3. LogChain(rule) \in Targets /\ LogChain(rule).kind = "LOGCHAIN" /\ LogChain(rule).id = rule.id
    <3>1. "LOGCHAIN" \in Kinds /\ rule.id \in Nat
      BY <1>2 DEF Kinds, RuleOK
    <3> QED BY <3>1, NameIs DEF LogChain
  <2> QED BY <1>1, <2>1, <2>2, <2>3 DEF Action
<1>5. Stateful(rule) \subseteq C /\ EndConditions(rule) \subseteq C
  <2>1. Stateful(rule) \subseteq Conds(rule) /\ EndConditions(rule) \subseteq Conds(rule)
    BY DEF Conds
  <2> QED BY <1>2, <2>1
<1>6. /\ g.ps \in Seq(ToSet(g.ps)) /\ Len(g.ps) <= 10
      /\ \A i \in 1..Len(g.ps) : /\ g.ps[i].neg \in BOOLEAN /\ g.ps[i].items \in Seq(C)
                                 /\ Len(g.ps[i].items) # 0
      /\ \A i, j \in 1..Len(g.ps) : i < j /\ IsSingle(g.ps[j]) => IsSingle(g.ps[i])
  BY <1>1, <1>2, PsAre
<1>7. GenOK(g, C)
  BY <1>1, <1>3, <1>4, <1>5, <1>6 DEF GenOK
<1>8. g.end = g.state \/ g.ps = << >>
  BY <1>1 DEF EndConditions, Compiling
<1> QED BY <1>1, <1>4, <1>7, <1>8 DEF g

\* Who meets a condition.
LEMMA MetCondition ==
    ASSUME NEW d, NEW vals, NEW p, NEW f
    PROVE  LET m == Condition(d, vals, 0, f)
           IN /\ d # "PROTO" => (AllMet({m}, p) <=> p[d] \in vals)
              /\ d = "PROTO" => (AllMet({m}, p) <=> p["SVC"] \in vals)
<1> DEFINE m == Condition(d, vals, 0, f)
<1>1. m.dim = d /\ m.vals = vals
  BY DEF Condition
<1> HIDE DEF m
<1>2. AllMet({m}, p) <=> Met(m, p)
  BY DEF AllMet
<1>3. /\ d # "PROTO" => (AllMet({m}, p) <=> p[d] \in vals)
      /\ d = "PROTO" => (AllMet({m}, p) <=> p["SVC"] \in vals)
  BY <1>1, <1>2 DEF Met
<1> QED BY <1>3 DEF m

\* What a packet must be to pass one position.
At(rule, d, p) ==
    Objects(rule, d) # {} => (~rule.pos[d].neg <=> \E o \in Objects(rule, d) : p[d] \in o.vals)

\* A position is satisfied by the packets that it is meant for.
LEMMA SatisfiedIs ==
    ASSUME NEW rule, RuleOK(rule), MultiportLimit \in Nat, NEW d \in ToSet(Positions(rule.type)), NEW p
    PROVE  /\ d \in Used(rule) => (Satisfied(PositionOf(rule, d), p) <=> At(rule, d, p))
           /\ d \notin Used(rule) => At(rule, d, p)
<1> DEFINE items == Items(rule, d)
           q == PositionOf(rule, d)
           objs == Objects(rule, d)
<1>1. Conditions(d, items, objs)
  BY ItemsAre
<1>2. q.items = items /\ q.neg = rule.pos[d].neg /\ q.neg \in BOOLEAN
  BY DEF PositionOf, RuleOK
<1>3. d \in Used(rule) <=> items # << >>
  BY DEF Used
<1> HIDE DEF items, objs, q
<1>4. items \in Seq(ToSet(items)) /\ (items = << >> <=> objs = {})
  BY <1>1 DEF Conditions
<1>5. ToSet(items) = {items[i] : i \in 1..Len(items)}
  BY <1>4, ToSetIs
<1>6. \A i \in 1..Len(items) : Met(items[i], p) <=> p[d] \in items[i].vals
  <2> TAKE i \in 1..Len(items)
  <2>1. items[i] \in ToSet(items)
    BY <1>5
  <2>2. items[i].dim = d
    BY <2>1, ItemPure DEF items
  <2>3. d # "PROTO"
    BY PositionsAre DEF RuleOK
  <2> QED BY <2>2, <2>3 DEF Met
<1>7. (\E i \in 1..Len(items) : Met(items[i], p)) <=> \E o \in objs : p[d] \in o.vals
  <2>1. (\E m \in ToSet(items) : p[d] \in m.vals) <=> \E o \in objs : p[d] \in o.vals
    BY <1>1 DEF Conditions
  <2> QED BY <1>5, <1>6, <2>1
<1>8. Satisfied(q, p) <=> (~rule.pos[d].neg <=> \E o \in objs : p[d] \in o.vals)
  BY <1>2, <1>7 DEF Satisfied
<1>9. At(rule, d, p) <=> (objs # {} => (~rule.pos[d].neg <=> \E o \in objs : p[d] \in o.vals))
  BY DEF At, objs
<1> QED BY <1>3, <1>4, <1>8, <1>9 DEF q

\* All positions are satisfied by the packets the rule is meant for.
LEMMA PositionsMet ==
    ASSUME NEW rule, NEW C, Compiling(rule, C), NEW p
    PROVE  LET ps == CompileRulePositions(rule)
           IN (\A j \in 1..Len(ps) : Satisfied(ps[j], p))
                <=> \A d \in ToSet(Positions(rule.type)) : At(rule, d, p)
<1> DEFINE ps == CompileRulePositions(rule)
<1>1. RuleOK(rule) /\ MultiportLimit \in Nat /\ Conds(rule) \subseteq C
  BY DEF Compiling
<1>2. /\ \A d \in Used(rule) : \E i \in 1..Len(ps) : ps[i] = PositionOf(rule, d)
      /\ \A i \in 1..Len(ps) : \E d \in Used(rule) : ps[i] = PositionOf(rule, d)
  BY <1>1, PsAre
<1> HIDE DEF ps
<1>3. Used(rule) \subseteq ToSet(Positions(rule.type))
  BY DEF Used
<1>4. \A d \in ToSet(Positions(rule.type)) :
        /\ d \in Used(rule) => (Satisfied(PositionOf(rule, d), p) <=> At(rule, d, p))
        /\ d \notin Used(rule) => At(rule, d, p)
  BY <1>1, SatisfiedIs
<1>5. ASSUME \A j \in 1..Len(ps) : Satisfied(ps[j], p)
      PROVE  \A d \in ToSet(Positions(rule.type)) : At(rule, d, p)
  BY <1>2, <1>4, <1>5
<1>6. ASSUME \A d \in ToSet(Positions(rule.type)) : At(rule, d, p)
      PROVE  \A j \in 1..Len(ps) : Satisfied(ps[j], p)
  BY <1>2, <1>3, <1>4, <1>6
<1> QED BY <1>5, <1>6 DEF ps

SpecialMet(rule, p) ==
    CASE rule.special = "stateful" -> p["CT"] = Established
      [] rule.special = "crowdsec" -> p["SRC"] \in Banned
      [] rule.special = "none" /\ rule.type \in FilterTypes /\ rule.action = "ACCEPT"
           /\ rule.stateful -> p["CT"] = Opening
      [] OTHER -> TRUE

\* What special and stateful rules ask of the state of a connection.
LEMMA EndMet ==
    ASSUME NEW rule, NEW C, Compiling(rule, C), NEW p
    PROVE  AllMet(EndConditions(rule), p) <=> SpecialMet(rule, p)
<1>0. rule.special \in {"none", "stateful", "catchall", "crowdsec"}
  BY DEF Compiling, RuleOK, Scripted
<1>e. AllMet({}, p)
  BY DEF AllMet
<1>1. CASE rule.special = "stateful"
  <2>1. EndConditions(rule) = {Condition("CT", {Established}, 0, "any")}
    BY <1>1 DEF EndConditions, Simple
  <2>2. SpecialMet(rule, p) <=> p["CT"] = Established
    BY <1>1 DEF SpecialMet
  <2> QED BY <2>1, <2>2, MetCondition
<1>2. CASE rule.special = "crowdsec"
  <2>1. EndConditions(rule) = {Condition("SRC", Banned, 0, "map")}
    BY <1>2 DEF EndConditions
  <2>2. SpecialMet(rule, p) <=> p["SRC"] \in Banned
    BY <1>2 DEF SpecialMet
  <2> QED BY <2>1, <2>2, MetCondition
<1>3. CASE rule.special = "none"
  <2>1. EndConditions(rule) = Stateful(rule)
    BY <1>3 DEF EndConditions
  <2>2. CASE rule.type \in FilterTypes /\ rule.action = "ACCEPT" /\ rule.stateful
    <3>1. Stateful(rule) = {Condition("CT", {Opening}, 0, "any")}
      BY <1>3, <2>2 DEF Stateful, Simple
    <3>2. SpecialMet(rule, p) <=> p["CT"] = Opening
      BY <1>3, <2>2 DEF SpecialMet
    <3>3. AllMet({Condition("CT", {Opening}, 0, "any")}, p) <=> p["CT"] \in {Opening}
      BY ONLY MetCondition
    <3> QED BY <2>1, <3>1, <3>2, <3>3
  <2>3. CASE ~(rule.type \in FilterTypes /\ rule.action = "ACCEPT" /\ rule.stateful)
    <3>1. Stateful(rule) = {}
      BY <2>3 DEF Stateful
    <3>2. SpecialMet(rule, p)
      BY <1>3, <2>3 DEF SpecialMet
    <3> QED BY <1>e, <2>1, <3>1, <3>2
  <2> QED BY <2>2, <2>3
<1>4. CASE rule.special = "catchall"
  <2>1. EndConditions(rule) = {}
    BY <1>4 DEF EndConditions, Stateful
  <2>2. SpecialMet(rule, p)
    BY <1>4 DEF SpecialMet
  <2> QED BY <1>e, <2>1, <2>2
<1> QED BY <1>0, <1>1, <1>2, <1>3, <1>4

Translates(rule) == rule.type \in NatTypes /\ rule.tr.svc # ""

\* The `-p' of a translated service.
LEMMA ProtocolMet ==
    ASSUME NEW rule, NEW p, Translates(rule) => p["SVC"] \in Values["SVC"]
    PROVE  AllMet(NatProtocol(rule), p) <=> (Translates(rule) => Proto[p["SVC"]] = rule.tr.svc)
<1> DEFINE V == {v \in Values["SVC"] : Proto[v] = rule.tr.svc}
<1>1. CASE Translates(rule)
  <2>1. NatProtocol(rule) = {Condition("PROTO", V, 0, "ipv4")}
    BY <1>1 DEF NatProtocol, Translates
  <2>2. p["SVC"] \in V <=> Proto[p["SVC"]] = rule.tr.svc
    BY <1>1
  <2> HIDE DEF V
  <2>3. AllMet({Condition("PROTO", V, 0, "ipv4")}, p) <=> p["SVC"] \in V
    BY MetCondition
  <2>4. AllMet(NatProtocol(rule), p) <=> p["SVC"] \in V
    BY <2>1, <2>3
  <2> QED BY <1>1, <2>2, <2>4
<1>2. CASE ~Translates(rule)
  <2>1. NatProtocol(rule) = {}
    BY <1>2 DEF NatProtocol, Translates
  <2> QED BY <1>2, <2>1 DEF AllMet
<1> QED BY <1>1, <1>2

\* A packet passes the conditions and the protocol of a rule that means it.
LEMMA MeantIs ==
    ASSUME NEW rule, NEW C, Compiling(rule, C), rule.active, rule.here,
           NEW p, Translates(rule) => p["SVC"] \in Values["SVC"]
    PROVE  Meant(rule, p) <=> Passed(Matching(rule), p) /\ AllMet(NatProtocol(rule), p)
<1> DEFINE g == Matching(rule)
           P == \A d \in ToSet(Positions(rule.type)) : At(rule, d, p)
<1>1. g.ps = CompileRulePositions(rule) /\ g.end = EndConditions(rule)
  BY MatchingIs
<1> HIDE DEF g
<1>2. Passed(g, p) <=> SpecialMet(rule, p) /\ P
  BY <1>1, EndMet, PositionsMet DEF Passed
<1>3. P <=> \A d \in ToSet(Positions(rule.type)) :
         LET objs == {o \in ToSet(rule.pos[d].objs) :
                        d \in {"SRC", "DST"} => o.ip \in {0, rule.ip}}
         IN objs # {} => (~rule.pos[d].neg <=> \E o \in objs : p[d] \in o.vals)
  BY DEF At, Objects
<1> HIDE DEF P
<1>4. ~Scripted(rule)
  BY DEF Compiling
<1>5. Meant(rule, p) <=> /\ rule.active /\ rule.here /\ ~Scripted(rule)
                         /\ P /\ (Translates(rule) => Proto[p["SVC"]] = rule.tr.svc)
                         /\ SpecialMet(rule, p)
  BY <1>3 DEF Meant, Translates, SpecialMet
<1>6. Meant(rule, p) <=> P /\ (Translates(rule) => Proto[p["SVC"]] = rule.tr.svc) /\ SpecialMet(rule, p)
  BY <1>4, <1>5
<1> QED BY <1>2, <1>6, ProtocolMet DEF g

\* A packet for which no position of the rule has two conditions.
OnceIn(rule, p) ==
    \A d \in ToSet(Positions(rule.type)) : \A i, j \in DOMAIN Items(rule, d) :
        p[d] \in Items(rule, d)[i].vals \cap Items(rule, d)[j].vals => i = j

\* Who meets one object of each position meets one condition of each.
LEMMA OnceIs ==
    ASSUME NEW rule, NEW C, Compiling(rule, C), NEW p, OnceIn(rule, p)
    PROVE  Once(Matching(rule), p)
<1> DEFINE g == Matching(rule)
<1>1. RuleOK(rule) /\ MultiportLimit \in Nat /\ Conds(rule) \subseteq C
  BY DEF Compiling
<1>2. g.ps = CompileRulePositions(rule)
  BY MatchingIs
<1>3. \A i \in 1..Len(g.ps) : \E d \in Used(rule) : g.ps[i] = PositionOf(rule, d)
  BY <1>1, <1>2, PsAre
<1> HIDE DEF g
<1>4. ASSUME NEW k \in 1..Len(g.ps), Twice(g.ps[k].items, p) PROVE FALSE
  <2>1. PICK d \in Used(rule) : g.ps[k] = PositionOf(rule, d)
    BY <1>3
  <2> DEFINE items == Items(rule, d)
  <2>2. g.ps[k].items = items /\ d \in ToSet(Positions(rule.type))
    BY <2>1 DEF PositionOf, Used
  <2>3. items \in Seq(ToSet(items))
    BY <1>1, <2>2, ItemsAre DEF Conditions
  <2>o. \A i, j \in DOMAIN items : p[d] \in items[i].vals \cap items[j].vals => i = j
    BY <2>2 DEF OnceIn
  <2>m. \A m \in ToSet(items) : m.dim = d
    BY <1>1, <2>2, ItemPure
  <2>n. d # "PROTO"
    BY <1>1, <2>2, PositionsAre DEF RuleOK
  <2> HIDE DEF items
  <2>4. DOMAIN items = 1..Len(items) /\ ToSet(items) = {items[i] : i \in 1..Len(items)}
    BY <2>3, ToSetIs
  <2>5. PICK i, j \in 1..Len(items) : i # j /\ Met(items[i], p) /\ Met(items[j], p)
    BY <1>4, <2>2 DEF Twice
  <2>6. items[i].dim = d /\ items[j].dim = d
    BY <2>4, <2>m
  <2>7. p[d] \in items[i].vals /\ p[d] \in items[j].vals
    BY <2>5, <2>6, <2>n DEF Met
  <2> QED BY <2>4, <2>5, <2>7, <2>o
<1> QED BY <1>4 DEF Once, g

(***************************************************************************)
(* The same commands with other conditions.                                *)
(***************************************************************************)
Alike(r, s) ==
    /\ Len(r) = Len(s)
    /\ \A i \in 1..Len(r) : /\ s[i].table = r[i].table /\ s[i].chain = r[i].chain
                            /\ s[i].to = r[i].to

\* Which chains are known.
LEMMA KnownIs ==
    ASSUME NEW t, NEW K, NEW S, NEW s \in Seq(S)
    PROVE  \A c : c \in Known(t, K, s)
             <=> c \in K \/ \E i \in 1..Len(s) : s[i].table = t /\ s[i].to = Create /\ c = s[i].chain
<1>1. ToSet(s) = {s[i] : i \in 1..Len(s)}
  BY ToSetIs
<1> QED BY <1>1 DEF Known

\* Other conditions make no other chains known,
LEMMA KnownAlike ==
    ASSUME NEW t, NEW K, NEW S, NEW r \in Seq(S), NEW s \in Seq(S), Alike(r, s)
    PROVE  Known(t, K, s) = Known(t, K, r)
<1>1. \A c : c \in Known(t, K, s)
             <=> c \in K \/ \E i \in 1..Len(s) : s[i].table = t /\ s[i].to = Create /\ c = s[i].chain
  BY KnownIs
<1>2. \A c : c \in Known(t, K, r)
             <=> c \in K \/ \E i \in 1..Len(r) : r[i].table = t /\ r[i].to = Create /\ c = r[i].chain
  BY KnownIs
<1>3. \A c : c \in Known(t, K, s) <=> c \in Known(t, K, r)
  BY <1>1, <1>2 DEF Alike
<1> QED BY <1>3

\* and commands with other conditions are placed alike.
LEMMA PlacedAlike ==
    ASSUME NEW t, NEW K, NEW S, NEW r \in Seq(S), NEW s \in Seq(S), Alike(r, s), Placed(t, K, r)
    PROVE  Placed(t, K, s) /\ Known(t, K, s) = Known(t, K, r)
<1>1. ASSUME NEW i \in 1..Len(s) PROVE Reach(t, Known(t, K, SubSeq(s, 1, i - 1)), s[i])
  <2> DEFINE a == SubSeq(r, 1, i - 1)
             b == SubSeq(s, 1, i - 1)
  <2>0. i \in 1..Len(r) /\ s[i].table = r[i].table /\ s[i].chain = r[i].chain /\ s[i].to = r[i].to
    BY DEF Alike
  <2>1. a \in Seq(S) /\ b \in Seq(S) /\ Len(a) = Len(b)
        /\ \A j \in 1..Len(a) : a[j] = r[j] /\ b[j] = s[j] /\ j \in 1..Len(r)
    BY <2>0
  <2>2. Reach(t, Known(t, K, a), r[i])
    BY <2>0 DEF Placed
  <2> HIDE DEF a, b
  <2>3. Alike(a, b)
    BY <2>1 DEF Alike
  <2>4. Known(t, K, b) = Known(t, K, a)
    BY <2>1, <2>3, KnownAlike
  <2>5. Reach(t, Known(t, K, b), s[i])
    BY <2>0, <2>2, <2>4 DEF Reach
  <2> QED BY <2>5 DEF b
<1> QED BY <1>1, KnownAlike DEF Placed

With(l, M) == [l EXCEPT !.match = M]
Rematched(r, M) == [i \in DOMAIN r |-> With(r[i], M[i])]

\* A command with other conditions.
LEMMA OtherMatch ==
    ASSUME NEW C, NEW l \in Lines(C), NEW M \in SUBSET C
    PROVE  LET k == With(l, M)
           IN k \in Lines(C) /\ k.table = l.table /\ k.chain = l.chain /\ k.to = l.to /\ k.match = M
BY DEF Lines, With

\* A list with the conditions of its commands replaced.
LEMMA OtherMatches ==
    ASSUME NEW C, NEW r \in Seq(Lines(C)), NEW M, \A i \in 1..Len(r) : M[i] \in SUBSET C
    PROVE  LET s == Rematched(r, M)
           IN s \in Seq(Lines(C)) /\ Alike(r, s) /\ \A i \in 1..Len(s) : s[i].match = M[i]
<1> DEFINE k(i) == With(r[i], M[i])
           s == Rematched(r, M)
<1>s. s = [i \in DOMAIN r |-> k(i)]
  BY DEF Rematched
<1>1. DOMAIN r = 1..Len(r) /\ Len(r) \in Nat
  OBVIOUS
<1>2. \A i \in 1..Len(r) : /\ k(i) \in Lines(C) /\ k(i).table = r[i].table /\ k(i).chain = r[i].chain
                           /\ k(i).to = r[i].to /\ k(i).match = M[i]
  <2> TAKE i \in 1..Len(r)
  <2> DEFINE l == r[i]
             N == M[i]
  <2>1. l \in Lines(C) /\ N \in SUBSET C
    OBVIOUS
  <2> HIDE DEF l, N
  <2> QED BY <2>1, OtherMatch DEF l, N
<1> HIDE DEF k, s
<1>3. s \in Seq(Lines(C)) /\ Len(s) = Len(r) /\ \A i \in 1..Len(r) : s[i] = k(i)
  BY <1>1, <1>2, <1>s
<1>4. Alike(r, s) /\ \A i \in 1..Len(s) : s[i].match = M[i]
  BY <1>2, <1>3 DEF Alike
<1> QED BY <1>3, <1>4 DEF s, k

\* With `-p' before the action, packets of another protocol do not reach it.
LEMMA WithProtocolIs ==
    ASSUME NEW C, NEW r \in Seq(Lines(C)), NEW rule, NatProtocol(rule) \subseteq C
    PROVE  LET w == WithProtocol(rule, r)
           IN /\ w \in Seq(Lines(C)) /\ Alike(r, w)
              /\ \A i \in 1..Len(r) : \A p :
                   Hit(w[i], p) <=> Hit(r[i], p) /\ (r[i].to = Action(rule) => AllMet(NatProtocol(rule), p))
<1> DEFINE N == NatProtocol(rule)
           a == Action(rule)
           M == [i \in 1..Len(r) |-> IF r[i].to = a THEN r[i].match \cup N ELSE r[i].match]
           s == Rematched(r, M)
           w == WithProtocol(rule, r)
<1>0. DOMAIN r = 1..Len(r) /\ \A i \in 1..Len(r) : r[i] \in Lines(C)
  OBVIOUS
<1>m. \A i \in 1..Len(r) : r[i].match \subseteq C /\ [r[i] EXCEPT !.match = r[i].match] = r[i]
  BY <1>0 DEF Lines
<1>n. N \subseteq C
  OBVIOUS
<1> HIDE DEF N, a
<1>1. \A i \in 1..Len(r) : M[i] \in SUBSET C
  BY <1>m, <1>n
<1>2. w = s
  <2>1. w = [i \in DOMAIN r |-> IF r[i].to = a THEN [r[i] EXCEPT !.match = @ \cup N] ELSE r[i]]
    BY DEF WithProtocol, N, a
  <2>2. ASSUME NEW i \in DOMAIN r
        PROVE  (IF r[i].to = a THEN [r[i] EXCEPT !.match = @ \cup N] ELSE r[i])
                 = [r[i] EXCEPT !.match = M[i]]
    <3>1. i \in 1..Len(r)
      BY <1>0
    <3>2. CASE r[i].to = a
      <4>1. M[i] = r[i].match \cup N
        BY <3>1, <3>2
      <4> HIDE DEF M
      <4> QED BY <3>2, <4>1
    <3>3. CASE r[i].to # a
      <4>1. M[i] = r[i].match
        BY <3>1, <3>3
      <4> HIDE DEF M
      <4> QED BY <1>m, <3>1, <3>3, <4>1
    <3> QED BY <3>2, <3>3
  <2> HIDE DEF M
  <2> QED BY <2>1, <2>2 DEF Rematched, With
<1>M. \A i \in 1..Len(r) : M[i] = IF r[i].to = a THEN r[i].match \cup N ELSE r[i].match
  OBVIOUS
<1> HIDE DEF M
<1>3. s \in Seq(Lines(C)) /\ Alike(r, s) /\ \A i \in 1..Len(s) : s[i].match = M[i]
  BY <1>1, OtherMatches
<1> HIDE DEF s, w
<1>4. ASSUME NEW i \in 1..Len(r), NEW p
      PROVE  Hit(w[i], p) <=> Hit(r[i], p) /\ (r[i].to = a => AllMet(N, p))
  <2>1. w[i].match = IF r[i].to = a THEN r[i].match \cup N ELSE r[i].match
    BY <1>2, <1>3, <1>M DEF Alike
  <2>2. Hit(w[i], p) <=> AllMet(w[i].match, p)
    BY HitIs
  <2>3. Hit(r[i], p) <=> AllMet(r[i].match, p)
    BY HitIs
  <2> QED BY <2>1, <2>2, <2>3 DEF AllMet
<1> QED BY <1>2, <1>3, <1>4 DEF w, N, a

\* A protocol that a service of the same rule implies.
Implied(m, l) == m.dim = "PROTO" /\ \E q \in l.match : q.dim = "SVC" /\ q.vals \subseteq m.vals

\* natCheck takes away what another condition of the command implies.
LEMMA NatCheckIs ==
    ASSUME NEW C, NEW r \in Seq(Lines(C))
    PROVE  LET w == NatCheck(r)
           IN /\ w \in Seq(Lines(C)) /\ Alike(r, w)
              /\ \A i \in 1..Len(r) : \A p : Hit(w[i], p) <=> Hit(r[i], p)
              /\ \A i \in 1..Len(r) : \A m, q \in w[i].match :
                   m.dim = "SVC" /\ q.dim = "PROTO" => ~(m.vals \subseteq q.vals)
<1> DEFINE M == [i \in 1..Len(r) |-> {m \in r[i].match : ~Implied(m, r[i])}]
           s == Rematched(r, M)
           w == NatCheck(r)
<1>0. DOMAIN r = 1..Len(r) /\ \A i \in 1..Len(r) : r[i] \in Lines(C)
  OBVIOUS
<1>m. \A i \in 1..Len(r) : r[i].match \subseteq C
  BY <1>0 DEF Lines
<1>M. \A i \in 1..Len(r) : M[i] = {m \in r[i].match : ~Implied(m, r[i])}
  OBVIOUS
<1>1. \A i \in 1..Len(r) : M[i] \in SUBSET C
  BY <1>m, <1>M
<1>2. w = s
  <2>1. w = [i \in DOMAIN r |-> [r[i] EXCEPT !.match = {m \in @ : ~Implied(m, r[i])}]]
    BY DEF NatCheck, Implied
  <2>2. \A i \in DOMAIN r : [r[i] EXCEPT !.match = {m \in @ : ~Implied(m, r[i])}]
                              = [r[i] EXCEPT !.match = M[i]]
    BY <1>0, <1>M
  <2> HIDE DEF M
  <2> QED BY <2>1, <2>2 DEF Rematched, With
<1> HIDE DEF M
<1>3. s \in Seq(Lines(C)) /\ Alike(r, s) /\ \A i \in 1..Len(s) : s[i].match = M[i]
  BY <1>1, OtherMatches
<1> HIDE DEF s, w
<1>4. \A i \in 1..Len(r) : w[i].match = {m \in r[i].match : ~Implied(m, r[i])}
  BY <1>2, <1>3, <1>M DEF Alike
<1>5. ASSUME NEW i \in 1..Len(r), NEW p
      PROVE  Hit(w[i], p) <=> Hit(r[i], p)
  <2>1. Hit(w[i], p) <=> AllMet(w[i].match, p)
    BY HitIs
  <2>2. Hit(r[i], p) <=> AllMet(r[i].match, p)
    BY HitIs
  <2>3. AllMet(r[i].match, p) => AllMet(w[i].match, p)
    BY <1>4 DEF AllMet
  <2>4. ASSUME AllMet(w[i].match, p) PROVE AllMet(r[i].match, p)
    <3> SUFFICES ASSUME NEW m \in r[i].match PROVE Met(m, p)
      BY DEF AllMet
    <3>1. CASE ~Implied(m, r[i])
      BY <1>4, <2>4, <3>1 DEF AllMet
    <3>2. CASE Implied(m, r[i])
      <4>1. PICK q \in r[i].match : q.dim = "SVC" /\ q.vals \subseteq m.vals
        BY <3>2 DEF Implied
      <4>2. ~Implied(q, r[i])
        BY <4>1 DEF Implied
      <4>3. Met(q, p)
        BY <1>4, <2>4, <4>2 DEF AllMet
      <4>4. m.dim = "PROTO"
        BY <3>2 DEF Implied
      <4> QED BY <4>1, <4>3, <4>4 DEF Met
    <3> QED BY <3>1, <3>2
  <2> QED BY <2>1, <2>2, <2>3, <2>4
<1>6. ASSUME NEW i \in 1..Len(r), NEW m \in w[i].match, NEW q \in w[i].match,
             m.dim = "SVC", q.dim = "PROTO"
      PROVE  ~(m.vals \subseteq q.vals)
  <2>1. m \in r[i].match /\ ~Implied(q, r[i])
    BY <1>4
  <2> QED BY <1>6, <2>1 DEF Implied
<1> QED BY <1>2, <1>3, <1>5, <1>6 DEF w

(***************************************************************************)
(* The parts of the commands of a rule.                                    *)
(***************************************************************************)
\* The commands for the chain of the hook, compared with what was generated.
Mains(rule, C, r, m) ==
    /\ m \in Seq(Lines(C)) /\ Alike(r, m)
    /\ \A i \in 1..Len(r) : \A p :
         /\ Hit(m[i], p) <=> Hit(r[i], p) /\ (r[i].to = Action(rule) => AllMet(NatProtocol(rule), p))
         /\ Clashing(m[i]) => ~Hit(m[i], p)

\* What is alike to what is alike is alike.
LEMMA AlikeTrans ==
    ASSUME NEW r, NEW s, NEW z, Alike(r, s), Alike(s, z) PROVE Alike(r, z)
BY DEF Alike

\* The commands of a rule, before accounts, logs and marks.
LEMMA MainIs ==
    ASSUME NEW rule, NEW C, Compiling(rule, C), NEW hook, CondsOK(hook, C),
           Generate(Matching(rule)) \in Seq(Lines(C))
    PROVE  Mains(rule, C, Generate(Matching(rule)), Main(rule))
<1> DEFINE r == Generate(Matching(rule))
           w == WithProtocol(rule, r)
           z == NatCheck(w)
           m == Main(rule)
<1>0. ~Scripted(rule) /\ NatProtocol(rule) \subseteq C
  BY DEF Compiling, Conds
<1>1. m = IF compiler = "IPTables" THEN z ELSE w
  BY <1>0 DEF Main
<1>r. r \in Seq(Lines(C))
  OBVIOUS
<1> HIDE DEF r
<1>2. /\ w \in Seq(Lines(C)) /\ Alike(r, w)
      /\ \A i \in 1..Len(r) : \A p :
           Hit(w[i], p) <=> Hit(r[i], p) /\ (r[i].to = Action(rule) => AllMet(NatProtocol(rule), p))
  BY <1>0, <1>r, WithProtocolIs
<1> HIDE DEF w
<1>3. /\ z \in Seq(Lines(C)) /\ Alike(w, z)
      /\ \A i \in 1..Len(w) : \A p : Hit(z[i], p) <=> Hit(w[i], p)
      /\ \A i \in 1..Len(w) : \A a, b \in z[i].match :
           a.dim = "SVC" /\ b.dim = "PROTO" => ~(a.vals \subseteq b.vals)
  BY <1>2, NatCheckIs
<1> HIDE DEF z, m
<1>4. ASSUME compiler = "IPTables" PROVE Mains(rule, C, r, m)
  <2>1. m = z /\ Len(r) = Len(w)
    BY <1>1, <1>2, <1>4 DEF Alike
  <2>2. m \in Seq(Lines(C)) /\ Alike(r, m)
    BY <1>2, <1>3, <2>1, AlikeTrans
  <2>3. ASSUME NEW i \in 1..Len(r), NEW p, Clashing(m[i]), Hit(m[i], p) PROVE FALSE
    <3>1. PICK a, b \in m[i].match : a.dim = "SVC" /\ b.dim = "PROTO"
      BY <2>3 DEF Clashing, TwoProtocols
    <3>2. ~(a.vals \subseteq b.vals)
      BY <1>3, <2>1, <3>1
    <3>3. p["SVC"] \in a.vals /\ p["SVC"] \in b.vals
      <4>1. Met(a, p) /\ Met(b, p)
        BY <2>3, HitIs DEF AllMet
      <4> QED BY <3>1, <4>1 DEF Met
    <3>4. a \in C /\ b \in C
      <4>1. m[i] \in Lines(C)
        BY <2>1, <2>2 DEF Alike
      <4> QED BY <4>1 DEF Lines
    <3> QED BY <3>1, <3>2, <3>3, <3>4 DEF CondsOK
  <2> QED BY <1>2, <1>3, <2>1, <2>2, <2>3 DEF Mains
<1>5. ASSUME compiler # "IPTables" PROVE Mains(rule, C, r, m)
  <2>1. m = w /\ \A l : ~Clashing(l)
    BY <1>1, <1>5 DEF Clashing
  <2> QED BY <1>2, <2>1 DEF Mains
<1> QED BY <1>4, <1>5 DEF r, m

\* addMark hands generateCompilationString what it takes.
LEMMA MarkingIs ==
    ASSUME NEW rule, RuleOK(rule), MultiportLimit \in Nat, NEW C, Conds(rule) \subseteq C,
           rule.type \in FilterTypes, NEW kind \in {"M1", "M2"}, NEW start \in FilterTypes \cup {"PREROUTING"},
           NEW target \in {"MARK", "CONNMARK", "SELFMARK"}
    PROVE  LET g == Marking(rule, kind, start, target)
           IN /\ GenOK(g, C) /\ g.end = g.state /\ g.table = "mangle" /\ g.id = rule.id
              /\ g.kind = kind /\ g.start = Name(start, 0) /\ g.action = Name(target, rule.id)
              /\ g.ps = CompileRulePositions(rule) /\ g.end = Stateful(rule)
<1> DEFINE g == Marking(rule, kind, start, target)
<1>1. /\ g.id = rule.id /\ g.kind = kind /\ g.table = "mangle"
      /\ g.start = Name(start, 0) /\ g.ps = CompileRulePositions(rule)
      /\ g.action = Name(target, rule.id) /\ g.state = Stateful(rule) /\ g.end = Stateful(rule)
  BY DEF Marking
<1> HIDE DEF g
<1>2. g.table \in Tables /\ g.start \in Hooks /\ g.id \in Nat
  BY <1>1, HookIs DEF RuleOK, Tables, FilterTypes
<1>3. g.action \in Targets /\ Terminal(g.action)
  <2>1. target \in Kinds /\ rule.id \in Nat
    BY DEF Kinds, RuleOK, Silent
  <2>2. g.action \in Targets /\ g.action.kind = target
    BY <1>1, <2>1, NameIs
  <2> QED BY <2>2 DEF Terminal, Silent
<1>4. Stateful(rule) \subseteq C
  BY DEF Conds
<1>5. /\ g.ps \in Seq(ToSet(g.ps)) /\ Len(g.ps) <= 10
      /\ \A i \in 1..Len(g.ps) : /\ g.ps[i].neg \in BOOLEAN /\ g.ps[i].items \in Seq(C)
                                 /\ Len(g.ps[i].items) # 0
      /\ \A i, j \in 1..Len(g.ps) : i < j /\ IsSingle(g.ps[j]) => IsSingle(g.ps[i])
  <2>1. RuleOK(rule) /\ MultiportLimit \in Nat /\ Conds(rule) \subseteq C
    OBVIOUS
  <2> DEFINE ps == CompileRulePositions(rule)
  <2>2. /\ ps \in Seq(ToSet(ps)) /\ Len(ps) <= 10
        /\ \A i \in 1..Len(ps) : /\ ps[i].neg \in BOOLEAN /\ ps[i].items \in Seq(C)
                                 /\ Len(ps[i].items) # 0
        /\ \A i, j \in 1..Len(ps) : i < j /\ IsSingle(ps[j]) => IsSingle(ps[i])
    BY ONLY <2>1, PsAre
  <2> HIDE DEF ps
  <2> QED BY <1>1, <2>2 DEF ps
<1>6. GenOK(g, C)
  BY <1>1, <1>2, <1>3, <1>4, <1>5 DEF GenOK
<1> QED BY <1>1, <1>6 DEF g

\* A list of commands for one table.
InTable(t, C, r) == r \in Seq(Lines(C)) /\ \A i \in 1..Len(r) : r[i].table = t

\* Two lists of commands for one table.
LEMMA InTableConcat ==
    ASSUME NEW t, NEW C, NEW r, NEW s, InTable(t, C, r), InTable(t, C, s)
    PROVE  InTable(t, C, r \o s)
<1>1. /\ r \o s \in Seq(Lines(C))
      /\ \A i \in 1..Len(r \o s) : (i \in 1..Len(r) /\ (r \o s)[i] = r[i])
                \/ (i - Len(r) \in 1..Len(s) /\ (r \o s)[i] = s[i - Len(r)])
  BY ConcatSeq DEF InTable
<1> QED BY <1>1 DEF InTable

\* The commands of a rule are for one table.
LEMMA GeneratedTable ==
    ASSUME NEW g, NEW C, GenOK(g, C), g.end = g.state \/ g.ps = << >>
    PROVE  InTable(g.table, C, Generate(g))
<1>1. PICK n \in 1..11 : Generated(g, C, n, Generate(g))
  BY GenerateIs
<1> QED BY <1>1 DEF Generated, LineOK, InTable

\* Without `-o' the commands are alike.
LEMMA StripOutIs ==
    ASSUME NEW C, NEW r \in Seq(Lines(C))
    PROVE  LET w == StripOut(r)
           IN /\ w \in Seq(Lines(C)) /\ Alike(r, w)
              /\ \A i \in 1..Len(r) : w[i].match = IF compiler = "IPTables"
                                                   THEN {m \in r[i].match : m.dim # "OUT"}
                                                   ELSE r[i].match
<1> DEFINE M == [i \in 1..Len(r) |-> {m \in r[i].match : m.dim # "OUT"}]
           s == Rematched(r, M)
           w == StripOut(r)
<1>0. DOMAIN r = 1..Len(r) /\ \A i \in 1..Len(r) : r[i] \in Lines(C)
  OBVIOUS
<1>m. \A i \in 1..Len(r) : r[i].match \subseteq C
  BY <1>0 DEF Lines
<1>M. \A i \in 1..Len(r) : M[i] = {m \in r[i].match : m.dim # "OUT"}
  OBVIOUS
<1>1. \A i \in 1..Len(r) : M[i] \in SUBSET C
  BY <1>m, <1>M
<1> HIDE DEF M
<1>3. s \in Seq(Lines(C)) /\ Alike(r, s) /\ \A i \in 1..Len(s) : s[i].match = M[i]
  BY <1>1, OtherMatches
<1>4. CASE compiler = "IPTables"
  <2>1. w = [i \in DOMAIN r |-> [r[i] EXCEPT !.match = {m \in @ : m.dim # "OUT"}]]
    BY <1>4 DEF StripOut
  <2>2. \A i \in DOMAIN r : [r[i] EXCEPT !.match = {m \in @ : m.dim # "OUT"}]
                              = [r[i] EXCEPT !.match = M[i]]
    BY <1>0, <1>M
  <2>3. w = s
    BY <2>1, <2>2 DEF Rematched, With
  <2> HIDE DEF s, w
  <2> QED BY <1>3, <1>4, <1>M, <2>3 DEF w, Alike
<1>5. CASE compiler # "IPTables"
  <2>1. w = r
    BY <1>5 DEF StripOut
  <2> HIDE DEF w
  <2> QED BY <1>5, <2>1 DEF w, Alike
<1> QED BY <1>4, <1>5

\* Marks are commands for the mangle table.
LEMMA MarksAre ==
    ASSUME NEW rule, RuleOK(rule), MultiportLimit \in Nat, NEW C, Conds(rule) \subseteq C
    PROVE  InTable("mangle", C, AddMark(rule))
<1>e. InTable("mangle", C, << >>)
  BY DEF InTable
<1>1. ASSUME NEW kind \in {"M1", "M2"}, NEW target \in {"MARK", "CONNMARK", "SELFMARK"}, rule.type \in FilterTypes
      PROVE  InTable("mangle", C, Marks(rule, kind, target))
  <2> DEFINE a == Generate(Marking(rule, kind, rule.type, target))
             b == Generate(Marking(rule, kind, "PREROUTING", target))
             z == StripOut(b)
             y == IF rule.type = "FORWARD" THEN z ELSE << >>
  <2>1. InTable("mangle", C, a)
    <3> DEFINE g == Marking(rule, kind, rule.type, target)
    <3>1. GenOK(g, C) /\ g.end = g.state /\ g.table = "mangle"
      BY <1>1, MarkingIs
    <3> HIDE DEF g
    <3>2. InTable("mangle", C, Generate(g))
      BY <3>1, GeneratedTable
    <3> QED BY <3>2 DEF g
  <2>2. InTable("mangle", C, b)
    <3> DEFINE g == Marking(rule, kind, "PREROUTING", target)
    <3>1. GenOK(g, C) /\ g.end = g.state /\ g.table = "mangle"
      BY <1>1, MarkingIs
    <3> HIDE DEF g
    <3>2. InTable("mangle", C, Generate(g))
      BY <3>1, GeneratedTable
    <3> QED BY <3>2 DEF g
  <2> HIDE DEF a, b
  <2>3. InTable("mangle", C, z)
    <3>1. z \in Seq(Lines(C)) /\ Alike(b, z)
      BY <2>2, StripOutIs DEF InTable
    <3> HIDE DEF z
    <3> QED BY <2>2, <3>1 DEF InTable, Alike
  <2> HIDE DEF z
  <2>4. InTable("mangle", C, y)
    BY <1>e, <2>3
  <2> HIDE DEF y
  <2>5. InTable("mangle", C, a \o y)
    BY <2>1, <2>4, InTableConcat
  <2>6. Marks(rule, kind, target) = a \o y
    BY DEF Marks, a, y, z, b
  <2> QED BY <2>5, <2>6
<1>2. CASE ~rule.mark \/ rule.type \notin FilterTypes
  BY <1>2, <1>e DEF AddMark
<1>3. CASE rule.mark /\ rule.type \in FilterTypes
  <2>1. AddMark(rule) = Marks(rule, "M1", "MARK") \o Marks(rule, "M2", Saved)
    BY <1>3 DEF AddMark
  <2>s. Saved \in {"MARK", "CONNMARK", "SELFMARK"}
    BY DEF Saved
  <2>2. InTable("mangle", C, Marks(rule, "M1", "MARK")) /\ InTable("mangle", C, Marks(rule, "M2", Saved))
    BY <1>1, <1>3, <2>s
  <2> QED BY <2>1, <2>2, InTableConcat
<1> QED BY <1>2, <1>3

(***************************************************************************)
(* The commands of a rule: where they are put.                             *)
(***************************************************************************)
\* The chains of a rule.
Own(id) == {c \in Targets : c.kind \in {"CH", "M1", "M2", "ACC", "LOGCHAIN"} /\ c.id = id}
OwnLine(id, l) ==
    /\ l.chain \in Hooks \cup Own(id) /\ (l.to = Create => l.chain \in Own(id))
    /\ l.to # Create => (Terminal(l.to) \/ Rank(l.to) < Rank(l.chain)) /\ Fit(l.chain, l.match)
    /\ Clashing(l) => \A p : ~Hit(l, p)
OwnLines(t, id, s) == \A i \in 1..Len(s) : s[i].table = t => OwnLine(id, s[i])
\* Commands for a rule that the firewall takes after any that are not for it.
Block(t, C, id, s) ==
    /\ s \in Seq(Lines(C)) /\ OwnLines(t, id, s)
    /\ \A K : Hooks \subseteq K /\ K \cap Own(id) = {} => Placed(t, K, s)

\* The chains of a rule are no hooks, and no verdicts.
LEMMA OwnIs ==
    ASSUME NEW id
    PROVE  Own(id) \cap Hooks = {} /\ Create \notin Own(id) /\ \A c \in Own(id) : ~Terminal(c)
<1>1. \A c \in Hooks : c.kind \in {"PREROUTING", "INPUT", "FORWARD", "OUTPUT", "POSTROUTING"}
  BY DEF Hooks, Name
<1>2. Create.kind = "create"
  BY DEF Create, Name
<1> QED BY <1>1, <1>2 DEF Own, Terminal, Final, Silent

\* Two lists of commands of one rule.
LEMMA OwnLinesConcat ==
    ASSUME NEW t, NEW id, NEW S, NEW r \in Seq(S), NEW s \in Seq(S),
           OwnLines(t, id, r), OwnLines(t, id, s)
    PROVE  OwnLines(t, id, r \o s) /\ r \o s \in Seq(S)
<1>1. /\ r \o s \in Seq(S)
      /\ \A i \in 1..Len(r \o s) : (i \in 1..Len(r) /\ (r \o s)[i] = r[i])
           \/ (i - Len(r) \in 1..Len(s) /\ (r \o s)[i] = s[i - Len(r)])
  BY ConcatSeq
<1> DEFINE z == r \o s
<1> HIDE DEF z
<1>2. \A i \in 1..Len(z) : (i \in 1..Len(r) /\ z[i] = r[i])
           \/ (i - Len(r) \in 1..Len(s) /\ z[i] = s[i - Len(r)])
  BY <1>1 DEF z
<1>3. OwnLines(t, id, z)
  BY <1>2 DEF OwnLines
<1> QED BY <1>1, <1>3 DEF z

\* Lines that have nothing to do with a table.
LEMMA ElsewhereOwn ==
    ASSUME NEW t, NEW id, NEW S, NEW s \in Seq(S), \A i \in 1..Len(s) : s[i].table # t
    PROVE  OwnLines(t, id, s) /\ \A K : Placed(t, K, s) /\ Known(t, K, s) = K
<1>1. OwnLines(t, id, s)
  BY DEF OwnLines
<1>2. \A K : Placed(t, K, s)
  BY DEF Placed, Reach
<1>3. ASSUME NEW K PROVE Known(t, K, s) = K
  BY KnownIs
<1> QED BY <1>1, <1>2, <1>3

\* The commands of a rule create chains of its own only.
LEMMA KnownOwn ==
    ASSUME NEW t, NEW id, NEW S, NEW s \in Seq(S), OwnLines(t, id, s), NEW K
    PROVE  Known(t, K, s) \subseteq K \cup Own(id) /\ K \subseteq Known(t, K, s)
<1>1. \A c : c \in Known(t, K, s)
        <=> c \in K \/ \E i \in 1..Len(s) : s[i].table = t /\ s[i].to = Create /\ c = s[i].chain
  BY KnownIs
<1> QED BY <1>1 DEF OwnLines, OwnLine

\* A chain is created and gets its rules.
LEMMA ChainList ==
    ASSUME NEW C, NEW t \in Tables, NEW c \in Targets, NEW K, c \notin K, NEW s \in Seq(Lines(C)),
           \A i \in 1..Len(s) : /\ s[i].chain = c /\ s[i].to # Create
                                /\ (Terminal(s[i].to) \/ s[i].to \in K)
    PROVE  LET r == <<New(t, c)>> \o s
           IN r \in Seq(Lines(C)) /\ Placed(t, K, r) /\ Known(t, K, r) = K \cup {c}
<1> DEFINE l == New(t, c)
           n == <<l>>
           J == K \cup {c}
<1>1. l \in Lines(C) /\ l.table = t /\ l.chain = c /\ l.to = Create /\ l.match = {}
  BY NewIs
<1> HIDE DEF l
<1>2. Reach(t, K, l)
  BY <1>1 DEF Reach
<1>3. Placed(t, K, n)
  BY <1>2, PlacedOne
<1>4. n \in Seq(Lines(C)) /\ Len(n) = 1 /\ n[1] = l
  BY <1>1
<1> HIDE DEF n
<1>5. Known(t, K, n) = J
  <2>1. \A x : x \in Known(t, K, n)
          <=> x \in K \/ \E i \in 1..Len(n) : n[i].table = t /\ n[i].to = Create /\ x = n[i].chain
    BY <1>4, KnownIs
  <2>2. 1..Len(n) = {1}
    BY <1>4
  <2> QED BY <1>1, <1>4, <2>1, <2>2
<1>6. c \in J /\ \A i \in 1..Len(s) : /\ s[i].chain = c /\ s[i].to # Create
                                      /\ (Terminal(s[i].to) \/ s[i].to \in J)
  OBVIOUS
<1> HIDE DEF J
<1>7. Placed(t, J, s) /\ Known(t, J, s) = J
  BY <1>6, PlacedRules
<1>8. Placed(t, K, n \o s) /\ Known(t, K, n \o s) = J /\ n \o s \in Seq(Lines(C))
  BY <1>3, <1>4, <1>5, <1>7, PlacedConcat, KnownConcat, ConcatSeq
<1> QED BY <1>8 DEF n, l, J

\* What happens at the targets that are no chains.
Acts(e) ==
    /\ e \in [Targets -> Results]
    /\ \A to \in Targets : to.kind \in Final => e[to] = [end |-> to, trail |-> << >>]
    /\ \A to \in Targets : to.kind \in Silent => e[to] = [end |-> None, trail |-> <<to>>]

\* A rule without conditions.
LEMMA AlwaysIs ==
    ASSUME NEW C, NEW t \in Tables, NEW c \in Targets, NEW to \in Targets, to # Create
    PROVE  LET l == Rule(t, c, {}, to)
           IN /\ l \in Lines(C) /\ l.table = t /\ l.chain = c /\ l.to = to /\ l.match = {}
              /\ ~Clashing(l) /\ Fit(l.chain, l.match)
              /\ \A p, e : e \in [Targets -> Results] => Part(View(t, c, p, e), l) = e[to]
<1> DEFINE l == Rule(t, c, {}, to)
<1>1. l = [table |-> t, chain |-> c, match |-> {}, to |-> to]
      /\ l.table = t /\ l.chain = c /\ l.match = {} /\ l.to = to
  BY RuleIs
<1>2. l \in Lines(C)
  BY <1>1 DEF Lines
<1> HIDE DEF l
<1>3. ~Clashing(l) /\ Fit(l.chain, l.match)
  BY <1>1 DEF Clashing, TwoProtocols, Fit
<1>4. ASSUME NEW p, NEW e \in [Targets -> Results] PROVE Part(View(t, c, p, e), l) = e[to]
  <2> DEFINE g == View(t, c, p, e)
  <2>1. g.table = t /\ g.chain = c /\ g.p = p /\ g.e = e
    BY ViewIs
  <2> HIDE DEF g
  <2>2. Hit(l, p)
    BY <1>1 DEF Hit
  <2>3. Part(g, l) = g.e[l.to]
    BY <1>1, <2>1, <2>2 DEF Part
  <2> QED BY <1>1, <2>1, <2>3 DEF g
<1> QED BY <1>1, <1>2, <1>3, <1>4 DEF l

\* The chains for the logs and accounts of a rule.
LEMMA RuleChains ==
    ASSUME NEW rule, RuleOK(rule)
    PROVE  /\ LogChain(rule) \in Own(rule.id) /\ LogChain(rule).kind = "LOGCHAIN"
           /\ AccChain(rule) \in Own(rule.id) /\ AccChain(rule).kind = "ACC"
           /\ LogChain(rule) # AccChain(rule)
           /\ LogChain(rule) \in Targets /\ AccChain(rule) \in Targets
           /\ LogChain(rule) # Create /\ AccChain(rule) # Create
           /\ Rank(LogChain(rule)) = 1 /\ Rank(AccChain(rule)) = 2
           /\ Name("LIMITLOG", rule.id) \in Targets /\ Name("LIMITLOG", rule.id).kind = "LIMITLOG"
           /\ Name("LIMITLOG", rule.id) # Create
           /\ Name("RETURN", rule.id) \in Targets /\ Name("RETURN", rule.id).kind = "RETURN"
           /\ Name("RETURN", rule.id) # Create
<1>1. rule.id \in Nat
  BY DEF RuleOK
<1>2. {"LOGCHAIN", "ACC", "LIMITLOG", "RETURN"} \subseteq Kinds
  BY DEF Kinds, Final, Silent
<1>3. \A k \in {"LOGCHAIN", "ACC", "LIMITLOG", "RETURN"} :
        Name(k, rule.id) \in Targets /\ Name(k, rule.id).kind = k /\ Name(k, rule.id).id = rule.id
  BY <1>1, <1>2, NameIs
<1>4. Create.kind = "create"
  BY ReturnIs
<1> DEFINE a == Name("LOGCHAIN", rule.id)
           b == Name("ACC", rule.id)
           c == Name("LIMITLOG", rule.id)
           d == Name("RETURN", rule.id)
<1>5. /\ a \in Targets /\ a.kind = "LOGCHAIN" /\ a.id = rule.id
      /\ b \in Targets /\ b.kind = "ACC" /\ b.id = rule.id
      /\ c \in Targets /\ c.kind = "LIMITLOG" /\ d \in Targets /\ d.kind = "RETURN"
  BY <1>3
<1>6. LogChain(rule) = a /\ AccChain(rule) = b
  BY DEF LogChain, AccChain
<1> HIDE DEF a, b, c, d
<1>7. a \in Own(rule.id) /\ b \in Own(rule.id)
  BY <1>5 DEF Own
<1>8. a # b /\ a # Create /\ b # Create /\ c # Create /\ d # Create
  BY <1>4, <1>5
<1>9. Rank(a) = 1 /\ Rank(b) = 2
  BY <1>5 DEF Rank
<1> QED BY <1>5, <1>6, <1>7, <1>8, <1>9 DEF a, b, c, d

\* What follows a log.
LEMMA AfterLogIs ==
    ASSUME NEW rule, RuleOK(rule)
    PROVE  /\ AfterLog(rule) \in Targets /\ AfterLog(rule).kind \in Final /\ AfterLog(rule) # Create
           /\ Accounted(rule) => AfterLog(rule).kind = "RETURN"
           /\ ~Accounted(rule) => AfterLog(rule) = BaseAction(rule) /\ AfterLog(rule).kind # "RETURN"
<1> DEFINE b == BaseAction(rule)
           a == AfterLog(rule)
<1>1. b \in Targets /\ (~Accounted(rule) => b.kind \in {"ACCEPT", "DROP", "REJECT", "SNAT", "DNAT", "MASQUERADE"})
  BY BaseActionIs
<1>2. a = IF Accounted(rule) THEN Name("RETURN", rule.id) ELSE b
  BY DEF AfterLog
<1> HIDE DEF a, b
<1>3. Create.kind = "create"
  BY ReturnIs
<1>4. CASE Accounted(rule)
  <2>1. a = Name("RETURN", rule.id)
    BY <1>2, <1>4
  <2>2. a \in Targets /\ a.kind = "RETURN"
    BY <2>1, RuleChains
  <2> QED BY <1>3, <1>4, <2>2 DEF a, b, Final
<1>5. CASE ~Accounted(rule)
  <2>1. a = b /\ b.kind \in {"ACCEPT", "DROP", "REJECT", "SNAT", "DNAT", "MASQUERADE"}
    BY <1>1, <1>2, <1>5
  <2> QED BY <1>1, <1>3, <1>5, <2>1 DEF a, b, Final
<1> QED BY <1>4, <1>5

\* The elements of an append.
LEMMA AppendedIs ==
    ASSUME NEW S, NEW s \in Seq(S), NEW b \in S
    PROVE  /\ Append(s, b) \in Seq(S) /\ Len(Append(s, b)) = Len(s) + 1
           /\ Append(s, b)[Len(s) + 1] = b /\ \A i \in 1..Len(s) : Append(s, b)[i] = s[i]
OBVIOUS

\* A pair as a sequence.
LEMMA PairIs ==
    ASSUME NEW S, NEW a \in S, NEW b \in S
    PROVE  /\ <<a, b>> \in Seq(S) /\ Len(<<a, b>>) = 2 /\ <<a, b>>[1] = a /\ <<a, b>>[2] = b
           /\ <<a, b>> = <<a>> \o <<b>> /\ <<a>> \in Seq(S) /\ <<b>> \in Seq(S)
<1>1. /\ <<a, b>> \in Seq(S) /\ Len(<<a, b>>) = 2 /\ <<a, b>>[1] = a /\ <<a, b>>[2] = b
      /\ <<a>> \in Seq(S) /\ <<b>> \in Seq(S)
  OBVIOUS
<1>2. /\ Append(<<a>>, b) = <<a>> \o <<b>>
  BY <1>1, AppendIs
<1>3. Append(<<a>>, b) = <<a, b>>
  <2> DEFINE u == <<a>>
             v == <<a, b>>
             w == Append(u, b)
  <2>1. u \in Seq(S) /\ Len(u) = 1 /\ u[1] = a
    OBVIOUS
  <2>2. v \in Seq(S) /\ Len(v) = 2 /\ v[1] = a /\ v[2] = b
    OBVIOUS
  <2> HIDE DEF u, v
  <2>3. w \in Seq(S) /\ Len(w) = 2 /\ w[1] = a /\ w[2] = b
    <3>1. /\ w \in Seq(S) /\ Len(w) = Len(u) + 1
          /\ w[Len(u) + 1] = b /\ \A i \in 1..Len(u) : w[i] = u[i]
      <4>1. u \in Seq(S) /\ b \in S
        BY <2>1
      <4> QED BY ONLY <4>1, AppendedIs
    <3> HIDE DEF w
    <3>2. 1 \in 1..Len(u) /\ Len(u) + 1 = 2
      BY <2>1
    <3>3. w[1] = u[1]
      BY <3>1, <3>2
    <3> QED BY <2>1, <3>1, <3>2, <3>3
  <2> HIDE DEF w
  <2>4. w = v
    BY <2>2, <2>3
  <2> QED BY <2>4 DEF w, u, v
<1> QED BY <1>1, <1>2, <1>3

\* The chain that logs.
LogRules(rule) ==
    <<Rule("filter", LogChain(rule), {}, Name("LIMITLOG", rule.id)),
      Rule("filter", LogChain(rule), {}, AfterLog(rule))>>

\* The chain of logs logs, and does what the rule does.
LEMMA LogRulesAre ==
    ASSUME NEW rule, RuleOK(rule), NEW C
    PROVE  /\ LogRules(rule) \in Seq(Lines(C)) /\ OwnLines("filter", rule.id, LogRules(rule))
           /\ \A i \in 1..Len(LogRules(rule)) :
                LET l == LogRules(rule)[i]
                IN l.table = "filter" /\ l.chain = LogChain(rule) /\ l.to # Create /\ Terminal(l.to)
           /\ \A p, e : Acts(e) =>
                Flow(View("filter", LogChain(rule), p, e), LogRules(rule))
                  = [end |-> AfterLog(rule), trail |-> <<Name("LIMITLOG", rule.id)>>]
<1> DEFINE c == LogChain(rule)
           o == Name("LIMITLOG", rule.id)
           a == AfterLog(rule)
           l == Rule("filter", c, {}, o)
           m == Rule("filter", c, {}, a)
           s == LogRules(rule)
<1>1. /\ c \in Own(rule.id) /\ c \in Targets /\ c # Create
      /\ o \in Targets /\ o.kind = "LIMITLOG" /\ o # Create
  BY RuleChains
<1>2. a \in Targets /\ a.kind \in Final /\ a # Create
  BY AfterLogIs
<1>3. s = <<l, m>>
  BY DEF LogRules
<1>t. "filter" \in Tables
  BY DEF Tables
<1> HIDE DEF c, o, a
<1>4. /\ l \in Lines(C) /\ l.table = "filter" /\ l.chain = c /\ l.to = o /\ l.match = {}
      /\ ~Clashing(l) /\ Fit(l.chain, l.match)
      /\ \A p, e : e \in [Targets -> Results] => Part(View("filter", c, p, e), l) = e[o]
  BY <1>1, <1>t, AlwaysIs
<1>5. /\ m \in Lines(C) /\ m.table = "filter" /\ m.chain = c /\ m.to = a /\ m.match = {}
      /\ ~Clashing(m) /\ Fit(m.chain, m.match)
      /\ \A p, e : e \in [Targets -> Results] => Part(View("filter", c, p, e), m) = e[a]
  BY <1>1, <1>2, <1>t, AlwaysIs
<1> HIDE DEF l, m, s
<1>6. /\ s \in Seq(Lines(C)) /\ Len(s) = 2 /\ s[1] = l /\ s[2] = m /\ s = <<l>> \o <<m>>
      /\ <<l>> \in Seq(Lines(C))
  BY <1>3, <1>4, <1>5, PairIs
<1>7. \A i \in 1..Len(s) : s[i] = l \/ s[i] = m
  BY <1>6
<1>8. Terminal(o) /\ Terminal(a)
  BY <1>1, <1>2 DEF Terminal, Silent
<1>9. OwnLine(rule.id, l) /\ OwnLine(rule.id, m)
  BY <1>1, <1>2, <1>4, <1>5, <1>8 DEF OwnLine
<1>10. OwnLines("filter", rule.id, s)
  BY <1>7, <1>9 DEF OwnLines
<1>11. \A i \in 1..Len(s) : s[i].table = "filter" /\ s[i].chain = c /\ s[i].to # Create /\ Terminal(s[i].to)
  BY <1>1, <1>2, <1>4, <1>5, <1>7, <1>8
<1>12. ASSUME NEW p, NEW e, Acts(e)
       PROVE  Flow(View("filter", c, p, e), s) = [end |-> a, trail |-> <<o>>]
  <2> DEFINE g == View("filter", c, p, e)
             x == [end |-> None, trail |-> <<o>>]
             y == [end |-> a, trail |-> << >>]
  <2>1. e \in [Targets -> Results]
    BY <1>12 DEF Acts
  <2>2. e[o] = x /\ e[a] = y
    BY <1>1, <1>2, <1>12 DEF Acts, Silent
  <2>3. Part(g, l) = x /\ Part(g, m) = y
    BY <1>4, <1>5, <2>1, <2>2
  <2>4. Reaction(g)
    BY <2>1, ViewIs
  <2>5. Flow(g, <<l>> \o <<m>>) = Then(Part(g, l), Flow(g, <<m>>)) /\ Flow(g, <<m>>) = Part(g, m)
    <3> HIDE DEF g
    <3>1. <<m>> \in Seq(Lines(C))
      BY <1>5
    <3> QED BY <1>4, <1>5, <2>4, <3>1, FlowFirst, FlowOne
  <2>6. Flow(g, s) = Then(x, y)
    BY <1>6, <2>3, <2>5
  <2>7. Then(x, y) = [end |-> a, trail |-> <<o>>]
    BY DEF Then
  <2> QED BY <2>6, <2>7
<1> QED BY <1>6, <1>10, <1>11, <1>12 DEF s, c, o, a

\* Sequences with the same elements in the same places.
LEMMA SeqEqual ==
    ASSUME NEW S, NEW s \in Seq(S), NEW r \in Seq(S), Len(s) = Len(r), \A i \in 1..Len(s) : s[i] = r[i]
    PROVE  s = r
OBVIOUS

\* Tuples as concatenations.
LEMMA TupleIs ==
    ASSUME NEW a, NEW b, NEW d
    PROVE  <<a>> \o <<b>> = <<a, b>> /\ <<a>> \o <<b, d>> = <<a, b, d>>
<1> DEFINE S == {a, b, d}
           u == <<a>>
           v == <<b, d>>
           w == <<a, b, d>>
           z == u \o v
<1>1. a \in S /\ b \in S /\ d \in S
  OBVIOUS
<1> HIDE DEF S
<1>2. <<a>> \o <<b>> = <<a, b>>
  <2>1. /\ <<a, b>> \in Seq(S) /\ Len(<<a, b>>) = 2 /\ <<a, b>>[1] = a /\ <<a, b>>[2] = b
        /\ <<a, b>> = <<a>> \o <<b>> /\ <<a>> \in Seq(S) /\ <<b>> \in Seq(S)
    BY ONLY <1>1, PairIs
  <2> QED BY <2>1
<1>3. u \in Seq(S) /\ Len(u) = 1 /\ u[1] = a
  BY <1>1
<1>4. v \in Seq(S) /\ Len(v) = 2 /\ v[1] = b /\ v[2] = d
  BY <1>1
<1>5. w \in Seq(S) /\ Len(w) = 3 /\ w[1] = a /\ w[2] = b /\ w[3] = d
  BY <1>1
<1> HIDE DEF u, v, w
<1>6. /\ z \in Seq(S) /\ Len(z) = Len(u) + Len(v)
      /\ \A i \in 1..Len(z) : (i \in 1..Len(u) /\ z[i] = u[i])
                \/ (i - Len(u) \in 1..Len(v) /\ z[i] = v[i - Len(u)])
  BY <1>3, <1>4, ConcatSeq
<1> HIDE DEF z
<1>7. Len(z) = 3 /\ z[1] = a /\ z[2] = b /\ z[3] = d
  <2>1. Len(z) = 3
    BY <1>3, <1>4, <1>6
  <2>2. \A i \in 1..3 : (i = 1 /\ z[i] = u[i]) \/ (i - 1 \in 1..2 /\ z[i] = v[i - 1])
    BY <1>3, <1>4, <1>6, <2>1
  <2>3. z[1] = a
    BY <1>3, <2>2
  <2>4. z[2] = v[2 - 1] /\ z[3] = v[3 - 1]
    BY <2>2
  <2> QED BY <1>4, <2>1, <2>3, <2>4
<1>8. z = w
  <2>1. \A i \in 1..3 : z[i] = w[i]
    <3>1. \A i \in 1..3 : i = 1 \/ i = 2 \/ i = 3
      OBVIOUS
    <3> QED BY <1>5, <1>7, <3>1
  <2> QED BY <1>5, <1>6, <1>7, <2>1, SeqEqual
<1> QED BY <1>2, <1>8 DEF z, u, v, w

\* The chain that counts.
Counts(rule) == IF Logged(rule) THEN LogChain(rule) ELSE Name("RETURN", rule.id)
AccRules(rule) == <<Rule("filter", AccChain(rule), {}, Counts(rule))>>

\* The chain of accounts goes on to the logs, or returns.
LEMMA AccRulesAre ==
    ASSUME NEW rule, RuleOK(rule), NEW C
    PROVE  /\ AccRules(rule) \in Seq(Lines(C)) /\ OwnLines("filter", rule.id, AccRules(rule))
           /\ \A i \in 1..Len(AccRules(rule)) :
                LET l == AccRules(rule)[i]
                IN l.table = "filter" /\ l.chain = AccChain(rule) /\ l.to = Counts(rule)
           /\ Counts(rule) # Create
           /\ (Logged(rule) => Counts(rule) = LogChain(rule)) /\ (~Logged(rule) => Terminal(Counts(rule)))
           /\ \A p, e : e \in [Targets -> Results] =>
                Flow(View("filter", AccChain(rule), p, e), AccRules(rule)) = e[Counts(rule)]
<1> DEFINE c == AccChain(rule)
           o == Counts(rule)
           l == Rule("filter", c, {}, o)
           s == AccRules(rule)
<1>1. c \in Own(rule.id) /\ c \in Targets /\ c # Create /\ Rank(c) = 2
  BY RuleChains
<1>2. /\ o \in Targets /\ o # Create /\ (Terminal(o) \/ Rank(o) = 1)
      /\ (Logged(rule) => o = LogChain(rule)) /\ (~Logged(rule) => Terminal(o))
  BY RuleChains DEF Counts, Terminal, Final
<1>3. s = <<l>>
  BY DEF AccRules
<1>t. "filter" \in Tables
  BY DEF Tables
<1> HIDE DEF c, o
<1>4. /\ l \in Lines(C) /\ l.table = "filter" /\ l.chain = c /\ l.to = o /\ l.match = {}
      /\ ~Clashing(l) /\ Fit(l.chain, l.match)
      /\ \A p, e : e \in [Targets -> Results] => Part(View("filter", c, p, e), l) = e[o]
  BY <1>1, <1>2, <1>t, AlwaysIs
<1> HIDE DEF l, s
<1>6. s \in Seq(Lines(C)) /\ Len(s) = 1 /\ s[1] = l
  BY <1>3, <1>4
<1>7. \A i \in 1..Len(s) : s[i] = l
  BY <1>6
<1>9. OwnLine(rule.id, l)
  BY <1>1, <1>2, <1>4 DEF OwnLine
<1>10. OwnLines("filter", rule.id, s)
  BY <1>7, <1>9 DEF OwnLines
<1>11. \A i \in 1..Len(s) : s[i].table = "filter" /\ s[i].chain = c /\ s[i].to = o
  BY <1>4, <1>7
<1>12. ASSUME NEW p, NEW e, e \in [Targets -> Results]
       PROVE  Flow(View("filter", c, p, e), s) = e[o]
  <2> DEFINE g == View("filter", c, p, e)
  <2>3. Part(g, l) = e[o]
    BY <1>4, <1>12
  <2>4. Reaction(g)
    BY <1>12, ViewIs
  <2>5. Flow(g, <<l>>) = Part(g, l)
    <3> HIDE DEF g
    <3> QED BY <1>4, <2>4, FlowOne
  <2> QED BY <1>3, <2>3, <2>5
<1> QED BY <1>2, <1>6, <1>10, <1>11, <1>12 DEF s, c, o

\* The chains of a rule that are before its conditions, and what they do.
Counting(rule) == AddLog(rule) \o AddAccounting(rule)
CountingChains(rule) ==
    (IF Logged(rule) THEN {LogChain(rule)} ELSE {})
      \cup (IF Accounted(rule) THEN {AccChain(rule)} ELSE {})

\* A part of them: a chain, or nothing.
ChainOrNothing(C, id, c, on, s, rules) ==
    /\ s \in Seq(Lines(C)) /\ OwnLines("filter", id, s)
    /\ \A i \in 1..Len(s) : s[i].table = "filter" /\ s[i].chain = c
    /\ s # << >> => on
    /\ on => \A p, e : e \in [Targets -> Results] =>
               Flow(View("filter", c, p, e), s) = Flow(View("filter", c, p, e), rules)

\* A chain created and filled.
LEMMA ChainPart ==
    ASSUME NEW C, NEW id, NEW c \in Own(id), NEW rules \in Seq(Lines(C)), OwnLines("filter", id, rules),
           \A i \in 1..Len(rules) : rules[i].table = "filter" /\ rules[i].chain = c
    PROVE  ChainOrNothing(C, id, c, TRUE, <<New("filter", c)>> \o rules, rules)
<1> DEFINE l == New("filter", c)
           n == <<l>>
           s == n \o rules
<1>0. "filter" \in Tables /\ c \in Targets
  BY DEF Tables, Own
<1>1. l \in Lines(C) /\ l.table = "filter" /\ l.chain = c /\ l.to = Create /\ l.match = {}
  BY <1>0, NewIs
<1> HIDE DEF l
<1>2. OwnLine(id, l)
  <2>1. ~Clashing(l)
    BY <1>1 DEF Clashing, TwoProtocols
  <2> QED BY <1>1, <2>1 DEF OwnLine
<1>3. n \in Seq(Lines(C)) /\ Len(n) = 1 /\ n[1] = l
  BY <1>1
<1>4. OwnLines("filter", id, n)
  <2>1. \A i \in 1..Len(n) : n[i] = l
    BY <1>3
  <2> QED BY <1>2, <2>1 DEF OwnLines
<1>5. ASSUME NEW p, NEW e \in [Targets -> Results]
      PROVE  Flow(View("filter", c, p, e), s) = Flow(View("filter", c, p, e), rules)
  <2> DEFINE g == View("filter", c, p, e)
  <2>1. Reaction(g)
    BY ViewIs
  <2> HIDE DEF g
  <2>2. Part(g, l) = Nothing
    BY <1>1 DEF Part
  <2>3. Flow(g, rules) \in Results
    BY <2>1, FlowType
  <2>4. Flow(g, s) = Then(Nothing, Flow(g, rules))
    BY <1>1, <2>1, <2>2, FlowFirst
  <2> QED BY <2>3, <2>4, ThenNothing DEF g
<1> HIDE DEF n
<1>6. s \in Seq(Lines(C)) /\ OwnLines("filter", id, s)
  BY <1>3, <1>4, OwnLinesConcat
<1>7. \A i \in 1..Len(s) : s[i].table = "filter" /\ s[i].chain = c
  <2>1. \A i \in 1..Len(s) : (i \in 1..Len(n) /\ s[i] = n[i])
           \/ (i - Len(n) \in 1..Len(rules) /\ s[i] = rules[i - Len(n)])
    BY <1>3, ConcatSeq
  <2>2. \A i \in 1..Len(n) : n[i] = l
    BY <1>3
  <2> HIDE DEF s
  <2> QED BY <1>1, <2>1, <2>2
<1> HIDE DEF s
<1>8. ChainOrNothing(C, id, c, TRUE, s, rules)
  BY <1>5, <1>6, <1>7 DEF ChainOrNothing
<1> QED BY <1>8 DEF s, n, l

\* addLog: a chain of logs, or nothing.
LEMMA AddLogIs ==
    ASSUME NEW rule, RuleOK(rule), NEW C
    PROVE  /\ ChainOrNothing(C, rule.id, LogChain(rule), Logged(rule), AddLog(rule), LogRules(rule))
           /\ \A K : LogChain(rule) \notin K =>
                /\ Placed("filter", K, AddLog(rule))
                /\ Known("filter", K, AddLog(rule)) = K \cup (IF Logged(rule) THEN {LogChain(rule)} ELSE {})
<1> DEFINE c == LogChain(rule)
           r == LogRules(rule)
           s == <<New("filter", c)>> \o r
<1>1. c \in Own(rule.id) /\ c \in Targets /\ "filter" \in Tables
  BY RuleChains DEF Tables
<1>2. /\ r \in Seq(Lines(C)) /\ OwnLines("filter", rule.id, r)
      /\ \A i \in 1..Len(r) : r[i].table = "filter" /\ r[i].chain = c /\ r[i].to # Create /\ Terminal(r[i].to)
  BY LogRulesAre
<1>3. Logged(rule) => AddLog(rule) = s
  <2> DEFINE a == New("filter", c)
             b == Rule("filter", c, {}, Name("LIMITLOG", rule.id))
             d == Rule("filter", c, {}, AfterLog(rule))
  <2>1. Logged(rule) => AddLog(rule) = <<a, b, d>>
    BY DEF AddLog
  <2>2. r = <<b, d>>
    BY DEF LogRules
  <2> HIDE DEF a, b, d
  <2>3. <<a>> \o <<b, d>> = <<a, b, d>>
    BY TupleIs
  <2> HIDE DEF r
  <2> QED BY <2>1, <2>2, <2>3 DEF a
<1>4. ~Logged(rule) => AddLog(rule) = << >>
  BY DEF AddLog
<1> HIDE DEF c, r
<1>5. ChainOrNothing(C, rule.id, c, TRUE, s, r)
  BY <1>1, <1>2, ChainPart
<1>6. \A K : c \notin K => Placed("filter", K, s) /\ Known("filter", K, s) = K \cup {c}
  BY <1>1, <1>2, ChainList
<1> HIDE DEF s
<1>7. CASE Logged(rule)
  BY <1>3, <1>5, <1>6, <1>7 DEF ChainOrNothing, c, r
<1>8. CASE ~Logged(rule)
  <2> DEFINE z == AddLog(rule)
  <2>1. z = << >> /\ z \in Seq(Lines(C)) /\ 1..Len(z) = {}
    BY <1>4, <1>8
  <2> HIDE DEF z
  <2>2. ChainOrNothing(C, rule.id, c, Logged(rule), z, r)
    BY <1>8, <2>1 DEF ChainOrNothing, OwnLines
  <2>3. \A K : Placed("filter", K, z) /\ Known("filter", K, z) = K
    <3>1. \A i \in 1..Len(z) : z[i].table # "filter"
      BY <2>1
    <3>2. z \in Seq(Lines(C))
      BY <2>1
    <3> QED BY ONLY <3>1, <3>2, ElsewhereOwn
  <2> QED BY <1>8, <2>2, <2>3 DEF z, c, r
<1> QED BY <1>7, <1>8

\* addAccounting: a chain of accounts, or nothing.
LEMMA AddAccountingIs ==
    ASSUME NEW rule, RuleOK(rule), NEW C
    PROVE  /\ ChainOrNothing(C, rule.id, AccChain(rule), Accounted(rule), AddAccounting(rule), AccRules(rule))
           /\ \A K : AccChain(rule) \notin K /\ (Logged(rule) => LogChain(rule) \in K) =>
                /\ Placed("filter", K, AddAccounting(rule))
                /\ Known("filter", K, AddAccounting(rule))
                     = K \cup (IF Accounted(rule) THEN {AccChain(rule)} ELSE {})
<1> DEFINE c == AccChain(rule)
           r == AccRules(rule)
           s == <<New("filter", c)>> \o r
<1>1. c \in Own(rule.id) /\ c \in Targets /\ "filter" \in Tables
  BY RuleChains DEF Tables
<1>2. /\ r \in Seq(Lines(C)) /\ OwnLines("filter", rule.id, r)
      /\ \A i \in 1..Len(r) : r[i].table = "filter" /\ r[i].chain = c /\ r[i].to = Counts(rule)
      /\ Counts(rule) # Create
      /\ (Logged(rule) => Counts(rule) = LogChain(rule)) /\ (~Logged(rule) => Terminal(Counts(rule)))
  BY AccRulesAre
<1>3. Accounted(rule) => AddAccounting(rule) = s
  <2> DEFINE a == New("filter", c)
             b == Rule("filter", c, {}, Counts(rule))
  <2>1. Accounted(rule) => AddAccounting(rule) = <<a, b>>
    BY DEF AddAccounting, Counts
  <2>2. r = <<b>>
    BY DEF AccRules
  <2> HIDE DEF a, b
  <2>3. <<a>> \o <<b>> = <<a, b>>
    BY TupleIs
  <2> HIDE DEF r
  <2> QED BY <2>1, <2>2, <2>3 DEF a
<1>4. ~Accounted(rule) => AddAccounting(rule) = << >>
  BY DEF AddAccounting
<1> HIDE DEF c, r
<1>5. ChainOrNothing(C, rule.id, c, TRUE, s, r)
  BY <1>1, <1>2, ChainPart
<1>6. \A K : c \notin K /\ (Logged(rule) => LogChain(rule) \in K) =>
        Placed("filter", K, s) /\ Known("filter", K, s) = K \cup {c}
  <2>1. SUFFICES ASSUME NEW K, c \notin K, Logged(rule) => LogChain(rule) \in K
                 PROVE Placed("filter", K, s) /\ Known("filter", K, s) = K \cup {c}
    OBVIOUS
  <2>2. Terminal(Counts(rule)) \/ Counts(rule) \in K
    BY <1>2, <2>1
  <2>3. \A i \in 1..Len(r) : r[i].chain = c /\ r[i].to # Create /\ (Terminal(r[i].to) \/ r[i].to \in K)
    BY <1>2, <2>2
  <2> QED BY <1>1, <1>2, <2>1, <2>3, ChainList
<1> HIDE DEF s
<1>7. CASE Accounted(rule)
  BY <1>3, <1>5, <1>6, <1>7 DEF ChainOrNothing, c, r
<1>8. CASE ~Accounted(rule)
  <2> DEFINE z == AddAccounting(rule)
  <2>1. z = << >> /\ z \in Seq(Lines(C)) /\ 1..Len(z) = {}
    BY <1>4, <1>8
  <2> HIDE DEF z
  <2>2. ChainOrNothing(C, rule.id, c, Accounted(rule), z, r)
    BY <1>8, <2>1 DEF ChainOrNothing, OwnLines
  <2>3. \A K : Placed("filter", K, z) /\ Known("filter", K, z) = K
    <3>1. \A i \in 1..Len(z) : z[i].table # "filter"
      BY <2>1
    <3>2. z \in Seq(Lines(C))
      BY <2>1
    <3> QED BY ONLY <3>1, <3>2, ElsewhereOwn
  <2> QED BY <1>8, <2>2, <2>3 DEF z, c, r
<1> QED BY <1>7, <1>8

\* The target of the commands of a rule, after what it counts and logs.
Leading(rule, p, e) ==
    /\ Acts(e)
    /\ Logged(rule) => e[LogChain(rule)] =
         Back(LogChain(rule), Flow(View("filter", LogChain(rule), p, e), Counting(rule)))
    /\ Accounted(rule) => e[AccChain(rule)] =
         Back(AccChain(rule), Flow(View("filter", AccChain(rule), p, e), Counting(rule)))

\* Commands for other chains do nothing in this one.
LEMMA FlowOther ==
    ASSUME NEW t, NEW c, NEW p, NEW e \in [Targets -> Results], NEW C, NEW s \in Seq(Lines(C)),
           \A i \in 1..Len(s) : s[i].table = t => s[i].chain # c
    PROVE  Flow(View(t, c, p, e), s) = Nothing
<1> DEFINE g == View(t, c, p, e)
<1>1. Reaction(g) /\ g.table = t /\ g.chain = c
  BY ViewIs
<1> HIDE DEF g
<1>2. \A i \in 1..Len(s) : Part(g, s[i]) = Nothing
  BY <1>1 DEF Part
<1> QED BY <1>1, <1>2, FlowElsewhere DEF g

\* Two lists of commands, for one chain.
LEMMA FlowView ==
    ASSUME NEW t, NEW c, NEW p, NEW e \in [Targets -> Results], NEW C, NEW r \in Seq(Lines(C)),
           NEW s \in Seq(Lines(C))
    PROVE  /\ Flow(View(t, c, p, e), r) \in Results
           /\ Flow(View(t, c, p, e), r \o s) = Then(Flow(View(t, c, p, e), r), Flow(View(t, c, p, e), s))
<1> DEFINE g == View(t, c, p, e)
<1>1. Reaction(g)
  BY ViewIs
<1> HIDE DEF g
<1>2. Flow(g, r) \in Results /\ Flow(g, r \o s) = Then(Flow(g, r), Flow(g, s))
  BY <1>1, FlowType, FlowConcat
<1> QED BY <1>2 DEF g

\* Only one of two lists has commands for a chain.
LEMMA FlowOneOf ==
    ASSUME NEW t, NEW c, NEW p, NEW e \in [Targets -> Results], NEW C, NEW r \in Seq(Lines(C)),
           NEW s \in Seq(Lines(C))
    PROVE  /\ (\A i \in 1..Len(s) : s[i].table = t => s[i].chain # c) =>
                Flow(View(t, c, p, e), r \o s) = Flow(View(t, c, p, e), r)
           /\ (\A i \in 1..Len(r) : r[i].table = t => r[i].chain # c) =>
                Flow(View(t, c, p, e), r \o s) = Flow(View(t, c, p, e), s)
<1> DEFINE a == Flow(View(t, c, p, e), r)
           b == Flow(View(t, c, p, e), s)
           d == Flow(View(t, c, p, e), r \o s)
<1>1. a \in Results /\ b \in Results /\ d = Then(a, b)
  BY FlowView
<1>2. (\A i \in 1..Len(s) : s[i].table = t => s[i].chain # c) => b = Nothing
  BY FlowOther
<1>3. (\A i \in 1..Len(r) : r[i].table = t => r[i].chain # c) => a = Nothing
  BY FlowOther
<1> HIDE DEF a, b, d
<1>4. (b = Nothing => d = a) /\ (a = Nothing => d = b)
  BY <1>1, ThenNothing
<1> QED BY <1>2, <1>3, <1>4 DEF a, b, d

\* The chains of logs and accounts together.
LEMMA CountingIs ==
    ASSUME NEW rule, RuleOK(rule), NEW C
    PROVE  LET q == Counting(rule)
           IN /\ q \in Seq(Lines(C)) /\ OwnLines("filter", rule.id, q)
              /\ \A i \in 1..Len(q) : q[i].table = "filter" /\ q[i].chain \in CountingChains(rule)
              /\ \A K : K \cap Own(rule.id) = {} =>
                   Placed("filter", K, q) /\ Known("filter", K, q) = K \cup CountingChains(rule)
              /\ \A p, e : e \in [Targets -> Results] =>
                   /\ Logged(rule) => Flow(View("filter", LogChain(rule), p, e), q)
                                        = Flow(View("filter", LogChain(rule), p, e), LogRules(rule))
                   /\ Accounted(rule) => Flow(View("filter", AccChain(rule), p, e), q)
                                           = Flow(View("filter", AccChain(rule), p, e), AccRules(rule))
<1> DEFINE a == LogChain(rule)
           b == AccChain(rule)
           r == AddLog(rule)
           s == AddAccounting(rule)
           rr == LogRules(rule)
           sr == AccRules(rule)
           on == Logged(rule)
           of == Accounted(rule)
           q == Counting(rule)
           A == IF on THEN {a} ELSE {}
           B == IF of THEN {b} ELSE {}
<1>1. a \in Own(rule.id) /\ b \in Own(rule.id) /\ a # b
  BY RuleChains
<1>2. /\ ChainOrNothing(C, rule.id, a, on, r, rr)
      /\ \A K : a \notin K => Placed("filter", K, r) /\ Known("filter", K, r) = K \cup A
  BY AddLogIs
<1>3. /\ ChainOrNothing(C, rule.id, b, of, s, sr)
      /\ \A K : b \notin K /\ (on => a \in K) =>
           Placed("filter", K, s) /\ Known("filter", K, s) = K \cup B
  BY AddAccountingIs
<1>4. q = r \o s /\ CountingChains(rule) = A \cup B
  BY DEF Counting, CountingChains
<1> HIDE DEF a, b, r, s, rr, sr, on, of, q
<1>5. /\ r \in Seq(Lines(C)) /\ OwnLines("filter", rule.id, r)
      /\ \A i \in 1..Len(r) : r[i].table = "filter" /\ r[i].chain = a
      /\ r # << >> => on
  BY <1>2 DEF ChainOrNothing
<1>6. /\ s \in Seq(Lines(C)) /\ OwnLines("filter", rule.id, s)
      /\ \A i \in 1..Len(s) : s[i].table = "filter" /\ s[i].chain = b
      /\ s # << >> => of
  BY <1>3 DEF ChainOrNothing
<1>7. q \in Seq(Lines(C)) /\ OwnLines("filter", rule.id, q)
  BY <1>4, <1>5, <1>6, OwnLinesConcat
<1>8. \A i \in 1..Len(q) : q[i].table = "filter" /\ q[i].chain \in CountingChains(rule)
  <2>1. \A i \in 1..Len(q) : (i \in 1..Len(r) /\ q[i] = r[i])
           \/ (i - Len(r) \in 1..Len(s) /\ q[i] = s[i - Len(r)])
    BY <1>4, <1>5, <1>6, ConcatSeq
  <2>2. \A i \in 1..Len(r) : r[i].table = "filter" /\ r[i].chain \in CountingChains(rule)
    <3>1. r = << >> => 1..Len(r) = {}
      OBVIOUS
    <3> QED BY <1>4, <1>5, <3>1
  <2>3. \A i \in 1..Len(s) : s[i].table = "filter" /\ s[i].chain \in CountingChains(rule)
    <3>1. s = << >> => 1..Len(s) = {}
      OBVIOUS
    <3> QED BY <1>4, <1>6, <3>1
  <2> QED BY <2>1, <2>2, <2>3
<1>9. ASSUME NEW K, K \cap Own(rule.id) = {}
      PROVE  Placed("filter", K, q) /\ Known("filter", K, q) = K \cup CountingChains(rule)
  <2> DEFINE J == K \cup A
  <2>1. a \notin K /\ b \notin J /\ (on => a \in J)
    BY <1>1, <1>9
  <2> HIDE DEF A, B
  <2>2. Placed("filter", K, r) /\ Known("filter", K, r) = J
    BY <1>2, <2>1
  <2> HIDE DEF J
  <2>3. Placed("filter", J, s) /\ Known("filter", J, s) = J \cup B
    BY <1>3, <2>1
  <2>4. Placed("filter", K, q) /\ Known("filter", K, q) = J \cup B
    BY <1>4, <1>5, <1>6, <2>2, <2>3, PlacedConcat, KnownConcat
  <2> QED BY <1>4, <2>4 DEF J
<1>10. ASSUME NEW p, NEW e \in [Targets -> Results], on
       PROVE  Flow(View("filter", a, p, e), q) = Flow(View("filter", a, p, e), rr)
  <2>1. Flow(View("filter", a, p, e), r) = Flow(View("filter", a, p, e), rr)
    BY <1>2, <1>10 DEF ChainOrNothing
  <2>2. \A i \in 1..Len(s) : s[i].table = "filter" => s[i].chain # a
    BY <1>1, <1>6
  <2>3. Flow(View("filter", a, p, e), r \o s) = Flow(View("filter", a, p, e), r)
    BY <1>5, <1>6, <2>2, FlowOneOf
  <2> QED BY <1>4, <2>1, <2>3
<1>11. ASSUME NEW p, NEW e \in [Targets -> Results], of
       PROVE  Flow(View("filter", b, p, e), q) = Flow(View("filter", b, p, e), sr)
  <2>1. Flow(View("filter", b, p, e), s) = Flow(View("filter", b, p, e), sr)
    BY <1>3, <1>11 DEF ChainOrNothing
  <2>2. \A i \in 1..Len(r) : r[i].table = "filter" => r[i].chain # b
    BY <1>1, <1>5
  <2>3. Flow(View("filter", b, p, e), r \o s) = Flow(View("filter", b, p, e), s)
    BY <1>5, <1>6, <2>2, FlowOneOf
  <2> QED BY <1>4, <2>1, <2>3
<1> QED BY <1>7, <1>8, <1>9, <1>10, <1>11 DEF q, a, b, on, of, rr, sr

\* A rule that is meant counts, logs and decides.
LEMMA LeadingIs ==
    ASSUME NEW rule, RuleOK(rule), NEW p, NEW e, Leading(rule, p, e)
    PROVE  e[Action(rule)] = Means(rule) /\ (Means(rule).end # None <=> ~Accounted(rule))
           /\ Means(rule).end.kind # "RETURN" /\ Means(rule) \in Results
<1> DEFINE a == LogChain(rule)
           b == AccChain(rule)
           o == Name("LIMITLOG", rule.id)
           z == Name("RETURN", rule.id)
           d == BaseAction(rule)
           f == AfterLog(rule)
           q == Counting(rule)
           on == Logged(rule)
           of == Accounted(rule)
           fl(c) == Flow(View("filter", c, p, e), q)
<1>0. Acts(e) /\ e \in [Targets -> Results]
  BY DEF Leading, Acts
<1>1. /\ a \in Targets /\ b \in Targets /\ a.kind = "LOGCHAIN" /\ b.kind = "ACC"
      /\ o \in Targets /\ o.kind = "LIMITLOG" /\ z \in Targets /\ z.kind = "RETURN"
  BY RuleChains
<1>2. /\ d \in Targets /\ (of => d = b)
      /\ ~of => d.kind \in {"ACCEPT", "DROP", "REJECT", "SNAT", "DNAT", "MASQUERADE"}
  BY BaseActionIs
<1>3. f \in Targets /\ f.kind \in Final /\ (of => f.kind = "RETURN") /\ (~of => f = d /\ f.kind # "RETURN")
  BY AfterLogIs
<1>4. on => fl(a) = Flow(View("filter", a, p, e), LogRules(rule))
  BY <1>0, CountingIs
<1>5. of => fl(b) = Flow(View("filter", b, p, e), AccRules(rule))
  BY <1>0, CountingIs
<1>6. Flow(View("filter", a, p, e), LogRules(rule)) = [end |-> f, trail |-> <<o>>]
  BY <1>0, LogRulesAre
<1>7. Flow(View("filter", b, p, e), AccRules(rule)) = e[Counts(rule)]
  BY <1>0, AccRulesAre
<1>8. on => e[a] = Back(a, [end |-> f, trail |-> <<o>>])
  BY <1>4, <1>6 DEF Leading
<1>9. of => e[b] = Back(b, e[Counts(rule)])
  BY <1>5, <1>7 DEF Leading
<1>10. Counts(rule) = (IF on THEN a ELSE z)
  BY DEF Counts
<1>11. Action(rule) = (IF on /\ ~of THEN a ELSE d)
  BY DEF Action
<1>12. Means(rule) = [end |-> IF of THEN None ELSE d,
                      trail |-> (IF of THEN <<b>> ELSE << >>) \o (IF on THEN <<o>> ELSE << >>)]
  BY DEF Means
<1>n. None.kind = "none" /\ None \in Targets
  BY ReturnIs, NoneType
<1> HIDE DEF a, b, o, z, d, f, q, on, of, fl
<1>13. Means(rule) \in Results /\ Means(rule).end.kind # "RETURN" /\ (Means(rule).end # None <=> ~of)
  <2> DEFINE u == IF of THEN <<b>> ELSE << >>
             v == IF on THEN <<o>> ELSE << >>
  <2>1. u \in Seq(Targets) /\ v \in Seq(Targets)
    BY <1>1
  <2> HIDE DEF u, v
  <2>2. u \o v \in Seq(Targets)
    BY <2>1
  <2>3. (IF of THEN None ELSE d) \in Targets
    BY <1>2, <1>n
  <2>4. Means(rule) = [end |-> IF of THEN None ELSE d, trail |-> u \o v]
    BY <1>12 DEF u, v
  <2>5. Means(rule) \in Results
    BY <2>2, <2>3, <2>4 DEF Results
  <2> QED BY <1>2, <1>n, <2>4, <2>5
<1>14. \A to \in Targets : to.kind \in Final => e[to] = [end |-> to, trail |-> << >>]
  BY <1>0 DEF Acts
<1>k. \A r : Back(a, r) = [end |-> IF r.end.kind = "RETURN" THEN None ELSE r.end, trail |-> << >> \o r.trail]
  BY <1>1 DEF Back
<1>l. \A r : Back(b, r) = [end |-> IF r.end.kind = "RETURN" THEN None ELSE r.end, trail |-> <<b>> \o r.trail]
  BY <1>1 DEF Back
<1>e. << >> \o << >> = << >> /\ << >> \o <<o>> = <<o>> /\ <<b>> \o << >> = <<b>>
  OBVIOUS
<1>b. on => e[a] = [end |-> IF f.kind = "RETURN" THEN None ELSE f, trail |-> <<o>>]
  <2> DEFINE r == [end |-> f, trail |-> <<o>>]
  <2>1. r.end = f /\ r.trail = <<o>> /\ (on => e[a] = Back(a, r))
    BY <1>8
  <2> HIDE DEF r
  <2>2. Back(a, r) = [end |-> IF f.kind = "RETURN" THEN None ELSE f, trail |-> << >> \o r.trail]
    BY <1>k, <2>1
  <2>3. << >> \o r.trail = <<o>>
    BY <1>e, <2>1
  <2> QED BY <2>1, <2>2, <2>3
<1>15. CASE of
  <2>1. Action(rule) = b
    BY <1>2, <1>11, <1>15
  <2>2. CASE on
    <3>1. e[a] = [end |-> None, trail |-> <<o>>]
      BY <1>3, <1>b, <1>15, <2>2
    <3>2. Counts(rule) = a
      BY <1>10, <2>2
    <3>3. e[b] = [end |-> None, trail |-> <<b>> \o <<o>>]
      BY <1>9, <1>15, <1>l, <1>n, <3>1, <3>2
    <3>4. Means(rule) = [end |-> None, trail |-> <<b>> \o <<o>>]
      BY <1>12, <1>15, <2>2
    <3> QED BY <1>13, <2>1, <3>3, <3>4 DEF of
  <2>3. CASE ~on
    <3>1. Counts(rule) = z
      BY <1>10, <2>3
    <3>2. e[z] = [end |-> z, trail |-> << >>]
      BY <1>1, <1>14 DEF Final
    <3>3. e[b] = [end |-> None, trail |-> <<b>>]
      BY <1>1, <1>9, <1>15, <1>l, <1>e, <3>1, <3>2
    <3>4. Means(rule) = [end |-> None, trail |-> <<b>>]
      BY <1>12, <1>15, <1>e, <2>3
    <3> QED BY <1>13, <2>1, <3>3, <3>4 DEF of
  <2> QED BY <2>2, <2>3
<1>16. CASE ~of
  <2>1. CASE on
    <3>1. e[a] = [end |-> d, trail |-> <<o>>]
      BY <1>3, <1>b, <1>16, <2>1
    <3>2. Means(rule) = [end |-> d, trail |-> <<o>>]
      BY <1>12, <1>16, <1>e, <2>1
    <3> QED BY <1>11, <1>13, <1>16, <2>1, <3>1, <3>2 DEF of
  <2>2. CASE ~on
    <3>1. e[d] = [end |-> d, trail |-> << >>]
      BY <1>2, <1>14, <1>16 DEF Final
    <3>2. Means(rule) = [end |-> d, trail |-> << >>]
      BY <1>12, <1>16, <1>e, <2>2
    <3> QED BY <1>11, <1>13, <1>16, <2>2, <3>1, <3>2 DEF of
  <2> QED BY <2>1, <2>2
<1> QED BY <1>15, <1>16

\* The same list, when its target does nothing for packets of another protocol.
LEMMA FlowOfMain ==
    ASSUME NEW rule, NEW C, NEW r \in Seq(Lines(C)), NEW m, Mains(rule, C, r, m),
           NEW t, NEW c, NEW p, NEW e \in [Targets -> Results], NEW E \in [Targets -> Results],
           \A to \in Targets : to # Action(rule) => E[to] = e[to],
           E[Action(rule)] = IF AllMet(NatProtocol(rule), p) THEN e[Action(rule)] ELSE Nothing
    PROVE  Flow(View(t, c, p, e), m) = Flow(View(t, c, p, E), r)
<1> DEFINE g == View(t, c, p, e)
           h == View(t, c, p, E)
           a == Action(rule)
           N == AllMet(NatProtocol(rule), p)
<1>1. /\ Reaction(g) /\ g.table = t /\ g.chain = c /\ g.p = p /\ g.e = e
      /\ Reaction(h) /\ h.table = t /\ h.chain = c /\ h.p = p /\ h.e = E
  BY ViewIs
<1>2. /\ m \in Seq(Lines(C)) /\ Alike(r, m)
      /\ \A i \in 1..Len(r) : Hit(m[i], p) <=> Hit(r[i], p) /\ (r[i].to = a => N)
  BY DEF Mains
<1>3. (\A to \in Targets : to # a => E[to] = e[to]) /\ E[a] = IF N THEN e[a] ELSE Nothing
  OBVIOUS
<1> HIDE DEF g, h, a, N
<1>4. ASSUME NEW i \in 1..Len(r) PROVE Part(g, m[i]) = Part(h, r[i])
  <2> DEFINE k == m[i]
             l == r[i]
  <2>1. l \in Lines(C) /\ k.table = l.table /\ k.chain = l.chain /\ k.to = l.to
    BY <1>2 DEF Alike
  <2>2. Hit(k, p) <=> Hit(l, p) /\ (l.to = a => N)
    BY <1>2
  <2>3. l.to \in Targets
    BY <2>1 DEF Lines
  <2> HIDE DEF k, l
  <2>4. Part(g, k) = IF l.table = t /\ l.chain = c /\ l.to # Create /\ Hit(k, p) THEN e[l.to] ELSE Nothing
    BY <1>1, <2>1 DEF Part
  <2>5. Part(h, l) = IF l.table = t /\ l.chain = c /\ l.to # Create /\ Hit(l, p) THEN E[l.to] ELSE Nothing
    BY <1>1 DEF Part
  <2>6. ASSUME l.to # a PROVE Part(g, k) = Part(h, l)
    BY <1>3, <2>2, <2>3, <2>4, <2>5, <2>6
  <2>7. ASSUME l.to = a PROVE Part(g, k) = Part(h, l)
    <3>1. CASE N
      BY <1>3, <2>2, <2>4, <2>5, <2>7, <3>1
    <3>2. CASE ~N
      BY <1>3, <2>2, <2>4, <2>5, <2>7, <3>2
    <3> QED BY <3>1, <3>2
  <2> QED BY <2>6, <2>7 DEF k, l
<1>5. Len(r) = Len(m) /\ \A i \in 1..Len(r) : Part(g, m[i]) = Part(h, r[i])
  BY <1>2, <1>4 DEF Alike
<1>6. Flow(g, m) = Flow(h, r)
  BY <1>1, <1>2, <1>5, FlowSame
<1> QED BY <1>6 DEF g, h

\* The action is a verdict or one of these chains.
LEMMA ActionKind ==
    ASSUME NEW rule, RuleOK(rule)
    PROVE  Action(rule) \in Targets /\ Action(rule).kind # "RETURN" /\ Action(rule) # Create
           /\ (Terminal(Action(rule)) \/ Action(rule) \in CountingChains(rule))
<1> DEFINE a == LogChain(rule)
           d == BaseAction(rule)
           on == Logged(rule)
           of == Accounted(rule)
<1>1. a \in Targets /\ a.kind = "LOGCHAIN"
  BY RuleChains
<1>2. /\ d \in Targets /\ (of => d = AccChain(rule) /\ d.kind = "ACC")
      /\ ~of => d.kind \in {"ACCEPT", "DROP", "REJECT", "SNAT", "DNAT", "MASQUERADE"}
  BY BaseActionIs
<1>3. Action(rule) = (IF on /\ ~of THEN a ELSE d)
  BY DEF Action
<1>4. CountingChains(rule) = (IF on THEN {a} ELSE {}) \cup (IF of THEN {AccChain(rule)} ELSE {})
  BY DEF CountingChains
<1>5. Create.kind = "create"
  BY ReturnIs
<1> HIDE DEF a, d, on, of
<1>6. CASE on /\ ~of
  <2>1. Action(rule) = a /\ a \in CountingChains(rule)
    BY <1>3, <1>4, <1>6
  <2> QED BY <1>1, <1>5, <2>1
<1>7. CASE of
  <2>1. Action(rule) = d /\ d \in CountingChains(rule)
    BY <1>2, <1>3, <1>4, <1>7
  <2> QED BY <1>2, <1>5, <1>7, <2>1
<1>8. CASE ~on /\ ~of
  <2>1. Action(rule) = d
    BY <1>3, <1>8
  <2>2. Terminal(d)
    BY <1>2, <1>8 DEF Terminal, Final
  <2> QED BY <1>2, <1>5, <1>8, <2>1, <2>2
<1> QED BY <1>6, <1>7, <1>8

\* What the commands for the chain of the hook do.
LEMMA MainLeads ==
    ASSUME NEW rule, NEW C, Compiling(rule, C), rule.active, rule.here,
           NEW n \in 1..11, NEW r, Generated(Matching(rule), C, n, r),
           NEW m, Mains(rule, C, r, m),
           NEW p, NEW e, NEW x, Leading(rule, p, e),
           Translates(rule) => p["SVC"] \in Values["SVC"],
           x /\ Accounted(rule) => OnceIn(rule, p),
           \A c \in Numbered(Matching(rule), n) :
              e[c] = Back(c, Flow(View(TableOf(rule.type), c, p, e), m))
    PROVE  Agrees(x, Flow(View(TableOf(rule.type), Name(Hook(rule.type), 0), p, e), m),
                  If(Meant(rule, p), Means(rule)))
<1> DEFINE g == Matching(rule)
           a == Action(rule)
           t == TableOf(rule.type)
           s == Name(Hook(rule.type), 0)
           N == AllMet(NatProtocol(rule), p)
           E == [to \in Targets |-> IF to = a /\ ~N THEN Nothing ELSE e[to]]
           w == Means(rule)
           d == Passed(g, p)
           f == Meant(rule, p)
<1>1. GenOK(g, C) /\ g.action = a /\ g.table = t /\ g.start = s
  BY MatchingIs
<1>2. RuleOK(rule)
  BY DEF Compiling
<1>3. a \in Targets /\ a.kind # "RETURN"
  BY <1>2, ActionKind
<1>4. e[a] = w /\ (w.end # None <=> ~Accounted(rule)) /\ w.end.kind # "RETURN" /\ w \in Results
  BY <1>2, LeadingIs
<1>5. f <=> d /\ N
  BY MeantIs
<1>6. Acts(e) /\ e \in [Targets -> Results]
  BY DEF Leading, Acts
<1>7. x /\ Accounted(rule) => Once(g, p)
  BY OnceIs
<1>g. Generated(g, C, n, r)
  OBVIOUS
<1>c. \A c \in Numbered(g, n) : e[c] = Back(c, Flow(View(t, c, p, e), m))
  OBVIOUS
<1> HIDE DEF g, a, t, s, N, w, d, f
<1>8. /\ E \in [Targets -> Results] /\ (\A to \in Targets : to # a => E[to] = e[to])
      /\ E[a] = IF N THEN e[a] ELSE Nothing
  BY <1>3, <1>6, NoneType
<1> HIDE DEF E
<1>9. r \in Seq(Lines(C))
  BY <1>g DEF Generated
<1>10. ASSUME NEW c PROVE Flow(View(t, c, p, e), m) = Flow(View(t, c, p, E), r)
  BY <1>6, <1>8, <1>9, FlowOfMain DEF a, N
<1>11. E[a] = If(N, w)
  BY <1>4, <1>8 DEF If
<1>12. Linked(g, p, E, n, r, a, x)
  <2>1. E[Return] = [end |-> Return, trail |-> << >>]
    <3>1. e[Return] = [end |-> Return, trail |-> << >>]
      BY <1>6, ReturnIs DEF Acts, Final
    <3> QED BY <1>3, <1>8, <3>1, ReturnIs
  <2>2. E[a].end.kind # "RETURN"
    BY <1>4, <1>11, NoneType, ReturnIs DEF If
  <2>3. ASSUME NEW j \in 1..(n - 1)
        PROVE  E[ChainOf(g, j)] = Back(ChainOf(g, j), Flow(View(g.table, ChainOf(g, j), p, E), r))
    <3> DEFINE c == ChainOf(g, j)
    <3>1. c \in Targets /\ c # a
      <4>1. j \in Nat
        OBVIOUS
      <4> QED BY <1>1, <4>1, ChainIs
    <3>2. c \in Numbered(g, n)
      BY DEF Numbered
    <3> HIDE DEF c
    <3>3. e[c] = Back(c, Flow(View(t, c, p, e), m)) /\ E[c] = e[c]
      BY <1>c, <1>8, <3>1, <3>2
    <3>4. Flow(View(t, c, p, e), m) = Flow(View(t, c, p, E), r)
      BY <1>10
    <3> QED BY <1>1, <3>3, <3>4 DEF c
  <2>4. x => Once(g, p) \/ Again(E[a])
    <3>1. CASE Accounted(rule)
      BY <1>7, <3>1
    <3>2. CASE ~Accounted(rule)
      <4>1. w.end # None
        BY <1>4, <3>2
      <4>2. Again(w) /\ Again(Nothing)
        BY <1>4, <4>1, ThenTwice, ThenNothing, NoneType DEF Again
      <4> QED BY <1>11, <4>2 DEF If
    <3> QED BY <3>1, <3>2
  <2> QED BY <1>8, <2>1, <2>2, <2>3, <2>4 DEF Linked
<1>13. Agrees(x, Flow(View(t, s, p, E), r), If(d, E[a]))
  <2>1. \A q, u, y : Linked(g, q, u, n, r, g.action, y) =>
          Agrees(y, Flow(View(g.table, g.start, q, u), r), If(Passed(g, q), u[g.action]))
    BY <1>g DEF Generated
  <2> QED BY <1>1, <1>12, <2>1 DEF d
<1>14. If(d, E[a]) = If(f, w)
  BY <1>5, <1>11 DEF If
<1>15. Flow(View(t, s, p, e), m) = Flow(View(t, s, p, E), r)
  BY <1>10
<1>16. Agrees(x, Flow(View(t, s, p, e), m), If(f, w))
  BY <1>13, <1>14, <1>15
<1> QED BY <1>16 DEF t, s, f, w

\* The commands for the chain of the hook: n is the number of the next chain.
MainOK(rule, C, n, m) ==
    LET g == Matching(rule)
        t == TableOf(rule.type)
    IN /\ m \in Seq(Lines(C)) /\ OwnLines(t, rule.id, m)
       /\ \A i \in 1..Len(m) : m[i].table = t /\ m[i].chain \in {Name(Hook(rule.type), 0)} \cup Numbered(g, n)
       /\ Numbered(g, n) \subseteq {c \in Own(rule.id) : c.kind = "CH"}
       /\ \A K : /\ Name(Hook(rule.type), 0) \in K /\ K \cap Numbered(g, n) = {}
                 /\ (Terminal(Action(rule)) \/ Action(rule) \in K)
                 => Placed(t, K, m) /\ Known(t, K, m) = K \cup Numbered(g, n)

\* The main commands of a rule are taken, after those of its logs.
LEMMA MainStands ==
    ASSUME NEW rule, NEW C, Compiling(rule, C), CondsOK(Hook(rule.type), C)
    PROVE  \E n \in 1..11 : /\ Generated(Matching(rule), C, n, Generate(Matching(rule)))
                            /\ MainOK(rule, C, n, Main(rule))
<1> DEFINE g == Matching(rule)
           r == Generate(g)
           m == Main(rule)
           t == TableOf(rule.type)
           s == Name(Hook(rule.type), 0)
           h == Hook(rule.type)
           a == Action(rule)
<1>1. GenOK(g, C) /\ (g.end = g.state \/ g.ps = << >>)
      /\ g.action = a /\ g.id = rule.id /\ g.kind = "CH" /\ g.table = t /\ g.start = s
  BY MatchingIs
<1>2. PICK n \in 1..11 : Generated(g, C, n, r)
  <2> HIDE DEF g
  <2> QED BY <1>1, GenerateIs
<1>3. r \in Seq(Lines(C)) /\ (\A i \in 1..Len(r) : LineOK(g, n, r[i])) /\ Loads(g, n, a, r)
  BY <1>1, <1>2 DEF Generated
<1>4. Mains(rule, C, r, m)
  BY <1>3, MainIs
<1>5. m \in Seq(Lines(C)) /\ Alike(r, m) /\ \A i \in 1..Len(m) : \A p : Clashing(m[i]) => ~Hit(m[i], p)
  BY <1>4 DEF Mains, Alike
<1>6. Fit(s, C)
  BY DEF CondsOK
<1> HIDE DEF g, r, m, t, s, h, a
<1>7. n \in Nat \ {0} /\ s \in Hooks
  BY <1>1 DEF GenOK
<1>8. Numbered(g, n) \subseteq {c \in Own(rule.id) : c.kind = "CH"}
  <2>1. SUFFICES ASSUME NEW j \in 1..(n - 1) PROVE ChainOf(g, j) \in Own(rule.id) /\ ChainOf(g, j).kind = "CH"
    BY DEF Numbered
  <2>2. j \in Nat
    OBVIOUS
  <2>3. ChainOf(g, j) \in Targets /\ ChainOf(g, j).kind = g.kind /\ ChainOf(g, j).id = g.id
    BY <1>1, <2>2, ChainIs
  <2> QED BY <1>1, <2>3 DEF Own
<1>9. Numbered(g, n) \cap Hooks = {}
  BY <1>1, <1>7, NumberedIs
<1>10. \A i \in 1..Len(m) : /\ m[i].table = t /\ m[i].chain \in {s} \cup Numbered(g, n)
                            /\ OwnLine(rule.id, m[i])
  <2>1. SUFFICES ASSUME NEW i \in 1..Len(m)
                 PROVE  /\ m[i].table = t /\ m[i].chain \in {s} \cup Numbered(g, n)
                        /\ OwnLine(rule.id, m[i])
    OBVIOUS
  <2> DEFINE l == m[i]
             k == r[i]
  <2>2. i \in 1..Len(r) /\ l.table = k.table /\ l.chain = k.chain /\ l.to = k.to
    BY <1>5 DEF Alike
  <2>3. LineOK(g, n, k)
    BY <1>3, <2>2
  <2>4. l \in Lines(C) /\ \A p : Clashing(l) => ~Hit(l, p)
    BY <1>5
  <2> HIDE DEF l, k
  <2>5. /\ l.table = t /\ l.chain \in {s} \cup Numbered(g, n)
        /\ l.to = Create => l.chain \in Numbered(g, n)
        /\ l.to # Create => Terminal(l.to) \/ Rank(l.to) < Rank(l.chain)
    BY <1>1, <2>2, <2>3 DEF LineOK
  <2>6. l.match \subseteq C
    BY <2>4 DEF Lines
  <2>7. Fit(l.chain, l.match)
    <3>1. \A q \in l.match : q.ports <= MultiportLimit
      BY <1>6, <2>6 DEF Fit
    <3>2. CASE l.chain = s
      BY <1>6, <2>6, <3>2 DEF Fit
    <3>3. CASE l.chain # s
      <4>1. l.chain # Name("PREROUTING", 0)
        BY <1>9, <2>5, <3>3, HookIs
      <4> QED BY <3>1, <4>1 DEF Fit
    <3> QED BY <3>2, <3>3
  <2>8. OwnLine(rule.id, l)
    BY <1>7, <1>8, <2>4, <2>5, <2>7 DEF OwnLine
  <2> QED BY <2>5, <2>8 DEF l
<1>11. OwnLines(t, rule.id, m)
  BY <1>10 DEF OwnLines
<1>12. ASSUME NEW K, s \in K, K \cap Numbered(g, n) = {}, Terminal(a) \/ a \in K
       PROVE  Placed(t, K, m) /\ Known(t, K, m) = K \cup Numbered(g, n)
  <2>1. Takes(g, n, a, K)
    BY <1>1, <1>12 DEF Takes
  <2>2. Placed(t, K, r) /\ Known(t, K, r) = K \cup Numbered(g, n)
    BY <1>1, <1>3, <2>1 DEF Loads
  <2> QED BY <1>3, <1>5, <2>2, PlacedAlike
<1>13. MainOK(rule, C, n, m)
  BY <1>5, <1>8, <1>10, <1>11, <1>12 DEF MainOK, g, t, s, a
<1> QED BY <1>2, <1>13 DEF g, r, m

\* The chains that count, for the table of the rule.
LEMMA CountingStands ==
    ASSUME NEW rule, RuleOK(rule), NEW C
    PROVE  LET q == Counting(rule)
               t == TableOf(rule.type)
           IN /\ q \in Seq(Lines(C)) /\ OwnLines(t, rule.id, q)
              /\ \A i \in 1..Len(q) : q[i].table = t => q[i].chain \in CountingChains(rule)
              /\ \A K : K \cap Own(rule.id) = {} =>
                   Placed(t, K, q) /\ Known(t, K, q) = K \cup CountingChains(rule)
              /\ CountingChains(rule) \subseteq {c \in Own(rule.id) : c.kind \in {"ACC", "LOGCHAIN"}}
<1> DEFINE q == Counting(rule)
           t == TableOf(rule.type)
           D == CountingChains(rule)
<1>1. /\ q \in Seq(Lines(C)) /\ OwnLines("filter", rule.id, q)
      /\ \A i \in 1..Len(q) : q[i].table = "filter" /\ q[i].chain \in D
      /\ \A K : K \cap Own(rule.id) = {} =>
           Placed("filter", K, q) /\ Known("filter", K, q) = K \cup D
  BY CountingIs
<1>2. D = (IF Logged(rule) THEN {LogChain(rule)} ELSE {}) \cup (IF Accounted(rule) THEN {AccChain(rule)} ELSE {})
  BY DEF CountingChains
<1>3. D \subseteq {c \in Own(rule.id) : c.kind \in {"ACC", "LOGCHAIN"}}
  BY <1>2, RuleChains
<1>4. (t = "filter" \/ t = "nat") /\ (rule.type \in FilterTypes <=> t = "filter")
  BY HookNames DEF RuleOK
<1>5. t = "nat" => D = {}
  BY <1>2, <1>4 DEF Logged, Accounted
<1> HIDE DEF q, t, D
<1>6. CASE t = "filter"
  BY <1>1, <1>3, <1>6 DEF q, t, D
<1>7. CASE t = "nat"
  <2>1. \A i \in 1..Len(q) : q[i].table # t
    BY <1>1, <1>7
  <2>2. OwnLines(t, rule.id, q) /\ \A K : Placed(t, K, q) /\ Known(t, K, q) = K
    <3>1. q \in Seq(Lines(C)) /\ \A i \in 1..Len(q) : q[i].table # t
      BY <1>1, <2>1
    <3> QED BY ONLY <3>1, ElsewhereOwn
  <2> QED BY <1>1, <1>3, <1>5, <1>7, <2>1, <2>2 DEF q, t, D
<1> QED BY <1>4, <1>6, <1>7

\* What is known is what was known and what has been created.
LEMMA KnownFrom ==
    ASSUME NEW t, NEW S, NEW s \in Seq(S), NEW K
    PROVE  Known(t, K, s) = K \cup Known(t, {}, s)
<1>1. \A c : c \in Known(t, K, s)
        <=> c \in K \/ \E i \in 1..Len(s) : s[i].table = t /\ s[i].to = Create /\ c = s[i].chain
  BY KnownIs
<1>2. \A c : c \in Known(t, {}, s)
        <=> c \in {} \/ \E i \in 1..Len(s) : s[i].table = t /\ s[i].to = Create /\ c = s[i].chain
  BY KnownIs
<1> QED BY <1>1, <1>2

\* The effects of the chains that a list creates.
EffectsOf(t, p, s, e) == Acts(e) /\ \A c \in Known(t, {}, s) : ~Terminal(c) => e[c] = Back(c, Flow(View(t, c, p, e), s))

\* What the commands s for a rule do with a packet: what the rule says.
Does(rule, s) ==
    \A p, e, x :
      /\ EffectsOf(TableOf(rule.type), p, s, e)
      /\ Translates(rule) => p["SVC"] \in Values["SVC"]
      /\ x /\ Accounted(rule) => OnceIn(rule, p)
      => Agrees(x, Flow(View(TableOf(rule.type), Name(Hook(rule.type), 0), p, e), s),
                If(Meant(rule, p), Means(rule)))

\* A rule that can be compiled, with conditions in C.
Compilable(rule, C) ==
    /\ RuleOK(rule) /\ ~Bad(rule) /\ Conds(rule) \subseteq C /\ MultiportLimit \in Nat
    /\ rule.special \in {"stateful", "crowdsec"} => CompileRulePositions(rule) = << >>

\* Whatever Main is, it has chains of its own.
LEMMA MainExists ==
    ASSUME NEW rule, NEW C, Compilable(rule, C), CondsOK(Hook(rule.type), C)
    PROVE  \E D : LET m == Main(rule)
                      t == TableOf(rule.type)
                      h == Name(Hook(rule.type), 0)
                  IN /\ m \in Seq(Lines(C)) /\ OwnLines(t, rule.id, m)
                     /\ \A i \in 1..Len(m) : m[i].table = t => m[i].chain \in {h} \cup D
                     /\ D \subseteq {c \in Own(rule.id) : c.kind = "CH"}
                     /\ \A K : h \in K /\ K \cap D = {} /\ (Terminal(Action(rule)) \/ Action(rule) \in K)
                               => Placed(t, K, m) /\ Known(t, K, m) = K \cup D
                     /\ rule.active /\ rule.here =>
                          \A p, e, x :
                            /\ Leading(rule, p, e)
                            /\ Translates(rule) => p["SVC"] \in Values["SVC"]
                            /\ x /\ Accounted(rule) => OnceIn(rule, p)
                            /\ \A c \in D : e[c] = Back(c, Flow(View(t, c, p, e), m))
                            => Agrees(x, Flow(View(t, h, p, e), m), If(Meant(rule, p), Means(rule)))
<1> DEFINE m == Main(rule)
           t == TableOf(rule.type)
           h == Name(Hook(rule.type), 0)
<1>1. CASE ~Scripted(rule)
  <2>1. Compiling(rule, C)
    BY <1>1 DEF Compiling, Compilable
  <2>2. PICK n \in 1..11 : /\ Generated(Matching(rule), C, n, Generate(Matching(rule)))
                           /\ MainOK(rule, C, n, m)
    BY <2>1, MainStands
  <2> DEFINE D == Numbered(Matching(rule), n)
             r == Generate(Matching(rule))
  <2>3. /\ m \in Seq(Lines(C)) /\ OwnLines(t, rule.id, m)
        /\ \A i \in 1..Len(m) : m[i].table = t /\ m[i].chain \in {h} \cup D
        /\ D \subseteq {c \in Own(rule.id) : c.kind = "CH"}
        /\ \A K : h \in K /\ K \cap D = {} /\ (Terminal(Action(rule)) \/ Action(rule) \in K)
                  => Placed(t, K, m) /\ Known(t, K, m) = K \cup D
    BY <2>2 DEF MainOK
  <2>4. Mains(rule, C, r, m)
    BY <2>1, <2>2, MainIs DEF Generated
  <2>5. ASSUME rule.active, rule.here, NEW p, NEW e, NEW x, Leading(rule, p, e),
               Translates(rule) => p["SVC"] \in Values["SVC"],
               x /\ Accounted(rule) => OnceIn(rule, p),
               \A c \in D : e[c] = Back(c, Flow(View(t, c, p, e), m))
        PROVE  Agrees(x, Flow(View(t, h, p, e), m), If(Meant(rule, p), Means(rule)))
    <3> HIDE DEF m, r
    <3>1. Generated(Matching(rule), C, n, r)
      BY <2>2 DEF r
    <3> QED BY <2>1, <2>4, <2>5, <3>1, MainLeads
  <2> HIDE DEF D, m, t, h
  <2>6. WITNESS D
  <2> QED BY <2>3, <2>5 DEF m, t, h
<1>2. CASE Scripted(rule)
  <2>1. m = << >>
    BY <1>2 DEF Main
  <2> DEFINE D == {}
  <2>2. m \in Seq(Lines(C)) /\ OwnLines(t, rule.id, m) /\ 1..Len(m) = {}
        /\ \A K : Placed(t, K, m) /\ Known(t, K, m) = K
    <3> HIDE DEF m
    <3>1. m \in Seq(Lines(C)) /\ 1..Len(m) = {}
      BY <2>1
    <3>2. m \in Seq(Lines(C)) /\ \A i \in 1..Len(m) : m[i].table # t
      BY <3>1
    <3>3. OwnLines(t, rule.id, m) /\ \A K : Placed(t, K, m) /\ Known(t, K, m) = K
      BY ONLY <3>2, ElsewhereOwn
    <3> QED BY <3>1, <3>3
  <2>3. ASSUME NEW p, NEW e, NEW x
        PROVE  Agrees(x, Flow(View(t, h, p, e), m), If(Meant(rule, p), Means(rule)))
    <3>1. ~Meant(rule, p)
      BY <1>2 DEF Meant
    <3>2. Flow(View(t, h, p, e), m) = Nothing
      BY <2>1, FlowEmpty
    <3>3. If(Meant(rule, p), Means(rule)) = Nothing
      BY <3>1 DEF If
    <3> QED BY <3>2, <3>3, AgreesIs
  <2> HIDE DEF m, t, h, D
  <2>6. D = {}
    BY DEF D
  <2>7. WITNESS D
  <2> QED BY <2>2, <2>3, <2>6 DEF m, t, h
<1> QED BY <1>1, <1>2

\* The commands of a rule are taken after those of other rules, and do what the
\* rule says.
LEMMA RuleBlock ==
    ASSUME NEW rule, NEW C, Compilable(rule, C), CondsOK(Hook(rule.type), C), rule.active, rule.here
    PROVE  /\ Block(TableOf(rule.type), C, rule.id, RuleCompile(rule))
           /\ Does(rule, RuleCompile(rule))
<1> DEFINE q == Counting(rule)
           m == Main(rule)
           k == AddMark(rule)
           b == RuleCompile(rule)
           t == TableOf(rule.type)
           h == Name(Hook(rule.type), 0)
           A == CountingChains(rule)
           O == Own(rule.id)
           a == Action(rule)
           W == If(TRUE, Means(rule))
<1>0. RuleOK(rule) /\ MultiportLimit \in Nat /\ Conds(rule) \subseteq C
  BY DEF Compilable
<1>1. /\ q \in Seq(Lines(C)) /\ OwnLines(t, rule.id, q)
      /\ \A i \in 1..Len(q) : q[i].table = t => q[i].chain \in A
      /\ \A K : K \cap O = {} => Placed(t, K, q) /\ Known(t, K, q) = K \cup A
      /\ A \subseteq {c \in O : c.kind \in {"ACC", "LOGCHAIN"}}
  BY <1>0, CountingStands
<1>2. PICK D : /\ m \in Seq(Lines(C)) /\ OwnLines(t, rule.id, m)
               /\ \A i \in 1..Len(m) : m[i].table = t => m[i].chain \in {h} \cup D
               /\ D \subseteq {c \in O : c.kind = "CH"}
               /\ \A K : h \in K /\ K \cap D = {} /\ (Terminal(a) \/ a \in K)
                         => Placed(t, K, m) /\ Known(t, K, m) = K \cup D
               /\ rule.active /\ rule.here =>
                    \A p, e, x :
                      /\ Leading(rule, p, e)
                      /\ Translates(rule) => p["SVC"] \in Values["SVC"]
                      /\ x /\ Accounted(rule) => OnceIn(rule, p)
                      /\ \A c \in D : e[c] = Back(c, Flow(View(t, c, p, e), m))
                      => Agrees(x, Flow(View(t, h, p, e), m), If(Meant(rule, p), Means(rule)))
  BY MainExists
<1>3. InTable("mangle", C, k)
  BY <1>0, MarksAre
<1>4. t \in {"filter", "nat"} /\ (rule.type \in FilterTypes <=> t = "filter")
      /\ Hook(rule.type) \in {"PREROUTING", "INPUT", "FORWARD", "OUTPUT", "POSTROUTING"}
  BY <1>0, HookNames DEF RuleOK
<1>5. k \in Seq(Lines(C)) /\ (\A i \in 1..Len(k) : k[i].table # t)
      /\ OwnLines(t, rule.id, k) /\ \A K : Placed(t, K, k) /\ Known(t, K, k) = K
  <2>1. k \in Seq(Lines(C)) /\ \A i \in 1..Len(k) : k[i].table # t
    BY <1>3, <1>4 DEF InTable
  <2> HIDE DEF k, t
  <2>2. OwnLines(t, rule.id, k) /\ \A K : Placed(t, K, k) /\ Known(t, K, k) = K
    BY ONLY <2>1, ElsewhereOwn
  <2> QED BY <2>1, <2>2
<1>6. b = (q \o m) \o k
  BY DEF RuleCompile, Counting
<1>7. h \in Hooks
  BY <1>4, HookIs
<1>8. O \cap Hooks = {} /\ \A c \in O : ~Terminal(c)
  BY OwnIs
<1>9. Terminal(a) \/ a \in A
  BY <1>0, ActionKind
<1>10. A = (IF Logged(rule) THEN {LogChain(rule)} ELSE {}) \cup (IF Accounted(rule) THEN {AccChain(rule)} ELSE {})
  BY DEF CountingChains
<1>11. (Logged(rule) => t = "filter") /\ (Accounted(rule) => t = "filter")
  BY <1>4 DEF Logged, Accounted
<1>12. rule.active /\ rule.here
  OBVIOUS
<1> DEFINE qm == q \o m
<1> HIDE DEF q, m, k, b, t, h, A, O, a
<1>13. qm \in Seq(Lines(C)) /\ OwnLines(t, rule.id, qm)
  BY <1>1, <1>2, OwnLinesConcat
<1>14. b \in Seq(Lines(C)) /\ OwnLines(t, rule.id, b)
  BY <1>5, <1>6, <1>13, OwnLinesConcat
<1>15. ASSUME NEW K, Hooks \subseteq K, K \cap O = {}
       PROVE  Placed(t, K, b) /\ Known(t, K, b) = (K \cup A) \cup D
  <2> DEFINE J == K \cup A
  <2>1. Placed(t, K, q) /\ Known(t, K, q) = J
    BY <1>1, <1>15
  <2>2. h \in J /\ J \cap D = {} /\ (Terminal(a) \/ a \in J)
    BY <1>1, <1>2, <1>7, <1>9, <1>15
  <2> HIDE DEF J
  <2>3. Placed(t, J, m) /\ Known(t, J, m) = J \cup D
    BY <1>2, <2>2
  <2>4. Placed(t, K, qm) /\ Known(t, K, qm) = J \cup D
    BY <1>1, <1>2, <2>1, <2>3, PlacedConcat, KnownConcat
  <2>5. Placed(t, J \cup D, k) /\ Known(t, J \cup D, k) = J \cup D
    BY <1>5
  <2> HIDE DEF qm
  <2>6. Placed(t, K, b) /\ Known(t, K, b) = J \cup D
    <3>1. qm \in Seq(Lines(C)) /\ k \in Seq(Lines(C)) /\ b = qm \o k
      BY <1>5, <1>6, <1>13 DEF qm
    <3>2. Placed(t, K, qm \o k)
      BY <2>4, <2>5, <3>1, PlacedConcat
    <3>3. Known(t, K, qm \o k) = Known(t, Known(t, K, qm), k)
      BY ONLY <3>1, KnownConcat
    <3> QED BY <2>4, <2>5, <3>1, <3>2, <3>3
  <2> QED BY <2>6 DEF J
<1>16. Block(t, C, rule.id, b)
  BY <1>14, <1>15 DEF Block, O
<1>17. A \cup D \subseteq Known(t, {}, b)
  <2>1. Known(t, Hooks, b) = (Hooks \cup A) \cup D
    BY <1>8, <1>15
  <2>2. Known(t, Hooks, b) = Hooks \cup Known(t, {}, b)
    BY <1>14, KnownFrom
  <2>3. (A \cup D) \cap Hooks = {}
    BY <1>1, <1>2, <1>8
  <2> QED BY <2>1, <2>2, <2>3
<1>18. ASSUME NEW p, NEW e \in [Targets -> Results], NEW c
       PROVE  /\ c \in A => Flow(View(t, c, p, e), b) = Flow(View(t, c, p, e), q)
              /\ c \in {h} \cup D => Flow(View(t, c, p, e), b) = Flow(View(t, c, p, e), m)
  <2>1. Flow(View(t, c, p, e), b) = Flow(View(t, c, p, e), qm)
    <3>1. \A i \in 1..Len(k) : k[i].table = t => k[i].chain # c
      BY <1>5
    <3> HIDE DEF qm
    <3>2. qm \in Seq(Lines(C)) /\ k \in Seq(Lines(C)) /\ b = qm \o k
      BY <1>5, <1>6, <1>13 DEF qm
    <3>3. e \in [Targets -> Results]
      OBVIOUS
    <3>4. Flow(View(t, c, p, e), qm \o k) = Flow(View(t, c, p, e), qm)
      BY ONLY <3>1, <3>2, <3>3, FlowOneOf
    <3> QED BY <3>2, <3>4
  <2>2. ASSUME c \in A PROVE Flow(View(t, c, p, e), qm) = Flow(View(t, c, p, e), q)
    <3>1. c \notin {h} \cup D
      BY <1>1, <1>2, <1>7, <1>8, <2>2
    <3>2. \A i \in 1..Len(m) : m[i].table = t => m[i].chain # c
      BY <1>2, <3>1
    <3> QED BY <1>1, <1>2, <3>2, FlowOneOf
  <2>3. ASSUME c \in {h} \cup D PROVE Flow(View(t, c, p, e), qm) = Flow(View(t, c, p, e), m)
    <3>1. c \notin A
      BY <1>1, <1>2, <1>7, <1>8, <2>3
    <3>2. \A i \in 1..Len(q) : q[i].table = t => q[i].chain # c
      BY <1>1, <3>1
    <3> QED BY <1>1, <1>2, <3>2, FlowOneOf
  <2> QED BY <2>1, <2>2, <2>3
<1> HIDE DEF qm
<1>19. ASSUME NEW p, NEW e, NEW x, EffectsOf(t, p, b, e),
              Translates(rule) => p["SVC"] \in Values["SVC"],
              x /\ Accounted(rule) => OnceIn(rule, p)
       PROVE  Agrees(x, Flow(View(t, h, p, e), b), If(Meant(rule, p), Means(rule)))
  <2>1. Acts(e) /\ e \in [Targets -> Results]
        /\ \A c \in Known(t, {}, b) : ~Terminal(c) => e[c] = Back(c, Flow(View(t, c, p, e), b))
    BY <1>19 DEF EffectsOf, Acts
  <2>2. \A c \in A \cup D : e[c] = Back(c, Flow(View(t, c, p, e), b))
    BY <1>1, <1>2, <1>8, <1>17, <2>1
  <2>3. \A c \in A : e[c] = Back(c, Flow(View(t, c, p, e), q))
    BY <1>18, <2>1, <2>2
  <2>4. \A c \in D : e[c] = Back(c, Flow(View(t, c, p, e), m))
    BY <1>18, <2>1, <2>2
  <2>5. Leading(rule, p, e)
    <3>1. ASSUME Logged(rule) PROVE e[LogChain(rule)] =
             Back(LogChain(rule), Flow(View("filter", LogChain(rule), p, e), q))
      <4>1. LogChain(rule) \in A /\ t = "filter"
        BY <1>10, <1>11, <3>1
      <4> QED BY <2>3, <4>1
    <3>2. ASSUME Accounted(rule) PROVE e[AccChain(rule)] =
             Back(AccChain(rule), Flow(View("filter", AccChain(rule), p, e), q))
      <4>1. AccChain(rule) \in A /\ t = "filter"
        BY <1>10, <1>11, <3>2
      <4> QED BY <2>3, <4>1
    <3> QED BY <2>1, <3>1, <3>2 DEF Leading, q
  <2>6. Agrees(x, Flow(View(t, h, p, e), m), If(Meant(rule, p), Means(rule)))
    BY <1>2, <1>12, <1>19, <2>4, <2>5
  <2>7. Flow(View(t, h, p, e), b) = Flow(View(t, h, p, e), m)
    BY <1>18, <2>1
  <2> QED BY <2>6, <2>7
<1>20. Does(rule, b)
  BY <1>19 DEF Does, t, h
<1> QED BY <1>16, <1>20 DEF t, b

(***************************************************************************)
(* A script: the commands of one rule after those of another.              *)
(***************************************************************************)
\* Commands for the rules I, that the firewall takes.
Stands(t, C, I, s) ==
    /\ s \in Seq(Lines(C)) /\ Placed(t, Hooks, s)
    /\ \A k \in 1..Len(s) : s[k].table = t => \E i \in I : OwnLine(i, s[k])

\* A script has created the chains of its rules only.
LEMMA StandsKnown ==
    ASSUME NEW t, NEW C, NEW I, NEW s, Stands(t, C, I, s)
    PROVE  \A c \in Known(t, {}, s) : \E i \in I : c \in Own(i)
<1>1. s \in Seq(Lines(C)) /\ \A k \in 1..Len(s) : s[k].table = t => \E i \in I : OwnLine(i, s[k])
  BY DEF Stands
<1>2. \A c : c \in Known(t, {}, s)
        <=> c \in {} \/ \E i \in 1..Len(s) : s[i].table = t /\ s[i].to = Create /\ c = s[i].chain
  BY <1>1, KnownIs
<1> QED BY <1>1, <1>2 DEF OwnLine

\* The script of some rules takes the block of another.
LEMMA StandsConcat ==
    ASSUME NEW t, NEW C, NEW I, NEW s, Stands(t, C, I, s), NEW id, id \notin I,
           NEW b, Block(t, C, id, b)
    PROVE  /\ Stands(t, C, I \cup {id}, s \o b)
           /\ \A p, e : EffectsOf(t, p, s \o b, e) => EffectsOf(t, p, s, e) /\ EffectsOf(t, p, b, e)
<1> DEFINE r == s \o b
<1>1. /\ s \in Seq(Lines(C)) /\ Placed(t, Hooks, s)
      /\ \A k \in 1..Len(s) : s[k].table = t => \E i \in I : OwnLine(i, s[k])
  BY DEF Stands
<1>2. /\ b \in Seq(Lines(C)) /\ \A k \in 1..Len(b) : b[k].table = t => OwnLine(id, b[k])
      /\ \A K : Hooks \subseteq K /\ K \cap Own(id) = {} => Placed(t, K, b)
  BY DEF Block, OwnLines
<1>3. \A c \in Known(t, {}, s) : \E i \in I : c \in Own(i)
  BY StandsKnown
<1>4. \A c \in Known(t, {}, b) : c \in Own(id)
  <2>1. OwnLines(t, id, b)
    BY DEF Block
  <2> QED BY <1>2, <2>1, KnownOwn
<1>5. \A i, j : i # j => Own(i) \cap Own(j) = {}
  BY DEF Own
<1>6. \A i : Own(i) \cap Hooks = {}
  BY OwnIs
<1>7. /\ r \in Seq(Lines(C)) /\ Len(r) = Len(s) + Len(b)
      /\ \A k \in 1..Len(r) : (k \in 1..Len(s) /\ r[k] = s[k])
            \/ (k - Len(s) \in 1..Len(b) /\ r[k] = b[k - Len(s)])
  BY <1>1, <1>2, ConcatSeq
<1>8. Placed(t, Hooks, r)
  <2> DEFINE J == Known(t, Hooks, s)
  <2>1. J = Hooks \cup Known(t, {}, s)
    BY <1>1, KnownFrom
  <2>2. J \cap Own(id) = {}
    BY <1>3, <1>5, <1>6, <2>1
  <2>3. Placed(t, J, b)
    BY <1>2, <2>1, <2>2
  <2> HIDE DEF r
  <2> QED BY <1>1, <1>2, <2>3, PlacedConcat DEF r
<1>9. Stands(t, C, I \cup {id}, r)
  <2> HIDE DEF r
  <2>1. \A k \in 1..Len(r) : r[k].table = t => \E i \in I \cup {id} : OwnLine(i, r[k])
    BY <1>1, <1>2, <1>7
  <2> QED BY <1>7, <1>8, <2>1 DEF Stands
<1>10. \A c : c \in Known(t, {}, r) <=> c \in Known(t, {}, s) \/ c \in Known(t, {}, b)
  <2>1. Known(t, {}, r) = Known(t, Known(t, {}, s), b)
    BY <1>1, <1>2, KnownConcat
  <2>2. Known(t, Known(t, {}, s), b) = Known(t, {}, s) \cup Known(t, {}, b)
    BY <1>2, KnownFrom
  <2> QED BY <2>1, <2>2
<1>11. ASSUME NEW p, NEW e, EffectsOf(t, p, r, e)
       PROVE  EffectsOf(t, p, s, e) /\ EffectsOf(t, p, b, e)
  <2>1. Acts(e) /\ e \in [Targets -> Results]
        /\ \A c \in Known(t, {}, r) : ~Terminal(c) => e[c] = Back(c, Flow(View(t, c, p, e), r))
    BY <1>11 DEF EffectsOf, Acts
  <2>2. ASSUME NEW c \in Known(t, {}, s) PROVE Flow(View(t, c, p, e), r) = Flow(View(t, c, p, e), s)
    <3>1. c \notin Own(id) /\ c \notin Hooks
      BY <1>3, <1>5, <1>6
    <3>2. \A k \in 1..Len(b) : b[k].table = t => b[k].chain # c
      BY <1>2, <3>1 DEF OwnLine
    <3> QED BY <1>1, <1>2, <2>1, <3>2, FlowOneOf
  <2>3. ASSUME NEW c \in Known(t, {}, b) PROVE Flow(View(t, c, p, e), r) = Flow(View(t, c, p, e), b)
    <3>1. c \in Own(id) /\ c \notin Hooks
      BY <1>4, <1>6
    <3>2. \A k \in 1..Len(s) : s[k].table = t => s[k].chain # c
      BY <1>1, <1>5, <3>1 DEF OwnLine
    <3> QED BY <1>1, <1>2, <2>1, <3>2, FlowOneOf
  <2> HIDE DEF r
  <2> QED BY <1>10, <2>1, <2>2, <2>3 DEF EffectsOf
<1> QED BY <1>9, <1>11

\* The empty script stands.
LEMMA StandsEmpty ==
    ASSUME NEW t, NEW C, NEW I
    PROVE  Stands(t, C, I, << >>)
<1> DEFINE s == << >>
<1>1. s \in Seq(Lines(C)) /\ 1..Len(s) = {}
  OBVIOUS
<1> HIDE DEF s
<1>2. Placed(t, Hooks, s)
  BY <1>1 DEF Placed
<1>3. Stands(t, C, I, s)
  BY <1>1, <1>2 DEF Stands
<1> QED BY <1>3 DEF s

\* A script for some rules is one for more.
LEMMA StandsGrow ==
    ASSUME NEW t, NEW C, NEW I, NEW J, NEW s, Stands(t, C, I, s), I \subseteq J
    PROVE  Stands(t, C, J, s)
BY DEF Stands

\* The firewall reads every command, or iptables takes them one by one.
Loadable(s) ==
    (\A k \in 1..Len(s) : ~Refused(s[k])) \/ (compiler = "IPTables" /\ ~optimized)

\* What stands is taken, and a packet finds its way through it.
LEMMA StandsWalk ==
    ASSUME NEW t \in Tables, NEW C, NEW I, NEW s, Stands(t, C, I, s), Loadable(s), NEW p
    PROVE  \E e : /\ EffectsOf(t, p, s, e)
                  /\ \A h \in {"PREROUTING", "INPUT", "FORWARD", "OUTPUT", "POSTROUTING"} :
                       Walk(Loaded(s), t, h, p) = Flow(View(t, Name(h, 0), p, e), s)
<1> DEFINE S == ToSet(s)
<1>1. /\ s \in Seq(Lines(C)) /\ Placed(t, Hooks, s)
      /\ \A k \in 1..Len(s) : s[k].table = t => \E i \in I : OwnLine(i, s[k])
  BY DEF Stands
<1>2. S \in SUBSET Lines(C) /\ s \in Seq(S) /\ \A l \in S : \E k \in 1..Len(s) : l = s[k]
  <2>1. ToSet(s) \subseteq Lines(C) /\ s \in Seq(ToSet(s)) /\ ToSet(s) = {s[i] : i \in 1..Len(s)}
    BY <1>1, ToSetIs
  <2> QED BY <2>1
<1>3. \A l \in S : l.table = t => \E i \in I : OwnLine(i, l)
  BY <1>1, <1>2
<1> HIDE DEF S
<1>4. Sound(t, Hooks, s)
  <2>1. \A k \in 1..Len(s) : s[k].table = t /\ s[k].to # Create => Fit(s[k].chain, s[k].match)
    BY <1>1 DEF OwnLine
  <2> QED BY <1>1, <2>1, SoundPlaced
<1>5. Harmless(t, S, p)
  <2> SUFFICES ASSUME NEW l \in S, l.table = t, Refused(l) PROVE ~optimized /\ ~Hit(l, p)
    BY DEF Harmless
  <2>1. compiler = "IPTables" /\ ~optimized
    BY <1>2 DEF Loadable
  <2>2. Clashing(l)
    BY <2>1 DEF Refused, Clashing
  <2>3. ~Hit(l, p)
    BY <1>3, <2>2 DEF OwnLine
  <2> QED BY <2>1, <2>3
<1>6. Ranked(t, S)
  BY <1>3 DEF Ranked, OwnLine
<1>7. PICK e : Walked(t, p, s, e)
  <2>1. t \in Tables /\ S \in SUBSET Lines(C) /\ s \in Seq(S) /\ Sound(t, Hooks, s)
        /\ Harmless(t, S, p) /\ Ranked(t, S)
    BY <1>2, <1>4, <1>5, <1>6
  <2> QED BY ONLY <2>1, WalkIs
<1>8. Known(t, {}, s) \subseteq Known(t, Hooks, s)
  BY <1>1, KnownFrom
<1>9. EffectsOf(t, p, s, e)
  BY <1>7, <1>8 DEF Walked, Effects, EffectsOf, Acts
<1> QED BY <1>7, <1>9 DEF Walked

(***************************************************************************)
(* The script of a policy.                                                 *)
(***************************************************************************)
SeeFolds == INSTANCE FoldLaws WITH Op <- See

\* What the first i rules say of a packet.
Promised(p, i) == SeeFolds!Folded(p, Nothing, SubSeq(policy, 1, i))

\* What the policy promises is what its first rules do, all taken.
LEMMA PromiseIs ==
    ASSUME policy \in Seq(ToSet(policy)), NEW p
    PROVE  Promise(p) = Promised(p, Len(policy))
<1>1. Promise(p) = SeeFolds!Folded(p, Nothing, policy)
  BY DEF Promise, SeeFolds!Folded, FoldLeft, MapThenFoldSet,
 SeeFolds!Largest, Max
<1>2. SubSeq(policy, 1, Len(policy)) = policy
  OBVIOUS
<1> QED BY <1>1, <1>2 DEF Promised

\* What the first rules promise, rule by rule.
LEMMA PromisedNext ==
    ASSUME policy \in Seq(ToSet(policy)), NEW p
    PROVE  /\ Promised(p, 0) = Nothing
           /\ \A i \in 1..Len(policy) : Promised(p, i) = See(p, Promised(p, i - 1), policy[i])
<1>1. Promised(p, 0) = Nothing
  <2>1. SubSeq(policy, 1, 0) = << >>
    OBVIOUS
  <2> QED BY <2>1, NatWellOrdered, SeeFolds!FoldEmpty DEF SeeFolds!WellOrdered, Promised
<1>2. ASSUME NEW i \in 1..Len(policy) PROVE Promised(p, i) = See(p, Promised(p, i - 1), policy[i])
  <2> DEFINE s == SubSeq(policy, 1, i - 1)
             r == policy[i]
  <2>1. s \in Seq(ToSet(policy)) /\ SubSeq(policy, 1, i) = Append(s, r)
    OBVIOUS
  <2> HIDE DEF s, r
  <2>0. SeeFolds!WellOrdered
    BY NatWellOrdered DEF SeeFolds!WellOrdered
  <2>2. SeeFolds!Folded(p, Nothing, Append(s, r)) = See(p, SeeFolds!Folded(p, Nothing, s), r)
    BY <2>0, <2>1, SeeFolds!FoldAppend
  <2>3. Promised(p, i) = See(p, SeeFolds!Folded(p, Nothing, s), r)
    BY <2>1, <2>2 DEF Promised
  <2> QED BY <2>3 DEF Promised, s, r
<1> QED BY <1>1, <1>2

\* What a rule says is a result.
LEMMA MeansType ==
    ASSUME NEW rule, RuleOK(rule)
    PROVE  Means(rule) \in Results
<1> DEFINE b == AccChain(rule)
           o == Name("LIMITLOG", rule.id)
           d == BaseAction(rule)
           on == Logged(rule)
           of == Accounted(rule)
           u == IF of THEN <<b>> ELSE << >>
           v == IF on THEN <<o>> ELSE << >>
<1>1. b \in Targets /\ o \in Targets /\ d \in Targets /\ None \in Targets
  BY RuleChains, BaseActionIs, NoneType
<1>2. Means(rule) = [end |-> IF of THEN None ELSE d, trail |-> u \o v]
  BY DEF Means
<1> HIDE DEF b, o, d, on, of
<1>3. u \in Seq(Targets) /\ v \in Seq(Targets)
  BY <1>1
<1> HIDE DEF u, v
<1>4. u \o v \in Seq(Targets) /\ (IF of THEN None ELSE d) \in Targets
  BY <1>1, <1>3
<1> QED BY <1>2, <1>4 DEF Results

\* The conditions of all the rules.
AllConds == UNION {Conds(policy[i]) : i \in 1..Len(policy)}
\* A policy whose promise is kept.
GoodPolicy == PolicyOK(policy) /\ MultiportLimit \in Nat /\ SpecialsAlone

\* The rules of a policy.
LEMMA PolicyRules ==
    ASSUME PolicyOK(policy)
    PROVE  /\ policy \in Seq(ToSet(policy)) /\ Len(policy) \in Nat /\ 1 \in 1..Len(policy)
           /\ \A i \in 1..Len(policy) : /\ RuleOK(policy[i]) /\ policy[i].type = policy[1].type
                                        /\ policy[i] \in ToSet(policy)
           /\ \A i, j \in 1..Len(policy) : policy[i].id = policy[j].id => i = j
           /\ \A r \in ToSet(policy) : \E i \in 1..Len(policy) : r = policy[i]
<1>1. /\ policy \in Seq(ToSet(policy)) /\ policy # << >>
      /\ \A i \in DOMAIN policy : RuleOK(policy[i]) /\ policy[i].type = policy[1].type
      /\ \A i, j \in DOMAIN policy : policy[i].id = policy[j].id => i = j
  BY DEF PolicyOK
<1>2. DOMAIN policy = 1..Len(policy) /\ Len(policy) \in Nat /\ 1 \in 1..Len(policy)
  BY <1>1
<1>3. ToSet(policy) = {policy[i] : i \in 1..Len(policy)}
  BY <1>1, ToSetIs
<1> QED BY <1>1, <1>2, <1>3

\* All conditions of a policy.
LEMMA AllCondsOK ==
    ASSUME PolicyOK(policy), MultiportLimit \in Nat
    PROVE  /\ CondsOK(Hook(policy[1].type), AllConds)
           /\ \A i \in 1..Len(policy) : Conds(policy[i]) \subseteq AllConds
<1> DEFINE n == Len(policy)
           type == policy[1].type
<1>1. /\ 1 \in 1..n /\ \A i \in 1..n : RuleOK(policy[i]) /\ policy[i].type = type
  BY PolicyRules
<1> HIDE DEF n, type
<1>2. \A m \in AllConds : \E i \in 1..n : m \in Conds(policy[i])
  BY DEF AllConds, n
<1>3. \A m \in AllConds : Pure(m) /\ m.dim \in ToSet(Positions(type)) \cup {"PROTO", "CT", "SRC"}
  <2>1. ASSUME NEW i \in 1..n, NEW m \in Conds(policy[i])
        PROVE  Pure(m) /\ m.dim \in ToSet(Positions(type)) \cup {"PROTO", "CT", "SRC"}
    <3> DEFINE r == policy[i]
    <3>1. RuleOK(r) /\ r.type = type /\ MultiportLimit \in Nat /\ m \in Conds(r)
      BY <1>1
    <3> HIDE DEF r
    <3>2. Pure(m) /\ m.dim \in ToSet(Positions(r.type)) \cup {"PROTO", "CT", "SRC"}
      BY ONLY <3>1, CondsPure
    <3> QED BY <3>1, <3>2
  <2> QED BY <1>2, <2>1
<1>4. type \in FilterTypes \cup NatTypes
  BY <1>1 DEF RuleOK
<1>5. Hook(type) = "PREROUTING" => "OUT" \notin ToSet(Positions(type))
  <2>1. SUFFICES ASSUME Hook(type) = "PREROUTING" PROVE "OUT" \notin ToSet(Positions(type))
    OBVIOUS
  <2>2. type = "DNAT"
    BY <1>4, <2>1, HookNames
  <2>3. type # "FORWARD" => {"IN", "OUT"} \cap ToSet(Positions(type))
                = IF type \in {"INPUT", "DNAT"} THEN {"IN"} ELSE {"OUT"}
    BY <1>4, PositionsAre
  <2>4. {"IN", "OUT"} \cap ToSet(Positions(type)) = {"IN"}
    BY <2>2, <2>3
  <2> QED BY <2>4
<1>6. Hook(type) = "PREROUTING" => \A m \in AllConds : m.dim # "OUT"
  BY <1>3, <1>5
<1>7. CondsOK(Hook(type), AllConds)
  BY <1>3, <1>6, PureConds
<1>8. \A i \in 1..n : Conds(policy[i]) \subseteq AllConds
  BY DEF AllConds, n
<1> QED BY <1>7, <1>8 DEF n, type

\* Its rules can be compiled.
LEMMA PolicyCompilable ==
    ASSUME GoodPolicy, NEW i \in 1..Len(policy), ~Bad(policy[i])
    PROVE  Compilable(policy[i], AllConds)
<1>1. /\ RuleOK(policy[i]) /\ policy[i] \in ToSet(policy)
  BY PolicyRules DEF GoodPolicy
<1>2. Conds(policy[i]) \subseteq AllConds
  BY AllCondsOK DEF GoodPolicy
<1> QED BY <1>1, <1>2 DEF Compilable, GoodPolicy, SpecialsAlone

\* A packet that has what the policy looks at.
Sees(p) == (\E i \in 1..Len(policy) : Translates(policy[i])) => p["SVC"] \in Values["SVC"]

\* The script of the first i rules does what they say.
Written(i, s) ==
    LET t == TableOf(policy[1].type)
        h == Name(Hook(policy[1].type), 0)
    IN /\ Stands(t, AllConds, {policy[j].id : j \in 1..i}, s)
       /\ \A p : Promised(p, i) \in Results
       /\ \A p, e, x :
            /\ EffectsOf(t, p, s, e) /\ Sees(p)
            /\ x => \A j \in 1..i : Accounted(policy[j]) => OnceIn(policy[j], p)
            => Agrees(x, Flow(View(t, h, p, e), s), Promised(p, i))

\* The script of no rule.
LEMMA WrittenEmpty ==
    ASSUME GoodPolicy
    PROVE  Written(0, << >>)
<1> DEFINE t == TableOf(policy[1].type)
           h == Name(Hook(policy[1].type), 0)
<1>1. \A p : Promised(p, 0) = Nothing
  BY PolicyRules, PromisedNext DEF GoodPolicy
<1>2. \A g : Flow(g, << >>) = Nothing
  BY FlowEmpty
<1>3. Stands(t, AllConds, {policy[j].id : j \in 1..0}, << >>)
  BY StandsEmpty
<1>4. \A x : Agrees(x, Nothing, Nothing)
  BY AgreesIs
<1> QED BY <1>1, <1>2, <1>3, <1>4, NoneType DEF Written

\* A rule that is meant does what it says after the others.
LEMMA SeeIs ==
    ASSUME NEW p, NEW res \in Results, NEW rule
    PROVE  See(p, res, rule) = Then(res, If(Meant(rule, p), Means(rule)))
<1>1. CASE Meant(rule, p)
  BY <1>1 DEF See, If
<1>2. CASE ~Meant(rule, p)
  <2>1. See(p, res, rule) = res /\ If(Meant(rule, p), Means(rule)) = Nothing
    BY <1>2 DEF See, If
  <2> QED BY <2>1, ThenNothing
<1> QED BY <1>1, <1>2

\* What a rule adds to the script.
Commands(r) == IF r.active /\ r.here THEN RuleCompile(r) ELSE << >>

\* CompileRule: the script of one rule more does what they say.
LEMMA WrittenNext ==
    ASSUME GoodPolicy, NEW i \in 1..Len(policy), NEW s, Written(i - 1, s),
           Compiled(policy[i]) => ~Bad(policy[i])
    PROVE  Written(i, s \o Commands(policy[i]))
<1> DEFINE t == TableOf(policy[1].type)
           h == Name(Hook(policy[1].type), 0)
           r == policy[i]
           I(n) == {policy[j].id : j \in 1..n}
           b == Commands(r)
           C == AllConds
<1>1. /\ policy \in Seq(ToSet(policy)) /\ Len(policy) \in Nat
      /\ RuleOK(r) /\ r.type = policy[1].type
      /\ \A k, j \in 1..Len(policy) : policy[k].id = policy[j].id => k = j
  BY PolicyRules DEF GoodPolicy
<1>2. I(i) = I(i - 1) \cup {r.id} /\ r.id \notin I(i - 1) /\ i - 1 \in 0..Len(policy)
  <2>1. 1..i = (1..(i - 1)) \cup {i}
    OBVIOUS
  <2>2. I(i) = I(i - 1) \cup {r.id}
    BY <2>1
  <2>3. \A j \in 1..(i - 1) : j \in 1..Len(policy) /\ j # i
    BY <1>1
  <2> QED BY <1>1, <2>2, <2>3
<1>3. /\ Stands(t, C, I(i - 1), s)
      /\ \A p : Promised(p, i - 1) \in Results
      /\ \A p, e, x :
           /\ EffectsOf(t, p, s, e) /\ Sees(p)
           /\ x => \A j \in 1..(i - 1) : Accounted(policy[j]) => OnceIn(policy[j], p)
           => Agrees(x, Flow(View(t, h, p, e), s), Promised(p, i - 1))
  BY DEF Written
<1>4. \A p : Promised(p, i) = See(p, Promised(p, i - 1), r)
  BY <1>1, PromisedNext
<1>5. \A p : Promised(p, i) = Then(Promised(p, i - 1), If(Meant(r, p), Means(r)))
  BY <1>3, <1>4, SeeIs
<1>6. \A p : Promised(p, i) \in Results
  <2>1. \A p : If(Meant(r, p), Means(r)) \in Results
    BY <1>1, MeansType, IfType
  <2> QED BY <1>3, <1>5, <2>1, ThenType
<1>7. CASE r.active /\ r.here
  <2>1. Compilable(r, C) /\ CondsOK(Hook(r.type), C)
    <3>1. ~Bad(r)
      BY <1>7 DEF Compiled
    <3> QED BY <1>1, <3>1, PolicyCompilable, AllCondsOK DEF GoodPolicy
  <2>2. b = RuleCompile(r)
    BY <1>7 DEF Commands
  <2>3. Block(t, C, r.id, b) /\ Does(r, b)
    <3>1. r.active /\ r.here
      BY <1>7
    <3> DEFINE y == r
    <3> HIDE DEF r
    <3>2. Block(TableOf(r.type), C, r.id, RuleCompile(r)) /\ Does(r, RuleCompile(r))
      BY ONLY <2>1, <3>1, RuleBlock
    <3> QED BY <1>1, <2>2, <3>2
  <2> HIDE DEF b, r, I, C
  <2>4. /\ Stands(t, C, I(i), s \o b)
        /\ \A p, e : EffectsOf(t, p, s \o b, e) => EffectsOf(t, p, s, e) /\ EffectsOf(t, p, b, e)
    <3>1. Stands(t, C, I(i - 1), s) /\ r.id \notin I(i - 1) /\ Block(t, C, r.id, b)
      BY <1>2, <1>3, <2>3
    <3> DEFINE J == I(i - 1)
               K == J \cup {r.id}
    <3> HIDE DEF J, K
    <3>2. Stands(t, C, J, s) /\ r.id \notin J
      BY <3>1 DEF J
    <3>3. /\ Stands(t, C, J \cup {r.id}, s \o b)
          /\ \A p, e : EffectsOf(t, p, s \o b, e) => EffectsOf(t, p, s, e) /\ EffectsOf(t, p, b, e)
      BY <3>1, <3>2, StandsConcat
    <3> QED BY <1>2, <3>3 DEF J
  <2>5. ASSUME NEW p, NEW e, NEW x, EffectsOf(t, p, s \o b, e), Sees(p),
               x => \A j \in 1..i : Accounted(policy[j]) => OnceIn(policy[j], p)
        PROVE  Agrees(x, Flow(View(t, h, p, e), s \o b), Promised(p, i))
    <3> DEFINE f == Flow(View(t, h, p, e), s)
               k == Flow(View(t, h, p, e), b)
               c == Promised(p, i - 1)
               d == If(Meant(r, p), Means(r))
    <3>1. EffectsOf(t, p, s, e) /\ EffectsOf(t, p, b, e)
      BY <2>4, <2>5
    <3>2. e \in [Targets -> Results]
      BY <3>1 DEF EffectsOf, Acts
    <3>3. s \in Seq(Lines(C)) /\ b \in Seq(Lines(C))
      BY <1>3, <2>3 DEF Stands, Block
    <3>4. f \in Results /\ k \in Results /\ Flow(View(t, h, p, e), s \o b) = Then(f, k)
      BY <3>2, <3>3, FlowView
    <3>5. \A j \in 1..(i - 1) : j \in 1..i
      OBVIOUS
    <3>6. Agrees(x, f, c)
      BY <1>3, <2>5, <3>1, <3>5
    <3>7. x /\ Accounted(r) => OnceIn(r, p)
      <4>1. i \in 1..i
        OBVIOUS
      <4> QED BY <2>5, <4>1 DEF r
    <3>8. Translates(r) => p["SVC"] \in Values["SVC"]
      BY <2>5 DEF Sees, r
    <3>9. Agrees(x, k, d)
      BY <1>1, <2>3, <3>1, <3>7, <3>8 DEF Does
    <3>10. c \in Results /\ d \in Results /\ Promised(p, i) = Then(c, d)
      BY <1>1, <1>3, <1>5, MeansType, IfType
    <3> HIDE DEF f, k, c, d
    <3>11. Agrees(x, Then(f, k), Then(c, d))
      BY <3>4, <3>6, <3>9, <3>10, AgreesThen
    <3> QED BY <3>4, <3>10, <3>11
  <2> QED BY <1>6, <2>4, <2>5 DEF Written, b, r, I, C
<1>8. CASE ~(r.active /\ r.here)
  <2>1. b = << >> /\ s \o << >> = s
    <3>1. s \in Seq(Lines(C))
      BY <1>3 DEF Stands
    <3>2. b = << >>
      BY <1>8 DEF Commands
    <3> QED BY <3>1, <3>2
  <2>2. \A p : Promised(p, i) = Promised(p, i - 1)
    <3>1. \A p : ~Meant(r, p)
      BY <1>8 DEF Meant
    <3> QED BY <1>4, <3>1 DEF See
  <2>3. Stands(t, C, I(i), s)
    BY <1>2, <1>3, StandsGrow
  <2>4. \A j \in 1..(i - 1) : j \in 1..i
    OBVIOUS
  <2>5. s \o b = s
    BY <2>1
  <2>6. Written(i, s)
    BY <1>3, <1>6, <2>2, <2>3, <2>4 DEF Written
  <2> QED BY <2>5, <2>6
<1> QED BY <1>7, <1>8

(***************************************************************************)
(* The steps of the compiler.                                              *)
(***************************************************************************)
\* What is said of a script stays true of it: the policy and the compiler do
\* not change.
SamePolicy == UNCHANGED <<compiler, optimized, family, policy>>

\* What depends on the options and the policy stays as they do: a command,
LEMMA OwnLineStays ==
    ASSUME SamePolicy, NEW CONSTANT i, NEW CONSTANT l
    PROVE  OwnLine(i, l)' <=> OwnLine(i, l)
<1>1. compiler' = compiler
  BY DEF SamePolicy
<1>2. Clashing(l)' <=> Clashing(l)
  BY <1>1 DEF Clashing
<1> QED BY <1>2 DEF OwnLine

\* a script,
LEMMA StandsStays ==
    ASSUME SamePolicy, NEW CONSTANT t, NEW CONSTANT C, NEW CONSTANT I, NEW CONSTANT s
    PROVE  Stands(t, C, I, s)' <=> Stands(t, C, I, s)
BY OwnLineStays DEF Stands

\* what is promised,
LEMMA PolicyStays ==
    ASSUME SamePolicy
    PROVE  /\ AllConds' = AllConds /\ (SpecialsAlone' <=> SpecialsAlone)
           /\ \A p : Sees(p)' <=> Sees(p)
           /\ \A p, i : Promised(p, i)' = Promised(p, i)
<1>1. policy' = policy
  BY DEF SamePolicy
<1>2. AllConds' = AllConds
  BY <1>1 DEF AllConds
<1>3. \A p : Sees(p)' <=> Sees(p)
  BY <1>1 DEF Sees
<1>4. \A p, i : Promised(p, i)' = Promised(p, i)
  BY <1>1 DEF Promised
<1>5. SpecialsAlone' <=> SpecialsAlone
  BY <1>1 DEF SpecialsAlone
<1> QED BY <1>2, <1>3, <1>4, <1>5

\* what has been written,
LEMMA WrittenStays ==
    ASSUME SamePolicy, NEW CONSTANT i, NEW CONSTANT s
    PROVE  Written(i, s)' <=> Written(i, s)
<1>1. policy' = policy
  BY DEF SamePolicy
<1>2. \A t, I : Stands(t, AllConds, I, s)' <=> Stands(t, AllConds, I, s)
  <2>1. TAKE t, I
  <2>2. \A C : Stands(t, C, I, s)' <=> Stands(t, C, I, s)
    BY StandsStays
  <2>3. AllConds' = AllConds
    BY PolicyStays
  <2> QED BY <2>2, <2>3
<1>3. \A p : Sees(p)' <=> Sees(p)
  BY PolicyStays
<1>4. \A p, j : Promised(p, j)' = Promised(p, j)
  BY PolicyStays
<1> QED BY <1>1, <1>2, <1>3, <1>4 DEF Written

\* What MeansPolicy says of a firewall that has loaded k.
KeepsPromise(k) ==
    SpecialsAlone /\ (Readable \/ (compiler = "IPTables" /\ ~optimized)) =>
        \A p \in Packets :
           LET done == Walk(k, TableOf(policy[1].type), Hook(policy[1].type), p)
           IN /\ done.end = Promise(p).end
              /\ ToSet(done.trail) = ToSet(Promise(p).trail)
              /\ CountedOnce(p) => done.trail = Promise(p).trail

\* The property, about what has been installed.
LEMMA MeansPolicyIs == MeansPolicy <=> (outcome = "installed" => KeepsPromise(filter))
BY DEF MeansPolicy, KeepsPromise

\* The promise as a fold.
LEMMA PromiseFolds == \A p : Promise(p) = SeeFolds!Folded(p, Nothing, policy)
BY DEF Promise, SeeFolds!Folded, FoldLeft, MapThenFoldSet,
 SeeFolds!Largest, Max

\* and what has been promised and kept.
LEMMA KeepsPromiseStays ==
    ASSUME SamePolicy, script' = script, NEW CONSTANT k
    PROVE  KeepsPromise(k)' <=> KeepsPromise(k)
<1>1. policy' = policy /\ optimized' = optimized /\ compiler' = compiler /\ family' = family
  BY DEF SamePolicy
<1>r. Readable' <=> Readable
  BY <1>1 DEF Readable, Refused, Unreadable
<1>2. SpecialsAlone' <=> SpecialsAlone
  BY PolicyStays
<1>3. Packets' = Packets
  BY <1>1 DEF Packets, Looked
<1>4. \A p : CountedOnce(p)' <=> CountedOnce(p)
  BY <1>1 DEF CountedOnce
<1>5. \A p : Promise(p)' = Promise(p)
  <2>1. \A p : Promise(p) = SeeFolds!Folded(p, Nothing, policy)
    BY PromiseFolds
  <2>2. (\A p : Promise(p) = SeeFolds!Folded(p, Nothing, policy))'
    BY PromiseFolds, PTL
  <2> QED BY <1>1, <2>1, <2>2
<1> QED BY <1>1, <1>r, <1>2, <1>3, <1>4, <1>5 DEF KeepsPromise

\* The packets of a policy have the values of its positions.
LEMMA PacketsSee ==
    ASSUME PolicyOK(policy), NEW p \in Packets
    PROVE  Sees(p)
<1> DEFINE n == Len(policy)
           dims == ToSet(Positions(policy[1].type))
           looks == {v \in [Looked -> UNION {Values[d] : d \in Looked}] :
                       \A d \in Looked : v[d] \in Values[d]}
           cts == {Opening, Established}
<1>1. SUFFICES ASSUME NEW i \in 1..n, Translates(policy[i]) PROVE p["SVC"] \in Values["SVC"]
  BY DEF Sees
<1>2. /\ policy[i] \in ToSet(policy) /\ 1 \in 1..n /\ \A j \in 1..n : RuleOK(policy[j])
  BY PolicyRules
<1>3. policy[1].type \in FilterTypes \cup NatTypes
  BY <1>2 DEF RuleOK
<1>4. "SVC" \in dims
  BY <1>3, PositionsAre
<1>5. "SVC" \in Looked
  BY <1>1, <1>2, <1>4 DEF Translates, Looked
<1>s. Packets = {Packet(dims, look, ct) : look \in looks, ct \in cts}
  BY DEF Packets
<1>l. \A v \in looks : DOMAIN v = Looked /\ v["SVC"] \in Values["SVC"]
  BY <1>5
<1> HIDE DEF dims, looks, cts
<1>6. PICK v \in looks, ct \in cts : p = Packet(dims, v, ct)
  BY <1>s
<1>7. p["SVC"] = v["SVC"]
  BY <1>4, <1>5, <1>6, <1>l DEF Packet
<1> QED BY <1>6, <1>7, <1>l

\* Install: a whole script, loaded, keeps the promise.
LEMMA PromiseKept ==
    ASSUME PolicyOK(policy), MultiportLimit \in Nat, SpecialsAlone => Written(Len(policy), script)
    PROVE  KeepsPromise(Loaded(script))
<1> DEFINE n == Len(policy)
           type == policy[1].type
           t == TableOf(type)
           h == Hook(type)
           k == Loaded(script)
<1>1. SUFFICES ASSUME SpecialsAlone, Readable \/ (compiler = "IPTables" /\ ~optimized), NEW p \in Packets
               PROVE  LET done == Walk(k, t, h, p)
                      IN /\ done.end = Promise(p).end
                         /\ ToSet(done.trail) = ToSet(Promise(p).trail)
                         /\ CountedOnce(p) => done.trail = Promise(p).trail
  BY DEF KeepsPromise
<1>2. /\ Stands(t, AllConds, {policy[j].id : j \in 1..n}, script)
      /\ \A e, x :
           /\ EffectsOf(t, p, script, e) /\ Sees(p)
           /\ x => \A j \in 1..n : Accounted(policy[j]) => OnceIn(policy[j], p)
           => Agrees(x, Flow(View(t, Name(h, 0), p, e), script), Promised(p, n))
  BY <1>1 DEF Written
<1>3. /\ policy \in Seq(ToSet(policy)) /\ 1 \in 1..n
      /\ \A i \in 1..n : RuleOK(policy[i]) /\ policy[i] \in ToSet(policy)
  BY PolicyRules
<1>4. /\ h \in {"PREROUTING", "INPUT", "FORWARD", "OUTPUT", "POSTROUTING"} /\ t \in Tables
  <2>1. type \in FilterTypes \cup NatTypes
    BY <1>3 DEF RuleOK
  <2> QED BY <2>1, HookNames DEF Tables
<1>5. Loadable(script)
  <2>1. script \in Seq(Lines(AllConds))
    BY <1>2 DEF Stands
  <2>2. ToSet(script) = {script[i] : i \in 1..Len(script)}
    BY <2>1, ToSetIs
  <2> QED BY <1>1, <2>2 DEF Loadable, Readable
<1>6. Promise(p) = Promised(p, n)
  BY <1>3, PromiseIs
<1>7. Sees(p)
  BY PacketsSee
<1>8. CountedOnce(p) => \A j \in 1..n : Accounted(policy[j]) => OnceIn(policy[j], p)
  BY <1>3 DEF CountedOnce, OnceIn
<1> DEFINE I == {policy[j].id : j \in 1..n}
<1> HIDE DEF n, type, t, h, k, I
<1>9. PICK e : /\ EffectsOf(t, p, script, e)
               /\ \A g \in {"PREROUTING", "INPUT", "FORWARD", "OUTPUT", "POSTROUTING"} :
                    Walk(Loaded(script), t, g, p) = Flow(View(t, Name(g, 0), p, e), script)
  <2>1. t \in Tables /\ Stands(t, AllConds, I, script)
        /\ Loadable(script)
    BY <1>2, <1>4, <1>5 DEF I
  <2> QED BY ONLY <2>1, StandsWalk, ZenonT(60)
<1>10. Walk(k, t, h, p) = Flow(View(t, Name(h, 0), p, e), script)
  BY <1>4, <1>9 DEF k
<1> DEFINE x == CountedOnce(p)
<1>11. Agrees(x, Walk(k, t, h, p), Promise(p))
  <2> HIDE DEF x
  <2>1. x => \A j \in 1..n : Accounted(policy[j]) => OnceIn(policy[j], p)
    BY <1>8 DEF x
  <2>2. Agrees(x, Flow(View(t, Name(h, 0), p, e), script), Promised(p, n))
    BY <1>2, <1>7, <1>9, <2>1
  <2> QED BY <1>6, <1>10, <2>2
<1> QED BY <1>11 DEF Agrees

\* The inductive invariant: the script has been written for the rules before
\* next, and what is installed keeps the promise of the whole policy.
PolicyInv ==
    /\ policy \in Policies /\ next \in 1..(Len(policy) + 1)
    /\ SpecialsAlone => Written(next - 1, script)
    /\ outcome \in {"resolved", "installed"} => next = Len(policy) + 1
    /\ outcome = "installed" => KeepsPromise(filter)

\* A compiler that starts has written nothing.
LEMMA InvInit == Init => PolicyInv
<1> SUFFICES ASSUME Init PROVE PolicyInv
  OBVIOUS
<1>1. policy \in Policies /\ next = 1 /\ script = << >> /\ outcome = "running"
  BY DEF Init
<1>2. PolicyOK(policy) /\ MultiportLimit \in Nat
  BY <1>1, PoliciesAssumption
<1>3. next \in 1..(Len(policy) + 1)
  BY <1>1, <1>2, PolicyRules
<1>4. SpecialsAlone => Written(0, << >>)
  BY <1>2, WrittenEmpty DEF GoodPolicy
<1>5. next - 1 = 0
  BY <1>1
<1> QED BY <1>1, <1>3, <1>4, <1>5 DEF PolicyInv

\* Every step keeps the invariant: CompileRule writes one more block.
LEMMA InvNext == PolicyInv /\ [Next]_vars => PolicyInv'
<1> SUFFICES ASSUME PolicyInv, [Next]_vars PROVE PolicyInv'
  OBVIOUS
<1>1. policy \in Policies /\ PolicyOK(policy) /\ MultiportLimit \in Nat /\ next \in 1..(Len(policy) + 1)
      /\ (SpecialsAlone => Written(next - 1, script))
  BY PoliciesAssumption DEF PolicyInv
<1>2. Len(policy) \in Nat
  BY <1>1, PolicyRules
<1>3. CASE CompileRule
  <2> DEFINE r == policy[next]
             s == script \o Commands(r)
             i == next
  <2>1. /\ outcome = "running" /\ next <= Len(policy) /\ (Compiled(r) => ~Bad(r))
        /\ script' = s /\ next' = next + 1 /\ SamePolicy /\ outcome' = outcome
    BY <1>3 DEF CompileRule, Current, Commands, SamePolicy
  <2>2. i \in 1..Len(policy)
    BY <1>1, <1>2, <2>1
  <2>3. SpecialsAlone => Written(i, s)
    <3>1. SUFFICES ASSUME SpecialsAlone PROVE Written(i, s)
      OBVIOUS
    <3>2. GoodPolicy /\ Written(i - 1, script)
      BY <1>1, <3>1 DEF GoodPolicy
    <3> QED BY <2>1, <2>2, <3>2, WrittenNext
  <2>4. \A j, z : Written(j, z)' <=> Written(j, z)
    BY <2>1, WrittenStays
  <2>5. SpecialsAlone' <=> SpecialsAlone
    BY <2>1, PolicyStays
  <2>6. next' - 1 = i /\ policy' = policy
    BY <1>1, <2>1 DEF SamePolicy
  <2> HIDE DEF s, i
  <2>7. SpecialsAlone' => Written(next - 1, script)'
    <3>1. SpecialsAlone' => Written(i, s)
      BY <2>3, <2>5
    <3>2. Written(next' - 1, script') <=> Written(i, s)
      BY <2>1, <2>6
    <3>3. Written(next - 1, script)' <=> Written(next' - 1, script')
      BY <2>4
    <3> QED BY <3>1, <3>2, <3>3
  <2>8. next' \in 1..(Len(policy') + 1)
    BY <1>2, <2>1, <2>2, <2>6 DEF i
  <2> QED BY <1>1, <2>1, <2>6, <2>7, <2>8 DEF PolicyInv
<1>4. ASSUME SamePolicy, next' = next, script' = script,
             outcome' \in {"resolved", "installed"} => next = Len(policy) + 1,
             outcome' = "installed" => KeepsPromise(filter')
      PROVE  PolicyInv'
  <2>1. policy' = policy
    BY <1>4 DEF SamePolicy
  <2>2. \A j, z : Written(j, z)' <=> Written(j, z)
    BY <1>4, WrittenStays
  <2>3. SpecialsAlone' <=> SpecialsAlone
    BY <1>4, PolicyStays
  <2>4. SpecialsAlone' => Written(next - 1, script)'
    BY <1>1, <1>4, <2>2, <2>3
  <2>5. \A k : KeepsPromise(k)' <=> KeepsPromise(k)
    BY <1>4, KeepsPromiseStays
  <2>6. outcome' = "installed" => KeepsPromise(filter)'
    BY <1>4, <2>5
  <2> QED BY <1>1, <1>4, <2>1, <2>4, <2>6 DEF PolicyInv
<1>5. CASE Reject
  <2>1. SamePolicy /\ next' = next /\ script' = script /\ outcome' = "rejected"
    BY <1>5 DEF Reject, SamePolicy
  <2> QED BY <1>4, <2>1
<1>6. CASE Resolve
  <2>1. SamePolicy /\ next' = next /\ script' = script /\ outcome' = "resolved" /\ next > Len(policy)
    BY <1>6 DEF Resolve, SamePolicy
  <2>2. next = Len(policy) + 1
    BY <1>1, <1>2, <2>1
  <2> QED BY <1>4, <2>1, <2>2
<1>7. CASE Install
  <2>1. SamePolicy /\ next' = next /\ script' = script /\ outcome = "resolved" /\ filter' = Loaded(script)
    BY <1>7 DEF Install, SamePolicy
  <2>2. next = Len(policy) + 1
    BY <2>1 DEF PolicyInv
  <2>3. next - 1 = Len(policy)
    BY <1>2, <2>2
  <2>4. KeepsPromise(Loaded(script))
    BY <1>1, <2>3, PromiseKept
  <2> QED BY <1>4, <2>1, <2>2, <2>4
<1>8. CASE UNCHANGED vars
  <2>1. SamePolicy /\ next' = next /\ script' = script /\ outcome' = outcome /\ filter' = filter
    BY <1>8 DEF vars, SamePolicy
  <2> QED BY <1>4, <2>1 DEF PolicyInv
<1> QED BY <1>3, <1>5, <1>6, <1>7, <1>8 DEF Next

\* MeansPolicy: a script (PolicyScript.ts, PolicyCompilerTools.ts) whose
\* commands the destination firewall can read, or that iptables takes one by
\* one, makes it accept, drop or translate a packet that starts a connection or
\* belongs to one as the first rule says that means it, count it and hand it to
\* the log (which is limited) on the way.  It says nothing where nft refuses what
\* was compiled (ICMP and grouped ports in IPv6, CrowdSec, TCP flags in blocks),
\* nor where the conditions of a special rule go with others.
THEOREM PolicyAlwaysMeant == Spec => []MeansPolicy
<1>1. PolicyInv => MeansPolicy
  BY MeansPolicyIs DEF PolicyInv
<1> QED BY <1>1, InvInit, InvNext, PTL DEF Spec
==============================================================================
