------------------------------ MODULE FoldLaws ------------------------------
(***************************************************************************)
(* Recursion and folds, for any operator: the provers know a FoldLeft or a *)
(* recursive function only by its definition.  A module that folds with an *)
(* operator of its own takes these laws by INSTANCE FoldLaws WITH Op <- it.*)
(* The first argument of Op is what does not change on the way.  Every     *)
(* instance carries all that this module extends, so that it extends no    *)
(* library of theorems: that the natural numbers are well ordered is a     *)
(* hypothesis of the laws, which the module that cites them has proved.    *)
(***************************************************************************)
EXTENDS Integers, Sequences, TLAPS

CONSTANT Op(_, _, _)

WellOrdered == \A S \in SUBSET Nat : S # {} => \E n \in S : \A k \in S : n <= k

\* FoldLeft of the community modules, for Op; and their Max.
Largest(S) == CHOOSE x \in S : \A y \in S : x >= y
Folded(g, base, s) ==
    LET f[t \in SUBSET DOMAIN s] ==
            IF t = {} THEN base ELSE Op(g, f[t \ {Largest(t)}], s[Largest(t)])
    IN f[DOMAIN s]

(***************************************************************************)
(* Induction over the natural numbers, for the elements of a set.          *)
(***************************************************************************)
LEMMA LeastNatural ==
    ASSUME WellOrdered, NEW S \in SUBSET Nat, S # {}
    PROVE  \E n \in S : \A k \in S : n <= k
  BY DEF WellOrdered

LEMMA SetInduction ==
    ASSUME WellOrdered, NEW S, 0 \in S, \A n \in Nat : n \in S => n + 1 \in S
    PROVE  Nat \subseteq S
<1> SUFFICES ASSUME Nat \ S # {} PROVE FALSE
  OBVIOUS
<1>1. PICK n \in Nat \ S : \A k \in Nat \ S : n <= k
  BY LeastNatural
<1>2. n # 0 /\ n - 1 \in Nat
  BY <1>1
<1>3. n - 1 \in S
  BY <1>1, <1>2
<1> QED BY <1>1, <1>2, <1>3

\* Up to a bound, and from a bound down.
LEMMA UpTo ==
    ASSUME WellOrdered, NEW S, NEW m \in Nat, 0 \in S, \A n \in 0..(m - 1) : n \in S => n + 1 \in S
    PROVE  0..m \subseteq S
<1> DEFINE T == {n \in Nat : n <= m => n \in S}
<1>1. 0 \in T /\ \A n \in Nat : n \in T => n + 1 \in T
  OBVIOUS
<1> HIDE DEF T
<1>2. Nat \subseteq T
  BY <1>1, SetInduction
<1> QED BY <1>2 DEF T

(***************************************************************************)
(* A function that is defined by recursion exists, when its value depends  *)
(* on its values at what measures less only.                               *)
(***************************************************************************)
THEOREM RecursionWorks ==
    ASSUME WellOrdered, NEW g, NEW D, NEW M \in [D -> Nat],
           \A x \in D : \A f, h :
               (\A y \in D : M[y] < M[x] => f[y] = h[y]) => Op(g, f, x) = Op(g, h, x)
    PROVE  \E f : f = [x \in D |-> Op(g, f, x)]
<1> DEFINE Solves(f, n) == f = [x \in {y \in D : M[y] < n} |-> Op(g, f, x)]
           F(n) == CHOOSE f : Solves(f, n)
           S == {n \in Nat : \E f : Solves(f, n)}
<1>1. \A n \in Nat : \E f : Solves(f, n)
  <2>1. 0 \in S
    <3>1. Solves([x \in {y \in D : M[y] < 0} |-> 0], 0)
      OBVIOUS
    <3> QED BY <3>1
  <2>2. ASSUME NEW n \in S PROVE n + 1 \in S
    <3>1. PICK f : Solves(f, n)
      OBVIOUS
    <3> DEFINE h == [x \in {y \in D : M[y] < n + 1} |-> Op(g, f, x)]
    <3>2. ASSUME NEW x \in D, M[x] < n + 1 PROVE Op(g, h, x) = Op(g, f, x)
      <4>1. \A y \in D : M[y] < M[x] => h[y] = f[y]
        BY <3>1, <3>2
      <4> HIDE DEF h
      <4> QED BY <4>1
    <3>3. h = [x \in {y \in D : M[y] < n + 1} |-> Op(g, h, x)]
      BY <3>2
    <3>4. Solves(h, n + 1)
      BY <3>3
    <3>5. n + 1 \in Nat
      OBVIOUS
    <3> HIDE DEF Solves
    <3> QED BY <3>4, <3>5
  <2> HIDE DEF S
  <2>3. \A n \in Nat : n \in S => n + 1 \in S
    BY <2>2
  <2>4. Nat \subseteq S
    BY <2>1, <2>3, SetInduction
  <2> QED BY <2>4 DEF S
<1>2. ASSUME NEW n \in Nat, NEW m \in Nat, NEW f, NEW h, Solves(f, n), Solves(h, m),
             NEW x \in D, M[x] < n, M[x] < m
      PROVE  f[x] = h[x]
  <2> DEFINE Bad == {k \in Nat : \E y \in D : M[y] = k /\ k < n /\ k < m /\ f[y] # h[y]}
  <2> SUFFICES ASSUME Bad # {} PROVE FALSE
    BY <1>2
  <2>1. PICK k \in Bad : \A j \in Bad : k <= j
    BY LeastNatural
  <2>2. PICK y \in D : M[y] = k /\ k < n /\ k < m /\ f[y] # h[y]
    BY <2>1
  <2>3. \A z \in D : M[z] < M[y] => f[z] = h[z]
    BY <2>1, <2>2
  <2>4. Op(g, f, y) = Op(g, h, y)
    BY <2>3
  <2> QED BY <1>2, <2>2, <2>4
<1>3. \A n \in Nat : Solves(F(n), n)
  BY <1>1
<1> DEFINE h == [x \in D |-> F(M[x] + 1)[x]]
<1>4. ASSUME NEW x \in D PROVE h[x] = Op(g, h, x)
  <2> DEFINE f == F(M[x] + 1)
  <2>0. M[x] \in Nat /\ M[x] + 1 \in Nat /\ M[x] < M[x] + 1
    OBVIOUS
  <2>1. Solves(f, M[x] + 1)
    <3> HIDE DEF Solves, F
    <3> QED BY <1>3, <2>0
  <2>2. ASSUME NEW y \in D, M[y] < M[x] PROVE h[y] = f[y]
    <3>2. M[y] \in Nat /\ M[x] \in Nat
      OBVIOUS
    <3>4. M[y] + 1 \in Nat
      BY <3>2
    <3>1. Solves(F(M[y] + 1), M[y] + 1)
      <4> HIDE DEF Solves, F
      <4> QED BY <1>3, <3>4
    <3> HIDE DEF F, Solves
    <3>3. M[y] + 1 \in Nat /\ M[x] + 1 \in Nat /\ M[y] < M[y] + 1 /\ M[y] < M[x] + 1
      BY <2>2, <3>2
    <3>5. F(M[y] + 1)[y] = F(M[x] + 1)[y]
      BY <1>2, <2>1, <3>1, <3>3
    <3> QED BY <3>5
  <2>3. f[x] = Op(g, f, x)
    <3> HIDE DEF f
    <3> QED BY <2>0, <2>1
  <2>4. Op(g, h, x) = Op(g, f, x)
    <3> HIDE DEF h, f
    <3> QED BY <2>2
  <2> QED BY <2>3, <2>4
<1>5. h = [x \in D |-> Op(g, h, x)]
  <2>1. \A x \in D : h[x] = Op(g, h, x)
    BY <1>4
  <2>2. h = [x \in D |-> h[x]]
    OBVIOUS
  <2> HIDE DEF h
  <2> QED BY <2>1, <2>2
<1> QED BY <1>5

\* What holds of the values of such a function.
THEOREM RecursionKeeps ==
    ASSUME WellOrdered, NEW g, NEW D, NEW M \in [D -> Nat], NEW S,
           NEW f, \A x \in D : f[x] = Op(g, f, x),
           \A x \in D : (\A y \in D : M[y] < M[x] => f[y] \in S) => Op(g, f, x) \in S
    PROVE  \A x \in D : f[x] \in S
<1> DEFINE Bad == {k \in Nat : \E y \in D : M[y] = k /\ f[y] \notin S}
<1> SUFFICES ASSUME NEW x \in D, f[x] \notin S PROVE FALSE
  OBVIOUS
<1>1. M[x] \in Bad
  OBVIOUS
<1>2. PICK k \in Bad : \A j \in Bad : k <= j
  <2>1. Bad \in SUBSET Nat /\ Bad # {}
    BY <1>1
  <2> HIDE DEF Bad
  <2> QED BY <2>1, LeastNatural
<1>3. PICK y \in D : M[y] = k /\ f[y] \notin S
  BY <1>2
<1>4. ASSUME NEW z \in D, M[z] < M[y] PROVE f[z] \in S
  <2>1. M[z] \in Nat /\ M[y] \in Nat
    OBVIOUS
  <2>2. M[z] \notin Bad
    <3> HIDE DEF Bad
    <3> QED BY <1>2, <1>3, <1>4, <2>1
  <2> QED BY <2>1, <2>2
<1> HIDE DEF Bad
<1>5. Op(g, f, y) \in S
  BY <1>4
<1> QED BY <1>3, <1>5

(***************************************************************************)
(* Folding a list.                                                         *)
(***************************************************************************)
\* The function by which a list s of n elements is folded.
Solution(f, g, base, s, n) ==
    f = [t \in SUBSET (1..n) |->
           IF t = {} THEN base ELSE Op(g, f[t \ {Largest(t)}], s[Largest(t)])]

LEMMA LargestIs ==
    ASSUME WellOrdered, NEW n \in Nat, NEW t \in SUBSET (1..n), t # {}
    PROVE  Largest(t) \in t /\ \A y \in t : y <= Largest(t)
<1> DEFINE S == {n - y : y \in t}
<1>0. \A y \in t : y \in 1..n /\ n - y \in Nat
  OBVIOUS
<1>1. S \in SUBSET Nat /\ S # {}
  <2>1. \A k \in S : k \in Nat
    BY <1>0
  <2>2. PICK y \in t : TRUE
    OBVIOUS
  <2>3. n - y \in S
    BY <2>2
  <2> QED BY <2>1, <2>3
<1>2. PICK k \in S : \A j \in S : k <= j
  <2> HIDE DEF S
  <2> QED BY <1>1, LeastNatural
<1>3. PICK y \in t : k = n - y
  BY <1>2
<1>4. ASSUME NEW z \in t PROVE y >= z
  <2>1. n - z \in S
    OBVIOUS
  <2>2. k <= n - z
    BY <1>2, <2>1
  <2> QED BY <1>0, <1>3, <2>2
<1>5. \A z \in t : Largest(t) >= z
  BY <1>4 DEF Largest
<1>6. Largest(t) \in t
  BY <1>4 DEF Largest
<1> QED BY <1>5, <1>6

LEMMA WithoutLargest ==
    ASSUME WellOrdered, NEW n \in Nat, NEW t \in SUBSET (1..(n + 1)), t # {}
    PROVE  Largest(t) \in t /\ t \ {Largest(t)} \in SUBSET (1..n)
<1>0. n + 1 \in Nat
  OBVIOUS
<1>1. Largest(t) \in t /\ \A y \in t : y <= Largest(t)
  BY <1>0, LargestIs
<1> DEFINE m == Largest(t)
<1> HIDE DEF m
<1>2. m \in t /\ \A y \in t : y <= m
  BY <1>1 DEF m
<1>3. ASSUME NEW y \in t \ {m} PROVE y \in 1..n
  <2>1. y \in 1..(n + 1) /\ m \in 1..(n + 1) /\ y <= m /\ y # m
    BY <1>2, <1>3
  <2> QED BY <2>1
<1>4. t \ {m} \in SUBSET (1..n)
  BY <1>3
<1> QED BY <1>2, <1>4 DEF m

LEMMA FoldsExist ==
    ASSUME WellOrdered, NEW g, NEW base, NEW s, NEW n \in Nat
    PROVE  \E f : Solution(f, g, base, s, n)
<1> DEFINE S == {j \in Nat : \E f : Solution(f, g, base, s, j)}
<1>1. 0 \in S
  <2>1. Solution([t \in SUBSET (1..0) |-> base], g, base, s, 0)
    BY DEF Solution
  <2> QED BY <2>1
<1>2. ASSUME NEW j \in Nat, j \in S PROVE j + 1 \in S
  <2>1. PICK f : Solution(f, g, base, s, j)
    BY <1>2
  <2> DEFINE h == [t \in SUBSET (1..(j + 1)) |->
                     IF t = {} THEN base ELSE Op(g, f[t \ {Largest(t)}], s[Largest(t)])]
  <2>2. ASSUME NEW t \in SUBSET (1..(j + 1)), t # {}
        PROVE  t \ {Largest(t)} \in SUBSET (1..j)
    BY <1>2, <2>2, WithoutLargest
  <2>3. ASSUME NEW u \in SUBSET (1..j) PROVE h[u] = f[u]
    <3>1. u \in SUBSET (1..(j + 1))
      BY <1>2
    <3>2. h[u] = IF u = {} THEN base ELSE Op(g, f[u \ {Largest(u)}], s[Largest(u)])
      BY <3>1
    <3>3. f[u] = IF u = {} THEN base ELSE Op(g, f[u \ {Largest(u)}], s[Largest(u)])
      BY <2>1 DEF Solution
    <3> HIDE DEF h
    <3> QED BY <3>2, <3>3
  <2>4. ASSUME NEW t \in SUBSET (1..(j + 1)), t # {}
        PROVE  Op(g, f[t \ {Largest(t)}], s[Largest(t)]) = Op(g, h[t \ {Largest(t)}], s[Largest(t)])
    <3> HIDE DEF h
    <3> QED BY <2>2, <2>3, <2>4
  <2>5. h = [t \in SUBSET (1..(j + 1)) |->
               IF t = {} THEN base ELSE Op(g, h[t \ {Largest(t)}], s[Largest(t)])]
    BY <2>4
  <2>6. Solution(h, g, base, s, j + 1)
    <3> HIDE DEF h
    <3> QED BY <2>5 DEF Solution
  <2> QED BY <2>6
<1> HIDE DEF S
<1>3. \A j \in Nat : j \in S => j + 1 \in S
  BY <1>2
<1>4. Nat \subseteq S
  BY <1>1, <1>3, SetInduction
<1> QED BY <1>4 DEF S

LEMMA FoldsAgree ==
    ASSUME WellOrdered, NEW g, NEW base, NEW s, NEW r, NEW n \in Nat, NEW m \in Nat, n <= m,
           NEW f, NEW h, Solution(f, g, base, s, n), Solution(h, g, base, r, m),
           \A i \in 1..n : s[i] = r[i]
    PROVE  f[1..n] = h[1..n]
<1> DEFINE S == {j \in Nat : \A t \in SUBSET (1..j) : j <= n => f[t] = h[t]}
<1>1. 0 \in S
  BY DEF Solution
<1>2. ASSUME NEW j \in Nat, j \in S PROVE j + 1 \in S
  <2> SUFFICES ASSUME NEW t \in SUBSET (1..(j + 1)), j + 1 <= n PROVE f[t] = h[t]
    <3>1. j + 1 \in Nat
      OBVIOUS
    <3> QED BY <3>1
  <2>1. t \in SUBSET (1..n) /\ t \in SUBSET (1..m)
    OBVIOUS
  <2>2. CASE t = {}
    BY <2>1, <2>2 DEF Solution
  <2>3. CASE t # {}
    <3>1. Largest(t) \in t /\ t \ {Largest(t)} \in SUBSET (1..j)
      BY <1>2, <2>3, WithoutLargest
    <3>3. f[t \ {Largest(t)}] = h[t \ {Largest(t)}]
      BY <1>2, <3>1
    <3>4. s[Largest(t)] = r[Largest(t)]
      BY <2>1, <3>1
    <3>5. f[t] = Op(g, f[t \ {Largest(t)}], s[Largest(t)])
      BY <2>1, <2>3 DEF Solution
    <3>6. h[t] = Op(g, h[t \ {Largest(t)}], r[Largest(t)])
      BY <2>1, <2>3 DEF Solution
    <3> QED BY <3>3, <3>4, <3>5, <3>6
  <2> QED BY <2>2, <2>3
<1> HIDE DEF S
<1>3. \A j \in Nat : j \in S => j + 1 \in S
  BY <1>2
<1>4. Nat \subseteq S
  BY <1>1, <1>3, SetInduction
<1>5. n \in S
  BY <1>4
<1> QED BY <1>5 DEF S

LEMMA FoldedIs ==
    ASSUME WellOrdered, NEW g, NEW base, NEW s, NEW n \in Nat, DOMAIN s = 1..n
    PROVE  \E f : Solution(f, g, base, s, n) /\ Folded(g, base, s) = f[1..n]
<1> DEFINE f == CHOOSE f : Solution(f, g, base, s, n)
<1>1. Solution(f, g, base, s, n)
  BY FoldsExist
<1>2. f = CHOOSE h : h = [t \in SUBSET DOMAIN s |->
            IF t = {} THEN base ELSE Op(g, h[t \ {Largest(t)}], s[Largest(t)])]
  BY DEF Solution
<1>3. Folded(g, base, s) = f[DOMAIN s]
  <2> HIDE DEF f
  <2> QED BY <1>2, Zenon DEF Folded
<1> HIDE DEF f
<1> QED BY <1>1, <1>3

\* Folding a list, element by element.
THEOREM FoldEmpty ==
    ASSUME WellOrdered, NEW g, NEW base
    PROVE  Folded(g, base, << >>) = base
<1>1. DOMAIN << >> = 1..0
  OBVIOUS
<1>2. PICK f : Solution(f, g, base, << >>, 0) /\ Folded(g, base, << >>) = f[1..0]
  BY <1>1, FoldedIs
<1> QED BY <1>2 DEF Solution

THEOREM FoldAppend ==
    ASSUME WellOrdered, NEW g, NEW base, NEW S, NEW s \in Seq(S), NEW x
    PROVE  Folded(g, base, Append(s, x)) = Op(g, Folded(g, base, s), x)
<1> DEFINE n == Len(s)
           r == Append(s, x)
<1>1. n \in Nat /\ DOMAIN s = 1..n /\ DOMAIN r = 1..(n + 1)
  OBVIOUS
<1>2. r[n + 1] = x /\ \A i \in 1..n : s[i] = r[i]
  OBVIOUS
<1> HIDE DEF n, r
<1>3. PICK f : Solution(f, g, base, s, n) /\ Folded(g, base, s) = f[1..n]
  BY <1>1, FoldedIs
<1>4. PICK h : Solution(h, g, base, r, n + 1) /\ Folded(g, base, r) = h[1..(n + 1)]
  BY <1>1, FoldedIs
<1>5. f[1..n] = h[1..n]
  BY <1>1, <1>2, <1>3, <1>4, FoldsAgree
<1>6. Largest(1..(n + 1)) = n + 1 /\ (1..(n + 1)) \ {n + 1} = 1..n /\ 1..(n + 1) # {}
  <2> DEFINE t == 1..(n + 1)
             m == Largest(t)
  <2>0. t \in SUBSET t /\ n + 1 \in t /\ n + 1 \in Nat
    BY <1>1
  <2>1. m \in t /\ \A y \in t : y <= m
    <3> HIDE DEF m
    <3> QED BY <2>0, LargestIs DEF m
  <2> HIDE DEF m
  <2>2. m = n + 1
    BY <1>1, <2>0, <2>1
  <2>3. \A y : y \in t \ {n + 1} <=> y \in 1..n
    BY <1>1
  <2>4. t \ {n + 1} = 1..n
    <3> HIDE DEF t
    <3> QED BY <2>3
  <2> QED BY <2>0, <2>2, <2>4 DEF m
<1>7. h[1..(n + 1)] = Op(g, h[1..n], r[n + 1])
  BY <1>1, <1>4, <1>6 DEF Solution
<1> QED BY <1>2, <1>3, <1>4, <1>5, <1>7 DEF r

\* The values a fold goes through, as a function of the elements folded so far.
Trace(f, g, base, s) ==
    /\ f = [i \in 0..Len(s) |-> f[i]]
    /\ f[0] = base
    /\ \A i \in 1..Len(s) : f[i] = Op(g, f[i - 1], s[i])

THEOREM FoldTrace ==
    ASSUME WellOrdered, NEW g, NEW base, NEW S, NEW s \in Seq(S)
    PROVE  \E f : Trace(f, g, base, s) /\ f[Len(s)] = Folded(g, base, s)
<1> DEFINE f == [i \in 0..Len(s) |-> Folded(g, base, SubSeq(s, 1, i))]
<1>1. f = [i \in 0..Len(s) |-> f[i]]
  OBVIOUS
<1>2. f[0] = base
  <2>1. SubSeq(s, 1, 0) = << >> /\ 0 \in 0..Len(s)
    OBVIOUS
  <2> QED BY <2>1, FoldEmpty
<1>3. f[Len(s)] = Folded(g, base, s)
  <2>1. SubSeq(s, 1, Len(s)) = s /\ Len(s) \in 0..Len(s)
    OBVIOUS
  <2> QED BY <2>1
<1>4. ASSUME NEW i \in 1..Len(s) PROVE f[i] = Op(g, f[i - 1], s[i])
  <2>1. SubSeq(s, 1, i - 1) \in Seq(S) /\ i - 1 \in 0..Len(s) /\ i \in 0..Len(s)
    OBVIOUS
  <2>2. SubSeq(s, 1, i) = Append(SubSeq(s, 1, i - 1), s[i])
    OBVIOUS
  <2> DEFINE r == SubSeq(s, 1, i - 1)
             t == SubSeq(s, 1, i)
             x == s[i]
  <2>3. r \in Seq(S) /\ t = Append(r, x)
    BY <2>1, <2>2
  <2>4. f[i] = Folded(g, base, t) /\ f[i - 1] = Folded(g, base, r)
    BY <2>1
  <2>5. Folded(g, base, Append(r, x)) = Op(g, Folded(g, base, r), x)
    <3> HIDE DEF r, x
    <3> QED BY <2>3, FoldAppend
  <2> HIDE DEF f, r, t
  <2> QED BY <2>3, <2>4, <2>5
<1> HIDE DEF f
<1> QED BY <1>1, <1>2, <1>3, <1>4 DEF Trace

\* Folding the positions of a list.
Positioned(g, base, s) == Folded(g, base, [i \in DOMAIN s |-> i])

THEOREM PositionTrace ==
    ASSUME WellOrdered, NEW g, NEW base, NEW S, NEW s \in Seq(S)
    PROVE  \E f : Trace(f, g, base, [i \in DOMAIN s |-> i])
                  /\ f[Len(s)] = Positioned(g, base, s)
<1> DEFINE r == [i \in DOMAIN s |-> i]
<1>1. r \in Seq(Nat) /\ Len(r) = Len(s)
  OBVIOUS
<1>2. Positioned(g, base, s) = Folded(g, base, r)
  BY DEF Positioned
<1> HIDE DEF r
<1>3. PICK f : Trace(f, g, base, r) /\ f[Len(r)] = Folded(g, base, r)
  BY <1>1, FoldTrace
<1> QED BY <1>1, <1>2, <1>3 DEF r
=============================================================================
