------------------------- MODULE ObjectUsageProofs -------------------------
(***************************************************************************)
(* No rule names an object that has gone, no removal stops half way, and   *)
(* none leaves what a rule uses empty, unless requests overlap: for any    *)
(* number of rules, interfaces, groups, addresses and requests.            *)
(***************************************************************************)
EXTENDS ObjectUsage, FiniteSetTheorems, WellFoundedInduction, TLAPS

-----------------------------------------------------------------------------
(* The steps left of a request *)

\* Before each of the labels, unless its item is good already, comes a search.
Guarded(s, labels, search, good) ==
    \A k \in DOMAIN s : s[k][1] \in labels =>
        \/ s[k][2] \in good
        \/ \E j \in 1..(k - 1) : s[j] = <<search, s[k][2]>>

LEMMA TailIs ==
    ASSUME NEW S, NEW s \in Seq(S), s # << >>
    PROVE  /\ Tail(s) \in Seq(S) /\ s[1] \in S /\ 1 \in DOMAIN s
           /\ \A k \in DOMAIN Tail(s) :
                k \in Nat /\ k >= 1 /\ k + 1 \in DOMAIN s /\ Tail(s)[k] = s[k + 1]
           /\ \A k \in DOMAIN s : k > 1 => k - 1 \in DOMAIN Tail(s) /\ Tail(s)[k - 1] = s[k]
  OBVIOUS

\* A search that has found nothing is not needed any more.
LEMMA GuardedTail ==
    ASSUME NEW S, NEW s \in Seq(S), s # << >>, NEW labels, NEW search,
           NEW good, NEW better, good \subseteq better,
           Guarded(s, labels, search, good),
           s[1] = <<search, s[1][2]>> => s[1][2] \in better
    PROVE  Guarded(Tail(s), labels, search, better)
  <1> SUFFICES ASSUME NEW k \in DOMAIN Tail(s), Tail(s)[k][1] \in labels,
                      Tail(s)[k][2] \notin better
               PROVE  \E j \in 1..(k - 1) : Tail(s)[j] = <<search, Tail(s)[k][2]>>
    BY DEF Guarded
  <1>1. k \in Nat /\ k >= 1 /\ k + 1 \in DOMAIN s /\ Tail(s)[k] = s[k + 1]
    BY TailIs
  <1>2. PICK j \in 1..k : s[j] = <<search, s[k + 1][2]>>
    <2>1. s[k + 1][1] \in labels /\ s[k + 1][2] \notin good /\ (k + 1) - 1 = k
      BY <1>1
    <2> QED BY <1>1, <2>1 DEF Guarded
  <1>3. j # 1
    BY <1>1, <1>2
  <1>4. j - 1 \in 1..(k - 1) /\ j - 1 \in DOMAIN Tail(s)
    BY <1>1, <1>2, <1>3, TailIs
  <1>5. Tail(s)[j - 1] = s[j]
    BY <1>1, <1>2, <1>3, <1>4, TailIs
  <1> QED BY <1>1, <1>2, <1>4, <1>5

LEMMA GuardedGrows ==
    ASSUME NEW s, NEW labels, NEW search, NEW good, NEW better, good \subseteq better,
           Guarded(s, labels, search, good)
    PROVE  Guarded(s, labels, search, better)
  BY DEF Guarded

\* At the head of the list stands a step whose search has been made.
LEMMA GuardedHead ==
    ASSUME NEW S, NEW s \in Seq(S), s # << >>, NEW labels, NEW search, NEW good,
           Guarded(s, labels, search, good), s[1][1] \in labels
    PROVE  s[1][2] \in good
  <1>1. 1 \in DOMAIN s
    BY TailIs
  <1> QED BY <1>1 DEF Guarded

LEMMA ConcatIs ==
    ASSUME NEW S, NEW s \in Seq(S), NEW t \in Seq(S)
    PROVE  /\ s \o t \in Seq(S) /\ Len(s) \in Nat /\ DOMAIN s = 1..Len(s)
           /\ \A k \in DOMAIN s : k \in DOMAIN (s \o t) /\ (s \o t)[k] = s[k]
           /\ \A k \in DOMAIN t : Len(s) + k \in DOMAIN (s \o t) /\ (s \o t)[Len(s) + k] = t[k]
           /\ \A k \in DOMAIN (s \o t) : k \in DOMAIN s \/ (k \in Nat /\ k - Len(s) \in DOMAIN t)
  OBVIOUS

LEMMA ConcatAt ==
    ASSUME NEW S, NEW s \in Seq(S), NEW t \in Seq(S), NEW k \in DOMAIN t
    PROVE  (s \o t)[Len(s) + k] = t[k]
  OBVIOUS

LEMMA GuardedConcat ==
    ASSUME NEW S, NEW s \in Seq(S), NEW t \in Seq(S), NEW labels, NEW search, NEW good,
           Guarded(s, labels, search, good), Guarded(t, labels, search, good)
    PROVE  Guarded(s \o t, labels, search, good)
  <1> DEFINE u == s \o t
             n == Len(s)
  <1>0. n \in Nat /\ DOMAIN s = 1..n
    OBVIOUS
  <1> SUFFICES ASSUME NEW k \in DOMAIN u, u[k][1] \in labels, u[k][2] \notin good
               PROVE  \E j \in 1..(k - 1) : u[j] = <<search, u[k][2]>>
    BY DEF Guarded
  <1>1. CASE k \in DOMAIN s
    <2>1. u[k] = s[k]
      BY <1>1, ConcatIs
    <2>2. PICK j \in 1..(k - 1) : s[j] = <<search, s[k][2]>>
      BY <1>1, <2>1 DEF Guarded
    <2>3. j \in DOMAIN s
      BY <1>0, <1>1
    <2>4. u[j] = s[j]
      BY <2>3, ConcatIs
    <2> QED BY <2>1, <2>2, <2>4
  <1>2. CASE k \notin DOMAIN s
    <2>1. k \in Nat /\ k - n \in DOMAIN t
      BY <1>2, ConcatIs
    <2>2. u[k] = t[k - n]
      <3>1. n + (k - n) = k
        BY <1>0, <2>1
      <3>2. u[n + (k - n)] = t[k - n]
        BY <2>1, ConcatIs
      <3> QED BY <3>1, <3>2
    <2>3. PICK j \in 1..(k - n - 1) : t[j] = <<search, t[k - n][2]>>
      BY <2>1, <2>2 DEF Guarded
    <2>4. j \in DOMAIN t
      BY <1>0, <2>1
    <2>5. u[n + j] = t[j]
      BY <2>4, ConcatIs
    <2>6. n + j \in 1..(k - 1)
      BY <1>0, <2>1
    <2> QED BY <2>2, <2>3, <2>5, <2>6
  <1> QED BY <1>1, <1>2
-----------------------------------------------------------------------------
(* The invariant *)

Tables ==
    /\ DOMAIN ipobj \subseteq Ids /\ \A x \in DOMAIN ipobj : ipobj[x] \in Row
    /\ interfaces \subseteq Interfaces
    /\ links \subseteq HostInterfaces \X Ids
    /\ groups \subseteq Groups
    /\ members \subseteq Groups \X Ids
    /\ uses \subseteq Rules \X Items
    /\ listed \subseteq Rules \X Interfaces
    /\ suspect \subseteq uses
    /\ \A x \in DOMAIN ipobj :
          ipobj[x].type = "address" => ipobj[x].interface \in interfaces
    /\ \A k \in links : k[1] \in interfaces /\ k[2] \in DOMAIN ipobj
    /\ \A m \in members : m[1] \in groups /\ m[2] \in DOMAIN ipobj
    /\ \A k \in listed : k[2] \in interfaces

Typed == req \in [Requests -> Request] /\ ops \in 0..MaxOps

LEMMA TypeIs == TypeOK <=> Tables /\ Typed
  BY DEF TypeOK, Tables, Typed

\* Only hosts have interfaces, each one host, and no position of interfaces holds one of a host.
HostsApart ==
    /\ \A k \in links : ipobj[k[2]].type = "host"
    /\ \A k, l \in links : k[1] = l[1] => k[2] = l[2]
    /\ \A k \in listed : k[2] \notin HostInterfaces

\* Requests that may clash are all marked.
Crossing ==
    \A p, q \in Requests :
        p # q /\ ~Free(p) /\ ~Free(q) /\ Clash(req[p].op, req[q].op) => req[p].crossed

\* Items of which no rule names them but as the history suspects; what is made
\* of such items.
Clean == {x \in Items : \A u \in uses : u[2] = x => u \in suspect}
Emptiable == {x \in Items : AddrOf(x) \subseteq Clean}
HostClean == {x \in Items : \A k \in links : k[2] = x => k[1] \in Clean}
Lost == Clean \cap Emptiable \cap HostClean

\* Items that no foreign key holds.
Ungrouped == {x \in Items : \A m \in members : m[2] # x}
AddrUngrouped == {x \in Items : AddrOf(x) \subseteq Ungrouped}
Unlisted == {x \in Items : \A k \in listed : k[2] # x}
Unlinked == {x \in Items : \A k \in links : k[1] # x}
Bare == {x \in Items : \A a \in Addresses : ipobj[a].interface # x}
Memberless == {x \in Items : \A m \in members : m[1] # x}

Numbered(q) == {x \in Items : q.id >= 1}
Present == {x \in Items : Exists(x)}

Writes == {"insert", "move", "list", "join", "highest", "create"}
Removes == {"erase", "interface", "group", "addresses", "unlink", "interfaces",
            "empty", "leave"}

\* What each kind of request goes through.
Plan(q) ==
    /\ Guarded(q.todo, {"list"}, "listable", Items \ HostInterfaces)
    /\ Guarded(q.todo, {"create"}, "highest", Numbered(q))
    /\ \A k \in DOMAIN q.todo :
         /\ q.todo[k][1] \in Writes => q.op \in Giving
         /\ q.todo[k][1] \in Removes => q.op \in Taking
         /\ q.todo[k][1] \in {"insert", "move", "list"} => q.to \in Rules
         /\ q.todo[k][1] = "count" => q.to \in Groups
         /\ q.todo[k][1] \in {"count", "group"} => q.op \notin ByType /\ ~q.misled
         /\ q.todo[k][1] = "create" => q.version \in {4, 6}
         /\ q.todo[k][1] = "failed" => q.crossed
         /\ q.misled => q.crossed

\* A request that puts an object in a rule and met no removal has seen it.
Seen(q) ==
    q.op \in Giving /\ ~q.crossed => Guarded(q.todo, {"insert", "move"}, "allowed", Present)

\* A removal has searched what it takes away, whatever it met, unless it was misled.
Searched(q) ==
    q.op \in Taking /\ ~q.misled =>
        /\ Guarded(q.todo, {"erase", "interface", "group", "unlink"}, "inRule", Clean)
        /\ Guarded(q.todo, {"addresses", "unlink", "interfaces"}, "addressesInRule", Emptiable)
        /\ Guarded(q.todo, {"interfaces"}, "interfacesInRule", HostClean)

\* For its searches find the object that was named, or none, or one that came since
\* and that no rule names.
Meant(q, x) ==
    \/ x \in DOMAIN ipobj \cup Interfaces /\ TypeOf(x) = q.op
    \/ x \in Ids \ DOMAIN ipobj
    \/ q.crossed /\ x \in Lost

Apt(q) ==
    q.op \in ByType /\ ~q.misled =>
        \A k \in DOMAIN q.todo : q.todo[k][1] \in Searches => Meant(q, q.todo[k][2])

\* The interfaces that it takes down are those of its host, and go before the host.
Owned(q) ==
    q.op \in Taking /\ ~q.crossed =>
        \A k \in DOMAIN q.todo :
            /\ q.todo[k][1] = "interfaces" => q.todo[k][2] = q.id
            /\ q.todo[k][1] = "unlink" =>
                  \A l \in links : l[1] = q.todo[k][2] => l[2] = q.id

Unhosted(q) ==
    q.op \in Taking /\ ~q.crossed =>
        \A k \in DOMAIN q.todo : \A l \in links : q.todo[k] = <<"erase", l[2]>> =>
            \E j \in 1..(k - 1) :
                q.todo[j] \in {<<"interfaces", l[2]>>, <<"unlink", l[1]>>}

\* A removal that met no other request has searched, or takes away itself, all
\* that a foreign key to what it takes away would stop it for.
Sure(q) ==
    q.op \in Taking /\ ~q.crossed =>
        /\ Guarded(q.todo, {"erase"}, "inGroup", Ungrouped)
        /\ Guarded(q.todo, {"addresses", "unlink", "interfaces"}, "addressesInGroup",
                   AddrUngrouped)
        /\ Guarded(q.todo, {"addresses", "interface", "unlink"}, "listed", Unlisted)
        /\ Guarded(q.todo, {"addresses", "interface"}, "unlink", Unlinked)
        /\ Guarded(q.todo, {"interface"}, "addresses", Bare)
        /\ Guarded(q.todo, {"group"}, "empty", Memberless)

Fit(q) ==
    /\ Plan(q) /\ Seen(q) /\ Searched(q) /\ Apt(q)
    /\ Sure(q) /\ Owned(q) /\ Unhosted(q)

TablesInv == Tables /\ HostsApart /\ NoDangling

UsageInv ==
    /\ TablesInv /\ Typed /\ Crossing
    /\ \A r \in Requests : Fit(req[r])
-----------------------------------------------------------------------------
(* What a step of a request does to the tables *)

Effect(r) ==
    /\ TablesInv'
    /\ \A x \in DOMAIN ipobj : x \in DOMAIN ipobj' => ipobj'[x] = ipobj[x]
    /\ links' \subseteq links
    /\ \A u \in uses \cap uses' : u \in suspect => u \in suspect'
    /\ \A u \in uses' \ uses : req[r].op \in Giving /\ (req[r].crossed => u \in suspect')
    /\ req[r].op \in Giving \/
         (DOMAIN ipobj' \subseteq DOMAIN ipobj /\ members' \subseteq members
            /\ listed' \subseteq listed)
    /\ req[r].op \in Taking \/
         (DOMAIN ipobj \subseteq DOMAIN ipobj' /\ interfaces' = interfaces /\ groups' = groups)

LEMMA Apart ==
    ASSUME NEW x \in Items
    PROVE  /\ x \in Interfaces => x \notin Groups /\ x \notin Ids
           /\ x \in Groups => x \notin Ids
           /\ x \in Ids => x \in Nat /\ x >= 1
  BY ObjectUsageAssumption DEF Items, Ids

\* The step that a request stands at.
LEMMA HeadIs ==
    ASSUME UsageInv, NEW r \in Requests, req[r].todo # << >>
    PROVE  /\ req[r] \in Request /\ req[r].todo \in Seq(Labels \X Items)
           /\ req[r].todo[1] = <<req[r].todo[1][1], Subject(r)>>
           /\ req[r].todo[1] \in Labels \X Items
           /\ 1 \in DOMAIN req[r].todo
           /\ Subject(r) \in Items
  <1>1. req[r] \in Request
    BY DEF UsageInv, Typed
  <1>2. req[r].todo \in Seq(Labels \X Items)
    BY <1>1 DEF Request
  <1>3. req[r].todo[1] \in Labels \X Items /\ 1 \in DOMAIN req[r].todo
    BY <1>2, TailIs
  <1>4. req[r].todo[1] = <<req[r].todo[1][1], Subject(r)>> /\ Subject(r) \in Items
    BY <1>3 DEF Subject
  <1> QED BY <1>1, <1>2, <1>3, <1>4

\* What the invariant says of it.
LEMMA HeadMay ==
    ASSUME UsageInv, NEW r \in Requests, NEW label, At(r, label)
    PROVE  /\ label \in Writes => req[r].op \in Giving
           /\ label \in Removes => req[r].op \in Taking
           /\ label \in {"insert", "move", "list"} => req[r].to \in Rules
           /\ label = "list" => Subject(r) \notin HostInterfaces
           /\ label = "create" => req[r].version \in {4, 6}
           /\ label = "create" => req[r].id \in Ids
           /\ label = "count" => req[r].to \in Groups
           /\ label \in {"count", "group"} => req[r].op \notin ByType /\ ~req[r].misled
           /\ label = "failed" => req[r].crossed
           /\ req[r].misled => req[r].crossed
  <1>1. req[r].todo # << >> /\ req[r].todo[1][1] = label
    BY DEF At
  <1>2. Plan(req[r]) /\ req[r].id \in 0..MaxId
    BY <1>1, HeadIs DEF UsageInv, Fit, Request
  <1>3. req[r].todo \in Seq(Labels \X Items) /\ req[r].todo[1] = <<label, Subject(r)>>
        /\ 1 \in DOMAIN req[r].todo
    BY <1>1, HeadIs
  <1>4. label = "list" => Subject(r) \notin HostInterfaces
    <2>1. Guarded(req[r].todo, {"list"}, "listable", Items \ HostInterfaces)
      BY <1>2 DEF Plan
    <2>2. label = "list" => req[r].todo[1][2] \in Items \ HostInterfaces
      BY <1>1, <1>3, <2>1, GuardedHead
    <2> QED BY <1>3, <2>2
  <1>5. label = "create" => req[r].id \in Ids
    <2>1. Guarded(req[r].todo, {"create"}, "highest", Numbered(req[r]))
      BY <1>2 DEF Plan
    <2>2. label = "create" => req[r].todo[1][2] \in Numbered(req[r])
      BY <1>1, <1>3, <2>1, GuardedHead
    <2> QED BY <1>2, <2>2, ObjectUsageAssumption DEF Numbered, Ids
  <1>6. /\ label \in Writes => req[r].op \in Giving
        /\ label \in Removes => req[r].op \in Taking
        /\ label \in {"insert", "move", "list"} => req[r].to \in Rules
        /\ label = "create" => req[r].version \in {4, 6}
        /\ label = "count" => req[r].to \in Groups
        /\ label \in {"count", "group"} => req[r].op \notin ByType /\ ~req[r].misled
        /\ label = "failed" => req[r].crossed
        /\ req[r].misled => req[r].crossed
    BY <1>1, <1>2, <1>3 DEF Plan
  <1> QED BY <1>4, <1>5, <1>6

\* A removal at the point of taking something away has searched it.
LEMMA HeadSearched ==
    ASSUME UsageInv, NEW r \in Requests, NEW label, At(r, label), req[r].op \in Taking,
           ~req[r].misled
    PROVE  /\ label \in {"erase", "interface", "group", "unlink"} => Subject(r) \in Clean
           /\ label \in {"addresses", "unlink", "interfaces"} => Subject(r) \in Emptiable
           /\ label = "interfaces" => Subject(r) \in HostClean
  <1>1. req[r].todo # << >> /\ req[r].todo[1][1] = label
    BY DEF At
  <1>2. req[r].todo \in Seq(Labels \X Items) /\ req[r].todo[1] = <<label, Subject(r)>>
    BY <1>1, HeadIs
  <1>3. /\ Guarded(req[r].todo, {"erase", "interface", "group", "unlink"}, "inRule", Clean)
        /\ Guarded(req[r].todo, {"addresses", "unlink", "interfaces"}, "addressesInRule",
                   Emptiable)
        /\ Guarded(req[r].todo, {"interfaces"}, "interfacesInRule", HostClean)
    BY DEF UsageInv, Fit, Searched
  <1>4. label \in {"erase", "interface", "group", "unlink"} => req[r].todo[1][2] \in Clean
    BY <1>1, <1>2, <1>3, GuardedHead
  <1>5. label \in {"addresses", "unlink", "interfaces"} => req[r].todo[1][2] \in Emptiable
    BY <1>1, <1>2, <1>3, GuardedHead
  <1>6. label = "interfaces" => req[r].todo[1][2] \in HostClean
    BY <1>1, <1>2, <1>3, GuardedHead
  <1> QED BY <1>2, <1>4, <1>5, <1>6

\* A request that met no removal has seen what it puts in a rule.
LEMMA HeadSeen ==
    ASSUME UsageInv, NEW r \in Requests, NEW label, At(r, label),
           label \in {"insert", "move"}, ~req[r].crossed
    PROVE  Exists(Subject(r))
  <1>1. req[r].todo # << >> /\ req[r].todo[1][1] = label
    BY DEF At
  <1>2. req[r].todo \in Seq(Labels \X Items) /\ req[r].todo[1] = <<label, Subject(r)>>
    BY <1>1, HeadIs
  <1>3. req[r].op \in Giving
    BY HeadMay DEF Writes
  <1>4. Guarded(req[r].todo, {"insert", "move"}, "allowed", Present)
    BY <1>3 DEF UsageInv, Fit, Seen
  <1>5. req[r].todo[1][2] \in Present
    BY <1>1, <1>2, <1>4, GuardedHead
  <1> QED BY <1>2, <1>5 DEF Present
-----------------------------------------------------------------------------
(* The effect of each step *)

LEMMA StillEffect ==
    ASSUME UsageInv, NEW r \in Requests, UNCHANGED <<tables, uses, listed, suspect>>
    PROVE  Effect(r)
  <1>1. TablesInv'
    BY DEF UsageInv, TablesInv, Tables, HostsApart, NoDangling, Exists, tables
  <1> QED BY <1>1 DEF Effect, tables

LEMMA InsertEffect ==
    ASSUME UsageInv, NEW r \in Requests, InsertPolicyRIpobj(r)
    PROVE  Effect(r)
  <1>1. CASE UNCHANGED <<uses, suspect>>
    BY <1>1, StillEffect DEF InsertPolicyRIpobj
  <1>2. CASE ~UNCHANGED <<uses, suspect>>
    <2> DEFINE u == <<req[r].to, Subject(r)>>
    <2>1. /\ uses' = uses \cup {u} /\ UNCHANGED <<tables, listed>>
          /\ suspect' = IF req[r].crossed THEN suspect \cup {u} ELSE suspect
      BY <1>2 DEF InsertPolicyRIpobj
    <2>2. At(r, "insert")
      BY DEF InsertPolicyRIpobj
    <2>3. req[r].op \in Giving /\ req[r].to \in Rules /\ Subject(r) \in Items
      BY <2>2, HeadMay, HeadIs DEF Writes, At
    <2>4. req[r].crossed \/ Exists(u[2])
      BY <2>2, HeadSeen
    <2>5. Tables'
      BY <2>1, <2>3 DEF UsageInv, TablesInv, Tables, tables
    <2>6. HostsApart' /\ NoDangling'
      BY <2>1, <2>4 DEF UsageInv, TablesInv, HostsApart, NoDangling, Exists, tables
    <2> QED BY <2>1, <2>3, <2>5, <2>6 DEF Effect, TablesInv, tables
  <1> QED BY <1>1, <1>2

LEMMA MoveEffect ==
    ASSUME UsageInv, NEW r \in Requests, UpdatePosition(r)
    PROVE  Effect(r)
  <1>1. CASE UNCHANGED <<uses, suspect>>
    BY <1>1, StillEffect DEF UpdatePosition
  <1>2. CASE ~UNCHANGED <<uses, suspect>>
    <2> DEFINE old == <<req[r].rule, Subject(r)>>
               new == <<req[r].to, Subject(r)>>
    <2>1. /\ old \in uses /\ new \notin uses
          /\ uses' = (uses \ {old}) \cup {new} /\ UNCHANGED <<tables, listed>>
          /\ suspect' = (suspect \ {old}) \cup
                           (IF req[r].crossed \/ old \in suspect THEN {new} ELSE {})
      BY <1>2 DEF UpdatePosition
    <2>2. At(r, "move")
      BY DEF UpdatePosition
    <2>3. req[r].op \in Giving /\ req[r].to \in Rules /\ Subject(r) \in Items
      BY <2>2, HeadMay, HeadIs DEF Writes, At
    <2>4. req[r].crossed \/ Exists(new[2])
      BY <2>2, HeadSeen
    <2>5. Tables'
      BY <2>1, <2>3 DEF UsageInv, TablesInv, Tables, tables
    <2>6. HostsApart' /\ NoDangling'
      BY <2>1, <2>4 DEF UsageInv, TablesInv, HostsApart, NoDangling, Exists, tables
    <2> QED BY <2>1, <2>3, <2>5, <2>6 DEF Effect, TablesInv, tables
  <1> QED BY <1>1, <1>2

LEMMA UnuseEffect ==
    ASSUME UsageInv, NEW r \in Requests, DeletePolicyRIpobj(r)
    PROVE  Effect(r)
  <1>1. /\ uses' \subseteq uses /\ UNCHANGED <<tables, listed>>
        /\ suspect' = suspect \cap uses'
    BY DEF DeletePolicyRIpobj
  <1>2. Tables'
    BY <1>1 DEF UsageInv, TablesInv, Tables, tables
  <1>3. HostsApart' /\ NoDangling'
    BY <1>1 DEF UsageInv, TablesInv, HostsApart, NoDangling, Exists, tables
  <1> QED BY <1>1, <1>2, <1>3 DEF Effect, TablesInv, tables

LEMMA ListEffect ==
    ASSUME UsageInv, NEW r \in Requests, InsertPolicyRInterface(r)
    PROVE  Effect(r)
  <1>1. CASE UNCHANGED listed
    BY <1>1, StillEffect DEF InsertPolicyRInterface
  <1>2. CASE ~UNCHANGED listed
    <2> DEFINE k == <<req[r].to, Subject(r)>>
    <2>1. listed' = listed \cup {k} /\ UNCHANGED <<tables, uses, suspect>>
          /\ Subject(r) \in interfaces
      BY <1>2 DEF InsertPolicyRInterface
    <2>2. At(r, "list")
      BY DEF InsertPolicyRInterface
    <2>3. req[r].op \in Giving /\ req[r].to \in Rules /\ Subject(r) \notin HostInterfaces
      BY <2>2, HeadMay DEF Writes
    <2>4. Tables'
      BY <2>1, <2>3 DEF UsageInv, TablesInv, Tables, tables
    <2>5. HostsApart' /\ NoDangling'
      BY <2>1, <2>3 DEF UsageInv, TablesInv, HostsApart, NoDangling, Exists, tables
    <2> QED BY <2>1, <2>3, <2>4, <2>5 DEF Effect, TablesInv, tables
  <1> QED BY <1>1, <1>2

LEMMA UnlistEffect ==
    ASSUME UsageInv, NEW r \in Requests, DeletePolicyRInterface(r)
    PROVE  Effect(r)
  <1>1. listed' \subseteq listed /\ UNCHANGED <<tables, uses, suspect>>
    BY DEF DeletePolicyRInterface
  <1>2. Tables'
    BY <1>1 DEF UsageInv, TablesInv, Tables, tables
  <1>3. HostsApart' /\ NoDangling'
    BY <1>1 DEF UsageInv, TablesInv, HostsApart, NoDangling, Exists, tables
  <1> QED BY <1>1, <1>2, <1>3 DEF Effect, TablesInv, tables

LEMMA JoinEffect ==
    ASSUME UsageInv, NEW r \in Requests, InsertIpobjIpobjg(r)
    PROVE  Effect(r)
  <1>1. CASE UNCHANGED members
    BY <1>1, StillEffect DEF InsertIpobjIpobjg, tables
  <1>2. CASE ~UNCHANGED members
    <2> DEFINE m == <<req[r].to, Subject(r)>>
    <2>1. /\ members' = members \cup {m} /\ m[1] \in groups /\ m[2] \in DOMAIN ipobj
          /\ UNCHANGED <<ipobj, interfaces, links, groups, uses, listed, suspect>>
      BY <1>2 DEF InsertIpobjIpobjg
    <2>2. req[r].op \in Giving
      BY HeadMay DEF Writes, InsertIpobjIpobjg
    <2>3. Tables'
      BY <2>1 DEF UsageInv, TablesInv, Tables
    <2>4. HostsApart' /\ NoDangling'
      BY <2>1 DEF UsageInv, TablesInv, HostsApart, NoDangling, Exists
    <2> QED BY <2>1, <2>2, <2>3, <2>4 DEF Effect, TablesInv
  <1> QED BY <1>1, <1>2

\* A step of a removal that takes members of groups away.
LEMMA LeaveEffect ==
    ASSUME UsageInv, NEW r \in Requests, members' \subseteq members,
           UNCHANGED <<ipobj, interfaces, links, groups, uses, listed, suspect>>
    PROVE  Effect(r)
  <1>1. Tables'
    BY DEF UsageInv, TablesInv, Tables
  <1>2. HostsApart' /\ NoDangling'
    BY DEF UsageInv, TablesInv, HostsApart, NoDangling, Exists
  <1> QED BY <1>1, <1>2 DEF Effect, TablesInv

LEMMA CreateEffect ==
    ASSUME UsageInv, NEW r \in Requests, InsertIpobj(r)
    PROVE  Effect(r)
  <1>1. CASE UNCHANGED ipobj
    BY <1>1, StillEffect DEF InsertIpobj, tables
  <1>2. CASE ~UNCHANGED ipobj
    <2> DEFINE id == req[r].id
               new == Address(Subject(r), req[r].version)
    <2>1. /\ ipobj' = [x \in DOMAIN ipobj \cup {id} |-> IF x = id THEN new ELSE ipobj[x]]
          /\ id \notin DOMAIN ipobj /\ Subject(r) \in interfaces
          /\ UNCHANGED <<interfaces, links, groups, members, uses, listed, suspect>>
      BY <1>2 DEF InsertIpobj
    <2>2. req[r].op \in Giving /\ id \in Ids /\ req[r].version \in {4, 6}
      BY HeadMay DEF Writes, InsertIpobj
    <2> HIDE DEF id
    <2>3. DOMAIN ipobj' = DOMAIN ipobj \cup {id} /\ ipobj'[id] = new
          /\ \A x \in DOMAIN ipobj : ipobj'[x] = ipobj[x]
      BY <2>1
    <2>4. Subject(r) \in Interfaces
      BY <2>1 DEF UsageInv, TablesInv, Tables
    <2>5. new \in Row /\ new.interface = Subject(r)
      BY <2>2, <2>4 DEF Row, Address
    <2> HIDE DEF new
    <2>6. Tables'
      BY <2>1, <2>2, <2>3, <2>5 DEF UsageInv, TablesInv, Tables
    <2>7. HostsApart' /\ NoDangling'
      BY <2>1, <2>3 DEF UsageInv, TablesInv, Tables, HostsApart, NoDangling, Exists
    <2> QED BY <2>1, <2>2, <2>3, <2>6, <2>7 DEF Effect, TablesInv
  <1> QED BY <1>1, <1>2

LEMMA UnlinkEffect ==
    ASSUME UsageInv, NEW r \in Requests, DeleteHostInterface(r)
    PROVE  Effect(r)
  <1>1. links' \subseteq links
        /\ UNCHANGED <<ipobj, interfaces, groups, members, uses, listed, suspect>>
    BY DEF DeleteHostInterface
  <1>2. Tables'
    BY <1>1 DEF UsageInv, TablesInv, Tables
  <1>3. HostsApart' /\ NoDangling'
    BY <1>1 DEF UsageInv, TablesInv, HostsApart, NoDangling, Exists
  <1> QED BY <1>1, <1>2, <1>3 DEF Effect, TablesInv

\* Rows that no rule names, but as the history suspects.
LEMMA RowsEffect ==
    ASSUME UsageInv, NEW r \in Requests, req[r].op \in Taking,
           NEW rows, req[r].misled \/ rows \subseteq Clean, DeleteRows(r, rows)
    PROVE  Effect(r)
  <1>1. CASE UNCHANGED <<ipobj, suspect>>
    BY <1>1, StillEffect DEF DeleteRows, tables
  <1>2. CASE ~UNCHANGED <<ipobj, suspect>>
    <2>1. /\ ipobj' = Restrict(ipobj, DOMAIN ipobj \ rows)
          /\ \A m \in members : m[2] \notin rows
          /\ \A k \in links : k[2] \notin rows
          /\ Blame(r, rows)
          /\ UNCHANGED <<interfaces, links, groups, members, uses, listed>>
      BY <1>2 DEF DeleteRows
    <2>2. DOMAIN ipobj' = DOMAIN ipobj \ rows
          /\ \A x \in DOMAIN ipobj \ rows : ipobj'[x] = ipobj[x]
      BY <2>1 DEF Restrict
    <2>3. suspect \subseteq suspect' /\ (suspect \subseteq uses => suspect' \subseteq uses)
          /\ \A u \in uses : u[2] \in rows /\ u[2] \in Items => u \in suspect'
      BY <2>1 DEF Blame, Clean
    <2>4. Tables'
      BY <2>1, <2>2, <2>3 DEF UsageInv, TablesInv, Tables
    <2>5. HostsApart'
      BY <2>1, <2>2 DEF UsageInv, TablesInv, Tables, HostsApart
    <2>6. NoDangling'
      BY <2>1, <2>2, <2>3 DEF UsageInv, TablesInv, Tables, NoDangling, Exists
    <2> QED BY <2>1, <2>2, <2>3, <2>4, <2>5, <2>6 DEF Effect, TablesInv
  <1> QED BY <1>1, <1>2

LEMMA AddressesEffect ==
    ASSUME UsageInv, NEW r \in Requests, DeleteIpobjInterface(r)
    PROVE  Effect(r)
  <1> DEFINE rows == {a \in Addresses : ipobj[a].interface = Subject(r)}
  <1>1. At(r, "addresses") /\ DeleteRows(r, rows)
    BY DEF DeleteIpobjInterface
  <1>2. req[r].op \in Taking
    BY <1>1, HeadMay DEF Removes
  <1>3. ~req[r].misled => Subject(r) \in Emptiable
    BY <1>1, <1>2, HeadSearched
  <1>4. rows \subseteq AddrOf(Subject(r))
    BY DEF AddrOf
  <1>5. req[r].misled \/ rows \subseteq Clean
    BY <1>3, <1>4 DEF Emptiable
  <1> HIDE DEF rows
  <1> QED BY <1>1, <1>2, <1>5, RowsEffect

LEMMA EraseEffect ==
    ASSUME UsageInv, NEW r \in Requests, DeleteIpobj(r)
    PROVE  Effect(r)
  <1>1. At(r, "erase") /\ DeleteRows(r, {Subject(r)})
    BY DEF DeleteIpobj
  <1>2. req[r].op \in Taking
    BY <1>1, HeadMay DEF Removes
  <1>3. req[r].misled \/ {Subject(r)} \subseteq Clean
    BY <1>1, <1>2, HeadSearched
  <1> QED BY <1>1, <1>2, <1>3, RowsEffect

LEMMA InterfaceEffect ==
    ASSUME UsageInv, NEW r \in Requests, DeleteInterface(r)
    PROVE  Effect(r)
  <1>1. CASE UNCHANGED interfaces
    <2>1. suspect' = suspect
      BY <1>1 DEF DeleteInterface, Blame
    <2> QED BY <1>1, <2>1, StillEffect DEF DeleteInterface, tables
  <1>2. CASE ~UNCHANGED interfaces
    <2> DEFINE i == Subject(r)
    <2>1. /\ interfaces' = interfaces \ {i} /\ i \in interfaces
          /\ \A k \in links : k[1] # i
          /\ \A k \in listed : k[2] # i
          /\ \A a \in Addresses : ipobj[a].interface # i
          /\ Blame(r, interfaces \ interfaces')
          /\ UNCHANGED <<ipobj, links, groups, members, uses, listed>>
      BY <1>2 DEF DeleteInterface
    <2>2. At(r, "interface")
      BY DEF DeleteInterface
    <2>3. req[r].op \in Taking
      BY <2>2, HeadMay DEF Removes
    <2>4. i \in Clean \/ req[r].misled
      BY <2>2, <2>3, HeadSearched
    <2>5. /\ suspect \subseteq suspect' /\ (suspect \subseteq uses => suspect' \subseteq uses)
          /\ \A u \in uses : u[2] = i => u \in suspect'
      BY <2>1, <2>4 DEF Blame, Clean
    <2>6. Tables'
      BY <2>1, <2>5 DEF UsageInv, TablesInv, Tables, Addresses
    <2>7. HostsApart'
      BY <2>1 DEF UsageInv, TablesInv, HostsApart
    <2>8. NoDangling'
      BY <2>1, <2>5 DEF UsageInv, TablesInv, NoDangling, Exists
    <2> QED BY <2>1, <2>3, <2>5, <2>6, <2>7, <2>8 DEF Effect, TablesInv
  <1> QED BY <1>1, <1>2

LEMMA GroupEffect ==
    ASSUME UsageInv, NEW r \in Requests, DeleteGroup(r)
    PROVE  Effect(r)
  <1>1. CASE UNCHANGED groups
    BY <1>1, StillEffect DEF DeleteGroup, tables
  <1>2. CASE ~UNCHANGED groups
    <2> DEFINE g == Subject(r)
    <2>1. /\ groups' = groups \ {g} /\ MembersOf(g) = {}
          /\ UNCHANGED <<ipobj, interfaces, links, members, uses, listed, suspect>>
      BY <1>2 DEF DeleteGroup
    <2>2. At(r, "group")
      BY DEF DeleteGroup
    <2>3. req[r].op \in Taking
      BY <2>2, HeadMay DEF Removes
    <2>4. g \in Clean
      BY <2>2, <2>3, HeadSearched, HeadMay
    <2>5. \A m \in members : m[1] # g
      BY <2>1 DEF UsageInv, TablesInv, Tables, MembersOf
    <2>6. Tables'
      BY <2>1, <2>5 DEF UsageInv, TablesInv, Tables
    <2>7. HostsApart'
      BY <2>1 DEF UsageInv, TablesInv, HostsApart
    <2>8. NoDangling'
      BY <2>1, <2>4 DEF UsageInv, TablesInv, NoDangling, Exists, Clean
    <2> QED BY <2>1, <2>3, <2>6, <2>7, <2>8 DEF Effect, TablesInv
  <1> QED BY <1>1, <1>2

LEMMA ServeEffect ==
    ASSUME UsageInv, NEW r \in Requests, Serve(r)
    PROVE  Effect(r)
  <1>1. CASE \/ Container(r) \/ ExistsInPosition(r) \/ CheckIpVersion(r)
             \/ CheckIpobjPosition(r) \/ CheckInterfacePosition(r) \/ GroupIPVersion(r)
             \/ HostContent(r) \/ CountGroupItems(r) \/ HighestId(r)
    BY <1>1, StillEffect DEF Container, ExistsInPosition, CheckIpVersion,
       CheckIpobjPosition, CheckInterfacePosition, GroupIPVersion, HostContent,
       CountGroupItems, HighestId
  <1>2. CASE Search(r) \/ HostInterfacesOf(r) \/ AnswerError(r)
    BY <1>2, StillEffect DEF Search, HostInterfacesOf, AnswerError
  <1>3. CASE DeleteIpobjIpobjg(r) \/ DeleteMembers(r)
    BY <1>3, LeaveEffect DEF DeleteIpobjIpobjg, DeleteMembers
  <1> QED
    BY <1>1, <1>2, <1>3, InsertEffect, MoveEffect, UnuseEffect, ListEffect, UnlistEffect,
       JoinEffect, CreateEffect, UnlinkEffect, AddressesEffect, EraseEffect,
       InterfaceEffect, GroupEffect DEF Serve
-----------------------------------------------------------------------------
(* What is good stays good *)

\* A removal in flight knows of whatever is put in a rule meanwhile.
CrossedGives == \A u \in uses' \ uses : u \in suspect'

LEMMA CleanGrows ==
    ASSUME UsageInv, NEW r \in Requests, Effect(r), CrossedGives
    PROVE  Clean \subseteq Clean' /\ Emptiable \subseteq Emptiable'
           /\ HostClean \subseteq HostClean'
  <1>1. Clean \subseteq Clean'
    BY DEF Clean, Effect, CrossedGives
  <1>2. ASSUME NEW x \in Emptiable, NEW a \in AddrOf(x)' PROVE a \in Clean'
    <2>1. CASE a \in DOMAIN ipobj
      <3>1. a \in AddrOf(x)
        BY <1>2, <2>1 DEF AddrOf, Addresses, Effect
      <3> QED BY <1>1, <3>1 DEF Emptiable
    <2>2. CASE a \notin DOMAIN ipobj
      <3>1. a \in DOMAIN ipobj'
        BY DEF AddrOf, Addresses
      <3>2. a \in Ids /\ a \in Items
        BY <3>1 DEF Effect, TablesInv, Tables, Items
      <3>3. ~Exists(a)
        BY <2>2, <3>2, Apart DEF Exists, UsageInv, TablesInv, Tables
      <3>4. a \in Clean
        BY <3>2, <3>3 DEF Clean, UsageInv, TablesInv, NoDangling
      <3> QED BY <1>1, <3>4
    <2> QED BY <2>1, <2>2
  <1>3. Emptiable \subseteq Emptiable'
    BY <1>2 DEF Emptiable
  <1>4. HostClean \subseteq HostClean'
    BY <1>1 DEF HostClean, Effect
  <1> QED BY <1>1, <1>3, <1>4

\* What a removal that was not misled relies on of the objects that it searches.
LEMMA MeantStays ==
    ASSUME UsageInv, NEW r \in Requests, Effect(r), CrossedGives,
           NEW p, NEW q, q.op = p.op, p.crossed => q.crossed,
           req[r].op \in Giving => p.crossed, NEW x \in Items, Meant(p, x)
    PROVE  Meant(q, x)'
  <1>1. x \in Lost => x \in Lost'
    BY CleanGrows DEF Lost
  <1>2. CASE x \in Interfaces /\ TypeOf(x) = p.op
    <2>1. x \notin DOMAIN ipobj /\ x \notin DOMAIN ipobj'
      BY <1>2, Apart DEF UsageInv, Effect, TablesInv, Tables
    <2> QED BY <1>2, <2>1 DEF Meant, TypeOf
  <1>3. CASE x \in DOMAIN ipobj /\ TypeOf(x) = p.op
    <2>1. CASE x \in DOMAIN ipobj'
      BY <1>3, <2>1 DEF Meant, TypeOf, Effect
    <2>2. CASE x \notin DOMAIN ipobj'
      BY <1>3, <2>2 DEF Meant, UsageInv, TablesInv, Tables
    <2> QED BY <2>1, <2>2
  <1>4. CASE x \in Ids \ DOMAIN ipobj
    <2>1. CASE x \in DOMAIN ipobj'
      <3>1. p.crossed
        BY <1>4, <2>1 DEF Effect
      <3>2. ~Exists(x)
        BY <1>4, Apart DEF Exists, UsageInv, TablesInv, Tables
      <3>3. x \in Clean
        BY <3>2 DEF Clean, UsageInv, TablesInv, NoDangling
      <3>4. AddrOf(x) = {} /\ \A k \in links : k[2] # x
        BY <1>4, Apart DEF AddrOf, Addresses, Exists, UsageInv, TablesInv, Tables, Row
      <3>5. x \in Lost
        BY <3>3, <3>4 DEF Lost, Emptiable, HostClean
      <3> QED BY <1>1, <3>1, <3>5 DEF Meant
    <2>2. CASE x \notin DOMAIN ipobj'
      BY <1>4, <2>2 DEF Meant
    <2> QED BY <2>1, <2>2
  <1>5. CASE p.crossed /\ x \in Lost
    BY <1>1, <1>5 DEF Meant
  <1> QED BY <1>2, <1>3, <1>4, <1>5 DEF Meant

LEMMA KeysGrow ==
    ASSUME UsageInv, NEW r \in Requests, Effect(r), req[r].op \notin Giving
    PROVE  /\ Ungrouped \subseteq Ungrouped' /\ AddrUngrouped \subseteq AddrUngrouped'
           /\ Unlisted \subseteq Unlisted' /\ Unlinked \subseteq Unlinked'
           /\ Bare \subseteq Bare' /\ Memberless \subseteq Memberless'
  <1>1. /\ DOMAIN ipobj' \subseteq DOMAIN ipobj /\ members' \subseteq members
        /\ listed' \subseteq listed /\ links' \subseteq links
        /\ \A x \in DOMAIN ipobj : x \in DOMAIN ipobj' => ipobj'[x] = ipobj[x]
    BY DEF Effect
  <1>2. ASSUME NEW x PROVE AddrOf(x)' \subseteq AddrOf(x)
    BY <1>1 DEF AddrOf, Addresses
  <1>3. Ungrouped \subseteq Ungrouped'
    BY <1>1 DEF Ungrouped
  <1>4. AddrUngrouped \subseteq AddrUngrouped'
    BY <1>2, <1>3 DEF AddrUngrouped
  <1>5. Bare \subseteq Bare'
    BY <1>1 DEF Bare, Addresses
  <1>6. Unlisted \subseteq Unlisted' /\ Unlinked \subseteq Unlinked'
    BY <1>1 DEF Unlisted, Unlinked
  <1>7. Memberless \subseteq Memberless'
    BY <1>1 DEF Memberless
  <1> QED BY <1>3, <1>4, <1>5, <1>6, <1>7

LEMMA PresentGrows ==
    ASSUME NEW r \in Requests, Effect(r), req[r].op \notin Taking
    PROVE  Present \subseteq Present'
  BY DEF Present, Exists, Effect
-----------------------------------------------------------------------------
(* The requests that do not step *)

LEMMA Clashing ==
    ASSUME UsageInv, NEW r \in Requests, NEW q \in Requests, q # r, ~Free(r), ~Free(q)
    PROVE  /\ req[r].op \in Giving /\ req[q].op \in Taking => req[r].crossed /\ req[q].crossed
           /\ req[r].op \in Taking /\ req[q].op \in Taking => req[q].crossed
           /\ req[r].op \in Taking /\ req[q].op \in Giving => req[q].crossed
  BY DEF UsageInv, Crossing, Clash

LEMMA OthersStaySearched ==
    ASSUME UsageInv, NEW r \in Requests, Effect(r), ~Free(r),
           NEW q \in Requests, q # r, ~Free(q), req'[q] = req[q]
    PROVE  Searched(req[q])'
  <1> SUFFICES ASSUME req[q].op \in Taking, ~req[q].misled PROVE Searched(req[q])'
    BY DEF Searched
  <1>1. CrossedGives
    BY Clashing DEF CrossedGives, Effect
  <1>2. Searched(req[q])
    BY DEF UsageInv, Fit
  <1> QED BY <1>1, <1>2, CleanGrows, GuardedGrows DEF Searched

LEMMA OthersStayApt ==
    ASSUME UsageInv, NEW r \in Requests, Effect(r), ~Free(r),
           NEW q \in Requests, q # r, ~Free(q), req'[q] = req[q]
    PROVE  Apt(req[q])'
  <1> SUFFICES ASSUME NEW d, d = req[q], d.op \in ByType, ~d.misled,
                      NEW k \in DOMAIN d.todo, d.todo[k][1] \in Searches
               PROVE  Meant(d, d.todo[k][2])'
    BY DEF Apt, Meant, Lost
  <1>1. d.op \in Taking
    BY DEF Taking, ByType
  <1>2. CrossedGives /\ (req[r].op \in Giving => d.crossed)
    BY <1>1, Clashing DEF CrossedGives, Effect
  <1>3. Meant(d, d.todo[k][2])
    BY DEF UsageInv, Fit, Apt
  <1>4. d.todo[k][2] \in Items
    <2>1. d.todo \in Seq(Labels \X Items)
      BY DEF UsageInv, Typed, Request
    <2> QED BY <2>1
  <1> QED BY <1>2, <1>3, <1>4, MeantStays

LEMMA OthersStaySeen ==
    ASSUME UsageInv, NEW r \in Requests, Effect(r), ~Free(r),
           NEW q \in Requests, q # r, ~Free(q), req'[q] = req[q]
    PROVE  Seen(req[q])'
  <1> SUFFICES ASSUME req[q].op \in Giving, ~req[q].crossed PROVE Seen(req[q])'
    BY DEF Seen
  <1>1. req[r].op \notin Taking
    BY Clashing
  <1>2. Seen(req[q])
    BY DEF UsageInv, Fit
  <1> QED BY <1>1, <1>2, PresentGrows, GuardedGrows DEF Seen

LEMMA OthersStaySure ==
    ASSUME UsageInv, NEW r \in Requests, Effect(r), ~Free(r),
           NEW q \in Requests, q # r, ~Free(q), req'[q] = req[q]
    PROVE  Sure(req[q])'
  <1> SUFFICES ASSUME req[q].op \in Taking, ~req[q].crossed PROVE Sure(req[q])'
    BY DEF Sure
  <1>1. req[r].op \notin Giving
    BY Clashing
  <1>2. Sure(req[q])
    BY DEF UsageInv, Fit
  <1> QED BY <1>1, <1>2, KeysGrow, GuardedGrows DEF Sure

LEMMA OthersStayFit ==
    ASSUME UsageInv, NEW r \in Requests, Effect(r), ~Free(r),
           NEW q \in Requests, q # r, req'[q] = req[q]
    PROVE  Fit(req[q])'
  <1>1. CASE Free(q)
    <2>1. req'[q].todo = << >>
      BY <1>1 DEF Free
    <2> QED BY <2>1 DEF Fit, Plan, Seen, Searched, Apt, Sure, Owned, Unhosted, Guarded
  <1>2. CASE ~Free(q)
    <2>1. Plan(req[q])'
      BY DEF UsageInv, Fit, Plan, Numbered
    <2>2. Unhosted(req[q])' /\ Owned(req[q])'
      BY DEF UsageInv, Fit, Unhosted, Owned, Effect
    <2> QED BY <1>2, <2>1, <2>2, OthersStaySearched, OthersStayApt, OthersStaySeen,
               OthersStaySure DEF Fit
  <1> QED BY <1>1, <1>2
-----------------------------------------------------------------------------
(* The request that steps *)

LEMMA ThenIs ==
    ASSUME Typed, NEW r \in Requests, NEW t \in Seq(Labels \X Items), Then(r, t)
    PROVE  /\ req' \in [Requests -> Request]
           /\ \A q \in Requests : q # r => req'[q] = req[q]
           /\ req'[r].todo = t
           /\ t # << >> => req'[r] = [req[r] EXCEPT !.todo = t]
  <1>1. req[r] \in Request /\ [req[r] EXCEPT !.todo = t] \in Request
    <2>1. req[r] \in Request
      BY DEF Typed
    <2> DEFINE Todos == Seq(Labels \X Items)
    <2> HIDE DEF Todos
    <2>2. ASSUME NEW q \in Request, NEW u \in Todos PROVE [q EXCEPT !.todo = u] \in Request
      BY DEF Request, Todos
    <2> QED BY <2>1, <2>2 DEF Todos
  <1>2. NoRequest \in Request
    BY ObjectUsageAssumption DEF NoRequest, Request, NoOne
  <1>3. NoRequest.todo = << >> /\ [req[r] EXCEPT !.todo = t].todo = t
    BY <1>1 DEF NoRequest, Request
  <1>4. req' = [req EXCEPT ![r] = IF t = << >> THEN NoRequest ELSE [@ EXCEPT !.todo = t]]
    BY DEF Then
  <1> QED BY <1>1, <1>2, <1>3, <1>4 DEF Typed

\* What the step has seen to, of what later ones rely on.
Discharged(r, x) ==
    /\ At(r, "listable") => x \notin HostInterfaces
    /\ At(r, "allowed") => x \in Present'
    /\ req[r].op \in Taking /\ ~req[r].misled =>
         /\ At(r, "inRule") => x \in Clean'
         /\ At(r, "addressesInRule") => x \in Emptiable'
         /\ At(r, "interfacesInRule") => x \in HostClean'
    /\ req[r].op \in Taking /\ ~req[r].crossed =>
         /\ At(r, "inGroup") => x \in Ungrouped'
         /\ At(r, "addressesInGroup") => x \in AddrUngrouped'
         /\ At(r, "listed") => x \in Unlisted'
         /\ At(r, "unlink") => x \in Unlinked'
         /\ At(r, "addresses") => x \in Bare'
         /\ At(r, "empty") => x \in Memberless'

Like(p, q) ==
    /\ q.op = p.op /\ q.to = p.to /\ q.version = p.version
    /\ q.misled = p.misled /\ q.crossed = p.crossed
    /\ p.id >= 1 => q.id >= 1
    /\ p.op \in Taking => q.id = p.id

LEMMA TailPlan ==
    ASSUME UsageInv, NEW r \in Requests, ~Free(r), Discharged(r, Subject(r)),
           NEW q, Like(req[r], q), q.todo = Tail(req[r].todo),
           At(r, "highest") => q.id >= 1
    PROVE  Plan(q)'
  <1> DEFINE s == req[r].todo
  <1>1. s \in Seq(Labels \X Items) /\ s # << >> /\ s[1] \in Labels \X Items
        /\ s[1] = <<s[1][1], Subject(r)>> /\ Subject(r) \in Items
    BY HeadIs DEF Free
  <1>2. Plan(req[r])
    BY DEF UsageInv, Fit
  <1>3. Guarded(s, {"list"}, "listable", Items \ HostInterfaces)
        /\ Guarded(s, {"create"}, "highest", Numbered(req[r]))
    BY <1>2 DEF Plan
  <1> HIDE DEF s
  <1>4. Guarded(Tail(s), {"list"}, "listable", Items \ HostInterfaces)
    <2>1. s[1] = <<"listable", s[1][2]>> => s[1][2] \in Items \ HostInterfaces
      BY <1>1 DEF Discharged, At, s
    <2> QED BY <1>1, <1>3, <2>1, GuardedTail
  <1>5. Guarded(Tail(s), {"create"}, "highest", Numbered(q))
    <2>1. s[1] = <<"highest", s[1][2]>> => s[1][2] \in Numbered(q)
      BY <1>1 DEF Numbered, At, s
    <2>2. Numbered(req[r]) \subseteq Numbered(q)
      BY DEF Numbered, Like
    <2> QED BY <1>1, <1>3, <2>1, <2>2, GuardedTail
  <1>6. \A k \in DOMAIN Tail(s) : k + 1 \in DOMAIN s /\ Tail(s)[k] = s[k + 1]
    BY <1>1, TailIs
  <1> QED BY <1>2, <1>4, <1>5, <1>6 DEF Plan, Like, s, Numbered

LEMMA TailSeen ==
    ASSUME UsageInv, NEW r \in Requests, ~Free(r), Effect(r), Discharged(r, Subject(r)),
           NEW q, Like(req[r], q), q.todo = Tail(req[r].todo)
    PROVE  Seen(q)'
  <1> SUFFICES ASSUME q.op \in Giving, ~q.crossed PROVE Seen(q)'
    BY DEF Seen
  <1> DEFINE s == req[r].todo
  <1>1. s \in Seq(Labels \X Items) /\ s # << >> /\ s[1] \in Labels \X Items
        /\ s[1] = <<s[1][1], Subject(r)>> /\ Subject(r) \in Items
    BY HeadIs DEF Free
  <1>2. Guarded(s, {"insert", "move"}, "allowed", Present)
    BY DEF UsageInv, Fit, Seen, Like
  <1>3. Present \subseteq Present'
    BY PresentGrows DEF Like, Giving, Taking, ByType
  <1>4. s[1] = <<"allowed", s[1][2]>> => s[1][2] \in Present'
    BY <1>1 DEF Discharged, At
  <1> HIDE DEF s
  <1>5. Guarded(Tail(s), {"insert", "move"}, "allowed", Present')
    BY <1>1, <1>2, <1>3, <1>4, GuardedTail
  <1> QED BY <1>5 DEF Seen, s

LEMMA TailSearched ==
    ASSUME UsageInv, NEW r \in Requests, ~Free(r), Effect(r), Discharged(r, Subject(r)),
           NEW q, Like(req[r], q), q.todo = Tail(req[r].todo)
    PROVE  Searched(q)'
  <1> SUFFICES ASSUME q.op \in Taking, ~q.misled PROVE Searched(q)'
    BY DEF Searched
  <1> DEFINE s == req[r].todo
  <1>1. s \in Seq(Labels \X Items) /\ s # << >> /\ s[1] \in Labels \X Items
        /\ s[1] = <<s[1][1], Subject(r)>> /\ Subject(r) \in Items
    BY HeadIs DEF Free
  <1>2. /\ Guarded(s, {"erase", "interface", "group", "unlink"}, "inRule", Clean)
        /\ Guarded(s, {"addresses", "unlink", "interfaces"}, "addressesInRule", Emptiable)
        /\ Guarded(s, {"interfaces"}, "interfacesInRule", HostClean)
    BY DEF UsageInv, Fit, Searched, Like
  <1>3. CrossedGives
    BY DEF CrossedGives, Effect, Like, Giving, Taking, ByType
  <1>4. /\ Clean \subseteq Clean' /\ Emptiable \subseteq Emptiable'
        /\ HostClean \subseteq HostClean'
    BY <1>3, CleanGrows
  <1>5. /\ s[1] = <<"inRule", s[1][2]>> => s[1][2] \in Clean'
        /\ s[1] = <<"addressesInRule", s[1][2]>> => s[1][2] \in Emptiable'
        /\ s[1] = <<"interfacesInRule", s[1][2]>> => s[1][2] \in HostClean'
    BY <1>1 DEF Discharged, At, Like
  <1> HIDE DEF s
  <1>6. Guarded(Tail(s), {"erase", "interface", "group", "unlink"}, "inRule", Clean')
    BY <1>1, <1>2, <1>4, <1>5, GuardedTail
  <1>7. Guarded(Tail(s), {"addresses", "unlink", "interfaces"}, "addressesInRule", Emptiable')
    BY <1>1, <1>2, <1>4, <1>5, GuardedTail
  <1>8. Guarded(Tail(s), {"interfaces"}, "interfacesInRule", HostClean')
    BY <1>1, <1>2, <1>4, <1>5, GuardedTail
  <1> QED BY <1>6, <1>7, <1>8 DEF Searched, s

LEMMA TailApt ==
    ASSUME UsageInv, NEW r \in Requests, ~Free(r), Effect(r),
           NEW q, Like(req[r], q), q.todo = Tail(req[r].todo)
    PROVE  Apt(q)'
  <1> SUFFICES ASSUME q.op \in ByType, ~q.misled, NEW k \in DOMAIN q.todo,
                      q.todo[k][1] \in Searches
               PROVE  Meant(q, q.todo[k][2])'
    BY DEF Apt
  <1> SUFFICES ASSUME NEW p, p = req[r] PROVE Meant(q, q.todo[k][2])'
    OBVIOUS
  <1>1. p.op \in Taking /\ p.op \notin Giving
    BY DEF Like, ByType, Taking, Giving
  <1>2. CrossedGives
    BY <1>1 DEF CrossedGives, Effect
  <1>3. p.todo \in Seq(Labels \X Items) /\ p.todo # << >>
    BY HeadIs DEF Free
  <1>4. k + 1 \in DOMAIN p.todo /\ q.todo[k] = p.todo[k + 1]
    BY <1>3, TailIs
  <1>5. p.todo[k + 1][2] \in Items
    BY <1>3, <1>4
  <1>6. Meant(p, p.todo[k + 1][2])
    BY <1>4 DEF UsageInv, Fit, Apt, Like
  <1> QED BY <1>1, <1>2, <1>4, <1>5, <1>6, MeantStays DEF Like

LEMMA TailOwned ==
    ASSUME UsageInv, NEW r \in Requests, ~Free(r), Effect(r),
           NEW q, Like(req[r], q), q.todo = Tail(req[r].todo)
    PROVE  Owned(q)'
  <1>1. req[r].todo \in Seq(Labels \X Items) /\ req[r].todo # << >>
    BY HeadIs DEF Free
  <1>2. \A k \in DOMAIN q.todo :
           k + 1 \in DOMAIN req[r].todo /\ q.todo[k] = req[r].todo[k + 1]
    BY <1>1, TailIs
  <1>3. Owned(req[r]) /\ links' \subseteq links
    BY DEF UsageInv, Fit, Effect
  <1> QED BY <1>2, <1>3 DEF Owned, Like

LEMMA TailSure ==
    ASSUME UsageInv, NEW r \in Requests, ~Free(r), Effect(r), Discharged(r, Subject(r)),
           NEW q, Like(req[r], q), q.todo = Tail(req[r].todo)
    PROVE  Sure(q)'
  <1> SUFFICES ASSUME q.op \in Taking, ~q.crossed PROVE Sure(q)'
    BY DEF Sure
  <1> DEFINE s == req[r].todo
  <1>1. s \in Seq(Labels \X Items) /\ s # << >> /\ s[1] \in Labels \X Items
        /\ s[1] = <<s[1][1], Subject(r)>> /\ Subject(r) \in Items
    BY HeadIs DEF Free
  <1>2. Sure(req[r]) /\ req[r].op \in Taking /\ ~req[r].crossed
    BY DEF UsageInv, Fit, Like
  <1>3. req[r].op \notin Giving
    BY <1>2 DEF Giving, Taking, ByType
  <1>4. /\ s[1] = <<"inGroup", s[1][2]>> => s[1][2] \in Ungrouped'
        /\ s[1] = <<"addressesInGroup", s[1][2]>> => s[1][2] \in AddrUngrouped'
        /\ s[1] = <<"listed", s[1][2]>> => s[1][2] \in Unlisted'
        /\ s[1] = <<"unlink", s[1][2]>> => s[1][2] \in Unlinked'
        /\ s[1] = <<"addresses", s[1][2]>> => s[1][2] \in Bare'
        /\ s[1] = <<"empty", s[1][2]>> => s[1][2] \in Memberless'
    BY <1>1, <1>2 DEF Discharged, At
  <1>5. /\ Guarded(s, {"erase"}, "inGroup", Ungrouped)
        /\ Guarded(s, {"addresses", "unlink", "interfaces"}, "addressesInGroup",
                   AddrUngrouped)
        /\ Guarded(s, {"addresses", "interface", "unlink"}, "listed", Unlisted)
        /\ Guarded(s, {"addresses", "interface"}, "unlink", Unlinked)
        /\ Guarded(s, {"interface"}, "addresses", Bare)
        /\ Guarded(s, {"group"}, "empty", Memberless)
    BY <1>2 DEF Sure
  <1> HIDE DEF s
  <1>6. Guarded(Tail(s), {"erase"}, "inGroup", Ungrouped')
    BY <1>1, <1>3, <1>4, <1>5, KeysGrow, GuardedTail
  <1>7. Guarded(Tail(s), {"addresses", "unlink", "interfaces"}, "addressesInGroup",
                AddrUngrouped')
    BY <1>1, <1>3, <1>4, <1>5, KeysGrow, GuardedTail
  <1>8. Guarded(Tail(s), {"addresses", "interface", "unlink"}, "listed", Unlisted')
    BY <1>1, <1>3, <1>4, <1>5, KeysGrow, GuardedTail
  <1>9. Guarded(Tail(s), {"addresses", "interface"}, "unlink", Unlinked')
    BY <1>1, <1>3, <1>4, <1>5, KeysGrow, GuardedTail
  <1>10. Guarded(Tail(s), {"interface"}, "addresses", Bare')
    BY <1>1, <1>3, <1>4, <1>5, KeysGrow, GuardedTail
  <1>11. Guarded(Tail(s), {"group"}, "empty", Memberless')
    BY <1>1, <1>3, <1>4, <1>5, KeysGrow, GuardedTail
  <1> QED BY <1>6, <1>7, <1>8, <1>9, <1>10, <1>11 DEF Sure, s

LEMMA TailHosts ==
    ASSUME UsageInv, NEW r \in Requests, ~Free(r), Effect(r),
           req[r].op \in Taking, ~req[r].crossed, NEW q, q.todo = Tail(req[r].todo),
           NEW k \in DOMAIN q.todo, NEW l \in links', q.todo[k] = <<"erase", l[2]>>
    PROVE  \/ \E j \in 1..(k - 1) :
                 q.todo[j] \in {<<"interfaces", l[2]>>, <<"unlink", l[1]>>}
           \/ req[r].todo[1] \in {<<"interfaces", l[2]>>, <<"unlink", l[1]>>}
  <1> DEFINE s == req[r].todo
  <1>1. s \in Seq(Labels \X Items) /\ s # << >>
    BY HeadIs DEF Free
  <1>2. Unhosted(req[r]) /\ l \in links
    BY DEF UsageInv, Fit, Effect
  <1>3. k \in Nat /\ k >= 1 /\ k + 1 \in DOMAIN s /\ s[k + 1] = <<"erase", l[2]>>
    BY <1>1, TailIs
  <1>4. PICK j \in 1..((k + 1) - 1) : s[j] \in {<<"interfaces", l[2]>>, <<"unlink", l[1]>>}
    BY <1>2, <1>3 DEF Unhosted
  <1>5. CASE j # 1
    <2>1. j - 1 \in 1..(k - 1) /\ j \in DOMAIN s /\ j > 1
      BY <1>1, <1>3, <1>4, <1>5
    <2>2. Tail(s)[j - 1] = s[j]
      BY <1>1, <2>1, TailIs
    <2> QED BY <1>4, <2>1, <2>2
  <1> QED BY <1>4, <1>5

LEMMA TailUnhosted ==
    ASSUME UsageInv, NEW r \in Requests, ~Free(r), Effect(r),
           ~At(r, "interfaces"), ~At(r, "unlink"),
           NEW q, Like(req[r], q), q.todo = Tail(req[r].todo)
    PROVE  Unhosted(q)'
  <1>1. req[r].todo[1] = <<req[r].todo[1][1], Subject(r)>>
    BY HeadIs DEF Free
  <1>2. \A l \in links' : req[r].todo[1] \notin {<<"interfaces", l[2]>>, <<"unlink", l[1]>>}
    BY <1>1 DEF At, Free
  <1> QED BY <1>2, TailHosts DEF Unhosted, Like

Goes(r) ==
    /\ req' \in [Requests -> Request]
    /\ \A q \in Requests : q # r => req'[q] = req[q]
    /\ req'[r].todo = << >> \/
         (req'[r].op = req[r].op /\ req'[r].crossed = req[r].crossed)
    /\ Fit(req[r])'

LEMMA EndedFits ==
    ASSUME NEW r \in Requests, req'[r].todo = << >>
    PROVE  Fit(req[r])'
  BY DEF Fit, Plan, Seen, Searched, Apt, Sure, Owned, Unhosted, Guarded

LEMMA FitIs ==
    ASSUME NEW r \in Requests, NEW q, req'[r] = q, Fit(q)'
    PROVE  Fit(req[r])'
  BY DEF Fit, Plan, Seen, Searched, Apt, Meant, Sure, Owned, Unhosted, Numbered

LEMMA ThenGoes ==
    ASSUME UsageInv, NEW r \in Requests, NEW t \in Seq(Labels \X Items), Then(r, t),
           NEW q, q = [req[r] EXCEPT !.todo = t], Fit(q)'
    PROVE  Goes(r)
  <1>1. /\ req' \in [Requests -> Request]
        /\ \A p \in Requests : p # r => req'[p] = req[p]
        /\ req'[r].todo = t
        /\ t # << >> => req'[r] = q
    BY ThenIs DEF UsageInv
  <1>2. req[r] \in Request
    BY DEF UsageInv, Typed
  <1>3. q.op = req[r].op /\ q.crossed = req[r].crossed
    BY <1>2 DEF Request
  <1>4. Fit(req[r])'
    BY <1>1, EndedFits, FitIs
  <1> QED BY <1>1, <1>3, <1>4 DEF Goes

LEMMA RefuseGoes ==
    ASSUME UsageInv, NEW r \in Requests, Refuse(r)
    PROVE  Goes(r)
  <1>1. << >> \in Seq(Labels \X Items)
    OBVIOUS
  <1>2. /\ req' \in [Requests -> Request]
        /\ \A p \in Requests : p # r => req'[p] = req[p]
        /\ req'[r].todo = << >>
    BY <1>1, ThenIs DEF UsageInv, Refuse
  <1> QED BY <1>2, EndedFits DEF Goes

LEMMA FailGoes ==
    ASSUME UsageInv, NEW r \in Requests, ~Free(r), Fail(r), req[r].crossed
    PROVE  Goes(r)
  <1> DEFINE t == <<<<"failed", Subject(r)>>>>
  <1>1. t \in Seq(Labels \X Items)
    <2>1. Subject(r) \in Items
      BY HeadIs DEF Free
    <2>2. <<"failed", Subject(r)>> \in Labels \X Items
      BY <2>1 DEF Labels
    <2> QED BY <2>2
  <1> SUFFICES ASSUME NEW q, q = [req[r] EXCEPT !.todo = t]
               PROVE  Goes(r)
    OBVIOUS
  <1>2. req[r] \in Request
    BY DEF UsageInv, Typed
  <1>3. q.todo = t /\ q.crossed
    BY <1>2 DEF Request
  <1>4. DOMAIN q.todo = {1} /\ q.todo[1] = <<"failed", Subject(r)>>
    BY <1>3
  <1>5. Fit(q)'
    BY <1>3, <1>4 DEF Fit, Plan, Seen, Searched, Apt, Sure, Owned, Unhosted, Guarded, Writes,
       Removes, Searches
  <1> HIDE DEF t
  <1>6. Then(r, t)
    BY DEF Fail, t
  <1> QED BY <1>1, <1>5, <1>6, ThenGoes

LEMMA ProceedGoes ==
    ASSUME UsageInv, NEW r \in Requests, ~Free(r), Effect(r), Proceed(r),
           Discharged(r, Subject(r)), ~At(r, "highest"), ~At(r, "interfaces"),
           ~At(r, "unlink")
    PROVE  Goes(r)
  <1> DEFINE t == Tail(req[r].todo)
  <1>1. t \in Seq(Labels \X Items)
    BY HeadIs, TailIs DEF Free
  <1> SUFFICES ASSUME NEW q, q = [req[r] EXCEPT !.todo = t]
               PROVE  Goes(r)
    OBVIOUS
  <1>2. req[r] \in Request
    BY DEF UsageInv, Typed
  <1>3. q.todo = t /\ Like(req[r], q)
    BY <1>2 DEF Request, Like
  <1>4. Fit(q)'
    BY <1>3, TailPlan, TailSeen, TailSearched, TailApt, TailSure, TailOwned, TailUnhosted
       DEF Fit
  <1>5. Then(r, t)
    BY DEF Proceed
  <1> HIDE DEF t
  <1> QED BY <1>1, <1>4, <1>5, ThenGoes
-----------------------------------------------------------------------------
(* Each step of a request *)

\* A step at a label that no later step relies on.
LEMMA PlainGoes ==
    ASSUME UsageInv, NEW r \in Requests, Effect(r), NEW label, At(r, label),
           label \notin {"listable", "allowed", "inRule", "addressesInRule",
                         "interfacesInRule", "inGroup", "addressesInGroup", "listed",
                         "unlink", "addresses", "empty", "highest", "interfaces"},
           Proceed(r) \/ Refuse(r)
    PROVE  Goes(r)
  <1>1. ~Free(r)
    BY DEF At, Free
  <1>2. Discharged(r, Subject(r)) /\ ~At(r, "highest") /\ ~At(r, "interfaces")
        /\ ~At(r, "unlink")
    BY DEF At, Discharged
  <1> QED BY <1>1, <1>2, ProceedGoes, RefuseGoes

LEMMA ChecksGo ==
    ASSUME UsageInv, NEW r \in Requests, Effect(r),
           \/ Container(r) \/ ExistsInPosition(r) \/ CheckIpVersion(r)
           \/ GroupIPVersion(r) \/ HostContent(r)
    PROVE  Goes(r)
  <1>1. \E label \in {"container", "exists", "version", "members", "content"} : At(r, label)
    BY DEF Container, ExistsInPosition, CheckIpVersion, GroupIPVersion, HostContent
  <1>2. Proceed(r) \/ Refuse(r)
    BY DEF Container, ExistsInPosition, CheckIpVersion, GroupIPVersion, HostContent, If
  <1> QED BY <1>1, <1>2, PlainGoes

LEMMA WritesGo ==
    ASSUME UsageInv, NEW r \in Requests, Effect(r),
           \/ InsertPolicyRIpobj(r) \/ UpdatePosition(r) \/ DeletePolicyRIpobj(r)
           \/ InsertPolicyRInterface(r) \/ DeletePolicyRInterface(r)
           \/ InsertIpobjIpobjg(r) \/ DeleteIpobjIpobjg(r) \/ InsertIpobj(r)
    PROVE  Goes(r)
  <1>1. \E label \in {"insert", "move", "unuse", "list", "unlist", "join", "leave", "create"} :
            At(r, label)
    BY DEF InsertPolicyRIpobj, UpdatePosition, DeletePolicyRIpobj, InsertPolicyRInterface,
       DeletePolicyRInterface, InsertIpobjIpobjg, DeleteIpobjIpobjg, InsertIpobj
  <1>2. Proceed(r) \/ Refuse(r)
    BY DEF InsertPolicyRIpobj, UpdatePosition, DeletePolicyRIpobj, InsertPolicyRInterface,
       DeletePolicyRInterface, InsertIpobjIpobjg, DeleteIpobjIpobjg, InsertIpobj
  <1> QED BY <1>1, <1>2, PlainGoes

LEMMA AllowedGoes ==
    ASSUME UsageInv, NEW r \in Requests, Effect(r), CheckIpobjPosition(r)
    PROVE  Goes(r)
  <1>1. At(r, "allowed") /\ ~Free(r) /\ UNCHANGED tables
    BY DEF CheckIpobjPosition, At, Free
  <1>2. CASE Refuse(r)
    BY <1>2, RefuseGoes
  <1>3. CASE Proceed(r) /\ Exists(Subject(r))
    <2>1. Subject(r) \in Present'
      BY <1>1, <1>3, HeadIs DEF Present, Exists, tables, Free
    <2>2. Discharged(r, Subject(r)) /\ ~At(r, "highest") /\ ~At(r, "interfaces")
          /\ ~At(r, "unlink")
      BY <1>1, <2>1 DEF At, Discharged
    <2> QED BY <1>1, <1>3, <2>2, ProceedGoes
  <1> QED BY <1>2, <1>3 DEF CheckIpobjPosition, If

LEMMA ListableGoes ==
    ASSUME UsageInv, NEW r \in Requests, Effect(r), CheckInterfacePosition(r)
    PROVE  Goes(r)
  <1>1. At(r, "listable") /\ ~Free(r)
    BY DEF CheckInterfacePosition, At, Free
  <1>2. CASE Refuse(r)
    BY <1>2, RefuseGoes
  <1>3. CASE Proceed(r) /\ Subject(r) \notin HostInterfaces
    <2>1. Discharged(r, Subject(r)) /\ ~At(r, "highest") /\ ~At(r, "interfaces")
          /\ ~At(r, "unlink")
      BY <1>1, <1>3 DEF At, Discharged
    <2> QED BY <1>1, <1>3, <2>1, ProceedGoes
  <1> QED BY <1>2, <1>3 DEF CheckInterfacePosition, If

\* What a search that finds nothing shows, also of what has gone.
LEMMA FoundNothing ==
    ASSUME TablesInv, NEW x \in Items
    PROVE  /\ ~Found("inRule", x) => x \in Clean
           /\ ~Found("addressesInRule", x) => x \in Emptiable
           /\ ~Found("interfacesInRule", x) => x \in HostClean
           /\ ~Found("inGroup", x) => x \in Ungrouped
           /\ ~Found("addressesInGroup", x) => x \in AddrUngrouped
           /\ ~Found("listed", x) => x \in Unlisted
  <1>1. ASSUME NEW y \in Items, ~InRule(y) PROVE y \in Clean
    BY <1>1 DEF InRule, UsedIn, Clean, TablesInv, Tables
  <1>2. ASSUME NEW y \in Items, ~InGroup(y) PROVE y \in Ungrouped
    BY <1>2 DEF InGroup, Ungrouped, TablesInv, Tables
  <1>3. AddrOf(x) \subseteq Items
    BY DEF AddrOf, Addresses, Items, TablesInv, Tables
  <1>4. ~Exists(x) => AddrOf(x) = {} /\ \A k \in links : k[2] # x
    BY DEF AddrOf, Addresses, Exists, TablesInv, Tables
  <1>5. ~Found("inRule", x) => x \in Clean
    BY <1>1 DEF Found, Clean, TablesInv, NoDangling
  <1>6. ~Found("addressesInRule", x) => x \in Emptiable
    BY <1>1, <1>3, <1>4 DEF Found, AddressesInRule, Emptiable
  <1>7. ~Found("interfacesInRule", x) => x \in HostClean
    <2>1. \A k \in links : k[1] \in Items
      BY DEF TablesInv, Tables, Items
    <2> QED BY <1>1, <1>4, <2>1 DEF Found, InterfacesInRule, HostClean
  <1>8. ~Found("inGroup", x) => x \in Ungrouped
    BY <1>2 DEF Found, Ungrouped, Exists, TablesInv, Tables
  <1>9. ~Found("addressesInGroup", x) => x \in AddrUngrouped
    BY <1>2, <1>3, <1>4 DEF Found, AddressesInGroup, AddrUngrouped
  <1>10. ~Found("listed", x) => x \in Unlisted
    BY DEF Found, Listed, Unlisted, Exists, TablesInv, Tables
  <1> QED BY <1>5, <1>6, <1>7, <1>8, <1>9, <1>10

\* Nor does the search of a removal that was not misled, when the object has gone.
LEMMA FindsNothing ==
    ASSUME UsageInv, NEW r \in Requests, NEW search \in Searches, At(r, search),
           ~Finds(r, search), ~req[r].misled
    PROVE  ~Found(search, Subject(r)) \/ (req[r].crossed /\ Subject(r) \in Lost)
  <1>1. CASE req[r].op \notin ByType
    BY <1>1 DEF Finds
  <1>2. CASE req[r].op \in ByType
    <2>1. 1 \in DOMAIN req[r].todo /\ req[r].todo[1] = <<search, Subject(r)>>
          /\ Subject(r) \in Items
      BY HeadIs DEF At
    <2>2. Meant(req[r], Subject(r))
      BY <1>2, <2>1 DEF UsageInv, Fit, Apt
    <2>3. Subject(r) \in Ids \ DOMAIN ipobj => ~Exists(Subject(r))
      BY <2>1, Apart DEF Exists, UsageInv, TablesInv, Tables
    <2> QED BY <2>2, <2>3 DEF Meant, Finds, Found
  <1> QED BY <1>1, <1>2

LEMMA SearchGoes ==
    ASSUME UsageInv, NEW r \in Requests, Effect(r), Search(r)
    PROVE  Goes(r)
  <1>1. PICK search \in Searches : At(r, search) /\ If(~Finds(r, search), r)
    BY DEF Search
  <1>2. ~Free(r) /\ Subject(r) \in Items
    BY <1>1, HeadIs DEF At, Free
  <1>3. UNCHANGED <<tables, uses, listed, suspect>>
    BY DEF Search
  <1>4. CASE Refuse(r)
    BY <1>4, RefuseGoes
  <1>5. CASE Proceed(r) /\ ~Finds(r, search)
    <2>1. /\ ~req[r].misled =>
               /\ search = "inRule" => Subject(r) \in Clean
               /\ search = "addressesInRule" => Subject(r) \in Emptiable
               /\ search = "interfacesInRule" => Subject(r) \in HostClean
          /\ ~req[r].crossed =>
               /\ search = "inGroup" => Subject(r) \in Ungrouped
               /\ search = "addressesInGroup" => Subject(r) \in AddrUngrouped
               /\ search = "listed" => Subject(r) \in Unlisted
      <3>1. CASE ~Found(search, Subject(r))
        BY <1>2, <3>1, FoundNothing DEF UsageInv
      <3>2. CASE req[r].crossed /\ Subject(r) \in Lost
        BY <3>2 DEF Lost
      <3>3. ~req[r].crossed => ~req[r].misled
        BY <1>1, HeadMay
      <3> QED BY <1>1, <1>5, <3>1, <3>2, <3>3, FindsNothing
    <2>2. /\ Clean' = Clean /\ Emptiable' = Emptiable /\ HostClean' = HostClean
          /\ Ungrouped' = Ungrouped /\ AddrUngrouped' = AddrUngrouped
          /\ Unlisted' = Unlisted
      BY <1>3 DEF tables, Clean, Emptiable, HostClean, Ungrouped, AddrUngrouped, Unlisted,
         AddrOf, Addresses
    <2>3. Discharged(r, Subject(r)) /\ ~At(r, "highest") /\ ~At(r, "interfaces")
          /\ ~At(r, "unlink")
      BY <1>1, <2>1, <2>2 DEF At, Discharged, Searches
    <2> QED BY <1>2, <1>5, <2>3, ProceedGoes
  <1> QED BY <1>1, <1>4, <1>5 DEF If

LEMMA HeadSure ==
    ASSUME UsageInv, NEW r \in Requests, NEW label, At(r, label), req[r].op \in Taking,
           ~req[r].crossed
    PROVE  /\ label = "erase" => Subject(r) \in Ungrouped
           /\ label \in {"addresses", "unlink", "interfaces"} => Subject(r) \in AddrUngrouped
           /\ label \in {"addresses", "interface", "unlink"} => Subject(r) \in Unlisted
           /\ label \in {"addresses", "interface"} => Subject(r) \in Unlinked
           /\ label = "interface" => Subject(r) \in Bare
           /\ label = "group" => Subject(r) \in Memberless
           /\ label = "erase" => \A l \in links : l[2] # Subject(r)
           /\ label = "unlink" => \A l \in links : l[1] = Subject(r) => l[2] = req[r].id
           /\ label = "interfaces" => Subject(r) = req[r].id
  <1>1. req[r].todo # << >> /\ req[r].todo[1][1] = label
    BY DEF At
  <1>2. req[r].todo \in Seq(Labels \X Items) /\ req[r].todo[1] = <<label, Subject(r)>>
        /\ 1 \in DOMAIN req[r].todo
    BY <1>1, HeadIs
  <1>3. Sure(req[r]) /\ Unhosted(req[r]) /\ Owned(req[r])
    BY DEF UsageInv, Fit
  <1>4. label = "erase" => req[r].todo[1][2] \in Ungrouped
    BY <1>1, <1>2, <1>3, GuardedHead DEF Sure
  <1>5. label \in {"addresses", "unlink", "interfaces"} => req[r].todo[1][2] \in AddrUngrouped
    BY <1>1, <1>2, <1>3, GuardedHead DEF Sure
  <1>6. label \in {"addresses", "interface", "unlink"} => req[r].todo[1][2] \in Unlisted
    BY <1>1, <1>2, <1>3, GuardedHead DEF Sure
  <1>7. label \in {"addresses", "interface"} => req[r].todo[1][2] \in Unlinked
    BY <1>1, <1>2, <1>3, GuardedHead DEF Sure
  <1>8. label = "interface" => req[r].todo[1][2] \in Bare
    BY <1>1, <1>2, <1>3, GuardedHead DEF Sure
  <1>9. label = "group" => req[r].todo[1][2] \in Memberless
    BY <1>1, <1>2, <1>3, GuardedHead DEF Sure
  <1>10. label = "erase" => \A l \in links : l[2] # Subject(r)
    BY <1>2, <1>3 DEF Unhosted
  <1>11. /\ label = "unlink" => \A l \in links : l[1] = Subject(r) => l[2] = req[r].id
         /\ label = "interfaces" => Subject(r) = req[r].id
    BY <1>2, <1>3 DEF Owned
  <1> QED BY <1>2, <1>4, <1>5, <1>6, <1>7, <1>8, <1>9, <1>10, <1>11

LEMMA AddressesGo ==
    ASSUME UsageInv, NEW r \in Requests, Effect(r), DeleteIpobjInterface(r)
    PROVE  Goes(r)
  <1> DEFINE rows == {a \in Addresses : ipobj[a].interface = Subject(r)}
  <1>1. At(r, "addresses") /\ DeleteRows(r, rows)
    BY DEF DeleteIpobjInterface
  <1>2. req[r].op \in Taking /\ ~Free(r) /\ Subject(r) \in Items
    BY <1>1, HeadMay, HeadIs DEF Removes, At, Free
  <1>3. CASE \/ \E m \in members : m[2] \in rows
             \/ \E k \in links : k[2] \in rows
    <2>1. \A k \in links : k[2] \notin rows
      BY DEF UsageInv, TablesInv, HostsApart, Addresses
    <2>2. PICK m \in members : m[2] \in rows
      BY <1>3, <2>1
    <2>3. m[2] \in AddrOf(Subject(r))
      BY <2>2 DEF AddrOf
    <2>4. Subject(r) \notin AddrUngrouped
      BY <2>3 DEF AddrUngrouped, Ungrouped
    <2>5. req[r].crossed
      BY <1>1, <1>2, <2>4, HeadSure
    <2>6. Fail(r)
      BY <1>1, <1>3 DEF DeleteRows
    <2> QED BY <1>2, <2>5, <2>6, FailGoes
  <1>4. CASE ~(\/ \E m \in members : m[2] \in rows
               \/ \E k \in links : k[2] \in rows)
    <2>1. Proceed(r) /\ ipobj' = Restrict(ipobj, DOMAIN ipobj \ rows)
      BY <1>1, <1>4 DEF DeleteRows
    <2>2. DOMAIN ipobj' = DOMAIN ipobj \ rows
          /\ \A x \in DOMAIN ipobj \ rows : ipobj'[x] = ipobj[x]
      BY <2>1 DEF Restrict
    <2>3. ASSUME NEW x \in Items, x = Subject(r) PROVE x \in Bare'
      BY <2>2, <2>3 DEF Bare, Addresses
    <2>4. Discharged(r, Subject(r)) /\ ~At(r, "highest") /\ ~At(r, "interfaces")
          /\ ~At(r, "unlink")
      BY <1>1, <1>2, <2>3 DEF At, Discharged
    <2> QED BY <1>2, <2>1, <2>4, ProceedGoes
  <1> QED BY <1>3, <1>4

LEMMA EraseGoes ==
    ASSUME UsageInv, NEW r \in Requests, Effect(r), DeleteIpobj(r)
    PROVE  Goes(r)
  <1>1. At(r, "erase") /\ DeleteRows(r, {Subject(r)})
    BY DEF DeleteIpobj
  <1>2. req[r].op \in Taking /\ ~Free(r)
    BY <1>1, HeadMay DEF Removes, At, Free
  <1>3. CASE req[r].crossed
    BY <1>1, <1>2, <1>3, FailGoes, PlainGoes DEF DeleteRows
  <1>4. CASE ~req[r].crossed
    <2>1. (\A m \in members : m[2] # Subject(r)) /\ \A k \in links : k[2] # Subject(r)
      BY <1>1, <1>2, <1>4, HeadSure DEF Ungrouped
    <2>2. Proceed(r)
      BY <1>1, <2>1 DEF DeleteRows
    <2> QED BY <1>1, <2>2, PlainGoes
  <1> QED BY <1>3, <1>4

LEMMA InterfaceGoes ==
    ASSUME UsageInv, NEW r \in Requests, Effect(r), DeleteInterface(r)
    PROVE  Goes(r)
  <1>1. At(r, "interface") /\ (Fail(r) \/ Proceed(r))
    BY DEF DeleteInterface
  <1>2. req[r].op \in Taking /\ ~Free(r)
    BY <1>1, HeadMay DEF Removes, At, Free
  <1>3. CASE req[r].crossed
    BY <1>1, <1>2, <1>3, FailGoes, PlainGoes
  <1>4. CASE ~req[r].crossed
    <2>1. Subject(r) \in Unlisted /\ Subject(r) \in Unlinked /\ Subject(r) \in Bare
      BY <1>1, <1>2, <1>4, HeadSure
    <2>2. Proceed(r)
      BY <2>1 DEF DeleteInterface, Unlisted, Unlinked, Bare
    <2> QED BY <1>1, <2>2, PlainGoes
  <1> QED BY <1>3, <1>4

LEMMA GroupGoes ==
    ASSUME UsageInv, NEW r \in Requests, Effect(r), DeleteGroup(r)
    PROVE  Goes(r)
  <1>1. At(r, "group") /\ (Fail(r) \/ Proceed(r))
    BY DEF DeleteGroup
  <1>2. req[r].op \in Taking /\ ~Free(r)
    BY <1>1, HeadMay DEF Removes, At, Free
  <1>3. CASE req[r].crossed
    BY <1>1, <1>2, <1>3, FailGoes, PlainGoes
  <1>4. CASE ~req[r].crossed
    <2>1. Subject(r) \in Memberless
      BY <1>1, <1>2, <1>4, HeadSure
    <2>2. MembersOf(Subject(r)) = {}
      BY <2>1 DEF MembersOf, Memberless
    <2>3. Proceed(r)
      BY <2>2 DEF DeleteGroup
    <2> QED BY <1>1, <2>3, PlainGoes
  <1> QED BY <1>3, <1>4

LEMMA EmptyGoes ==
    ASSUME UsageInv, NEW r \in Requests, Effect(r), DeleteMembers(r)
    PROVE  Goes(r)
  <1>1. At(r, "empty") /\ Proceed(r) /\ ~Free(r)
        /\ members' = {m \in members : m[1] # Subject(r)}
    BY DEF DeleteMembers, At, Free
  <1>2. Subject(r) \in Items
    BY <1>1, HeadIs DEF Free
  <1>3. ASSUME NEW x \in Items, x = Subject(r) PROVE x \in Memberless'
    BY <1>1, <1>3 DEF Memberless
  <1>4. Discharged(r, Subject(r)) /\ ~At(r, "highest") /\ ~At(r, "interfaces")
        /\ ~At(r, "unlink")
    BY <1>1, <1>2, <1>3 DEF At, Discharged
  <1> QED BY <1>1, <1>4, ProceedGoes

LEMMA AnswerGoes ==
    ASSUME UsageInv, NEW r \in Requests, Effect(r), AnswerError(r)
    PROVE  Goes(r)
  BY RefuseGoes DEF AnswerError

\* A set of numbers up to a bound has a greatest one.
LEMMA HighestOf ==
    ASSUME NEW m \in Nat, NEW S \in SUBSET (0..m), S # {}
    PROVE  Max(S) \in S
  <1> DEFINE T == {m - x : x \in S}
             R == OpToRel(<, Nat)
  <1>1. T \subseteq Nat
    OBVIOUS
  <1>2. T # {}
    OBVIOUS
  <1>3. IsWellFoundedOn(R, Nat)
    BY NatLessThanWellFounded
  <1>4. \A u, v \in Nat : u < v => <<u, v>> \in R
    BY DEF OpToRel
  <1> HIDE DEF R
  <1>5. PICK t \in T : \A u \in T : ~ (u < t)
    <2> HIDE DEF T
    <2>1. PICK t \in T : \A u \in T : ~ (<<u, t>> \in R)
      BY <1>1, <1>2, <1>3, WFMin
    <2> QED BY <1>1, <1>4, <2>1
  <1>6. PICK x \in S : t = m - x
    OBVIOUS
  <1>7. \A y \in S : x >= y
    <2> SUFFICES ASSUME NEW y \in S PROVE x >= y
      OBVIOUS
    <2>1. ~ (m - y < t)
      BY <1>5
    <2> QED BY <1>6, <2>1
  <1> QED BY <1>7 DEF Max

LEMMA HighestGoes ==
    ASSUME UsageInv, NEW r \in Requests, Effect(r), HighestId(r)
    PROVE  Goes(r)
  <1> DEFINE S == DOMAIN ipobj \cup {0}
             id == Max(S) + 1
             t == Tail(req[r].todo)
  <1>1. At(r, "highest") /\ id <= MaxId
        /\ req' = [req EXCEPT ![r].id = id, ![r].todo = Tail(@)]
    BY DEF HighestId
  <1>2. id \in 0..MaxId /\ id >= 1
    <2>1. S \in SUBSET (0..MaxId) /\ S # {} /\ MaxId \in Nat
      BY ObjectUsageAssumption DEF UsageInv, TablesInv, Tables, Ids
    <2> HIDE DEF S
    <2>2. Max(S) \in 0..MaxId
      BY <2>1, HighestOf
    <2> QED BY <1>1, <2>1, <2>2
  <1> HIDE DEF id
  <1>3. ~Free(r) /\ t \in Seq(Labels \X Items)
    BY <1>1, HeadIs, TailIs DEF At, Free
  <1> HIDE DEF t
  <1>4. req' = [req EXCEPT ![r] = [req[r] EXCEPT !.id = id, !.todo = t]]
    BY <1>1 DEF t, UsageInv, Typed
  <1> SUFFICES ASSUME NEW q, q = [req[r] EXCEPT !.id = id, !.todo = t]
               PROVE  Goes(r)
    OBVIOUS
  <1>5. req[r] \in Request
    BY DEF UsageInv, Typed
  <1>6. q \in Request /\ q.todo = t /\ q.id = id /\ q.op = req[r].op
        /\ q.crossed = req[r].crossed /\ Like(req[r], q)
    <2> DEFINE Todos == Seq(Labels \X Items)
    <2> HIDE DEF Todos
    <2>1. t \in Todos
      BY <1>3 DEF Todos
    <2>2. q \in Request
      BY <1>2, <1>5, <2>1 DEF Request, Todos
    <2>3. req[r].op \in Giving
      BY <1>1, HeadMay DEF Writes
    <2> QED BY <1>2, <1>5, <2>2, <2>3 DEF Request, Like, Giving, Taking, ByType
  <1>7. /\ req' \in [Requests -> Request] /\ req'[r] = q
        /\ \A p \in Requests : p # r => req'[p] = req[p]
    BY <1>4, <1>6 DEF UsageInv, Typed
  <1>8. Discharged(r, Subject(r)) /\ ~At(r, "interfaces") /\ ~At(r, "unlink")
    BY <1>1 DEF At, Discharged
  <1>9. Fit(q)'
    BY <1>2, <1>3, <1>6, <1>8, TailPlan, TailSeen, TailSearched, TailApt, TailSure,
       TailOwned, TailUnhosted DEF Fit, t
  <1> QED BY <1>6, <1>7, <1>9, FitIs DEF Goes

-----------------------------------------------------------------------------
(* Steps put before the others *)

Beside(p, q) ==
    p.op = q.op /\ p.to = q.to /\ p.version = q.version /\ p.misled = q.misled
    /\ p.crossed = q.crossed /\ p.id = q.id /\ q.todo \in Seq(Labels \X Items)

LEMMA ConcatFrom ==
    ASSUME NEW S, NEW s \in Seq(S), NEW t \in Seq(S), NEW k \in DOMAIN (s \o t)
    PROVE  \/ k \in DOMAIN s /\ (s \o t)[k] = s[k]
           \/ \E j \in DOMAIN t : (s \o t)[k] = t[j]
  <1>1. CASE k \in DOMAIN s
    BY <1>1, ConcatIs
  <1>2. CASE k \notin DOMAIN s
    <2>1. k \in Nat /\ k - Len(s) \in DOMAIN t /\ Len(s) \in Nat
      BY <1>2, ConcatIs
    <2>2. Len(s) + (k - Len(s)) = k
      BY <2>1
    <2>3. (s \o t)[Len(s) + (k - Len(s))] = t[k - Len(s)]
      BY <2>1, ConcatIs
    <2> QED BY <2>1, <2>2, <2>3
  <1> QED BY <1>1, <1>2

LEMMA ConcatFits ==
    ASSUME NEW p, NEW u, NEW q, Beside(p, u), Beside(p, q), p.todo = u.todo \o q.todo,
           Plan(u)', Plan(q)', Seen(u)', Seen(q)', Searched(u)', Searched(q)',
           Apt(u)', Apt(q)', Sure(u)', Sure(q)', Owned(u)', Owned(q)'
    PROVE  Plan(p)' /\ Seen(p)' /\ Searched(p)' /\ Apt(p)' /\ Sure(p)' /\ Owned(p)'
  <1>1. u.todo \in Seq(Labels \X Items) /\ q.todo \in Seq(Labels \X Items)
    BY DEF Beside
  <1>2. ASSUME NEW labels, NEW search, NEW good,
               Guarded(u.todo, labels, search, good), Guarded(q.todo, labels, search, good)
        PROVE  Guarded(p.todo, labels, search, good)
    BY <1>1, <1>2, GuardedConcat
  <1>3. Seen(p)'
    BY <1>2 DEF Seen, Beside
  <1>4. Searched(p)'
    BY <1>2 DEF Searched, Beside
  <1>5. Sure(p)'
    BY <1>2 DEF Sure, Beside
  <1>6. Numbered(p) = Numbered(u) /\ Numbered(p) = Numbered(q)
    BY DEF Numbered, Beside
  <1>7. /\ Guarded(p.todo, {"list"}, "listable", Items \ HostInterfaces)
        /\ Guarded(p.todo, {"create"}, "highest", Numbered(p))
    BY <1>2, <1>6 DEF Plan
  <1>8. \A k \in DOMAIN p.todo :
           \/ k \in DOMAIN u.todo /\ p.todo[k] = u.todo[k]
           \/ \E j \in DOMAIN q.todo : p.todo[k] = q.todo[j]
    <2> DEFINE s == u.todo
               t == q.todo
               S == Labels \X Items
    <2>1. s \in Seq(S) /\ t \in Seq(S) /\ p.todo = s \o t
      BY <1>1
    <2> HIDE DEF s, t, S
    <2>2. ASSUME NEW k \in DOMAIN p.todo
          PROVE  \/ k \in DOMAIN s /\ p.todo[k] = s[k]
                 \/ \E j \in DOMAIN t : p.todo[k] = t[j]
      BY <2>1, ConcatFrom
    <2> QED BY <2>2 DEF s, t
  <1>9. Plan(p)'
    BY <1>7, <1>8 DEF Plan, Beside, Numbered
  <1>10. Apt(p)'
    <2>1. \A x : (Meant(u, x)' => Meant(p, x)') /\ (Meant(q, x)' => Meant(p, x)')
      BY DEF Meant, Beside
    <2> QED BY <1>8, <2>1 DEF Apt, Beside
  <1>11. Owned(p)'
    BY <1>8 DEF Owned, Beside
  <1> QED BY <1>3, <1>4, <1>5, <1>9, <1>10, <1>11

\* The steps of u take down the interfaces of a host that q removes, or q does.
HostsBefore(u, q) ==
    \A k \in DOMAIN q.todo : \A l \in links : q.todo[k] = <<"erase", l[2]>> =>
        \/ \E j \in 1..(k - 1) : q.todo[j] \in {<<"interfaces", l[2]>>, <<"unlink", l[1]>>}
        \/ \E j \in DOMAIN u.todo : u.todo[j] \in {<<"interfaces", l[2]>>, <<"unlink", l[1]>>}

NoErase(u) == \A k \in DOMAIN u.todo : u.todo[k][1] # "erase"

LEMMA ConcatUnhosted ==
    ASSUME NEW p, NEW u, NEW q, Beside(p, u), Beside(p, q), p.todo = u.todo \o q.todo,
           NoErase(u), p.op \in Taking /\ ~p.crossed => HostsBefore(u, q)'
    PROVE  Unhosted(p)'
  <1> DEFINE s == u.todo
             t == q.todo
             n == Len(s)
             S == Labels \X Items
  <1>1. s \in Seq(S) /\ t \in Seq(S) /\ p.todo = s \o t
    BY DEF Beside
  <1> SUFFICES ASSUME HostsBefore(u, q)', NEW k \in DOMAIN p.todo, NEW l \in links',
                      p.todo[k] = <<"erase", l[2]>>
               PROVE  \E j \in 1..(k - 1) :
                         p.todo[j] \in {<<"interfaces", l[2]>>, <<"unlink", l[1]>>}
    BY DEF Unhosted
  <1> DEFINE Wanted == {<<"interfaces", l[2]>>, <<"unlink", l[1]>>}
  <1>2. \A i \in DOMAIN s : s[i][1] # "erase"
    BY DEF NoErase
  <1>3. \A i \in DOMAIN t : t[i] = <<"erase", l[2]>> =>
           (\E j \in 1..(i - 1) : t[j] \in Wanted) \/ \E j \in DOMAIN s : s[j] \in Wanted
    BY DEF HostsBefore
  <1> HIDE DEF s, t, S, Wanted
  <1>4. n \in Nat /\ DOMAIN s = 1..n /\ DOMAIN t \subseteq Nat
    BY <1>1
  <1>5. k \notin DOMAIN s
    BY <1>1, <1>2, ConcatIs
  <1>6. k \in Nat /\ k - n \in DOMAIN t
    BY <1>1, <1>5, ConcatIs
  <1>7. n + (k - n) = k
    BY <1>4, <1>6
  <1>8. t[k - n] = <<"erase", l[2]>>
    <2>1. (s \o t)[n + (k - n)] = t[k - n]
      BY <1>1, <1>6, ConcatIs
    <2> QED BY <1>1, <1>7, <2>1
  <1>9. k - n >= 1
    BY <1>1, <1>6
  <1>10. CASE \E j \in DOMAIN s : s[j] \in Wanted
    <2>1. PICK j \in DOMAIN s : s[j] \in Wanted
      BY <1>10
    <2>2. (s \o t)[j] = s[j]
      BY <1>1, ConcatIs
    <2>3. j \in 1..(k - 1)
      BY <1>4, <1>6, <1>9
    <2> QED BY <1>1, <2>1, <2>2, <2>3 DEF Wanted
  <1>11. CASE \E j \in 1..(k - n - 1) : t[j] \in Wanted
    <2>1. PICK j \in 1..(k - n - 1) : t[j] \in Wanted
      BY <1>11
    <2>2. j \in DOMAIN t
      BY <1>1, <1>4, <1>6
    <2>3. (s \o t)[n + j] = t[j]
      BY <1>1, <2>2, ConcatAt
    <2>4. n + j \in 1..(k - 1)
      BY <1>4, <1>6
    <2> QED BY <1>1, <2>1, <2>3, <2>4 DEF Wanted
  <1> QED BY <1>3, <1>6, <1>8, <1>10, <1>11

LEMMA StepsAre ==
    ASSUME NEW labels \in Seq(Labels), NEW x \in Items
    PROVE  /\ Steps(labels, x) \in Seq(Labels \X Items)
           /\ DOMAIN Steps(labels, x) = DOMAIN labels
           /\ \A k \in DOMAIN labels : Steps(labels, x)[k] = <<labels[k], x>>
  BY DEF Steps

LEMMA PutGoes ==
    ASSUME UsageInv, NEW r \in Requests, ~Free(r), Effect(r), Discharged(r, Subject(r)),
           ~At(r, "highest"), NEW pre \in Seq(Labels \X Items),
           Then(r, pre \o Tail(req[r].todo)),
           NEW u, u = [req[r] EXCEPT !.todo = pre],
           Plan(u)', Seen(u)', Searched(u)', Apt(u)', Sure(u)', Owned(u)',
           \A k \in DOMAIN pre : pre[k][1] # "erase",
           req[r].op \in Taking /\ ~req[r].crossed =>
            \A l \in links' : req[r].todo[1] \in {<<"interfaces", l[2]>>, <<"unlink", l[1]>>} =>
              \E j \in DOMAIN pre : pre[j] \in {<<"interfaces", l[2]>>, <<"unlink", l[1]>>}
    PROVE  Goes(r)
  <1> DEFINE rest == Tail(req[r].todo)
             all == pre \o rest
  <1>1. rest \in Seq(Labels \X Items)
    BY HeadIs, TailIs DEF Free
  <1>2. all \in Seq(Labels \X Items)
    BY <1>1, ConcatIs
  <1> SUFFICES ASSUME NEW p, p = [req[r] EXCEPT !.todo = all],
                      NEW q, q = [req[r] EXCEPT !.todo = rest]
               PROVE  Goes(r)
    OBVIOUS
  <1>3. req[r] \in Request
    BY DEF UsageInv, Typed
  <1>4. /\ p.todo = all /\ q.todo = rest /\ u.todo = pre
        /\ Beside(p, u) /\ Beside(p, q) /\ Like(req[r], q)
    BY <1>1, <1>3 DEF Request, Beside, Like
  <1>5. Plan(q)' /\ Seen(q)' /\ Searched(q)' /\ Apt(q)' /\ Sure(q)' /\ Owned(q)'
    BY <1>4, TailPlan, TailSeen, TailSearched, TailApt, TailSure, TailOwned
  <1>6. Plan(p)' /\ Seen(p)' /\ Searched(p)' /\ Apt(p)' /\ Sure(p)' /\ Owned(p)'
    BY <1>4, <1>5, ConcatFits
  <1>7. ASSUME req[r].op \in Taking, ~req[r].crossed PROVE HostsBefore(u, q)'
    <2> SUFFICES ASSUME NEW k \in DOMAIN q.todo, NEW l \in links',
                        q.todo[k] = <<"erase", l[2]>>
                 PROVE  \/ \E j \in 1..(k - 1) :
                              q.todo[j] \in {<<"interfaces", l[2]>>, <<"unlink", l[1]>>}
                        \/ \E j \in DOMAIN u.todo :
                              u.todo[j] \in {<<"interfaces", l[2]>>, <<"unlink", l[1]>>}
      BY DEF HostsBefore
    <2> QED BY <1>4, <1>7, TailHosts
  <1>8. NoErase(u)
    BY <1>4 DEF NoErase
  <1>9. Unhosted(p)'
    <2>1. p.op = req[r].op /\ p.crossed = req[r].crossed
      BY <1>3
    <2> QED BY <1>4, <1>7, <1>8, <2>1, ConcatUnhosted
  <1>10. Fit(p)'
    BY <1>6, <1>9 DEF Fit
  <1> HIDE DEF all, rest
  <1>11. Then(r, all)
    BY DEF all, rest
  <1> QED BY <1>2, <1>10, <1>11, ThenGoes

\* Counting the members puts a search before the rest, or nothing.
LEMMA CountGoes ==
    ASSUME UsageInv, NEW r \in Requests, Effect(r), CountGroupItems(r)
    PROVE  Goes(r)
  <1>1. At(r, "count") /\ ~Free(r)
    BY DEF CountGroupItems, At, Free
  <1> DEFINE x == req[r].to
  <1>2. x \in Items
    BY <1>1, HeadMay DEF Items
  <1>3. PICK pre \in {<<<<"inRule", x>>>>, << >>} : Then(r, pre \o Tail(req[r].todo))
    BY DEF CountGroupItems
  <1> HIDE DEF x
  <1>4. pre \in Seq(Labels \X Items)
    <2>1. <<"inRule", x>> \in Labels \X Items
      BY <1>2 DEF Labels, Searches
    <2>2. <<<<"inRule", x>>>> \in Seq(Labels \X Items)
      BY <2>1
    <2>3. << >> \in Seq(Labels \X Items)
      OBVIOUS
    <2> QED BY <1>3, <2>2, <2>3
  <1>5. \A k \in DOMAIN pre : pre[k] = <<"inRule", x>>
    BY <1>3
  <1> SUFFICES ASSUME NEW u, u = [req[r] EXCEPT !.todo = pre]
               PROVE  Goes(r)
    OBVIOUS
  <1>6. req[r] \in Request
    BY DEF UsageInv, Typed
  <1>7. u.todo = pre /\ u.op \notin ByType /\ (u.misled => u.crossed)
    BY <1>1, <1>6, HeadMay DEF Request
  <1>8. Plan(u)' /\ Seen(u)' /\ Searched(u)' /\ Apt(u)' /\ Sure(u)' /\ Owned(u)'
    BY <1>5, <1>7 DEF Plan, Seen, Searched, Apt, Sure, Owned, Guarded, Writes, Removes
  <1>9. Discharged(r, Subject(r)) /\ ~At(r, "highest")
    BY <1>1 DEF At, Discharged
  <1>10. \A l \in links' : req[r].todo[1] \notin {<<"interfaces", l[2]>>, <<"unlink", l[1]>>}
    BY <1>1 DEF At
  <1> QED BY <1>1, <1>3, <1>4, <1>5, <1>8, <1>9, <1>10, PutGoes

LEMMA UnlinkGoes ==
    ASSUME UsageInv, NEW r \in Requests, Effect(r), DeleteHostInterface(r)
    PROVE  Goes(r)
  <1> DEFINE pre == Steps(<<"addresses", "interface">>, Subject(r))
  <1>1. /\ At(r, "unlink") /\ ~Free(r)
        /\ links' = links \ {<<Subject(r), req[r].id>>}
        /\ Then(r, pre \o Tail(req[r].todo))
        /\ UNCHANGED <<uses, suspect>>
    BY DEF DeleteHostInterface, At, Free
  <1>2. req[r].op \in Taking /\ Subject(r) \in Items
        /\ req[r].todo[1] = <<"unlink", Subject(r)>>
    BY <1>1, HeadMay, HeadIs DEF Removes, At, Free
  <1>3. pre \in Seq(Labels \X Items) /\ DOMAIN pre = {1, 2}
        /\ pre[1] = <<"addresses", Subject(r)>> /\ pre[2] = <<"interface", Subject(r)>>
    <2> DEFINE labels == <<"addresses", "interface">>
    <2>1. labels \in Seq(Labels) /\ DOMAIN labels = {1, 2}
      BY DEF Labels
    <2>2. labels[1] = "addresses" /\ labels[2] = "interface"
      OBVIOUS
    <2> HIDE DEF labels
    <2> QED BY <1>2, <2>1, <2>2, StepsAre DEF labels
  <1> HIDE DEF pre
  <1> SUFFICES ASSUME NEW u, u = [req[r] EXCEPT !.todo = pre]
               PROVE  Goes(r)
    OBVIOUS
  <1> SUFFICES ASSUME NEW x, x = Subject(r)
               PROVE  Goes(r)
    OBVIOUS
  <1>4. req[r] \in Request
    BY DEF UsageInv, Typed
  <1>5. u.todo = pre /\ u.op = req[r].op /\ u.crossed = req[r].crossed
        /\ u.misled = req[r].misled /\ (u.misled => u.crossed)
    BY <1>1, <1>4, HeadMay DEF Request
  <1>6. ~req[r].crossed => x \in Unlinked'
    <2> SUFFICES ASSUME ~req[r].crossed, NEW l \in links', l[1] = x PROVE FALSE
      BY <1>2 DEF Unlinked
    <2>a. At(r, "unlink") /\ req[r].op \in Taking
      BY <1>1, <1>2
    <2>b. \A k \in links : k[1] = Subject(r) => k[2] = req[r].id
      BY <2>a, HeadSure
    <2>1. l \in links /\ l[2] = req[r].id
      BY <1>1, <2>b
    <2>2. l = <<l[1], l[2]>>
      BY <2>1 DEF UsageInv, TablesInv, Tables
    <2>3. l = <<Subject(r), req[r].id>>
      BY <2>1, <2>2
    <2> QED BY <1>1, <2>3
  <1>7. Discharged(r, x) /\ ~At(r, "highest")
    BY <1>1, <1>6 DEF At, Discharged
  <1>8. Plan(u)' /\ Seen(u)'
    <2>1. \A k \in DOMAIN u.todo : u.todo[k][1] \in {"addresses", "interface"}
      BY <1>3, <1>5
    <2>2. u.op \in Taking /\ u.op \notin Giving
      BY <1>2, <1>5 DEF Giving, Taking, ByType
    <2> QED BY <1>5, <2>1, <2>2 DEF Plan, Seen, Guarded, Removes, Writes
  <1>9. Searched(u)'
    <2> SUFFICES ASSUME ~req[r].misled PROVE Searched(u)'
      BY <1>5 DEF Searched
    <2>1. x \in Clean /\ x \in Emptiable
      BY <1>1, <1>2, HeadSearched
    <2>2. CrossedGives
      BY <1>1 DEF CrossedGives
    <2>3. x \in Clean' /\ x \in Emptiable'
      BY <2>1, <2>2, CleanGrows
    <2> QED BY <1>3, <2>3, <1>5 DEF Searched, Guarded
  <1>10. Sure(u)'
    <2> SUFFICES ASSUME ~req[r].crossed PROVE Sure(u)'
      BY <1>5 DEF Sure
    <2>1. x \in AddrUngrouped /\ x \in Unlisted
      BY <1>1, <1>2, HeadSure
    <2>2. x \in AddrUngrouped' /\ x \in Unlisted'
      BY <1>2, <2>1, KeysGrow DEF Giving, Taking, ByType
    <2> DEFINE s == u.todo
    <2>3. DOMAIN s = {1, 2} /\ s[1] = <<"addresses", x>> /\ s[2] = <<"interface", x>>
      BY <1>3, <1>5
    <2>4. Sure(u)' <=>
            /\ Guarded(s, {"erase"}, "inGroup", Ungrouped')
            /\ Guarded(s, {"addresses", "unlink", "interfaces"}, "addressesInGroup",
                       AddrUngrouped')
            /\ Guarded(s, {"addresses", "interface", "unlink"}, "listed", Unlisted')
            /\ Guarded(s, {"addresses", "interface"}, "unlink", Unlinked')
            /\ Guarded(s, {"interface"}, "addresses", Bare')
            /\ Guarded(s, {"group"}, "empty", Memberless')
      BY <1>2, <1>5 DEF Sure
    <2> HIDE DEF s
    <2>5. /\ Guarded(s, {"erase"}, "inGroup", Ungrouped')
          /\ Guarded(s, {"group"}, "empty", Memberless')
      BY <2>3 DEF Guarded
    <2>6. /\ Guarded(s, {"addresses", "unlink", "interfaces"}, "addressesInGroup",
                      AddrUngrouped')
          /\ Guarded(s, {"addresses", "interface", "unlink"}, "listed", Unlisted')
          /\ Guarded(s, {"addresses", "interface"}, "unlink", Unlinked')
      BY <1>6, <2>2, <2>3 DEF Guarded
    <2>7. Guarded(s, {"interface"}, "addresses", Bare')
      BY <2>3 DEF Guarded
    <2> QED BY <2>4, <2>5, <2>6, <2>7
  <1>11. ~req[r].crossed => \A l \in links' :
            req[r].todo[1] \notin {<<"interfaces", l[2]>>, <<"unlink", l[1]>>}
    BY <1>1, <1>2, <1>6 DEF At, Unlinked
  <1>12. \A k \in DOMAIN pre : pre[k][1] # "erase"
    BY <1>3
  <1>13. Apt(u)' /\ Owned(u)'
    BY <1>3, <1>5 DEF Apt, Owned, Searches
  <1> QED BY <1>1, <1>3, <1>7, <1>8, <1>9, <1>10, <1>11, <1>12, <1>13, PutGoes

\* A sequence of all the members of a set names each.
LEMMA SeqsName ==
    ASSUME NEW S, IsFiniteSet(S), NEW own \in SetToSeqs(S)
    PROVE  /\ own \in Seq(S) /\ DOMAIN own = 1..Cardinality(S) /\ Cardinality(S) \in Nat
           /\ \A x \in S : \E k \in DOMAIN own : own[k] = x
  <1> DEFINE n == Cardinality(S)
             D == 1..n
  <1>1. n \in Nat
    BY FS_CardinalityType
  <1>2. own \in [D -> S] /\ \A i, j \in D : i # j => own[i] # own[j]
    BY DEF SetToSeqs
  <1>3. IsFiniteSet(D) /\ Cardinality(D) = n
    BY <1>1, FS_Interval
  <1>4. own \in Injection(D, S)
    BY <1>2 DEF Injection, IsInjective
  <1>5. own \in Surjection(D, S)
    BY <1>3, <1>4, FS_Injection
  <1> QED BY <1>1, <1>2, <1>5 DEF Surjection

\* The interfaces of a host that has been searched.
LEMMA OwnInterfaces ==
    ASSUME UsageInv, NEW x \in Items, NEW i \in interfaces, <<i, x>> \in links
    PROVE  /\ i \in Items
           /\ x \in HostClean => i \in Clean
           /\ x \in Emptiable => i \in Emptiable
           /\ x \in AddrUngrouped => i \in AddrUngrouped
           /\ i \in Unlisted
  <1>1. i \in Interfaces /\ i \in HostInterfaces /\ i \in Items
    BY DEF UsageInv, TablesInv, Tables, Items
  <1>2. AddrOf(i) \subseteq AddrOf(x)
    BY <1>1, Apart DEF AddrOf, UsageInv, TablesInv, Tables
  <1>3. i \in Unlisted
    BY <1>1 DEF Unlisted, UsageInv, TablesInv, HostsApart
  <1>4. x \in HostClean => i \in Clean
    BY DEF HostClean
  <1> QED BY <1>1, <1>2, <1>3, <1>4 DEF Emptiable, AddrUngrouped

LEMMA InterfacesGo ==
    ASSUME UsageInv, NEW r \in Requests, Effect(r), HostInterfacesOf(r)
    PROVE  Goes(r)
  <1> DEFINE S == {i \in interfaces : <<i, Subject(r)>> \in links}
  <1>1. /\ At(r, "interfaces") /\ ~Free(r)
        /\ UNCHANGED <<tables, uses, listed, suspect>>
    BY DEF HostInterfacesOf, At, Free
  <1>2. PICK own \in SetToSeqs(S) :
          Then(r, [k \in DOMAIN own |-> <<"unlink", own[k]>>] \o Tail(req[r].todo))
    BY DEF HostInterfacesOf
  <1>3. req[r].op \in Taking /\ Subject(r) \in Items
        /\ req[r].todo[1] = <<"interfaces", Subject(r)>>
    BY <1>1, HeadMay, HeadIs DEF Removes, At, Free
  <1> SUFFICES ASSUME NEW x, x = Subject(r)
               PROVE  Goes(r)
    OBVIOUS
  <1>4. S \subseteq Items /\ \A i \in S : i \in interfaces /\ <<i, x>> \in links
    BY DEF Items, UsageInv, TablesInv, Tables
  <1>5. IsFiniteSet(S)
    BY ObjectUsageAssumption, FS_Subset DEF UsageInv, TablesInv, Tables
  <1>6. \A l \in links : l[2] = x => l[1] \in S
    BY DEF UsageInv, TablesInv, Tables
  <1> HIDE DEF S
  <1>7. /\ own \in Seq(S) /\ DOMAIN own = 1..Cardinality(S) /\ Cardinality(S) \in Nat
        /\ \A i \in S : \E k \in DOMAIN own : own[k] = i
    BY <1>5, SeqsName
  <1> DEFINE pre == [k \in DOMAIN own |-> <<"unlink", own[k]>>]
  <1>8. \A k \in DOMAIN own : own[k] \in S
    BY <1>7
  <1>9. pre \in Seq(Labels \X Items)
    <2>1. \A k \in DOMAIN own : <<"unlink", own[k]>> \in Labels \X Items
      BY <1>4, <1>8 DEF Labels
    <2> QED BY <1>7, <2>1
  <1>10. DOMAIN pre = DOMAIN own /\ \A k \in DOMAIN pre : pre[k] = <<"unlink", own[k]>>
    OBVIOUS
  <1>11. Then(r, pre \o Tail(req[r].todo))
    BY <1>2
  <1> HIDE DEF pre
  <1> SUFFICES ASSUME NEW u, u = [req[r] EXCEPT !.todo = pre]
               PROVE  Goes(r)
    OBVIOUS
  <1>12. req[r] \in Request
    BY DEF UsageInv, Typed
  <1>13. u.todo = pre /\ u.op = req[r].op /\ u.crossed = req[r].crossed
         /\ u.id = req[r].id /\ u.misled = req[r].misled /\ (u.misled => u.crossed)
    BY <1>1, <1>12, HeadMay DEF Request
  <1>14. \A k \in DOMAIN u.todo : u.todo[k][1] = "unlink" /\ u.todo[k][2] \in S
    BY <1>8, <1>10, <1>13
  <1>15. Discharged(r, Subject(r)) /\ ~At(r, "highest")
    BY <1>1 DEF At, Discharged
  <1>16. Plan(u)' /\ Seen(u)'
    <2>1. u.op \in Taking /\ u.op \notin Giving
      BY <1>3, <1>13 DEF Giving, Taking, ByType
    <2> QED BY <1>13, <1>14, <2>1 DEF Plan, Seen, Guarded, Removes, Writes
  <1>17. Searched(u)'
    <2> SUFFICES ASSUME ~req[r].misled PROVE Searched(u)'
      BY <1>13 DEF Searched
    <2>1. x \in Emptiable /\ x \in HostClean
      BY <1>1, <1>3, HeadSearched
    <2>2. \A i \in S : i \in Clean /\ i \in Emptiable
      BY <1>3, <1>4, <2>1, OwnInterfaces
    <2>3. CrossedGives
      BY <1>1 DEF CrossedGives
    <2>4. \A i \in S : i \in Clean' /\ i \in Emptiable'
      BY <2>2, <2>3, CleanGrows
    <2> QED BY <1>14, <2>4 DEF Searched, Guarded
  <1>18. Sure(u)'
    <2> SUFFICES ASSUME ~req[r].crossed PROVE Sure(u)'
      BY <1>13 DEF Sure
    <2>1. x \in AddrUngrouped
      BY <1>1, <1>3, HeadSure
    <2>2. \A i \in S : i \in AddrUngrouped /\ i \in Unlisted
      BY <1>3, <1>4, <2>1, OwnInterfaces
    <2>3. \A i \in S : i \in AddrUngrouped' /\ i \in Unlisted'
      BY <1>3, <2>2, KeysGrow DEF Giving, Taking, ByType
    <2> QED BY <1>14, <2>3 DEF Sure, Guarded
  <1>19. \A k \in DOMAIN pre : pre[k][1] # "erase"
    BY <1>10
  <1>20. ASSUME NEW l \in links',
                req[r].todo[1] \in {<<"interfaces", l[2]>>, <<"unlink", l[1]>>}
         PROVE  \E j \in DOMAIN pre : pre[j] \in {<<"interfaces", l[2]>>, <<"unlink", l[1]>>}
    <2>1. l[1] \in S
      BY <1>1, <1>3, <1>6, <1>20 DEF tables
    <2>2. PICK j \in DOMAIN own : own[j] = l[1]
      BY <1>7, <2>1
    <2>3. j \in DOMAIN pre /\ pre[j] = <<"unlink", l[1]>>
      BY <1>10, <2>2
    <2> QED BY <2>3
  <1>21. Apt(u)'
    BY <1>14 DEF Apt, Searches
  <1>22. Owned(u)'
    <2> SUFFICES ASSUME ~req[r].crossed, NEW i \in S, NEW k \in links', k[1] = i
                 PROVE  k[2] = req[r].id
      BY <1>13, <1>14 DEF Owned
    <2>1. x = req[r].id
      BY <1>1, <1>3, HeadSure
    <2>2. k \in links /\ <<i, x>> \in links /\ <<i, x>>[1] = i /\ <<i, x>>[2] = x
      BY <1>1, <1>4 DEF tables
    <2>3. k[2] = <<i, x>>[2]
      BY <2>2 DEF UsageInv, TablesInv, HostsApart
    <2> QED BY <2>1, <2>2, <2>3
  <1> QED BY <1>1, <1>9, <1>11, <1>15, <1>16, <1>17, <1>18, <1>19, <1>20, <1>21, <1>22,
             PutGoes

LEMMA ServeGoes ==
    ASSUME UsageInv, NEW r \in Requests, Effect(r), Serve(r)
    PROVE  Goes(r)
  BY ChecksGo, WritesGo, AllowedGoes, ListableGoes, SearchGoes, AnswerGoes, HighestGoes,
     CountGoes, InterfacesGo, UnlinkGoes, AddressesGo, EraseGoes, InterfaceGoes, EmptyGoes,
     GroupGoes DEF Serve

LEMMA ServeFree ==
    ASSUME NEW r \in Requests, Serve(r)
    PROVE  ~Free(r) /\ ops' = ops
  <1>1. \E label \in Labels : At(r, label)
    BY DEF Serve, Container, ExistsInPosition, CheckIpVersion, CheckIpobjPosition,
       InsertPolicyRIpobj, UpdatePosition, DeletePolicyRIpobj, CheckInterfacePosition,
       InsertPolicyRInterface, DeletePolicyRInterface, GroupIPVersion, HostContent,
       InsertIpobjIpobjg, CountGroupItems, DeleteIpobjIpobjg, HighestId, InsertIpobj, Search,
       HostInterfacesOf, DeleteHostInterface, DeleteIpobjInterface, DeleteIpobj,
       DeleteInterface, DeleteMembers, DeleteGroup, AnswerError, Labels
  <1>2. ops' = ops
    BY DEF Serve, Container, ExistsInPosition, CheckIpVersion, CheckIpobjPosition,
       InsertPolicyRIpobj, UpdatePosition, DeletePolicyRIpobj, CheckInterfacePosition,
       InsertPolicyRInterface, DeletePolicyRInterface, GroupIPVersion, HostContent,
       InsertIpobjIpobjg, CountGroupItems, DeleteIpobjIpobjg, HighestId, InsertIpobj, Search,
       HostInterfacesOf, DeleteHostInterface, DeleteIpobjInterface, DeleteIpobj,
       DeleteInterface, DeleteMembers, DeleteGroup, AnswerError, DeleteRows
  <1> QED BY <1>1, <1>2 DEF At, Free

LEMMA ServeKeeps ==
    ASSUME UsageInv, NEW r \in Requests, Serve(r)
    PROVE  UsageInv'
  <1>1. Effect(r) /\ ~Free(r) /\ ops' = ops
    BY ServeEffect, ServeFree
  <1>2. Goes(r)
    BY <1>1, ServeGoes
  <1>3. \A q \in Requests : Fit(req[q])'
    <2>1. \A q \in Requests : q # r => Fit(req[q])'
      BY <1>1, <1>2, OthersStayFit DEF Goes
    <2>2. Fit(req[r])'
      BY <1>2 DEF Goes
    <2> QED BY <2>1, <2>2
  <1>4. Crossing'
    BY <1>1, <1>2 DEF Goes, UsageInv, Crossing, Free
  <1>5. Typed' /\ TablesInv'
    BY <1>1, <1>2 DEF Goes, UsageInv, Typed, Effect
  <1> QED BY <1>3, <1>4, <1>5 DEF UsageInv
-----------------------------------------------------------------------------
(* The requests that arrive *)

Done(labels, k, search) == \E j \in 1..(k - 1) : labels[j] = search

\* A list of steps for one item in which every step comes after those it relies on.
Planned(d, labels, x) ==
    /\ d.misled => d.crossed
    /\ \A k \in DOMAIN labels :
        /\ labels[k] \in Writes => d.op \in Giving
        /\ labels[k] \in Removes => d.op \in Taking
        /\ labels[k] \in {"insert", "move", "list"} => d.to \in Rules
        /\ labels[k] = "count" => d.to \in Groups
        /\ labels[k] \in {"count", "group"} => d.op \notin ByType /\ ~d.misled
        /\ labels[k] = "create" => d.version \in {4, 6} /\ Done(labels, k, "highest")
        /\ labels[k] # "failed"
        /\ labels[k] = "list" => Done(labels, k, "listable")
        /\ labels[k] \in {"insert", "move"} => Done(labels, k, "allowed")
    /\ ~d.misled => \A k \in DOMAIN labels :
        /\ labels[k] \in {"erase", "interface", "group", "unlink"} => Done(labels, k, "inRule")
        /\ labels[k] \in {"addresses", "unlink", "interfaces"} =>
              Done(labels, k, "addressesInRule") /\ Done(labels, k, "addressesInGroup")
        /\ labels[k] = "interfaces" => x = d.id /\ Done(labels, k, "interfacesInRule")
        /\ labels[k] = "erase" => /\ Done(labels, k, "inGroup")
                                  /\ x \in Addresses \/ Done(labels, k, "interfaces")
        /\ labels[k] \in {"addresses", "interface", "unlink"} => Done(labels, k, "listed")
        /\ labels[k] \in {"addresses", "interface"} => x \in Unlinked
        /\ labels[k] = "unlink" => \A l \in links : l[1] = x => l[2] = d.id
        /\ labels[k] = "interface" => Done(labels, k, "addresses")
        /\ labels[k] = "group" => Done(labels, k, "empty")
    /\ d.op \in ByType /\ ~d.misled => x \in DOMAIN ipobj \cup Interfaces /\ TypeOf(x) = d.op

LEMMA PlannedFits ==
    ASSUME UsageInv, NEW d, NEW labels \in Seq(Labels), NEW x \in Items,
           d.todo = Steps(labels, x), Planned(d, labels, x)
    PROVE  Fit(d)
  <1> DEFINE s == Steps(labels, x)
  <1>1. DOMAIN s = DOMAIN labels /\ \A k \in DOMAIN s : s[k] = <<labels[k], x>>
    BY StepsAre
  <1>2. \A k \in DOMAIN s : \A j \in 1..(k - 1) : j \in DOMAIN s
    BY <1>1
  <1> HIDE DEF s
  <1>3. ASSUME NEW set, NEW search, NEW good,
               \A k \in DOMAIN labels :
                  labels[k] \in set => x \in good \/ Done(labels, k, search)
        PROVE  Guarded(s, set, search, good)
    BY <1>1, <1>2, <1>3 DEF Guarded, Done
  <1>4. d.todo = s
    BY DEF s
  <1>5. /\ Guarded(s, {"list"}, "listable", Items \ HostInterfaces)
        /\ Guarded(s, {"create"}, "highest", Numbered(d))
    BY <1>3 DEF Planned
  <1>6. Plan(d)
    BY <1>1, <1>4, <1>5 DEF Plan, Planned
  <1>7. Seen(d)
    BY <1>3, <1>4 DEF Seen, Planned
  <1>8. Searched(d)
    BY <1>3, <1>4 DEF Searched, Planned
  <1>9. Sure(d)
    BY <1>3, <1>4 DEF Sure, Planned
  <1>10. Unhosted(d)
    <2> SUFFICES ASSUME ~d.misled, NEW k \in DOMAIN s, NEW l \in links,
                        s[k] = <<"erase", l[2]>>
                 PROVE  \E j \in 1..(k - 1) :
                           s[j] \in {<<"interfaces", l[2]>>, <<"unlink", l[1]>>}
      BY <1>4 DEF Unhosted, Planned
    <2>1. labels[k] = "erase" /\ l[2] = x /\ k \in DOMAIN labels
      BY <1>1
    <2>2. x \notin Addresses
      BY <2>1 DEF UsageInv, TablesInv, HostsApart, Addresses
    <2>3. PICK j \in 1..(k - 1) : labels[j] = "interfaces"
      BY <2>1, <2>2 DEF Planned, Done
    <2>4. s[j] = <<"interfaces", x>>
      BY <1>1, <1>2, <2>3
    <2> QED BY <2>1, <2>4
  <1>11. Apt(d)
    BY <1>1, <1>4 DEF Apt, Meant, Planned
  <1>12. Owned(d)
    BY <1>1, <1>4 DEF Owned, Planned
  <1> QED BY <1>6, <1>7, <1>8, <1>9, <1>10, <1>11, <1>12 DEF Fit

\* To have met another request takes nothing from what is known of a request.
LEMMA CrossedFits ==
    ASSUME UNCHANGED <<tables, uses, listed, suspect>>, NEW d, NEW e, Fit(d),
           e.op = d.op, e.to = d.to, e.version = d.version, e.id = d.id, e.todo = d.todo,
           e.misled = d.misled, d.crossed => e.crossed
    PROVE  Fit(e)'
  <1>1. /\ Clean' = Clean /\ Emptiable' = Emptiable /\ HostClean' = HostClean
        /\ Ungrouped' = Ungrouped /\ AddrUngrouped' = AddrUngrouped
        /\ Unlisted' = Unlisted /\ Unlinked' = Unlinked
    BY DEF tables, Clean, Emptiable, HostClean, Ungrouped, AddrUngrouped, Unlisted,
       Unlinked, AddrOf, Addresses
  <1>2. Bare' = Bare /\ Memberless' = Memberless /\ Present' = Present /\ links' = links
    BY DEF tables, Bare, Memberless, Present, Exists, Addresses
  <1>3. Plan(e)'
    BY DEF Fit, Plan, Numbered
  <1>4. Seen(e)'
    BY <1>2 DEF Fit, Seen
  <1>5. Searched(e)'
    BY <1>1 DEF Fit, Searched
  <1>6. Sure(e)'
    BY <1>1, <1>2 DEF Fit, Sure
  <1>7. Unhosted(e)' /\ Owned(e)'
    BY <1>2 DEF Fit, Unhosted, Owned
  <1>8. Apt(e)'
    <2>1. Lost' = Lost
      BY <1>1 DEF Lost
    <2>2. \A x : Meant(d, x) => Meant(e, x)'
      BY <2>1 DEF Meant, TypeOf, tables
    <2> QED BY <2>2 DEF Fit, Apt
  <1> QED BY <1>3, <1>4, <1>5, <1>6, <1>7, <1>8 DEF Fit

LEMMA ArriveKeeps ==
    ASSUME UsageInv, NEW r \in Requests, NEW d \in Request, Arrive(r, d), Fit(d)
    PROVE  UsageInv'
  <1> DEFINE meets(q) == q # r /\ ~Free(q) /\ Clash(req[q].op, d.op)
             new(q) == IF q = r THEN [d EXCEPT !.crossed = @ \/ \E p \in Requests : meets(p)]
                       ELSE [req[q] EXCEPT !.crossed = @ \/ meets(q)]
  <1>1. /\ Free(r) /\ ops < MaxOps /\ ops' = ops + 1
        /\ req' = [q \in Requests |-> new(q)]
        /\ UNCHANGED <<tables, uses, listed, suspect>>
    BY DEF Arrive
  <1>2. \A q \in Requests : req[q] \in Request
    BY DEF UsageInv, Typed
  <1>3. ASSUME NEW q \in Requests, q # r
        PROVE  /\ new(q) \in Request
               /\ new(q).op = req[q].op /\ new(q).to = req[q].to
               /\ new(q).version = req[q].version /\ new(q).id = req[q].id
               /\ new(q).todo = req[q].todo /\ new(q).misled = req[q].misled
               /\ new(q).crossed <=> req[q].crossed \/ meets(q)
    BY <1>2, <1>3 DEF Request
  <1>4. /\ new(r) \in Request
        /\ new(r).op = d.op /\ new(r).to = d.to
        /\ new(r).version = d.version /\ new(r).id = d.id
        /\ new(r).todo = d.todo /\ new(r).misled = d.misled
        /\ new(r).crossed <=> d.crossed \/ \E p \in Requests : meets(p)
    BY DEF Request
  <1> HIDE DEF new
  <1>5. \A q \in Requests : req'[q] = new(q)
    BY <1>1
  <1>6. Typed'
    <2>1. req' \in [Requests -> Request]
      BY <1>1, <1>3, <1>4
    <2>2. ops' \in 0..MaxOps
      BY <1>1, ObjectUsageAssumption DEF UsageInv, Typed
    <2> QED BY <2>1, <2>2 DEF Typed
  <1>7. TablesInv'
    BY <1>1 DEF UsageInv, TablesInv, Tables, HostsApart, NoDangling, Exists, tables
  <1>8. ASSUME NEW q \in Requests PROVE Fit(req[q])'
    <2> SUFFICES ASSUME NEW e, e = new(q) PROVE Fit(req[q])'
      OBVIOUS
    <2>1. Fit(e)'
      <3>1. CASE q = r
        BY <1>1, <1>4, <3>1, CrossedFits
      <3>2. CASE q # r
        <4>1. Fit(req[q])
          BY DEF UsageInv
        <4>2. req[q].crossed => e.crossed
          BY <1>3, <3>2
        <4> QED BY <1>1, <1>3, <3>2, <4>1, <4>2, CrossedFits
      <3> QED BY <3>1, <3>2
    <2> QED BY <1>5, <2>1, FitIs
  <1>9. Crossing'
    <2> SUFFICES ASSUME NEW p \in Requests, NEW q \in Requests, p # q,
                        req'[p].todo # << >>, req'[q].todo # << >>,
                        Clash(req'[p].op, req'[q].op)
                 PROVE  req'[p].crossed
      BY DEF Crossing, Free, Clash
    <2>1. CASE p = r
      <3>1. meets(q)
        BY <1>3, <1>4, <1>5, <2>1 DEF Free, Clash
      <3> QED BY <1>4, <1>5, <2>1, <3>1
    <2>2. CASE q = r
      <3>1. meets(p)
        BY <1>3, <1>4, <1>5, <2>2 DEF Free, Clash
      <3> QED BY <1>3, <1>5, <2>2, <3>1
    <2>3. CASE p # r /\ q # r
      <3>1. req[p].crossed
        BY <1>3, <1>5, <2>3 DEF UsageInv, Crossing, Free
      <3> QED BY <1>3, <1>5, <2>3, <3>1
    <2> QED BY <2>1, <2>2, <2>3
  <1> QED BY <1>6, <1>7, <1>8, <1>9 DEF UsageInv

LEMMA DemandKeeps ==
    ASSUME UsageInv, NEW r \in Requests, NEW op \in Giving \cup Taking \cup {"unuse", "unlist"},
           NEW rule \in Rules \cup {NoOne}, NEW to \in Rules \cup Groups \cup {NoOne},
           NEW version \in {NoOne, 4, 6}, NEW labels \in Seq(Labels), NEW x \in Items,
           NEW d, d = Demand(op, rule, to, version, Steps(labels, x)),
           Planned(d, labels, x), Arrive(r, d)
    PROVE  UsageInv'
  <1> DEFINE Todos == Seq(Labels \X Items)
             t == Steps(labels, x)
  <1>1. t \in Todos
    BY StepsAre
  <1> HIDE DEF Todos, t
  <1>2. d = [op |-> op, rule |-> rule, to |-> to, version |-> version, id |-> NoOne,
             todo |-> t, misled |-> FALSE, crossed |-> FALSE]
    BY DEF Demand, t
  <1>3. d \in Request
    BY <1>1, <1>2, ObjectUsageAssumption DEF Request, Todos, NoOne
  <1>4. d.todo = Steps(labels, x)
    BY <1>2 DEF t
  <1>5. Fit(d)
    BY <1>4, PlannedFits
  <1> QED BY <1>3, <1>4, <1>5, ArriveKeeps

LEMMA RemovalKeeps ==
    ASSUME UsageInv, NEW r \in Requests, NEW type \in ByType, NEW host \in 0..MaxId,
           NEW misled \in BOOLEAN, NEW labels \in Seq(Labels), NEW x \in Items,
           NEW d, d = Removal(type, host, misled, Steps(labels, x)),
           Planned(d, labels, x), Arrive(r, d)
    PROVE  UsageInv'
  <1> DEFINE Todos == Seq(Labels \X Items)
             t == Steps(labels, x)
  <1>1. t \in Todos
    BY StepsAre
  <1> HIDE DEF Todos, t
  <1>2. d = [op |-> type, rule |-> NoOne, to |-> NoOne, version |-> NoOne, id |-> host,
             todo |-> t, misled |-> misled, crossed |-> misled]
    BY DEF Removal, t
  <1>3. d \in Request
    BY <1>1, <1>2, ObjectUsageAssumption DEF Request, Todos, NoOne, Taking
  <1>4. d.todo = Steps(labels, x)
    BY <1>2 DEF t
  <1>5. Fit(d)
    BY <1>4, PlannedFits
  <1> QED BY <1>3, <1>4, <1>5, ArriveKeeps

LEMMA UseArrives ==
    ASSUME UsageInv, NEW r \in Requests, NEW to \in Rules, NEW x \in Items,
           Arrive(r, Demand("use", NoOne, to, NoOne,
               Steps(<<"container", "exists", "version", "allowed", "insert">>, x)))
    PROVE  UsageInv'
  <1> DEFINE labels == <<"container", "exists", "version", "allowed", "insert">>
             d == Demand("use", NoOne, to, NoOne, Steps(labels, x))
  <1>1. DOMAIN labels = {1, 2, 3, 4, 5}
    OBVIOUS
  <1>2. /\ labels[1] = "container" /\ labels[2] = "exists" /\ labels[3] = "version"
        /\ labels[4] = "allowed" /\ labels[5] = "insert"
    OBVIOUS
  <1>3. labels \in Seq(Labels)
    BY DEF Labels, Searches
  <1>4. Arrive(r, d)
    OBVIOUS
  <1>5. d.op = "use" /\ d.to = to /\ d.version = NoOne /\ ~d.misled
    BY DEF Demand
  <1> HIDE DEF labels
  <1>6. Planned(d, labels, x)
    BY <1>1, <1>2, <1>5 DEF Planned, Done, Writes, Removes, Giving, Taking, ByType
  <1> QED BY <1>3, <1>4, <1>6, DemandKeeps DEF Giving, Taking, ByType, NoOne

LEMMA MoveArrives ==
    ASSUME UsageInv, NEW r \in Requests, NEW rule \in Rules,
           NEW to \in Rules, NEW x \in Items,
           Arrive(r, Demand("move", rule, to, NoOne,
               Steps(<<"exists", "allowed", "move">>, x)))
    PROVE  UsageInv'
  <1> DEFINE labels == <<"exists", "allowed", "move">>
             d == Demand("move", rule, to, NoOne, Steps(labels, x))
  <1>1. DOMAIN labels = {1, 2, 3}
    OBVIOUS
  <1>2. /\ labels[1] = "exists" /\ labels[2] = "allowed" /\ labels[3] = "move"
    OBVIOUS
  <1>3. labels \in Seq(Labels)
    BY DEF Labels, Searches
  <1>4. Arrive(r, d)
    OBVIOUS
  <1>5. d.op = "move" /\ d.to = to /\ d.version = NoOne /\ ~d.misled
    BY DEF Demand
  <1> HIDE DEF labels
  <1>6. Planned(d, labels, x)
    BY <1>1, <1>2, <1>5 DEF Planned, Done, Writes, Removes, Giving, Taking, ByType
  <1> QED BY <1>3, <1>4, <1>6, DemandKeeps DEF Giving, Taking, ByType, NoOne

LEMMA OutArrives ==
    ASSUME UsageInv, NEW r \in Requests, NEW rule \in Rules,
           NEW to \in Rules, NEW x \in Items,
           Arrive(r, Demand("out", rule, to, NoOne,
               Steps(<<"exists", "allowed", "insert", "unlist">>, x)))
    PROVE  UsageInv'
  <1> DEFINE labels == <<"exists", "allowed", "insert", "unlist">>
             d == Demand("out", rule, to, NoOne, Steps(labels, x))
  <1>1. DOMAIN labels = {1, 2, 3, 4}
    OBVIOUS
  <1>2. /\ labels[1] = "exists" /\ labels[2] = "allowed" /\ labels[3] = "insert"
        /\ labels[4] = "unlist"
    OBVIOUS
  <1>3. labels \in Seq(Labels)
    BY DEF Labels, Searches
  <1>4. Arrive(r, d)
    OBVIOUS
  <1>5. d.op = "out" /\ d.to = to /\ d.version = NoOne /\ ~d.misled
    BY DEF Demand
  <1> HIDE DEF labels
  <1>6. Planned(d, labels, x)
    BY <1>1, <1>2, <1>5 DEF Planned, Done, Writes, Removes, Giving, Taking, ByType
  <1> QED BY <1>3, <1>4, <1>6, DemandKeeps DEF Giving, Taking, ByType, NoOne

LEMMA InArrives ==
    ASSUME UsageInv, NEW r \in Requests, NEW rule \in Rules,
           NEW to \in Rules, NEW x \in Items,
           Arrive(r, Demand("in", rule, to, NoOne,
               Steps(<<"listable", "list", "unuse">>, x)))
    PROVE  UsageInv'
  <1> DEFINE labels == <<"listable", "list", "unuse">>
             d == Demand("in", rule, to, NoOne, Steps(labels, x))
  <1>1. DOMAIN labels = {1, 2, 3}
    OBVIOUS
  <1>2. /\ labels[1] = "listable" /\ labels[2] = "list" /\ labels[3] = "unuse"
    OBVIOUS
  <1>3. labels \in Seq(Labels)
    BY DEF Labels, Searches
  <1>4. Arrive(r, d)
    OBVIOUS
  <1>5. d.op = "in" /\ d.to = to /\ d.version = NoOne /\ ~d.misled
    BY DEF Demand
  <1> HIDE DEF labels
  <1>6. Planned(d, labels, x)
    BY <1>1, <1>2, <1>5 DEF Planned, Done, Writes, Removes, Giving, Taking, ByType
  <1> QED BY <1>3, <1>4, <1>6, DemandKeeps DEF Giving, Taking, ByType, NoOne

LEMMA ListArrives ==
    ASSUME UsageInv, NEW r \in Requests, NEW to \in Rules, NEW x \in Items,
           Arrive(r, Demand("list", NoOne, to, NoOne,
               Steps(<<"listable", "list">>, x)))
    PROVE  UsageInv'
  <1> DEFINE labels == <<"listable", "list">>
             d == Demand("list", NoOne, to, NoOne, Steps(labels, x))
  <1>1. DOMAIN labels = {1, 2}
    OBVIOUS
  <1>2. /\ labels[1] = "listable" /\ labels[2] = "list"
    OBVIOUS
  <1>3. labels \in Seq(Labels)
    BY DEF Labels, Searches
  <1>4. Arrive(r, d)
    OBVIOUS
  <1>5. d.op = "list" /\ d.to = to /\ d.version = NoOne /\ ~d.misled
    BY DEF Demand
  <1> HIDE DEF labels
  <1>6. Planned(d, labels, x)
    BY <1>1, <1>2, <1>5 DEF Planned, Done, Writes, Removes, Giving, Taking, ByType
  <1> QED BY <1>3, <1>4, <1>6, DemandKeeps DEF Giving, Taking, ByType, NoOne

LEMMA UnuseArrives ==
    ASSUME UsageInv, NEW r \in Requests, NEW rule \in Rules, NEW x \in Items,
           Arrive(r, Demand("unuse", rule, NoOne, NoOne,
               Steps(<<"unuse">>, x)))
    PROVE  UsageInv'
  <1> DEFINE labels == <<"unuse">>
             d == Demand("unuse", rule, NoOne, NoOne, Steps(labels, x))
  <1>1. DOMAIN labels = {1}
    OBVIOUS
  <1>2. labels[1] = "unuse"
    OBVIOUS
  <1>3. labels \in Seq(Labels)
    BY DEF Labels, Searches
  <1>4. Arrive(r, d)
    OBVIOUS
  <1>5. d.op = "unuse" /\ d.to = NoOne /\ d.version = NoOne /\ ~d.misled
    BY DEF Demand
  <1> HIDE DEF labels
  <1>6. Planned(d, labels, x)
    BY <1>1, <1>2, <1>5 DEF Planned, Done, Writes, Removes, Giving, Taking, ByType
  <1> QED BY <1>3, <1>4, <1>6, DemandKeeps DEF Giving, Taking, ByType, NoOne

LEMMA UnlistArrives ==
    ASSUME UsageInv, NEW r \in Requests, NEW rule \in Rules, NEW x \in Items,
           Arrive(r, Demand("unlist", rule, NoOne, NoOne,
               Steps(<<"unlist">>, x)))
    PROVE  UsageInv'
  <1> DEFINE labels == <<"unlist">>
             d == Demand("unlist", rule, NoOne, NoOne, Steps(labels, x))
  <1>1. DOMAIN labels = {1}
    OBVIOUS
  <1>2. labels[1] = "unlist"
    OBVIOUS
  <1>3. labels \in Seq(Labels)
    BY DEF Labels, Searches
  <1>4. Arrive(r, d)
    OBVIOUS
  <1>5. d.op = "unlist" /\ d.to = NoOne /\ d.version = NoOne /\ ~d.misled
    BY DEF Demand
  <1> HIDE DEF labels
  <1>6. Planned(d, labels, x)
    BY <1>1, <1>2, <1>5 DEF Planned, Done, Writes, Removes, Giving, Taking, ByType
  <1> QED BY <1>3, <1>4, <1>6, DemandKeeps DEF Giving, Taking, ByType, NoOne

LEMMA AddToArrives ==
    ASSUME UsageInv, NEW r \in Requests, NEW to \in Groups, NEW x \in Items,
           Arrive(r, Demand("addto", NoOne, to, NoOne,
               Steps(<<"members", "content", "join">>, x)))
    PROVE  UsageInv'
  <1> DEFINE labels == <<"members", "content", "join">>
             d == Demand("addto", NoOne, to, NoOne, Steps(labels, x))
  <1>1. DOMAIN labels = {1, 2, 3}
    OBVIOUS
  <1>2. /\ labels[1] = "members" /\ labels[2] = "content" /\ labels[3] = "join"
    OBVIOUS
  <1>3. labels \in Seq(Labels)
    BY DEF Labels, Searches
  <1>4. Arrive(r, d)
    OBVIOUS
  <1>5. d.op = "addto" /\ d.to = to /\ d.version = NoOne /\ ~d.misled
    BY DEF Demand
  <1> HIDE DEF labels
  <1>6. Planned(d, labels, x)
    BY <1>1, <1>2, <1>5 DEF Planned, Done, Writes, Removes, Giving, Taking, ByType
  <1> QED BY <1>3, <1>4, <1>6, DemandKeeps DEF Giving, Taking, ByType, NoOne

LEMMA DelFromArrives ==
    ASSUME UsageInv, NEW r \in Requests, NEW to \in Groups, NEW x \in Items,
           Arrive(r, Demand("delfrom", NoOne, to, NoOne,
               Steps(<<"count", "leave">>, x)))
    PROVE  UsageInv'
  <1> DEFINE labels == <<"count", "leave">>
             d == Demand("delfrom", NoOne, to, NoOne, Steps(labels, x))
  <1>1. DOMAIN labels = {1, 2}
    OBVIOUS
  <1>2. /\ labels[1] = "count" /\ labels[2] = "leave"
    OBVIOUS
  <1>3. labels \in Seq(Labels)
    BY DEF Labels, Searches
  <1>4. Arrive(r, d)
    OBVIOUS
  <1>5. d.op = "delfrom" /\ d.to = to /\ d.version = NoOne /\ ~d.misled
    BY DEF Demand
  <1> HIDE DEF labels
  <1>6. Planned(d, labels, x)
    BY <1>1, <1>2, <1>5 DEF Planned, Done, Writes, Removes, Giving, Taking, ByType
  <1> QED BY <1>3, <1>4, <1>6, DemandKeeps DEF Giving, Taking, ByType, NoOne

LEMMA CreateArrives ==
    ASSUME UsageInv, NEW r \in Requests, NEW v \in {4, 6}, NEW x \in Items,
           Arrive(r, Demand("create", NoOne, NoOne, v,
               Steps(<<"highest", "create">>, x)))
    PROVE  UsageInv'
  <1> DEFINE labels == <<"highest", "create">>
             d == Demand("create", NoOne, NoOne, v, Steps(labels, x))
  <1>1. DOMAIN labels = {1, 2}
    OBVIOUS
  <1>2. /\ labels[1] = "highest" /\ labels[2] = "create"
    OBVIOUS
  <1>3. labels \in Seq(Labels)
    BY DEF Labels, Searches
  <1>4. Arrive(r, d)
    OBVIOUS
  <1>5. d.op = "create" /\ d.to = NoOne /\ d.version = v /\ ~d.misled
    BY DEF Demand
  <1> HIDE DEF labels
  <1>6. Planned(d, labels, x)
    BY <1>1, <1>2, <1>5 DEF Planned, Done, Writes, Removes, Giving, Taking, ByType
  <1> QED BY <1>3, <1>4, <1>6, DemandKeeps DEF Giving, Taking, ByType, NoOne

LEMMA AddressArrives ==
    ASSUME UsageInv, NEW r \in Requests, NEW x \in Items, NEW misled \in BOOLEAN,
           ~misled => x \in Addresses /\ TypeOf(x) = "address",
           Arrive(r, Removal("address", NoOne, misled,
             Steps(<<"inRule", "inGroup", "lastInInterface", "lastInHost", "lastInGroup",
                     "erase">>, x)))
    PROVE  UsageInv'
  <1> DEFINE labels == <<"inRule", "inGroup", "lastInInterface", "lastInHost", "lastInGroup",
                        "erase">>
             d == Removal("address", NoOne, misled, Steps(labels, x))
  <1>1. DOMAIN labels = {1, 2, 3, 4, 5, 6}
    OBVIOUS
  <1>2. /\ labels[1] = "inRule" /\ labels[2] = "inGroup" /\ labels[3] = "lastInInterface"
        /\ labels[4] = "lastInHost" /\ labels[5] = "lastInGroup" /\ labels[6] = "erase"
    OBVIOUS
  <1>3. labels \in Seq(Labels)
    BY DEF Labels, Searches
  <1>4. Arrive(r, d)
    OBVIOUS
  <1>5. d.op = "address" /\ d.id = NoOne /\ d.misled = misled /\ d.crossed = misled
    BY DEF Removal
  <1> HIDE DEF labels
  <1>6. Planned(d, labels, x)
    BY <1>1, <1>2, <1>5 DEF Planned, Done, Writes, Removes, Giving, Taking, ByType,
       Addresses
  <1>7. NoOne \in 0..MaxId /\ "address" \in ByType
    BY ObjectUsageAssumption DEF NoOne, ByType, Ids
  <1> QED BY <1>3, <1>4, <1>6, <1>7, RemovalKeeps

LEMMA OtherArrives ==
    ASSUME UsageInv, NEW r \in Requests, NEW x \in Items, NEW misled \in BOOLEAN,
           misled,
           Arrive(r, Removal("other", NoOne, misled,
             Steps(<<"inRule", "inGroup", "erase">>, x)))
    PROVE  UsageInv'
  <1> DEFINE labels == <<"inRule", "inGroup", "erase">>
             d == Removal("other", NoOne, misled, Steps(labels, x))
  <1>1. DOMAIN labels = {1, 2, 3}
    OBVIOUS
  <1>2. /\ labels[1] = "inRule" /\ labels[2] = "inGroup" /\ labels[3] = "erase"
    OBVIOUS
  <1>3. labels \in Seq(Labels)
    BY DEF Labels, Searches
  <1>4. Arrive(r, d)
    OBVIOUS
  <1>5. d.op = "other" /\ d.id = NoOne /\ d.misled = misled /\ d.crossed = misled
    BY DEF Removal
  <1> HIDE DEF labels
  <1>6. Planned(d, labels, x)
    BY <1>1, <1>2, <1>5 DEF Planned, Done, Writes, Removes, Giving, Taking, ByType
  <1>7. NoOne \in 0..MaxId /\ "other" \in ByType
    BY ObjectUsageAssumption DEF NoOne, ByType, Ids
  <1> QED BY <1>3, <1>4, <1>6, <1>7, RemovalKeeps

LEMMA HostArrives ==
    ASSUME UsageInv, NEW r \in Requests, NEW x \in Items, NEW misled \in BOOLEAN,
           x \in DOMAIN ipobj, DOMAIN ipobj \subseteq Ids, ~misled => TypeOf(x) = "host",
           Arrive(r, Removal("host", x, misled,
             Steps(<<"inRule", "inGroup", "interfacesInRule", "addressesInRule",
                     "addressesInGroup", "interfaces", "erase">>, x)))
    PROVE  UsageInv'
  <1> DEFINE labels == <<"inRule", "inGroup", "interfacesInRule", "addressesInRule",
                        "addressesInGroup", "interfaces", "erase">>
             d == Removal("host", x, misled, Steps(labels, x))
  <1>1. DOMAIN labels = {1, 2, 3, 4, 5, 6, 7}
    OBVIOUS
  <1>2. /\ labels[1] = "inRule" /\ labels[2] = "inGroup" /\ labels[3] = "interfacesInRule"
        /\ labels[4] = "addressesInRule" /\ labels[5] = "addressesInGroup"
        /\ labels[6] = "interfaces"
        /\ labels[7] = "erase"
    OBVIOUS
  <1>3. labels \in Seq(Labels)
    BY DEF Labels, Searches
  <1>4. Arrive(r, d)
    OBVIOUS
  <1>5. d.op = "host" /\ d.id = x /\ d.misled = misled /\ d.crossed = misled
    BY DEF Removal
  <1> HIDE DEF labels
  <1>6. Planned(d, labels, x)
    BY <1>1, <1>2, <1>5 DEF Planned, Done, Writes, Removes, Giving, Taking, ByType
  <1>7. x \in 0..MaxId /\ "host" \in ByType
    BY ObjectUsageAssumption DEF NoOne, ByType, Ids
  <1> QED BY <1>3, <1>4, <1>6, <1>7, RemovalKeeps

LEMMA HostInterfaceArrives ==
    ASSUME UsageInv, NEW r \in Requests, NEW x \in Items, NEW misled \in BOOLEAN,
           NEW host \in 0..MaxId, x \in Interfaces,
           ~misled => TypeOf(x) = "hostInterface" /\ \A l \in links : l[1] = x => l[2] = host,
           Arrive(r, Removal("hostInterface", host, misled,
             Steps(<<"listed", "inRule", "addressesInRule", "addressesInGroup",
                     "lastWithAddress", "unlink">>, x)))
    PROVE  UsageInv'
  <1> DEFINE labels == <<"listed", "inRule", "addressesInRule", "addressesInGroup",
                        "lastWithAddress", "unlink">>
             d == Removal("hostInterface", host, misled, Steps(labels, x))
  <1>1. DOMAIN labels = {1, 2, 3, 4, 5, 6}
    OBVIOUS
  <1>2. /\ labels[1] = "listed" /\ labels[2] = "inRule" /\ labels[3] = "addressesInRule"
        /\ labels[4] = "addressesInGroup" /\ labels[5] = "lastWithAddress" /\ labels[6] = "unlink"
    OBVIOUS
  <1>3. labels \in Seq(Labels)
    BY DEF Labels, Searches
  <1>4. Arrive(r, d)
    OBVIOUS
  <1>5. d.op = "hostInterface" /\ d.id = host /\ d.misled = misled /\ d.crossed = misled
    BY DEF Removal
  <1> HIDE DEF labels
  <1>6. Planned(d, labels, x)
    BY <1>1, <1>2, <1>5 DEF Planned, Done, Writes, Removes, Giving, Taking, ByType
  <1>7. host \in 0..MaxId /\ "hostInterface" \in ByType
    BY ObjectUsageAssumption DEF NoOne, ByType, Ids
  <1> QED BY <1>3, <1>4, <1>6, <1>7, RemovalKeeps

LEMMA InterfaceArrives ==
    ASSUME UsageInv, NEW r \in Requests, NEW x \in Items, NEW misled \in BOOLEAN,
           x \in Interfaces, ~misled => x \in Unlinked /\ TypeOf(x) = "fwInterface",
           Arrive(r, Removal("fwInterface", NoOne, misled,
             Steps(<<"listed", "inRule", "addressesInRule", "addressesInGroup",
                     "lastWithAddress", "addresses", "interface">>, x)))
    PROVE  UsageInv'
  <1> DEFINE labels == <<"listed", "inRule", "addressesInRule", "addressesInGroup",
                        "lastWithAddress", "addresses", "interface">>
             d == Removal("fwInterface", NoOne, misled, Steps(labels, x))
  <1>1. DOMAIN labels = {1, 2, 3, 4, 5, 6, 7}
    OBVIOUS
  <1>2. /\ labels[1] = "listed" /\ labels[2] = "inRule" /\ labels[3] = "addressesInRule"
        /\ labels[4] = "addressesInGroup" /\ labels[5] = "lastWithAddress"
        /\ labels[6] = "addresses"
        /\ labels[7] = "interface"
    OBVIOUS
  <1>3. labels \in Seq(Labels)
    BY DEF Labels, Searches
  <1>4. Arrive(r, d)
    OBVIOUS
  <1>5. d.op = "fwInterface" /\ d.id = NoOne /\ d.misled = misled /\ d.crossed = misled
    BY DEF Removal
  <1> HIDE DEF labels
  <1>6. Planned(d, labels, x)
    BY <1>1, <1>2, <1>5 DEF Planned, Done, Writes, Removes, Giving, Taking, ByType
  <1>7. NoOne \in 0..MaxId /\ "fwInterface" \in ByType
    BY ObjectUsageAssumption DEF NoOne, ByType, Ids
  <1> QED BY <1>3, <1>4, <1>6, <1>7, RemovalKeeps

LEMMA GroupArrives ==
    ASSUME UsageInv, NEW r \in Requests, NEW x \in Items,
           Arrive(r, Demand("group", NoOne, NoOne, NoOne,
               Steps(<<"inRule", "empty", "group">>, x)))
    PROVE  UsageInv'
  <1> DEFINE labels == <<"inRule", "empty", "group">>
             d == Demand("group", NoOne, NoOne, NoOne, Steps(labels, x))
  <1>1. DOMAIN labels = {1, 2, 3}
    OBVIOUS
  <1>2. /\ labels[1] = "inRule" /\ labels[2] = "empty" /\ labels[3] = "group"
    OBVIOUS
  <1>3. labels \in Seq(Labels)
    BY DEF Labels, Searches
  <1>4. Arrive(r, d)
    OBVIOUS
  <1>5. d.op = "group" /\ d.to = NoOne /\ d.version = NoOne /\ ~d.misled
    BY DEF Demand
  <1> HIDE DEF labels
  <1>6. Planned(d, labels, x)
    BY <1>1, <1>2, <1>5 DEF Planned, Done, Writes, Removes, Giving, Taking, ByType
  <1> QED BY <1>3, <1>4, <1>6, DemandKeeps DEF Giving, Taking, ByType, NoOne

LEMMA EraseArrives ==
    ASSUME UsageInv, NEW r \in Requests, ReceiveErase(r)
    PROVE  UsageInv'
  <1>1. PICK x \in DOMAIN ipobj, type \in {"address", "host", "other"} :
           Arrive(r, Removal(type, IF type = "host" THEN x ELSE NoOne, type # TypeOf(x),
                             Steps(ErasePlan(type), x)))
    BY DEF ReceiveErase
  <1>2. x \in Items /\ DOMAIN ipobj \subseteq Ids /\ ipobj[x] \in Row
    BY DEF UsageInv, TablesInv, Tables, Items
  <1>3. TypeOf(x) = ipobj[x].type /\ "other" # TypeOf(x)
    <2>1. x \notin HostInterfaces
      BY <1>2, ObjectUsageAssumption DEF Ids
    <2>2. TypeOf(x) = ipobj[x].type
      BY <2>1 DEF TypeOf
    <2> QED BY <1>2, <2>2 DEF Row
  <1> SUFFICES ASSUME NEW misled \in BOOLEAN, misled = (type # TypeOf(x)) PROVE UsageInv'
    OBVIOUS
  <1>4. CASE type = "host"
    BY <1>1, <1>2, <1>4, HostArrives DEF ErasePlan
  <1>5. CASE type = "address"
    <2>1. ~misled => x \in Addresses /\ TypeOf(x) = "address"
      BY <1>3, <1>5 DEF Addresses
    <2> QED BY <1>1, <1>2, <1>5, <2>1, AddressArrives DEF ErasePlan
  <1>6. CASE type = "other"
    BY <1>1, <1>2, <1>3, <1>6, OtherArrives DEF ErasePlan
  <1> QED BY <1>4, <1>5, <1>6

LEMMA DeleteArrives ==
    ASSUME UsageInv, NEW r \in Requests, NEW i \in interfaces,
           \/ \E host \in {NoOne} \cup (DOMAIN ipobj \ Addresses) :
                LET misled == \/ TypeOf(i) # "hostInterface"
                              \/ \E k \in links : k[1] = i /\ k[2] # host
                IN  Arrive(r, Removal("hostInterface", host, misled,
                        Steps(<<"listed", "inRule", "addressesInRule", "addressesInGroup",
                                "lastWithAddress", "unlink">>, i)))
           \/ Arrive(r, Removal("fwInterface", NoOne, TypeOf(i) # "fwInterface",
                  Steps(<<"listed", "inRule", "addressesInRule", "addressesInGroup",
                          "lastWithAddress", "addresses", "interface">>, i)))
    PROVE  UsageInv'
  <1>1. i \in Items /\ i \in Interfaces /\ DOMAIN ipobj \subseteq Ids
        /\ links \subseteq HostInterfaces \X Ids
    BY DEF UsageInv, TablesInv, Tables, Items
  <1>2. CASE Arrive(r, Removal("fwInterface", NoOne, TypeOf(i) # "fwInterface",
                  Steps(<<"listed", "inRule", "addressesInRule", "addressesInGroup",
                          "lastWithAddress", "addresses", "interface">>, i)))
    <2>1. (TypeOf(i) # "fwInterface") \in BOOLEAN
      OBVIOUS
    <2>2. ~(TypeOf(i) # "fwInterface") => i \in Unlinked /\ TypeOf(i) = "fwInterface"
      BY <1>1, ObjectUsageAssumption DEF TypeOf, Unlinked, Ids
    <2> QED BY <1>1, <1>2, <2>1, <2>2, InterfaceArrives
  <1>3. CASE \E host \in {NoOne} \cup (DOMAIN ipobj \ Addresses) :
                LET misled == \/ TypeOf(i) # "hostInterface"
                              \/ \E k \in links : k[1] = i /\ k[2] # host
                IN  Arrive(r, Removal("hostInterface", host, misled,
                        Steps(<<"listed", "inRule", "addressesInRule", "addressesInGroup",
                                "lastWithAddress", "unlink">>, i)))
    <2> DEFINE wrong(host) == \/ TypeOf(i) # "hostInterface"
                              \/ \E k \in links : k[1] = i /\ k[2] # host
    <2>1. PICK host \in {NoOne} \cup (DOMAIN ipobj \ Addresses) :
             Arrive(r, Removal("hostInterface", host, wrong(host),
                 Steps(<<"listed", "inRule", "addressesInRule", "addressesInGroup",
                         "lastWithAddress", "unlink">>, i)))
      BY <1>3
    <2>2. host \in 0..MaxId
      BY <1>1, ObjectUsageAssumption DEF NoOne, Ids
    <2>3. ~wrong(host) =>
             TypeOf(i) = "hostInterface" /\ \A l \in links : l[1] = i => l[2] = host
      OBVIOUS
    <2>4. wrong(host) \in BOOLEAN
      OBVIOUS
    <2> HIDE DEF wrong
    <2> QED BY <1>1, <2>1, <2>2, <2>3, <2>4, HostInterfaceArrives
  <1> QED BY <1>2, <1>3

LEMMA ReceiveKeeps ==
    ASSUME UsageInv, NEW r \in Requests, Receive(r)
    PROVE  UsageInv'
  <1>1. /\ DOMAIN ipobj \cup interfaces \cup groups \subseteq Items
        /\ Addresses \subseteq DOMAIN ipobj
        /\ \A u \in uses : u[1] \in Rules /\ u[2] \in Items
        /\ \A k \in listed : k[1] \in Rules /\ k[2] \in Items
        /\ \A m \in members : m[1] \in Groups /\ m[2] \in Items
        /\ groups \subseteq Groups
    BY DEF UsageInv, TablesInv, Tables, Items, Addresses
  <1>2. CASE ReceiveUse(r)
    BY <1>1, <1>2, UseArrives DEF ReceiveUse
  <1>3. CASE ReceiveMove(r)
    BY <1>1, <1>3, MoveArrives DEF ReceiveMove
  <1>4. CASE ReceiveOut(r)
    BY <1>1, <1>4, OutArrives DEF ReceiveOut
  <1>5. CASE ReceiveIn(r)
    BY <1>1, <1>5, InArrives DEF ReceiveIn
  <1>6. CASE ReceiveList(r)
    BY <1>1, <1>6, ListArrives DEF ReceiveList
  <1>7. CASE ReceiveUnuse(r)
    BY <1>1, <1>7, UnuseArrives, UnlistArrives DEF ReceiveUnuse
  <1>8. CASE ReceiveAddTo(r)
    BY <1>1, <1>8, AddToArrives DEF ReceiveAddTo
  <1>9. CASE ReceiveDelFrom(r)
    BY <1>1, <1>9, DelFromArrives DEF ReceiveDelFrom
  <1>10. CASE ReceiveCreate(r)
    BY <1>1, <1>10, CreateArrives DEF ReceiveCreate
  <1>11. CASE ReceiveErase(r)
    BY <1>11, EraseArrives
  <1>12. CASE ReceiveDelete(r) /\ ~ReceiveErase(r)
    <2>1. CASE \E g \in groups : Arrive(r, Demand("group", NoOne, NoOne, NoOne,
                                        Steps(<<"inRule", "empty", "group">>, g)))
      BY <1>1, <2>1, GroupArrives
    <2> QED BY <1>12, <2>1, DeleteArrives DEF ReceiveDelete
  <1> QED BY <1>2, <1>3, <1>4, <1>5, <1>6, <1>7, <1>8, <1>9, <1>10, <1>11, <1>12 DEF Receive
-----------------------------------------------------------------------------
(* The invariant holds and stays *)

LEMMA InitUsage == Init => UsageInv
  <1> SUFFICES ASSUME Init PROVE UsageInv
    OBVIOUS
  <1>1. PICK layout \in Layouts :
          ipobj = <<Host>> \o [k \in DOMAIN layout |-> Address(layout[k][1], layout[k][2])]
    BY DEF Init
  <1>2. /\ interfaces = Interfaces /\ links = HostInterfaces \X {1} /\ groups = Groups
        /\ members = {} /\ uses = {} /\ listed = {} /\ suspect = {}
        /\ req = [r \in Requests |-> NoRequest] /\ ops = 0
    BY DEF Init
  <1>3. layout \in Seq(Interfaces \X {4, 6}) /\ Len(layout) < MaxId /\ MaxId \in Nat
        /\ MaxOps \in Nat
    BY <1>1, ObjectUsageAssumption
  <1>4. \A k \in DOMAIN layout : layout[k][1] \in Interfaces /\ layout[k][2] \in {4, 6}
    BY <1>3
  <1> DEFINE rows == [k \in DOMAIN layout |-> Address(layout[k][1], layout[k][2])]
  <1>5. rows \in Seq(Row) /\ Len(rows) = Len(layout) /\ DOMAIN rows = DOMAIN layout
        /\ \A k \in DOMAIN rows : rows[k].type = "address" /\ rows[k].interface \in Interfaces
    BY <1>3, <1>4 DEF Row, Address
  <1>6. <<Host>> \in Seq(Row) /\ Len(<<Host>>) = 1 /\ <<Host>>[1] = Host /\ Host.type = "host"
    BY DEF Row, Host
  <1>7. ipobj = <<Host>> \o rows
    BY <1>1
  <1> HIDE DEF rows
  <1>8. /\ ipobj \in Seq(Row) /\ Len(ipobj) = 1 + Len(layout) /\ ipobj[1] = Host
        /\ \A k \in DOMAIN ipobj : k = 1 \/ \E j \in DOMAIN rows : ipobj[k] = rows[j]
    <2> DEFINE one == <<Host>>
    <2>1. one \in Seq(Row) /\ DOMAIN one = {1} /\ one[1] = Host /\ Len(one) = 1
      BY <1>6
    <2> HIDE DEF one
    <2>2. ipobj = one \o rows
      BY <1>7 DEF one
    <2>3. ipobj \in Seq(Row) /\ Len(ipobj) = 1 + Len(layout)
      <3>1. ipobj \in Seq(Row)
        BY <1>5, <2>1, <2>2, ConcatIs
      <3>2. \A S : \A s, t \in Seq(S) : Len(s \o t) = Len(s) + Len(t)
        OBVIOUS
      <3>3. Len(ipobj) = Len(one) + Len(rows)
        BY <1>5, <2>1, <2>2, <3>2
      <3> QED BY <1>5, <2>1, <3>1, <3>3
    <2>4. ipobj[1] = Host
      BY <1>5, <2>1, <2>2, ConcatIs
    <2>5. \A k \in DOMAIN ipobj : k = 1 \/ \E j \in DOMAIN rows : ipobj[k] = rows[j]
      BY <1>5, <2>1, <2>2, ConcatFrom
    <2> QED BY <2>3, <2>4, <2>5
  <1>9. DOMAIN ipobj \subseteq Ids /\ 1 \in DOMAIN ipobj
    BY <1>3, <1>8 DEF Ids
  <1>10. \A x \in DOMAIN ipobj :
            ipobj[x] \in Row /\ (ipobj[x].type = "address" => ipobj[x].interface \in Interfaces)
    BY <1>5, <1>6, <1>8
  <1>11. Tables
    BY <1>2, <1>9, <1>10, ObjectUsageAssumption DEF Tables
  <1>12. HostsApart /\ NoDangling
    BY <1>2, <1>6, <1>8 DEF HostsApart, NoDangling
  <1>13. NoRequest \in Request /\ NoRequest.todo = << >>
    BY ObjectUsageAssumption DEF NoRequest, Request, NoOne
  <1>14. Typed
    BY <1>2, <1>3, <1>13 DEF Typed
  <1>15. Crossing
    BY <1>2, <1>13 DEF Crossing, Free
  <1>16. \A r \in Requests : Fit(req[r])
    <2>1. \A r \in Requests : req[r].todo = << >> /\ ~req[r].misled
      BY <1>2, <1>13 DEF NoRequest
    <2> QED BY <2>1 DEF Fit, Plan, Seen, Searched, Sure, Unhosted, Guarded, Apt, Owned
  <1> QED BY <1>11, <1>12, <1>14, <1>15, <1>16 DEF UsageInv, TablesInv

LEMMA NextUsage == UsageInv /\ [Next]_vars => UsageInv'
  <1> SUFFICES ASSUME UsageInv, [Next]_vars PROVE UsageInv'
    OBVIOUS
  <1>1. CASE UNCHANGED vars
    <2>1. TablesInv' /\ Typed' /\ Crossing'
      BY <1>1 DEF vars, tables, UsageInv, TablesInv, Tables, HostsApart, NoDangling, Exists,
         Typed, Crossing, Free
    <2>2. ASSUME NEW r \in Requests PROVE Fit(req[r])'
      <3> SUFFICES ASSUME NEW d, d = req[r] PROVE Fit(req[r])'
        OBVIOUS
      <3>1. Fit(d) /\ UNCHANGED <<tables, uses, listed, suspect>>
        BY <1>1 DEF UsageInv, vars
      <3>2. Fit(d)'
        BY <3>1, CrossedFits
      <3>3. req'[r] = d
        BY <1>1 DEF vars
      <3> QED BY <3>2, <3>3, FitIs
    <2> QED BY <2>1, <2>2 DEF UsageInv
  <1>2. CASE Next
    BY <1>2, ReceiveKeeps, ServeKeeps DEF Next
  <1> QED BY <1>1, <1>2
-----------------------------------------------------------------------------
(* What removals leave to the containers in rules *)

\* Containers that no rule names; hosts, and interfaces, with only such interfaces,
\* or hosts.
Idle == {x \in Items : IsContainer(x) => \A u \in uses : u[2] # x}
HostIdle == {x \in Items : \A k \in links : k[2] = x => k[1] \in Idle}
Quiet == {x \in Items : \A k \in links : k[1] = x => k[2] \in Idle}
Others == {x \in Items : x \notin Addresses}

\* What is not the last of its kind for a rule.
InterfaceSpares == {x \in Items : x \in Addresses => ~LastInInterface(x)}
HostSpares == {x \in Items : x \in Addresses => ~LastInHost(x)}
HostKeeps == {x \in Items : ~LastWithAddress(x)}
GroupSpares(g) == g \in Idle \/ Cardinality(MembersOf(g)) # 1

\* Only such steps; none but searches before such a step.
Only(s, labels) == \A k \in DOMAIN s : s[k][1] \in Searches \cup labels
First(s, label) ==
    \A k \in DOMAIN s : s[k][1] = label =>
        \A j \in 1..(k - 1) : s[j][1] \in Searches \cup {"count"}

\* What each kind of removal knows of its later steps.
SparesAddress(q) ==
    /\ Only(q.todo, {"erase"}) /\ First(q.todo, "erase")
    /\ Guarded(q.todo, {"erase"}, "lastInInterface", InterfaceSpares)
    /\ Guarded(q.todo, {"erase"}, "lastInHost", HostSpares)

SparesHost(q) ==
    /\ Only(q.todo, {"interfaces", "unlink", "addresses", "interface", "erase"})
    /\ \A k \in DOMAIN q.todo :
         /\ q.todo[k][1] = "erase" => q.todo[k][2] \in Others
         /\ q.todo[k][1] = "unlink" => q.todo[k][2] \in Quiet

SparesInterface(q) ==
    /\ Only(q.todo, {"unlink", "addresses", "interface"}) /\ First(q.todo, "unlink")
    /\ Guarded(q.todo, {"unlink"}, "lastWithAddress", HostKeeps)

SparesMember(q) ==
    /\ Only(q.todo, {"count", "leave"}) /\ First(q.todo, "leave")
    /\ \A k \in DOMAIN q.todo : q.todo[k][1] = "leave" =>
         \/ GroupSpares(q.to)
         \/ \E j \in 1..(k - 1) : q.todo[j][1] = "count" \/ q.todo[j] = <<"inRule", q.to>>

Spares(q) ==
    /\ Guarded(q.todo, {"erase", "interfaces", "unlink", "addresses", "empty"}, "inRule", Idle)
    /\ Guarded(q.todo, {"interfaces"}, "interfacesInRule", HostIdle)
    /\ q.op = "address" => SparesAddress(q)
    /\ q.op = "host" => SparesHost(q)
    /\ q.op \in {"hostInterface", "fwInterface"} => SparesInterface(q)
    /\ q.op = "group" => Only(q.todo, {"empty", "group"})
    /\ q.op = "delfrom" => SparesMember(q)
    /\ q.op # "other"

Sparing(r) ==
    req[r].op \in Taking => ~Free(r) /\ (~req[r].crossed => Spares(req[r]))

FilledInv == UsageInv /\ \A r \in Requests : Sparing(r)

-----------------------------------------------------------------------------
(* What is spared stays spared *)

\* While the tables stay as they are.
LEMMA SpareStays ==
    ASSUME UNCHANGED tables, uses' \subseteq uses
    PROVE  /\ Idle \subseteq Idle' /\ HostIdle \subseteq HostIdle' /\ Quiet \subseteq Quiet'
           /\ Others \subseteq Others' /\ InterfaceSpares \subseteq InterfaceSpares'
           /\ HostSpares \subseteq HostSpares' /\ HostKeeps \subseteq HostKeeps'
           /\ \A g : GroupSpares(g) => GroupSpares(g)'
  <1>1. /\ ipobj' = ipobj /\ interfaces' = interfaces /\ links' = links
        /\ groups' = groups /\ members' = members
    BY DEF tables
  <1>2. Addresses' = Addresses /\ \A x : IsContainer(x)' = IsContainer(x)
    BY <1>1 DEF Addresses, IsContainer
  <1>3. \A x : AddrOf(x)' = AddrOf(x)
    BY <1>1, <1>2 DEF AddrOf
  <1>4. \A x : MembersOf(x)' = MembersOf(x)
    BY <1>1 DEF MembersOf
  <1>5. \A x : UsedIn(x)' \subseteq UsedIn(x)
    BY DEF UsedIn
  <1>6. Idle \subseteq Idle'
    BY <1>2 DEF Idle
  <1>7. HostIdle \subseteq HostIdle' /\ Quiet \subseteq Quiet' /\ Others \subseteq Others'
    BY <1>1, <1>2, <1>6 DEF HostIdle, Quiet, Others
  <1>8. \A x, rule : OfVersion(AddrOf(x), rule)' = OfVersion(AddrOf(x), rule)
    BY <1>1, <1>3 DEF OfVersion
  <1>9. InterfaceSpares \subseteq InterfaceSpares'
    BY <1>1, <1>2, <1>5, <1>8 DEF InterfaceSpares, LastInInterface
  <1>10. HostSpares \subseteq HostSpares'
    BY <1>1, <1>2, <1>5, <1>8 DEF HostSpares, LastInHost
  <1>11. HostKeeps \subseteq HostKeeps'
    BY <1>1, <1>3, <1>5 DEF HostKeeps, LastWithAddress, InRule
  <1>12. \A g : GroupSpares(g) => GroupSpares(g)'
    BY <1>4, <1>6 DEF GroupSpares
  <1> QED BY <1>6, <1>7, <1>9, <1>10, <1>11, <1>12

\* While the request takes away what it has come for.
LEMMA IdleGrows ==
    ASSUME links' \subseteq links, uses' \subseteq uses, interfaces' \subseteq interfaces,
           groups' \subseteq groups, DOMAIN ipobj' \subseteq DOMAIN ipobj,
           \A x \in DOMAIN ipobj' : ipobj'[x] = ipobj[x]
    PROVE  /\ Idle \subseteq Idle' /\ HostIdle \subseteq HostIdle' /\ Quiet \subseteq Quiet'
           /\ Others \subseteq Others'
  <1>1. \A x : IsContainer(x)' => IsContainer(x)
    BY DEF Addresses, IsContainer
  <1>2. Idle \subseteq Idle'
    BY <1>1 DEF Idle
  <1> QED BY <1>2 DEF HostIdle, Quiet, Others, Addresses

\* What a request knows stays so while others do not touch the tables.
LEMMA SparesStay ==
    ASSUME UNCHANGED tables, uses' \subseteq uses, NEW d, NEW e, Spares(d),
           e.op = d.op, e.to = d.to, e.todo = d.todo
    PROVE  Spares(e)'
  <1>1. /\ Guarded(e.todo, {"erase", "interfaces", "unlink", "addresses", "empty"}, "inRule",
                   Idle')
        /\ Guarded(e.todo, {"interfaces"}, "interfacesInRule", HostIdle')
    BY SpareStays, GuardedGrows DEF Spares
  <1>2. e.op = "address" => SparesAddress(e)'
    BY SpareStays, GuardedGrows DEF Spares, SparesAddress, Only, First
  <1>3. e.op = "host" => SparesHost(e)'
    BY SpareStays DEF Spares, SparesHost, Only
  <1>4. e.op \in {"hostInterface", "fwInterface"} => SparesInterface(e)'
    BY SpareStays, GuardedGrows DEF Spares, SparesInterface, Only, First
  <1>5. e.op = "delfrom" => SparesMember(e)'
    BY SpareStays DEF Spares, SparesMember, Only, First
  <1>6. (e.op = "group" => Only(e.todo, {"empty", "group"})) /\ e.op # "other"
    BY DEF Spares
  <1> QED BY <1>1, <1>2, <1>3, <1>4, <1>5, <1>6 DEF Spares, Only

LEMMA FirstTail ==
    ASSUME NEW S, NEW s \in Seq(S), s # << >>, NEW label, First(s, label)
    PROVE  /\ First(Tail(s), label)
           /\ s[1][1] \notin Searches \cup {"count"} =>
                \A k \in DOMAIN Tail(s) : Tail(s)[k][1] # label
  <1>1. \A k \in DOMAIN Tail(s) :
           k \in Nat /\ k >= 1 /\ k + 1 \in DOMAIN s /\ Tail(s)[k] = s[k + 1]
    BY TailIs
  <1>2. ASSUME NEW k \in DOMAIN Tail(s), Tail(s)[k][1] = label
        PROVE  \A j \in 1..k : s[j][1] \in Searches \cup {"count"}
    <2>1. (k + 1) - 1 = k /\ k + 1 \in DOMAIN s /\ s[k + 1][1] = label
      BY <1>1, <1>2
    <2> QED BY <2>1 DEF First
  <1>3. ASSUME NEW k \in DOMAIN Tail(s), Tail(s)[k][1] = label, NEW j \in 1..(k - 1)
        PROVE  Tail(s)[j][1] \in Searches \cup {"count"}
    <2>1. k \in 1..Len(Tail(s)) /\ j + 1 \in 1..k
      BY <1>1, <1>3
    <2>2. j \in DOMAIN Tail(s)
      BY <1>3, <2>1
    <2> QED BY <1>1, <1>2, <1>3, <2>1, <2>2
  <1>4. First(Tail(s), label)
    BY <1>3 DEF First
  <1>5. ASSUME NEW k \in DOMAIN Tail(s), Tail(s)[k][1] = label
        PROVE  s[1][1] \in Searches \cup {"count"}
    <2>1. 1 \in 1..k
      BY <1>1
    <2> QED BY <1>2, <1>5, <2>1
  <1> QED BY <1>4, <1>5

LEMMA OnlyTail ==
    ASSUME NEW S, NEW s \in Seq(S), s # << >>, NEW labels, Only(s, labels)
    PROVE  Only(Tail(s), labels) /\ s[1][1] \in Searches \cup labels
  BY TailIs DEF Only

\* No such step is left, or the step made was a search.
LEMMA GuardedFirst ==
    ASSUME NEW S, NEW s \in Seq(S), s # << >>, NEW label, First(s, label),
           NEW search, NEW good, NEW better, Guarded(s, {label}, search, good),
           s[1][1] \in Searches \cup {"count"} => good \subseteq better,
           s[1] = <<search, s[1][2]>> => s[1][2] \in better
    PROVE  Guarded(Tail(s), {label}, search, better)
  <1>1. CASE s[1][1] \in Searches \cup {"count"}
    BY <1>1, GuardedTail
  <1>2. CASE s[1][1] \notin Searches \cup {"count"}
    BY <1>2, FirstTail DEF Guarded
  <1> QED BY <1>1, <1>2

-----------------------------------------------------------------------------
(* The steps of a removal *)

\* What a removal does to the tables.
Shrinks ==
    /\ links' \subseteq links /\ uses' \subseteq uses /\ interfaces' \subseteq interfaces
    /\ groups' \subseteq groups /\ DOMAIN ipobj' \subseteq DOMAIN ipobj
    /\ \A x \in DOMAIN ipobj' : ipobj'[x] = ipobj[x]

Searching(r) == req[r].todo[1][1] \in Searches \cup {"count"}

\* What a step has found, of what later ones rely on.
Spent(r, x, g) ==
    /\ At(r, "inRule") => x \in Idle'
    /\ At(r, "interfacesInRule") => x \in HostIdle'
    /\ At(r, "lastInInterface") => x \in InterfaceSpares'
    /\ At(r, "lastInHost") => x \in HostSpares'
    /\ At(r, "lastWithAddress") => x \in HostKeeps'
    /\ At(r, "count") => GroupSpares(g)'

LEMMA TailSpares ==
    ASSUME UsageInv, NEW r \in Requests, ~Free(r), Spares(req[r]), Shrinks,
           Searching(r) => UNCHANGED tables,
           NEW g, g = req[r].to, Spent(r, Subject(r), g),
           NEW q, q.op = req[r].op, q.to = g, q.todo = Tail(req[r].todo)
    PROVE  Spares(q)'
  <1> DEFINE s == req[r].todo
  <1>1. s \in Seq(Labels \X Items) /\ s # << >> /\ s[1] = <<s[1][1], s[1][2]>>
    BY HeadIs DEF Free, Subject
  <1>2. /\ Idle \subseteq Idle' /\ HostIdle \subseteq HostIdle' /\ Quiet \subseteq Quiet'
        /\ Others \subseteq Others'
    BY IdleGrows DEF Shrinks
  <1>3. s[1][1] \in Searches \cup {"count"} =>
          /\ InterfaceSpares \subseteq InterfaceSpares'
          /\ HostSpares \subseteq HostSpares' /\ HostKeeps \subseteq HostKeeps'
          /\ \A x : GroupSpares(x) => GroupSpares(x)'
    BY SpareStays DEF Shrinks, Searching
  <1>4. /\ s[1] = <<"inRule", s[1][2]>> => s[1][2] \in Idle'
        /\ s[1] = <<"interfacesInRule", s[1][2]>> => s[1][2] \in HostIdle'
        /\ s[1] = <<"lastInInterface", s[1][2]>> => s[1][2] \in InterfaceSpares'
        /\ s[1] = <<"lastInHost", s[1][2]>> => s[1][2] \in HostSpares'
        /\ s[1] = <<"lastWithAddress", s[1][2]>> => s[1][2] \in HostKeeps'
        /\ s[1][1] = "count" => GroupSpares(g)'
    BY <1>1 DEF Spent, At, Subject
  <1>5. /\ Guarded(s, {"erase", "interfaces", "unlink", "addresses", "empty"}, "inRule", Idle)
        /\ Guarded(s, {"interfaces"}, "interfacesInRule", HostIdle)
        /\ q.op = "address" =>
             /\ Only(s, {"erase"}) /\ First(s, "erase")
             /\ Guarded(s, {"erase"}, "lastInInterface", InterfaceSpares)
             /\ Guarded(s, {"erase"}, "lastInHost", HostSpares)
        /\ q.op \in {"hostInterface", "fwInterface"} =>
             /\ Only(s, {"unlink", "addresses", "interface"}) /\ First(s, "unlink")
             /\ Guarded(s, {"unlink"}, "lastWithAddress", HostKeeps)
        /\ q.op = "group" => Only(s, {"empty", "group"})
        /\ q.op # "other"
    BY DEF Spares, SparesAddress, SparesInterface
  <1>6. q.op = "host" =>
          /\ Only(s, {"interfaces", "unlink", "addresses", "interface", "erase"})
          /\ \A k \in DOMAIN s :
               /\ s[k][1] = "erase" => s[k][2] \in Others
               /\ s[k][1] = "unlink" => s[k][2] \in Quiet
    BY DEF Spares, SparesHost
  <1>7. q.op = "delfrom" =>
          /\ Only(s, {"count", "leave"}) /\ First(s, "leave")
          /\ \A k \in DOMAIN s : s[k][1] = "leave" =>
               \/ GroupSpares(g)
               \/ \E j \in 1..(k - 1) : s[j][1] = "count" \/ s[j] = <<"inRule", g>>
    BY DEF Spares, SparesMember
  <1>8. q.todo = Tail(s)
    OBVIOUS
  <1> HIDE DEF s
  <1>9. Guarded(Tail(s), {"erase", "interfaces", "unlink", "addresses", "empty"}, "inRule",
                Idle')
    BY <1>1, <1>2, <1>4, <1>5, GuardedTail
  <1>10. Guarded(Tail(s), {"interfaces"}, "interfacesInRule", HostIdle')
    BY <1>1, <1>2, <1>4, <1>5, GuardedTail
  <1>11. ASSUME q.op = "address" PROVE SparesAddress(q)'
    <2>1. Only(Tail(s), {"erase"}) /\ First(Tail(s), "erase")
      BY <1>1, <1>5, <1>11, OnlyTail, FirstTail
    <2>2. Guarded(Tail(s), {"erase"}, "lastInInterface", InterfaceSpares')
      BY <1>1, <1>3, <1>4, <1>5, <1>11, GuardedFirst
    <2>3. Guarded(Tail(s), {"erase"}, "lastInHost", HostSpares')
      BY <1>1, <1>3, <1>4, <1>5, <1>11, GuardedFirst
    <2> QED BY <1>8, <2>1, <2>2, <2>3 DEF SparesAddress, Only, First
  <1>12. ASSUME q.op = "host" PROVE SparesHost(q)'
    <2>1. Only(Tail(s), {"interfaces", "unlink", "addresses", "interface", "erase"})
      BY <1>1, <1>6, <1>12, OnlyTail
    <2>2. \A k \in DOMAIN Tail(s) : k + 1 \in DOMAIN s /\ Tail(s)[k] = s[k + 1]
      BY <1>1, TailIs
    <2>3. \A k \in DOMAIN Tail(s) :
             /\ Tail(s)[k][1] = "erase" => Tail(s)[k][2] \in Others'
             /\ Tail(s)[k][1] = "unlink" => Tail(s)[k][2] \in Quiet'
      BY <1>2, <1>6, <1>12, <2>2
    <2> QED BY <1>8, <2>1, <2>3 DEF SparesHost, Only
  <1>13. ASSUME q.op \in {"hostInterface", "fwInterface"} PROVE SparesInterface(q)'
    <2>1. Only(Tail(s), {"unlink", "addresses", "interface"}) /\ First(Tail(s), "unlink")
      BY <1>1, <1>5, <1>13, OnlyTail, FirstTail
    <2>2. Guarded(Tail(s), {"unlink"}, "lastWithAddress", HostKeeps')
      BY <1>1, <1>3, <1>4, <1>5, <1>13, GuardedFirst
    <2> QED BY <1>8, <2>1, <2>2 DEF SparesInterface, Only, First
  <1>14. ASSUME q.op = "delfrom" PROVE SparesMember(q)'
    <2>1. Only(Tail(s), {"count", "leave"}) /\ First(Tail(s), "leave")
      BY <1>1, <1>7, <1>14, OnlyTail, FirstTail
    <2>2. ASSUME NEW k \in DOMAIN Tail(s), Tail(s)[k][1] = "leave"
          PROVE  \/ GroupSpares(g)'
                 \/ \E j \in 1..(k - 1) :
                       Tail(s)[j][1] = "count" \/ Tail(s)[j] = <<"inRule", g>>
      <3>1. s[1][1] \in Searches \cup {"count"}
        BY <1>1, <1>7, <1>14, <2>2, FirstTail
      <3>2. k \in Nat /\ k >= 1 /\ k + 1 \in DOMAIN s /\ Tail(s)[k] = s[k + 1]
        BY <1>1, TailIs
      <3>3. \/ GroupSpares(g)
            \/ \E j \in 1..k : s[j][1] = "count" \/ s[j] = <<"inRule", g>>
        <4>1. (k + 1) - 1 = k
          BY <3>2
        <4> QED BY <1>7, <1>14, <2>2, <3>2, <4>1
      <3>4. CASE GroupSpares(g)
        BY <1>3, <3>1, <3>4
      <3>5. CASE \E j \in 1..k : s[j][1] = "count" \/ s[j] = <<"inRule", g>>
        <4>1. PICK j \in 1..k : s[j][1] = "count" \/ s[j] = <<"inRule", g>>
          BY <3>5
        <4>2. CASE j = 1
          <5>1. s[1] = <<"inRule", g>> => GroupSpares(g)'
            BY <1>4 DEF GroupSpares
          <5> QED BY <1>4, <4>1, <4>2, <5>1
        <4>3. CASE j # 1
          <5>1. j - 1 \in 1..(k - 1) /\ j \in DOMAIN s /\ j > 1
            BY <1>1, <3>2, <4>3
          <5>2. Tail(s)[j - 1] = s[j]
            BY <1>1, <5>1, TailIs
          <5> QED BY <4>1, <5>1, <5>2
        <4> QED BY <4>2, <4>3
      <3> QED BY <3>3, <3>4, <3>5
    <2> QED BY <1>8, <2>1, <2>2 DEF SparesMember, Only, First
  <1>15. q.op = "group" => Only(Tail(s), {"empty", "group"})
    BY <1>1, <1>5, OnlyTail
  <1> QED BY <1>5, <1>8, <1>9, <1>10, <1>11, <1>12, <1>13, <1>14, <1>15 DEF Spares, Only

\* What a removal knows of the step that it is about to make.
LEMMA HeadSpares ==
    ASSUME UsageInv, NEW r \in Requests, NEW label, At(r, label), Spares(req[r]),
           req[r].op \in Taking
    PROVE  /\ label \in {"erase", "interfaces", "unlink", "addresses", "empty"} =>
                Subject(r) \in Idle
           /\ label = "interfaces" => Subject(r) \in HostIdle /\ req[r].op = "host"
           /\ label = "erase" =>
                \/ Subject(r) \in Others
                \/ Subject(r) \in InterfaceSpares /\ Subject(r) \in HostSpares
           /\ label = "unlink" =>
                \/ Subject(r) \in Quiet /\ req[r].op = "host"
                \/ Subject(r) \in HostKeeps /\ req[r].op \in {"hostInterface", "fwInterface"}
           /\ label = "leave" => GroupSpares(req[r].to)
           /\ label \in {"leave", "count"} => req[r].op = "delfrom"
           /\ label \in Searches \cup {"erase", "interfaces", "unlink", "addresses",
                                       "interface", "empty", "group", "count", "leave"}
  <1> DEFINE s == req[r].todo
  <1>1. /\ s \in Seq(Labels \X Items) /\ s # << >> /\ s[1] = <<label, Subject(r)>>
        /\ 1 \in DOMAIN s /\ s[1][1] = label /\ s[1][2] = Subject(r)
    BY HeadIs DEF At
  <1>2. label \in {"erase", "interfaces", "unlink", "addresses", "empty"} =>
          Subject(r) \in Idle
    BY <1>1, GuardedHead DEF Spares
  <1>3. label = "interfaces" => Subject(r) \in HostIdle
    BY <1>1, GuardedHead DEF Spares
  <1>4. CASE req[r].op = "address"
    <2>1. SparesAddress(req[r])
      BY <1>4 DEF Spares
    <2>2. label \in Searches \cup {"erase"}
      BY <1>1, <2>1 DEF SparesAddress, Only
    <2>3. label = "erase" => Subject(r) \in InterfaceSpares /\ Subject(r) \in HostSpares
      BY <1>1, <2>1, GuardedHead DEF SparesAddress
    <2> QED BY <1>2, <1>4, <2>2, <2>3 DEF Searches
  <1>5. CASE req[r].op = "host"
    <2>1. SparesHost(req[r])
      BY <1>5 DEF Spares
    <2>2. label \in Searches \cup {"interfaces", "unlink", "addresses", "interface", "erase"}
      BY <1>1, <2>1 DEF SparesHost, Only
    <2>3. /\ label = "erase" => Subject(r) \in Others
          /\ label = "unlink" => Subject(r) \in Quiet
      BY <1>1, <2>1 DEF SparesHost
    <2> QED BY <1>2, <1>3, <1>5, <2>2, <2>3 DEF Searches
  <1>6. CASE req[r].op \in {"hostInterface", "fwInterface"}
    <2>1. SparesInterface(req[r])
      BY <1>6 DEF Spares
    <2>2. label \in Searches \cup {"unlink", "addresses", "interface"}
      BY <1>1, <2>1 DEF SparesInterface, Only
    <2>3. label = "unlink" => Subject(r) \in HostKeeps
      BY <1>1, <2>1, GuardedHead DEF SparesInterface
    <2> QED BY <1>2, <1>6, <2>2, <2>3 DEF Searches
  <1>7. CASE req[r].op = "group"
    <2>1. label \in Searches \cup {"empty", "group"}
      BY <1>1, <1>7 DEF Spares, Only
    <2> QED BY <1>2, <2>1 DEF Searches
  <1>8. CASE req[r].op = "delfrom"
    <2>1. SparesMember(req[r])
      BY <1>8 DEF Spares
    <2>2. label \in Searches \cup {"count", "leave"}
      BY <1>1, <2>1 DEF SparesMember, Only
    <2>3. label = "leave" => GroupSpares(req[r].to)
      <3>1. \A j \in 1..(1 - 1) : FALSE
        OBVIOUS
      <3> QED BY <1>1, <2>1, <3>1 DEF SparesMember
    <2> QED BY <1>8, <2>2, <2>3 DEF Searches
  <1>9. req[r].op # "other"
    BY DEF Spares
  <1> QED BY <1>4, <1>5, <1>6, <1>7, <1>8, <1>9 DEF Taking, ByType

LEMMA TakingShrinks ==
    ASSUME UsageInv, NEW r \in Requests, Serve(r), req[r].op \in Taking
    PROVE  Shrinks
  <1>1. Effect(r) /\ req[r].op \notin Giving
    BY ServeEffect DEF Giving, Taking, ByType
  <1>2. interfaces' \subseteq interfaces /\ groups' \subseteq groups
    BY DEF Serve, Container, ExistsInPosition, CheckIpVersion, CheckIpobjPosition,
       InsertPolicyRIpobj, UpdatePosition, DeletePolicyRIpobj, CheckInterfacePosition,
       InsertPolicyRInterface, DeletePolicyRInterface, GroupIPVersion, HostContent,
       InsertIpobjIpobjg, CountGroupItems, DeleteIpobjIpobjg, HighestId, InsertIpobj, Search,
       HostInterfacesOf, DeleteHostInterface, DeleteIpobjInterface, DeleteIpobj,
       DeleteInterface, DeleteMembers, DeleteGroup, AnswerError, DeleteRows, tables
  <1> QED BY <1>1, <1>2 DEF Effect, Shrinks

LEMMA SparesIs ==
    ASSUME NEW r \in Requests, NEW q, req'[r] = q, Spares(q)'
    PROVE  Spares(req[r])'
  <1>1. SparesMember(q)' => SparesMember(req[r])'
    BY DEF SparesMember, Only, First, GroupSpares
  <1> QED BY <1>1 DEF Spares, SparesAddress, SparesHost, SparesInterface, Only, First

\* What a removal leaves for itself to do.
GoesOn(r) == req'[r].todo = << >> \/ Spares(req[r])'

LEMMA ThenSpares ==
    ASSUME UsageInv, NEW r \in Requests, NEW t \in Seq(Labels \X Items), Then(r, t),
           NEW q, q = [req[r] EXCEPT !.todo = t], Spares(q)'
    PROVE  GoesOn(r)
  <1>1. req'[r].todo = t /\ (t # << >> => req'[r] = q)
    BY ThenIs DEF UsageInv
  <1> QED BY <1>1, SparesIs DEF GoesOn

LEMMA RefuseSpares ==
    ASSUME UsageInv, NEW r \in Requests, Refuse(r)
    PROVE  GoesOn(r)
  <1>1. << >> \in Seq(Labels \X Items)
    OBVIOUS
  <1> QED BY <1>1, ThenIs DEF UsageInv, Refuse, GoesOn

LEMMA ProceedSpares ==
    ASSUME UsageInv, NEW r \in Requests, ~Free(r), Spares(req[r]), Shrinks,
           Searching(r) => UNCHANGED tables,
           NEW g, g = req[r].to, Spent(r, Subject(r), g), Proceed(r)
    PROVE  GoesOn(r)
  <1> DEFINE t == Tail(req[r].todo)
  <1>1. t \in Seq(Labels \X Items)
    BY HeadIs, TailIs DEF Free
  <1> SUFFICES ASSUME NEW q, q = [req[r] EXCEPT !.todo = t]
               PROVE  GoesOn(r)
    OBVIOUS
  <1>2. req[r] \in Request
    BY DEF UsageInv, Typed
  <1>3. q.op = req[r].op /\ q.to = g /\ q.todo = t
    BY <1>2 DEF Request
  <1>4. Spares(q)'
    BY <1>3, TailSpares
  <1>5. Then(r, t)
    BY DEF Proceed
  <1> HIDE DEF t
  <1> QED BY <1>1, <1>4, <1>5, ThenSpares

\* A removal that met no other request is not stopped.
LEMMA NeverFails ==
    ASSUME UsageInv, UsageInv', NEW r \in Requests, ~Free(r), Fail(r), ~req[r].crossed
    PROVE  FALSE
  <1> DEFINE t == <<<<"failed", Subject(r)>>>>
  <1>1. t \in Seq(Labels \X Items)
    <2>1. <<"failed", Subject(r)>> \in Labels \X Items
      BY HeadIs DEF Labels, Free
    <2> QED BY <2>1
  <1>2. t # << >> /\ 1 \in DOMAIN t /\ t[1][1] = "failed"
    OBVIOUS
  <1>3. Then(r, t)
    BY DEF Fail
  <1> HIDE DEF t
  <1>4. req'[r].todo = t /\ req'[r] = [req[r] EXCEPT !.todo = t]
    BY <1>1, <1>2, <1>3, ThenIs DEF UsageInv
  <1>5. req[r] \in Request
    BY DEF UsageInv, Typed
  <1>6. ~req'[r].crossed
    BY <1>4, <1>5 DEF Request
  <1>7. \A k \in DOMAIN req'[r].todo : req'[r].todo[k][1] = "failed" => req'[r].crossed
    BY DEF UsageInv, Fit, Plan
  <1> QED BY <1>2, <1>4, <1>6, <1>7

\* What a search that finds nothing shows.
LEMMA FoundSpares ==
    ASSUME TablesInv, NEW x \in Items
    PROVE  /\ ~Found("inRule", x) => x \in Idle
           /\ ~Found("interfacesInRule", x) => x \in HostIdle
           /\ ~Found("lastInInterface", x) => x \in InterfaceSpares
           /\ ~Found("lastInHost", x) => x \in HostSpares
           /\ ~Found("lastWithAddress", x) => x \in HostKeeps
  <1>1. \A y : IsContainer(y) => Exists(y)
    BY DEF IsContainer, Exists
  <1>2. \A u \in uses : u[1] \in Rules /\ u = <<u[1], u[2]>>
    BY DEF TablesInv, Tables
  <1>3. ASSUME NEW y \in Items, ~InRule(y) PROVE y \in Idle
    BY <1>2, <1>3 DEF InRule, UsedIn, Idle
  <1>4. ~Found("inRule", x) => x \in Idle
    BY <1>1, <1>3 DEF Found, Idle
  <1>5. \A k \in links : k[1] \in Items /\ Exists(k[1]) /\ Exists(k[2])
    BY DEF TablesInv, Tables, Items, Exists
  <1>6. ~Found("interfacesInRule", x) => x \in HostIdle
    BY <1>3, <1>5 DEF Found, InterfacesInRule, HostIdle
  <1>7. x \in Addresses => Exists(x)
    BY DEF Addresses, Exists
  <1>8. ~Found("lastInInterface", x) => x \in InterfaceSpares
    BY <1>7 DEF Found, InterfaceSpares
  <1>9. ~Found("lastInHost", x) => x \in HostSpares
    BY <1>7 DEF Found, HostSpares
  <1>10. ~Found("lastWithAddress", x) => x \in HostKeeps
    BY <1>5 DEF Found, LastWithAddress, HostKeeps
  <1> QED BY <1>4, <1>6, <1>8, <1>9, <1>10

LEMMA SearchSpares ==
    ASSUME UsageInv, NEW r \in Requests, Spares(req[r]), ~req[r].crossed, Search(r)
    PROVE  GoesOn(r)
  <1>1. PICK search \in Searches : At(r, search) /\ If(~Finds(r, search), r)
    BY DEF Search
  <1>2. ~Free(r) /\ Subject(r) \in Items
    BY <1>1, HeadIs DEF At, Free
  <1>3. UNCHANGED tables /\ uses' = uses /\ Shrinks
    BY DEF Search, tables, Shrinks
  <1>4. CASE Refuse(r)
    BY <1>4, RefuseSpares
  <1>5. CASE Proceed(r) /\ ~Finds(r, search)
    <2> SUFFICES ASSUME NEW g, g = req[r].to PROVE GoesOn(r)
      OBVIOUS
    <2>a. ~Found(search, Subject(r))
      BY <1>1, <1>5, HeadMay, FindsNothing
    <2>1. /\ search = "inRule" => Subject(r) \in Idle
          /\ search = "interfacesInRule" => Subject(r) \in HostIdle
          /\ search = "lastInInterface" => Subject(r) \in InterfaceSpares
          /\ search = "lastInHost" => Subject(r) \in HostSpares
          /\ search = "lastWithAddress" => Subject(r) \in HostKeeps
      BY <1>2, <2>a, FoundSpares DEF UsageInv
    <2>2. /\ Idle \subseteq Idle' /\ HostIdle \subseteq HostIdle'
          /\ InterfaceSpares \subseteq InterfaceSpares'
          /\ HostSpares \subseteq HostSpares' /\ HostKeeps \subseteq HostKeeps'
      BY <1>3, SpareStays
    <2>3. Spent(r, Subject(r), g)
      BY <1>1, <2>1, <2>2 DEF Spent, At, Searches
    <2> QED BY <1>2, <1>3, <1>5, <2>3, ProceedSpares
  <1> QED BY <1>1, <1>4, <1>5 DEF If

\* A step that no later one relies on.
LEMMA PlainSpares ==
    ASSUME UsageInv, NEW r \in Requests, Spares(req[r]), Shrinks, NEW label, At(r, label),
           label \in {"erase", "addresses", "interface", "empty", "group", "leave"},
           Proceed(r)
    PROVE  GoesOn(r)
  <1>1. ~Free(r) /\ ~Searching(r)
    BY DEF At, Free, Searching, Searches
  <1> SUFFICES ASSUME NEW g, g = req[r].to PROVE GoesOn(r)
    OBVIOUS
  <1>2. Spent(r, Subject(r), g)
    BY DEF Spent, At
  <1> QED BY <1>1, <1>2, ProceedSpares

LEMMA DeletesSpare ==
    ASSUME UsageInv, UsageInv', NEW r \in Requests, Spares(req[r]), Shrinks, ~req[r].crossed,
           \/ DeleteIpobjInterface(r) \/ DeleteIpobj(r) \/ DeleteInterface(r)
           \/ DeleteMembers(r) \/ DeleteGroup(r) \/ DeleteIpobjIpobjg(r)
    PROVE  GoesOn(r)
  <1>1. PICK label \in {"erase", "addresses", "interface", "empty", "group", "leave"} :
          At(r, label)
    BY DEF DeleteIpobjInterface, DeleteIpobj, DeleteInterface, DeleteMembers, DeleteGroup,
       DeleteIpobjIpobjg
  <1>2. Proceed(r) \/ Fail(r)
    BY DEF DeleteIpobjInterface, DeleteIpobj, DeleteInterface, DeleteMembers, DeleteGroup,
       DeleteIpobjIpobjg, DeleteRows
  <1>3. ~Free(r)
    BY <1>1 DEF At, Free
  <1>4. Proceed(r)
    BY <1>2, <1>3, NeverFails
  <1> QED BY <1>1, <1>4, PlainSpares

LEMMA PutFirst ==
    ASSUME NEW S, NEW x \in S, NEW t \in Seq(S), NEW u, u = <<x>> \o t
    PROVE  /\ u \in Seq(S) /\ u[1] = x
           /\ \A k \in DOMAIN u :
                k \in Nat /\ k >= 1 /\ (k # 1 => k - 1 \in DOMAIN t /\ u[k] = t[k - 1])
  OBVIOUS

\* Of the last member, the group is searched first.
LEMMA CountSpares ==
    ASSUME UsageInv, NEW r \in Requests, Spares(req[r]), CountGroupItems(r),
           req[r].op \in Taking
    PROVE  GoesOn(r)
  <1> SUFFICES ASSUME NEW g, g = req[r].to PROVE GoesOn(r)
    OBVIOUS
  <1> DEFINE t == Tail(req[r].todo)
             S == Labels \X Items
  <1>1. At(r, "count") /\ ~Free(r) /\ UNCHANGED tables /\ uses' = uses
    BY DEF CountGroupItems, At, Free
  <1>2. g \in Groups /\ g \in Items /\ req[r].op = "delfrom"
    BY <1>1, HeadMay, HeadSpares DEF Items
  <1>3. Shrinks
    BY <1>1 DEF tables, Shrinks
  <1>4. req[r].todo \in Seq(S) /\ req[r].todo # << >> /\ t \in Seq(S)
    BY <1>1, HeadIs, TailIs DEF Free
  <1>5. CASE Cardinality(MembersOf(g)) # 1
    <2>1. Then(r, << >> \o t)
      BY <1>5 DEF CountGroupItems
    <2>2. << >> \o t = t
      BY <1>4
    <2>3. Proceed(r)
      BY <2>1, <2>2 DEF Proceed
    <2>4. GroupSpares(g)'
      BY <1>1, <1>5, SpareStays DEF GroupSpares
    <2>5. Spent(r, Subject(r), g)
      BY <1>1, <2>4 DEF Spent, At
    <2> QED BY <1>1, <1>3, <2>3, <2>5, ProceedSpares
  <1>6. CASE Cardinality(MembersOf(g)) = 1
    <2> DEFINE all == <<<<"inRule", g>>>> \o t
    <2>1. Then(r, all)
      BY <1>6 DEF CountGroupItems
    <2>2. <<"inRule", g>> \in S
      BY <1>2 DEF Labels, Searches
    <2>3. /\ Only(req[r].todo, {"count", "leave"}) /\ First(req[r].todo, "leave")
      BY <1>2 DEF Spares, SparesMember
    <2>4. Only(t, {"count", "leave"}) /\ First(t, "leave")
      BY <1>4, <2>3, OnlyTail, FirstTail
    <2> HIDE DEF t, S
    <2>5. /\ all \in Seq(S) /\ all[1] = <<"inRule", g>>
          /\ \A k \in DOMAIN all :
               k \in Nat /\ k >= 1 /\ (k # 1 => k - 1 \in DOMAIN t /\ all[k] = t[k - 1])
      BY <1>4, <2>2, PutFirst
    <2> HIDE DEF all
    <2>6. DOMAIN all \subseteq Nat
      BY <2>5
    <2>7. Only(all, {"count", "leave"})
      BY <2>4, <2>5, <2>6 DEF Only, Searches
    <2>8. First(all, "leave")
      <3> SUFFICES ASSUME NEW k \in DOMAIN all, all[k][1] = "leave", NEW j \in 1..(k - 1)
                   PROVE  all[j][1] \in Searches \cup {"count"}
        BY DEF First
      <3>1. k # 1 /\ k \in Nat
        BY <2>5
      <3>2. k - 1 \in DOMAIN t /\ t[k - 1][1] = "leave" /\ k >= 1
        BY <2>5, <3>1
      <3>3. CASE j = 1
        BY <2>5, <3>3 DEF Searches
      <3>4. CASE j # 1
        <4>1. j \in DOMAIN all
          BY <2>5, <3>1
        <4>2. all[j] = t[j - 1] /\ j - 1 \in 1..((k - 1) - 1)
          BY <2>5, <3>1, <3>4, <4>1
        <4> QED BY <2>4, <3>2, <4>2 DEF First
      <3> QED BY <3>3, <3>4
    <2>9. ASSUME NEW k \in DOMAIN all, all[k][1] = "leave"
          PROVE  \E j \in 1..(k - 1) : all[j] = <<"inRule", g>>
      <3>1. k # 1 /\ k \in Nat
        BY <2>5, <2>9
      <3>2. 1 \in 1..(k - 1)
        BY <2>5, <3>1
      <3> QED BY <2>5, <3>2
    <2> SUFFICES ASSUME NEW q, q = [req[r] EXCEPT !.todo = all] PROVE GoesOn(r)
      OBVIOUS
    <2>10. q.todo = all /\ q.op = "delfrom" /\ q.to = g
      <3>1. req[r] \in Request
        BY DEF UsageInv, Typed
      <3> QED BY <1>2, <3>1 DEF Request
    <2>11. SparesMember(q)'
      BY <2>7, <2>8, <2>9, <2>10 DEF SparesMember, Only, First
    <2>12. \A k \in DOMAIN all : all[k][1] \notin
               {"erase", "interfaces", "unlink", "addresses", "empty"}
      BY <2>7 DEF Only, Searches
    <2>13. Spares(q)'
      BY <2>10, <2>11, <2>12 DEF Spares, Guarded
    <2>14. all \in Seq(Labels \X Items)
      BY <2>5 DEF S
    <2> QED BY <2>1, <2>13, <2>14, ThenSpares DEF all
  <1> QED BY <1>5, <1>6

LEMMA ConcatSpares ==
    ASSUME NEW p, NEW u, NEW q, u.todo \in Seq(Labels \X Items), q.todo \in Seq(Labels \X Items),
           p.todo = u.todo \o q.todo, p.op \in {"host", "hostInterface", "fwInterface"},
           u.op = p.op, q.op = p.op, Spares(u)', Spares(q)',
           p.op \in {"hostInterface", "fwInterface"} =>
              /\ \A k \in DOMAIN u.todo : u.todo[k][1] # "unlink"
              /\ \A k \in DOMAIN q.todo : q.todo[k][1] # "unlink"
    PROVE  Spares(p)'
  <1> DEFINE s == u.todo
             t == q.todo
             S == Labels \X Items
  <1>1. s \in Seq(S) /\ t \in Seq(S) /\ p.todo = s \o t
    OBVIOUS
  <1>2. ASSUME NEW labels, NEW search, NEW good,
               Guarded(s, labels, search, good), Guarded(t, labels, search, good)
        PROVE  Guarded(p.todo, labels, search, good)
    BY <1>1, <1>2, GuardedConcat
  <1>3. /\ Guarded(p.todo, {"erase", "interfaces", "unlink", "addresses", "empty"}, "inRule",
                   Idle')
        /\ Guarded(p.todo, {"interfaces"}, "interfacesInRule", HostIdle')
    BY <1>2 DEF Spares
  <1>4. p.op = "host" =>
          /\ Only(s, {"interfaces", "unlink", "addresses", "interface", "erase"})
          /\ Only(t, {"interfaces", "unlink", "addresses", "interface", "erase"})
          /\ \A k \in DOMAIN s :
               /\ s[k][1] = "erase" => s[k][2] \in Others'
               /\ s[k][1] = "unlink" => s[k][2] \in Quiet'
          /\ \A k \in DOMAIN t :
               /\ t[k][1] = "erase" => t[k][2] \in Others'
               /\ t[k][1] = "unlink" => t[k][2] \in Quiet'
    BY DEF Spares, SparesHost, Only
  <1>5. p.op \in {"hostInterface", "fwInterface"} =>
          /\ Only(s, {"unlink", "addresses", "interface"})
          /\ Only(t, {"unlink", "addresses", "interface"})
          /\ \A k \in DOMAIN s : s[k][1] # "unlink"
          /\ \A k \in DOMAIN t : t[k][1] # "unlink"
    BY DEF Spares, SparesInterface, Only
  <1> HIDE DEF s, t, S
  <1>6. ASSUME NEW k \in DOMAIN p.todo
        PROVE  \/ k \in DOMAIN s /\ p.todo[k] = s[k]
               \/ \E j \in DOMAIN t : p.todo[k] = t[j]
    BY <1>1, ConcatFrom
  <1>7. CASE p.op = "host"
    <2>1. /\ Only(p.todo, {"interfaces", "unlink", "addresses", "interface", "erase"})
          /\ \A k \in DOMAIN p.todo :
               /\ p.todo[k][1] = "erase" => p.todo[k][2] \in Others'
               /\ p.todo[k][1] = "unlink" => p.todo[k][2] \in Quiet'
      BY <1>4, <1>6, <1>7 DEF Only
    <2>2. SparesHost(p)'
      BY <2>1 DEF SparesHost, Only
    <2> QED BY <1>3, <1>7, <2>2 DEF Spares
  <1>8. CASE p.op \in {"hostInterface", "fwInterface"}
    <2>1. /\ Only(p.todo, {"unlink", "addresses", "interface"})
          /\ \A k \in DOMAIN p.todo : p.todo[k][1] # "unlink"
      BY <1>5, <1>6, <1>8 DEF Only
    <2>2. SparesInterface(p)'
      BY <2>1 DEF SparesInterface, Only, First, Guarded
    <2> QED BY <1>3, <1>8, <2>2 DEF Spares
  <1> QED BY <1>7, <1>8

\* Steps put before the rest.
LEMMA PutSpares ==
    ASSUME UsageInv, NEW r \in Requests, ~Free(r), Spares(req[r]), Shrinks, ~Searching(r),
           req[r].op \in {"host", "hostInterface", "fwInterface"},
           NEW pre \in Seq(Labels \X Items), Then(r, pre \o Tail(req[r].todo)),
           NEW u, u = [req[r] EXCEPT !.todo = pre], Spares(u)',
           req[r].op \in {"hostInterface", "fwInterface"} =>
              /\ \A k \in DOMAIN pre : pre[k][1] # "unlink"
              /\ At(r, "unlink")
    PROVE  GoesOn(r)
  <1> DEFINE rest == Tail(req[r].todo)
             all == pre \o rest
  <1>1. rest \in Seq(Labels \X Items)
    BY HeadIs, TailIs DEF Free
  <1>2. all \in Seq(Labels \X Items)
    BY <1>1, ConcatIs
  <1> SUFFICES ASSUME NEW p, p = [req[r] EXCEPT !.todo = all],
                      NEW q, q = [req[r] EXCEPT !.todo = rest],
                      NEW g, g = req[r].to
               PROVE  GoesOn(r)
    OBVIOUS
  <1>3. req[r] \in Request
    BY DEF UsageInv, Typed
  <1>4. /\ p.todo = all /\ q.todo = rest /\ u.todo = pre /\ q.to = g
        /\ p.op = req[r].op /\ q.op = req[r].op /\ u.op = req[r].op
    BY <1>3 DEF Request
  <1>5. Spares(q)'
    <2>1. Spent(r, Subject(r), g)
      BY DEF Spent, At, Searching, Searches
    <2> QED BY <1>4, <2>1, TailSpares
  <1>6. req[r].op \in {"hostInterface", "fwInterface"} =>
          \A k \in DOMAIN rest : rest[k][1] # "unlink"
    <2>1. req[r].todo \in Seq(Labels \X Items) /\ req[r].todo # << >>
      BY HeadIs DEF Free
    <2>2. req[r].op \in {"hostInterface", "fwInterface"} => First(req[r].todo, "unlink")
      BY DEF Spares, SparesInterface
    <2> QED BY <2>1, <2>2, FirstTail DEF Searching
  <1>7. Spares(p)'
    <2>1. p.todo = u.todo \o q.todo
      BY <1>4
    <2> HIDE DEF all, rest
    <2> QED BY <1>1, <1>4, <1>5, <1>6, <2>1, ConcatSpares
  <1> HIDE DEF all, rest
  <1>8. Then(r, all)
    BY DEF all, rest
  <1> QED BY <1>2, <1>7, <1>8, ThenSpares

LEMMA UnlinkSpares ==
    ASSUME UsageInv, NEW r \in Requests, Spares(req[r]), Shrinks, DeleteHostInterface(r),
           req[r].op \in Taking
    PROVE  GoesOn(r)
  <1> DEFINE labels == <<"addresses", "interface">>
             pre == Steps(labels, Subject(r))
  <1>1. At(r, "unlink") /\ ~Free(r) /\ Then(r, pre \o Tail(req[r].todo)) /\ ~Searching(r)
    BY DEF DeleteHostInterface, At, Free, Searching, Searches
  <1>2. Subject(r) \in Items /\ Subject(r) \in Idle
        /\ req[r].op \in {"host", "hostInterface", "fwInterface"}
    BY <1>1, HeadIs, HeadSpares DEF Free
  <1> SUFFICES ASSUME NEW x, x = Subject(r) PROVE GoesOn(r)
    OBVIOUS
  <1>3. x \in Idle'
    BY <1>2, IdleGrows DEF Shrinks
  <1>4. labels \in Seq(Labels) /\ DOMAIN labels = {1, 2}
        /\ labels[1] = "addresses" /\ labels[2] = "interface"
    BY DEF Labels
  <1> HIDE DEF labels
  <1>5. pre \in Seq(Labels \X Items) /\ DOMAIN pre = {1, 2}
        /\ pre[1] = <<"addresses", x>> /\ pre[2] = <<"interface", x>>
    BY <1>2, <1>4, StepsAre
  <1> HIDE DEF pre
  <1> SUFFICES ASSUME NEW u, u = [req[r] EXCEPT !.todo = pre] PROVE GoesOn(r)
    OBVIOUS
  <1>6. u.todo = pre /\ u.op = req[r].op
    <2>1. req[r] \in Request
      BY DEF UsageInv, Typed
    <2> QED BY <2>1 DEF Request
  <1>7. /\ Guarded(pre, {"erase", "interfaces", "unlink", "addresses", "empty"}, "inRule", Idle')
        /\ Guarded(pre, {"interfaces"}, "interfacesInRule", HostIdle')
        /\ Guarded(pre, {"unlink"}, "lastWithAddress", HostKeeps')
    BY <1>3, <1>5 DEF Guarded
  <1>8. \A k \in DOMAIN pre : pre[k][1] \in {"addresses", "interface"}
    BY <1>5
  <1>9. SparesHost(u)' /\ SparesInterface(u)'
    BY <1>6, <1>7, <1>8 DEF SparesHost, SparesInterface, Only, First
  <1>10. Spares(u)'
    BY <1>2, <1>6, <1>7, <1>9 DEF Spares
  <1> QED BY <1>1, <1>2, <1>5, <1>8, <1>10, PutSpares

LEMMA InterfacesSpare ==
    ASSUME UsageInv, NEW r \in Requests, Spares(req[r]), HostInterfacesOf(r),
           req[r].op \in Taking
    PROVE  GoesOn(r)
  <1> DEFINE S == {i \in interfaces : <<i, Subject(r)>> \in links}
  <1>1. /\ At(r, "interfaces") /\ ~Free(r) /\ ~Searching(r)
        /\ UNCHANGED tables /\ uses' = uses /\ Shrinks
    BY DEF HostInterfacesOf, At, Free, Searching, Searches, tables, Shrinks
  <1>2. PICK own \in SetToSeqs(S) :
          Then(r, [k \in DOMAIN own |-> <<"unlink", own[k]>>] \o Tail(req[r].todo))
    BY DEF HostInterfacesOf
  <1>3. Subject(r) \in Idle /\ Subject(r) \in HostIdle /\ req[r].op = "host"
    BY <1>1, HeadSpares
  <1> SUFFICES ASSUME NEW x, x = Subject(r) PROVE GoesOn(r)
    OBVIOUS
  <1>4. S \subseteq Items /\ \A i \in S : <<i, x>> \in links
    BY DEF Items, UsageInv, TablesInv, Tables
  <1>5. IsFiniteSet(S)
    BY ObjectUsageAssumption, FS_Subset DEF UsageInv, TablesInv, Tables
  <1> HIDE DEF S
  <1>6. own \in Seq(S)
    BY <1>5, SeqsName
  <1> DEFINE pre == [k \in DOMAIN own |-> <<"unlink", own[k]>>]
  <1>7. pre \in Seq(Labels \X Items)
    <2>1. \A k \in DOMAIN own : own[k] \in S
      BY <1>6
    <2>2. \A k \in DOMAIN own : <<"unlink", own[k]>> \in Labels \X Items
      BY <1>4, <2>1 DEF Labels
    <2> QED BY <1>6, <2>2
  <1>8. \A k \in DOMAIN pre : pre[k][1] = "unlink" /\ pre[k][2] \in S
    BY <1>6
  <1>9. Then(r, pre \o Tail(req[r].todo))
    BY <1>2
  <1> HIDE DEF pre
  <1>10. \A i \in S : i \in Idle' /\ i \in Quiet'
    <2>1. \A i \in S : i \in Idle
      BY <1>3, <1>4 DEF HostIdle
    <2>2. \A i \in S : i \in Quiet
      <3> SUFFICES ASSUME NEW i \in S, NEW k \in links, k[1] = i PROVE k[2] \in Idle
        BY <1>4 DEF Quiet
      <3>1. <<i, x>> \in links /\ <<i, x>>[1] = i /\ <<i, x>>[2] = x
        BY <1>4
      <3>2. k[2] = <<i, x>>[2]
        BY <3>1 DEF UsageInv, TablesInv, HostsApart
      <3> QED BY <1>3, <3>2
    <2> QED BY <1>1, <2>1, <2>2, SpareStays
  <1> SUFFICES ASSUME NEW u, u = [req[r] EXCEPT !.todo = pre] PROVE GoesOn(r)
    OBVIOUS
  <1>11. u.todo = pre /\ u.op = "host"
    <2>1. req[r] \in Request
      BY DEF UsageInv, Typed
    <2> QED BY <1>3, <2>1 DEF Request
  <1>12. SparesHost(u)'
    BY <1>8, <1>10, <1>11 DEF SparesHost, Only
  <1>13. Spares(u)'
    BY <1>8, <1>10, <1>11, <1>12 DEF Spares, Guarded
  <1> QED BY <1>1, <1>3, <1>7, <1>9, <1>13, PutSpares

-----------------------------------------------------------------------------
(* What each step leaves to the rules *)

\* The containers in rules are left what they have for the rules.
RulesFilled ==
    \A u \in uses \cap uses' :
        IsContainer(u[2]) /\ Serves(u) =>
            \/ Serves(u)'
            \/ links' # links /\ AddrOf(u[2])' # {}

LEMMA SameServes ==
    ASSUME UNCHANGED <<ipobj, links, members>>
    PROVE  RulesFilled
  <1>1. \A x : AddrOf(x)' = AddrOf(x) /\ MembersOf(x)' = MembersOf(x)
    BY DEF AddrOf, Addresses, MembersOf
  <1>2. \A x, rule : OfVersion(AddrOf(x), rule)' = OfVersion(AddrOf(x), rule)
    BY <1>1 DEF OfVersion
  <1> QED BY <1>1, <1>2 DEF RulesFilled, Serves

\* Rows of the table are removed, none of them in a group.
LEMMA RowsGone ==
    ASSUME TablesInv, NEW rows, \A m \in members : m[2] \notin rows,
           ipobj' = Restrict(ipobj, DOMAIN ipobj \ rows), UNCHANGED <<links, members>>,
           \A u \in uses : IsContainer(u[2]) /\ OfVersion(AddrOf(u[2]), u[1]) # {} =>
               \E a \in OfVersion(AddrOf(u[2]), u[1]) : a \notin rows
    PROVE  RulesFilled
  <1>1. /\ DOMAIN ipobj' = DOMAIN ipobj \ rows
        /\ \A x \in DOMAIN ipobj \ rows : ipobj'[x] = ipobj[x]
    BY DEF Restrict
  <1>2. \A g : MembersOf(g)' = MembersOf(g)
    BY <1>1 DEF MembersOf
  <1>3. \A x : \A a \in AddrOf(x) : a \notin rows => a \in AddrOf(x)'
    BY <1>1 DEF AddrOf, Addresses
  <1>4. \A x, rule : \A a \in OfVersion(AddrOf(x), rule) :
           a \notin rows => a \in OfVersion(AddrOf(x), rule)'
    <2> SUFFICES ASSUME NEW x, NEW rule, NEW a \in OfVersion(AddrOf(x), rule), a \notin rows
                 PROVE  a \in OfVersion(AddrOf(x), rule)'
      OBVIOUS
    <2>1. a \in AddrOf(x) /\ ipobj[a].version = RuleVersion[rule]
      BY DEF OfVersion
    <2>2. a \in DOMAIN ipobj
      BY <2>1 DEF AddrOf, Addresses
    <2>3. a \in AddrOf(x)' /\ ipobj'[a] = ipobj[a]
      BY <1>1, <1>3, <2>1, <2>2
    <2> QED BY <2>1, <2>3 DEF OfVersion
  <1> SUFFICES ASSUME NEW u \in uses \cap uses', IsContainer(u[2]), Serves(u)
               PROVE  Serves(u)'
    BY DEF RulesFilled
  <1>5. CASE u[2] \in Groups
    BY <1>2, <1>5 DEF Serves
  <1>6. CASE u[2] \notin Groups
    <2>1. OfVersion(AddrOf(u[2]), u[1]) # {}
      BY <1>6 DEF Serves
    <2>2. PICK a \in OfVersion(AddrOf(u[2]), u[1]) : a \notin rows
      BY <2>1
    <2>3. a \in OfVersion(AddrOf(u[2]), u[1])'
      BY <1>4, <2>2
    <2> QED BY <1>6, <2>3 DEF Serves
  <1> QED BY <1>5, <1>6

LEMMA EraseFills ==
    ASSUME UsageInv, NEW r \in Requests, Spares(req[r]), req[r].op \in Taking,
           DeleteIpobj(r)
    PROVE  RulesFilled
  <1>1. At(r, "erase") /\ UNCHANGED <<links, members>>
        /\ (ipobj' = ipobj \/ /\ \A m \in members : m[2] # Subject(r)
                              /\ ipobj' = Restrict(ipobj, DOMAIN ipobj \ {Subject(r)}))
    BY DEF DeleteIpobj, DeleteRows
  <1> SUFFICES ASSUME NEW x, x = Subject(r) PROVE RulesFilled
    OBVIOUS
  <1>2. CASE ipobj' = ipobj
    BY <1>1, <1>2, SameServes
  <1>3. CASE /\ \A m \in members : m[2] # x
             /\ ipobj' = Restrict(ipobj, DOMAIN ipobj \ {x})
    <2>1. x \in Others \/ (x \in InterfaceSpares /\ x \in HostSpares)
      BY <1>1, HeadSpares
    <2>2. ASSUME NEW u \in uses, IsContainer(u[2]), OfVersion(AddrOf(u[2]), u[1]) # {},
                 OfVersion(AddrOf(u[2]), u[1]) \subseteq {x}
          PROVE  FALSE
      <3>1. OfVersion(AddrOf(u[2]), u[1]) = {x}
        BY <2>2
      <3>2. x \in AddrOf(u[2]) /\ x \in Addresses
        BY <3>1 DEF OfVersion, AddrOf
      <3>3. ~LastInInterface(x) /\ ~LastInHost(x)
        BY <2>1, <3>2 DEF Others, InterfaceSpares, HostSpares
      <3>4. u[1] \in UsedIn(u[2])
        BY DEF UsedIn, UsageInv, TablesInv, Tables
      <3>5. u[2] # ipobj[x].interface
        BY <3>1, <3>3, <3>4 DEF LastInInterface
      <3>6. <<ipobj[x].interface, u[2]>> \in links
        BY <3>2, <3>5 DEF AddrOf
      <3> QED BY <3>1, <3>3, <3>4, <3>6 DEF LastInHost
    <2>3. TablesInv
      BY DEF UsageInv
    <2>4. \A u \in uses : IsContainer(u[2]) /\ OfVersion(AddrOf(u[2]), u[1]) # {} =>
             \E a \in OfVersion(AddrOf(u[2]), u[1]) : a \notin {x}
      BY <2>2
    <2>5. \A m \in members : m[2] \notin {x}
      BY <1>3
    <2> QED BY <1>1, <1>3, <2>3, <2>4, <2>5, RowsGone
  <1> QED BY <1>1, <1>2, <1>3

LEMMA AddressesFill ==
    ASSUME UsageInv, NEW r \in Requests, Spares(req[r]), req[r].op \in Taking,
           ~req[r].crossed, DeleteIpobjInterface(r)
    PROVE  RulesFilled
  <1> SUFFICES ASSUME NEW i, i = Subject(r) PROVE RulesFilled
    OBVIOUS
  <1> DEFINE rows == {a \in Addresses : ipobj[a].interface = i}
  <1>1. At(r, "addresses") /\ UNCHANGED <<links, members>>
        /\ (ipobj' = ipobj \/ /\ \A m \in members : m[2] \notin rows
                              /\ ipobj' = Restrict(ipobj, DOMAIN ipobj \ rows))
    BY DEF DeleteIpobjInterface, DeleteRows
  <1>2. CASE ipobj' = ipobj
    BY <1>1, <1>2, SameServes
  <1>3. CASE /\ \A m \in members : m[2] \notin rows
             /\ ipobj' = Restrict(ipobj, DOMAIN ipobj \ rows)
    <2>1. i \in Idle /\ i \in Unlinked
      BY <1>1, HeadSpares, HeadSure
    <2>2. ASSUME NEW u \in uses, IsContainer(u[2]), NEW a \in OfVersion(AddrOf(u[2]), u[1]),
                 a \in rows
          PROVE  FALSE
      <3>1. u[2] # i
        BY <2>1, <2>2 DEF Idle
      <3>2. a \in AddrOf(u[2]) /\ ipobj[a].interface = i
        BY <2>2 DEF OfVersion
      <3>3. <<i, u[2]>> \in links
        BY <3>1, <3>2 DEF AddrOf
      <3> QED BY <2>1, <3>3 DEF Unlinked
    <2>3. TablesInv
      BY DEF UsageInv
    <2>4. \A u \in uses : IsContainer(u[2]) /\ OfVersion(AddrOf(u[2]), u[1]) # {} =>
             \E a \in OfVersion(AddrOf(u[2]), u[1]) : a \notin rows
      <3> HIDE DEF rows
      <3> QED BY <2>2
    <2> HIDE DEF rows
    <2> QED BY <1>1, <1>3, <2>3, <2>4, RowsGone
  <1> QED BY <1>1, <1>2, <1>3

LEMMA UnlinkFills ==
    ASSUME UsageInv, NEW r \in Requests, Spares(req[r]), req[r].op \in Taking,
           ~req[r].crossed, DeleteHostInterface(r)
    PROVE  RulesFilled
  <1> SUFFICES ASSUME NEW i, i = Subject(r),
                      NEW u \in uses \cap uses', IsContainer(u[2]), Serves(u)
               PROVE  Serves(u)' \/ (links' # links /\ AddrOf(u[2])' # {})
    BY DEF RulesFilled
  <1>a. At(r, "unlink") /\ UNCHANGED <<ipobj, members>>
        /\ links' = links \ {<<i, req[r].id>>}
    BY DEF DeleteHostInterface
  <1>b. \A k \in links : k[1] = i => k[2] = req[r].id
    BY <1>a, HeadSure
  <1>c. \A k \in links : k = <<k[1], k[2]>>
    BY DEF UsageInv, TablesInv, Tables
  <1>1. At(r, "unlink") /\ UNCHANGED <<ipobj, members>>
        /\ links' = {k \in links : k[1] # i}
    BY <1>a, <1>b, <1>c
  <1>2. Addresses' = Addresses /\ \A x : MembersOf(x)' = MembersOf(x)
    BY <1>1 DEF Addresses, MembersOf
  <1>3. \A a \in AddrOf(u[2]) : ipobj[a].interface # i => a \in AddrOf(u[2])'
    BY <1>1, <1>2 DEF AddrOf
  <1>4. CASE <<i, u[2]>> \in links
    <2>1. links' # links
      BY <1>1, <1>4
    <2>2. u[2] \notin Idle
      BY DEF Idle
    <2>3. i \in HostKeeps
      <3>1. i \notin Quiet
        BY <1>4, <2>2 DEF Quiet
      <3> QED BY <1>1, <3>1, HeadSpares
    <2>4. InRule(u[2])
      BY DEF InRule, UsedIn, UsageInv, TablesInv, Tables
    <2>5. PICK a \in AddrOf(u[2]) : a \notin AddrOf(i)
      BY <1>4, <2>3, <2>4 DEF HostKeeps, LastWithAddress
    <2>6. ipobj[a].interface # i
      BY <2>5 DEF AddrOf
    <2> QED BY <1>3, <2>1, <2>5, <2>6
  <1>5. CASE <<i, u[2]>> \notin links
    <2>1. AddrOf(u[2])' = AddrOf(u[2])
      <3>1. \A j : <<j, u[2]>> \in links' <=> <<j, u[2]>> \in links
        BY <1>1, <1>5
      <3> QED BY <1>1, <1>2, <3>1 DEF AddrOf
    <2>2. OfVersion(AddrOf(u[2]), u[1])' = OfVersion(AddrOf(u[2]), u[1])
      BY <1>1, <2>1 DEF OfVersion
    <2> QED BY <1>2, <2>2 DEF Serves
  <1> QED BY <1>4, <1>5

LEMMA EmptyFills ==
    ASSUME UsageInv, NEW r \in Requests, Spares(req[r]), req[r].op \in Taking,
           DeleteMembers(r)
    PROVE  RulesFilled
  <1> SUFFICES ASSUME NEW g, g = Subject(r),
                      NEW u \in uses \cap uses', IsContainer(u[2]), Serves(u)
               PROVE  Serves(u)'
    BY DEF RulesFilled
  <1>1. At(r, "empty") /\ UNCHANGED <<ipobj, links>> /\ members' = {m \in members : m[1] # g}
    BY DEF DeleteMembers
  <1>2. g \in Idle
    BY <1>1, HeadSpares
  <1>3. u[2] # g
    BY <1>2 DEF Idle
  <1>4. MembersOf(u[2])' = MembersOf(u[2])
    BY <1>1, <1>3 DEF MembersOf
  <1>5. AddrOf(u[2])' = AddrOf(u[2])
    BY <1>1 DEF AddrOf, Addresses
  <1>6. OfVersion(AddrOf(u[2]), u[1])' = OfVersion(AddrOf(u[2]), u[1])
    BY <1>1, <1>5 DEF OfVersion
  <1> QED BY <1>4, <1>6 DEF Serves

LEMMA LeaveFills ==
    ASSUME UsageInv, NEW r \in Requests, Spares(req[r]), req[r].op \in Taking,
           DeleteIpobjIpobjg(r)
    PROVE  RulesFilled
  <1> SUFFICES ASSUME NEW g, g = req[r].to, NEW x, x = Subject(r),
                      NEW u \in uses \cap uses', IsContainer(u[2]), Serves(u)
               PROVE  Serves(u)'
    BY DEF RulesFilled
  <1>1. At(r, "leave") /\ UNCHANGED <<ipobj, links>> /\ members' = members \ {<<g, x>>}
    BY DEF DeleteIpobjIpobjg
  <1>2. GroupSpares(g)
    BY <1>1, HeadSpares
  <1>3. AddrOf(u[2])' = AddrOf(u[2])
    BY <1>1 DEF AddrOf, Addresses
  <1>4. OfVersion(AddrOf(u[2]), u[1])' = OfVersion(AddrOf(u[2]), u[1])
    BY <1>1, <1>3 DEF OfVersion
  <1>5. MembersOf(u[2]) # {} => MembersOf(u[2])' # {}
    <2>1. CASE u[2] # g
      BY <1>1, <2>1 DEF MembersOf
    <2>2. CASE u[2] = g
      <3>1. Cardinality(MembersOf(g)) # 1
        BY <1>2, <2>2 DEF GroupSpares, Idle
      <3>2. MembersOf(g) # {x}
        BY <3>1, FS_Singleton
      <3>3. MembersOf(g) # {} => \E y \in MembersOf(g) : y # x
        BY <3>2
      <3>4. \A y \in MembersOf(g) : y # x => y \in MembersOf(u[2])'
        BY <1>1, <2>2 DEF MembersOf
      <3> QED BY <2>2, <3>3, <3>4
    <2> QED BY <2>1, <2>2
  <1> QED BY <1>4, <1>5 DEF Serves

-----------------------------------------------------------------------------
(* What a removal relies on, from state to state *)

LEMMA TakingServe ==
    ASSUME UsageInv, NEW r \in Requests, Serve(r), req[r].op \in Taking, Spares(req[r])
    PROVE  \/ Search(r) \/ HostInterfacesOf(r) \/ DeleteHostInterface(r)
           \/ DeleteIpobjInterface(r) \/ DeleteIpobj(r) \/ DeleteInterface(r)
           \/ DeleteMembers(r) \/ DeleteGroup(r) \/ CountGroupItems(r)
           \/ DeleteIpobjIpobjg(r)
  <1>1. \A label : At(r, label) =>
           label \in Searches \cup {"erase", "interfaces", "unlink", "addresses", "interface",
                                   "empty", "group", "count", "leave"}
    BY HeadSpares
  <1>2. \A label \in {"container", "exists", "version", "allowed", "insert", "move", "unuse",
                      "listable", "list", "unlist", "members", "content", "join", "highest",
                      "create", "failed"} : ~At(r, label)
    BY <1>1 DEF Searches
  <1> QED
    BY <1>2 DEF Serve, Container, ExistsInPosition, CheckIpVersion, CheckIpobjPosition,
       InsertPolicyRIpobj, UpdatePosition, DeletePolicyRIpobj, CheckInterfacePosition,
       InsertPolicyRInterface, DeletePolicyRInterface, GroupIPVersion, HostContent,
       InsertIpobjIpobjg, HighestId, InsertIpobj, AnswerError

\* A step of a removal that met no other request.
LEMMA OwnStep ==
    ASSUME UsageInv, UsageInv', NEW r \in Requests, Serve(r), req[r].op \in Taking,
           ~req[r].crossed, Spares(req[r])
    PROVE  GoesOn(r) /\ RulesFilled
  <1>1. Shrinks
    BY TakingShrinks
  <1>2. CASE Search(r)
    BY <1>2, SearchSpares, SameServes DEF Search, tables
  <1>3. CASE HostInterfacesOf(r)
    BY <1>3, InterfacesSpare, SameServes DEF HostInterfacesOf, tables
  <1>4. CASE DeleteHostInterface(r)
    BY <1>1, <1>4, UnlinkSpares, UnlinkFills
  <1>5. CASE DeleteIpobjInterface(r)
    BY <1>1, <1>5, DeletesSpare, AddressesFill
  <1>6. CASE DeleteIpobj(r)
    BY <1>1, <1>6, DeletesSpare, EraseFills
  <1>7. CASE DeleteInterface(r)
    <2>1. UNCHANGED <<ipobj, links, members>>
      BY <1>7 DEF DeleteInterface
    <2> QED BY <1>1, <1>7, <2>1, DeletesSpare, SameServes
  <1>8. CASE DeleteMembers(r)
    BY <1>1, <1>8, DeletesSpare, EmptyFills
  <1>9. CASE DeleteGroup(r)
    <2>1. UNCHANGED <<ipobj, links, members>>
      BY <1>9 DEF DeleteGroup
    <2> QED BY <1>1, <1>9, <2>1, DeletesSpare, SameServes
  <1>10. CASE CountGroupItems(r)
    BY <1>10, CountSpares, SameServes DEF CountGroupItems, tables
  <1>11. CASE DeleteIpobjIpobjg(r)
    BY <1>1, <1>11, DeletesSpare, LeaveFills
  <1> QED BY <1>2, <1>3, <1>4, <1>5, <1>6, <1>7, <1>8, <1>9, <1>10, <1>11, TakingServe

\* A request that neither gives nor takes.
LEMMA IdleStep ==
    ASSUME UsageInv, NEW q \in Requests, Serve(q), req[q].op \notin Giving \cup Taking
    PROVE  UNCHANGED tables /\ uses' \subseteq uses
  <1>1. \A label \in {"insert", "move", "join", "create", "erase", "interface", "group",
                      "addresses", "unlink", "empty", "leave"} : ~At(q, label)
    BY HeadMay DEF Writes, Removes
  <1> QED
    BY <1>1 DEF Serve, Container, ExistsInPosition, CheckIpVersion, CheckIpobjPosition,
       InsertPolicyRIpobj, UpdatePosition, DeletePolicyRIpobj, CheckInterfacePosition,
       InsertPolicyRInterface, DeletePolicyRInterface, GroupIPVersion, HostContent,
       InsertIpobjIpobjg, CountGroupItems, DeleteIpobjIpobjg, HighestId, InsertIpobj, Search,
       HostInterfacesOf, DeleteHostInterface, DeleteIpobjInterface, DeleteIpobj,
       DeleteInterface, DeleteMembers, DeleteGroup, AnswerError, DeleteRows, tables

\* Beside a removal that meets nobody, only such a request steps.
LEMMA BesideStep ==
    ASSUME UsageInv, NEW r \in Requests, NEW q \in Requests, q # r, Serve(q),
           req[r].op \in Taking, ~Free(r), ~req[r].crossed
    PROVE  UNCHANGED tables /\ uses' \subseteq uses
  <1>1. ~Free(q)
    BY ServeFree
  <1>2. req[q].op \notin Giving \cup Taking
    BY <1>1 DEF UsageInv, Crossing, Clash
  <1> QED BY <1>2, IdleStep

\* A removal that has ended leaves a free slot.
LEMMA EndsFree ==
    ASSUME UsageInv, NEW r \in Requests, Serve(r), req'[r].todo = << >>
    PROVE  req'[r].op \notin Taking
  <1>1. CASE HighestId(r)
    <2>1. req[r].op \in Giving
      BY <1>1, HeadMay DEF HighestId, Writes
    <2>2. req[r] \in Request /\ req \in [Requests -> Request]
      BY DEF UsageInv, Typed
    <2>3. req'[r].op = req[r].op
      BY <1>1, <2>2 DEF HighestId, Request
    <2> QED BY <2>1, <2>3 DEF Giving, Taking, ByType
  <1>2. CASE \E t : Then(r, t)
    <2>1. PICK t : Then(r, t)
      BY <1>2
    <2>2. req \in [Requests -> Request] /\ req[r] \in Request
      BY DEF UsageInv, Typed
    <2>3. req'[r] = IF t = << >> THEN NoRequest ELSE [req[r] EXCEPT !.todo = t]
      BY <2>1, <2>2 DEF Then
    <2>4. t # << >> => req'[r].todo = t
      BY <2>2, <2>3 DEF Request
    <2> QED BY <2>3, <2>4 DEF NoRequest, Taking, ByType
  <1>3. HighestId(r) \/ \E t : Then(r, t)
    BY DEF Serve, Container, ExistsInPosition, CheckIpVersion, CheckIpobjPosition,
       InsertPolicyRIpobj, UpdatePosition, DeletePolicyRIpobj, CheckInterfacePosition,
       InsertPolicyRInterface, DeletePolicyRInterface, GroupIPVersion, HostContent,
       InsertIpobjIpobjg, CountGroupItems, DeleteIpobjIpobjg, InsertIpobj, Search,
       HostInterfacesOf, DeleteHostInterface, DeleteIpobjInterface, DeleteIpobj,
       DeleteInterface, DeleteMembers, DeleteGroup, AnswerError, DeleteRows,
       If, Proceed, Refuse, Fail
  <1> QED BY <1>1, <1>2, <1>3

LEMMA ServeSparing ==
    ASSUME FilledInv, NEW q \in Requests, Serve(q)
    PROVE  FilledInv'
  <1>1. UsageInv /\ UsageInv'
    BY ServeKeeps DEF FilledInv
  <1>2. Effect(q) /\ Goes(q) /\ ~Free(q)
    BY <1>1, ServeEffect, ServeGoes, ServeFree
  <1>4. ASSUME NEW r \in Requests, req'[r].op \in Taking
        PROVE  ~Free(r)' /\ (~req'[r].crossed => Spares(req[r])')
    <2>1. CASE r # q
      <3>1. req'[r] = req[r] /\ ~Free(r)
        BY <1>2, <1>4, <2>1 DEF Goes, FilledInv, Sparing
      <3>2. ASSUME ~req[r].crossed PROVE Spares(req[r])'
        <4>1. UNCHANGED tables /\ uses' \subseteq uses
          BY <1>1, <1>4, <2>1, <3>1, <3>2, BesideStep
        <4> SUFFICES ASSUME NEW d, d = req[r] PROVE Spares(req[r])'
          OBVIOUS
        <4>2. Spares(d)
          BY <1>4, <3>1, <3>2 DEF FilledInv, Sparing
        <4>3. Spares(d)'
          BY <4>1, <4>2, SparesStay
        <4> QED BY <3>1, <4>3, SparesIs
      <3> QED BY <3>1, <3>2 DEF Free
    <2>2. CASE r = q
      <3>1. req'[r].todo # << >>
        BY <1>1, <1>4, <2>2, EndsFree
      <3>2. req'[r].op = req[r].op /\ req'[r].crossed = req[r].crossed
        BY <1>2, <2>2, <3>1 DEF Goes
      <3>3. ~req[r].crossed => Spares(req[r])
        BY <1>4, <3>2 DEF FilledInv, Sparing
      <3>4. ~req[r].crossed => GoesOn(r)
        BY <1>1, <1>4, <2>2, <3>2, <3>3, OwnStep
      <3> QED BY <3>1, <3>2, <3>4 DEF GoesOn, Free
    <2> QED BY <2>1, <2>2
  <1> QED BY <1>1, <1>4 DEF FilledInv, Sparing

-----------------------------------------------------------------------------
(* The removals that arrive *)

LEMMA ArriveSparing ==
    ASSUME FilledInv, UsageInv', NEW r \in Requests, NEW op, NEW rule, NEW to, NEW version,
           NEW id, NEW todo, NEW misled, NEW crossed \in BOOLEAN,
           NEW d, d = [op |-> op, rule |-> rule, to |-> to, version |-> version, id |-> id,
                       todo |-> todo, misled |-> misled, crossed |-> crossed],
           Arrive(r, d), op \in Taking => todo # << >> /\ (~crossed => Spares(d))
    PROVE  FilledInv'
  <1> DEFINE meets(q) == q # r /\ ~Free(q) /\ Clash(req[q].op, d.op)
             new(q) == IF q = r THEN [d EXCEPT !.crossed = @ \/ \E p \in Requests : meets(p)]
                       ELSE [req[q] EXCEPT !.crossed = @ \/ meets(q)]
  <1>1. /\ req' = [q \in Requests |-> new(q)]
        /\ UNCHANGED <<tables, uses>>
    BY DEF Arrive
  <1>2. \A q \in Requests : req[q] \in Request
    BY DEF FilledInv, UsageInv, Typed
  <1>3. ASSUME NEW q \in Requests, q # r
        PROVE  /\ new(q).op = req[q].op /\ new(q).to = req[q].to
               /\ new(q).todo = req[q].todo
               /\ ~new(q).crossed => ~req[q].crossed
    BY <1>2, <1>3 DEF Request
  <1>4. new(r).op = op /\ new(r).to = d.to /\ new(r).todo = todo
        /\ (~new(r).crossed => ~crossed)
    OBVIOUS
  <1>5. d.op = op /\ d.todo = todo
    OBVIOUS
  <1> HIDE DEF new
  <1>6. \A q \in Requests : req'[q] = new(q)
    BY <1>1
  <1>8. ASSUME NEW q \in Requests PROVE Sparing(q)'
    <2> SUFFICES ASSUME NEW e, e = new(q), e.op \in Taking
                 PROVE  e.todo # << >> /\ (~e.crossed => Spares(req[q])')
      BY <1>6 DEF Sparing, Free
    <2>1. CASE q = r
      <3>1. (~e.crossed => Spares(d)) /\ e.op = d.op /\ e.to = d.to /\ e.todo = d.todo
            /\ todo # << >>
        BY <1>4, <1>5, <2>1
      <3>2. ~e.crossed => Spares(e)'
        BY <1>1, <3>1, SparesStay
      <3> QED BY <1>5, <1>6, <3>1, <3>2, SparesIs
    <2>2. CASE q # r
      <3>1. /\ e.op = req[q].op /\ e.to = req[q].to /\ e.todo = req[q].todo
            /\ ~e.crossed => ~req[q].crossed
        BY <1>3, <2>2
      <3>2. ~Free(q) /\ (~req[q].crossed => Spares(req[q]))
        BY <3>1 DEF FilledInv, Sparing
      <3>3. ASSUME ~e.crossed PROVE Spares(req[q])'
        <4> SUFFICES ASSUME NEW c, c = req[q] PROVE Spares(req[q])'
          OBVIOUS
        <4>1. Spares(c) /\ e.op = c.op /\ e.to = c.to /\ e.todo = c.todo
          BY <3>1, <3>2, <3>3
        <4>2. Spares(e)'
          BY <1>1, <4>1, SparesStay
        <4> QED BY <1>6, <4>2, SparesIs
      <3> QED BY <3>1, <3>2, <3>3 DEF Free
    <2> QED BY <2>1, <2>2
  <1> QED BY <1>8 DEF FilledInv

\* A list of steps for one item in which every step comes after the searches that
\* the containers in rules rely on.
Careful(op, labels, x) ==
    /\ op # "other"
    /\ \A k \in DOMAIN labels :
        /\ labels[k] \in {"erase", "interfaces", "unlink", "addresses", "empty"} =>
              Done(labels, k, "inRule")
        /\ labels[k] = "interfaces" => Done(labels, k, "interfacesInRule")
        /\ op = "address" =>
              /\ labels[k] \in Searches \cup {"erase"}
              /\ labels[k] = "erase" =>
                    /\ Done(labels, k, "lastInInterface") /\ Done(labels, k, "lastInHost")
                    /\ \A j \in 1..(k - 1) : labels[j] \in Searches
        /\ op = "host" =>
              /\ labels[k] \in Searches \cup {"interfaces", "erase"}
              /\ x \in Others
        /\ op \in {"hostInterface", "fwInterface"} =>
              /\ labels[k] \in Searches \cup {"unlink", "addresses", "interface"}
              /\ labels[k] = "unlink" =>
                    /\ Done(labels, k, "lastWithAddress")
                    /\ \A j \in 1..(k - 1) : labels[j] \in Searches
        /\ op = "group" => labels[k] \in Searches \cup {"empty", "group"}
        /\ op = "delfrom" =>
              /\ labels[k] \in {"count", "leave"}
              /\ labels[k] = "leave" => k = 2 /\ labels[1] = "count"

LEMMA CarefulSpares ==
    ASSUME NEW d, NEW labels \in Seq(Labels), NEW x \in Items, labels # << >>,
           d.todo = Steps(labels, x), Careful(d.op, labels, x)
    PROVE  d.todo # << >> /\ Spares(d)
  <1> DEFINE s == Steps(labels, x)
  <1>1. DOMAIN s = DOMAIN labels /\ \A k \in DOMAIN s : s[k] = <<labels[k], x>>
    BY StepsAre
  <1>2. \A k \in DOMAIN s : \A j \in 1..(k - 1) : j \in DOMAIN s
    BY <1>1
  <1>3. s # << >>
    BY <1>1
  <1>4. d.todo = s
    OBVIOUS
  <1> HIDE DEF s
  <1>5. ASSUME NEW set, NEW search, NEW good,
               \A k \in DOMAIN labels : labels[k] \in set => Done(labels, k, search)
        PROVE  Guarded(s, set, search, good)
    BY <1>1, <1>2, <1>5 DEF Guarded, Done
  <1>6. /\ Guarded(s, {"erase", "interfaces", "unlink", "addresses", "empty"}, "inRule", Idle)
        /\ Guarded(s, {"interfaces"}, "interfacesInRule", HostIdle)
    BY <1>5 DEF Careful
  <1>7. d.op = "address" => SparesAddress(d)
    <2> SUFFICES ASSUME d.op = "address" PROVE SparesAddress(d)
      OBVIOUS
    <2>1. /\ Guarded(s, {"erase"}, "lastInInterface", InterfaceSpares)
          /\ Guarded(s, {"erase"}, "lastInHost", HostSpares)
      BY <1>5 DEF Careful
    <2>2. Only(s, {"erase"}) /\ First(s, "erase")
      BY <1>1, <1>2 DEF Careful, Only, First
    <2> QED BY <1>4, <2>1, <2>2 DEF SparesAddress
  <1>8. d.op = "host" => SparesHost(d)
    BY <1>1, <1>4 DEF Careful, SparesHost, Only, Searches
  <1>9. d.op \in {"hostInterface", "fwInterface"} => SparesInterface(d)
    <2> SUFFICES ASSUME d.op \in {"hostInterface", "fwInterface"} PROVE SparesInterface(d)
      OBVIOUS
    <2>1. Guarded(s, {"unlink"}, "lastWithAddress", HostKeeps)
      BY <1>5 DEF Careful
    <2>2. Only(s, {"unlink", "addresses", "interface"}) /\ First(s, "unlink")
      BY <1>1, <1>2 DEF Careful, Only, First
    <2> QED BY <1>4, <2>1, <2>2 DEF SparesInterface
  <1>10. d.op = "group" => Only(d.todo, {"empty", "group"})
    BY <1>1, <1>4 DEF Careful, Only
  <1>11. d.op = "delfrom" => SparesMember(d)
    <2> SUFFICES ASSUME d.op = "delfrom" PROVE SparesMember(d)
      OBVIOUS
    <2>1. Only(s, {"count", "leave"})
      BY <1>1 DEF Careful, Only
    <2>2. \A k \in DOMAIN s : s[k][1] = "leave" => k = 2 /\ labels[1] = "count"
      BY <1>1 DEF Careful
    <2>3. 1 \in 1..(2 - 1) /\ \A j \in 1..(2 - 1) : j = 1
      OBVIOUS
    <2>4. 1 \in DOMAIN s /\ s[1][1] = labels[1]
      BY <1>1
    <2>5. First(s, "leave")
      BY <2>2, <2>3, <2>4 DEF First
    <2>6. \A k \in DOMAIN s : s[k][1] = "leave" => \E j \in 1..(k - 1) : s[j][1] = "count"
      BY <2>2, <2>3, <2>4
    <2> QED BY <1>4, <2>1, <2>5, <2>6 DEF SparesMember
  <1>12. d.op # "other"
    BY DEF Careful
  <1> QED BY <1>3, <1>4, <1>6, <1>7, <1>8, <1>9, <1>10, <1>11, <1>12 DEF Spares

LEMMA AddressSearches ==
    ASSUME NEW x \in Items, NEW misled, NEW d,
           d = Removal("address", NoOne, misled,
               Steps(<<"inRule", "inGroup", "lastInInterface", "lastInHost",
                       "lastInGroup", "erase">>, x))
    PROVE  d.todo # << >> /\ Spares(d)
  <1> DEFINE labels == <<"inRule", "inGroup", "lastInInterface", "lastInHost",
                         "lastInGroup", "erase">>
  <1>1. DOMAIN labels = {1, 2, 3, 4, 5, 6} /\ labels # << >>
    OBVIOUS
  <1>2. /\ labels[1] = "inRule" /\ labels[2] = "inGroup"
        /\ labels[3] = "lastInInterface" /\ labels[4] = "lastInHost"
        /\ labels[5] = "lastInGroup" /\ labels[6] = "erase"
    OBVIOUS
  <1>3. labels \in Seq(Labels)
    BY DEF Labels, Searches
  <1>4. d.op = "address" /\ d.todo = Steps(labels, x)
    BY DEF Removal
  <1> HIDE DEF labels
  <1>5. Careful(d.op, labels, x)
    BY <1>1, <1>2, <1>4 DEF Careful, Done, Searches
  <1> QED BY <1>1, <1>3, <1>4, <1>5, CarefulSpares

LEMMA HostSearches ==
    ASSUME NEW x \in Items, x \in Others, NEW misled, NEW d,
           d = Removal("host", x, misled,
               Steps(<<"inRule", "inGroup", "interfacesInRule", "addressesInRule",
                       "addressesInGroup", "interfaces", "erase">>, x))
    PROVE  d.todo # << >> /\ Spares(d)
  <1> DEFINE labels == <<"inRule", "inGroup", "interfacesInRule", "addressesInRule",
                         "addressesInGroup", "interfaces", "erase">>
  <1>1. DOMAIN labels = {1, 2, 3, 4, 5, 6, 7} /\ labels # << >>
    OBVIOUS
  <1>2. /\ labels[1] = "inRule" /\ labels[2] = "inGroup"
        /\ labels[3] = "interfacesInRule" /\ labels[4] = "addressesInRule"
        /\ labels[5] = "addressesInGroup" /\ labels[6] = "interfaces"
        /\ labels[7] = "erase"
    OBVIOUS
  <1>3. labels \in Seq(Labels)
    BY DEF Labels, Searches
  <1>4. d.op = "host" /\ d.todo = Steps(labels, x)
    BY DEF Removal
  <1> HIDE DEF labels
  <1>5. Careful(d.op, labels, x)
    BY <1>1, <1>2, <1>4 DEF Careful, Done, Searches
  <1> QED BY <1>1, <1>3, <1>4, <1>5, CarefulSpares

LEMMA HostInterfaceSearches ==
    ASSUME NEW x \in Items, NEW host, NEW misled, NEW d,
           d = Removal("hostInterface", host, misled,
               Steps(<<"listed", "inRule", "addressesInRule", "addressesInGroup",
                       "lastWithAddress", "unlink">>, x))
    PROVE  d.todo # << >> /\ Spares(d)
  <1> DEFINE labels == <<"listed", "inRule", "addressesInRule", "addressesInGroup",
                         "lastWithAddress", "unlink">>
  <1>1. DOMAIN labels = {1, 2, 3, 4, 5, 6} /\ labels # << >>
    OBVIOUS
  <1>2. /\ labels[1] = "listed" /\ labels[2] = "inRule"
        /\ labels[3] = "addressesInRule" /\ labels[4] = "addressesInGroup"
        /\ labels[5] = "lastWithAddress" /\ labels[6] = "unlink"
    OBVIOUS
  <1>3. labels \in Seq(Labels)
    BY DEF Labels, Searches
  <1>4. d.op = "hostInterface" /\ d.todo = Steps(labels, x)
    BY DEF Removal
  <1> HIDE DEF labels
  <1>5. Careful(d.op, labels, x)
    BY <1>1, <1>2, <1>4 DEF Careful, Done, Searches
  <1> QED BY <1>1, <1>3, <1>4, <1>5, CarefulSpares

LEMMA FwInterfaceSearches ==
    ASSUME NEW x \in Items, NEW misled, NEW d,
           d = Removal("fwInterface", NoOne, misled,
               Steps(<<"listed", "inRule", "addressesInRule", "addressesInGroup",
                       "lastWithAddress", "addresses", "interface">>, x))
    PROVE  d.todo # << >> /\ Spares(d)
  <1> DEFINE labels == <<"listed", "inRule", "addressesInRule", "addressesInGroup",
                         "lastWithAddress", "addresses", "interface">>
  <1>1. DOMAIN labels = {1, 2, 3, 4, 5, 6, 7} /\ labels # << >>
    OBVIOUS
  <1>2. /\ labels[1] = "listed" /\ labels[2] = "inRule"
        /\ labels[3] = "addressesInRule" /\ labels[4] = "addressesInGroup"
        /\ labels[5] = "lastWithAddress" /\ labels[6] = "addresses"
        /\ labels[7] = "interface"
    OBVIOUS
  <1>3. labels \in Seq(Labels)
    BY DEF Labels, Searches
  <1>4. d.op = "fwInterface" /\ d.todo = Steps(labels, x)
    BY DEF Removal
  <1> HIDE DEF labels
  <1>5. Careful(d.op, labels, x)
    BY <1>1, <1>2, <1>4 DEF Careful, Done, Searches
  <1> QED BY <1>1, <1>3, <1>4, <1>5, CarefulSpares

LEMMA GroupSearches ==
    ASSUME NEW x \in Items, NEW d,
           d = Demand("group", NoOne, NoOne, NoOne,
               Steps(<<"inRule", "empty", "group">>, x))
    PROVE  d.todo # << >> /\ Spares(d)
  <1> DEFINE labels == <<"inRule", "empty", "group">>
  <1>1. DOMAIN labels = {1, 2, 3} /\ labels # << >>
    OBVIOUS
  <1>2. /\ labels[1] = "inRule" /\ labels[2] = "empty"
        /\ labels[3] = "group"
    OBVIOUS
  <1>3. labels \in Seq(Labels)
    BY DEF Labels, Searches
  <1>4. d.op = "group" /\ d.todo = Steps(labels, x)
    BY DEF Demand
  <1> HIDE DEF labels
  <1>5. Careful(d.op, labels, x)
    BY <1>1, <1>2, <1>4 DEF Careful, Done, Searches
  <1> QED BY <1>1, <1>3, <1>4, <1>5, CarefulSpares

LEMMA DelFromSearches ==
    ASSUME NEW x \in Items, NEW to, NEW d,
           d = Demand("delfrom", NoOne, to, NoOne,
               Steps(<<"count", "leave">>, x))
    PROVE  d.todo # << >> /\ Spares(d)
  <1> DEFINE labels == <<"count", "leave">>
  <1>1. DOMAIN labels = {1, 2} /\ labels # << >>
    OBVIOUS
  <1>2. /\ labels[1] = "count" /\ labels[2] = "leave"
    OBVIOUS
  <1>3. labels \in Seq(Labels)
    BY DEF Labels, Searches
  <1>4. d.op = "delfrom" /\ d.todo = Steps(labels, x)
    BY DEF Demand
  <1> HIDE DEF labels
  <1>5. Careful(d.op, labels, x)
    BY <1>1, <1>2, <1>4 DEF Careful, Done, Searches
  <1> QED BY <1>1, <1>3, <1>4, <1>5, CarefulSpares

LEMMA ReceiveSparing ==
    ASSUME FilledInv, NEW r \in Requests, Receive(r)
    PROVE  FilledInv'
  <1>1. UsageInv /\ UsageInv'
    BY ReceiveKeeps DEF FilledInv
  <1>2. /\ DOMAIN ipobj \cup interfaces \cup groups \subseteq Items
        /\ Addresses \subseteq DOMAIN ipobj
        /\ \A m \in members : m[1] \in Groups /\ m[2] \in Items
    BY <1>1 DEF UsageInv, TablesInv, Tables, Items, Addresses
  <1>3. ASSUME NEW op, NEW rule, NEW to, NEW version, NEW todo,
               Arrive(r, Demand(op, rule, to, version, todo)), op \notin Taking
        PROVE  FilledInv'
    BY <1>1, <1>3, ArriveSparing DEF Demand
  <1>4. ASSUME NEW op, NEW to, NEW todo,
               Arrive(r, Demand(op, NoOne, to, NoOne, todo)),
               Demand(op, NoOne, to, NoOne, todo).todo # << >>,
               Spares(Demand(op, NoOne, to, NoOne, todo))
        PROVE  FilledInv'
    <2>1. todo # << >>
      BY <1>4 DEF Demand
    <2> QED BY <1>1, <1>4, <2>1, ArriveSparing DEF Demand
  <1>9. ASSUME NEW type, NEW host, NEW misled \in BOOLEAN, NEW todo,
               Arrive(r, Removal(type, host, misled, todo)), todo # << >>,
               ~misled => Spares(Removal(type, host, misled, todo))
        PROVE  FilledInv'
    BY <1>1, <1>9, ArriveSparing DEF Removal
  <1>10. \A labels \in Seq(Labels), x \in Items : labels # << >> => Steps(labels, x) # << >>
    BY StepsAre
  <1>5. CASE \/ ReceiveUse(r) \/ ReceiveMove(r) \/ ReceiveOut(r) \/ ReceiveIn(r)
             \/ ReceiveList(r) \/ ReceiveUnuse(r) \/ ReceiveAddTo(r) \/ ReceiveCreate(r)
    <2>1. {"use", "move", "out", "in", "list", "unuse", "unlist", "addto", "create"}
             \cap Taking = {}
      BY DEF Taking, ByType
    <2>2. \E op, rule, to, version, todo :
             op \notin Taking /\ Arrive(r, Demand(op, rule, to, version, todo))
      BY <1>5, <2>1 DEF ReceiveUse, ReceiveMove, ReceiveOut, ReceiveIn, ReceiveList,
         ReceiveUnuse, ReceiveAddTo, ReceiveCreate
    <2> QED BY <1>3, <2>2
  <1>6. CASE ReceiveDelFrom(r)
    BY <1>2, <1>4, <1>6, DelFromSearches DEF ReceiveDelFrom
  <1>7. CASE ReceiveErase(r)
    <2>1. PICK x \in DOMAIN ipobj, type \in {"address", "host", "other"} :
             Arrive(r, Removal(type, IF type = "host" THEN x ELSE NoOne, type # TypeOf(x),
                               Steps(ErasePlan(type), x)))
      BY <1>7 DEF ReceiveErase
    <2>2. x \in Items /\ x \in Ids
      BY <1>1, <1>2 DEF UsageInv, TablesInv, Tables
    <2>3. TypeOf(x) = ipobj[x].type /\ ipobj[x] \in Row
      <3>1. x \notin HostInterfaces
        BY <2>2, ObjectUsageAssumption DEF Ids
      <3> QED BY <1>1, <3>1 DEF TypeOf, UsageInv, TablesInv, Tables
    <2> DEFINE d(misled) == Removal(type, IF type = "host" THEN x ELSE NoOne, misled,
                                    Steps(ErasePlan(type), x))
    <2>4. ErasePlan(type) \in Seq(Labels) /\ ErasePlan(type) # << >>
      <3>1. CASE type = "host"
        BY <3>1 DEF ErasePlan, Labels, Searches
      <3>2. CASE type = "address"
        BY <3>2 DEF ErasePlan, Labels, Searches
      <3>3. CASE type = "other"
        BY <3>3 DEF ErasePlan, Labels, Searches
      <3> QED BY <3>1, <3>2, <3>3
    <2>5. Steps(ErasePlan(type), x) # << >>
      BY <1>10, <2>2, <2>4
    <2>6. ASSUME NEW misled \in BOOLEAN, misled = (type # TypeOf(x)), ~misled
          PROVE  Spares(d(misled))
      <3>1. type \in {"address", "host"} /\ (type = "host" => x \in Others)
        BY <2>2, <2>3, <2>6 DEF Row, Others, Addresses
      <3>2. CASE type = "host"
        BY <2>2, <3>1, <3>2, HostSearches DEF ErasePlan
      <3>3. CASE type = "address"
        BY <2>2, <3>3, AddressSearches DEF ErasePlan
      <3> QED BY <3>1, <3>2, <3>3
    <2> QED BY <1>9, <2>1, <2>5, <2>6
  <1>8. CASE ReceiveDelete(r) /\ ~ReceiveErase(r)
    <2> DEFINE one == <<"listed", "inRule", "addressesInRule", "addressesInGroup",
                        "lastWithAddress", "unlink">>
               two == <<"listed", "inRule", "addressesInRule", "addressesInGroup",
                        "lastWithAddress", "addresses", "interface">>
    <2>1. one \in Seq(Labels) /\ one # << >> /\ two \in Seq(Labels) /\ two # << >>
      BY DEF Labels, Searches
    <2>2. CASE \E host : \E i \in interfaces, misled \in BOOLEAN :
                  Arrive(r, Removal("hostInterface", host, misled, Steps(one, i)))
      <3>1. PICK host : \E i \in interfaces, misled \in BOOLEAN :
                  Arrive(r, Removal("hostInterface", host, misled, Steps(one, i)))
        BY <2>2
      <3>5. PICK i \in interfaces, misled \in BOOLEAN :
                  Arrive(r, Removal("hostInterface", host, misled, Steps(one, i)))
        BY <3>1
      <3>2. i \in Items
        BY <1>2
      <3>3. Steps(one, i) # << >>
        BY <1>10, <2>1, <3>2
      <3>4. Spares(Removal("hostInterface", host, misled, Steps(one, i)))
        BY <3>2, HostInterfaceSearches
      <3> QED BY <1>9, <3>5, <3>3, <3>4
    <2>3. CASE \E i \in interfaces, misled \in BOOLEAN :
                  Arrive(r, Removal("fwInterface", NoOne, misled, Steps(two, i)))
      <3>1. PICK i \in interfaces, misled \in BOOLEAN :
                  Arrive(r, Removal("fwInterface", NoOne, misled, Steps(two, i)))
        BY <2>3
      <3>2. i \in Items
        BY <1>2
      <3>3. Steps(two, i) # << >>
        BY <1>10, <2>1, <3>2
      <3>4. Spares(Removal("fwInterface", NoOne, misled, Steps(two, i)))
        BY <3>2, FwInterfaceSearches
      <3> QED BY <1>9, <3>1, <3>3, <3>4
    <2>4. CASE \E g \in groups : Arrive(r, Demand("group", NoOne, NoOne, NoOne,
                                        Steps(<<"inRule", "empty", "group">>, g)))
      BY <1>2, <1>4, <2>4, GroupSearches
    <2>5. \/ \E i \in interfaces, host \in {NoOne} \cup (DOMAIN ipobj \ Addresses) :
               LET misled == \/ TypeOf(i) # "hostInterface"
                             \/ \E k \in links : k[1] = i /\ k[2] # host
               IN  Arrive(r, Removal("hostInterface", host, misled, Steps(one, i)))
          \/ \E i \in interfaces :
               Arrive(r, Removal("fwInterface", NoOne, TypeOf(i) # "fwInterface",
                                 Steps(two, i)))
          \/ \E g \in groups : Arrive(r, Demand("group", NoOne, NoOne, NoOne,
                                        Steps(<<"inRule", "empty", "group">>, g)))
      BY <1>8 DEF ReceiveDelete
    <2> HIDE DEF one, two
    <2> QED BY <2>2, <2>3, <2>4, <2>5
  <1> QED BY <1>5, <1>6, <1>7, <1>8 DEF Receive

LEMMA InitFilled == Init => FilledInv
  <1> SUFFICES ASSUME Init PROVE FilledInv
    OBVIOUS
  <1>1. UsageInv
    BY InitUsage
  <1>3. \A r \in Requests : req[r].op \notin Taking
    BY DEF Init, NoRequest, Taking, ByType
  <1> QED BY <1>1, <1>3 DEF FilledInv, Sparing

LEMMA NextFilled == FilledInv /\ [Next]_vars => FilledInv'
  <1> SUFFICES ASSUME FilledInv, [Next]_vars PROVE FilledInv'
    OBVIOUS
  <1>1. CASE UNCHANGED vars
    <2>1. UsageInv'
      BY <1>1, NextUsage DEF FilledInv
    <2>2. ASSUME NEW r \in Requests PROVE Sparing(r)'
      <3> SUFFICES ASSUME NEW d, d = req[r] PROVE Sparing(r)'
        OBVIOUS
      <3>1. req'[r] = d /\ UNCHANGED tables /\ uses' \subseteq uses
        BY <1>1 DEF vars
      <3>2. Spares(d) => Spares(d)'
        BY <3>1, SparesStay
      <3> QED BY <3>1, <3>2, SparesIs DEF FilledInv, Sparing, Free
    <2> QED BY <2>1, <2>2 DEF FilledInv
  <1>2. CASE Next
    BY <1>2, ReceiveSparing, ServeSparing DEF Next
  <1> QED BY <1>1, <1>2
-----------------------------------------------------------------------------
(* The theorems *)

\* The tables stay well formed and their foreign keys hold, with any number of
\* requests between two steps of a removal.
THEOREM UsageTypes == Spec => []TypeOK
  <1>1. UsageInv => TypeOK
    BY TypeIs DEF UsageInv, TablesInv
  <1> QED BY InitUsage, NextUsage, <1>1, PTL DEF Spec

\* A rule names only objects that exist, unless it was put there by a request that
\* crossed a removal or the client named another type than the object's when it had it
\* removed: the searches of restricted.js, made before the removal, and
\* checkIpobjPosition, made before the insert, are enough for everything else.
THEOREM NothingDangles == Spec => []NoDangling
  <1>1. UsageInv => NoDangling
    BY DEF UsageInv, TablesInv
  <1> QED BY InitUsage, NextUsage, <1>1, PTL DEF Spec

\* A removal that met no other request, and for which the client named the object's
\* type and host, is never stopped by a foreign key: what it has searched, and what it
\* takes away itself before, is all that the keys would hold.
THEOREM RemovalsEnd == Spec => []RemovalsComplete
  <1>1. UsageInv => RemovalsComplete
    BY HeadMay DEF RemovalsComplete
  <1> QED BY InitUsage, NextUsage, <1>1, PTL DEF Spec

\* "Avoid leaving an interface used in a rule without address": while a removal goes
\* on that met no other request, and for which the client named the object's type and
\* host, every step leaves each interface and host used in a rule an address of the
\* rule's version, or, where an interface of a host goes, another of its addresses, and
\* each group used in a rule a member, of whatever version.  The searches of
\* restricted.js for the last address and the last member are enough for it, though
\* each is made well before the row is deleted.
THEOREM FilledStays == Spec => StaysFilled
  <1> DEFINE Step == \A r \in Requests :
                       req[r].op \in Taking /\ ~req[r].crossed =>
                         \A u \in uses \cap uses' :
                           IsContainer(u[2]) /\ Serves(u) =>
                             \/ Serves(u)'
                             \/ links' # links /\ AddrOf(u[2])' # {}
  <1>1. ASSUME FilledInv, [Next]_vars PROVE [Step]_vars
    <2> SUFFICES ASSUME Next, NEW r \in Requests, req[r].op \in Taking, ~req[r].crossed
                 PROVE  RulesFilled
      BY <1>1 DEF RulesFilled
    <2>1. PICK q \in Requests : Receive(q) \/ Serve(q)
      BY DEF Next
    <2>2. CASE Receive(q)
      <3>1. UNCHANGED tables
        BY <2>2 DEF Receive, ReceiveUse, ReceiveMove, ReceiveOut, ReceiveIn, ReceiveList,
           ReceiveUnuse, ReceiveAddTo, ReceiveDelFrom, ReceiveCreate, ReceiveErase,
           ReceiveDelete, Arrive
      <3> QED BY <3>1, SameServes DEF tables
    <2>3. CASE Serve(q) /\ q # r
      <3>1. UNCHANGED tables
        BY <1>1, <2>3, BesideStep DEF FilledInv, Sparing
      <3> QED BY <3>1, SameServes DEF tables
    <2>4. CASE Serve(q) /\ q = r
      BY <1>1, <2>4, ServeKeeps, OwnStep DEF FilledInv, Sparing
    <2> QED BY <2>1, <2>2, <2>3, <2>4
  <1>2. [][Step]_vars => StaysFilled
    BY PTL DEF StaysFilled
  <1> HIDE DEF Step
  <1> QED BY InitFilled, NextFilled, <1>1, <1>2, PTL DEF Spec
=============================================================================
