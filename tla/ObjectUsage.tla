---------------------------- MODULE ObjectUsage ----------------------------
(***************************************************************************)
(* The objects of a FWCloud - addresses, hosts, interfaces and groups -    *)
(* and the rules and groups that use them.  A removal first searches the   *)
(* places where the object could be in use, one SELECT after the other,    *)
(* and then deletes row by row; putting an object in a rule first checks   *)
(* that it is there and not empty.  Table policy_r__ipobj has no foreign   *)
(* keys to the objects: only these searches keep rules from naming what    *)
(* has gone.                                                               *)
(***************************************************************************)
EXTENDS Integers, Sequences, SequencesExt, FiniteSetsExt

CONSTANTS
    Rules,           \* identifiers of policy rules
    RuleVersion,     \* the IP version of each rule
    Interfaces,      \* identifiers of interfaces
    HostInterfaces,  \* those of type 11; the others belong to a firewall
    Groups,          \* identifiers of groups of objects
    Layouts,         \* the addresses there may be to begin with, interface and version
    MaxId,           \* bounds the ids of table ipobj
    Requests,        \* slots for requests in flight: bounds the concurrency
    MaxOps           \* bounds the operations requested

ASSUME ObjectUsageAssumption ==
    /\ RuleVersion \in [Rules -> {4, 6}]
    /\ HostInterfaces \subseteq Interfaces /\ IsFiniteSet(Interfaces)
    /\ Interfaces \cap Groups = {} /\ (Interfaces \cup Groups) \cap (0..MaxId) = {}
    /\ \A layout \in Layouts : layout \in Seq(Interfaces \X {4, 6}) /\ Len(layout) < MaxId
    /\ MaxId \in Nat /\ MaxOps \in Nat

VARIABLES
    ipobj,       \* the rows of ipobj, by id
    interfaces,  \* the rows of interface
    links,       \* interface__ipobj: the interfaces of each host
    groups,      \* the rows of ipobj_g
    members,     \* ipobj__ipobjg
    uses,        \* policy_r__ipobj: what the O positions of rules hold
    listed,      \* policy_r__interface: what their I positions hold
    req,         \* the requests being served
    ops,         \* operations requested so far
    suspect      \* uses put by a request that crossed a removal, or whose object
                 \* was removed by a misled one; history

tables == <<ipobj, interfaces, links, groups, members>>
vars == <<tables, uses, listed, req, ops, suspect>>

Ids == 1..MaxId
Items == Ids \cup Interfaces \cup Groups
NoOne == 0

Row == [type : {"address"}, interface : Interfaces, version : {4, 6}]
       \cup [type : {"host"}]
Host == [type |-> "host"]

Giving == {"use", "move", "out", "list", "in", "addto", "create"}
\* Removals of objects, by the type that the client names, and of interfaces, by
\* the call; the two other.
ByType == {"address", "host", "other", "hostInterface", "fwInterface"}
Taking == ByType \cup {"group", "delfrom"}

Searches == {"inRule", "inGroup", "listed", "interfacesInRule", "addressesInRule",
             "addressesInGroup", "lastInInterface", "lastInHost", "lastInGroup",
             "lastWithAddress"}

Labels == Searches \cup
          {"container", "exists", "version", "allowed", "insert", "move", "unuse",
           "listable", "list", "unlist", "members", "content", "join", "count", "leave",
           "highest", "create", "interfaces", "unlink", "addresses", "interface", "erase",
           "empty", "group", "failed"}

Request ==
    [op : Giving \cup Taking \cup {"none", "unuse", "unlist"},
     rule : Rules \cup {NoOne},             \* the rule, position or
     to : Rules \cup Groups \cup {NoOne},   \* group the item goes to or leaves
     version : {NoOne, 4, 6},               \* of a new address
     id : 0..MaxId,                         \* the id chosen for it, or the host
     todo : Seq(Labels \X Items),           \* the steps left
     \* History: the type or host that the client named was not the object's; it is
     \* misled, or met a request that it may clash with.
     misled : BOOLEAN,
     crossed : BOOLEAN]

NoRequest == [op |-> "none", rule |-> NoOne, to |-> NoOne, version |-> NoOne,
              id |-> NoOne, todo |-> << >>, misled |-> FALSE, crossed |-> FALSE]

TypeOK ==
    /\ DOMAIN ipobj \subseteq Ids /\ \A x \in DOMAIN ipobj : ipobj[x] \in Row
    /\ interfaces \subseteq Interfaces
    /\ links \subseteq HostInterfaces \X Ids
    /\ groups \subseteq Groups
    /\ members \subseteq Groups \X Ids
    /\ uses \subseteq Rules \X Items
    /\ listed \subseteq Rules \X Interfaces
    /\ req \in [Requests -> Request]
    /\ ops \in 0..MaxOps
    /\ suspect \subseteq uses
    \* the foreign keys there are
    /\ \A x \in DOMAIN ipobj :
          ipobj[x].type = "address" => ipobj[x].interface \in interfaces
    /\ \A k \in links : k[1] \in interfaces /\ k[2] \in DOMAIN ipobj
    /\ \A m \in members : m[1] \in groups /\ m[2] \in DOMAIN ipobj
    /\ \A k \in listed : k[2] \in interfaces

Address(i, v) == [type |-> "address", interface |-> i, version |-> v]

\* One host with the host interfaces, some addresses, nothing in use.
Init ==
    /\ \E layout \in Layouts :
         ipobj = <<Host>> \o [k \in DOMAIN layout |-> Address(layout[k][1], layout[k][2])]
    /\ interfaces = Interfaces
    /\ links = HostInterfaces \X {1}
    /\ groups = Groups
    /\ members = {} /\ uses = {} /\ listed = {} /\ suspect = {}
    /\ req = [r \in Requests |-> NoRequest]
    /\ ops = 0
-----------------------------------------------------------------------------
Exists(x) == x \in DOMAIN ipobj \cup interfaces \cup groups
Addresses == {x \in DOMAIN ipobj : ipobj[x].type = "address"}
\* getInterfaceAddr, getHostAddr: the addresses of an interface or a host.
AddrOf(x) == {a \in Addresses : ipobj[a].interface = x \/ <<ipobj[a].interface, x>> \in links}
OfVersion(A, rule) == {a \in A : ipobj[a].version = RuleVersion[rule]}
MembersOf(g) == {x \in DOMAIN ipobj : <<g, x>> \in members}
UsedIn(x) == {rule \in Rules : <<rule, x>> \in uses}
TypeOf(x) == CASE x \in DOMAIN ipobj -> ipobj[x].type
               [] x \in HostInterfaces -> "hostInterface"
               [] OTHER -> "fwInterface"

Subject(r) == req[r].todo[1][2]
At(r, label) == req[r].todo # << >> /\ req[r].todo[1][1] = label
Free(r) == req[r].todo = << >>
\* The next step of a request, the steps that replace its present one, its end.
Then(r, todo) ==
    req' = [req EXCEPT ![r] = IF todo = << >> THEN NoRequest ELSE [@ EXCEPT !.todo = todo]]
Proceed(r) == Then(r, Tail(req[r].todo))
Refuse(r) == Then(r, << >>)
\* A foreign key forbids the statement: what was done before it stays.
Fail(r) == Then(r, <<<<"failed", Subject(r)>>>>)
If(cond, r) == IF cond THEN Proceed(r) ELSE Refuse(r)

-----------------------------------------------------------------------------
(* Requests *)
Steps(labels, x) == [k \in DOMAIN labels |-> <<labels[k], x>>]

Clash(p, q) == {p, q} \subseteq Giving \cup Taking /\ {p, q} \cap Taking # {}

Arrive(r, request) ==
    /\ Free(r)
    /\ ops < MaxOps
    /\ ops' = ops + 1
    /\ LET meets(q) == q # r /\ ~Free(q) /\ Clash(req[q].op, request.op)
       IN  req' = [q \in Requests |->
                     IF q = r THEN [request EXCEPT !.crossed = @ \/ \E p \in Requests : meets(p)]
                     ELSE [req[q] EXCEPT !.crossed = @ \/ meets(q)]]
    /\ UNCHANGED <<tables, uses, listed, suspect>>

Demand(op, rule, to, version, todo) ==
    [op |-> op, rule |-> rule, to |-> to, version |-> version, id |-> NoOne,
     todo |-> todo, misled |-> FALSE, crossed |-> FALSE]

\* What the client says of the object it wants removed need not be so.
Removal(type, host, misled, todo) ==
    [op |-> type, rule |-> NoOne, to |-> NoOne, version |-> NoOne, id |-> host,
     todo |-> todo, misled |-> misled, crossed |-> misled]

\* The client names an object that it sees.
ReceiveUse(r) ==
    \E rule \in Rules, x \in DOMAIN ipobj \cup interfaces \cup groups :
        Arrive(r, Demand("use", NoOne, rule, NoOne,
                         Steps(<<"container", "exists", "version", "allowed", "insert">>, x)))

ReceiveMove(r) ==
    \E u \in uses : \E rule \in Rules \ {u[1]} :
        Arrive(r, Demand("move", u[1], rule, NoOne,
                         Steps(<<"exists", "allowed", "move">>, u[2])))

\* From an I position to an O position, and back.
ReceiveOut(r) ==
    \E k \in listed, rule \in Rules :
        Arrive(r, Demand("out", k[1], rule, NoOne,
                         Steps(<<"exists", "allowed", "insert", "unlist">>, k[2])))

ReceiveIn(r) ==
    \E u \in uses, rule \in Rules :
        /\ u[2] \in Interfaces
        /\ Arrive(r, Demand("in", u[1], rule, NoOne,
                            Steps(<<"listable", "list", "unuse">>, u[2])))

ReceiveList(r) ==
    \E rule \in Rules, i \in interfaces :
        Arrive(r, Demand("list", NoOne, rule, NoOne, Steps(<<"listable", "list">>, i)))

ReceiveUnuse(r) ==
    \/ \E u \in uses :
         Arrive(r, Demand("unuse", u[1], NoOne, NoOne, Steps(<<"unuse">>, u[2])))
    \/ \E k \in listed :
         Arrive(r, Demand("unlist", k[1], NoOne, NoOne, Steps(<<"unlist">>, k[2])))

ReceiveAddTo(r) ==
    \E g \in groups, x \in DOMAIN ipobj :
        Arrive(r, Demand("addto", NoOne, g, NoOne,
                         Steps(<<"members", "content", "join">>, x)))

ReceiveDelFrom(r) ==
    \E m \in members :
        Arrive(r, Demand("delfrom", NoOne, m[1], NoOne, Steps(<<"count", "leave">>, m[2])))

ReceiveCreate(r) ==
    \E i \in interfaces, v \in {4, 6} :
        Arrive(r, Demand("create", NoOne, NoOne, v, Steps(<<"highest", "create">>, i)))

\* The searches, in the order in which they are awaited, and then the removal.
ErasePlan(type) ==
    CASE type = "address" -> <<"inRule", "inGroup", "lastInInterface", "lastInHost",
                               "lastInGroup", "erase">>
      [] type = "host" -> <<"inRule", "inGroup", "interfacesInRule", "addressesInRule",
                            "addressesInGroup", "interfaces", "erase">>
      [] OTHER -> <<"inRule", "inGroup", "erase">>

ReceiveErase(r) ==
    \E x \in DOMAIN ipobj, type \in {"address", "host", "other"} :
        Arrive(r, Removal(type, IF type = "host" THEN x ELSE NoOne, type # TypeOf(x),
                          Steps(ErasePlan(type), x)))

\* NoOne stands for the id of any other host.
ReceiveDelete(r) ==
    \/ ReceiveErase(r)
    \/ \E i \in interfaces, host \in {NoOne} \cup (DOMAIN ipobj \ Addresses) :
         LET misled == \/ TypeOf(i) # "hostInterface"
                       \/ \E k \in links : k[1] = i /\ k[2] # host
         IN  Arrive(r, Removal("hostInterface", host, misled,
                 Steps(<<"listed", "inRule", "addressesInRule", "addressesInGroup",
                         "lastWithAddress", "unlink">>, i)))
    \/ \E i \in interfaces :
         Arrive(r, Removal("fwInterface", NoOne, TypeOf(i) # "fwInterface",
             Steps(<<"listed", "inRule", "addressesInRule", "addressesInGroup",
                     "lastWithAddress", "addresses", "interface">>, i)))
    \/ \E g \in groups :
         Arrive(r, Demand("group", NoOne, NoOne, NoOne,
             Steps(<<"inRule", "empty", "group">>, g)))

-----------------------------------------------------------------------------
(* Putting an object in a rule, routes/policy/ipobj.js and interface.js *)

\* emptyIpobjContainerToObjectPosition; what has gone is no container.
IsEmptyContainer(rule, x) ==
    \/ x \in groups /\ MembersOf(x) = {}
    \/ /\ x \in interfaces \cup (DOMAIN ipobj \ Addresses)
       /\ OfVersion(AddrOf(x), rule) = {}

Container(r) ==
    /\ At(r, "container")
    /\ If(~IsEmptyContainer(req[r].to, Subject(r)), r)
    /\ UNCHANGED <<tables, uses, listed, ops, suspect>>

\* checkExistsInPosition: the object, or something in which it is contained.
InPosition(rule, x) ==
    LET held == {y \in Items : <<rule, y>> \in uses}
        hosts == {y \in DOMAIN ipobj \ Addresses :
                    y \in held \/ \E g \in Groups \cap held : <<g, y>> \in members}
    IN  \/ x \in held
        \/ x \in Interfaces /\ \E h \in hosts : <<x, h>> \in links
        \/ x \in Ids /\ \E g \in Groups \cap held : <<g, x>> \in members
        \/ x \in Addresses /\ \E y \in hosts \cup (Interfaces \cap held) : x \in AddrOf(y)

ExistsInPosition(r) ==
    /\ At(r, "exists")
    /\ If(~InPosition(req[r].to, Subject(r)), r)
    /\ UNCHANGED <<tables, uses, listed, ops, suspect>>

\* groupIPVersion: the addresses in a group, on their own or of its hosts.
AddressesUnder(g) ==
    UNION {IF x \in Addresses THEN {x} ELSE AddrOf(x) : x \in MembersOf(g)}

CheckIpVersion(r) ==
    /\ At(r, "version")
    /\ LET x == Subject(r)
           rule == req[r].to
       IN  If(CASE x \in Interfaces -> TRUE
                [] x \in Groups -> x \in groups /\ OfVersion(AddressesUnder(x), rule) # {}
                [] OTHER -> /\ x \in DOMAIN ipobj
                            /\ x \in Addresses => ipobj[x].version = RuleVersion[rule], r)
    /\ UNCHANGED <<tables, uses, listed, ops, suspect>>

\* checkIpobjPosition joins the object: it is refused when it has gone.
CheckIpobjPosition(r) ==
    /\ At(r, "allowed")
    /\ If(Exists(Subject(r)), r)
    /\ UNCHANGED <<tables, uses, listed, ops, suspect>>

\* The unique key of the table refuses what is there already.
InsertPolicyRIpobj(r) ==
    /\ At(r, "insert")
    /\ LET u == <<req[r].to, Subject(r)>>
       IN  IF u \in uses THEN Refuse(r) /\ UNCHANGED <<uses, suspect>>
           ELSE /\ Proceed(r)
                /\ uses' = uses \cup {u}
                /\ suspect' = IF req[r].crossed THEN suspect \cup {u} ELSE suspect
    /\ UNCHANGED <<tables, listed, ops>>

UpdatePosition(r) ==
    /\ At(r, "move")
    /\ LET old == <<req[r].rule, Subject(r)>>
           new == <<req[r].to, Subject(r)>>
       IN  IF old \notin uses \/ new \in uses
           THEN Refuse(r) /\ UNCHANGED <<uses, suspect>>
           ELSE /\ Proceed(r)
                /\ uses' = (uses \ {old}) \cup {new}
                /\ suspect' = (suspect \ {old}) \cup
                      (IF req[r].crossed \/ old \in suspect THEN {new} ELSE {})
    /\ UNCHANGED <<tables, listed, ops>>

DeletePolicyRIpobj(r) ==
    /\ At(r, "unuse")
    /\ uses' = uses \ {<<req[r].rule, Subject(r)>>}
    /\ suspect' = suspect \cap uses'
    /\ Proceed(r)
    /\ UNCHANGED <<tables, listed, ops>>

\* checkInterfacePosition: the interface is one of the rule's firewall.
CheckInterfacePosition(r) ==
    /\ At(r, "listable")
    /\ If(Subject(r) \in interfaces \ HostInterfaces, r)
    /\ UNCHANGED <<tables, uses, listed, ops, suspect>>

InsertPolicyRInterface(r) ==
    /\ At(r, "list")
    /\ LET k == <<req[r].to, Subject(r)>>
       IN  IF k \in listed \/ Subject(r) \notin interfaces
           THEN Refuse(r) /\ UNCHANGED listed
           ELSE Proceed(r) /\ listed' = listed \cup {k}
    /\ UNCHANGED <<tables, uses, ops, suspect>>

DeletePolicyRInterface(r) ==
    /\ At(r, "unlist")
    /\ listed' = listed \ {<<req[r].rule, Subject(r)>>}
    /\ Proceed(r)
    /\ UNCHANGED <<tables, uses, ops, suspect>>

-----------------------------------------------------------------------------
(* Groups and addresses, routes/ipobj/group.js and ipobj.js *)

GroupIPVersion(r) ==
    /\ At(r, "members")
    /\ If(req[r].to \in groups, r)
    /\ UNCHANGED <<tables, uses, listed, ops, suspect>>

\* A host without addresses is not put in a group.
HostContent(r) ==
    /\ At(r, "content")
    /\ If(Subject(r) \in DOMAIN ipobj \ Addresses => AddrOf(Subject(r)) # {}, r)
    /\ UNCHANGED <<tables, uses, listed, ops, suspect>>

KeylessInsert(r) ==
    /\ At(r, "join")
    /\ members' = members \cup {<<req[r].to, Subject(r)>>}
    /\ Proceed(r)
    /\ UNCHANGED <<ipobj, interfaces, links, groups, uses, listed, ops, suspect>>

InsertIpobjIpobjg(r) ==
    /\ At(r, "join")
    /\ LET m == <<req[r].to, Subject(r)>>
       IN  IF m \in members \/ m[1] \notin groups \/ m[2] \notin DOMAIN ipobj
           THEN UNCHANGED members
           ELSE members' = members \cup {m}
    /\ Proceed(r)
    /\ UNCHANGED <<ipobj, interfaces, links, groups, uses, listed, ops, suspect>>

\* The last item is not taken out of a group in use.
CountGroupItems(r) ==
    /\ At(r, "count")
    /\ Then(r, (IF Cardinality(MembersOf(req[r].to)) = 1
                THEN <<<<"inRule", req[r].to>>>> ELSE << >>) \o Tail(req[r].todo))
    /\ UNCHANGED <<tables, uses, listed, ops, suspect>>

DeleteIpobjIpobjg(r) ==
    /\ At(r, "leave")
    /\ members' = members \ {<<req[r].to, Subject(r)>>}
    /\ Proceed(r)
    /\ UNCHANGED <<ipobj, interfaces, links, groups, uses, listed, ops, suspect>>

\* The new id is one more than the highest, also when that was removed before.
HighestId(r) ==
    /\ At(r, "highest")
    /\ LET id == Max(DOMAIN ipobj \cup {0}) + 1
       IN  /\ id <= MaxId
           /\ req' = [req EXCEPT ![r].id = id, ![r].todo = Tail(@)]
    /\ UNCHANGED <<tables, uses, listed, ops, suspect>>

InsertIpobj(r) ==
    /\ At(r, "create")
    /\ LET id == req[r].id
           new == Address(Subject(r), req[r].version)
       IN  ipobj' = IF id \in DOMAIN ipobj \/ Subject(r) \notin interfaces THEN ipobj
                    ELSE [x \in DOMAIN ipobj \cup {id} |-> IF x = id THEN new ELSE ipobj[x]]
    /\ Proceed(r)
    /\ UNCHANGED <<interfaces, links, groups, members, uses, listed, ops, suspect>>

-----------------------------------------------------------------------------
(* Removals: middleware/restricted.js, then the handlers *)

\* The searches; their joins find nothing of an object that has gone.
InRule(x) == UsedIn(x) # {}
InGroup(x) == \E g \in groups : <<g, x>> \in members
Listed(x) == \E rule \in Rules : <<rule, x>> \in listed
InterfacesInRule(x) == \E k \in links : k[2] = x /\ InRule(k[1])
AddressesInRule(x) == \E a \in AddrOf(x) : InRule(a)
AddressesInGroup(x) == \E a \in AddrOf(x) : InGroup(a)

LastInInterface(x) ==
    \E rule \in UsedIn(ipobj[x].interface) :
        OfVersion(AddrOf(ipobj[x].interface), rule) = {x}

LastInHost(x) ==
    \E k \in links : /\ k[1] = ipobj[x].interface
                     /\ \E rule \in UsedIn(k[2]) : OfVersion(AddrOf(k[2]), rule) = {x}

\* These two heed no version, and the second only hosts in rules, not in groups.
LastInGroup(x) ==
    \E m \in members : /\ InRule(m[1])
                       /\ <<ipobj[x].interface, m[2]>> \in links
                       /\ AddrOf(m[2]) = {x}

LastWithAddress(x) ==
    \E k \in links : k[1] = x /\ InRule(k[2]) /\ AddrOf(k[2]) \subseteq AddrOf(x)

Found(search, x) ==
    /\ Exists(x)
    /\ CASE search = "inRule" -> InRule(x)
         [] search = "inGroup" -> InGroup(x)
         [] search = "listed" -> Listed(x)
         [] search = "interfacesInRule" -> InterfacesInRule(x)
         [] search = "addressesInRule" -> AddressesInRule(x)
         [] search = "addressesInGroup" -> AddressesInGroup(x)
         [] search = "lastInInterface" -> LastInInterface(x)
         [] search = "lastInHost" -> LastInHost(x)
         [] search = "lastInGroup" -> LastInGroup(x)
         [] search = "lastWithAddress" -> LastWithAddress(x)
         [] OTHER -> FALSE

\* The searches of what has a type join that which the client named.
Finds(r, search) ==
    /\ req[r].op \in ByType => req[r].op = TypeOf(Subject(r))
    /\ Found(search, Subject(r))

\* As Search, with one of the searches left out.
Hasty(r, left) ==
    /\ \E search \in Searches :
         At(r, search) /\ If(search = left \/ ~Finds(r, search), r)
    /\ UNCHANGED <<tables, uses, listed, ops, suspect>>
WithoutAddresses(r) == Hasty(r, "addressesInRule")
WithoutGroups(r) == Hasty(r, "addressesInGroup")
WithoutLast(r) == Hasty(r, "lastInHost")

Search(r) ==
    /\ \E search \in Searches :
         At(r, search) /\ If(~Finds(r, search), r)
    /\ UNCHANGED <<tables, uses, listed, ops, suspect>>

\* deleteHost reads the interfaces of the host and takes each down in turn.
HostInterfacesOf(r) ==
    /\ At(r, "interfaces")
    /\ \E own \in SetToSeqs({i \in interfaces : <<i, Subject(r)>> \in links}) :
         Then(r, [k \in DOMAIN own |-> <<"unlink", own[k]>>] \o Tail(req[r].todo))
    /\ UNCHANGED <<tables, uses, listed, ops, suspect>>

\* The addresses of the interface and the interface follow.
DeleteHostInterface(r) ==
    /\ At(r, "unlink")
    /\ links' = links \ {<<Subject(r), req[r].id>>}
    /\ Then(r, Steps(<<"addresses", "interface">>, Subject(r)) \o Tail(req[r].todo))
    /\ UNCHANGED <<ipobj, interfaces, groups, members, uses, listed, ops, suspect>>

\* History: what still names the objects of a misled removal.
Blame(r, gone) ==
    suspect' = suspect \cup {u \in uses : req[r].misled /\ u[2] \in gone}

\* DELETE FROM ipobj of some rows, all or none.
DeleteRows(r, rows) ==
    /\ IF \/ \E m \in members : m[2] \in rows
          \/ \E k \in links : k[2] \in rows
       THEN Fail(r) /\ UNCHANGED <<ipobj, suspect>>
       ELSE /\ Proceed(r)
            /\ ipobj' = Restrict(ipobj, DOMAIN ipobj \ rows)
            /\ Blame(r, rows)
    /\ UNCHANGED <<interfaces, links, groups, members, uses, listed, ops>>

DeleteIpobjInterface(r) ==
    At(r, "addresses") /\ DeleteRows(r, {a \in Addresses : ipobj[a].interface = Subject(r)})

DeleteIpobj(r) == At(r, "erase") /\ DeleteRows(r, {Subject(r)})

\* Of the type that the call is for, or none.
DeleteInterface(r) ==
    LET i == Subject(r)
        named == (TypeOf(i) = "fwInterface") = (req[r].op = "fwInterface")
        held == \/ \E k \in links : k[1] = i
                \/ \E k \in listed : k[2] = i
                \/ \E a \in Addresses : ipobj[a].interface = i
    IN /\ At(r, "interface")
       /\ IF named /\ held THEN Fail(r) /\ UNCHANGED <<interfaces, suspect>>
          ELSE /\ Proceed(r)
               /\ interfaces' = IF named THEN interfaces \ {i} ELSE interfaces
               /\ Blame(r, interfaces \ interfaces')
       /\ UNCHANGED <<ipobj, links, groups, members, uses, listed, ops>>

DeleteMembers(r) ==
    /\ At(r, "empty")
    /\ members' = {m \in members : m[1] # Subject(r)}
    /\ Proceed(r)
    /\ UNCHANGED <<ipobj, interfaces, links, groups, uses, listed, ops, suspect>>

DeleteGroup(r) ==
    /\ At(r, "group")
    /\ IF MembersOf(Subject(r)) # {}
       THEN Fail(r) /\ UNCHANGED groups
       ELSE Proceed(r) /\ groups' = groups \ {Subject(r)}
    /\ UNCHANGED <<ipobj, interfaces, links, members, uses, listed, ops, suspect>>

\* The handler answers with the error of the statement that failed.
AnswerError(r) ==
    /\ At(r, "failed")
    /\ Refuse(r)
    /\ UNCHANGED <<tables, uses, listed, ops, suspect>>

Receive(r) ==
    \/ ReceiveUse(r) \/ ReceiveMove(r) \/ ReceiveOut(r) \/ ReceiveIn(r) \/ ReceiveList(r)
    \/ ReceiveUnuse(r) \/ ReceiveAddTo(r) \/ ReceiveDelFrom(r) \/ ReceiveCreate(r)
    \/ ReceiveDelete(r)

Serve(r) ==
    \/ Container(r) \/ ExistsInPosition(r) \/ CheckIpVersion(r) \/ CheckIpobjPosition(r)
    \/ InsertPolicyRIpobj(r) \/ UpdatePosition(r) \/ DeletePolicyRIpobj(r)
    \/ CheckInterfacePosition(r) \/ InsertPolicyRInterface(r) \/ DeletePolicyRInterface(r)
    \/ GroupIPVersion(r) \/ HostContent(r) \/ InsertIpobjIpobjg(r) \/ CountGroupItems(r)
    \/ DeleteIpobjIpobjg(r) \/ HighestId(r) \/ InsertIpobj(r)
    \/ Search(r) \/ HostInterfacesOf(r) \/ DeleteHostInterface(r) \/ DeleteIpobjInterface(r)
    \/ DeleteIpobj(r) \/ DeleteInterface(r) \/ DeleteMembers(r) \/ DeleteGroup(r)
    \/ AnswerError(r)

Next == \E r \in Requests : Receive(r) \/ Serve(r)

Spec == Init /\ [][Next]_vars
-----------------------------------------------------------------------------
\* A rule names only objects that exist, unless the request that put one there
\* overlapped a removal, or the client named another type when it had the object
\* removed.  Nothing but the searches of restricted.js sees to it: the table has no
\* foreign keys, and the id of an object that has gone is given to the next one.
NoDangling == \A u \in uses : Exists(u[2]) \/ u \in suspect

\* A removal that met no other request, and names the object's type and host, never
\* stops half way at a foreign key, with the interfaces of a host gone and the host
\* still there: the searches find all that the keys would forbid.
RemovalsComplete ==
    \A r \in Requests : At(r, "failed") => req[r].crossed

\* What a container in a rule has to give: of an interface or a host the addresses
\* of the rule's version count, of a group its members, of whatever version.
Serves(u) ==
    IF u[2] \in Groups THEN MembersOf(u[2]) # {}
    ELSE OfVersion(AddrOf(u[2]), u[1]) # {}
IsContainer(x) == x \in groups \cup interfaces \cup (DOMAIN ipobj \ Addresses)

\* "Avoid leaving an interface used in a rule without address": a removal that met
\* no other request, and names the object's type and host, leaves an address of the
\* rule's version in every interface and host of a rule, and a member in every
\* group.  Of a host an interface can go as long as another has an address, of
\* whatever version.
StaysFilled ==
    [][\A r \in Requests :
         req[r].op \in Taking /\ ~req[r].crossed =>
             \A u \in uses \cap uses' :
                 IsContainer(u[2]) /\ Serves(u) =>
                     \/ Serves(u)'
                     \/ links' # links /\ AddrOf(u[2])' # {}]_vars

\* "Count the amount of interface address with the same IP version of the rule": the
\* same of the hosts in a group that a rule uses, when an address is removed.
GroupsStayFilled ==
    [][\A r \in Requests :
         req[r].op = "address" /\ ~req[r].crossed =>
             \A u \in uses \cap uses' : \A m \in members \cap members' :
                 m[1] = u[2] /\ OfVersion(AddrOf(m[2]), u[1]) # {} =>
                     OfVersion(AddrOf(m[2]), u[1])' # {}]_vars
=============================================================================
