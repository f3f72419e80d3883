--------------------------- MODULE PolicyCompile ---------------------------
(***************************************************************************)
(* The compilation of the rules of one chain (PolicyCompiler.compile,      *)
(* PolicyCompilerTools) into commands for iptables or nft.  The text of a  *)
(* command is a record of Netfilter; a condition is the set of values of   *)
(* one position that satisfy it.                                           *)
(***************************************************************************)
EXTENDS Netfilter, FiniteSetsExt

CONSTANTS
    Values,    \* what a packet may have at each position
    Banned,    \* the sources in the CrowdSec blacklist
    Modes,     \* the pairs of compiler and option used
    Policies   \* the policies compiled: sequences of rules

VARIABLES
    policy,    \* the rules, by rule_order
    next,      \* the rule that is compiled next
    script,    \* the commands so far
    outcome,   \* "running", "resolved", "rejected" or "installed"
    filter     \* what the script has loaded into the destination firewall

vars == <<compiler, optimized, family, policy, next, script, outcome, filter>>

FilterTypes == {"INPUT", "OUTPUT", "FORWARD"}
NatTypes == {"SNAT", "DNAT"}
\* The positions in the order they are compiled.
Positions(type) ==
    CASE type = "FORWARD" -> <<"IN", "OUT", "SVC", "SRC", "DST">>
      [] type \in {"OUTPUT", "SNAT"} -> <<"OUT", "SVC", "SRC", "DST">>
      [] type \in {"INPUT", "DNAT"} -> <<"IN", "SVC", "SRC", "DST">>
Hook(type) ==
    CASE type = "SNAT" -> "POSTROUTING" [] type = "DNAT" -> "PREROUTING"
      [] OTHER -> type

\* The states of a connection.
Opening == 1
Established == 2

\* The rules of a chain as they are read from the database.  A service has one
\* protocol, and no more ports than a command line takes.  What has a form of
\* its own: services written with a header of IPv4 (ICMP, other protocols) or
\* with TCP flags, and countries.
ObjectOK(dim, o) ==
    /\ o.form \in {"any", "ipv4", "escaped", "country"}
    /\ dim = "SVC" =>
      /\ o.ports \in 0..MultiportLimit /\ o.port \in {"", "tcp", "udp"}
      /\ o.vals \subseteq Values["SVC"]
      /\ \A v, w \in o.vals : Proto[v] = Proto[w] /\ (o.port # "" => Proto[v] = o.port)

RuleOK(r) ==
    /\ r.id \in Nat /\ r.ip \in {4, 6} /\ r.type \in FilterTypes \cup NatTypes
    /\ r.action \in {"ACCEPT", "DROP", "REJECT", "ACCOUNTING"}
    /\ r.special \in {"none", "stateful", "catchall", "crowdsec", "fail2ban", "script"}
    /\ {r.log, r.mark, r.active, r.here, r.stateful} \subseteq BOOLEAN
    /\ \A d \in ToSet(Positions(r.type)) :
         LET objs == r.pos[d].objs
         IN /\ r.pos[d].neg \in BOOLEAN /\ objs \in Seq(ToSet(objs))
            /\ \A o \in ToSet(objs) : ObjectOK(d, o)

PolicyOK(pol) ==
    /\ pol \in Seq(ToSet(pol)) /\ pol # << >>
    /\ \A i \in DOMAIN pol : /\ RuleOK(pol[i]) /\ pol[i].type = pol[1].type
                           /\ pol[i].ip = pol[1].ip
    /\ \A i, j \in DOMAIN pol : pol[i].id = pol[j].id => i = j

ASSUME PoliciesAssumption ==
    /\ MultiportLimit \in Nat
    /\ \A m \in Modes : m[2] \in BOOLEAN
    /\ \A pol \in Policies : PolicyOK(pol)
-----------------------------------------------------------------------------
(* The conditions of a position *)
Condition(dim, vals, ports, form) ==
    [dim |-> dim, vals |-> vals, ports |-> ports, form |-> form]
Simple(dim, vals) == Condition(dim, vals, 0, "any")
One(dim, obj) == Condition(dim, obj.vals, 0, obj.form)

\* A list of what passes a test.
Kept(list, x, passes) == IF passes THEN Append(list, x) ELSE list

\* Objects of the other IP version are left out (ip = 0: names, countries).
SameIp(ip, list, o) == Kept(list, o, o.ip \in {0, ip})
OfIp(ip, objs) == FoldLeft(LAMBDA list, o : SameIp(ip, list, o), << >>, objs)

CompileSrcDst(dim, objs, ip) ==
    LET same == OfIp(ip, objs)
    IN [i \in DOMAIN same |-> One(dim, same[i])]

CompileInterface(dim, objs) == [i \in DOMAIN objs |-> One(dim, objs[i])]

\* Several ports are for nft a set, and the protocol in a header of IPv4; for
\* iptables as many to a condition as multiport takes, a range counting as two:
\* `n' is what the ports of the last group count for.
AddPorts(n, o) == n + o.ports

Multiport(objs) ==
    Condition("SVC", UNION {o.vals : o \in ToSet(objs)}, FoldLeft(AddPorts, 0, objs),
              "ipv4")

Group(s, o) ==
    IF s.n + o.ports <= MultiportLimit
    THEN [s EXCEPT !.n = @ + o.ports, !.last = Append(@, o)]
    ELSE [done |-> Append(s.done, Multiport(s.last)), last |-> <<o>>, n |-> o.ports]

PortGroups(ports) ==
    LET end == FoldLeft(Group, [done |-> << >>, last |-> << >>, n |-> 0], ports)
    IN Append(end.done, Multiport(end.last))

PortsLimitControl(ports) ==
    IF Len(ports) < 2 THEN [i \in DOMAIN ports |-> One("SVC", ports[i])]
                      ELSE PortGroups(ports)

\* Services that are more than a destination port (source ports, flags, ICMP,
\* other protocols: port = "") are conditions of their own.
SamePort(port, list, o) == Kept(list, o, o.port = port)
OfPort(port, objs) == FoldLeft(LAMBDA list, o : SamePort(port, list, o), << >>, objs)

CompileSvc(objs) ==
    LET rest == OfPort("", objs)
    IN [i \in DOMAIN rest |-> One("SVC", rest[i])]
         \o PortsLimitControl(OfPort("tcp", objs)) \o PortsLimitControl(OfPort("udp", objs))

Items(rule, dim) ==
    LET objs == rule.pos[dim].objs
    IN CASE dim = "SVC" -> CompileSvc(objs)
         [] dim \in {"IN", "OUT"} -> CompileInterface(dim, objs)
         [] OTHER -> CompileSrcDst(dim, objs, rule.ip)

\* The selection sort by number of conditions.
Least(ps, i) ==
    Min({j \in i..Len(ps) : \A q \in i..Len(ps) : Len(ps[j].items) <= Len(ps[q].items)})
Swap(ps, i) == [ps EXCEPT ![i] = ps[Least(ps, i)], ![Least(ps, i)] = ps[i]]
BySize(ps) == FoldLeftDomain(Swap, ps, ps)

\* Variant: negated positions stay where the sort has put them.
SizeOrdered(ps) == BySize(ps)

\* What is negated goes to the end.
Sided(neg, list, p) == Kept(list, p, p.neg = neg)
Side(neg, ps) == FoldLeft(LAMBDA list, p : Sided(neg, list, p), << >>, ps)
Ordered(ps) == Side(FALSE, BySize(ps)) \o Side(TRUE, BySize(ps))

\* Positions without conditions are dropped.
NotEmpty(list, p) == Kept(list, p, p.items # << >>)

CompileRulePositions(rule) ==
    LET dims == Positions(rule.type)
        all == [i \in DOMAIN dims |-> [neg |-> rule.pos[dims[i]].neg,
                                       items |-> Items(rule, dims[i])]]
    IN Ordered(FoldLeft(NotEmpty, << >>, all))
-----------------------------------------------------------------------------
(* The action of a rule *)
AccChain(rule) == Name("ACC", rule.id)
LogChain(rule) == Name("LOGCHAIN", rule.id)
\* Rules that are code of the script: the user's, or a restart of fail2ban.
Scripted(rule) == rule.special \in {"script", "fail2ban"}
Logged(rule) == rule.log /\ rule.type \in FilterTypes /\ ~Scripted(rule)
Accounted(rule) == rule.action = "ACCOUNTING" /\ rule.type \in FilterTypes

\* Translated fields that natAction throws an error for.
BadNat(rule) ==
    /\ rule.type \in NatTypes
    /\ \/ "many" \in {rule.tr.addr, rule.tr.svc} \/ "other" \in {rule.tr.addr, rule.tr.svc}
       \/ rule.tr.addr = "" /\ IF rule.type = "SNAT" THEN rule.tr.svc # ""
                                                     ELSE rule.special # "script"

NatAction(rule) ==
    IF rule.tr.addr = "" THEN Name("MASQUERADE", rule.id)
                         ELSE Name(rule.type, rule.id)

\* `-p' of the translated service.
NatProtocol(rule) ==
    IF rule.type \in NatTypes /\ rule.tr.svc # ""
    THEN {Condition("PROTO", {v \in Values["SVC"] : Proto[v] = rule.tr.svc}, 0, "ipv4")}
    ELSE {}

BaseAction(rule) ==
    IF rule.type \in NatTypes THEN NatAction(rule)
    ELSE IF Accounted(rule) THEN AccChain(rule)
    ELSE IF rule.special = "stateful" THEN Name("ACCEPT", rule.id)
    ELSE Name(rule.action, rule.id)

Action(rule) ==
    IF Logged(rule) /\ ~Accounted(rule) THEN LogChain(rule) ELSE BaseAction(rule)
AfterLog(rule) ==
    IF Accounted(rule) THEN Name("RETURN", rule.id) ELSE BaseAction(rule)

Stateful(rule) ==
    IF /\ rule.type \in FilterTypes /\ rule.special \notin {"stateful", "catchall"}
       /\ rule.action = "ACCEPT" /\ rule.stateful
    THEN {Simple("CT", {Opening})} ELSE {}

\* The conditions of special rules are only in the end of the command line.  The
\* set of CrowdSec is for iptables one of sources; nft looks the source and the
\* destination up in a map.
EndConditions(rule) ==
    CASE rule.special = "stateful" -> {Simple("CT", {Established})}
      [] rule.special = "crowdsec" -> {Condition("SRC", Banned, 0, "map")}
      [] OTHER -> Stateful(rule)

\* CrowdSec protects what comes in or through only, fail2ban what comes in by
\* IPv4; nft knows no countries.
BadSpecial(rule) ==
    \/ rule.special = "crowdsec" /\ rule.type \notin {"INPUT", "FORWARD"}
    \/ rule.special = "fail2ban" /\ (rule.ip = 6 \/ rule.type # "INPUT")
BadCountry(rule) ==
    compiler = "NFTables" /\ \E d \in {"SRC", "DST"} :
        \E o \in ToSet(rule.pos[d].objs) : o.form = "country"
-----------------------------------------------------------------------------
(* generateCompilationString *)
New(table, chain) ==
    [table |-> table, chain |-> chain, match |-> {}, to |-> Create]
Rule(table, chain, match, to) ==
    [table |-> table, chain |-> chain, match |-> match, to |-> to]

\* Where the conditions of a chain lead to.
NextChain(p, last, action, following) ==
    IF p.neg THEN Name("RETURN", 0) ELSE IF last THEN action ELSE following

\* What a rule is compiled to: g.start is the chain it is in, g.ps its
\* conditions, g.kind stands for the id its chains are named after; g.state
\* goes where packets leave g.start, g.end closes a command line for which no
\* chain was needed.
ChainOf(g, n) == [kind |-> g.kind, id |-> g.id, n |-> n]
Rules(table, chain, items, more, to) ==
    [i \in DOMAIN items |-> Rule(table, chain, {items[i]} \cup more, to)]

Single(s, p) == [s EXCEPT !.open = @ \cup {p.items[1]}]
Spread(g, s, p) ==
    [n |-> s.n, open |-> {Last(p.items)},
     lines |-> Rules(g.table, g.start, Front(p.items), g.state, ChainOf(g, 1))]
Chained(g, s, p, last) ==
    LET here == ChainOf(g, s.n)
        beyond == ChainOf(g, s.n + 1)
    IN [n |-> s.n + 1,
        open |-> s.open,
        lines |->
          <<New(g.table, here)>> \o s.lines
            \o (IF s.n = 1 THEN <<Rule(g.table, g.start, s.open \cup g.state, here)>>
                ELSE << >>)
            \o Rules(g.table, here, p.items, {}, NextChain(p, last, g.action, beyond))
            \o (IF p.neg THEN <<Rule(g.table, here, {}, IF last THEN g.action ELSE beyond)>>
                ELSE << >>)]

\* The loop over the conditions, s.n being the number of the next chain.
Position(g, s, i) ==
    LET p == g.ps[i]
    IN IF Len(p.items) = 1 /\ ~p.neg THEN Single(s, p)
       ELSE IF i = 1 /\ ~p.neg THEN Spread(g, s, p)
       ELSE Chained(g, s, p, i = Len(g.ps))

Start == [n |-> 1, open |-> {}, lines |-> << >>]
AllPositions(g) == FoldLeftDomain(LAMBDA s, i : Position(g, s, i), Start, g.ps)

Generate(g) ==
    LET whole == AllPositions(g)
    IN IF Len(g.ps) = 1 /\ ~g.ps[1].neg
       THEN Rules(g.table, g.start, g.ps[1].items, g.end, g.action)
       ELSE IF whole.n = 1
       THEN Append(whole.lines, Rule(g.table, g.start, whole.open \cup g.end, g.action))
       ELSE whole.lines
-----------------------------------------------------------------------------
(* ruleCompile *)
\* NAT: the `-p' goes with the action, whatever line the action is in.
WithProtocol(rule, lines) ==
    [i \in DOMAIN lines |->
        IF lines[i].to = Action(rule)
        THEN [lines[i] EXCEPT !.match = @ \cup NatProtocol(rule)] ELSE lines[i]]

\* A second -p for the same protocol is taken away.
NatCheck(lines) ==
    LET same(m, l) == m.dim = "PROTO" /\ \E q \in l.match :
                        q.dim = "SVC" /\ q.vals \subseteq m.vals
    IN [i \in DOMAIN lines |->
          [lines[i] EXCEPT !.match = {m \in @ : ~same(m, lines[i])}]]

AddAccounting(rule) ==
    IF ~Accounted(rule) THEN << >>
    ELSE <<New("filter", AccChain(rule)),
           Rule("filter", AccChain(rule), {},
                IF Logged(rule) THEN LogChain(rule) ELSE Name("RETURN", rule.id))>>

AddLog(rule) ==
    IF ~Logged(rule) THEN << >>
    ELSE <<New("filter", LogChain(rule)),
           Rule("filter", LogChain(rule), {}, Name("LIMITLOG", rule.id)),
           Rule("filter", LogChain(rule), {}, AfterLog(rule))>>

\* `-o' is taken out of the commands for PREROUTING; for nft it stays.
StripOut(lines) ==
    IF compiler # "IPTables" THEN lines
    ELSE [i \in DOMAIN lines |->
            [lines[i] EXCEPT !.match = {m \in @ : m.dim # "OUT"}]]

\* Variant: the marks are set by every packet, in any state.
StatelessMarking(rule, kind, start, target) ==
    [id |-> rule.id, kind |-> kind, table |-> "mangle", start |-> Name(start, 0),
     ps |-> CompileRulePositions(rule), action |-> Name(target, rule.id),
     state |-> {}, end |-> {}]

Marking(rule, kind, start, target) ==
    [id |-> rule.id, kind |-> kind, table |-> "mangle", start |-> Name(start, 0),
     ps |-> CompileRulePositions(rule), action |-> Name(target, rule.id),
     state |-> Stateful(rule), end |-> Stateful(rule)]

\* The chains of FORWARD and of PREROUTING have the same names.
Marks(rule, kind, target) ==
    Generate(Marking(rule, kind, rule.type, target))
      \o (IF rule.type = "FORWARD"
          THEN StripOut(Generate(Marking(rule, kind, "PREROUTING", target))) ELSE << >>)

\* iptables saves the mark with the connection, nft sets it to what it is.
Saved == IF compiler = "IPTables" THEN "CONNMARK" ELSE "SELFMARK"

AddMark(rule) ==
    IF ~rule.mark \/ rule.type \notin FilterTypes THEN << >>
    ELSE Marks(rule, "M1", "MARK") \o Marks(rule, "M2", Saved)

TableOf(type) == IF type \in NatTypes THEN "nat" ELSE "filter"

Matching(rule) ==
    [id |-> rule.id, kind |-> "CH", table |-> TableOf(rule.type),
     start |-> Name(Hook(rule.type), 0), ps |-> CompileRulePositions(rule),
     action |-> Action(rule), state |-> Stateful(rule), end |-> EndConditions(rule)]

Main(rule) ==
    LET lines == WithProtocol(rule, Generate(Matching(rule)))
    IN IF Scripted(rule) THEN << >>
       ELSE IF compiler = "IPTables" THEN NatCheck(lines) ELSE lines

RuleCompile(rule) ==
    AddLog(rule) \o AddAccounting(rule) \o Main(rule) \o AddMark(rule)
-----------------------------------------------------------------------------
Init ==
    /\ \E m \in Modes : compiler = m[1] /\ optimized = m[2]
    /\ policy \in Policies
    /\ family = policy[1].ip
    /\ next = 1
    /\ script = << >>
    /\ outcome = "running"
    /\ filter = Empty

Current == policy[next]

Compiled(rule) == rule.active \/ Len(policy) = 1
Bad(rule) == BadNat(rule) \/ BadSpecial(rule) \/ BadCountry(rule)

\* A disabled rule is compiled only when it is alone, and never dumped; what
\* is for another host of the cluster is skipped by the script.
CompileRule ==
    /\ outcome = "running" /\ next <= Len(policy)
    /\ Compiled(Current) => ~Bad(Current)
    /\ script' = script \o (IF Current.active /\ Current.here
                            THEN RuleCompile(Current) ELSE << >>)
    /\ next' = next + 1
    /\ UNCHANGED <<compiler, optimized, family, policy, outcome, filter>>

Reject ==
    /\ outcome = "running" /\ next <= Len(policy)
    /\ Compiled(Current) /\ Bad(Current)
    /\ outcome' = "rejected"
    /\ UNCHANGED <<compiler, optimized, family, policy, next, script, filter>>

Resolve ==
    /\ outcome = "running" /\ next > Len(policy)
    /\ outcome' = "resolved"
    /\ UNCHANGED <<compiler, optimized, family, policy, next, script, filter>>

\* The script, run by the destination firewall, whose filter it first empties.
Install ==
    /\ outcome = "resolved"
    /\ filter' = Loaded(script)
    /\ outcome' = "installed"
    /\ UNCHANGED <<compiler, optimized, family, policy, next, script>>

Next == CompileRule \/ Reject \/ Resolve \/ Install

Spec == Init /\ [][Next]_vars
-----------------------------------------------------------------------------
(* What a rule says, position by position, against the packets it sees. *)
Meant(rule, p) ==
    /\ rule.active /\ rule.here /\ ~Scripted(rule)
    /\ \A d \in ToSet(Positions(rule.type)) :
         LET objs == {o \in ToSet(rule.pos[d].objs) :
                        d \in {"SRC", "DST"} => o.ip \in {0, rule.ip}}
         IN objs # {} => (~rule.pos[d].neg <=> \E o \in objs : p[d] \in o.vals)
    /\ rule.type \in NatTypes /\ rule.tr.svc # "" => Proto[p["SVC"]] = rule.tr.svc
    /\ CASE rule.special = "stateful" -> p["CT"] = Established
         [] rule.special = "crowdsec" -> p["SRC"] \in Banned
         [] rule.special = "none" /\ rule.type \in FilterTypes /\ rule.action = "ACCEPT"
              /\ rule.stateful -> p["CT"] = Opening
         [] OTHER -> TRUE

\* A rule that is meant counts, logs and decides; accounting rules only count.
Means(rule) ==
    [end |-> IF Accounted(rule) THEN None ELSE BaseAction(rule),
     trail |-> (IF Accounted(rule) THEN <<AccChain(rule)>> ELSE << >>)
                 \o (IF Logged(rule) THEN <<Name("LIMITLOG", rule.id)>> ELSE << >>)]

See(p, res, rule) == IF Meant(rule, p) THEN Then(res, Means(rule)) ELSE res

Promise(p) == FoldLeft(LAMBDA res, rule : See(p, res, rule), Nothing, policy)

\* Packets that differ where some rule looks.
Looked ==
    {d \in ToSet(Positions(policy[1].type)) : \E r \in ToSet(policy) :
        \/ r.pos[d].objs # << >>
        \/ d = "SRC" /\ r.special = "crowdsec"
        \/ d = "SVC" /\ r.tr.svc # ""}
Packet(dims, look, ct) ==
    [d \in dims \cup {"CT"} |->
        IF d = "CT" THEN ct ELSE IF d \in DOMAIN look THEN look[d] ELSE Min(Values[d])]
Packets ==
    LET dims == ToSet(Positions(policy[1].type))
        looks == {v \in [Looked -> UNION {Values[d] : d \in Looked}] :
                    \A d \in Looked : v[d] \in Values[d]}
    IN {Packet(dims, look, ct) : look \in looks, ct \in {Opening, Established}}

\* A packet that satisfies two conditions of one position of an accounting rule
\* is counted for each of them.
CountedOnce(p) ==
    \A r \in ToSet(policy) : Accounted(r) =>
        \A d \in ToSet(Positions(r.type)) : \A i, j \in DOMAIN Items(r, d) :
            p[d] \in Items(r, d)[i].vals \cap Items(r, d)[j].vals => i = j

\* The conditions of the special rules that take established connections and
\* banned sources only end a command line: they need a rule without chains.
SpecialsAlone ==
    \A r \in ToSet(policy) :
        r.special \in {"stateful", "crowdsec"} => CompileRulePositions(r) = << >>

\* The firewall refuses no rule for what it says.
Readable == \A l \in ToSet(script) : ~Refused(l)

\* The compiled chain does with every packet what the first of its rules that
\* the packet satisfies says, hands it to the logs and accounts included,
\* however the conditions were spread over chains.  It needs commands that the
\* firewall can read, except where iptables takes them one by one: what it
\* refuses then is for no packet.
MeansPolicy ==
    /\ outcome = "installed" /\ SpecialsAlone
    /\ Readable \/ (compiler = "IPTables" /\ ~optimized)
    =>
        \A p \in Packets :
           LET done == Walk(filter, TableOf(policy[1].type), Hook(policy[1].type), p)
           IN /\ done.end = Promise(p).end
              /\ ToSet(done.trail) = ToSet(Promise(p).trail)
              /\ CountedOnce(p) => done.trail = Promise(p).trail

\* Before routing nothing is known of the way out.
Unrouted(p) == [d \in DOMAIN p |-> IF d = "OUT" THEN 0 ELSE p[d]]

MarksAs(type) ==
    LET marks(p) ==
          Walk(filter, "mangle", type, p).trail
            \o (IF type = "FORWARD"
                THEN Walk(filter, "mangle", "PREROUTING", Unrouted(p)).trail
                ELSE << >>)
        other(r) == [r EXCEPT !.pos["OUT"].objs = << >>]
    IN \A p \in Packets :
         LET trail == ToSet(marks(p)) IN
         \A r \in ToSet(policy),
            kind \in IF compiler = "IPTables" THEN {"MARK", "CONNMARK"} ELSE {"MARK"} :
           LET marked == Name(kind, r.id) \in trail
           IN /\ r.mark /\ Meant(r, p) => marked
              /\ marked => r.mark /\ Meant(other(r), p)

\* Every packet that satisfies a marking rule is marked, and by iptables its
\* mark saved with the connection; no packet is that fails another condition
\* than the way out, which is not known where forwarded packets are marked
\* first.  Needs commands that the firewall can read, and for iptables those of
\* forwarded packets to be loaded one by one.
MarksMatching ==
    LET type == policy[1].type
    IN outcome = "installed" /\ type \in FilterTypes
       /\ (\A r \in ToSet(policy) : r.mark => r.special \in {"none", "catchall"})
       /\ Readable
       /\ (optimized /\ compiler = "IPTables" => type # "FORWARD") => MarksAs(type)

\* "Add the mark to the PREROUTING chain of the mangle table"
\* (PolicyCompilerTools.addMark): forwarded packets are marked, however the
\* commands are loaded.
MarksForwarded ==
    outcome = "installed" /\ policy[1].type = "FORWARD" => MarksAs("FORWARD")
=============================================================================
