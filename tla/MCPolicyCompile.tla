-------------------------- MODULE MCPolicyCompile --------------------------
(* PolicyCompile on small policies.  A position is empty, or has one or two *)
(* conditions, negated or not; at most three positions of a rule are filled.*)
EXTENDS PolicyCompile

\* Three TCP ports, a UDP port.
PacketValues == [d \in {"IN", "OUT", "SVC", "SRC", "DST"} |->
                   IF d = "SVC" THEN 1..4 ELSE 1..3]
Protocols == <<"tcp", "tcp", "tcp", "udp">>
BannedSources == {2}

Obj(v, port, ports, ip) ==
    [vals |-> {v}, port |-> port, ports |-> ports, ip |-> ip, form |-> "any"]
As(form, o) == [o EXCEPT !.form = form]
Unset == [neg |-> FALSE, objs |-> << >>]
Plain(objs) == {[neg |-> neg, objs |-> objs] : neg \in BOOLEAN}

Places == Plain(<<Obj(1, "", 0, 0)>>) \cup Plain(<<Obj(1, "", 0, 0), Obj(2, "", 0, 0)>>)
\* With objects of the other IP version, one of them alone.
Hosts == Places \cup Plain(<<Obj(1, "", 0, 4), Obj(2, "", 0, 6)>>)
                \cup Plain(<<Obj(2, "", 0, 6)>>)
\* A port; two ports and one of the other protocol; a range between two ports;
\* a protocol; a port with TCP flags.
Services ==
    Plain(<<Obj(1, "tcp", 1, 0)>>)
      \cup Plain(<<Obj(1, "tcp", 1, 0), Obj(2, "tcp", 1, 0), Obj(4, "udp", 1, 0)>>)
      \cup Plain(<<Obj(1, "tcp", 1, 0), Obj(2, "tcp", 2, 0), Obj(3, "tcp", 1, 0)>>)
      \cup Plain(<<As("ipv4", [Obj(1, "", 0, 0) EXCEPT !.vals = {2, 3}])>>)
      \cup {[neg |-> FALSE, objs |-> <<As("escaped", Obj(1, "", 0, 0))>>]}

Dims == {"IN", "OUT", "SVC", "SRC", "DST"}
Shapes(d) == CASE d = "SVC" -> Services [] d = "SRC" -> Hosts [] OTHER -> Places
NoTr == [addr |-> "", svc |-> ""]

\* The fillings of the positions in `ds', everything else empty.
Fillings(ds) ==
    {[d \in Dims |-> IF d \in ds THEN f[d] ELSE Unset] :
        f \in {g \in [ds -> UNION {Shapes(d) : d \in ds}] :
                  \A d \in ds : g[d] \in Shapes(d)}}

RuleOf(type, special, o, pos, tr) ==
    [id |-> 1, type |-> type, special |-> special, action |-> o.action,
     stateful |-> o.stateful, log |-> o.log, mark |-> o.mark, active |-> TRUE,
     here |-> TRUE, ip |-> 4, pos |-> pos, tr |-> tr]

Drop == [action |-> "DROP", stateful |-> FALSE, log |-> TRUE, mark |-> FALSE]
Accept == [action |-> "ACCEPT", stateful |-> TRUE, log |-> FALSE, mark |-> TRUE]

\* One rule with every filling of up to three of its positions.
FilterRules(type) ==
    LET upTo(n) == UNION {Fillings(ds) :
                            ds \in UNION {kSubset(i, ToSet(Positions(type))) : i \in 0..n}}
        rules(o, n) == {RuleOf(type, "none", o, pos, NoTr) : pos \in upTo(n)}
    IN rules(Accept, 3) \cup rules([Drop EXCEPT !.action = "ACCOUNTING"], 2)

NatRules ==
    {RuleOf(type, special, Accept, pos, [addr |-> a, svc |-> s]) :
        special \in {"none", "script"}, type \in NatTypes, a \in {"", "one", "other"}, s \in {"", "tcp", "other"},
        pos \in UNION {Fillings(ds) : ds \in {{"SVC"}, {"SVC", "SRC"}, {}}}}

Filled(d, n, neg) ==
    [e \in Dims |-> IF e # d THEN Unset
                    ELSE [neg |-> neg, objs |-> [i \in 1..n |-> Obj(i, "", 0, 0)]]]
\* Rules whose neighbours matter.
SomeRules(type) ==
    LET r(special, o, pos) == RuleOf(type, special, o, pos, NoTr)
        plain == r("none", Accept, Filled("SRC", 2, FALSE))
        count == r("none", [Drop EXCEPT !.action = "ACCOUNTING"], Filled("SRC", 2, TRUE))
    IN {plain, count,
        r("none", Drop, Filled("DST", 1, TRUE)),
        r("stateful", [Accept EXCEPT !.mark = FALSE], Filled("SRC", 0, FALSE)),
        r("crowdsec", Drop, Filled("SRC", 0, FALSE)),
        r("catchall", Drop, Filled("SRC", 0, FALSE)),
        r("script", Drop, Filled("SRC", 0, FALSE)),
        r("fail2ban", Drop, Filled("SRC", 0, FALSE)),
        [plain EXCEPT !.active = FALSE], [count EXCEPT !.here = FALSE],
        [plain EXCEPT !.pos["SRC"].objs = <<As("country", Obj(1, "", 0, 0))>>]}

Pairs(type) == {<<r, [s EXCEPT !.id = 2]>> : r, s \in SomeRules(type)}

EveryMode == {"IPTables", "NFTables"} \X BOOLEAN
InBlocks == {<<"IPTables", TRUE>>}

\* Two conditions of one position that a packet may satisfy.
Overlapping ==
    LET wide(v) == [vals |-> v, port |-> "", ports |-> 0, ip |-> 0, form |-> "any"]
        sources == [neg |-> FALSE, objs |-> <<wide({1, 2}), wide({2, 3})>>]
    IN {RuleOf("INPUT", "none", o, [Filled("DST", 1, FALSE) EXCEPT !["SRC"] = sources], NoTr) :
          o \in {Accept, [Drop EXCEPT !.action = "ACCOUNTING"]}}

\* Policies of IPv6.
In6(r) == [r EXCEPT !.ip = 6]
SixPolicies ==
    {<<In6(r)>> : r \in NatRules \cup
        {RuleOf("FORWARD", "none", Accept, pos, NoTr) : pos \in Fillings({"SVC", "SRC"})}}
      \cup {<<In6(pol[1]), In6(pol[2])>> : pol \in Pairs("INPUT")}

SmallPolicies ==
    {<<r>> : r \in FilterRules("FORWARD") \cup NatRules \cup Overlapping}
      \cup UNION {Pairs(type) : type \in {"INPUT", "OUTPUT"}} \cup SixPolicies
=============================================================================
