----------------------------- MODULE Netfilter -----------------------------
(***************************************************************************)
(* The packet filter of the destination firewall: what the commands of a   *)
(* policy script load into it, and what it then does with a packet.  A     *)
(* command creates a chain (its target is Create) or appends a rule to     *)
(* one; a rule is a set of conditions and a target.                        *)
(***************************************************************************)
EXTENDS Integers, SequencesExt

CONSTANTS
    MultiportLimit, \* ports in one multiport condition (15)
    Proto           \* the protocol of every service a packet may be of

VARIABLES
    compiler,       \* "IPTables" or "NFTables", and whether the commands are
    optimized,      \* loaded in blocks: options of the firewall
    family          \* the version of IP of the policy and of its tables

\* Chains, and the targets that are no chains, have a kind and the rule they
\* are for; the chains of conditions are numbered.
Name(kind, id) == [kind |-> kind, id |-> id, n |-> 0]
Create == Name("create", 0)
None == Name("none", 0)

Hooks == {Name(h, 0) : h \in {"PREROUTING", "INPUT", "FORWARD", "OUTPUT",
                              "POSTROUTING"}}
Final == {"ACCEPT", "DROP", "REJECT", "SNAT", "DNAT", "MASQUERADE", "RETURN"}
\* They act and the next rule is tried.  A packet handed to the log is logged
\* up to so many a minute; to set a mark to itself changes nothing.
Silent == {"LIMITLOG", "MARK", "CONNMARK", "SELFMARK"}

\* The rules of every chain, by table and chain.
Empty == [tc \in {"filter", "nat", "mangle"} \X Hooks |-> << >>]

\* Conditions on two protocols.
TwoProtocols(l) == \E m, q \in l.match : m.dim = "SVC" /\ q.dim = "PROTO"

\* What nft cannot read: a header of IPv4 in a table of IPv6, a map that no
\* command defines, and in a block what the shell should have unescaped.
Unreadable(m) ==
    \/ m.form = "ipv4" /\ family = 6
    \/ m.form = "map"
    \/ m.form = "escaped" /\ optimized

\* Rules that are refused whatever has been loaded before.
Refused(l) ==
    IF compiler = "IPTables" THEN TwoProtocols(l)
                             ELSE \E m \in l.match : Unreadable(m)

\* iptables refuses two -p options, more ports than multiport takes, -o where
\* the way out is not known yet, and a jump to a chain that does not exist.
Accepted(k, l) ==
    /\ <<l.table, l.chain>> \in DOMAIN k
    /\ l.to.kind \in Final \cup Silent \/ <<l.table, l.to>> \in DOMAIN k
    /\ ~Refused(l)
    /\ compiler = "IPTables" =>
         /\ \A m \in l.match : m.ports <= MultiportLimit
         /\ l.chain = Name("PREROUTING", 0) => \A m \in l.match : m.dim # "OUT"

\* nft creates a chain that exists once more, iptables refuses it.
Fails(k, l) ==
    IF l.to = Create
    THEN compiler = "IPTables" /\ <<l.table, l.chain>> \in DOMAIN k
    ELSE ~Accepted(k, l)

Command(k, l) ==
    LET here == <<l.table, l.chain>>
    IN IF Fails(k, l) THEN k
       ELSE IF l.to = Create
       THEN [tc \in DOMAIN k \cup {here} |-> IF tc \in DOMAIN k THEN k[tc] ELSE << >>]
       ELSE [k EXCEPT ![here] = Append(@, l)]

\* A block is committed as a whole or not at all.
Try(t, l) ==
    IF t.ok /\ ~Fails(t.k, l) THEN [ok |-> TRUE, k |-> Command(t.k, l)]
    ELSE [t EXCEPT !.ok = FALSE]

Restore(k, block) ==
    LET end == FoldLeft(Try, [ok |-> TRUE, k |-> k], block)
    IN IF end.ok THEN end.k ELSE k

\* iptables-restore takes the commands for one table, nft the rules of one
\* chain; the commands that create chains are given to nft one by one.
Together(q, l) ==
    /\ q.table = l.table
    /\ compiler = "NFTables" => q.chain = l.chain /\ q.to # Create /\ l.to # Create

Buffer(bs, l) ==
    IF bs # << >> /\ Together(Last(Last(bs)), l)
    THEN ReplaceAt(bs, Len(bs), Append(Last(bs), l))
    ELSE Append(bs, <<l>>)

Blocks(script) == FoldLeft(Buffer, << >>, script)

Loaded(script) ==
    IF optimized
    THEN FoldLeft(Restore, Empty, Blocks(script))
    ELSE FoldLeft(Command, Empty, script)
-----------------------------------------------------------------------------
Hit(l, p) ==
    \A m \in l.match : p[IF m.dim = "PROTO" THEN "SVC" ELSE m.dim] \in m.vals

\* What happens to a packet: the verdict, and what is done before it.
Nothing == [end |-> None, trail |-> << >>]
Then(e, rest) ==
    IF e.end # None THEN e
    ELSE [end |-> rest.end, trail |-> e.trail \o rest.trail]

\* What the target of a rule does.  A chain left without a verdict returns to
\* its caller.
Effect(walk, to) ==
    LET sub == walk[<<to, 1>>]
    IN IF to.kind \in Final THEN [end |-> to, trail |-> << >>]
       ELSE IF to.kind \in Silent THEN [end |-> None, trail |-> <<to>>]
       ELSE [end |-> IF sub.end.kind = "RETURN" THEN None ELSE sub.end,
             trail |-> (IF to.kind = "ACC" THEN <<to>> ELSE << >>) \o sub.trail]

\* From the i-th rule of a chain on, at = <<chain, i>>.
Visit(k, table, p, walk, at) ==
    LET rules == k[<<table, at[1]>>]
        rest == walk[<<at[1], at[2] + 1>>]
    IN IF at[2] > Len(rules) THEN Nothing
       ELSE IF Hit(rules[at[2]], p) THEN Then(Effect(walk, rules[at[2]].to), rest)
       ELSE rest

Chains(k, table) == {c \in {tc[2] : tc \in DOMAIN k} : <<table, c>> \in DOMAIN k}

\* A packet on its way through the chain of a hook.
Walk(k, table, hook, p) ==
    LET walk[at \in Chains(k, table) \X (Nat \ {0})] == Visit(k, table, p, walk, at)
    IN walk[<<Name(hook, 0), 1>>]
=============================================================================
