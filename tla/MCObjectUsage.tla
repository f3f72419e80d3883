--------------------------- MODULE MCObjectUsage ---------------------------
(* Values for the constants of ObjectUsage. *)
EXTENDS ObjectUsage, TLC

CONSTANTS r4, r6, f, h1, h2, g, q1, q2

MCRules == {r4, r6}
MCVersion == [rule \in MCRules |-> IF rule = r4 THEN 4 ELSE 6]

\* A firewall and a host; two interfaces of a host, one of them with an address of
\* either version.
MCLayouts ==
    {<<<<f, 4>>, <<h1, 4>>>>,
     <<<<h1, 4>>, <<h2, 6>>, <<h1, 6>>>>}

Symmetry == Permutations(Requests)
=============================================================================
