----------------------------- MODULE MCResolver -----------------------------
(***************************************************************************)
(* Small worlds for the resolver.  The "graphs" are all requirement tables *)
(* of three packages of one version with at most two requirements each,    *)
(* cycles included.  In the "versions", b and c are two versions of one    *)
(* name, c the higher, d is a leaf and a requirement may pin b or find     *)
(* nothing.                                                                *)
(***************************************************************************)
EXTENDS Resolver, TLC

CONSTANTS a, b, c, d

SeqUpTo(S, n) == UNION {[1 .. m -> S] : m \in 0 .. n}

Graph == {a, b, c}
GraphNeeds == [Graph -> SeqUpTo(Graph, 2)]
GraphNewest == {[p \in Graph |-> p]}
GraphAsked == SeqUpTo(Graph, 2) \ {<<>>}

Versions == {a, b, c, d}
VersionsNeeds ==
    {(a :> x) @@ (b :> y) @@ (c :> z) @@ (d :> <<>>) :
        x \in SeqUpTo({b, c, d, NoPackage}, 2),
        y \in SeqUpTo({a, d}, 2),
        z \in SeqUpTo({a, d}, 2)}
VersionsNewest == {[p \in Versions |-> IF p = b THEN c ELSE p]}
VersionsAsked == SeqUpTo({a, b, c, NoPackage}, 2) \cup {<<a, a, b>>, <<a, a, b, c>>}
=============================================================================
