------------------------------ MODULE Induction ------------------------------
(***************************************************************************)
(* Counting: the induction over numbers and the functions defined along    *)
(* them, which the proofs about the models' data rest on.                  *)
(***************************************************************************)
EXTENDS Integers, WellFoundedInduction, TLAPS

\* The order of the numbers, as a relation.
LT == {ss \in Nat \X Nat : ss[1] < ss[2]}

\* Some number of a set of them is the least.
LEMMA LeastOf ==
    ASSUME NEW S \in SUBSET Nat, S # {}
    PROVE  \E n \in S : \A m \in S : n <= m
<1>1. IsWellFoundedOn(LT, Nat)
    BY NatLessThanWellFounded DEF OpToRel, LT
<1>2. PICK n \in S : \A m \in S : ~(<<m, n>> \in LT)
    BY <1>1, WFMin, Zenon
<1>3. \A m \in S : ~(m < n)
    BY <1>2 DEF LT
<1> QED BY <1>3

\* A set that counts on from 0 has all numbers.
LEMMA CountUpTo ==
    ASSUME NEW S \in SUBSET Nat, 0 \in S, \A n \in S : n + 1 \in S
    PROVE  S = Nat
<1> SUFFICES ASSUME Nat \ S # {} PROVE FALSE
    OBVIOUS
<1>1. PICK n \in Nat \ S : \A m \in Nat \ S : n <= m
    BY LeastOf
<1>2. n # 0 /\ n - 1 \in Nat /\ n - 1 \notin Nat \ S
    BY <1>1
<1> QED BY <1>1, <1>2

\* As far as n.
LEMMA UpTo ==
    ASSUME NEW n \in Nat, NEW S, 0 \in S, \A i \in 0 .. n - 1 : i \in S => i + 1 \in S
    PROVE  \A i \in 0 .. n : i \in S
<1> DEFINE T == {i \in Nat : i <= n => i \in S}
<1>1. T \in SUBSET Nat /\ 0 \in T
    OBVIOUS
<1>2. ASSUME NEW i \in T PROVE i + 1 \in T
    OBVIOUS
<1>3. T = Nat
    <2> HIDE DEF T
    <2> QED BY <1>1, <1>2, CountUpTo
<1> QED BY <1>3

\* Some number of a bounded set of them is the greatest.
LEMMA GreatestOf ==
    ASSUME NEW S \in SUBSET Nat, S # {}, NEW b \in Nat, \A n \in S : n <= b
    PROVE  \E n \in S : \A m \in S : m <= n
<1> DEFINE T == {i \in Nat : \E n \in S : i = b - n}
<1>1. T # {}
    <2>1. PICK n \in S : TRUE
        OBVIOUS
    <2>2. b - n \in Nat
        BY <2>1
    <2> QED BY <2>1, <2>2
<1>2. PICK i \in T : \A j \in T : i <= j
    <2>1. T \in SUBSET Nat
        OBVIOUS
    <2> HIDE DEF T
    <2> QED BY <1>1, <2>1, LeastOf
<1>3. PICK n \in S : i = b - n
    BY <1>2
<1>4. ASSUME NEW m \in S PROVE m <= n
    <2>1. b - m \in T
        OBVIOUS
    <2>2. i <= b - m
        BY <1>2, <2>1
    <2> QED BY <1>3, <2>2
<1> QED BY <1>4

\* g follows F from b on, for n steps.
Along(g, St, F, b, n) ==
    /\ g \in [0 .. n -> St]
    /\ g[0] = b
    /\ \A i \in 1 .. n : g[i] = F[<<g[i - 1], i>>]

\* A function can be defined by its value at 0 and that at each number from the one before.
LEMMA AlongNumbers ==
    ASSUME NEW St, NEW F \in [St \X Nat -> St], NEW b \in St, NEW n \in Nat
    PROVE  \E g : Along(g, St, F, b, n)
<1> DEFINE S == {k \in Nat : \E g : Along(g, St, F, b, k)}
<1>1. 0 \in S
    <2> DEFINE g == [i \in 0 .. 0 |-> b]
    <2>1. g \in [0 .. 0 -> St] /\ g[0] = b /\ \A i \in 1 .. 0 : g[i] = F[<<g[i - 1], i>>]
        OBVIOUS
    <2> QED BY <2>1 DEF Along
<1>2. ASSUME NEW k \in S PROVE k + 1 \in S
    <2>1. PICK g \in [0 .. k -> St] : g[0] = b /\ \A i \in 1 .. k : g[i] = F[<<g[i - 1], i>>]
        BY DEF Along
    <2> DEFINE h == [i \in 0 .. k + 1 |-> IF i = k + 1 THEN F[<<g[k], k + 1>>] ELSE g[i]]
    <2>2. g[k] \in St /\ F[<<g[k], k + 1>>] \in St
        BY <2>1
    <2>3. h \in [0 .. k + 1 -> St]
        BY <2>2
    <2>4. h[0] = b
        BY <2>1
    <2>5. ASSUME NEW i \in 1 .. k + 1 PROVE h[i] = F[<<h[i - 1], i>>]
        <3>1. CASE i = k + 1
            <4>1. h[i] = F[<<g[k], k + 1>>] /\ h[i - 1] = g[k]
                BY <3>1
            <4> QED BY <3>1, <4>1
        <3>2. CASE i \in 1 .. k
            <4>1. h[i] = g[i] /\ h[i - 1] = g[i - 1]
                BY <3>2
            <4> QED BY <2>1, <3>2, <4>1
        <3> QED BY <3>1, <3>2
    <2> HIDE DEF h
    <2>6. Along(h, St, F, b, k + 1)
        BY <2>3, <2>4, <2>5 DEF Along
    <2> QED BY <2>6
<1>3. S \in SUBSET Nat
    OBVIOUS
<1>4. n \in S
    <2> HIDE DEF S
    <2> QED BY <1>1, <1>2, <1>3, CountUpTo
<1> QED BY <1>4
=============================================================================
