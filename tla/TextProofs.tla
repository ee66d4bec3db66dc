----------------------------- MODULE TextProofs -----------------------------
(***************************************************************************)
(* Proofs about the string functions, for all strings that come in and     *)
(* whatever they have been through; and the lemmas about sequences and     *)
(* about these functions that the proofs of their callers rest on.         *)
(***************************************************************************)
EXTENDS Buffers, Induction, FiniteSetTheorems, SequenceTheorems, TLAPS

\* Strings and sequences.

LEMMA AppendRange ==
    ASSUME NEW A, NEW s \in Seq(A), NEW e \in A
    PROVE  /\ Append(s, e) \in Seq(A) /\ Range(Append(s, e)) = Range(s) \cup {e}
           /\ Len(Append(s, e)) = Len(s) + 1 /\ Append(s, e)[Len(s) + 1] = e
           /\ \A n \in 1 .. Len(s) : Append(s, e)[n] = s[n]
<1> DEFINE t == Append(s, e)
<1>1. /\ t \in Seq(A) /\ Len(t) = Len(s) + 1 /\ t[Len(s) + 1] = e
      /\ \A n \in 1 .. Len(s) : t[n] = s[n]
    BY AppendProperties
<1>2. Len(s) \in Nat
    BY LenProperties
<1> HIDE DEF t
<1>3. Range(t) = {t[n] : n \in 1 .. Len(t)} /\ Range(s) = {s[n] : n \in 1 .. Len(s)}
    BY <1>1, RangeEquality
<1>4. 1 .. Len(t) = (1 .. Len(s)) \cup {Len(s) + 1}
    BY <1>1, <1>2
<1>5. Range(t) = Range(s) \cup {e}
    BY <1>1, <1>3, <1>4
<1> QED BY <1>1, <1>5 DEF t

LEMMA MaxIs ==
    ASSUME NEW S \in SUBSET Nat, S # {}, NEW b \in Nat, \A n \in S : n <= b
    PROVE  Max(S) \in S /\ \A n \in S : n <= Max(S)
<1>1. \E m \in S : \A n \in S : n <= m
    BY GreatestOf
<1>2. PICK m \in S : \A n \in S : m >= n
    BY <1>1
<1>3. Max(S) \in S /\ \A n \in S : Max(S) >= n
    BY <1>2 DEF Max
<1> QED BY <1>3

LEMMA MinIs ==
    ASSUME NEW S \in SUBSET Nat, S # {}
    PROVE  Min(S) \in S /\ \A n \in S : Min(S) <= n
<1>1. \E m \in S : \A n \in S : m <= n
    BY LeastOf
<1> QED BY <1>1 DEF Min

\* Where a string is cut.
LEMMA CutIs ==
    ASSUME NEW A, NEW s \in Seq(A), NEW n \in 0 .. Len(s)
    PROVE  /\ Cut(s, n) \in Seq(A) /\ Len(Cut(s, n)) = n
           /\ \A k \in 1 .. n : Cut(s, n)[k] = s[k]
<1>1. Len(s) \in Nat /\ \A k \in 1 .. n : s[k] \in A
    BY LenProperties
<1>2. n \in Int /\ 1 \in Int
    BY <1>1
<1> QED BY <1>1, <1>2, SubSeqProperties DEF Cut

LEMMA CutOneMore ==
    ASSUME NEW A, NEW s \in Seq(A), NEW k \in 0 .. Len(s) - 1
    PROVE  Cut(s, k + 1) = Append(Cut(s, k), s[k + 1])
<1>1. Len(s) \in Nat /\ k \in 0 .. Len(s) /\ k + 1 \in 0 .. Len(s) /\ s[k + 1] \in A
    BY LenProperties, ElementOfSeq
<1> DEFINE z == Cut(s, k)
           u == Append(z, s[k + 1])
           w == Cut(s, k + 1)
<1>2. z \in Seq(A) /\ Len(z) = k /\ \A n \in 1 .. k : z[n] = s[n]
    BY <1>1, CutIs
<1>3. w \in Seq(A) /\ Len(w) = k + 1 /\ \A n \in 1 .. k + 1 : w[n] = s[n]
    BY <1>1, CutIs
<1> HIDE DEF z, w
<1>4. u \in Seq(A) /\ Len(u) = k + 1 /\ u[k + 1] = s[k + 1] /\ \A n \in 1 .. k : u[n] = z[n]
    BY <1>1, <1>2, AppendRange
<1> HIDE DEF u
<1>5. ASSUME NEW n \in 1 .. k + 1 PROVE u[n] = w[n]
    <2>1. n = k + 1 \/ n \in 1 .. k
        BY <1>1
    <2> QED BY <1>2, <1>3, <1>4, <2>1
<1>6. u = w
    BY <1>3, <1>4, <1>5, SeqEqual
<1> QED BY <1>6 DEF u, w, z

LEMMA FromIs ==
    ASSUME NEW A, NEW s \in Seq(A), NEW o \in 0 .. Len(s), NEW n, n = o + 1
    PROVE  /\ From(s, n) \in Seq(A) /\ Len(From(s, n)) = Len(s) - o
           /\ \A k \in 1 .. Len(s) - o : From(s, n)[k] = s[o + k]
<1>1. Len(s) \in Nat /\ n \in Int /\ \A k \in n .. Len(s) : s[k] \in A
    BY LenProperties
<1>2. /\ From(s, n) \in Seq(A) /\ Len(From(s, n)) = IF n <= Len(s) THEN Len(s) - n + 1 ELSE 0
      /\ \A k \in 1 .. Len(s) - n + 1 : From(s, n)[k] = s[n + k - 1]
    BY <1>1, SubSeqProperties DEF From
<1>3. Len(s) - n + 1 = Len(s) - o /\ Len(From(s, n)) = Len(s) - o
    BY <1>1, <1>2
<1>4. ASSUME NEW k \in 1 .. Len(s) - o PROVE From(s, n)[k] = s[o + k]
    <2>1. k \in 1 .. Len(s) - n + 1 /\ n + k - 1 = o + k
        BY <1>1
    <2> QED BY <1>2, <2>1
<1> QED BY <1>2, <1>3, <1>4

\* What is put together, and what is its parts put together.
LEMMA JoinedIs ==
    ASSUME NEW A, NEW s \in Seq(A), NEW t \in Seq(A)
    PROVE  /\ s \o t \in Seq(A) /\ Len(s \o t) = Len(s) + Len(t)
           /\ \A k \in 1 .. Len(s) : (s \o t)[k] = s[k]
           /\ \A k \in 1 .. Len(t) : (s \o t)[Len(s) + k] = t[k]
<1>1. Len(s) \in Nat /\ Len(t) \in Nat
    BY LenProperties
<1>2. /\ s \o t \in Seq(A) /\ Len(s \o t) = Len(s) + Len(t)
      /\ \A k \in 1 .. Len(s) + Len(t) : (s \o t)[k] = IF k <= Len(s) THEN s[k] ELSE t[k - Len(s)]
    BY ConcatProperties
<1>3. ASSUME NEW k \in 1 .. Len(s) PROVE (s \o t)[k] = s[k]
    BY <1>1, <1>2
<1>4. ASSUME NEW k \in 1 .. Len(t) PROVE (s \o t)[Len(s) + k] = t[k]
    <2>1. Len(s) + k \in 1 .. Len(s) + Len(t) /\ ~(Len(s) + k <= Len(s)) /\ (Len(s) + k) - Len(s) = k
        BY <1>1
    <2> QED BY <1>2, <2>1
<1> QED BY <1>2, <1>3, <1>4

LEMMA JoinedOfThree ==
    ASSUME NEW A, NEW s \in Seq(A), NEW t \in Seq(A), NEW u \in Seq(A)
    PROVE  (s \o t) \o u = s \o (t \o u)
    BY ConcatAssociative

LEMMA IsJoined ==
    ASSUME NEW A, NEW s \in Seq(A), NEW t \in Seq(A), NEW u \in Seq(A), Len(u) = Len(s) + Len(t),
           \A k \in 1 .. Len(s) : u[k] = s[k], \A k \in 1 .. Len(t) : u[Len(s) + k] = t[k]
    PROVE  u = s \o t
<1> DEFINE j == s \o t
<1>1. /\ j \in Seq(A) /\ Len(j) = Len(s) + Len(t) /\ \A k \in 1 .. Len(s) : j[k] = s[k]
      /\ \A k \in 1 .. Len(t) : j[Len(s) + k] = t[k]
    BY JoinedIs
<1> HIDE DEF j
<1>2. Len(s) \in Nat /\ Len(t) \in Nat
    BY LenProperties
<1>3. ASSUME NEW k \in 1 .. Len(u) PROVE u[k] = j[k]
    <2>1. CASE k \in 1 .. Len(s)
        BY <1>1, <2>1
    <2>2. CASE k \notin 1 .. Len(s)
        <3>1. k - Len(s) \in 1 .. Len(t) /\ Len(s) + (k - Len(s)) = k
            BY <1>2, <2>2
        <3> QED BY <1>1, <3>1
    <2> QED BY <2>1, <2>2
<1>4. u = j
    BY <1>1, <1>3, SeqEqual
<1> QED BY <1>4 DEF j

\* A string occurs in itself and in each one it ends.
LEMMA EndsOccur ==
    ASSUME NEW A, NEW s \in Seq(A), NEW o \in 0 .. Len(s), NEW n, n = o + 1
    PROVE  strstr(s, From(s, n))
<1>1. Len(s) \in Nat /\ s \in [1 .. Len(s) -> A]
    BY LenProperties
<1>2. SubSeq(s, 1, Len(s)) = s
    BY <1>1
<1>3. s \in Prefixes(s)
    <2>1. Len(s) \in 0 .. Len(s)
        BY <1>1
    <2> QED BY <1>2, <2>1, Zenon DEF Prefixes
<1>0. /\ From(s, n) \in Seq(A) /\ Len(From(s, n)) = Len(s) - o
      /\ \A k \in 1 .. Len(s) - o : From(s, n)[k] = s[o + k]
    BY FromIs
<1> DEFINE t == From(s, n)
           m == Len(s) - o
<1>4. t \in Seq(A) /\ Len(t) = m /\ m \in 0 .. Len(s) /\ \A k \in 1 .. m : t[k] = s[o + k]
    <2>1. t \in Seq(A) /\ Len(t) = m /\ \A k \in 1 .. m : t[k] = s[o + k]
        BY <1>0
    <2>2. m \in 0 .. Len(s)
        BY <1>1
    <2> QED BY <2>1, <2>2
<1>5. /\ Reverse(t) \in Seq(A) /\ Len(Reverse(t)) = m
      /\ \A k \in 1 .. m : Reverse(t)[k] = t[m - k + 1]
    BY <1>4 DEF Reverse
<1>6. /\ Reverse(s) \in Seq(A) /\ Len(Reverse(s)) = Len(s)
      /\ \A k \in 1 .. Len(s) : Reverse(s)[k] = s[Len(s) - k + 1]
    BY <1>1 DEF Reverse
<1> HIDE DEF t
<1>7. ASSUME NEW k \in 1 .. m PROVE Reverse(t)[k] = Reverse(s)[k]
    <2>1. m - k + 1 \in 1 .. m /\ o + (m - k + 1) = Len(s) - k + 1 /\ k \in 1 .. Len(s)
        BY <1>1, <1>4
    <2>2. Reverse(t)[k] = s[Len(s) - k + 1]
        BY <1>4, <1>5, <2>1
    <2> QED BY <1>6, <2>1, <2>2
<1>8. SubSeq(Reverse(t), 1, m) = SubSeq(Reverse(s), 1, m)
    <2> DEFINE a == Reverse(t)  b == Reverse(s)
    <2>1. /\ a \in Seq(A) /\ b \in Seq(A) /\ m \in Nat /\ Len(s) \in Nat /\ m <= Len(s)
          /\ Len(a) = m /\ Len(b) = Len(s) /\ \A k \in 1 .. m : a[k] = b[k]
        BY <1>1, <1>4, <1>5, <1>6, <1>7
    <2> HIDE DEF a, b
    <2>2. \A k \in 1 .. m : a[k] \in A /\ b[k] \in A
        BY <2>1, LenProperties
    <2>3. /\ SubSeq(a, 1, m) \in Seq(A) /\ Len(SubSeq(a, 1, m)) = m
          /\ \A k \in 1 .. m : SubSeq(a, 1, m)[k] = a[k]
        BY <2>1, <2>2, SubSeqProperties
    <2>4. /\ SubSeq(b, 1, m) \in Seq(A) /\ Len(SubSeq(b, 1, m)) = m
          /\ \A k \in 1 .. m : SubSeq(b, 1, m)[k] = b[k]
        BY <2>1, <2>2, SubSeqProperties
    <2>5. SubSeq(a, 1, m) = SubSeq(b, 1, m)
        BY <2>1, <2>3, <2>4, SeqEqual
    <2> QED BY <2>5 DEF a, b
<1>9. IsSuffix(t, s)
    BY <1>4, <1>5, <1>6, <1>8 DEF IsSuffix, IsPrefix
<1> QED BY <1>3, <1>9 DEF strstr, t

LEMMA OccursInItself ==
    ASSUME NEW A, NEW s \in Seq(A)
    PROVE  strstr(s, s)
<1>1. Len(s) \in Nat /\ 0 \in 0 .. Len(s) /\ 1 = 0 + 1
    BY LenProperties
<1>2. From(s, 1) = s
    BY <1>1 DEF From
<1> QED BY <1>1, <1>2, EndsOccur

-----------------------------------------------------------------------------
\* Arrays of at least one string; and the space that is put between two.
Fields(A) == Seq(Seq(A)) \ { <<>> }
Gap == " "
\* The last field, a character longer.
Grown(f, x) == [f EXCEPT ![Len(f)] = Append(@, x)]

\* The loops of lib/str.c, one step after the other.
LEMMA ChosenIs ==
    ASSUME NEW A, NEW s \in Seq(A), NEW S
    PROVE  /\ Chosen(s, S) \in [0 .. Len(s) -> Seq(A)] /\ Chosen(s, S)[0] = <<>>
           /\ \A k \in 1 .. Len(s) : Chosen(s, S)[k] = IF s[k] \in S
                    THEN Append(Chosen(s, S)[k - 1], s[k]) ELSE Chosen(s, S)[k - 1]
<1> DEFINE Step(r, k) == IF s[k] \in S THEN Append(r, s[k]) ELSE r
           F == [q \in Seq(A) \X Nat |-> IF q[2] \in 1 .. Len(s) THEN Step(q[1], q[2]) ELSE q[1]]
<1>1. Len(s) \in Nat
    BY LenProperties
<1>2. ASSUME NEW r \in Seq(A), NEW k \in 1 .. Len(s) PROVE Step(r, k) \in Seq(A)
    BY ElementOfSeq
<1>3. <<>> \in Seq(A)
    OBVIOUS
<1> HIDE DEF Step
<1>4. F \in [Seq(A) \X Nat -> Seq(A)]
    BY <1>2
<1>5. PICK g : Along(g, Seq(A), F, <<>>, Len(s))
    <2> HIDE DEF F
    <2> QED BY <1>1, <1>3, <1>4, AlongNumbers
<1>6. /\ g \in [0 .. Len(s) -> Seq(A)] /\ g[0] = <<>>
      /\ \A k \in 1 .. Len(s) : g[k] = F[<<g[k - 1], k>>]
    BY <1>5 DEF Along
<1>7. ASSUME NEW k \in 1 .. Len(s) PROVE g[k] = Step(g[k - 1], k)
    <2>1. k - 1 \in 0 .. Len(s) /\ g[k - 1] \in Seq(A) /\ k \in Nat
        <3>1. k - 1 \in 0 .. Len(s) /\ k \in Nat
            BY <1>1
        <3>2. g \in [0 .. Len(s) -> Seq(A)]
            BY <1>6
        <3> QED BY <3>1, <3>2
    <2>2. F[<<g[k - 1], k>>] = Step(g[k - 1], k)
        BY <2>1
    <2> QED BY <1>6, <2>2
<1> HIDE DEF F
<1>8. g = [k \in 0 .. Len(s) |-> IF k = 0 THEN <<>> ELSE Step(g[k - 1], k)]
    <2>1. ASSUME NEW k \in 0 .. Len(s) PROVE g[k] = IF k = 0 THEN <<>> ELSE Step(g[k - 1], k)
        <3>1. k = 0 \/ k \in 1 .. Len(s)
            BY <1>1
        <3> QED BY <1>6, <1>7, <3>1
    <2> QED BY <1>6, <2>1
<1> DEFINE c == Chosen(s, S)
<1>9. c = [k \in 0 .. Len(s) |-> IF k = 0 THEN <<>> ELSE Step(c[k - 1], k)]
    BY <1>8, Zenon DEF Chosen, Step
<1> HIDE DEF c
<1>10. c[0] = <<>> /\ \A k \in 1 .. Len(s) : c[k] = Step(c[k - 1], k)
    <2>1. \A k \in 0 .. Len(s) : c[k] = IF k = 0 THEN <<>> ELSE Step(c[k - 1], k)
        BY <1>9, Zenon
    <2>2. 0 \in 0 .. Len(s) /\ \A k \in 1 .. Len(s) : k \in 0 .. Len(s) /\ k # 0
        BY <1>1
    <2> QED BY <2>1, <2>2, Zenon
<1>11. c \in [0 .. Len(s) -> Seq(A)]
    <2> DEFINE T == {k \in 0 .. Len(s) : c[k] \in Seq(A)}
    <2>1. 0 \in T
        <3>1. 0 \in 0 .. Len(s)
            BY <1>1
        <3>2. c[0] \in Seq(A)
            BY <1>3, <1>10, Zenon
        <3> QED BY <3>1, <3>2
    <2>2. ASSUME NEW k \in 0 .. Len(s) - 1, k \in T PROVE k + 1 \in T
        <3>1. k + 1 \in 1 .. Len(s) /\ k + 1 \in 0 .. Len(s) /\ (k + 1) - 1 = k
            BY <1>1
        <3>2. c[k + 1] = Step(c[k], k + 1)
            BY <1>10, <3>1
        <3> QED BY <1>2, <2>2, <3>1, <3>2
    <2>3. \A k \in 0 .. Len(s) : k \in T
        <3> HIDE DEF T
        <3> QED BY <1>1, <2>1, <2>2, UpTo
    <2> QED BY <1>9, <2>3
<1> QED BY <1>10, <1>11, Zenon DEF c, Step

LEMMA KeptIs ==
    ASSUME NEW A, NEW a \in Seq(A)
    PROVE  /\ Kept(a) \in [0 .. Len(a) -> Seq(A)] /\ Kept(a)[0] = <<>>
           /\ \A k \in 1 .. Len(a) : Kept(a)[k] = IF strstr_array(Kept(a)[k - 1], a[k])
                    THEN Kept(a)[k - 1] ELSE Append(Kept(a)[k - 1], a[k])
<1> DEFINE Step(r, k) == IF strstr_array(r, a[k]) THEN r ELSE Append(r, a[k])
           F == [q \in Seq(A) \X Nat |-> IF q[2] \in 1 .. Len(a) THEN Step(q[1], q[2]) ELSE q[1]]
<1>1. Len(a) \in Nat
    BY LenProperties
<1>2. ASSUME NEW r \in Seq(A), NEW k \in 1 .. Len(a) PROVE Step(r, k) \in Seq(A)
    BY ElementOfSeq
<1>3. <<>> \in Seq(A)
    OBVIOUS
<1> HIDE DEF Step
<1>4. F \in [Seq(A) \X Nat -> Seq(A)]
    BY <1>2
<1>5. PICK g : Along(g, Seq(A), F, <<>>, Len(a))
    <2> HIDE DEF F
    <2> QED BY <1>1, <1>3, <1>4, AlongNumbers
<1>6. /\ g \in [0 .. Len(a) -> Seq(A)] /\ g[0] = <<>>
      /\ \A k \in 1 .. Len(a) : g[k] = F[<<g[k - 1], k>>]
    BY <1>5 DEF Along
<1>7. ASSUME NEW k \in 1 .. Len(a) PROVE g[k] = Step(g[k - 1], k)
    <2>1. k - 1 \in 0 .. Len(a) /\ g[k - 1] \in Seq(A) /\ k \in Nat
        <3>1. k - 1 \in 0 .. Len(a) /\ k \in Nat
            BY <1>1
        <3>2. g \in [0 .. Len(a) -> Seq(A)]
            BY <1>6
        <3> QED BY <3>1, <3>2
    <2>2. F[<<g[k - 1], k>>] = Step(g[k - 1], k)
        BY <2>1
    <2> QED BY <1>6, <2>2
<1> HIDE DEF F
<1>8. g = [k \in 0 .. Len(a) |-> IF k = 0 THEN <<>> ELSE Step(g[k - 1], k)]
    <2>1. ASSUME NEW k \in 0 .. Len(a) PROVE g[k] = IF k = 0 THEN <<>> ELSE Step(g[k - 1], k)
        <3>1. k = 0 \/ k \in 1 .. Len(a)
            BY <1>1
        <3> QED BY <1>6, <1>7, <3>1
    <2> QED BY <1>6, <2>1
<1> DEFINE c == Kept(a)
<1>9. c = [k \in 0 .. Len(a) |-> IF k = 0 THEN <<>> ELSE Step(c[k - 1], k)]
    BY <1>8, Zenon DEF Kept, Step
<1> HIDE DEF c
<1>10. c[0] = <<>> /\ \A k \in 1 .. Len(a) : c[k] = Step(c[k - 1], k)
    <2>1. \A k \in 0 .. Len(a) : c[k] = IF k = 0 THEN <<>> ELSE Step(c[k - 1], k)
        BY <1>9, Zenon
    <2>2. 0 \in 0 .. Len(a) /\ \A k \in 1 .. Len(a) : k \in 0 .. Len(a) /\ k # 0
        BY <1>1
    <2> QED BY <2>1, <2>2, Zenon
<1>11. c \in [0 .. Len(a) -> Seq(A)]
    <2> DEFINE T == {k \in 0 .. Len(a) : c[k] \in Seq(A)}
    <2>1. 0 \in T
        <3>1. 0 \in 0 .. Len(a)
            BY <1>1
        <3>2. c[0] \in Seq(A)
            BY <1>3, <1>10, Zenon
        <3> QED BY <3>1, <3>2
    <2>2. ASSUME NEW k \in 0 .. Len(a) - 1, k \in T PROVE k + 1 \in T
        <3>1. k + 1 \in 1 .. Len(a) /\ k + 1 \in 0 .. Len(a) /\ (k + 1) - 1 = k
            BY <1>1
        <3>2. c[k + 1] = Step(c[k], k + 1)
            BY <1>10, <3>1
        <3> QED BY <1>2, <2>2, <3>1, <3>2
    <2>3. \A k \in 0 .. Len(a) : k \in T
        <3> HIDE DEF T
        <3> QED BY <1>1, <2>1, <2>2, UpTo
    <2> QED BY <1>9, <2>3
<1> QED BY <1>10, <1>11, Zenon DEF c, Step

LEMMA JoinsAre ==
    ASSUME NEW A, NEW a \in Seq(Seq(A)), NEW sep \in Seq(A)
    PROVE  /\ Joins(a, sep) \in [0 .. Len(a) -> Seq(A)] /\ Joins(a, sep)[0] = <<>>
           /\ \A k \in 1 .. Len(a) : Joins(a, sep)[k] = Joins(a, sep)[k - 1] \o (IF k = 1
                    THEN <<>> ELSE sep) \o a[k]
<1> DEFINE Step(r, k) == r \o (IF k = 1 THEN <<>> ELSE sep) \o a[k]
           F == [q \in Seq(A) \X Nat |-> IF q[2] \in 1 .. Len(a) THEN Step(q[1], q[2]) ELSE q[1]]
<1>1. Len(a) \in Nat
    BY LenProperties
<1>2. ASSUME NEW r \in Seq(A), NEW k \in 1 .. Len(a) PROVE Step(r, k) \in Seq(A)
    <2> DEFINE u == IF k = 1 THEN <<>> ELSE sep
    <2>1. u \in Seq(A)
        OBVIOUS
    <2>2. a[k] \in Seq(A)
        BY ElementOfSeq
    <2> HIDE DEF u
    <2>3. r \o u \in Seq(A)
        BY <2>1, JoinedIs
    <2>4. (r \o u) \o a[k] \in Seq(A)
        BY <2>2, <2>3, JoinedIs
    <2> QED BY <2>4 DEF u
<1>3. <<>> \in Seq(A)
    OBVIOUS
<1> HIDE DEF Step
<1>4. F \in [Seq(A) \X Nat -> Seq(A)]
    BY <1>2
<1>5. PICK g : Along(g, Seq(A), F, <<>>, Len(a))
    <2> HIDE DEF F
    <2> QED BY <1>1, <1>3, <1>4, AlongNumbers
<1>6. /\ g \in [0 .. Len(a) -> Seq(A)] /\ g[0] = <<>>
      /\ \A k \in 1 .. Len(a) : g[k] = F[<<g[k - 1], k>>]
    BY <1>5 DEF Along
<1>7. ASSUME NEW k \in 1 .. Len(a) PROVE g[k] = Step(g[k - 1], k)
    <2>1. k - 1 \in 0 .. Len(a) /\ g[k - 1] \in Seq(A) /\ k \in Nat
        <3>1. k - 1 \in 0 .. Len(a) /\ k \in Nat
            BY <1>1
        <3>2. g \in [0 .. Len(a) -> Seq(A)]
            BY <1>6
        <3> QED BY <3>1, <3>2
    <2>2. F[<<g[k - 1], k>>] = Step(g[k - 1], k)
        BY <2>1
    <2> QED BY <1>6, <2>2
<1> HIDE DEF F
<1>8. g = [k \in 0 .. Len(a) |-> IF k = 0 THEN <<>> ELSE Step(g[k - 1], k)]
    <2>1. ASSUME NEW k \in 0 .. Len(a) PROVE g[k] = IF k = 0 THEN <<>> ELSE Step(g[k - 1], k)
        <3>1. k = 0 \/ k \in 1 .. Len(a)
            BY <1>1
        <3> QED BY <1>6, <1>7, <3>1
    <2> QED BY <1>6, <2>1
<1> DEFINE c == Joins(a, sep)
<1>9. c = [k \in 0 .. Len(a) |-> IF k = 0 THEN <<>> ELSE Step(c[k - 1], k)]
    BY <1>8, Zenon DEF Joins, Step
<1> HIDE DEF c
<1>10. c[0] = <<>> /\ \A k \in 1 .. Len(a) : c[k] = Step(c[k - 1], k)
    <2>1. \A k \in 0 .. Len(a) : c[k] = IF k = 0 THEN <<>> ELSE Step(c[k - 1], k)
        BY <1>9, Zenon
    <2>2. 0 \in 0 .. Len(a) /\ \A k \in 1 .. Len(a) : k \in 0 .. Len(a) /\ k # 0
        BY <1>1
    <2> QED BY <2>1, <2>2, Zenon
<1>11. c \in [0 .. Len(a) -> Seq(A)]
    <2> DEFINE T == {k \in 0 .. Len(a) : c[k] \in Seq(A)}
    <2>1. 0 \in T
        <3>1. 0 \in 0 .. Len(a)
            BY <1>1
        <3>2. c[0] \in Seq(A)
            BY <1>3, <1>10, Zenon
        <3> QED BY <3>1, <3>2
    <2>2. ASSUME NEW k \in 0 .. Len(a) - 1, k \in T PROVE k + 1 \in T
        <3>1. k + 1 \in 1 .. Len(a) /\ k + 1 \in 0 .. Len(a) /\ (k + 1) - 1 = k
            BY <1>1
        <3>2. c[k + 1] = Step(c[k], k + 1)
            BY <1>10, <3>1
        <3> QED BY <1>2, <2>2, <3>1, <3>2
    <2>3. \A k \in 0 .. Len(a) : k \in T
        <3> HIDE DEF T
        <3> QED BY <1>1, <2>1, <2>2, UpTo
    <2> QED BY <1>9, <2>3
<1> QED BY <1>10, <1>11, Zenon DEF c, Step

LEMMA SplitsAre ==
    ASSUME NEW A, NEW s \in Seq(A), NEW d
    PROVE  /\ Splits(s, d) \in [0 .. Len(s) -> Fields(A)] /\ Splits(s, d)[0] = << <<>> >>
           /\ \A k \in 1 .. Len(s) : Splits(s, d)[k] = IF s[k] \in ToSet(d)
                    THEN Append(Splits(s, d)[k - 1], <<>>)
                    ELSE Grown(Splits(s, d)[k - 1], s[k])
<1> DEFINE Step(r, k) == IF s[k] \in ToSet(d) THEN Append(r, <<>>)
                    ELSE Grown(r, s[k])
           F == [q \in Fields(A) \X Nat |-> IF q[2] \in 1 .. Len(s) THEN Step(q[1], q[2])
                    ELSE q[1]]
<1>1. Len(s) \in Nat
    BY LenProperties
<1>2. ASSUME NEW r \in Fields(A), NEW k \in 1 .. Len(s) PROVE Step(r, k) \in Fields(A)
    <2>1. s[k] \in A
        BY ElementOfSeq
    <2>2. Len(r) \in Nat /\ Len(r) # 0 /\ r \in [1 .. Len(r) -> Seq(A)]
        BY LenProperties, EmptySeq DEF Fields
    <2>3. r[Len(r)] \in Seq(A) /\ Append(r[Len(r)], s[k]) \in Seq(A)
        BY <2>1, <2>2
    <2> DEFINE w == [r EXCEPT ![Len(r)] = Append(@, s[k])]
    <2>4. w \in [1 .. Len(r) -> Seq(A)]
        BY <2>2, <2>3
    <2> HIDE DEF w
    <2>5. w \in Seq(Seq(A))
        BY <2>2, <2>4, SeqDef
    <2>6. w # <<>>
        BY <2>2, <2>4, <2>5, LenProperties, EmptySeq
    <2>7. Append(r, <<>>) \in Fields(A)
        <3>1. /\ Append(r, <<>>) \in Seq(Seq(A)) /\ Len(Append(r, <<>>)) = Len(r) + 1
            BY AppendProperties DEF Fields
        <3> QED BY <2>2, <3>1, EmptySeq DEF Fields
    <2> QED BY <2>5, <2>6, <2>7 DEF Fields, w, Grown
<1>3. << <<>> >> \in Fields(A)
    BY EmptySeq DEF Fields
<1> HIDE DEF Step
<1>4. F \in [Fields(A) \X Nat -> Fields(A)]
    BY <1>2
<1>5. PICK g : Along(g, Fields(A), F, << <<>> >>, Len(s))
    <2> HIDE DEF F
    <2> QED BY <1>1, <1>3, <1>4, AlongNumbers
<1>6. /\ g \in [0 .. Len(s) -> Fields(A)] /\ g[0] = << <<>> >>
      /\ \A k \in 1 .. Len(s) : g[k] = F[<<g[k - 1], k>>]
    BY <1>5 DEF Along
<1>7. ASSUME NEW k \in 1 .. Len(s) PROVE g[k] = Step(g[k - 1], k)
    <2>1. k - 1 \in 0 .. Len(s) /\ g[k - 1] \in Fields(A) /\ k \in Nat
        <3>1. k - 1 \in 0 .. Len(s) /\ k \in Nat
            BY <1>1
        <3>2. g \in [0 .. Len(s) -> Fields(A)]
            BY <1>6
        <3> QED BY <3>1, <3>2
    <2>2. F[<<g[k - 1], k>>] = Step(g[k - 1], k)
        BY <2>1
    <2> QED BY <1>6, <2>2
<1> HIDE DEF F
<1>8. g = [k \in 0 .. Len(s) |-> IF k = 0 THEN << <<>> >> ELSE Step(g[k - 1], k)]
    <2>1. ASSUME NEW k \in 0 .. Len(s) PROVE g[k] = IF k = 0 THEN << <<>> >>
                    ELSE Step(g[k - 1], k)
        <3>1. k = 0 \/ k \in 1 .. Len(s)
            BY <1>1
        <3> QED BY <1>6, <1>7, <3>1
    <2> QED BY <1>6, <2>1
<1> DEFINE c == Splits(s, d)
<1>9. c = [k \in 0 .. Len(s) |-> IF k = 0 THEN << <<>> >> ELSE Step(c[k - 1], k)]
    BY <1>8, Zenon DEF Splits, Step, Grown
<1> HIDE DEF c
<1>10. c[0] = << <<>> >> /\ \A k \in 1 .. Len(s) : c[k] = Step(c[k - 1], k)
    <2>1. \A k \in 0 .. Len(s) : c[k] = IF k = 0 THEN << <<>> >> ELSE Step(c[k - 1], k)
        BY <1>9, Zenon
    <2>2. 0 \in 0 .. Len(s) /\ \A k \in 1 .. Len(s) : k \in 0 .. Len(s) /\ k # 0
        BY <1>1
    <2> QED BY <2>1, <2>2, Zenon
<1>11. c \in [0 .. Len(s) -> Fields(A)]
    <2> DEFINE T == {k \in 0 .. Len(s) : c[k] \in Fields(A)}
    <2>1. 0 \in T
        <3>1. 0 \in 0 .. Len(s)
            BY <1>1
        <3>2. c[0] \in Fields(A)
            BY <1>3, <1>10, Zenon
        <3> QED BY <3>1, <3>2
    <2>2. ASSUME NEW k \in 0 .. Len(s) - 1, k \in T PROVE k + 1 \in T
        <3>1. k + 1 \in 1 .. Len(s) /\ k + 1 \in 0 .. Len(s) /\ (k + 1) - 1 = k
            BY <1>1
        <3>2. c[k + 1] = Step(c[k], k + 1)
            BY <1>10, <3>1
        <3> QED BY <1>2, <2>2, <3>1, <3>2
    <2>3. \A k \in 0 .. Len(s) : k \in T
        <3> HIDE DEF T
        <3> QED BY <1>1, <2>1, <2>2, UpTo
    <2> QED BY <1>9, <2>3
<1> QED BY <1>10, <1>11, Zenon DEF c, Step

LEMMA CollapsedIs ==
    ASSUME NEW A, NEW s \in Seq(A), Blank \subseteq A
    PROVE  /\ Collapsed(s) \in [0 .. Len(s) -> Seq(A)] /\ Collapsed(s)[0] = <<>>
           /\ \A k \in 1 .. Len(s) : Collapsed(s)[k] = Collapsed(s)[k - 1] \o
                    (IF s[k] \in Blank THEN <<>> ELSE IF k > 1 /\ s[k - 1] \in Blank
                    THEN <<Gap, s[k]>> ELSE <<s[k]>>)
<1> DEFINE Step(r, k) == r \o (IF s[k] \in Blank THEN <<>> ELSE
                    IF k > 1 /\ s[k - 1] \in Blank THEN <<Gap, s[k]>> ELSE <<s[k]>>)
           F == [q \in Seq(A) \X Nat |-> IF q[2] \in 1 .. Len(s) THEN Step(q[1], q[2]) ELSE q[1]]
<1>1. Len(s) \in Nat
    BY LenProperties
<1>2. ASSUME NEW r \in Seq(A), NEW k \in 1 .. Len(s) PROVE Step(r, k) \in Seq(A)
    <2> DEFINE u == IF s[k] \in Blank THEN <<>>
                    ELSE IF k > 1 /\ s[k - 1] \in Blank THEN <<Gap, s[k]>> ELSE <<s[k]>>
    <2>1. s[k] \in A
        BY ElementOfSeq
    <2>2. Gap \in A
        BY Zenon DEF Gap, Blank
    <2>3. u \in Seq(A)
        BY <2>1, <2>2
    <2> HIDE DEF u
    <2>4. r \o u \in Seq(A)
        BY <2>3, JoinedIs
    <2> QED BY <2>4 DEF u
<1>3. <<>> \in Seq(A)
    OBVIOUS
<1> HIDE DEF Step
<1>4. F \in [Seq(A) \X Nat -> Seq(A)]
    BY <1>2
<1>5. PICK g : Along(g, Seq(A), F, <<>>, Len(s))
    <2> HIDE DEF F
    <2> QED BY <1>1, <1>3, <1>4, AlongNumbers
<1>6. /\ g \in [0 .. Len(s) -> Seq(A)] /\ g[0] = <<>>
      /\ \A k \in 1 .. Len(s) : g[k] = F[<<g[k - 1], k>>]
    BY <1>5 DEF Along
<1>7. ASSUME NEW k \in 1 .. Len(s) PROVE g[k] = Step(g[k - 1], k)
    <2>1. k - 1 \in 0 .. Len(s) /\ g[k - 1] \in Seq(A) /\ k \in Nat
        <3>1. k - 1 \in 0 .. Len(s) /\ k \in Nat
            BY <1>1
        <3>2. g \in [0 .. Len(s) -> Seq(A)]
            BY <1>6
        <3> QED BY <3>1, <3>2
    <2>2. F[<<g[k - 1], k>>] = Step(g[k - 1], k)
        BY <2>1
    <2> QED BY <1>6, <2>2
<1> HIDE DEF F
<1>8. g = [k \in 0 .. Len(s) |-> IF k = 0 THEN <<>> ELSE Step(g[k - 1], k)]
    <2>1. ASSUME NEW k \in 0 .. Len(s) PROVE g[k] = IF k = 0 THEN <<>> ELSE Step(g[k - 1], k)
        <3>1. k = 0 \/ k \in 1 .. Len(s)
            BY <1>1
        <3> QED BY <1>6, <1>7, <3>1
    <2> QED BY <1>6, <2>1
<1> DEFINE c == Collapsed(s)
<1>9. c = [k \in 0 .. Len(s) |-> IF k = 0 THEN <<>> ELSE Step(c[k - 1], k)]
    BY <1>8, Zenon DEF Collapsed, Gap, Step
<1> HIDE DEF c
<1>10. c[0] = <<>> /\ \A k \in 1 .. Len(s) : c[k] = Step(c[k - 1], k)
    <2>1. \A k \in 0 .. Len(s) : c[k] = IF k = 0 THEN <<>> ELSE Step(c[k - 1], k)
        BY <1>9, Zenon
    <2>2. 0 \in 0 .. Len(s) /\ \A k \in 1 .. Len(s) : k \in 0 .. Len(s) /\ k # 0
        BY <1>1
    <2> QED BY <2>1, <2>2, Zenon
<1>11. c \in [0 .. Len(s) -> Seq(A)]
    <2> DEFINE T == {k \in 0 .. Len(s) : c[k] \in Seq(A)}
    <2>1. 0 \in T
        <3>1. 0 \in 0 .. Len(s)
            BY <1>1
        <3>2. c[0] \in Seq(A)
            BY <1>3, <1>10, Zenon
        <3> QED BY <3>1, <3>2
    <2>2. ASSUME NEW k \in 0 .. Len(s) - 1, k \in T PROVE k + 1 \in T
        <3>1. k + 1 \in 1 .. Len(s) /\ k + 1 \in 0 .. Len(s) /\ (k + 1) - 1 = k
            BY <1>1
        <3>2. c[k + 1] = Step(c[k], k + 1)
            BY <1>10, <3>1
        <3> QED BY <1>2, <2>2, <3>1, <3>2
    <2>3. \A k \in 0 .. Len(s) : k \in T
        <3> HIDE DEF T
        <3> QED BY <1>1, <2>1, <2>2, UpTo
    <2> QED BY <1>9, <2>3
<1> QED BY <1>10, <1>11, Zenon DEF c, Step

\* A sequence without one of its elements.
LEMMA RemovedIs ==
    ASSUME NEW A, NEW s \in Seq(A), NEW p \in 1 .. Len(s)
    PROVE  /\ RemoveAt(s, p) \in Seq(A) /\ Len(RemoveAt(s, p)) = Len(s) - 1
           /\ \A k \in 1 .. p - 1 : RemoveAt(s, p)[k] = s[k]
           /\ \A k \in p .. Len(s) - 1 : RemoveAt(s, p)[k] = s[k + 1]
<1> DEFINE u == Cut(s, p - 1)
           v == From(s, p + 1)
<1>1. Len(s) \in Nat /\ p - 1 \in 0 .. Len(s) /\ p \in 0 .. Len(s) /\ p + 1 = p + 1
    BY LenProperties
<1>2. u \in Seq(A) /\ Len(u) = p - 1 /\ \A k \in 1 .. p - 1 : u[k] = s[k]
    BY <1>1, CutIs
<1>3. v \in Seq(A) /\ Len(v) = Len(s) - p /\ \A k \in 1 .. Len(s) - p : v[k] = s[p + k]
    BY <1>1, FromIs
<1>4. RemoveAt(s, p) = u \o v
    BY DEF RemoveAt, Cut, From
<1> HIDE DEF u, v
<1>5. /\ u \o v \in Seq(A) /\ Len(u \o v) = Len(u) + Len(v)
      /\ \A k \in 1 .. Len(u) : (u \o v)[k] = u[k]
      /\ \A k \in 1 .. Len(v) : (u \o v)[Len(u) + k] = v[k]
    <2>1. u \in Seq(A) /\ v \in Seq(A)
        BY <1>2, <1>3
    <2> QED BY <2>1, JoinedIs
<1> DEFINE w == u \o v
<1>6. /\ w \in Seq(A) /\ Len(w) = Len(s) - 1 /\ \A k \in 1 .. p - 1 : w[k] = s[k]
      /\ \A k \in 1 .. Len(s) - p : w[(p - 1) + k] = s[p + k]
    <2>1. (p - 1) + (Len(s) - p) = Len(s) - 1
        BY <1>1
    <2> QED BY <1>2, <1>3, <1>5, <2>1
<1> HIDE DEF w
<1>7. ASSUME NEW k \in p .. Len(s) - 1 PROVE w[k] = s[k + 1]
    <2>1. /\ k - (p - 1) \in 1 .. Len(s) - p
          /\ (p - 1) + (k - (p - 1)) = k
          /\ p + (k - (p - 1)) = k + 1
        BY <1>1
    <2> QED BY <1>6, <2>1
<1> QED BY <1>4, <1>6, <1>7 DEF w

LEMMA PlucksAre ==
    ASSUME NEW A, NEW s \in Seq(A), NEW p \in Nat \ {0}, NEW B, NEW cs \in Seq(B)
    PROVE  /\ Plucks(s, p, cs) \in [0 .. Len(cs) -> Seq(A)] /\ Plucks(s, p, cs)[0] = s
           /\ \A k \in 1 .. Len(cs) : LET r == Plucks(s, p, cs)[k - 1] IN
                 Plucks(s, p, cs)[k] = IF p <= Len(r) /\ r[p] = cs[k] THEN RemoveAt(r, p) ELSE r
<1> DEFINE Step(r, k) == IF p <= Len(r) /\ r[p] = cs[k] THEN RemoveAt(r, p) ELSE r
           F == [q \in Seq(A) \X Nat |-> IF q[2] \in 1 .. Len(cs) THEN Step(q[1], q[2]) ELSE q[1]]
<1>1. Len(cs) \in Nat
    BY LenProperties
<1>2. ASSUME NEW r \in Seq(A), NEW k \in 1 .. Len(cs) PROVE Step(r, k) \in Seq(A)
    <2>1. CASE p <= Len(r)
        <3>1. p \in 1 .. Len(r)
            BY <2>1, LenProperties
        <3> QED BY <3>1, RemovedIs
    <2> QED BY <2>1
<1>3. s \in Seq(A)
    OBVIOUS
<1> HIDE DEF Step
<1>4. F \in [Seq(A) \X Nat -> Seq(A)]
    BY <1>2
<1>5. PICK g : Along(g, Seq(A), F, s, Len(cs))
    <2> HIDE DEF F
    <2> QED BY <1>1, <1>3, <1>4, AlongNumbers
<1>6. /\ g \in [0 .. Len(cs) -> Seq(A)] /\ g[0] = s
      /\ \A k \in 1 .. Len(cs) : g[k] = F[<<g[k - 1], k>>]
    BY <1>5 DEF Along
<1>7. ASSUME NEW k \in 1 .. Len(cs) PROVE g[k] = Step(g[k - 1], k)
    <2>1. k - 1 \in 0 .. Len(cs) /\ g[k - 1] \in Seq(A) /\ k \in Nat
        <3>1. k - 1 \in 0 .. Len(cs) /\ k \in Nat
            BY <1>1
        <3>2. g \in [0 .. Len(cs) -> Seq(A)]
            BY <1>6
        <3> QED BY <3>1, <3>2
    <2>2. F[<<g[k - 1], k>>] = Step(g[k - 1], k)
        BY <2>1
    <2> QED BY <1>6, <2>2
<1> HIDE DEF F
<1>8. g = [k \in 0 .. Len(cs) |-> IF k = 0 THEN s ELSE Step(g[k - 1], k)]
    <2>1. ASSUME NEW k \in 0 .. Len(cs) PROVE g[k] = IF k = 0 THEN s ELSE Step(g[k - 1], k)
        <3>1. k = 0 \/ k \in 1 .. Len(cs)
            BY <1>1
        <3> QED BY <1>6, <1>7, <3>1
    <2> QED BY <1>6, <2>1
<1> DEFINE c == Plucks(s, p, cs)
<1>9. c = [k \in 0 .. Len(cs) |-> IF k = 0 THEN s ELSE Step(c[k - 1], k)]
    BY <1>8, Zenon DEF Plucks, Step
<1> HIDE DEF c
<1>10. c[0] = s /\ \A k \in 1 .. Len(cs) : c[k] = Step(c[k - 1], k)
    <2>1. \A k \in 0 .. Len(cs) : c[k] = IF k = 0 THEN s ELSE Step(c[k - 1], k)
        BY <1>9, Zenon
    <2>2. 0 \in 0 .. Len(cs) /\ \A k \in 1 .. Len(cs) : k \in 0 .. Len(cs) /\ k # 0
        BY <1>1
    <2> QED BY <2>1, <2>2, Zenon
<1>11. c \in [0 .. Len(cs) -> Seq(A)]
    <2> DEFINE T == {k \in 0 .. Len(cs) : c[k] \in Seq(A)}
    <2>1. 0 \in T
        <3>1. 0 \in 0 .. Len(cs)
            BY <1>1
        <3>2. c[0] \in Seq(A)
            BY <1>3, <1>10, Zenon
        <3> QED BY <3>1, <3>2
    <2>2. ASSUME NEW k \in 0 .. Len(cs) - 1, k \in T PROVE k + 1 \in T
        <3>1. k + 1 \in 1 .. Len(cs) /\ k + 1 \in 0 .. Len(cs) /\ (k + 1) - 1 = k
            BY <1>1
        <3>2. c[k + 1] = Step(c[k], k + 1)
            BY <1>10, <3>1
        <3> QED BY <1>2, <2>2, <3>1, <3>2
    <2>3. \A k \in 0 .. Len(cs) : k \in T
        <3> HIDE DEF T
        <3> QED BY <1>1, <2>1, <2>2, UpTo
    <2> QED BY <1>9, <2>3
<1> QED BY <1>10, <1>11, Zenon DEF c, Step

LEMMA DeletionsAre ==
    ASSUME NEW A, NEW s \in Seq(A), NEW B, NEW cs \in Seq(B)
    PROVE  /\ Deletions(s, cs) \in [0 .. Len(s) -> Seq(A)] /\ Deletions(s, cs)[0] = s
           /\ \A k \in 1 .. Len(s) : Deletions(s, cs)[k] = Pluck(Deletions(s, cs)[k - 1], k, cs)
<1> DEFINE Step(r, k) == Pluck(r, k, cs)
           F == [q \in Seq(A) \X Nat |-> IF q[2] \in 1 .. Len(s) THEN Step(q[1], q[2]) ELSE q[1]]
<1>1. Len(s) \in Nat
    BY LenProperties
<1>2. ASSUME NEW r \in Seq(A), NEW k \in 1 .. Len(s) PROVE Step(r, k) \in Seq(A)
    <2>1. k \in Nat \ {0} /\ Len(cs) \in Nat /\ Len(cs) \in 0 .. Len(cs)
        BY LenProperties
    <2>2. Plucks(r, k, cs) \in [0 .. Len(cs) -> Seq(A)]
        BY <2>1, PlucksAre
    <2> QED BY <2>1, <2>2 DEF Pluck
<1>3. s \in Seq(A)
    OBVIOUS
<1> HIDE DEF Step
<1>4. F \in [Seq(A) \X Nat -> Seq(A)]
    BY <1>2
<1>5. PICK g : Along(g, Seq(A), F, s, Len(s))
    <2> HIDE DEF F
    <2> QED BY <1>1, <1>3, <1>4, AlongNumbers
<1>6. /\ g \in [0 .. Len(s) -> Seq(A)] /\ g[0] = s
      /\ \A k \in 1 .. Len(s) : g[k] = F[<<g[k - 1], k>>]
    BY <1>5 DEF Along
<1>7. ASSUME NEW k \in 1 .. Len(s) PROVE g[k] = Step(g[k - 1], k)
    <2>1. k - 1 \in 0 .. Len(s) /\ g[k - 1] \in Seq(A) /\ k \in Nat
        <3>1. k - 1 \in 0 .. Len(s) /\ k \in Nat
            BY <1>1
        <3>2. g \in [0 .. Len(s) -> Seq(A)]
            BY <1>6
        <3> QED BY <3>1, <3>2
    <2>2. F[<<g[k - 1], k>>] = Step(g[k - 1], k)
        BY <2>1
    <2> QED BY <1>6, <2>2
<1> HIDE DEF F
<1>8. g = [k \in 0 .. Len(s) |-> IF k = 0 THEN s ELSE Step(g[k - 1], k)]
    <2>1. ASSUME NEW k \in 0 .. Len(s) PROVE g[k] = IF k = 0 THEN s ELSE Step(g[k - 1], k)
        <3>1. k = 0 \/ k \in 1 .. Len(s)
            BY <1>1
        <3> QED BY <1>6, <1>7, <3>1
    <2> QED BY <1>6, <2>1
<1> DEFINE c == Deletions(s, cs)
<1>9. c = [k \in 0 .. Len(s) |-> IF k = 0 THEN s ELSE Step(c[k - 1], k)]
    BY <1>8, Zenon DEF Deletions, Step
<1> HIDE DEF c
<1>10. c[0] = s /\ \A k \in 1 .. Len(s) : c[k] = Step(c[k - 1], k)
    <2>1. \A k \in 0 .. Len(s) : c[k] = IF k = 0 THEN s ELSE Step(c[k - 1], k)
        BY <1>9, Zenon
    <2>2. 0 \in 0 .. Len(s) /\ \A k \in 1 .. Len(s) : k \in 0 .. Len(s) /\ k # 0
        BY <1>1
    <2> QED BY <2>1, <2>2, Zenon
<1>11. c \in [0 .. Len(s) -> Seq(A)]
    <2> DEFINE T == {k \in 0 .. Len(s) : c[k] \in Seq(A)}
    <2>1. 0 \in T
        <3>1. 0 \in 0 .. Len(s)
            BY <1>1
        <3>2. c[0] \in Seq(A)
            BY <1>3, <1>10, Zenon
        <3> QED BY <3>1, <3>2
    <2>2. ASSUME NEW k \in 0 .. Len(s) - 1, k \in T PROVE k + 1 \in T
        <3>1. k + 1 \in 1 .. Len(s) /\ k + 1 \in 0 .. Len(s) /\ (k + 1) - 1 = k
            BY <1>1
        <3>2. c[k + 1] = Step(c[k], k + 1)
            BY <1>10, <3>1
        <3> QED BY <1>2, <2>2, <3>1, <3>2
    <2>3. \A k \in 0 .. Len(s) : k \in T
        <3> HIDE DEF T
        <3> QED BY <1>1, <2>1, <2>2, UpTo
    <2> QED BY <1>9, <2>3
<1> QED BY <1>10, <1>11, Zenon DEF c, Step

\* What is chosen from a sequence, and nothing else.
LEMMA ThoseAre ==
    ASSUME NEW A, NEW s \in Seq(A), NEW S
    PROVE  Those(s, S) \in Seq(A) /\ Range(Those(s, S)) = Range(s) \cap S
<1> DEFINE c == Chosen(s, S)
           T == {k \in 0 .. Len(s) : Range(c[k]) = {s[n] : n \in 1 .. k} \cap S}
<1>1. Len(s) \in Nat /\ \A k \in 1 .. Len(s) : s[k] \in A
    BY LenProperties, ElementOfSeq
<1>2. /\ c \in [0 .. Len(s) -> Seq(A)] /\ c[0] = <<>>
      /\ \A k \in 1 .. Len(s) : c[k] = IF s[k] \in S THEN Append(c[k - 1], s[k]) ELSE c[k - 1]
    BY ChosenIs
<1> HIDE DEF c
<1>3. 0 \in T
    <2>1. {s[n] : n \in 1 .. 0} = {} /\ Range(<<>>) = {}
        BY DEF Range
    <2>2. Range(c[0]) = {s[n] : n \in 1 .. 0} \cap S
        BY <1>2, <2>1
    <2> QED BY <1>1, <2>2
<1>4. ASSUME NEW k \in 0 .. Len(s) - 1, k \in T PROVE k + 1 \in T
    <2>1. /\ k + 1 \in 1 .. Len(s) /\ (k + 1) - 1 = k /\ k + 1 \in 0 .. Len(s) /\ k \in 0 .. Len(s)
          /\ s[k + 1] \in A
        BY <1>1
    <2>2. {s[n] : n \in 1 .. k + 1} = {s[n] : n \in 1 .. k} \cup {s[k + 1]}
        <3>1. 1 .. k + 1 = (1 .. k) \cup {k + 1}
            BY <1>1
        <3> QED BY <3>1
    <2>3. c[k] \in Seq(A) /\ Range(c[k]) = {s[n] : n \in 1 .. k} \cap S
        BY <1>2, <1>4, <2>1
    <2>4. CASE s[k + 1] \in S
        <3>1. c[k + 1] = Append(c[k], s[k + 1])
            BY <1>2, <2>1, <2>4
        <3>2. Range(c[k + 1]) = Range(c[k]) \cup {s[k + 1]}
            BY <2>1, <2>3, <3>1, AppendRange
        <3>3. Range(c[k + 1]) = {s[n] : n \in 1 .. k + 1} \cap S
            BY <2>2, <2>3, <2>4, <3>2
        <3> QED BY <2>1, <3>3
    <2>5. CASE s[k + 1] \notin S
        <3>1. c[k + 1] = c[k]
            BY <1>2, <2>1, <2>5
        <3>2. Range(c[k + 1]) = {s[n] : n \in 1 .. k + 1} \cap S
            BY <2>2, <2>3, <2>5, <3>1
        <3> QED BY <2>1, <3>2
    <2> QED BY <2>4, <2>5
<1>5. \A k \in 0 .. Len(s) : k \in T
    <2> HIDE DEF T
    <2> QED BY <1>1, <1>3, <1>4, UpTo
<1>6. Len(s) \in 0 .. Len(s) /\ Range(s) = {s[n] : n \in 1 .. Len(s)}
    BY <1>1, RangeEquality
<1> QED BY <1>2, <1>5, <1>6 DEF Those, c

\* It depends on what is in the sequence alone.
LEMMA SameAreChosen ==
    ASSUME NEW A, NEW s \in Seq(A), NEW S, NEW R, \A k \in 1 .. Len(s) : s[k] \in S <=> s[k] \in R
    PROVE  Those(s, S) = Those(s, R)
<1> DEFINE c == Chosen(s, S)
           d == Chosen(s, R)
           T == {k \in 0 .. Len(s) : c[k] = d[k]}
<1>1. Len(s) \in Nat
    BY LenProperties
<1>2. c[0] = <<>> /\ \A k \in 1 .. Len(s) : c[k] = IF s[k] \in S THEN Append(c[k - 1], s[k]) ELSE c[k - 1]
    BY ChosenIs
<1>3. d[0] = <<>> /\ \A k \in 1 .. Len(s) : d[k] = IF s[k] \in R THEN Append(d[k - 1], s[k]) ELSE d[k - 1]
    BY ChosenIs
<1> HIDE DEF c, d
<1>4. 0 \in T
    BY <1>1, <1>2, <1>3
<1>5. ASSUME NEW k \in 0 .. Len(s) - 1, k \in T PROVE k + 1 \in T
    <2>1. k + 1 \in 1 .. Len(s) /\ (k + 1) - 1 = k /\ k + 1 \in 0 .. Len(s)
        BY <1>1
    <2>2. c[k] = d[k]
        BY <1>5
    <2>3. c[k + 1] = d[k + 1]
        BY <1>2, <1>3, <2>1, <2>2
    <2> QED BY <2>1, <2>3
<1>6. \A k \in 0 .. Len(s) : k \in T
    <2> HIDE DEF T
    <2> QED BY <1>1, <1>4, <1>5, UpTo
<1>7. Len(s) \in 0 .. Len(s)
    BY <1>1
<1> QED BY <1>6, <1>7 DEF Those, c, d

\* All of it, if all are chosen.
LEMMA AllAreChosen ==
    ASSUME NEW A, NEW s \in Seq(A), NEW S, \A k \in 1 .. Len(s) : s[k] \in S
    PROVE  Those(s, S) = s
<1> DEFINE c == Chosen(s, S)
           T == {k \in 0 .. Len(s) : Len(c[k]) = k /\ \A n \in 1 .. k : c[k][n] = s[n]}
<1>1. Len(s) \in Nat /\ \A k \in 1 .. Len(s) : s[k] \in A
    BY LenProperties, ElementOfSeq
<1>2. /\ c \in [0 .. Len(s) -> Seq(A)] /\ c[0] = <<>>
      /\ \A k \in 1 .. Len(s) : c[k] = IF s[k] \in S THEN Append(c[k - 1], s[k]) ELSE c[k - 1]
    BY ChosenIs
<1> HIDE DEF c
<1>3. 0 \in T
    BY <1>1, <1>2, EmptySeq
<1>4. ASSUME NEW k \in 0 .. Len(s) - 1, k \in T PROVE k + 1 \in T
    <2>1. /\ k + 1 \in 1 .. Len(s) /\ (k + 1) - 1 = k /\ k + 1 \in 0 .. Len(s) /\ k \in 0 .. Len(s)
          /\ s[k + 1] \in A
        BY <1>1
    <2>2. c[k] \in Seq(A) /\ Len(c[k]) = k /\ \A n \in 1 .. k : c[k][n] = s[n]
        BY <1>2, <1>4, <2>1
    <2>3. c[k + 1] = Append(c[k], s[k + 1])
        BY <1>2, <2>1
    <2>4. /\ Len(c[k + 1]) = k + 1 /\ c[k + 1][k + 1] = s[k + 1]
          /\ \A n \in 1 .. k : c[k + 1][n] = c[k][n]
        BY <2>1, <2>2, <2>3, AppendRange
    <2>5. \A n \in 1 .. k + 1 : c[k + 1][n] = s[n]
        <3>1. \A n \in 1 .. k + 1 : n \in 1 .. k \/ n = k + 1
            BY <1>1
        <3> QED BY <2>2, <2>4, <3>1
    <2> QED BY <2>1, <2>4, <2>5
<1>5. \A k \in 0 .. Len(s) : k \in T
    <2> HIDE DEF T
    <2> QED BY <1>1, <1>3, <1>4, UpTo
<1>6. Len(s) \in 0 .. Len(s) /\ c[Len(s)] \in Seq(A)
    BY <1>1, <1>2
<1>7. Len(c[Len(s)]) = Len(s) /\ \A n \in 1 .. Len(s) : c[Len(s)][n] = s[n]
    BY <1>5, <1>6
<1>8. c[Len(s)] = s
    <2> DEFINE e == c[Len(s)]
    <2>1. e \in Seq(A) /\ Len(e) = Len(s) /\ \A n \in 1 .. Len(e) : e[n] = s[n]
        BY <1>6, <1>7
    <2> HIDE DEF e
    <2>2. e = s
        BY <2>1, SeqEqual
    <2> QED BY <2>2 DEF e
<1> QED BY <1>8 DEF Those, c

\* One that was not chosen is not missed.
LEMMA RemovedUnchosen ==
    ASSUME NEW A, NEW s \in Seq(A), NEW S, NEW p \in 1 .. Len(s), s[p] \notin S
    PROVE  Those(RemoveAt(s, p), S) = Those(s, S)
<1> DEFINE r == RemoveAt(s, p)
           c == Chosen(s, S)
           d == Chosen(r, S)
           T == {k \in 0 .. Len(s) - 1 : d[k] = IF k < p THEN c[k] ELSE c[k + 1]}
<1>1. Len(s) \in Nat /\ Len(s) - 1 \in Nat
    BY LenProperties
<1>2. /\ r \in Seq(A) /\ Len(r) = Len(s) - 1
      /\ \A k \in 1 .. p - 1 : r[k] = s[k]
      /\ \A k \in p .. Len(s) - 1 : r[k] = s[k + 1]
    BY RemovedIs
<1> HIDE DEF r
<1>3. c[0] = <<>> /\ \A k \in 1 .. Len(s) : c[k] = IF s[k] \in S THEN Append(c[k - 1], s[k]) ELSE c[k - 1]
    BY ChosenIs
<1>4. d[0] = <<>> /\ \A k \in 1 .. Len(s) - 1 : d[k] = IF r[k] \in S THEN Append(d[k - 1], r[k]) ELSE d[k - 1]
    BY <1>2, ChosenIs, SMTT(40)
<1> HIDE DEF c, d
<1>5. c[p] = c[p - 1]
    BY <1>3
<1>6. 0 \in T
    BY <1>1, <1>3, <1>4
<1>7. ASSUME NEW k \in 0 .. (Len(s) - 1) - 1, k \in T PROVE k + 1 \in T
    <2>1. /\ k + 1 \in 1 .. Len(s) - 1 /\ (k + 1) - 1 = k /\ k + 1 \in 0 .. Len(s) - 1
          /\ k + 1 \in 1 .. Len(s) /\ (k + 1) + 1 \in 1 .. Len(s) /\ ((k + 1) + 1) - 1 = k + 1
        BY <1>1
    <2>2. d[k] = IF k < p THEN c[k] ELSE c[k + 1]
        BY <1>7
    <2>3. CASE k + 1 < p
        <3>1. k < p /\ k + 1 \in 1 .. p - 1
            BY <2>1, <2>3
        <3> QED BY <1>2, <1>3, <1>4, <2>1, <2>2, <2>3, <3>1
    <2>4. CASE ~(k + 1 < p)
        <3>1. k + 1 \in p .. Len(s) - 1
            BY <2>1, <2>4
        <3>2. d[k] = c[k + 1]
            <4>1. CASE k < p
                <5>1. k + 1 = p
                    BY <2>4, <4>1
                <5> QED BY <1>5, <2>1, <2>2, <4>1, <5>1
            <4>2. CASE ~(k < p)
                BY <2>2, <4>2
            <4> QED BY <4>1, <4>2
        <3>3. r[k + 1] = s[(k + 1) + 1]
            BY <1>2, <3>1
        <3>4. d[k + 1] = c[(k + 1) + 1]
            BY <1>3, <1>4, <2>1, <3>2, <3>3
        <3> QED BY <2>1, <2>4, <3>4
    <2> QED BY <2>3, <2>4
<1>8. \A k \in 0 .. Len(s) - 1 : k \in T
    <2> HIDE DEF T
    <2> QED BY <1>1, <1>6, <1>7, UpTo
<1>9. d[Len(s) - 1] = c[Len(s)]
    <2>1. /\ Len(s) - 1 \in 0 .. Len(s) - 1 /\ (Len(s) - 1) + 1 = Len(s)
          /\ Len(s) - 1 < p => p = Len(s)
        BY <1>1
    <2> QED BY <1>5, <1>8, <2>1
<1> QED BY <1>2, <1>9 DEF Those, c, d, r

\* An array and one string more.
LEMMA OneMoreString ==
    ASSUME NEW A, NEW r \in Seq(A), NEW e \in A
    PROVE  /\ \A t : strstr_array(Append(r, e), t) <=> strstr_array(r, t) \/ strstr(e, t)
           /\ \A n \in 0 .. Len(r) : Cut(Append(r, e), n) = Cut(r, n)
           /\ Cut(r, Len(r)) = r
<1> DEFINE w == Append(r, e)
<1>1. Len(r) \in Nat /\ DOMAIN r = 1 .. Len(r)
    BY LenProperties
<1>2. w \in Seq(A) /\ Len(w) = Len(r) + 1 /\ w[Len(r) + 1] = e /\ \A n \in 1 .. Len(r) : w[n] = r[n]
    BY AppendRange
<1> HIDE DEF w
<1>3. DOMAIN w = (1 .. Len(r)) \cup {Len(r) + 1}
    <2>1. DOMAIN w = 1 .. Len(r) + 1
        BY <1>2, LenProperties
    <2> QED BY <1>1, <2>1
<1>4. ASSUME NEW t PROVE strstr_array(w, t) <=> strstr_array(r, t) \/ strstr(e, t)
    BY <1>1, <1>2, <1>3 DEF strstr_array
<1>5. ASSUME NEW n \in 0 .. Len(r) PROVE Cut(w, n) = Cut(r, n)
    <2>1. n \in 0 .. Len(w) /\ \A k \in 1 .. n : w[k] = r[k]
        BY <1>1, <1>2
    <2>2. Cut(r, n) \in Seq(A) /\ Len(Cut(r, n)) = n /\ \A k \in 1 .. n : Cut(r, n)[k] = r[k]
        BY CutIs
    <2>3. Cut(w, n) \in Seq(A) /\ Len(Cut(w, n)) = n /\ \A k \in 1 .. n : Cut(w, n)[k] = w[k]
        BY <1>2, <2>1, CutIs
    <2> DEFINE u == Cut(w, n)  v == Cut(r, n)
    <2>4. u \in Seq(A) /\ v \in Seq(A) /\ Len(u) = n /\ Len(v) = n /\ \A k \in 1 .. n : u[k] = v[k]
        BY <2>1, <2>2, <2>3
    <2> HIDE DEF u, v
    <2>5. u = v
        BY <2>4, SeqEqual
    <2> QED BY <2>5 DEF u, v
<1>6. Cut(r, Len(r)) = r
    BY <1>1 DEF Cut
<1> QED BY <1>4, <1>5, <1>6 DEF w

\* strdeldup drops what is contained in what it keeps, and nothing else.
LEMMA DedupIs ==
    ASSUME NEW A, NEW a \in Seq(Seq(A))
    PROVE  LET left == strdeldup(a) IN
           /\ left \in Seq(Seq(A))
           /\ \A k \in DOMAIN a : strstr_array(left, a[k])
           /\ \A j \in DOMAIN left : ~strstr_array(Cut(left, j - 1), left[j])
<1> DEFINE c == Kept(a)
           None(r) == \A j \in 1 .. Len(r) : ~strstr_array(Cut(r, j - 1), r[j])
           T == {k \in 0 .. Len(a) : None(c[k]) /\ \A n \in 1 .. k : strstr_array(c[k], a[n])}
<1>1. Len(a) \in Nat /\ DOMAIN a = 1 .. Len(a) /\ \A k \in 1 .. Len(a) : a[k] \in Seq(A)
    BY LenProperties, ElementOfSeq
<1>2. /\ c \in [0 .. Len(a) -> Seq(Seq(A))] /\ c[0] = <<>>
      /\ \A k \in 1 .. Len(a) : c[k] = IF strstr_array(c[k - 1], a[k]) THEN c[k - 1] ELSE Append(c[k - 1], a[k])
    BY KeptIs
<1> HIDE DEF c
<1>3. 0 \in T
    <2>1. Len(<<>>) = 0 /\ 0 \in 0 .. Len(a) /\ 1 .. 0 = {}
        BY <1>1
    <2> QED BY <1>2, <2>1
<1>4. ASSUME NEW k \in 0 .. Len(a) - 1, k \in T PROVE k + 1 \in T
    <2> DEFINE r == c[k]  e == a[k + 1]
    <2>1. /\ k + 1 \in 1 .. Len(a) /\ (k + 1) - 1 = k /\ k + 1 \in 0 .. Len(a) /\ k \in 0 .. Len(a)
          /\ \A n \in 1 .. k + 1 : n \in 1 .. k \/ n = k + 1
        BY <1>1
    <2>2. r \in Seq(Seq(A)) /\ e \in Seq(A) /\ None(r) /\ \A n \in 1 .. k : strstr_array(r, a[n])
        BY <1>1, <1>2, <1>4, <2>1
    <2>3. c[k + 1] = IF strstr_array(r, e) THEN r ELSE Append(r, e)
        BY <1>2, <2>1
    <2>4. CASE strstr_array(r, e)
        <3>1. \A n \in 1 .. k + 1 : strstr_array(r, a[n])
            BY <2>1, <2>2, <2>4
        <3> HIDE DEF r, e, None
        <3> QED BY <2>1, <2>2, <2>3, <2>4, <3>1
    <2>5. CASE ~strstr_array(r, e)
        <3> DEFINE w == Append(r, e)
        <3> HIDE DEF r, e
        <3>1. /\ \A t : strstr_array(w, t) <=> strstr_array(r, t) \/ strstr(e, t)
              /\ \A n \in 0 .. Len(r) : Cut(w, n) = Cut(r, n)
              /\ Cut(r, Len(r)) = r
            BY <2>2, OneMoreString
        <3>2. Len(w) = Len(r) + 1 /\ w[Len(r) + 1] = e /\ \A n \in 1 .. Len(r) : w[n] = r[n]
            BY <2>2, AppendRange
        <3>3. Len(r) \in Nat /\ strstr(e, e)
            BY <2>2, LenProperties, OccursInItself
        <3> HIDE DEF w
        <3>4. \A n \in 1 .. k + 1 : strstr_array(w, a[n])
            BY <2>1, <2>2, <3>1, <3>3 DEF e
        <3>5. None(w)
            <4> SUFFICES ASSUME NEW j \in 1 .. Len(w) PROVE ~strstr_array(Cut(w, j - 1), w[j])
                OBVIOUS
            <4>1. CASE j \in 1 .. Len(r)
                <5>1. j - 1 \in 0 .. Len(r)
                    BY <3>3, <4>1
                <5> QED BY <2>2, <3>1, <3>2, <4>1, <5>1
            <4>2. CASE j = Len(r) + 1
                <5>1. j - 1 = Len(r) /\ Len(r) \in 0 .. Len(r)
                    BY <3>3, <4>2
                <5>2. Cut(w, j - 1) = r /\ w[j] = e
                    BY <3>1, <3>2, <4>2, <5>1
                <5> QED BY <2>5, <5>2
            <4> QED BY <3>2, <3>3, <4>1, <4>2
        <3>6. c[k + 1] = w
            BY <2>3, <2>5 DEF w
        <3> HIDE DEF None
        <3> QED BY <2>1, <3>4, <3>5, <3>6
    <2> QED BY <2>4, <2>5
<1>5. \A k \in 0 .. Len(a) : k \in T
    <2> HIDE DEF T
    <2> QED BY <1>1, <1>3, <1>4, UpTo
<1>6. Len(a) \in 0 .. Len(a)
    BY <1>1
<1>7. c[Len(a)] \in Seq(Seq(A)) /\ None(c[Len(a)]) /\ \A n \in 1 .. Len(a) : strstr_array(c[Len(a)], a[n])
    BY <1>2, <1>5, <1>6
<1>8. DOMAIN c[Len(a)] = 1 .. Len(c[Len(a)])
    BY <1>7, LenProperties
<1> QED BY <1>1, <1>7, <1>8 DEF strdeldup, c

\* What strchrdel leaves at one position.
Plucked(u, s, p, A, R) ==
    /\ u \in Seq(A) /\ Len(u) <= Len(s) /\ Those(u, A \ R) = Those(s, A \ R)
    /\ (p <= Len(s) => s[p] \notin R) => u = s
    /\ p <= Len(s) /\ s[p] \in R /\ (p + 1 <= Len(s) => s[p + 1] \notin R) => u = RemoveAt(s, p)

\* strchrdel at one position: where the next character is not to be deleted, at most the
\* one that is there goes.
LEMMA PluckIs ==
    ASSUME NEW A, NEW s \in Seq(A), NEW p \in Nat \ {0}, NEW B, NEW cs \in Seq(B)
    PROVE  Plucked(Pluck(s, p, cs), s, p, A, Range(cs))
<1> DEFINE q == Plucks(s, p, cs)
           R == Range(cs)
           O == A \ R
           w == RemoveAt(s, p)
           T == {k \in 0 .. Len(cs) : Those(q[k], O) = Those(s, O) /\ Len(q[k]) <= Len(s)}
           U == {k \in 0 .. Len(cs) : q[k] = s}
           V == {k \in 0 .. Len(cs) : q[k] = IF \E n \in 1 .. k : cs[n] = s[p] THEN w ELSE s}
<1>1. Len(cs) \in Nat /\ Len(s) \in Nat /\ R = {cs[n] : n \in 1 .. Len(cs)}
    BY LenProperties, RangeEquality
<1>2. /\ q \in [0 .. Len(cs) -> Seq(A)] /\ q[0] = s
      /\ \A k \in 1 .. Len(cs) : q[k] = IF p <= Len(q[k - 1]) /\ q[k - 1][p] = cs[k]
                                        THEN RemoveAt(q[k - 1], p) ELSE q[k - 1]
    BY PlucksAre
<1> HIDE DEF q, R, w
<1>3. \A k \in 1 .. Len(cs) : cs[k] \in R
    BY <1>1
<1>4. ASSUME NEW k \in 0 .. Len(cs) - 1
      PROVE  /\ k + 1 \in 1 .. Len(cs) /\ k + 1 \in 0 .. Len(cs) /\ k \in 0 .. Len(cs)
             /\ q[k + 1] = IF p <= Len(q[k]) /\ q[k][p] = cs[k + 1] THEN RemoveAt(q[k], p) ELSE q[k]
             /\ cs[k + 1] \in R
    <2>1. k + 1 \in 1 .. Len(cs) /\ (k + 1) - 1 = k /\ k + 1 \in 0 .. Len(cs) /\ k \in 0 .. Len(cs)
        BY <1>1
    <2> QED BY <1>2, <1>3, <2>1
<1>5. 0 \in 0 .. Len(cs) /\ Len(cs) \in 0 .. Len(cs) /\ 1 .. 0 = {}
    BY <1>1
<1>6. 0 \in T /\ 0 \in U /\ 0 \in V
    BY <1>1, <1>2, <1>5
<1>7. ASSUME NEW k \in 0 .. Len(cs) - 1, k \in T PROVE k + 1 \in T
    <2> DEFINE r == q[k]
    <2>1. r \in Seq(A) /\ Those(r, O) = Those(s, O) /\ Len(r) <= Len(s) /\ Len(r) \in Nat
        BY <1>2, <1>4, <1>7, LenProperties
    <2>2. q[k + 1] = IF p <= Len(r) /\ r[p] = cs[k + 1] THEN RemoveAt(r, p) ELSE r
        BY <1>4
    <2> HIDE DEF r, O
    <2>3. CASE p <= Len(r) /\ r[p] = cs[k + 1]
        <3>1. p \in 1 .. Len(r)
            BY <2>1, <2>3
        <3>0. r[p] \notin O
            <4>1. cs[k + 1] \in R
                BY <1>4
            <4> QED BY <2>3, <4>1, Zenon DEF O
        <3>2. Those(RemoveAt(r, p), O) = Those(r, O) /\ Len(RemoveAt(r, p)) = Len(r) - 1
            BY <2>1, <3>0, <3>1, RemovedUnchosen, RemovedIs
        <3>3. Len(r) - 1 <= Len(s)
            BY <1>1, <2>1
        <3> QED BY <1>4, <2>1, <2>2, <2>3, <3>2, <3>3
    <2>4. CASE ~(p <= Len(r) /\ r[p] = cs[k + 1])
        BY <1>4, <2>1, <2>2, <2>4
    <2> QED BY <2>3, <2>4
<1>8. \A k \in 0 .. Len(cs) : k \in T
    <2> HIDE DEF T
    <2> QED BY <1>1, <1>6, <1>7, UpTo
<1>9. ASSUME p <= Len(s) => s[p] \notin R PROVE q[Len(cs)] = s
    <2>1. ASSUME NEW k \in 0 .. Len(cs) - 1, k \in U PROVE k + 1 \in U
        BY <1>4, <1>9, <2>1
    <2>2. \A k \in 0 .. Len(cs) : k \in U
        <3> HIDE DEF U
        <3> QED BY <1>1, <1>6, <2>1, UpTo
    <2> QED BY <1>5, <2>2
<1>10. ASSUME p <= Len(s), s[p] \in R, p + 1 <= Len(s) => s[p + 1] \notin R PROVE q[Len(cs)] = w
    <2>1. p \in 1 .. Len(s)
        BY <1>10
    <2>2. w \in Seq(A) /\ Len(w) = Len(s) - 1 /\ \A k \in p .. Len(s) - 1 : w[k] = s[k + 1]
        BY <2>1, RemovedIs DEF w
    <2>3. p <= Len(w) => w[p] \notin R
        <3>1. p <= Len(w) => p \in p .. Len(s) - 1 /\ p + 1 <= Len(s)
            BY <1>1, <2>2
        <3> QED BY <1>10, <2>2, <3>1
    <2>4. ASSUME NEW k \in 0 .. Len(cs) - 1, k \in V PROVE k + 1 \in V
        <3>1. q[k] = IF \E n \in 1 .. k : cs[n] = s[p] THEN w ELSE s
            BY <2>4
        <3>2. \A n : n \in 1 .. k + 1 <=> n \in 1 .. k \/ n = k + 1
            BY <1>1
        <3>3. CASE \E n \in 1 .. k : cs[n] = s[p]
            <4>1. q[k] = w
                BY <3>1, <3>3
            <4>2. q[k + 1] = w
                BY <1>4, <2>3, <4>1
            <4> QED BY <1>4, <3>2, <3>3, <4>2
        <3>4. CASE ~\E n \in 1 .. k : cs[n] = s[p]
            <4>1. q[k] = s
                BY <3>1, <3>4
            <4>2. q[k + 1] = IF s[p] = cs[k + 1] THEN w ELSE s
                BY <1>4, <1>10, <4>1 DEF w
            <4> QED BY <1>4, <3>2, <3>4, <4>2
        <3> QED BY <3>3, <3>4
    <2>5. \A k \in 0 .. Len(cs) : k \in V
        <3> HIDE DEF V
        <3> QED BY <1>1, <1>6, <2>4, UpTo
    <2> QED BY <1>1, <1>5, <1>10, <2>5
<1>11. q[Len(cs)] \in Seq(A) /\ Those(q[Len(cs)], O) = Those(s, O) /\ Len(q[Len(cs)]) <= Len(s)
    BY <1>2, <1>5, <1>8
<1>12. Pluck(s, p, cs) = q[Len(cs)]
    BY Zenon DEF Pluck, q
<1> QED BY <1>9, <1>10, <1>11, <1>12, Zenon DEF Plucked, R, O, w

\* strchrdel: what is left has the other characters, and those alone where no two of the
\* deleted kind were neighbours.
LEMMA DeletedIs ==
    ASSUME NEW A, NEW s \in Seq(A), NEW B, NEW cs \in Seq(B)
    PROVE  LET left == strchrdel(s, cs)  Others(t) == Those(t, Range(t) \ Range(cs)) IN
           /\ left \in Seq(A)
           /\ Others(left) = Others(s)
           /\ (\A k \in 1 .. Len(s) - 1 : s[k] \in Range(cs) => s[k + 1] \notin Range(cs))
                  => left = Others(s)
<1> DEFINE c == Deletions(s, cs)
           R == Range(cs)
           O == A \ R
           Apart == \A k \in 1 .. Len(s) - 1 : s[k] \in R => s[k + 1] \notin R
           Gone(r, p) == /\ \A k \in 1 .. p : k <= Len(r) => r[k] \notin R
                         /\ \A k \in p + 1 .. Len(r) - 1 : r[k] \in R => r[k + 1] \notin R
           T == {p \in 0 .. Len(s) : Those(c[p], O) = Those(s, O) /\ Len(c[p]) <= Len(s)
                                     /\ (Apart => Gone(c[p], p))}
<1>1. Len(s) \in Nat
    BY LenProperties
<1>2. c \in [0 .. Len(s) -> Seq(A)] /\ c[0] = s /\ \A k \in 1 .. Len(s) : c[k] = Pluck(c[k - 1], k, cs)
    BY DeletionsAre
<1>3. ASSUME NEW t \in Seq(A) PROVE Those(t, Range(t) \ R) = Those(t, O)
    <2>1. \A k \in 1 .. Len(t) : t[k] \in A /\ t[k] \in Range(t)
        BY LenProperties, ElementOfSeq DEF Range
    <2> HIDE DEF R
    <2>2. \A k \in 1 .. Len(t) : t[k] \in Range(t) \ R <=> t[k] \in O
        BY <2>1
    <2> HIDE DEF O
    <2> QED BY <2>2, SameAreChosen
<1>4. ASSUME NEW r \in Seq(A), NEW p \in Nat \ {0}
      PROVE  /\ Len(Pluck(r, p, cs)) <= Len(r) /\ Those(Pluck(r, p, cs), O) = Those(r, O)
             /\ (p <= Len(r) => r[p] \notin R) => Pluck(r, p, cs) = r
             /\ p <= Len(r) /\ r[p] \in R /\ (p + 1 <= Len(r) => r[p + 1] \notin R)
                    => Pluck(r, p, cs) = RemoveAt(r, p)
    <2>1. Plucked(Pluck(r, p, cs), r, p, A, R)
        BY PluckIs
    <2> QED BY <2>1, Zenon DEF Plucked
<1> HIDE DEF c, R, O, Apart
<1>5. 0 \in T
    <2>1. 1 .. 0 = {} /\ 0 + 1 = 1 /\ 0 \in 0 .. Len(s)
        BY <1>1
    <2> QED BY <1>1, <1>2, <2>1 DEF Apart
<1>6. ASSUME NEW n \in 0 .. Len(s) - 1, n \in T PROVE n + 1 \in T
    <2> DEFINE r == c[n]  p == n + 1  u == Pluck(r, p, cs)
    <2>1. p \in 1 .. Len(s) /\ p - 1 = n /\ p \in 0 .. Len(s) /\ n \in 0 .. Len(s) /\ n \in Nat /\ p \in Nat \ {0}
        BY <1>1
    <2>2. /\ r \in Seq(A) /\ Those(r, O) = Those(s, O) /\ Len(r) <= Len(s) /\ Len(r) \in Nat
          /\ Apart => Gone(r, n)
        BY <1>2, <1>6, <2>1, LenProperties
    <2>3. c[p] = u
        BY <1>2, <2>1
    <2> HIDE DEF r
    <2>4. /\ Len(u) <= Len(r) /\ Those(u, O) = Those(r, O)
          /\ (p <= Len(r) => r[p] \notin R) => u = r
          /\ p <= Len(r) /\ r[p] \in R /\ (p + 1 <= Len(r) => r[p + 1] \notin R) => u = RemoveAt(r, p)
        BY <1>4, <2>1, <2>2
    <2>5. Len(u) <= Len(s)
        <3>1. Len(u) \in Nat
            BY <1>2, <2>1, <2>3, LenProperties
        <3> QED BY <1>1, <2>2, <2>4, <3>1
    <2> HIDE DEF u
    <2>6. ASSUME Apart PROVE Gone(u, p)
        <3>1. /\ \A k \in 1 .. n : k <= Len(r) => r[k] \notin R
              /\ \A k \in p .. Len(r) - 1 : r[k] \in R => r[k + 1] \notin R
            BY <2>2, <2>6
        <3>2. CASE p <= Len(r) /\ r[p] \in R
            <4>1. p \in 1 .. Len(r) /\ (p + 1 <= Len(r) => p \in p .. Len(r) - 1)
                BY <2>1, <2>2, <3>2
            <4>2. u = RemoveAt(r, p)
                BY <2>4, <3>1, <3>2, <4>1
            <4>3. /\ Len(u) = Len(r) - 1
                  /\ \A k \in 1 .. p - 1 : u[k] = r[k]
                  /\ \A k \in p .. Len(r) - 1 : u[k] = r[k + 1]
                BY <2>2, <4>1, <4>2, RemovedIs
            <4>4. ASSUME NEW k \in 1 .. p, k <= Len(u) PROVE u[k] \notin R
                <5>1. CASE k \in 1 .. n
                    BY <2>1, <2>2, <3>1, <4>3, <4>4, <5>1
                <5>2. CASE k = p
                    <6>1. p \in p .. Len(r) - 1
                        BY <2>1, <2>2, <4>3, <4>4, <5>2
                    <6> QED BY <3>1, <3>2, <4>3, <5>2, <6>1
                <5> QED BY <2>1, <5>1, <5>2
            <4>5. ASSUME NEW k \in p + 1 .. Len(u) - 1, u[k] \in R PROVE u[k + 1] \notin R
                <5>1. k \in p .. Len(r) - 1 /\ k + 1 \in p .. Len(r) - 1
                    BY <2>1, <2>2, <4>3
                <5> QED BY <3>1, <4>3, <4>5, <5>1
            <4> QED BY <4>4, <4>5
        <3>3. CASE ~(p <= Len(r) /\ r[p] \in R)
            <4>1. u = r
                BY <2>4, <3>3
            <4>2. ASSUME NEW k \in 1 .. p, k <= Len(r) PROVE r[k] \notin R
                <5>1. k \in 1 .. n \/ k = p
                    BY <2>1
                <5> QED BY <3>1, <3>3, <4>2, <5>1
            <4>3. ASSUME NEW k \in p + 1 .. Len(r) - 1 PROVE k \in p .. Len(r) - 1
                BY <2>1, <2>2
            <4> QED BY <3>1, <4>1, <4>2, <4>3
        <3> QED BY <3>2, <3>3
    <2> HIDE DEF Gone
    <2> QED BY <2>1, <2>2, <2>3, <2>4, <2>5, <2>6
<1>7. \A n \in 0 .. Len(s) : n \in T
    <2> HIDE DEF T
    <2> QED BY <1>1, <1>5, <1>6, UpTo
<1> DEFINE left == c[Len(s)]
<1>8. /\ left \in Seq(A) /\ Those(left, O) = Those(s, O) /\ Len(left) <= Len(s)
      /\ Apart => Gone(left, Len(s))
    BY <1>1, <1>2, <1>7
<1>9. strchrdel(s, cs) = left
    BY DEF strchrdel, c
<1> HIDE DEF left
<1>10. ASSUME Apart PROVE left = Those(s, O)
    <2>1. \A k \in 1 .. Len(left) : left[k] \in A /\ left[k] \notin R
        <3>1. \A k \in 1 .. Len(left) : k \in 1 .. Len(s) /\ left[k] \in A
            BY <1>1, <1>8, LenProperties, ElementOfSeq
        <3> QED BY <1>8, <1>10, <3>1
    <2>2. \A k \in 1 .. Len(left) : left[k] \in O
        BY <2>1 DEF O
    <2>3. Those(left, O) = left
        BY <1>8, <2>2, AllAreChosen
    <2> QED BY <1>8, <2>3
<1>11. Those(left, Range(left) \ R) = Those(s, Range(s) \ R)
    BY <1>3, <1>8
<1>12. Those(s, Range(s) \ R) = Those(s, O)
    BY <1>3
<1> QED BY <1>8, <1>9, <1>10, <1>11, <1>12 DEF Apart, R

-----------------------------------------------------------------------------
\* The string functions give strings over the same characters.
LEMMA FirstOfIs ==
    ASSUME NEW A, NEW s \in Seq(A), NEW C
    PROVE  /\ FirstOf(s, C) \in 1 .. Len(s) + 1
           /\ \A n \in 1 .. FirstOf(s, C) - 1 : s[n] \notin C
           /\ FirstOf(s, C) <= Len(s) => s[FirstOf(s, C)] \in C
<1> DEFINE S == {n \in DOMAIN s : s[n] \in C} \cup {Len(s) + 1}
<1>1. Len(s) \in Nat /\ DOMAIN s = 1 .. Len(s)
    BY LenProperties
<1>2. S \in SUBSET Nat /\ S # {} /\ S \subseteq 1 .. Len(s) + 1
    BY <1>1
<1>3. \A n \in 1 .. Len(s) : n \in S <=> s[n] \in C
    BY <1>1
<1> HIDE DEF S
<1>4. Min(S) \in S /\ \A n \in S : Min(S) <= n
    BY <1>2, MinIs
<1>5. FirstOf(s, C) = Min(S)
    BY DEF FirstOf, S
<1> DEFINE m == Min(S)
<1>6. m \in 1 .. Len(s) + 1 /\ m \in S /\ \A n \in S : m <= n
    BY <1>2, <1>4
<1> HIDE DEF m
<1>7. \A n \in 1 .. m - 1 : n \in 1 .. Len(s) /\ ~(m <= n)
    BY <1>1, <1>6
<1>8. m <= Len(s) => m \in 1 .. Len(s)
    BY <1>1, <1>6
<1>9. /\ m \in 1 .. Len(s) + 1 /\ \A n \in 1 .. m - 1 : s[n] \notin C
      /\ m <= Len(s) => s[m] \in C
    BY <1>3, <1>6, <1>7, <1>8
<1> QED BY <1>5, <1>9 DEF m

LEMMA LstripType ==
    ASSUME NEW A, NEW s \in Seq(A), NEW C
    PROVE  From(s, FirstOf(s, C)) \in Seq(A)
<1> DEFINE m == FirstOf(s, C)
<1>1. m \in 1 .. Len(s) + 1
    BY FirstOfIs
<1> HIDE DEF m
<1>2. Len(s) \in Nat
    BY LenProperties
<1>3. m - 1 \in 0 .. Len(s) /\ m = (m - 1) + 1
    BY <1>1, <1>2
<1>4. From(s, m) \in Seq(A)
    BY <1>3, FromIs
<1> QED BY <1>4 DEF m

LEMMA StripType ==
    ASSUME NEW A, NEW s \in Seq(A)
    PROVE  strip(s) \in Seq(A)
<1> DEFINE S == {n \in DOMAIN s : s[n] \notin Space \/ n = 1} \cup {0}
<1>1. Len(s) \in Nat /\ DOMAIN s = 1 .. Len(s)
    BY LenProperties
<1>2. S \in SUBSET Nat /\ S # {} /\ S \subseteq 0 .. Len(s) /\ \A n \in S : n <= Len(s)
    BY <1>1
<1> HIDE DEF S
<1>3. Max(S) \in 0 .. Len(s)
    BY <1>1, <1>2, MaxIs
<1>4. Cut(s, Max(S)) \in Seq(A)
    BY <1>3, CutIs
<1>5. <<>> \in Seq(A)
    OBVIOUS
<1>6. strip(s) = <<>> \/ strip(s) = Cut(s, Max(S))
    BY Zenon DEF strip, S
<1> QED BY <1>4, <1>5, <1>6

LEMMA SuffixType ==
    ASSUME NEW A, NEW s \in Seq(A), NEW B, NEW t \in Seq(B)
    PROVE  strdelsuffix(s, t) \in Seq(A)
<1>1. Len(s) \in Nat /\ Len(t) \in Nat
    BY LenProperties
<1>2. CASE endswith(s, t)
    <2>1. Len(t) <= Len(s)
        <3>1. Len(Reverse(s)) = Len(s) /\ Len(Reverse(t)) = Len(t)
            BY <1>1 DEF Reverse
        <3> QED BY <1>2, <3>1, Zenon DEF endswith, IsSuffix, IsPrefix
    <2>2. Len(s) - Len(t) \in 0 .. Len(s)
        BY <1>1, <2>1
    <2>3. Cut(s, Len(s) - Len(t)) \in Seq(A)
        BY <2>2, CutIs
    <2>4. strip(Cut(s, Len(s) - Len(t))) \in Seq(A)
        BY <2>3, StripType
    <2> QED BY <1>2, <2>4, Zenon DEF strdelsuffix
<1>3. CASE ~endswith(s, t)
    BY <1>3, Zenon DEF strdelsuffix
<1> QED BY <1>2, <1>3

LEMMA NormalType ==
    ASSUME NEW A, NEW s \in Seq(A), Blank \subseteq A
    PROVE  normalize_space(s) \in Seq(A)
<1> DEFINE t == From(s, FirstOf(s, ToSet(s) \ Blank))
<1>1. t \in Seq(A)
    BY LstripType
<1> HIDE DEF t
<1>2. Len(t) \in Nat /\ Len(t) \in 0 .. Len(t)
    BY <1>1, LenProperties
<1>3. Collapsed(t) \in [0 .. Len(t) -> Seq(A)]
    BY <1>1, CollapsedIs
<1>4. Collapsed(t)[Len(t)] \in Seq(A)
    BY <1>2, <1>3
<1> QED BY <1>4, Zenon DEF normalize_space, t

LEMMA SplitType ==
    ASSUME NEW A, NEW s \in Seq(A), NEW d
    PROVE  split(s, d) \in Seq(Seq(A)) /\ split(s, d) # <<>>
<1>1. Len(s) \in Nat /\ Len(s) \in 0 .. Len(s)
    BY LenProperties
<1>2. Splits(s, d) \in [0 .. Len(s) -> Fields(A)]
    BY SplitsAre
<1>3. Splits(s, d)[Len(s)] \in Fields(A)
    BY <1>1, <1>2
<1> QED BY <1>3, Zenon DEF split, Fields

LEMMA JoinType ==
    ASSUME NEW A, NEW a \in Seq(Seq(A)), NEW sep \in Seq(A)
    PROVE  join(a, sep) \in Seq(A)
<1>1. Len(a) \in Nat /\ Len(a) \in 0 .. Len(a)
    BY LenProperties
<1>2. Joins(a, sep) \in [0 .. Len(a) -> Seq(A)]
    BY JoinsAre
<1>3. Joins(a, sep)[Len(a)] \in Seq(A)
    BY <1>1, <1>2
<1> QED BY <1>3 DEF join

LEMMA BufferConstants ==
    /\ Blank \subseteq Alphabet
    /\ Inputs \subseteq Seq(Alphabet)
    /\ \A c \in Separators : c \in Seq(Alphabet)
<1>1. ASSUME NEW s \in Inputs \cup Separators, s \in Seq(Range(s)) PROVE s \in Seq(Alphabet)
    <2>1. Range(s) \subseteq Alphabet
        BY DEF Alphabet
    <2> QED BY <1>1, <2>1
<1>2. Blank \subseteq Alphabet
    BY DEF Alphabet
<1> QED BY <1>1, <1>2, BuffersAssumption DEF BuffersAssumption

LEMMA BufferStarts == BufferInit => BufferType
    BY DEF BufferInit, BufferType

LEMMA BufferStep == BufferType /\ [BufferNext]_bufferVars => BufferType'
<1> SUFFICES ASSUME BufferType, [BufferNext]_bufferVars PROVE BufferType'
    OBVIOUS
<1> DEFINE A == Alphabet
<1>1. text \in Seq(A) /\ parts \in Seq(Seq(A)) /\ Alphabet' = A
    BY DEF BufferType, Alphabet
<1>2. Blank \subseteq A /\ Inputs \subseteq Seq(A) /\ \A c \in Separators : c \in Seq(A)
    BY BufferConstants
<1> SUFFICES text' \in Seq(A) /\ parts' \in Seq(Seq(A))
    BY <1>1, Zenon DEF BufferType
<1> HIDE DEF A
<1>3. CASE Receive
    BY <1>1, <1>2, <1>3 DEF Receive
<1>4. CASE Strip
    BY <1>1, <1>4, StripType DEF Strip
<1>5. CASE LStrip
    BY <1>1, <1>5, LstripType DEF LStrip, lstrip
<1>6. CASE Normalize
    BY <1>1, <1>2, <1>6, NormalType DEF Normalize
<1>7. CASE DeleteChars
    <2>1. PICK c \in Separators : text' = strchrdel(text, c) /\ UNCHANGED parts
        BY <1>7 DEF DeleteChars
    <2>2. c \in Seq(A)
        BY <1>2
    <2>3. strchrdel(text, c) \in Seq(A)
        BY <1>1, <2>2, DeletedIs
    <2> QED BY <1>1, <2>1, <2>3
<1>8. CASE DeleteSuffix
    <2>1. PICK c \in Separators : text' = strdelsuffix(text, c) /\ UNCHANGED parts
        BY <1>8 DEF DeleteSuffix
    <2>2. strdelsuffix(text, c) \in Seq(A)
        BY <1>1, <1>2, SuffixType
    <2> QED BY <1>1, <2>1, <2>2
<1>9. CASE Split
    <2>1. PICK c \in Separators : parts' = split(text, c) /\ UNCHANGED text
        BY <1>9 DEF Split
    <2>2. split(text, c) \in Seq(Seq(A))
        BY <1>1, SplitType
    <2> QED BY <1>1, <2>1, <2>2
<1>10. CASE Deduplicate
    <2>1. strdeldup(parts) \in Seq(Seq(A))
        BY <1>1, DedupIs
    <2> QED BY <1>1, <1>10, <2>1 DEF Deduplicate
<1>11. CASE Join
    <2>1. PICK c \in Separators : text' = join(parts, c) /\ UNCHANGED parts
        BY <1>11 DEF Join
    <2>2. join(parts, c) \in Seq(A)
        BY <1>1, <1>2, JoinType
    <2> QED BY <1>1, <2>1, <2>2
<1>12. CASE UNCHANGED bufferVars
    BY <1>1, <1>12 DEF bufferVars
<1> QED BY <1>3, <1>4, <1>5, <1>6, <1>7, <1>8, <1>9, <1>10, <1>11, <1>12 DEF BufferNext

\* strdeldup (lib/str.c) never drops a string that none it keeps contains.
THEOREM DuplicatesAreCovered == BufferSpec => []DedupCovers
<1>1. BufferType => DedupCovers
    <2> SUFFICES ASSUME BufferType PROVE DedupCovers
        OBVIOUS
    <2>1. parts \in Seq(Seq(Alphabet))
        BY DEF BufferType
    <2> QED BY <2>1, DedupIs, Zenon DEF DedupCovers
<1> QED BY <1>1, BufferStarts, BufferStep, PTL DEF BufferSpec

\* strchrdel (lib/str.c) deletes the characters of a kind that stand alone, and never another.
THEOREM TheIsolatedAreDeleted == BufferSpec => []DeletesTheIsolated
<1>1. BufferType => DeletesTheIsolated
    <2> SUFFICES ASSUME BufferType, NEW c \in Separators
                 PROVE  LET left == strchrdel(text, c)  Others(s) == Those(s, Range(s) \ Range(c)) IN
                        /\ Others(left) = Others(text)
                        /\ (\A k \in 1 .. Len(text) - 1 :
                                  text[k] \in Range(c) => text[k + 1] \notin Range(c))
                               => left = Others(text)
        BY Zenon DEF DeletesTheIsolated
    <2>1. text \in Seq(Alphabet) /\ c \in Seq(Alphabet)
        BY BufferConstants DEF BufferType
    <2> DEFINE Others(s) == Those(s, Range(s) \ Range(c))
               Apart == \A k \in 1 .. Len(text) - 1 : text[k] \in Range(c) => text[k + 1] \notin Range(c)
    <2>2. Others(strchrdel(text, c)) = Others(text) /\ (Apart => strchrdel(text, c) = Others(text))
        BY <2>1, DeletedIs, SMTT(30)
    <2> QED BY <2>2, Zenon
<1> QED BY <1>1, BufferStarts, BufferStep, PTL DEF BufferSpec

-----------------------------------------------------------------------------
\* The nonempty fields, and they with a space between.
Words(f) == Those(f, Range(f) \ { <<>> })
Spaced(f) == join(Words(f), <<Gap>>)

LEMMA ThoseOfOneMore ==
    ASSUME NEW A, NEW s \in Seq(A), NEW e \in A, NEW S
    PROVE  Those(Append(s, e), S) = IF e \in S THEN Append(Those(s, S), e) ELSE Those(s, S)
<1> DEFINE w == Append(s, e)
           c == Chosen(s, S)
           d == Chosen(w, S)
           T == {k \in 0 .. Len(s) : d[k] = c[k]}
<1>1. Len(s) \in Nat
    BY LenProperties
<1>2. w \in Seq(A) /\ Len(w) = Len(s) + 1 /\ w[Len(s) + 1] = e /\ \A n \in 1 .. Len(s) : w[n] = s[n]
    BY AppendRange
<1> HIDE DEF w
<1>3. c[0] = <<>> /\ \A k \in 1 .. Len(s) : c[k] = IF s[k] \in S THEN Append(c[k - 1], s[k]) ELSE c[k - 1]
    BY ChosenIs
<1>4. d[0] = <<>> /\ \A k \in 1 .. Len(w) : d[k] = IF w[k] \in S THEN Append(d[k - 1], w[k]) ELSE d[k - 1]
    BY <1>2, ChosenIs
<1> HIDE DEF c, d
<1>5. 0 \in T
    BY <1>1, <1>3, <1>4
<1>6. ASSUME NEW k \in 0 .. Len(s) - 1, k \in T PROVE k + 1 \in T
    <2>1. k + 1 \in 1 .. Len(s) /\ k + 1 \in 1 .. Len(w) /\ (k + 1) - 1 = k /\ k + 1 \in 0 .. Len(s)
        BY <1>1, <1>2
    <2>2. d[k] = c[k] /\ w[k + 1] = s[k + 1]
        BY <1>2, <1>6, <2>1
    <2>3. d[k + 1] = c[k + 1]
        BY <1>3, <1>4, <2>1, <2>2
    <2> QED BY <2>1, <2>3
<1>7. \A k \in 0 .. Len(s) : k \in T
    <2> HIDE DEF T
    <2> QED BY <1>1, <1>5, <1>6, UpTo
<1>8. Len(s) \in 0 .. Len(s) /\ Len(w) \in 1 .. Len(w) /\ Len(w) - 1 = Len(s)
    BY <1>1, <1>2
<1>9. d[Len(w)] = IF e \in S THEN Append(c[Len(s)], e) ELSE c[Len(s)]
    BY <1>2, <1>4, <1>7, <1>8
<1> QED BY <1>9 DEF Those, c, d, w

LEMMA JoinOfOneMore ==
    ASSUME NEW A, NEW a \in Seq(Seq(A)), NEW e \in Seq(A), NEW sep \in Seq(A)
    PROVE  join(Append(a, e), sep) = join(a, sep) \o (IF a = <<>> THEN <<>> ELSE sep) \o e
<1> DEFINE Steps(z, c) == /\ c[0] = <<>>
                          /\ \A k \in 1 .. Len(z) : c[k] = c[k - 1] \o (IF k = 1 THEN <<>> ELSE sep) \o z[k]
<1>0. ASSUME NEW z \in Seq(Seq(A)) PROVE Steps(z, Joins(z, sep))
    BY JoinsAre, ZenonT(40)
<1> HIDE DEF Steps
<1> DEFINE w == Append(a, e)
           c == Joins(a, sep)
           d == Joins(w, sep)
           T == {k \in 0 .. Len(a) : d[k] = c[k]}
<1>1. Len(a) \in Nat /\ (Len(a) = 0 <=> a = <<>>)
    BY LenProperties, EmptySeq
<1>2. /\ w \in Seq(Seq(A)) /\ Len(w) = Len(a) + 1 /\ w[Len(a) + 1] = e
      /\ \A n \in 1 .. Len(a) : w[n] = a[n]
    BY AppendRange
<1> HIDE DEF w
<1>3. c[0] = <<>> /\ \A k \in 1 .. Len(a) : c[k] = c[k - 1] \o (IF k = 1 THEN <<>> ELSE sep) \o a[k]
    BY <1>0 DEF Steps
<1>4. d[0] = <<>> /\ \A k \in 1 .. Len(w) : d[k] = d[k - 1] \o (IF k = 1 THEN <<>> ELSE sep) \o w[k]
    BY <1>0, <1>2 DEF Steps
<1> HIDE DEF c, d
<1>5. 0 \in T
    BY <1>1, <1>3, <1>4
<1>6. ASSUME NEW k \in 0 .. Len(a) - 1, k \in T PROVE k + 1 \in T
    <2>1. k + 1 \in 1 .. Len(a) /\ k + 1 \in 1 .. Len(w) /\ (k + 1) - 1 = k /\ k + 1 \in 0 .. Len(a)
        BY <1>1, <1>2
    <2>2. d[k] = c[k] /\ w[k + 1] = a[k + 1]
        BY <1>2, <1>6, <2>1
    <2>3. c[k + 1] = c[k] \o (IF k + 1 = 1 THEN <<>> ELSE sep) \o a[k + 1]
        BY <1>3, <2>1
    <2>4. d[k + 1] = d[k] \o (IF k + 1 = 1 THEN <<>> ELSE sep) \o w[k + 1]
        BY <1>4, <2>1
    <2>5. d[k + 1] = c[k + 1]
        BY <2>2, <2>3, <2>4, Zenon
    <2> QED BY <2>1, <2>5
<1>7. \A k \in 0 .. Len(a) : k \in T
    <2> HIDE DEF T
    <2> QED BY <1>1, <1>5, <1>6, UpTo
<1>8. Len(a) \in 0 .. Len(a) /\ Len(w) \in 1 .. Len(w) /\ Len(w) - 1 = Len(a)
    BY <1>1, <1>2
<1>9. d[Len(w)] = c[Len(a)] \o (IF Len(w) = 1 THEN <<>> ELSE sep) \o e
    <2>1. d[Len(a)] = c[Len(a)]
        BY <1>7, <1>8
    <2>2. w[Len(w)] = e
        BY <1>2
    <2>3. d[Len(w)] = d[Len(w) - 1] \o (IF Len(w) = 1 THEN <<>> ELSE sep) \o w[Len(w)]
        BY <1>4, <1>8, Zenon
    <2>4. d[Len(w) - 1] = d[Len(a)]
        BY <1>8, Zenon
    <2> QED BY <2>1, <2>2, <2>3, <2>4, Zenon
<1>10. Len(w) = 1 <=> a = <<>>
    BY <1>1, <1>2
<1> QED BY <1>9, <1>10 DEF join, c, d, w

\* One field more.
LEMMA WordsOfOneMore ==
    ASSUME NEW A, NEW f \in Seq(Seq(A)), NEW e \in Seq(A)
    PROVE  /\ Words(f) \in Seq(Seq(A))
           /\ Words(Append(f, e)) = IF e = <<>> THEN Words(f) ELSE Append(Words(f), e)
<1> DEFINE w == Append(f, e)
           S == Range(w) \ { <<>> }
<1>1. w \in Seq(Seq(A)) /\ Range(w) = Range(f) \cup {e}
    BY AppendRange
<1>2. Words(w) = IF e \in S THEN Append(Those(f, S), e) ELSE Those(f, S)
    BY ThoseOfOneMore DEF Words
<1> HIDE DEF w
<1>3. \A k \in 1 .. Len(f) : f[k] \in S <=> f[k] \in Range(f) \ { <<>> }
    <2>1. \A k \in 1 .. Len(f) : f[k] \in Range(f)
        BY LenProperties DEF Range
    <2> QED BY <1>1, <2>1
<1>4. Those(f, S) = Words(f)
    <2> HIDE DEF S
    <2> QED BY <1>3, SameAreChosen DEF Words
<1>5. e \in S <=> e # <<>>
    BY <1>1
<1>6. Words(f) \in Seq(Seq(A))
    BY ThoseAre DEF Words
<1> QED BY <1>2, <1>4, <1>5, <1>6 DEF w

LEMMA SpacedOfOneMore ==
    ASSUME NEW A, Blank \subseteq A, NEW f \in Seq(Seq(A)), NEW e \in Seq(A)
    PROVE  /\ Spaced(f) \in Seq(A)
           /\ Spaced(Append(f, e)) = IF e = <<>> THEN Spaced(f)
                                     ELSE Spaced(f) \o (IF Words(f) = <<>> THEN <<>> ELSE <<Gap>>) \o e
<1>1. <<Gap>> \in Seq(A)
    <2>1. Gap \in Blank
        BY DEF Gap, Blank
    <2> QED BY <2>1
<1>2. /\ Words(f) \in Seq(Seq(A))
      /\ Words(Append(f, e)) = IF e = <<>> THEN Words(f) ELSE Append(Words(f), e)
    BY WordsOfOneMore
<1> DEFINE v == Words(f)  g == <<Gap>>
<1>3. join(v, g) \in Seq(A) /\ join(Append(v, e), g) = join(v, g) \o (IF v = <<>> THEN <<>> ELSE g) \o e
    <2>1. v \in Seq(Seq(A)) /\ g \in Seq(A)
        BY <1>1, <1>2
    <2> HIDE DEF v, g
    <2> QED BY <2>1, JoinType, JoinOfOneMore
<1> QED BY <1>2, <1>3, Zenon DEF Spaced, v, g

\* strsep: the last field grows until a blank comes.
LEMMA LastFieldGrows ==
    ASSUME NEW A, NEW f \in Seq(Seq(A)), NEW e \in Seq(A), NEW x \in A
    PROVE  Grown(Append(f, e), x) = Append(f, Append(e, x))
<1> DEFINE w == Append(f, e)
           u == [w EXCEPT ![Len(w)] = Append(@, x)]
           v == Append(f, Append(e, x))
<1>1. Len(f) \in Nat /\ Append(e, x) \in Seq(A)
    BY LenProperties, AppendRange
<1>2. w \in Seq(Seq(A)) /\ Len(w) = Len(f) + 1 /\ w[Len(f) + 1] = e /\ \A n \in 1 .. Len(f) : w[n] = f[n]
    BY AppendRange
<1>3. /\ v \in Seq(Seq(A)) /\ Len(v) = Len(f) + 1 /\ v[Len(f) + 1] = Append(e, x)
      /\ \A n \in 1 .. Len(f) : v[n] = f[n]
    BY <1>1, AppendRange
<1> HIDE DEF w, v
<1>4. u \in Seq(Seq(A)) /\ Len(u) = Len(w) /\ \A n \in 1 .. Len(w) : u[n] = IF n = Len(w) THEN Append(e, x) ELSE w[n]
    <2>1. Len(w) \in 1 .. Len(w) /\ w[Len(w)] = e
        BY <1>1, <1>2
    <2> DEFINE y == Append(w[Len(w)], x)
    <2>2. y = Append(e, x) /\ u = [w EXCEPT ![Len(w)] = y]
        BY <2>1
    <2>3. y \in Seq(A)
        BY <1>1, <2>2
    <2> HIDE DEF y, u
    <2> QED BY <1>2, <2>1, <2>2, <2>3, ExceptSeq
<1> HIDE DEF u
<1>5. \A n \in 1 .. Len(u) : u[n] = v[n]
    <2> SUFFICES ASSUME NEW n \in 1 .. Len(u) PROVE u[n] = v[n]
        OBVIOUS
    <2>1. CASE n = Len(f) + 1
        BY <1>1, <1>2, <1>3, <1>4, <2>1
    <2>2. CASE n # Len(f) + 1
        <3>1. n \in 1 .. Len(f)
            BY <1>1, <1>2, <1>4, <2>2
        <3> QED BY <1>2, <1>3, <1>4, <2>2, <3>1
    <2> QED BY <2>1, <2>2
<1>6. u = v
    <2>1. u \in Seq(Seq(A)) /\ v \in Seq(Seq(A)) /\ Len(u) = Len(v)
        BY <1>1, <1>2, <1>3, <1>4
    <2> QED BY <1>5, <2>1, SeqEqual
<1> QED BY <1>6 DEF Grown, u, v, w

LEMMA InToSet ==
    ASSUME NEW s, NEW n \in DOMAIN s
    PROVE  s[n] \in ToSet(s)
    BY Zenon DEF ToSet

\* Fields without a word, the last of them empty.
Bare(A) == {Append(f, <<>>) : f \in {g \in Seq(Seq(A)) : Words(g) = <<>>}}

\* The blanks at the left of a string are in no word of it.
LEMMA LeadingBlanks ==
    ASSUME NEW A, NEW s \in Seq(A), NEW d, ToSet(d) = Blank,
           NEW b \in 0 .. Len(s), \A n \in 1 .. b : s[n] \in Blank
    PROVE  Splits(s, d)[b] \in Bare(A)
<1> DEFINE p == Splits(s, d)
           T == {k \in 0 .. b : \E f \in Seq(Seq(A)) : p[k] = Append(f, <<>>) /\ Words(f) = <<>>}
<1>1. Len(s) \in Nat /\ b \in Nat /\ <<>> \in Seq(A)
    BY LenProperties
<1>2. p[0] = << <<>> >> /\ \A k \in 1 .. Len(s) : s[k] \in Blank => p[k] = Append(p[k - 1], <<>>)
    BY SplitsAre
<1> HIDE DEF p
<1>3. 0 \in T
    <2>1. << <<>> >> = Append(<<>>, <<>>) /\ <<>> \in Seq(Seq(A)) /\ Len(<<>>) = 0
        OBVIOUS
    <2>2. PICK z \in Seq(Seq(A)) : z = <<>>
        BY <2>1, Zenon
    <2>3. Len(z) = 0
        BY <2>2
    <2>4. Words(z) = z
        <3> DEFINE S == Range(z) \ { <<>> }
        <3>1. \A k \in 1 .. Len(z) : z[k] \in S
            BY <2>3
        <3> HIDE DEF S
        <3>2. Those(z, S) = z
            BY <3>1, AllAreChosen
        <3> QED BY <3>2 DEF Words, S
    <2>5. p[0] = Append(z, <<>>) /\ Words(z) = <<>>
        BY <1>2, <2>1, <2>2, <2>4, Zenon
    <2>6. 0 \in 0 .. b
        BY <1>1
    <2> QED BY <2>5, <2>6, Zenon
<1>4. ASSUME NEW k \in 0 .. b - 1, k \in T PROVE k + 1 \in T
    <2>1. k + 1 \in 1 .. Len(s) /\ k + 1 \in 1 .. b /\ (k + 1) - 1 = k /\ k + 1 \in 0 .. b
        BY <1>1
    <2>2. PICK f \in Seq(Seq(A)) : p[k] = Append(f, <<>>) /\ Words(f) = <<>>
        BY <1>4
    <2> DEFINE g == Append(f, <<>>)
    <2>3. g \in Seq(Seq(A)) /\ Words(g) = <<>>
        BY <1>1, <2>2, AppendRange, WordsOfOneMore
    <2>4. p[k + 1] = Append(g, <<>>)
        BY <1>2, <2>1, <2>2
    <2> HIDE DEF g
    <2> QED BY <2>1, <2>3, <2>4
<1>5. \A k \in 0 .. b : k \in T
    <2> HIDE DEF T
    <2> QED BY <1>1, <1>3, <1>4, UpTo
<1>6. b \in 0 .. b
    BY <1>1
<1> QED BY <1>5, <1>6 DEF Bare, p

\* normalize_space: what is written after a character is the words so far, with a space
\* between; whether one is under way is what the next character needs to know.
LEMMA NormalIs ==
    ASSUME NEW A, Blank \subseteq A, NEW s \in Seq(A), NEW d, ToSet(d) = Blank
    PROVE  normalize_space(s) = Spaced(split(s, d))
<1> DEFINE m == FirstOf(s, ToSet(s) \ Blank)
           b == m - 1
           t == From(s, m)
           p == Splits(s, d)
           c == Collapsed(t)
           Written(k, f, e) == /\ p[b + k] = Append(f, e)
                               /\ c[k] = Spaced(Append(f, e))
                               /\ e = <<>> <=> k = 0 \/ t[k] \in Blank
                               /\ Words(Append(f, e)) = <<>> <=> k = 0
           T == {k \in 0 .. Len(t) : \E f \in Seq(Seq(A)), e \in Seq(A) : Written(k, f, e)}
<1>0. \A u, v, w \in Seq(A) : (u \o v) \o w = u \o (v \o w)
    BY JoinedOfThree, SMTT(40)
<1>1. /\ m \in 1 .. Len(s) + 1 /\ Len(s) \in Nat
      /\ \A n \in 1 .. m - 1 : s[n] \notin ToSet(s) \ Blank
      /\ m <= Len(s) => s[m] \in ToSet(s) \ Blank
    BY LenProperties, FirstOfIs
<1> HIDE DEF m
<1>2. b \in 0 .. Len(s) /\ m = b + 1 /\ b = m - 1
    BY <1>1
<1> HIDE DEF b
<1>3. \A n \in 1 .. b : s[n] \in Blank
    <2> SUFFICES ASSUME NEW n \in 1 .. b PROVE s[n] \in Blank
        OBVIOUS
    <2>1. n \in DOMAIN s
        BY <1>2, LenProperties
    <2>2. s[n] \in ToSet(s)
        BY <2>1, InToSet
    <2>3. n \in 1 .. m - 1
        BY <1>2
    <2> QED BY <1>1, <2>2, <2>3
<1>4. t \in Seq(A) /\ Len(t) = Len(s) - b /\ \A k \in 1 .. Len(s) - b : t[k] = s[b + k]
    BY <1>2, FromIs
<1>5. /\ p \in [0 .. Len(s) -> Fields(A)]
      /\ \A k \in 1 .. Len(s) : p[k] = IF s[k] \in Blank THEN Append(p[k - 1], <<>>)
                 ELSE Grown(p[k - 1], s[k])
    BY SplitsAre
<1> HIDE DEF t
<1>6. /\ c \in [0 .. Len(t) -> Seq(A)] /\ c[0] = <<>>
      /\ \A k \in 1 .. Len(t) : c[k] = c[k - 1] \o
            (IF t[k] \in Blank THEN <<>> ELSE IF k > 1 /\ t[k - 1] \in Blank THEN <<Gap, t[k]>> ELSE <<t[k]>>)
    BY <1>4, CollapsedIs
<1> HIDE DEF p, c
<1>7. Len(t) \in Nat /\ (Len(t) # 0 => t[1] \notin Blank)
    <2>1. Len(t) \in Nat
        BY <1>1, <1>2, <1>4
    <2>2. ASSUME Len(t) # 0 PROVE t[1] \notin Blank
        <3>1. 1 \in 1 .. Len(s) - b /\ b + 1 = m /\ m <= Len(s)
            BY <1>1, <1>2, <1>4, <2>1, <2>2
        <3> QED BY <1>1, <1>4, <3>1
    <2> QED BY <2>1, <2>2
<1>8. <<>> \in Seq(A) /\ <<>> \in Seq(Seq(A))
    OBVIOUS
<1>9. 0 \in T
    <2>1. PICK f \in Seq(Seq(A)) : p[b] = Append(f, <<>>) /\ Words(f) = <<>>
        <3>1. b \in 0 .. Len(s)
            BY <1>2
        <3>2. p[b] \in Bare(A)
            BY <1>3, <3>1, LeadingBlanks DEF p
        <3> QED BY <3>2 DEF Bare
    <2>2. Words(Append(f, <<>>)) = <<>>
        BY <1>8, <2>1, WordsOfOneMore
    <2>3. Spaced(Append(f, <<>>)) = <<>>
        <3> DEFINE g == <<Gap>>
        <3>1. join(<<>>, g) = <<>>
            <4>1. g \in Seq(A)
                <5>1. Gap \in A
                    BY DEF Gap, Blank
                <5> QED BY <5>1
            <4> HIDE DEF g
            <4>2. ASSUME NEW z \in Seq(Seq(A)), Len(z) = 0 PROVE join(z, g) = <<>>
                <5>1. Joins(z, g)[0] = <<>>
                    BY <4>1, JoinsAre
                <5> QED BY <4>2, <5>1 DEF join
            <4>3. <<>> \in Seq(Seq(A)) /\ Len(<<>>) = 0
                OBVIOUS
            <4> QED BY <4>2, <4>3
        <3> QED BY <2>2, <3>1, Zenon DEF Spaced, g
    <2>4. p[b + 0] = Append(f, <<>>)
        BY <1>2, <2>1
    <2>5. Written(0, f, <<>>)
        BY <1>6, <2>2, <2>3, <2>4
    <2>6. 0 \in 0 .. Len(t)
        BY <1>7
    <2> HIDE DEF Written
    <2> QED BY <1>8, <2>5, <2>6
<1>10. ASSUME NEW k \in 0 .. Len(t) - 1, k \in T PROVE k + 1 \in T
    <2> DEFINE x == t[k + 1]
    <2>1. /\ k + 1 \in 1 .. Len(t) /\ (k + 1) - 1 = k /\ k + 1 \in 0 .. Len(t) /\ k \in 0 .. Len(t)
          /\ k + 1 # 0 /\ (k + 1 > 1 <=> k # 0)
        BY <1>7
    <2>2. b + (k + 1) \in 1 .. Len(s) /\ (b + (k + 1)) - 1 = b + k /\ s[b + (k + 1)] = x
        BY <1>1, <1>2, <1>4, <2>1
    <2>3. x \in A
        BY <1>4, <2>1, ElementOfSeq
    <2>4. PICK f \in Seq(Seq(A)), e \in Seq(A) : Written(k, f, e)
        BY <1>10
    <2> DEFINE w == Append(f, e)
    <2>5. w \in Seq(Seq(A)) /\ Spaced(w) \in Seq(A)
        <3>1. w \in Seq(Seq(A))
            BY AppendRange
        <3> HIDE DEF w
        <3> QED BY <3>1, <1>8, SpacedOfOneMore
    <2>6. /\ p[b + k] = w /\ c[k] = Spaced(w) /\ (e = <<>> <=> k = 0 \/ t[k] \in Blank)
          /\ (Words(w) = <<>> <=> k = 0)
        BY <2>4
    <2>7. p[b + (k + 1)] = IF x \in Blank THEN Append(w, <<>>) ELSE Grown(w, x)
        <3>1. p[(b + (k + 1)) - 1] = w
            BY <2>2, <2>6
        <3> DEFINE q == p[(b + (k + 1)) - 1]
        <3>2. p[b + (k + 1)] = IF x \in Blank THEN Append(q, <<>>) ELSE Grown(q, x)
            BY <1>5, <2>2
        <3> QED BY <3>1, <3>2
    <2>8. c[k + 1] = c[k] \o (IF x \in Blank THEN <<>> ELSE IF k # 0 /\ t[k] \in Blank THEN <<Gap, x>> ELSE <<x>>)
        <3>1. c[k + 1] = c[(k + 1) - 1] \o (IF x \in Blank THEN <<>> ELSE
                    IF k + 1 > 1 /\ t[(k + 1) - 1] \in Blank THEN <<Gap, x>> ELSE <<x>>)
            BY <1>6, <2>1
        <3> QED BY <2>1, <3>1
    <2> HIDE DEF x
    <2>9. CASE x \in Blank
        <3>1. k # 0
            BY <1>7, <2>1, <2>9 DEF x
        <3>2. p[b + (k + 1)] = Append(w, <<>>)
            BY <2>7, <2>9
        <3>3. c[k + 1] = c[k]
            <4> DEFINE u == c[k]
            <4>1. c[k + 1] = u \o <<>> /\ u \in Seq(A)
                BY <1>6, <2>1, <2>8, <2>9
            <4> HIDE DEF u
            <4>2. u \o <<>> = u
                BY <4>1, ConcatEmptySeq
            <4> QED BY <4>1, <4>2 DEF u
        <3> HIDE DEF w
        <3>4. Words(Append(w, <<>>)) = Words(w) /\ Spaced(Append(w, <<>>)) = Spaced(w)
            BY <1>8, <2>5, WordsOfOneMore, SpacedOfOneMore
        <3>5. Written(k + 1, w, <<>>)
            BY <2>1, <2>6, <2>9, <3>1, <3>2, <3>3, <3>4 DEF x
        <3> HIDE DEF Written
        <3> QED BY <1>8, <2>1, <2>5, <3>5
    <2>10. CASE x \notin Blank
        <3> DEFINE v == Append(e, x)
        <3>1. v \in Seq(A) /\ v # <<>> /\ v = e \o <<x>>
            <4>1. v \in Seq(A) /\ Len(v) = Len(e) + 1 /\ Len(e) \in Nat
                BY <2>3, AppendRange, LenProperties
            <4>2. v # <<>>
                BY <4>1, EmptySeq
            <4>3. v = e \o <<x>>
                BY <2>3, AppendIsConcat
            <4> QED BY <4>1, <4>2, <4>3
        <3>2. p[b + (k + 1)] = Append(f, v)
            <4>1. Grown(w, x) = Append(f, v)
                BY <2>3, LastFieldGrows
            <4> QED BY <2>7, <2>10, <4>1
        <3> HIDE DEF v
        <3>3. /\ Words(Append(f, v)) = Append(Words(f), v) /\ Words(f) \in Seq(Seq(A))
              /\ Words(w) = IF e = <<>> THEN Words(f) ELSE Append(Words(f), e)
            BY <3>1, WordsOfOneMore
        <3>4. /\ Spaced(Append(f, v)) = Spaced(f) \o (IF Words(f) = <<>> THEN <<>> ELSE <<Gap>>) \o v
              /\ Spaced(w) = IF e = <<>> THEN Spaced(f)
                             ELSE Spaced(f) \o (IF Words(f) = <<>> THEN <<>> ELSE <<Gap>>) \o e
              /\ Spaced(f) \in Seq(A)
            BY <3>1, SpacedOfOneMore
        <3> HIDE DEF w
        <3>5. Words(Append(f, v)) # <<>>
            <4> DEFINE q == Words(f)
            <4>1. q \in Seq(Seq(A)) /\ v \in Seq(A)
                BY <3>1, <3>3
            <4> HIDE DEF q
            <4>2. Len(Append(q, v)) = Len(q) + 1 /\ Len(q) \in Nat
                BY <4>1, AppendRange, LenProperties
            <4>3. Len(Append(q, v)) # 0
                BY <4>2
            <4>4. Append(q, v) # <<>>
                BY <4>3, EmptySeq, Zenon
            <4> QED BY <3>3, <4>4 DEF q
        <3>6. c[k + 1] = Spaced(Append(f, v))
            <4> DEFINE y == Spaced(f)
                       g == IF Words(f) = <<>> THEN <<>> ELSE <<Gap>>
            <4>1. y \in Seq(A) /\ g \in Seq(A) /\ <<x>> \in Seq(A) /\ y \o g \in Seq(A)
                <5>1. <<Gap>> \in Seq(A) /\ <<>> \in Seq(A)
                    <6>1. Gap \in A
                        BY DEF Gap, Blank
                    <6> QED BY <6>1
                <5>2. g \in Seq(A)
                    BY <5>1
                <5> HIDE DEF g
                <5> QED BY <2>3, <3>4, <5>2, ConcatProperties
            <4>2. CASE e = <<>>
                <5>1. v = <<x>>
                    <6>1. <<>> \o <<x>> = <<x>>
                        BY <4>1, ConcatEmptySeq
                    <6> QED BY <3>1, <4>2, <6>1
                <5>2. k = 0 \/ t[k] \in Blank
                    BY <2>6, <4>2
                <5>3. c[k] = y /\ (Words(f) = <<>> <=> k = 0)
                    BY <2>6, <3>3, <3>4, <4>2
                <5>4. CASE k = 0
                    <6>1. c[k + 1] = y \o <<x>>
                        BY <2>8, <2>10, <5>3, <5>4
                    <6>2. y \o <<>> = y
                        BY <4>1, ConcatEmptySeq
                    <6> QED BY <3>4, <5>1, <5>3, <5>4, <6>1, <6>2
                <5>5. CASE k # 0
                    <6>1. c[k + 1] = y \o <<Gap, x>>
                        BY <2>8, <2>10, <5>2, <5>3, <5>5
                    <6>2. <<Gap, x>> = <<Gap>> \o <<x>>
                        OBVIOUS
                    <6>3. g = <<Gap>>
                        BY <5>3, <5>5
                    <6>4. (y \o g) \o <<x>> = y \o (g \o <<x>>)
                        <7>1. y \in Seq(A) /\ g \in Seq(A) /\ <<x>> \in Seq(A)
                            BY <4>1
                        <7> HIDE DEF y, g
                        <7> QED BY <1>0, <7>1, ZenonT(90)
                    <6> QED BY <3>4, <5>1, <6>1, <6>2, <6>3, <6>4
                <5> QED BY <5>4, <5>5
            <4>3. CASE e # <<>>
                <5>1. k # 0 /\ t[k] \notin Blank
                    BY <2>6, <4>3
                <5>2. c[k + 1] = c[k] \o <<x>> /\ c[k] = (y \o g) \o e
                    BY <2>6, <2>8, <2>10, <3>4, <4>3, <5>1
                <5> DEFINE z == y \o g
                <5>3. z \in Seq(A)
                    BY <4>1
                <5> HIDE DEF z, g, y
                <5>4. (z \o e) \o <<x>> = z \o (e \o <<x>>)
                    BY <1>0, <4>1, <5>3, ZenonT(60)
                <5> QED BY <3>1, <3>4, <5>2, <5>4 DEF z, g, y
            <4> QED BY <4>2, <4>3
        <3>7. Written(k + 1, f, v)
            BY <2>1, <2>10, <3>1, <3>2, <3>5, <3>6 DEF x
        <3> HIDE DEF Written
        <3> QED BY <2>1, <3>1, <3>7
    <2> QED BY <2>9, <2>10
<1>11. \A k \in 0 .. Len(t) : k \in T
    <2> HIDE DEF T
    <2> QED BY <1>7, <1>9, <1>10, UpTo
<1>12. c[Len(t)] = Spaced(p[Len(s)])
    <2>1. Len(t) \in 0 .. Len(t) /\ b + Len(t) = Len(s)
        BY <1>1, <1>2, <1>4, <1>7
    <2>2. PICK f \in Seq(Seq(A)), e \in Seq(A) : Written(Len(t), f, e)
        BY <1>11, <2>1
    <2> QED BY <2>1, <2>2
<1>13. normalize_space(s) = c[Len(t)]
    BY Zenon DEF normalize_space, c, t, m
<1>14. split(s, d) = p[Len(s)]
    BY Zenon DEF split, p
<1> QED BY <1>12, <1>13, <1>14

\* normalize_space (lib/str.c) leaves the words of a string, with single spaces between.
THEOREM WordsAreNormalised == BufferSpec => []NormalisedIsWords
<1>1. BufferType => NormalisedIsWords
    <2> SUFFICES ASSUME BufferType PROVE NormalisedIsWords
        OBVIOUS
    <2> DEFINE d == <<" ", "\t">>
    <2>1. ToSet(d) = Blank
        <3>1. \A u, v : ToSet(<<u, v>>) = {u, v}
            <4> SUFFICES ASSUME NEW u, NEW v PROVE ToSet(<<u, v>>) = {u, v}
                OBVIOUS
            <4> QED BY DEF ToSet
        <3> QED BY <3>1, Zenon DEF Blank
    <2>2. text \in Seq(Alphabet) /\ Blank \subseteq Alphabet
        BY BufferConstants DEF BufferType
    <2> HIDE DEF d
    <2>3. normalize_space(text) = Spaced(split(text, d))
        BY <2>1, <2>2, NormalIs
    <2> QED BY <2>3, Zenon DEF NormalisedIsWords, Spaced, Words, Gap, d
<1> QED BY <1>1, BufferStarts, BufferStep, PTL DEF BufferSpec
=============================================================================
