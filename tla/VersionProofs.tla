---------------------------- MODULE VersionProofs ----------------------------
(***************************************************************************)
(* Proofs about versions: the order of their integers is the one they are  *)
(* meant to have, for any number of parts of any number of bits.           *)
(***************************************************************************)
EXTENDS ManifestList, Induction

LEMMA BitsAreEnough == IntBits \in Nat /\ PartBits \in 1 .. IntBits
<1>1. VersionMax \in Nat /\ PartBits \in Nat /\ VersionMax >= 1 /\ PartBits >= 1 /\ IntBits = VersionMax * PartBits
    BY VersionAssumption
<1>2. \A a, b \in Nat : a >= 1 => a * b \in Nat /\ a * b >= b
    OBVIOUS
<1> QED BY <1>1, <1>2

-----------------------------------------------------------------------------
\* Powers of two, a number's quotient and remainder, and its bits.
LEMMA Pow2Is ==
    /\ Pow2 \in [0 .. IntBits -> Nat]
    /\ Pow2[0] = 1
    /\ \A n \in 1 .. IntBits : Pow2[n] = 2 * Pow2[n - 1]
<1> DEFINE F == [p \in Nat \X Nat |-> 2 * p[1]]
<1>1. F \in [Nat \X Nat -> Nat] /\ 1 \in Nat
    OBVIOUS
<1>2. PICK g : Along(g, Nat, F, 1, IntBits)
    <2> HIDE DEF F
    <2> QED BY BitsAreEnough, <1>1, AlongNumbers
<1>3. /\ g \in [0 .. IntBits -> Nat] /\ g[0] = 1
      /\ \A n \in 1 .. IntBits : g[n] = F[<<g[n - 1], n>>]
    BY <1>2 DEF Along
<1>4. ASSUME NEW n \in 1 .. IntBits PROVE g[n] = 2 * g[n - 1]
    <2>1. g[n - 1] \in Nat /\ n \in Nat
        BY BitsAreEnough, <1>3
    <2> QED BY <1>3, <2>1
<1>5. g = [n \in 0 .. IntBits |-> IF n = 0 THEN 1 ELSE 2 * g[n - 1]]
    <2> HIDE DEF F
    <2> QED BY <1>3, <1>4, BitsAreEnough
<1>6. Pow2 = [n \in 0 .. IntBits |-> IF n = 0 THEN 1 ELSE 2 * Pow2[n - 1]]
    BY <1>5, Zenon DEF Pow2
<1> DEFINE S == {n \in 0 .. IntBits : Pow2[n] \in Nat}
<1>7. 0 \in S
    BY <1>6, BitsAreEnough
<1>8. ASSUME NEW n \in 0 .. IntBits - 1, n \in S PROVE n + 1 \in S
    BY <1>6, <1>8, BitsAreEnough
<1>9. \A n \in 0 .. IntBits : n \in S
    <2> HIDE DEF S
    <2> QED BY <1>7, <1>8, BitsAreEnough, UpTo
<1> QED BY <1>6, <1>9, BitsAreEnough

LEMMA Pow2Positive ==
    ASSUME NEW n \in 0 .. IntBits
    PROVE  Pow2[n] \in Nat /\ Pow2[n] >= 1
<1> DEFINE S == {i \in 0 .. IntBits : Pow2[i] >= 1}
<1>1. 0 \in S
    BY Pow2Is, BitsAreEnough
<1>2. ASSUME NEW i \in 0 .. IntBits - 1, i \in S PROVE i + 1 \in S
    BY <1>2, Pow2Is, BitsAreEnough
<1>3. \A i \in 0 .. IntBits : i \in S
    <2> HIDE DEF S
    <2> QED BY <1>1, <1>2, BitsAreEnough, UpTo
<1> QED BY <1>3, Pow2Is, BitsAreEnough

LEMMA Pow2Sum ==
    ASSUME NEW i \in Nat, NEW j \in Nat, i + j <= IntBits
    PROVE  Pow2[i + j] = Pow2[i] * Pow2[j]
<1> DEFINE S == {k \in Nat : i + k <= IntBits => Pow2[i + k] = Pow2[i] * Pow2[k]}
<1>0. i \in 0 .. IntBits /\ Pow2[i] \in Nat
    BY Pow2Is, BitsAreEnough
<1>1. 0 \in S
    BY <1>0, Pow2Is, BitsAreEnough
<1>2. ASSUME NEW k \in S PROVE k + 1 \in S
    <2>1. SUFFICES ASSUME i + (k + 1) <= IntBits PROVE Pow2[i + (k + 1)] = Pow2[i] * Pow2[k + 1]
        OBVIOUS
    <2>2. Pow2[i + k] = Pow2[i] * Pow2[k] /\ Pow2[k] \in Nat
        BY <2>1, Pow2Is, BitsAreEnough
    <2>3. Pow2[k + 1] = 2 * Pow2[k]
        <3>1. k + 1 \in 1 .. IntBits /\ (k + 1) - 1 = k
            BY <2>1, BitsAreEnough
        <3> QED BY <3>1, Pow2Is
    <2>4. Pow2[i + (k + 1)] = 2 * Pow2[i + k]
        <3>1. i + (k + 1) \in 1 .. IntBits /\ (i + (k + 1)) - 1 = i + k
            BY <2>1, BitsAreEnough
        <3> QED BY <3>1, Pow2Is
    <2>5. \A a, b \in Nat : 2 * (a * b) = a * (2 * b)
        OBVIOUS
    <2> QED BY <1>0, <2>2, <2>3, <2>4, <2>5
<1>3. S = Nat
    <2>1. S \in SUBSET Nat
        OBVIOUS
    <2> HIDE DEF S
    <2> QED BY <1>1, <1>2, <2>1, CountUpTo
<1> QED BY <1>3

LEMMA QuotientIs ==
    ASSUME NEW q \in Nat, NEW m \in Nat, NEW r \in Nat, r < m
    PROVE  (q * m + r) \div m = q /\ (q * m + r) % m = r
<1> DEFINE a == q * m + r
<1>1. a \in Nat
    OBVIOUS
<1>2. PICK b \in Nat, s \in Nat : a \div m = b /\ a % m = s /\ a = b * m + s /\ s < m
    OBVIOUS
<1>3. \A c, d \in Nat : c < d => c * m + m <= d * m
    OBVIOUS
<1>4. b = q
    BY <1>1, <1>2, <1>3
<1>5. s = r
    BY <1>1, <1>2, <1>4
<1> QED BY <1>2, <1>4, <1>5

\* A number more: one bit, and its place.
LEMMA RemainderNext ==
    ASSUME NEW z \in Nat, NEW n \in 0 .. IntBits - 1
    PROVE  z % Pow2[n + 1] = (z % Pow2[n]) + (IF Has(z, n) THEN Pow2[n] ELSE 0)
<1> DEFINE m == Pow2[n]
<1>1. m \in Nat /\ m >= 1 /\ Pow2[n + 1] = 2 * m
    BY Pow2Is, Pow2Positive, BitsAreEnough
<1> HIDE DEF m
<1>2. PICK q \in Nat, r \in Nat : z \div m = q /\ z % m = r /\ z = q * m + r /\ r < m
    BY <1>1
<1>3. PICK h \in Nat, b \in {0, 1} : q = 2 * h + b /\ q % 2 = b
    OBVIOUS
<1>4. Has(z, n) <=> b = 1
    BY <1>2, <1>3 DEF Has, m
<1>5. z = h * (2 * m) + (b * m + r) /\ b * m + r \in Nat /\ b * m + r < 2 * m
    <2>1. \A x, y \in Nat : (2 * x + 0) * y = x * (2 * y) /\ (2 * x + 1) * y = x * (2 * y) + y
        OBVIOUS
    <2> QED BY <1>1, <1>2, <1>3, <2>1
<1>6. z % (2 * m) = b * m + r
    <2>1. 2 * m \in Nat
        BY <1>1
    <2>2. (h * (2 * m) + (b * m + r)) % (2 * m) = b * m + r
        BY <1>5, <2>1, QuotientIs
    <2> QED BY <1>5, <2>2
<1>7. z % Pow2[n + 1] = b * m + r
    BY <1>1, <1>6
<1> QED BY <1>1, <1>2, <1>4, <1>7 DEF m

\* Two numbers one behind the other have the bits of both.
LEMMA BitsJoin ==
    ASSUME NEW x \in Nat, NEW k \in 0 .. IntBits, NEW y \in Nat, y < Pow2[k], NEW i \in 0 .. IntBits - 1
    PROVE  Has(x * Pow2[k] + y, i) <=> Has(x * Pow2[k], i) \/ Has(y, i)
<1>1. CASE i < k
    <2> DEFINE m == Pow2[i]
               h == Pow2[k - i - 1]
    <2>1. m \in Nat /\ m >= 1 /\ h \in Nat
        BY <1>1, Pow2Positive, BitsAreEnough
    <2>2. Pow2[k] = 2 * (m * h)
        <3>1. Pow2[k] = 2 * Pow2[k - 1]
            BY <1>1, Pow2Is, BitsAreEnough
        <3>2. Pow2[i + (k - i - 1)] = m * h
            BY <1>1, Pow2Sum, BitsAreEnough
        <3>3. i + (k - i - 1) = k - 1
            OBVIOUS
        <3> QED BY <3>1, <3>2, <3>3
    <2> HIDE DEF m, h
    <2>3. PICK q \in Nat, r \in Nat : y \div m = q /\ y = q * m + r /\ r < m
        BY <2>1
    <2>4. x * Pow2[k] = (2 * (x * h)) * m
        <3>1. \A a, b, c \in Nat : a * (2 * (b * c)) = (2 * (a * c)) * b
            OBVIOUS
        <3> QED BY <2>1, <2>2, <3>1
    <2>5. (x * Pow2[k]) \div m = 2 * (x * h)
        <3>1. 2 * (x * h) \in Nat /\ 0 < m
            BY <2>1
        <3>2. ((2 * (x * h)) * m + 0) \div m = 2 * (x * h)
            BY <2>1, <3>1, QuotientIs
        <3> QED BY <2>1, <2>4, <3>1, <3>2
    <2>6. (x * Pow2[k] + y) \div m = 2 * (x * h) + q
        <3>1. 2 * (x * h) + q \in Nat
            BY <2>1
        <3>2. ((2 * (x * h) + q) * m + r) \div m = 2 * (x * h) + q
            BY <2>1, <2>3, <3>1, QuotientIs
        <3>3. x * Pow2[k] + y = (2 * (x * h) + q) * m + r
            BY <2>1, <2>3, <2>4
        <3> QED BY <3>2, <3>3
    <2>7. \A a, b \in Nat : (2 * a) % 2 = 0 /\ (2 * a + b) % 2 = b % 2
        OBVIOUS
    <2>8. x * h \in Nat
        BY <2>1
    <2>9. (2 * (x * h)) % 2 = 0 /\ (2 * (x * h) + q) % 2 = q % 2
        BY <2>7, <2>8
    <2> QED BY <2>3, <2>5, <2>6, <2>9 DEF Has, m
<1>2. CASE i >= k
    <2> DEFINE m == Pow2[k]
               h == Pow2[i - k]
    <2>1. m \in Nat /\ m >= 1 /\ h \in Nat /\ h >= 1
        BY <1>2, Pow2Positive, BitsAreEnough
    <2>2. Pow2[i] = m * h
        <3>1. Pow2[k + (i - k)] = m * h
            BY <1>2, Pow2Sum, BitsAreEnough
        <3> QED BY <3>1
    <2>3. y < m
        OBVIOUS
    <2> HIDE DEF m, h
    <2>4. PICK q \in Nat, r \in Nat : x \div h = q /\ x = q * h + r /\ r < h
        BY <2>1
    <2>5. m * h \in Nat /\ r * m \in Nat /\ r * m + y \in Nat /\ r * m + y < m * h /\ r * m < m * h
        <3>1. \A a, b \in Nat : a < b => a * m + m <= m * b
            BY <2>1
        <3>2. r * m + m <= m * h
            BY <2>1, <2>4, <3>1
        <3>3. m * h \in Nat /\ r * m \in Nat
            BY <2>1
        <3> QED BY <2>1, <2>3, <3>2, <3>3
    <2>6. x * m = q * (m * h) + r * m
        BY <2>1, <2>4
    <2>7. (x * m) \div (m * h) = q
        BY <2>5, <2>6, QuotientIs
    <2>8. (x * m + y) \div (m * h) = q
        <3>1. x * m + y = q * (m * h) + (r * m + y)
            BY <2>1, <2>5, <2>6
        <3> QED BY <2>5, <3>1, QuotientIs
    <2>9. ~Has(y, i)
        <3>1. y < m * h
            <4>1. m <= m * h
                BY <2>1
            <4> QED BY <2>1, <2>3, <2>5, <4>1
        <3>2. (0 * (m * h) + y) \div (m * h) = 0
            BY <2>5, <3>1, QuotientIs
        <3>3. y \div (m * h) = 0
            BY <2>5, <3>2
        <3> QED BY <2>2, <3>3 DEF Has
    <2> QED BY <2>2, <2>7, <2>8, <2>9 DEF Has, m
<1> QED BY <1>1, <1>2, BitsAreEnough

-----------------------------------------------------------------------------
\* The bits of x and y, added up: those of any number that has both.
LEMMA OrsAre ==
    ASSUME NEW x \in Nat, NEW y \in Nat
    PROVE  /\ Ors(x, y) \in [0 .. IntBits -> Nat]
           /\ Ors(x, y)[0] = 0
           /\ \A n \in 1 .. IntBits : Ors(x, y)[n] =
                Ors(x, y)[n - 1] + (IF Has(x, n - 1) \/ Has(y, n - 1) THEN Pow2[n - 1] ELSE 0)
<1> DEFINE B(n) == IF Has(x, n - 1) \/ Has(y, n - 1) THEN Pow2[n - 1] ELSE 0
           F == [p \in Nat \X Nat |-> IF p[2] \in 1 .. IntBits THEN p[1] + B(p[2]) ELSE 0]
<1>0. ASSUME NEW n \in 1 .. IntBits PROVE B(n) \in Nat
    BY Pow2Is, BitsAreEnough
<1> HIDE DEF B
<1>1. F \in [Nat \X Nat -> Nat] /\ 0 \in Nat
    BY <1>0
<1>2. PICK g : Along(g, Nat, F, 0, IntBits)
    <2> HIDE DEF F
    <2> QED BY BitsAreEnough, <1>1, AlongNumbers
<1>3. /\ g \in [0 .. IntBits -> Nat] /\ g[0] = 0
      /\ \A n \in 1 .. IntBits : g[n] = F[<<g[n - 1], n>>]
    BY <1>2 DEF Along
<1>4. ASSUME NEW n \in 1 .. IntBits PROVE g[n] = g[n - 1] + B(n)
    <2>1. g[n - 1] \in Nat /\ n \in Nat
        BY BitsAreEnough, <1>3
    <2> QED BY <1>3, <2>1
<1>5. g = [n \in 0 .. IntBits |-> IF n = 0 THEN 0 ELSE g[n - 1] + B(n)]
    <2> HIDE DEF F
    <2> QED BY <1>3, <1>4, BitsAreEnough
<1> DEFINE or == Ors(x, y)
<1>6. or = [n \in 0 .. IntBits |-> IF n = 0 THEN 0 ELSE or[n - 1] + B(n)]
    BY <1>5, Zenon DEF Ors, B
<1> HIDE DEF or
<1>7. \A n \in 1 .. IntBits : or[n] = or[n - 1] + B(n)
    BY <1>6, BitsAreEnough
<1> DEFINE S == {n \in 0 .. IntBits : or[n] \in Nat}
<1>8. 0 \in S
    BY <1>6, BitsAreEnough
<1>9. ASSUME NEW n \in 0 .. IntBits - 1, n \in S PROVE n + 1 \in S
    <2>1. n + 1 \in 1 .. IntBits /\ (n + 1) - 1 = n /\ or[n] \in Nat /\ B(n + 1) \in Nat
        BY <1>0, <1>9, BitsAreEnough
    <2>2. or[n + 1] = or[n] + B(n + 1)
        BY <1>7, <2>1
    <2> QED BY <2>1, <2>2, BitsAreEnough
<1>11. \A n \in 0 .. IntBits : n \in S
    <2> HIDE DEF S
    <2> QED BY <1>8, <1>9, BitsAreEnough, UpTo
<1>10. or \in [0 .. IntBits -> Nat] /\ or[0] = 0
    BY <1>6, <1>11, BitsAreEnough
<1> QED BY <1>7, <1>10 DEF or, B

LEMMA OrsJoin ==
    ASSUME NEW x \in Nat, NEW y \in Nat, NEW z \in Nat, z < Pow2[IntBits],
           \A i \in 0 .. IntBits - 1 : Has(z, i) <=> Has(x, i) \/ Has(y, i)
    PROVE  Ors(x, y)[IntBits] = z
<1> DEFINE S == {n \in 0 .. IntBits : Ors(x, y)[n] = z % Pow2[n]}
<1>1. 0 \in S
    <2>1. Ors(x, y)[0] = 0 /\ Pow2[0] = 1
        BY OrsAre, Pow2Is
    <2>2. z % 1 = 0
        OBVIOUS
    <2> QED BY <2>1, <2>2, BitsAreEnough
<1>2. ASSUME NEW n \in 0 .. IntBits - 1, n \in S PROVE n + 1 \in S
    <2>1. n + 1 \in 1 .. IntBits /\ (n + 1) - 1 = n
        BY BitsAreEnough
    <2>2. Ors(x, y)[n + 1] = Ors(x, y)[n] + (IF Has(x, n) \/ Has(y, n) THEN Pow2[n] ELSE 0)
        BY <2>1, OrsAre
    <2>3. Ors(x, y)[n] = z % Pow2[n]
        BY <1>2
    <2>4. Ors(x, y)[n + 1] = z % Pow2[n + 1]
        BY <2>2, <2>3, RemainderNext
    <2> QED BY <2>1, <2>4, BitsAreEnough
<1>3. \A n \in 0 .. IntBits : n \in S
    <2> HIDE DEF S
    <2> QED BY <1>1, <1>2, BitsAreEnough, UpTo
<1>4. Ors(x, y)[IntBits] = z % Pow2[IntBits]
    BY <1>3, BitsAreEnough
<1>5. Pow2[IntBits] \in Nat
    BY Pow2Is, BitsAreEnough
<1>6. (0 * Pow2[IntBits] + z) % Pow2[IntBits] = z
    BY <1>5, QuotientIs
<1> QED BY <1>4, <1>5, <1>6

-----------------------------------------------------------------------------
LEMMA VersionIs ==
    ASSUME NEW v \in Version
    PROVE  /\ Len(v) \in Nat /\ DOMAIN v = 1 .. Len(v)
           /\ \A n \in 1 .. Len(v) : v[n].lead \in Nat /\ v[n].rest \in Nat
<1> DEFINE R == [lead : Nat, rest : Nat]
<1>1. v \in Seq(R)
    BY DEF Version
<1>2. \A r \in R : r.lead \in Nat /\ r.rest \in Nat
    OBVIOUS
<1> HIDE DEF R
<1> QED BY <1>1, <1>2

LEMMA AddendumIsNat ==
    ASSUME NEW v \in Version
    PROVE  Addendum(v) \in Nat
<1> DEFINE F == [p \in Nat \X Nat |-> IF p[2] \in 1 .. Len(v) THEN p[1] + v[p[2]].rest ELSE 0]
<1>0. Len(v) \in Nat /\ \A n \in 1 .. Len(v) : v[n].rest \in Nat
    BY VersionIs
<1>1. F \in [Nat \X Nat -> Nat] /\ 0 \in Nat
    BY <1>0
<1>2. PICK g : Along(g, Nat, F, 0, Len(v))
    <2> HIDE DEF F
    <2> QED BY <1>0, <1>1, AlongNumbers
<1>3. /\ g \in [0 .. Len(v) -> Nat] /\ g[0] = 0
      /\ \A n \in 1 .. Len(v) : g[n] = F[<<g[n - 1], n>>]
    BY <1>2 DEF Along
<1>4. ASSUME NEW n \in 1 .. Len(v) PROVE g[n] = g[n - 1] + v[n].rest
    <2>1. g[n - 1] \in Nat /\ n \in Nat
        BY <1>0, <1>3
    <2> QED BY <1>3, <2>1
<1>5. g = [n \in 0 .. Len(v) |-> IF n = 0 THEN 0 ELSE g[n - 1] + v[n].rest]
    <2> HIDE DEF F
    <2> QED BY <1>0, <1>3, <1>4
<1>6. Sums(v) = [n \in 0 .. Len(v) |-> IF n = 0 THEN 0 ELSE Sums(v)[n - 1] + v[n].rest]
    BY <1>5, Zenon DEF Sums
<1> DEFINE S == {n \in 0 .. Len(v) : Sums(v)[n] \in Nat}
<1>7. 0 \in S
    BY <1>0, <1>6
<1>8. ASSUME NEW n \in 0 .. Len(v) - 1, n \in S PROVE n + 1 \in S
    <2>1. n + 1 \in 1 .. Len(v) /\ (n + 1) - 1 = n /\ Sums(v)[n] \in Nat
        BY <1>0, <1>8
    <2>2. Sums(v)[n + 1] = Sums(v)[n] + v[n + 1].rest
        BY <1>0, <1>6, <2>1
    <2> QED BY <1>0, <2>1, <2>2
<1>9. \A n \in 0 .. Len(v) : n \in S
    <2> HIDE DEF S
    <2> QED BY <1>0, <1>7, <1>8, UpTo
<1> QED BY <1>0, <1>9 DEF Addendum

\* What a version that fits has in the places of its integer.
LEMMA PartsAre ==
    ASSUME NEW v \in Version
    PROVE  /\ \A i \in 1 .. VersionMax : Parts(v)[i] \in Nat
           /\ Fits(v) => /\ Parts(v)[VersionMax] = Addendum(v) /\ Lead(v, VersionMax) = 0
                         /\ \A i \in 1 .. VersionMax - 1 : Parts(v)[i] = Lead(v, i)
                         /\ \A i \in 1 .. VersionMax : Parts(v)[i] < Pow2[PartBits]
<1>1. VersionMax \in Nat /\ VersionMax >= 1 /\ DOMAIN v = 1 .. Len(v) /\ Len(v) \in Nat
    BY VersionIs, VersionAssumption
<1>2. Addendum(v) \in Nat
    BY AddendumIsNat
<1>3. \A i : Lead(v, i) \in Nat
    BY VersionIs DEF Lead
<1>4. \A i \in 1 .. VersionMax : Parts(v)[i] \in Nat
    BY <1>2, <1>3 DEF Parts
<1>5. ASSUME Fits(v)
      PROVE  /\ Parts(v)[VersionMax] = Addendum(v) /\ Lead(v, VersionMax) = 0
             /\ \A i \in 1 .. VersionMax - 1 : Parts(v)[i] = Lead(v, i)
             /\ \A i \in 1 .. VersionMax : Parts(v)[i] < Pow2[PartBits]
    <2>1. VersionMax \notin DOMAIN v
        BY <1>1, <1>5 DEF Fits
    <2>2. Parts(v)[VersionMax] = Addendum(v) /\ Lead(v, VersionMax) = 0
        BY <1>1, <2>1 DEF Parts, Lead
    <2>3. \A i \in 1 .. VersionMax - 1 : Parts(v)[i] = Lead(v, i)
        BY <1>1 DEF Parts
    <2>4. Addendum(v) < Pow2[PartBits] /\ \A i \in DOMAIN v : v[i].lead < Pow2[PartBits]
        BY <1>5 DEF Fits
    <2>5. 0 < Pow2[PartBits]
        BY Pow2Positive, BitsAreEnough
    <2>6. ASSUME NEW i \in 1 .. VersionMax PROVE Parts(v)[i] < Pow2[PartBits]
        BY <1>1, <2>2, <2>3, <2>4, <2>5 DEF Lead
    <2> QED BY <2>2, <2>3, <2>6
<1> QED BY <1>4, <1>5

\* The integer of a version that fits grows by a part at a time.
LEMMA IntsAre ==
    ASSUME NEW v \in Version, Fits(v)
    PROVE  /\ Ints(v) \in [0 .. VersionMax -> Nat]
           /\ Ints(v)[0] = 0
           /\ \A n \in 1 .. VersionMax : Ints(v)[n] = Ints(v)[n - 1] * Pow2[PartBits] + Parts(v)[n]
<1> DEFINE m == Pow2[PartBits]
           J(x, n) == Ors(x * m, Parts(v)[n])[IntBits]
           F == [p \in Nat \X Nat |-> IF p[2] \in 1 .. VersionMax THEN J(p[1], p[2]) ELSE 0]
<1>0. VersionMax \in Nat /\ VersionMax >= 1 /\ m \in Nat /\ \A n \in 1 .. VersionMax : Parts(v)[n] \in Nat
    BY VersionAssumption, PartsAre, Pow2Positive, BitsAreEnough
<1>1. ASSUME NEW x \in Nat, NEW n \in 1 .. VersionMax PROVE J(x, n) \in Nat
    <2>1. x * m \in Nat /\ Parts(v)[n] \in Nat
        BY <1>0
    <2>2. Ors(x * m, Parts(v)[n]) \in [0 .. IntBits -> Nat]
        BY <2>1, OrsAre
    <2> QED BY <2>2, BitsAreEnough
<1> HIDE DEF m, J
<1>2. F \in [Nat \X Nat -> Nat] /\ 0 \in Nat
    BY <1>1
<1>3. PICK g : Along(g, Nat, F, 0, VersionMax)
    <2> HIDE DEF F
    <2> QED BY <1>0, <1>2, AlongNumbers
<1>4. /\ g \in [0 .. VersionMax -> Nat] /\ g[0] = 0
      /\ \A n \in 1 .. VersionMax : g[n] = F[<<g[n - 1], n>>]
    BY <1>3 DEF Along
<1>5. ASSUME NEW n \in 1 .. VersionMax PROVE g[n] = J(g[n - 1], n)
    <2>1. g[n - 1] \in Nat /\ n \in Nat
        BY <1>0, <1>4
    <2> QED BY <1>4, <2>1
<1>6. g = [n \in 0 .. VersionMax |-> IF n = 0 THEN 0 ELSE J(g[n - 1], n)]
    <2> HIDE DEF F
    <2> QED BY <1>0, <1>4, <1>5
<1> DEFINE int == Ints(v)
<1>7. int = [n \in 0 .. VersionMax |-> IF n = 0 THEN 0 ELSE J(int[n - 1], n)]
    BY <1>6, Zenon DEF Ints, J, m
<1> HIDE DEF int
<1>8. int[0] = 0 /\ \A n \in 1 .. VersionMax : int[n] = J(int[n - 1], n)
    BY <1>0, <1>7
<1> DEFINE S == {n \in 0 .. VersionMax :
                    /\ int[n] \in Nat /\ int[n] < Pow2[n * PartBits]
                    /\ n > 0 => int[n] = int[n - 1] * m + Parts(v)[n]}
<1>9. 0 \in S
    <2>1. 0 * PartBits = 0
        BY BitsAreEnough
    <2> QED BY <1>0, <1>8, <2>1, Pow2Is
<1>10. ASSUME NEW n \in 0 .. VersionMax - 1, n \in S PROVE n + 1 \in S
    <2> DEFINE k == n * PartBits
               z == int[n] * m + Parts(v)[n + 1]
    <2>1. n + 1 \in 1 .. VersionMax /\ (n + 1) - 1 = n /\ n \in Nat
        BY <1>0
    <2>2. int[n] \in Nat /\ int[n] < Pow2[k] /\ Parts(v)[n + 1] \in Nat /\ Parts(v)[n + 1] < m
        BY <1>0, <1>10, <2>1, PartsAre DEF m
    <2>3. k \in Nat /\ k + PartBits <= IntBits /\ (n + 1) * PartBits = k + PartBits
        <3>1. \A a, b, c \in Nat : a + 1 <= b => (a + 1) * c = a * c + c /\ a * c + c <= b * c /\ a * c \in Nat
            OBVIOUS
        <3>2. n + 1 <= VersionMax /\ PartBits \in Nat
            BY <2>1, BitsAreEnough
        <3> QED BY <1>0, <2>1, <3>1, <3>2, VersionAssumption
    <2> HIDE DEF k
    <2>4. z \in Nat /\ z < Pow2[k + PartBits]
        <3>1. Pow2[k + PartBits] = Pow2[k] * m /\ Pow2[k] \in Nat
            <4>1. k \in Nat /\ PartBits \in Nat /\ k + PartBits <= IntBits /\ k \in 0 .. IntBits
                BY <2>3, BitsAreEnough
            <4>2. Pow2[k + PartBits] = Pow2[k] * Pow2[PartBits]
                BY <4>1, Pow2Sum
            <4> QED BY <4>1, <4>2, Pow2Positive DEF m
        <3>2. ASSUME NEW a \in Nat, NEW b \in Nat, NEW c \in Nat, NEW d \in Nat, a < b, c < d
              PROVE  a * d + c \in Nat /\ a * d + c < b * d
            <4>1. a * d + d <= b * d /\ a * d \in Nat /\ b * d \in Nat
                BY <3>2
            <4> QED BY <3>2, <4>1
        <3> HIDE DEF z
        <3>3. int[n] * m + Parts(v)[n + 1] \in Nat /\ int[n] * m + Parts(v)[n + 1] < Pow2[k] * m
            BY <1>0, <2>2, <3>1, <3>2
        <3> QED BY <3>1, <3>3 DEF z
    <2>5. z < Pow2[IntBits]
        <3> DEFINE h == Pow2[IntBits - (k + PartBits)]
        <3>1. Pow2[IntBits] = Pow2[k + PartBits] * h
            <4>1. (k + PartBits) + (IntBits - (k + PartBits)) = IntBits
                BY <2>3, BitsAreEnough
            <4> QED BY <2>3, <4>1, Pow2Sum, BitsAreEnough
        <3>2. h \in Nat /\ h >= 1 /\ Pow2[k + PartBits] \in Nat
            BY <2>3, Pow2Positive, BitsAreEnough
        <3>3. \A a, b \in Nat : b >= 1 => a <= a * b /\ a * b \in Nat
            OBVIOUS
        <3> HIDE DEF h
        <3> QED BY <2>4, <3>1, <3>2, <3>3
    <2>6. J(int[n], n + 1) = z
        <3>1. int[n] * m \in Nat
            BY <1>0, <2>2
        <3>2. \A i \in 0 .. IntBits - 1 : Has(z, i) <=> Has(int[n] * m, i) \/ Has(Parts(v)[n + 1], i)
            BY <2>2, BitsJoin, BitsAreEnough DEF m
        <3> HIDE DEF z
        <3> QED BY <2>2, <2>4, <2>5, <3>1, <3>2, OrsJoin DEF J
    <2>7. int[n + 1] = z
        BY <1>8, <2>1, <2>6
    <2> QED BY <2>1, <2>3, <2>4, <2>7 DEF k
<1>11. \A n \in 0 .. VersionMax : n \in S
    <2> HIDE DEF S
    <2> QED BY <1>0, <1>9, <1>10, UpTo
<1>12. int \in [0 .. VersionMax -> Nat]
    BY <1>7, <1>11
<1>13. \A n \in 1 .. VersionMax : int[n] = int[n - 1] * m + Parts(v)[n]
    BY <1>0, <1>11
<1> QED BY <1>8, <1>12, <1>13 DEF int, m

\* Numbers whose last parts are p and q.
LEMMA LastPart ==
    ASSUME NEW x \in Nat, NEW y \in Nat, NEW p \in Nat, NEW q \in Nat, NEW m \in Nat, p < m, q < m,
           NEW a, a = x * m + p, NEW b, b = y * m + q
    PROVE  /\ a < b <=> x < y \/ (x = y /\ p < q)
           /\ a = b <=> x = y /\ p = q
<1>1. \A c, d \in Nat : c < d => c * m + m <= d * m
    OBVIOUS
<1>2. x * m \in Nat /\ y * m \in Nat
    OBVIOUS
<1>3. CASE x < y
    BY <1>1, <1>2, <1>3
<1>4. CASE y < x
    BY <1>1, <1>2, <1>4
<1>5. CASE x = y
    BY <1>2, <1>5
<1> QED BY <1>3, <1>4, <1>5

\* The integers have the order of the first parts that differ.
LEMMA IntsOrder ==
    ASSUME NEW v \in Version, NEW w \in Version, Fits(v), Fits(w), NEW n \in 0 .. VersionMax
    PROVE  /\ Ints(v)[n] = Ints(w)[n] <=> \A i \in 1 .. n : Parts(v)[i] = Parts(w)[i]
           /\ Ints(v)[n] < Ints(w)[n] <=>
                \E i \in 1 .. n : Parts(v)[i] < Parts(w)[i] /\ \A j \in 1 .. i - 1 : Parts(v)[j] = Parts(w)[j]
<1> DEFINE a == Ints(v)
           b == Ints(w)
           p == Parts(v)
           q == Parts(w)
           m == Pow2[PartBits]
           Same(k) == \A i \in 1 .. k : p[i] = q[i]
           Below(k) == \E i \in 1 .. k : p[i] < q[i] /\ Same(i - 1)
           S == {k \in 0 .. VersionMax : (a[k] = b[k] <=> Same(k)) /\ (a[k] < b[k] <=> Below(k))}
<1>0. VersionMax \in Nat /\ m \in Nat
    BY VersionAssumption, Pow2Positive, BitsAreEnough
<1>1. /\ a[0] = 0 /\ b[0] = 0
      /\ \A k \in 0 .. VersionMax : a[k] \in Nat /\ b[k] \in Nat
      /\ \A k \in 1 .. VersionMax : /\ a[k] = a[k - 1] * m + p[k] /\ b[k] = b[k - 1] * m + q[k]
                                    /\ p[k] \in Nat /\ q[k] \in Nat /\ p[k] < m /\ q[k] < m
    BY IntsAre, PartsAre
<1> HIDE DEF a, b, p, q, m
<1>2. 0 \in S
    BY <1>0, <1>1
<1>3. ASSUME NEW k \in 0 .. VersionMax - 1, k \in S PROVE k + 1 \in S
    <2>1. k + 1 \in 1 .. VersionMax /\ (k + 1) - 1 = k /\ k \in Nat /\ k \in 0 .. VersionMax
        BY <1>0
    <2>2. /\ a[k + 1] = a[k] * m + p[k + 1] /\ b[k + 1] = b[k] * m + q[k + 1]
          /\ p[k + 1] \in Nat /\ q[k + 1] \in Nat /\ p[k + 1] < m /\ q[k + 1] < m
        BY <1>1, <2>1
    <2>3. a[k] \in Nat /\ b[k] \in Nat
        BY <1>1, <2>1
    <2>4. /\ a[k + 1] < b[k + 1] <=> a[k] < b[k] \/ (a[k] = b[k] /\ p[k + 1] < q[k + 1])
          /\ a[k + 1] = b[k + 1] <=> a[k] = b[k] /\ p[k + 1] = q[k + 1]
        <3>1. PICK x \in Nat, y \in Nat, c \in Nat, d \in Nat :
                  x = a[k] /\ y = b[k] /\ c = p[k + 1] /\ d = q[k + 1]
            BY <2>2, <2>3
        <3>2. /\ m \in Nat /\ c < m /\ d < m
              /\ a[k + 1] = x * m + c /\ b[k + 1] = y * m + d
            BY <1>0, <2>2, <3>1
        <3>3. /\ a[k + 1] < b[k + 1] <=> x < y \/ (x = y /\ c < d)
              /\ a[k + 1] = b[k + 1] <=> x = y /\ c = d
            BY <3>2, LastPart
        <3> QED BY <3>1, <3>3
    <2>5. Same(k + 1) <=> Same(k) /\ p[k + 1] = q[k + 1]
        BY <2>1
    <2>6. Below(k + 1) <=> Below(k) \/ (p[k + 1] < q[k + 1] /\ Same(k))
        <3> HIDE DEF Same
        <3>1. 1 .. k + 1 = (1 .. k) \cup {k + 1}
            BY <2>1
        <3> QED BY <2>1, <3>1
    <2>7. (a[k] = b[k] <=> Same(k)) /\ (a[k] < b[k] <=> Below(k))
        BY <1>3
    <2> HIDE DEF Same, Below
    <2> QED BY <2>1, <2>4, <2>5, <2>6, <2>7
<1>4. \A k \in 0 .. VersionMax : k \in S
    <2> HIDE DEF S
    <2> QED BY <1>0, <1>2, <1>3, UpTo
<1> QED BY <1>4 DEF a, b, p, q

\* For versions that fit, the order of their integers is the one that is meant.
LEMMA OlderIsLess ==
    ASSUME NEW v \in Version, NEW w \in Version, Fits(v), Fits(w)
    PROVE  /\ AsInt(v) \in Nat /\ AsInt(w) \in Nat
           /\ Older(v, w) <=> AsInt(v) < AsInt(w)
<1> DEFINE p == Parts(v)
           q == Parts(w)
           Same(k) == \A i \in 1 .. k : p[i] = q[i]
<1>0. VersionMax \in Nat /\ VersionMax >= 1
    BY VersionAssumption
<1>1. AsInt(v) \in Nat /\ AsInt(w) \in Nat
    BY <1>0, IntsAre DEF AsInt
<1>2. AsInt(v) < AsInt(w) <=> \E i \in 1 .. VersionMax : p[i] < q[i] /\ Same(i - 1)
    BY <1>0, IntsOrder DEF AsInt
<1>3. /\ p[VersionMax] = Addendum(v) /\ Lead(v, VersionMax) = 0
      /\ q[VersionMax] = Addendum(w) /\ Lead(w, VersionMax) = 0
      /\ \A i \in 1 .. VersionMax - 1 : p[i] = Lead(v, i) /\ q[i] = Lead(w, i)
    BY PartsAre
<1> HIDE DEF p, q
<1>4. \A k \in 0 .. VersionMax - 1 : Same(k) <=> \A i \in 1 .. k : Lead(v, i) = Lead(w, i)
    BY <1>0, <1>3
<1>5. Same(VersionMax - 1) <=> \A i \in 1 .. VersionMax : Lead(v, i) = Lead(w, i)
    <2>1. 1 .. VersionMax = (1 .. VersionMax - 1) \cup {VersionMax}
        BY <1>0
    <2> QED BY <1>3, <2>1
<1> HIDE DEF Same
<1>6. Older(v, w) <=> \/ \E i \in 1 .. VersionMax - 1 : p[i] < q[i] /\ Same(i - 1)
                      \/ p[VersionMax] < q[VersionMax] /\ Same(VersionMax - 1)
    <2>1. ASSUME NEW i \in 1 .. VersionMax - 1
          PROVE  (p[i] < q[i] /\ Same(i - 1)) <=>
                 (Lead(v, i) < Lead(w, i) /\ \A j \in 1 .. i - 1 : Lead(v, j) = Lead(w, j))
        <3>1. i - 1 \in 0 .. VersionMax - 1
            BY <1>0
        <3> QED BY <1>3, <1>4, <3>1
    <2>2. 1 .. VersionMax = (1 .. VersionMax - 1) \cup {VersionMax}
        BY <1>0
    <2>3. ~(Lead(v, VersionMax) < Lead(w, VersionMax))
        BY <1>3
    <2> QED BY <1>3, <1>5, <2>1, <2>2, <2>3 DEF Older
<1>7. 1 .. VersionMax = (1 .. VersionMax - 1) \cup {VersionMax}
    BY <1>0
<1> QED BY <1>1, <1>2, <1>6, <1>7

-----------------------------------------------------------------------------
\* A package that a manifest has, and what is asked of it.
PackageLike(p) == p.version \in Version /\ Fits(p.version)
QueryLike(q) ==
    /\ ~q.blank
    /\ q.kind = "spec" => q.ops \in Comparisons
    /\ q.version \in Version /\ Fits(q.version)

LEMMA MeetsIsAdmitted ==
    ASSUME NEW m, NEW q, QueryLike(q), \A i \in DOMAIN m : PackageLike(m[i])
    PROVE  Admitted(m, q) = {i \in DOMAIN m : Meets(m[i], q)}
<1> SUFFICES ASSUME NEW i \in DOMAIN m
             PROVE  Meets(m[i], q) <=>
                    /\ m[i].name = LookupName(q)
                    /\ IF q.kind = "spec" THEN Admits(q.ops, AsInt(m[i].version), AsInt(q.version)) ELSE ~q.blank
    BY DEF Admitted
<1>1. CASE q.kind # "spec"
    BY <1>1 DEF QueryLike, Meets, LookupName
<1>2. CASE q.kind = "spec"
    <2> DEFINE a == AsInt(m[i].version)
               b == AsInt(q.version)
    <2>1. /\ a \in Nat /\ b \in Nat
          /\ Older(m[i].version, q.version) <=> a < b
          /\ Older(q.version, m[i].version) <=> b < a
        BY OlderIsLess DEF PackageLike, QueryLike
    <2>2. LookupName(q) = q.name
        BY <1>2 DEF LookupName, QueryLike
    <2> HIDE DEF a, b
    <2>3. Meets(m[i], q) <=>
            /\ m[i].name = q.name
            /\ \/ ">" \in q.ops /\ b < a
               \/ "<" \in q.ops /\ a < b
               \/ "!" \in q.ops /\ (b < a \/ a < b)
               \/ q.ops \cap {"!", "~"} = {} /\ "=" \in q.ops /\ ~(b < a) /\ ~(a < b)
        BY <1>2, <2>1, Zenon DEF Meets
    <2>4. q.ops \in Comparisons
        BY <1>2 DEF QueryLike
    <2>5. CASE q.ops = {">"}
        BY <1>2, <2>1, <2>2, <2>3, <2>5 DEF Admits, a, b
    <2>6. CASE q.ops = {"<"}
        BY <1>2, <2>1, <2>2, <2>3, <2>6 DEF Admits, a, b
    <2>7. CASE q.ops = {"="}
        BY <1>2, <2>1, <2>2, <2>3, <2>7 DEF Admits, a, b
    <2>8. CASE q.ops = {">", "="}
        BY <1>2, <2>1, <2>2, <2>3, <2>8 DEF Admits, a, b
    <2>9. CASE q.ops = {"<", "="}
        BY <1>2, <2>1, <2>2, <2>3, <2>9 DEF Admits, a, b
    <2>10. CASE q.ops = {"!", "="}
        BY <1>2, <2>1, <2>2, <2>3, <2>10 DEF Admits, a, b
    <2>11. CASE q.ops = {"~", "="}
        BY <1>2, <2>1, <2>2, <2>3, <2>11 DEF Admits, a, b
    <2> QED BY <2>4, <2>5, <2>6, <2>7, <2>8, <2>9, <2>10, <2>11 DEF Comparisons
<1> QED BY <1>1, <1>2

-----------------------------------------------------------------------------
\* Some number of a finite sequence of them is the greatest.
LEMMA SomeIsGreatest ==
    ASSUME NEW n \in Nat, NEW D \in SUBSET (1 .. n), D # {}, NEW f \in [1 .. n -> Nat]
    PROVE  \E i \in D : \A j \in D : f[i] >= f[j]
<1> DEFINE Top(C) == \E i \in C : \A j \in C : f[i] >= f[j]
           S == {k \in 0 .. n : \A C : C # {} /\ C \subseteq 1 .. k => Top(C)}
<1>1. 0 \in S
    <2>1. \A C : ~(C # {} /\ C \subseteq 1 .. 0)
        OBVIOUS
    <2> QED BY <2>1
<1>2. ASSUME NEW k \in 0 .. n - 1, k \in S PROVE k + 1 \in S
    <2> SUFFICES ASSUME NEW C, C # {}, C \subseteq 1 .. k + 1
                 PROVE  Top(C)
        <3> HIDE DEF Top
        <3> QED OBVIOUS
    <2> DEFINE B == C \ {k + 1}
    <2>1. B \subseteq 1 .. k /\ \A i \in C : f[i] \in Nat
        OBVIOUS
    <2>2. CASE B = {}
        <3>1. C = {k + 1}
            BY <2>2
        <3> QED BY <2>1, <3>1
    <2>3. CASE B # {}
        <3>1. Top(B)
            <4> HIDE DEF B, Top
            <4> QED BY <1>2, <2>1, <2>3
        <3>2. PICK i \in B : \A j \in B : f[i] >= f[j]
            BY <3>1
        <3>3. CASE k + 1 \in C /\ f[k + 1] > f[i]
            <4>1. \A j \in C : f[k + 1] >= f[j]
                BY <2>1, <3>2, <3>3
            <4> QED BY <3>3, <4>1
        <3>4. CASE ~(k + 1 \in C /\ f[k + 1] > f[i])
            <4>1. \A j \in C : f[i] >= f[j]
                BY <2>1, <3>2, <3>4
            <4> QED BY <3>2, <4>1
        <3> QED BY <3>3, <3>4
    <2> QED BY <2>2, <2>3
<1>3. \A k \in 0 .. n : k \in S
    <2> HIDE DEF S
    <2> QED BY <1>1, <1>2, UpTo
<1>4. Top(D)
    <2> HIDE DEF Top
    <2>1. n \in S
        BY <1>3
    <2>2. D # {} /\ D \subseteq 1 .. n
        OBVIOUS
    <2> QED BY <2>1, <2>2
<1> QED BY <1>4

\* find_by_strspec finds, among the packages that are asked for, those that no other is
\* newer than, and it finds one if there is one.
LEMMA FindIsNewest ==
    ASSUME NEW R, NEW m \in Seq(R), NEW q, QueryLike(q), \A i \in DOMAIN m : PackageLike(m[i])
    PROVE  LET meeting == {m[i] : i \in {j \in DOMAIN m : Meets(m[j], q)}} IN
           /\ Find(m, q) = {p \in meeting : \A r \in meeting : ~Older(p.version, r.version)}
           /\ Find(m, q) = {} <=> meeting = {}
<1> DEFINE D == {j \in DOMAIN m : Meets(m[j], q)}
           meeting == {m[i] : i \in D}
           f == [i \in 1 .. Len(m) |-> AsInt(m[i].version)]
<1>0. Len(m) \in Nat /\ DOMAIN m = 1 .. Len(m)
    OBVIOUS
<1>1. ASSUME NEW i \in DOMAIN m, NEW j \in DOMAIN m
      PROVE  /\ AsInt(m[i].version) \in Nat
             /\ ~Older(m[i].version, m[j].version) <=> AsInt(m[i].version) >= AsInt(m[j].version)
    <2>1. /\ AsInt(m[i].version) \in Nat /\ AsInt(m[j].version) \in Nat
          /\ Older(m[i].version, m[j].version) <=> AsInt(m[i].version) < AsInt(m[j].version)
        BY OlderIsLess DEF PackageLike
    <2> QED BY <2>1
<1>2. Admitted(m, q) = D
    BY MeetsIsAdmitted
<1>3. Find(m, q) = {m[i] : i \in {j \in D : \A k \in D : AsInt(m[j].version) >= AsInt(m[k].version)}}
    BY <1>2 DEF Find
<1>4. Find(m, q) = {p \in meeting : \A r \in meeting : ~Older(p.version, r.version)}
    <2>1. \A i, j \in D : ~Older(m[i].version, m[j].version) <=> AsInt(m[i].version) >= AsInt(m[j].version)
        BY <1>1
    <2>2. {m[i] : i \in {j \in D : \A k \in D : AsInt(m[j].version) >= AsInt(m[k].version)}} =
          {m[i] : i \in {j \in D : \A k \in D : ~Older(m[j].version, m[k].version)}}
        BY <2>1
    <2> HIDE DEF D
    <2>3. {m[i] : i \in {j \in D : \A k \in D : ~Older(m[j].version, m[k].version)}} =
          {p \in meeting : \A r \in meeting : ~Older(p.version, r.version)}
        OBVIOUS
    <2> QED BY <1>3, <2>2, <2>3
<1>5. ASSUME meeting # {} PROVE Find(m, q) # {}
    <2>1. D # {} /\ D \in SUBSET (1 .. Len(m)) /\ f \in [1 .. Len(m) -> Nat]
        BY <1>0, <1>1, <1>5
    <2> HIDE DEF D, f
    <2>2. PICK i \in D : \A j \in D : f[i] >= f[j]
        BY <1>0, <2>1, SomeIsGreatest
    <2>3. \A j \in D : AsInt(m[i].version) >= AsInt(m[j].version)
        BY <2>1, <2>2 DEF f
    <2> QED BY <1>3, <2>3
<1>6. meeting = {} => Find(m, q) = {}
    BY <1>3
<1> QED BY <1>4, <1>5, <1>6

\* manifestlist_search: the answer comes from the last manifest that has one.
LEMMA SearchAnswersWith ==
    ASSUME NEW R, NEW list \in Seq(Seq(R)), NEW q, QueryLike(q),
           \A i \in DOMAIN list : \A j \in DOMAIN list[i] : PackageLike(list[i][j])
    PROVE  manifestlist_search(list, q) = AnswersWith(list, q)
<1> DEFINE meeting(m) == {m[i] : i \in {j \in DOMAIN m : Meets(m[j], q)}}
           D == {i \in DOMAIN list : meeting(list[i]) # {}}
           last == Max({0} \cup D)
<1>1. ASSUME NEW i \in DOMAIN list
      PROVE  /\ Find(list[i], q) = {p \in meeting(list[i]) : \A r \in meeting(list[i]) : ~Older(p.version, r.version)}
             /\ Find(list[i], q) = {} <=> meeting(list[i]) = {}
    <2>1. list[i] \in Seq(R)
        OBVIOUS
    <2> QED BY <2>1, FindIsNewest
<1>2. {i \in DOMAIN list : Find(list[i], q) # {}} = D
    BY <1>1
<1>0. AnswersWith(list, q) =
        IF last = 0 THEN {}
        ELSE {p \in meeting(list[last]) : \A r \in meeting(list[last]) : ~Older(p.version, r.version)}
    BY DEF AnswersWith
<1>3. D \in SUBSET (1 .. Len(list)) /\ Len(list) \in Nat /\ DOMAIN list = 1 .. Len(list)
    OBVIOUS
<1> HIDE DEF meeting
<1>4. CASE D = {}
    <2>1. last = 0
        <3>1. {0} \cup D = {0}
            BY <1>4
        <3>2. Max({0}) = CHOOSE x \in {0} : \A y \in {0} : x >= y
            BY DEF Max
        <3>3. Max({0}) = 0
            BY <3>2
        <3> QED BY <3>1, <3>3
    <2>2. manifestlist_search(list, q) = {}
        BY <1>2, <1>4 DEF manifestlist_search
    <2> QED BY <1>0, <2>1, <2>2
<1>5. CASE D # {}
    <2>1. PICK n \in D : \A i \in D : i <= n
        <3>1. D \in SUBSET Nat /\ \A i \in D : i <= Len(list)
            BY <1>3
        <3> HIDE DEF D
        <3> QED BY <1>3, <1>5, <3>1, GreatestOf
    <2>2. n \in 1 .. Len(list) /\ \A i \in D : i \in Nat /\ i >= 1
        BY <1>3
    <2> HIDE DEF D
    <2>3. Max(D) = n
        <3>1. n \in D /\ \A i \in D : n >= i
            BY <1>3, <2>1, <2>2
        <3>2. \A x \in D : (\A i \in D : x >= i) => x = n
            BY <1>3, <2>1, <2>2, <3>1
        <3> QED BY <3>1, <3>2 DEF Max
    <2>4. last = n
        <3>1. n \in {0} \cup D /\ \A i \in {0} \cup D : n >= i
            BY <1>3, <2>1, <2>2
        <3>2. \A x \in {0} \cup D : (\A i \in {0} \cup D : x >= i) => x = n
            BY <1>3, <2>1, <2>2, <3>1
        <3> QED BY <3>1, <3>2 DEF Max
    <2>5. manifestlist_search(list, q) = Find(list[n], q)
        BY <1>2, <1>5, <2>3 DEF manifestlist_search
    <2>6. AnswersWith(list, q) = {p \in meeting(list[n]) : \A r \in meeting(list[n]) : ~Older(p.version, r.version)}
        <3> HIDE DEF last
        <3>1. n # 0
            BY <2>2
        <3> QED BY <1>0, <2>4, <3>1
    <2> QED BY <1>1, <1>3, <2>2, <2>5, <2>6
<1> QED BY <1>4, <1>5
=============================================================================
