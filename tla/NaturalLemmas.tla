------------------------------ MODULE NaturalLemmas ------------------------------
(***************************************************************************)
(* Facts about sets of natural numbers that the proofs of several modules  *)
(* rest on: induction, as a statement about sets, and how the numbers of a *)
(* finite set are counted and ranked.                                      *)
(***************************************************************************)
EXTENDS FiniteSetTheorems, TLAPS

\* A set of naturals that is not empty has a least element.
LEMMA LeastNatural ==
    ASSUME NEW S, S \subseteq Nat, S # {}
    PROVE  \E m \in S : \A n \in S : m <= n
PROOF
<1> DEFINE Less == {ss \in Nat \X Nat : ss[1] < ss[2]}
<1>1. IsWellFoundedOn(Less, Nat)
    BY NatLessThanWellFounded DEF OpToRel
<1>2. PICK m \in S : \A n \in S : <<n, m>> \notin Less
    <2> HIDE DEF Less
    <2> QED BY <1>1, WFMin
<1>3. ASSUME NEW n \in S PROVE m <= n
    <2>1. ~(n < m)
        BY <1>2
    <2> QED BY <2>1
<1> QED BY <1>3

\* Induction over an interval: for a property P, with S the numbers that have it.
LEMMA Induction ==
    ASSUME NEW m \in Nat, NEW S, 0 \in S, \A n \in 0..m - 1 : n \in S => n + 1 \in S
    PROVE  0..m \subseteq S
PROOF
<1> DEFINE T == (0..m) \ S
<1> SUFFICES ASSUME T # {} PROVE FALSE
    OBVIOUS
<1>1. T \subseteq Nat
    OBVIOUS
<1>2. PICK k \in T : \A n \in T : k <= n
    <2> HIDE DEF T
    <2> QED BY <1>1, LeastNatural
<1>3. k # 0 /\ k - 1 \in 0..m - 1 /\ k - 1 \in S
    BY <1>2
<1> QED BY <1>2, <1>3

\* The same, downwards.
LEMMA DownwardInduction ==
    ASSUME NEW m \in Nat, NEW S, m \in S, \A n \in 1..m : n \in S => n - 1 \in S
    PROVE  0..m \subseteq S
PROOF
<1> DEFINE T == {n \in 0..m : m - n \in S}
<1>1. 0 \in T
    OBVIOUS
<1>2. \A n \in 0..m - 1 : n \in T => n + 1 \in T
    OBVIOUS
<1> HIDE DEF T
<1>3. 0..m \subseteq T
    BY <1>1, <1>2, Induction
<1>4. ASSUME NEW n \in 0..m PROVE n \in S
    <2>1. m - n \in T
        BY <1>3
    <2> QED BY <2>1 DEF T
<1> QED BY <1>4

LEMMA PartOfInterval ==
    ASSUME NEW a \in Int, NEW b \in Int, NEW S, S \subseteq a..b
    PROVE  IsFiniteSet(S) /\ Cardinality(S) \in Nat
PROOF
<1>1. IsFiniteSet(a..b)
    BY FS_Interval
<1>2. IsFiniteSet(S)
    BY <1>1, FS_Subset
<1> QED BY <1>2, FS_CardinalityType

\* Counting the members of S up to p, one number at a time.
LEMMA CountNext ==
    ASSUME NEW S, NEW p \in Nat
    PROVE  /\ IsFiniteSet({q \in 1..p : q \in S})
           /\ Cardinality({q \in 1..p : q \in S}) \in Nat
           /\ Cardinality({q \in 1..p + 1 : q \in S})
                = Cardinality({q \in 1..p : q \in S}) + (IF p + 1 \in S THEN 1 ELSE 0)
PROOF
<1> DEFINE T == {q \in 1..p : q \in S}
<1>1. IsFiniteSet(T)
    <2>1. IsFiniteSet(1..p) /\ T \subseteq 1..p
        BY FS_Interval
    <2> HIDE DEF T
    <2> QED BY <2>1, FS_Subset
<1>2. Cardinality(T) \in Nat
    BY <1>1, FS_CardinalityType
<1>3. {q \in 1..p + 1 : q \in S} = IF p + 1 \in S THEN T \union {p + 1} ELSE T
    OBVIOUS
<1>4. p + 1 \notin T
    OBVIOUS
<1> HIDE DEF T
<1>5. Cardinality(T \union {p + 1}) = Cardinality(T) + 1
    BY <1>1, <1>4, FS_AddElement
<1>6. CASE p + 1 \in S
    BY <1>1, <1>2, <1>3, <1>5, <1>6 DEF T
<1>7. CASE p + 1 \notin S
    BY <1>1, <1>2, <1>3, <1>7 DEF T
<1> QED BY <1>6, <1>7

\* Counting a set in two parts.
LEMMA DisjointUnion ==
    ASSUME NEW S, IsFiniteSet(S), NEW T, IsFiniteSet(T), S \intersect T = {}
    PROVE  /\ IsFiniteSet(S \union T)
           /\ Cardinality(S \union T) = Cardinality(S) + Cardinality(T)
           /\ Cardinality(S) \in Nat /\ Cardinality(T) \in Nat
PROOF
<1>1. Cardinality(S) \in Nat /\ Cardinality(T) \in Nat
    BY FS_CardinalityType
<1>2. IsFiniteSet(S \union T)
    BY FS_Union
<1>3. Cardinality(S \union T) = Cardinality(S) + Cardinality(T) - Cardinality(S \intersect T)
    BY FS_Union
<1>4. Cardinality(S \intersect T) = 0
    BY FS_EmptySet
<1> QED BY <1>1, <1>2, <1>3, <1>4

---------------------------------------------------------------------------

\* Shifting a set keeps its size.
LEMMA ShiftedSize ==
    ASSUME NEW S, S \subseteq Nat, IsFiniteSet(S), NEW c \in Nat,
           NEW T, T \subseteq Nat, \A k \in S : k + c \in T,
           \A t \in T : \E k \in S : t = k + c
    PROVE  IsFiniteSet(T) /\ Cardinality(T) = Cardinality(S)
PROOF
<1> DEFINE f == [k \in S |-> k + c]
<1>1. f \in [S -> T]
    OBVIOUS
<1>2. \A a, b \in S : f[a] = f[b] => a = b
    OBVIOUS
<1>3. \A t \in T : \E k \in S : f[k] = t
    OBVIOUS
<1> HIDE DEF f
<1>4. f \in Bijection(S, T)
    BY <1>1, <1>2, <1>3 DEF Bijection, Injection, Surjection, IsInjective
<1>5. ExistsBijection(S, T)
    BY <1>4 DEF ExistsBijection
<1> QED BY <1>5, FS_Bijection

\* The number of smaller members orders a finite set of naturals.
LEMMA RankStrict ==
    ASSUME NEW S, S \subseteq Nat, IsFiniteSet(S), NEW k \in S, NEW l \in S, k < l
    PROVE  Cardinality({j \in S : j < k}) < Cardinality({j \in S : j < l})
PROOF
<1> DEFINE K == {j \in S : j < k}
           L == {j \in S : j < l}
<1>1. L \subseteq S /\ k \in L /\ k \notin K
    OBVIOUS
<1>2. K \subseteq L
    <2> SUFFICES ASSUME NEW j \in S, j < k PROVE j < l
        OBVIOUS
    <2> QED OBVIOUS
<1> HIDE DEF K, L
<1>3. /\ IsFiniteSet(L) /\ IsFiniteSet(K) /\ Cardinality(K) <= Cardinality(L)
      /\ (Cardinality(L) = Cardinality(K) => L = K)
    BY <1>1, <1>2, FS_Subset
<1>4. Cardinality(K) \in Nat /\ Cardinality(L) \in Nat
    BY <1>3, FS_CardinalityType
<1>5. Cardinality(K) < Cardinality(L)
    BY <1>1, <1>3, <1>4
<1> QED BY <1>5 DEF K, L

\* Every rank below the size of the set is taken, by one member.
LEMMA RankExists ==
    ASSUME NEW S, S \subseteq Nat, IsFiniteSet(S), NEW n \in 0..Cardinality(S) - 1
    PROVE  \E k \in S : Cardinality({j \in S : j < k}) = n
PROOF
<1> DEFINE c == Cardinality(S)
           rank == [k \in S |-> Cardinality({j \in S : j < k})]
<1>1. c \in Nat
    BY FS_CardinalityType
<1>2. ASSUME NEW k \in S PROVE rank[k] \in 0..c - 1
    <2> DEFINE K == {j \in S : j < k}
    <2>1. K \subseteq S /\ k \notin K
        OBVIOUS
    <2> HIDE DEF K
    <2>2. IsFiniteSet(K) /\ Cardinality(K) <= c /\ (c = Cardinality(K) => S = K)
        BY <2>1, FS_Subset
    <2>3. Cardinality(K) \in Nat
        BY <2>2, FS_CardinalityType
    <2>4. Cardinality(K) \in 0..c - 1
        BY <1>1, <2>1, <2>2, <2>3
    <2> QED BY <2>4 DEF K
<1>3. rank \in [S -> 0..c - 1]
    BY <1>2
<1>4. \A k, l \in S : rank[k] = rank[l] => k = l
    <2> SUFFICES ASSUME NEW k \in S, NEW l \in S, rank[k] = rank[l], k # l PROVE FALSE
        OBVIOUS
    <2>1. k < l \/ l < k
        OBVIOUS
    <2>2. rank[k] < rank[l] \/ rank[l] < rank[k]
        BY <2>1, RankStrict
    <2> QED BY <1>2, <2>2
<1>5. IsFiniteSet(0..c - 1) /\ Cardinality(0..c - 1) = c
    BY <1>1, FS_Interval
<1> HIDE DEF rank
<1>6. rank \in Injection(S, 0..c - 1)
    BY <1>3, <1>4 DEF Injection, IsInjective
<1>7. rank \in Surjection(S, 0..c - 1)
    BY <1>5, <1>6, FS_Injection
<1>8. PICK k \in S : rank[k] = n
    BY <1>7 DEF Surjection
<1> QED BY <1>8 DEF rank
---------------------------------------------------------------------------

LEMMA ProductStep ==
    ASSUME NEW w \in Nat, NEW a \in Int, NEW b \in Int, a < b
    PROVE  w * a + w <= w * b
PROOF
<1>1. PICK d \in Nat : b = a + 1 + d
    <2>1. b = a + 1 + (b - a - 1) /\ b - a - 1 \in Nat
        OBVIOUS
    <2> QED BY <2>1
<1>2. w * b = w * a + w + w * d
    BY <1>1
<1>3. w * d >= 0
    OBVIOUS
<1> QED BY <1>2, <1>3

LEMMA DivMod ==
    ASSUME NEW w \in Nat, w > 0, NEW i \in Nat
    PROVE  i = w * (i \div w) + (i % w) /\ i \div w \in Int /\ i % w \in 0..w - 1
PROOF OBVIOUS

\* Two multiples of w are not less than w apart.
LEMMA MultipleOnce ==
    ASSUME NEW w \in Nat, w > 0, NEW i \in Nat, i % w = 0,
           NEW j \in Nat, j <= i, i - w < j
    PROVE  j % w = 0 <=> j = i
PROOF
<1>1. i = w * (i \div w) /\ i \div w \in Int
    BY DivMod
<1> SUFFICES ASSUME j % w = 0, j < i PROVE FALSE
    OBVIOUS
<1>2. j = w * (j \div w) /\ j \div w \in Int
    BY DivMod
<1>3. CASE j \div w < i \div w
    <2>1. w * (j \div w) + w <= w * (i \div w)
        BY <1>1, <1>2, <1>3, ProductStep
    <2> QED BY <1>1, <1>2, <2>1
<1>4. CASE j \div w = i \div w
    BY <1>1, <1>2, <1>4
<1>5. CASE i \div w < j \div w
    <2>1. w * (i \div w) + w <= w * (j \div w)
        BY <1>1, <1>2, <1>5, ProductStep
    <2> QED BY <1>1, <1>2, <2>1
<1> QED BY <1>1, <1>2, <1>3, <1>4, <1>5

LEMMA MultipleNext ==
    ASSUME NEW w \in Nat, w > 0, NEW i \in Nat, i % w = 0
    PROVE  (i + w) % w = 0
PROOF
<1> DEFINE q == i \div w
           d == (i + w) \div w
           r == (i + w) % w
<1>1. i = w * q /\ q \in Int
    BY DivMod
<1>2. i + w = w * d + r /\ d \in Int /\ r \in 0..w - 1
    BY DivMod
<1> HIDE DEF q, d, r
<1>3. w * (q + 1) = w * q + w /\ w * q \in Int /\ w * d \in Int
    BY <1>1, <1>2
<1>4. CASE d < q + 1
    <2>1. w * d + w <= w * (q + 1)
        BY <1>1, <1>2, <1>4, ProductStep
    <2> QED BY <1>1, <1>2, <1>3, <2>1
<1>5. CASE d = q + 1
    BY <1>1, <1>2, <1>3, <1>5 DEF r
<1>6. CASE q + 1 < d
    <2>1. w * (q + 1) + w <= w * d
        BY <1>1, <1>2, <1>6, ProductStep
    <2> QED BY <1>1, <1>2, <1>3, <2>1
<1> QED BY <1>1, <1>2, <1>4, <1>5, <1>6

\* The remainder is the only one.
LEMMA Quotient ==
    ASSUME NEW w \in Nat \ {0}, NEW q \in Int, NEW r \in 0..w - 1, NEW p \in Int, NEW s \in 0..w - 1,
           w * q + r = w * p + s
    PROVE  r = s
PROOF
<1>1. CASE q = p
    BY <1>1
<1>2. CASE q < p
    <2>1. w * p >= w * (q + 1) /\ w * (q + 1) = w * q + w
        BY <1>2
    <2> DEFINE x == w * q
               y == w * p
    <2>2. x \in Int /\ y \in Int /\ y >= x + w /\ x + r = y + s
        BY <2>1
    <2> HIDE DEF x, y
    <2> QED BY <2>2
<1>3. CASE p < q
    <2>1. w * q >= w * (p + 1) /\ w * (p + 1) = w * p + w
        BY <1>3
    <2> DEFINE x == w * q
               y == w * p
    <2>2. x \in Int /\ y \in Int /\ x >= y + w /\ x + r = y + s
        BY <2>1
    <2> HIDE DEF x, y
    <2> QED BY <2>2
<1> QED BY <1>1, <1>2, <1>3

\* Adding is the same before and after a wrap.
LEMMA ModStep ==
    ASSUME NEW w \in Nat \ {0}, NEW x \in Int, NEW k \in Int
    PROVE  ((x % w) + k) % w = (x + k) % w
PROOF
<1> DEFINE a == x % w
           b == (a + k) % w
           c == (x + k) % w
<1>1. w \in Nat \ {0}
    OBVIOUS
<1>2. a \in 0..w - 1 /\ x = w * (x \div w) + a /\ x \div w \in Int
    BY <1>1
<1> HIDE DEF a
<1>3. b \in 0..w - 1 /\ a + k = w * ((a + k) \div w) + b /\ (a + k) \div w \in Int
    BY <1>1, <1>2
<1>4. c \in 0..w - 1 /\ x + k = w * ((x + k) \div w) + c /\ (x + k) \div w \in Int
    BY <1>1
<1> DEFINE p == x \div w
           q == (a + k) \div w
           r == (x + k) \div w
<1> HIDE DEF b, c, p, q, r
<1>5. w * (p + q) + b = w * r + c
    <2>1. w * (p + q) = w * p + w * q
        BY <1>1, <1>2, <1>3 DEF p, q
    <2> DEFINE u == w * p
               v == w * q
               z == w * r
    <2>2. u \in Int /\ v \in Int /\ z \in Int
        BY <1>1, <1>2, <1>3, <1>4 DEF p, q, r
    <2>3. x = u + a /\ a + k = v + b /\ x + k = z + c
        BY <1>2, <1>3, <1>4 DEF p, q, r
    <2> HIDE DEF u, v, z
    <2>4. u + v + b = z + c
        BY <1>2, <1>3, <1>4, <2>2, <2>3
    <2> QED BY <2>1, <2>4 DEF u, v, z
<1>6. p + q \in Int /\ r \in Int
    BY <1>2, <1>3, <1>4 DEF p, q, r
<1>7. b = c
    BY <1>1, <1>3, <1>4, <1>5, <1>6, Quotient
<1> QED BY <1>7 DEF a, b, c
---------------------------------------------------------------------------
(* Recursive functions on an interval exist.                               *)

Solves(f, m, N, s, G) == f[m] = s /\ \A n \in m + 1..N : f[n] = G[n][f[n - 1]]

LEMMA Recursion ==
    ASSUME NEW m \in Nat, NEW N \in Nat, m <= N, NEW S, NEW s \in S, NEW G \in [m + 1..N -> [S -> S]]
    PROVE  \E f \in [m..N -> S] : Solves(f, m, N, s, G)
PROOF
<1> DEFINE Partial(f, k) == f[m] = s /\ \A n \in m + 1..m + k : f[n] = G[n][f[n - 1]]
           T == {k \in 0..N - m : \E f \in [m..m + k -> S] : Partial(f, k)}
<1>1. 0 \in T
    <2> DEFINE f == [n \in m..m + 0 |-> s]
    <2>1. f \in [m..m + 0 -> S] /\ Partial(f, 0)
        OBVIOUS
    <2>2. 0 \in 0..N - m
        OBVIOUS
    <2> HIDE DEF Partial, f
    <2> QED BY <2>1, <2>2
<1>2. ASSUME NEW k \in 0..N - m - 1, k \in T PROVE k + 1 \in T
    <2>1. PICK f \in [m..m + k -> S] : Partial(f, k)
        BY <1>2
    <2> DEFINE x == G[m + k + 1][f[m + k]]
               g == [n \in m..m + (k + 1) |-> IF n = m + k + 1 THEN x ELSE f[n]]
    <2>2. m + k \in m..m + k /\ f[m + k] \in S /\ m + k + 1 \in m + 1..N
        OBVIOUS
    <2>3. x \in S
        <3> HIDE DEF T
        <3> QED BY <2>2
    <2> HIDE DEF x
    <2>4. g \in [m..m + (k + 1) -> S]
        BY <2>3
    <2>5. \A n \in m..m + k : g[n] = f[n]
        OBVIOUS
    <2>6. g[m] = s
        BY <2>1, <2>5
    <2>7. ASSUME NEW n \in m + 1..m + (k + 1) PROVE g[n] = G[n][g[n - 1]]
        <3>1. CASE n = m + k + 1
            <4>1. g[n] = x /\ n - 1 = m + k /\ g[n - 1] = f[m + k]
                BY <3>1
            <4> HIDE DEF g
            <4> QED BY <3>1, <4>1 DEF x
        <3>2. CASE n # m + k + 1
            <4>1. n \in m + 1..m + k /\ n - 1 \in m..m + k /\ n \in m..m + k
                BY <3>2
            <4>2. f[n] = G[n][f[n - 1]]
                BY <2>1, <4>1
            <4> HIDE DEF g
            <4> QED BY <2>5, <4>1, <4>2
        <3> QED BY <3>1, <3>2
    <2>8. k + 1 \in 0..N - m
        OBVIOUS
    <2>9. Partial(g, k + 1)
        <3> HIDE DEF g
        <3> QED BY <2>6, <2>7
    <2> HIDE DEF Partial, g
    <2> QED BY <2>4, <2>8, <2>9
<1>3. N - m \in T
    <2> HIDE DEF T
    <2>1. N - m \in Nat /\ N - m \in 0..N - m
        OBVIOUS
    <2>2. 0..N - m \subseteq T
        BY <1>1, <1>2, <2>1, Induction
    <2> QED BY <2>1, <2>2
<1>4. m + (N - m) = N
    OBVIOUS
<1> QED BY <1>3, <1>4 DEF Solves
=================================================================================
