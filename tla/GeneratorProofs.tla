----------------------------- MODULE GeneratorProofs -----------------------------
(***************************************************************************)
(* The generators write a string so that it reads back, or a beginning of  *)
(* it, and indent by the depth, for every set of values and every width of *)
(* the vector loops.                                                       *)
(***************************************************************************)
EXTENDS WriteJson, NaturalLemmas, SequenceTheorems

---------------------------------------------------------------------------
(* Escapes.                                                                *)

Needy == {Quote, Backslash} \union 0..31

Code(c) == IF ESCAPED(c) = 0 THEN <<c>> ELSE Escape(c)

LEMMA EscapedIs ==
    ASSUME NEW c \in Byte
    PROVE  ESCAPED(c) \in Nat /\ (ESCAPED(c) # 0 <=> c \in Needy)
PROOF BY DEF ESCAPED, Needy, Byte, Quote, Backslash, LetterU

LEMMA DigitType ==
    ASSUME NEW n \in Nat
    PROVE  HexDigit(n) \in Nat
PROOF BY DEF HexDigit

LEMMA EscapeType ==
    ASSUME NEW c \in Byte
    PROVE  Escape(c) \in Seq(Nat) /\ Code(c) \in Seq(Nat)
PROOF
<1>1. ESCAPED(c) \in Nat /\ c \in Nat /\ Backslash \in Nat
    BY EscapedIs DEF Byte, Backslash
<1>2. c \div 16 \in Nat /\ c % 16 \in Nat
    BY <1>1
<1>3. HexDigit(c \div 16) \in Nat /\ HexDigit(c % 16) \in Nat
    BY <1>2, DigitType
<1>4. Escape(c) \in Seq(Nat)
    BY <1>1, <1>3 DEF Escape
<1> QED BY <1>1, <1>4 DEF Code

LEMMA BytesAreNat ==
    ASSUME NEW s \in Seq(Byte)
    PROVE  s \in Seq(Nat) /\ Len(s) \in Nat
PROOF
<1>1. Byte \subseteq Nat
    BY DEF Byte
<1>2. s \in Seq(Nat)
    BY <1>1, SeqMonotonic
<1> QED BY <1>2

LEMMA SliceType ==
    ASSUME NEW s \in Seq(Byte), NEW a \in Nat, a > 0, NEW b \in Int, b <= Len(s)
    PROVE  SubSeq(s, a, b) \in Seq(Nat)
PROOF
<1>1. s \in Seq(Nat)
    BY BytesAreNat
<1>2. \A i \in a..b : s[i] \in Nat
    BY <1>1
<1> QED BY <1>2, SubSeqProperties

LEMMA EmptySlice ==
    ASSUME NEW s, NEW k \in Int
    PROVE  SubSeq(s, k + 1, k) = << >>
PROOF
<1>1. k + 1 \in Int /\ k < k + 1
    OBVIOUS
<1> QED BY <1>1, SubSeqEmpty

LEMMA Associative ==
    ASSUME NEW a \in Seq(Nat), NEW b \in Seq(Nat), NEW c \in Seq(Nat)
    PROVE  (a \o b) \o c = a \o (b \o c)
PROOF BY ConcatAssociative

LEMMA Joins ==
    ASSUME NEW a \in Seq(Nat), NEW b \in Seq(Nat)
    PROVE  a \o b \in Seq(Nat)
PROOF BY ConcatProperties

---------------------------------------------------------------------------
(* The text of a string, character by character.                           *)

LEMMA EncodedDef ==
    ASSUME text \in Seq(Byte)
    PROVE  /\ encoded \in [0..Len(text) -> Seq(Nat)]
           /\ encoded[0] = <<Quote>>
           /\ \A n \in 1..Len(text) : encoded[n] = encoded[n - 1] \o Code(text[n])
PROOF
<1> DEFINE N == Len(text)
           S == Seq(Nat)
           q == <<Quote>>
           join(s, n) == s \o Code(text[n])
           G == [n \in 0 + 1..N |-> [s \in S |-> join(s, n)]]
           body(f) == [n \in 0..N |-> IF n = 0 THEN q ELSE join(f[n - 1], n)]
<1>1. N \in Nat /\ 0 \in Nat /\ 0 <= N
    OBVIOUS
<1>2. \A n \in 1..N, s \in S : join(s, n) \in S
    BY EscapeType
<1>3. q \in S
    BY DEF Quote
<1> HIDE DEF S, q, join
<1>4. G \in [0 + 1..N -> [S -> S]]
    BY <1>2
<1>5. PICK f \in [0..N -> S] : f[0] = q /\ \A n \in 0 + 1..N : f[n] = G[n][f[n - 1]]
    <2> DEFINE z == 0
    <2>1. z \in Nat /\ z <= N /\ G \in [z + 1..N -> [S -> S]]
        BY <1>1, <1>4
    <2> HIDE DEF N, G, z
    <2>2. \E f \in [z..N -> S] : Solves(f, z, N, q, G)
        BY <1>1, <1>3, <2>1, Recursion
    <2> QED BY <2>2 DEF z, Solves
<1>6. \A n \in 1..N : f[n] = join(f[n - 1], n)
    <2> SUFFICES ASSUME NEW n \in 1..N PROVE f[n] = join(f[n - 1], n)
        OBVIOUS
    <2>1. n \in 0 + 1..N /\ n - 1 \in 0..N
        BY <1>1
    <2>2. G[n][f[n - 1]] = join(f[n - 1], n)
        <3>1. f[n - 1] \in S
            BY <2>1
        <3> QED BY <2>1, <3>1
    <2> HIDE DEF G
    <2> QED BY <1>5, <2>1, <2>2
<1>7. f = body(f)
    <2>1. \A n \in 0..N : f[n] = IF n = 0 THEN q ELSE join(f[n - 1], n)
        BY <1>5, <1>6
    <2> QED BY <2>1
<1>8. encoded = CHOOSE g : g = body(g)
    BY DEF encoded, Code, q, join
<1>9. encoded = body(encoded)
    <2> HIDE DEF body
    <2> QED BY <1>7, <1>8
<1>10. encoded = [n \in 0..N |-> IF n = 0 THEN q ELSE join(encoded[n - 1], n)]
    BY <1>9
<1>11. encoded[0] = q /\ \A n \in 1..N : encoded[n] = join(encoded[n - 1], n)
    BY <1>1, <1>10
<1>12. ASSUME NEW n \in 0..N PROVE encoded[n] = f[n]
    <2> DEFINE T == {k \in 0..N : encoded[k] = f[k]}
    <2>1. 0 \in T
        BY <1>1, <1>5, <1>11
    <2>2. ASSUME NEW k \in 0..N - 1, k \in T PROVE k + 1 \in T
        <3>1. k + 1 \in 1..N /\ (k + 1) - 1 = k /\ k + 1 \in 0..N
            BY <1>1
        <3>2. encoded[k + 1] = join(encoded[k], k + 1) /\ f[k + 1] = join(f[k], k + 1)
            BY <1>6, <1>11, <3>1
        <3> QED BY <2>2, <3>1, <3>2
    <2> HIDE DEF T
    <2>3. 0..N \subseteq T
        BY <1>1, <2>1, <2>2, Induction
    <2> QED BY <2>3 DEF T
<1>13. encoded \in [0..N -> S]
    BY <1>10, <1>12
<1> QED BY <1>11, <1>13 DEF S, q, join

\* Characters that need no escape are written as they are.
LEMMA CleanRun ==
    ASSUME text \in Seq(Byte), NEW p \in 0..Len(text), NEW q \in p..Len(text),
           \A k \in p + 1..q : ESCAPED(text[k]) = 0
    PROVE  encoded[q] = encoded[p] \o SubSeq(text, p + 1, q)
PROOF
<1> DEFINE N == Len(text)
           T == {j \in 0..q - p : encoded[p + j] = encoded[p] \o SubSeq(text, p + 1, p + j)}
<1>0. p \in 0..N /\ q \in p..N /\ N \in Nat /\ text \in Seq(Nat)
    <2>1. Byte \subseteq Nat
        BY DEF Byte
    <2>2. text \in Seq(Nat)
        BY <2>1, SeqMonotonic
    <2> QED BY <2>2
<1>1. N \in Nat /\ q - p \in Nat /\ text \in Seq(Nat) /\ encoded[p] \in Seq(Nat)
    <2>1. encoded[p] \in Seq(Nat)
        BY EncodedDef
    <2> HIDE DEF N
    <2> QED BY <1>0, <2>1
<1>2. 0 \in T
    <2>1. SubSeq(text, p + 1, p + 0) = << >>
        BY <1>1, SubSeqEmpty
    <2>2. encoded[p] \o << >> = encoded[p]
        BY <1>1, ConcatEmptySeq
    <2>3. p + 0 = p /\ 0 \in 0..q - p
        BY <1>0, <1>1
    <2> QED BY <2>1, <2>2, <2>3
<1>3. ASSUME NEW j \in 0..q - p - 1, j \in T PROVE j + 1 \in T
    <2> DEFINE n == p + (j + 1)
               a == encoded[p]
               b == SubSeq(text, p + 1, n - 1)
               c == <<text[n]>>
    <2>1. n \in 1..N /\ n - 1 = p + j /\ n \in p + 1..q /\ p + 1 \in 1..N /\ n \in p + 1..N
        BY <1>1
    <2>2. encoded[n] = encoded[n - 1] \o Code(text[n])
        BY <2>1, EncodedDef
    <2>3. Code(text[n]) = c
        BY <2>1 DEF Code
    <2>4. encoded[n - 1] = a \o b
        BY <1>3, <2>1
    <2>5. SubSeq(text, p + 1, n) = b \o c
        <3>1. SubSeq(text, p + 1, n) = SubSeq(text, p + 1, n - 1) \o <<text[n]>>
            BY <1>1, <2>1, SubSeqRecursiveSecond
        <3> QED BY <3>1
    <2>6. a \in Seq(Nat) /\ b \in Seq(Nat) /\ c \in Seq(Nat)
        <3>1. c \in Seq(Nat)
            BY <1>1, <2>1
        <3>2. b \in Seq(Nat)
            <4>1. \A i \in p + 1..n - 1 : text[i] \in Nat
                BY <1>1, <2>1
            <4>2. p + 1 \in Int /\ n - 1 \in Int
                BY <2>1
            <4> HIDE DEF n
            <4> QED BY <4>1, <4>2, SubSeqProperties
        <3> QED BY <1>1, <3>1, <3>2
    <2> HIDE DEF a, b, c
    <2>7. (a \o b) \o c = a \o (b \o c)
        BY <2>6, Associative
    <2>8. encoded[n] = a \o SubSeq(text, p + 1, n)
        <3> HIDE DEF n
        <3> QED BY <2>2, <2>3, <2>4, <2>5, <2>7
    <2>9. j + 1 \in 0..q - p
        BY <1>1
    <2> QED BY <2>8, <2>9 DEF a, n
<1>4. q - p \in T
    <2> HIDE DEF T
    <2>1. 0..q - p \subseteq T
        BY <1>1, <1>2, <1>3, Induction
    <2> QED BY <1>1, <2>1
<1>5. p + (q - p) = q
    OBVIOUS
<1> QED BY <1>4, <1>5

LEMMA EscapedOne ==
    ASSUME text \in Seq(Byte), NEW n \in 1..Len(text), ESCAPED(text[n]) # 0
    PROVE  encoded[n] = encoded[n - 1] \o Escape(text[n])
PROOF BY EncodedDef DEF Code

\* The text of the first characters is the beginning of the whole.
LEMMA Beginning ==
    ASSUME text \in Seq(Byte), NEW m \in 0..Len(text)
    PROVE  \E s \in Seq(Nat) : Encoded = encoded[m] \o s
PROOF
<1> DEFINE N == Len(text)
           T == {n \in Nat : n \in 0..N /\ \E s \in Seq(Nat) : Encoded = encoded[n] \o s}
<1>1. N \in Nat
    OBVIOUS
<1>2. N \in T
    <2> DEFINE last == <<Quote>>
    <2>1. last \in Seq(Nat) /\ N \in 0..N
        BY <1>1 DEF Quote
    <2>2. Encoded = encoded[N] \o last
        BY DEF Encoded
    <2> HIDE DEF last, N
    <2> QED BY <1>1, <2>1, <2>2
<1>3. ASSUME NEW n \in 1..N, n \in T PROVE n - 1 \in T
    <2>1. PICK s \in Seq(Nat) : Encoded = encoded[n] \o s
        BY <1>3
    <2> DEFINE a == encoded[n - 1]
               b == Code(text[n])
    <2>2. encoded[n] = a \o b
        BY EncodedDef
    <2>3. a \in Seq(Nat) /\ b \in Seq(Nat)
        <3>1. n - 1 \in 0..N /\ text[n] \in Byte
            BY <1>1
        <3> QED BY <3>1, EncodedDef, EscapeType
    <2> HIDE DEF a, b
    <2>4. (a \o b) \o s = a \o (b \o s)
        BY <2>1, <2>3, Associative
    <2>6. b \o s \in Seq(Nat)
        BY <2>1, <2>3, Joins
    <2>5. n - 1 \in Nat /\ n - 1 \in 0..N
        BY <1>1
    <2> QED BY <2>1, <2>2, <2>4, <2>5, <2>6 DEF a
<1>4. 0..N \subseteq T
    <2> HIDE DEF T
    <2> QED BY <1>1, <1>2, <1>3, DownwardInduction
<1> QED BY <1>4

LEMMA PrefixOf ==
    ASSUME NEW S, NEW s \in Seq(S), NEW t \in Seq(S), NEW u \in Seq(S), NEW n \in 0..Len(t)
    PROVE  IsPrefix(s \o SubSeq(t, 1, n), (s \o t) \o u)
PROOF
<1> DEFINE b == SubSeq(t, 1, n)
           x == s \o b
           y == (s \o t) \o u
<1>1. \A i \in 1..n : t[i] \in S
    OBVIOUS
<1>2. b \in Seq(S) /\ Len(b) = n /\ \A i \in 1..n : b[i] = t[i]
    BY <1>1, SubSeqProperties
<1> HIDE DEF b
<1>3. /\ x \in Seq(S) /\ Len(x) = Len(s) + n
      /\ \A i \in 1..Len(s) + n : x[i] = IF i <= Len(s) THEN s[i] ELSE b[i - Len(s)]
    BY <1>2, ConcatProperties
<1>4. /\ s \o t \in Seq(S) /\ Len(s \o t) = Len(s) + Len(t)
      /\ \A i \in 1..Len(s) + Len(t) : (s \o t)[i] = IF i <= Len(s) THEN s[i] ELSE t[i - Len(s)]
    BY ConcatProperties
<1> DEFINE st == s \o t
<1> HIDE DEF st
<1>5. /\ y \in Seq(S) /\ Len(y) = Len(s) + Len(t) + Len(u)
      /\ \A i \in 1..Len(s) + Len(t) : y[i] = st[i]
    BY <1>4, ConcatProperties DEF st
<1> HIDE DEF x, y
<1>6. Len(s) \in Nat /\ Len(t) \in Nat /\ Len(u) \in Nat
    OBVIOUS
<1>7. ASSUME NEW i \in 1..Len(x) PROVE x[i] = y[i]
    <2>1. i \in 1..Len(s) + n /\ i \in 1..Len(s) + Len(t)
        BY <1>3, <1>6
    <2>2. x[i] = IF i <= Len(s) THEN s[i] ELSE b[i - Len(s)]
        BY <1>3, <2>1
    <2>3. y[i] = IF i <= Len(s) THEN s[i] ELSE t[i - Len(s)]
        BY <1>4, <1>5, <2>1 DEF st
    <2>4. CASE i <= Len(s)
        BY <2>2, <2>3, <2>4
    <2>5. CASE ~(i <= Len(s))
        <3>1. i - Len(s) \in 1..n
            BY <1>6, <2>1, <2>5
        <3> QED BY <1>2, <2>2, <2>3, <2>5, <3>1
    <2> QED BY <2>4, <2>5
<1> DEFINE N == Len(x)
<1>8. N \in Nat /\ N <= Len(y) /\ x \in Seq(S)
    BY <1>3, <1>5, <1>6
<1>9. /\ SubSeq(x, 1, N) \in Seq(S) /\ Len(SubSeq(x, 1, N)) = N
      /\ \A i \in 1..N : SubSeq(x, 1, N)[i] = x[i]
    <2>1. \A i \in 1..N : x[i] \in S
        BY <1>3
    <2> HIDE DEF N
    <2> QED BY <1>8, <2>1, SubSeqProperties
<1>10. /\ SubSeq(y, 1, N) \in Seq(S) /\ Len(SubSeq(y, 1, N)) = N
       /\ \A i \in 1..N : SubSeq(y, 1, N)[i] = y[i]
    <2>1. \A i \in 1..N : y[i] \in S
        BY <1>5, <1>8
    <2> HIDE DEF N
    <2> QED BY <1>8, <2>1, SubSeqProperties
<1>11. SubSeq(x, 1, N) = SubSeq(y, 1, N)
    <2> DEFINE v == SubSeq(x, 1, N)
               w == SubSeq(y, 1, N)
    <2>1. v \in Seq(S) /\ w \in Seq(S) /\ Len(v) = Len(w) /\ \A i \in 1..Len(v) : v[i] = w[i]
        BY <1>7, <1>9, <1>10
    <2> HIDE DEF v, w
    <2>2. v = w
        BY <2>1, SeqEqual
    <2> QED BY <2>2 DEF v, w
<1>12. IsPrefix(x, y)
    BY <1>8, <1>11 DEF IsPrefix
<1> QED BY <1>12 DEF x, y, b

---------------------------------------------------------------------------
(* The rest of a string is a slice of its text.                            *)

LEMMA Slice ==
    ASSUME NEW t \in Seq(Byte), NEW p \in 0..Len(t), NEW s, s = SubSeq(t, p + 1, Len(t))
    PROVE  s \in Seq(Byte) /\ Len(s) = Len(t) - p /\ \A j \in 1..Len(t) - p : s[j] = t[p + j]
PROOF
<1> DEFINE N == Len(t)
<1>1. N \in Nat /\ p \in 0..N
    OBVIOUS
<1>2. \A i \in p + 1..N : t[i] \in Byte
    BY <1>1
<1> HIDE DEF N
<1>3. /\ SubSeq(t, p + 1, N) \in Seq(Byte)
      /\ Len(SubSeq(t, p + 1, N)) = IF p + 1 <= N THEN N - (p + 1) + 1 ELSE 0
      /\ \A i \in 1..N - (p + 1) + 1 : SubSeq(t, p + 1, N)[i] = t[p + 1 + i - 1]
    BY <1>1, <1>2, SubSeqProperties
<1>4. s = SubSeq(t, p + 1, N)
    BY DEF N
<1>5. s \in Seq(Byte) /\ Len(s) = N - p
    BY <1>1, <1>3, <1>4
<1>6. ASSUME NEW j \in 1..N - p PROVE s[j] = t[p + j]
    <2>1. j \in 1..N - (p + 1) + 1 /\ p + 1 + j - 1 = p + j
        BY <1>1
    <2> QED BY <1>3, <1>4, <2>1
<1> QED BY <1>5, <1>6 DEF N

LEMMA SliceOfSlice ==
    ASSUME NEW t \in Seq(Byte), NEW p \in 0..Len(t), NEW s, s = SubSeq(t, p + 1, Len(t)),
           NEW a \in 1..Len(s) + 1, NEW b \in a - 1..Len(s)
    PROVE  SubSeq(s, a, b) = SubSeq(t, p + a, p + b)
PROOF
<1> DEFINE N == Len(t)
           M == Len(s)
           v == SubSeq(s, a, b)
           w == SubSeq(t, p + a, p + b)
<1>1. s \in Seq(Byte) /\ M = N - p /\ \A j \in 1..M : s[j] = t[p + j]
    BY Slice
<1>2. N \in Nat /\ M \in Nat /\ p \in 0..N /\ a \in 1..M + 1 /\ b \in a - 1..M
    BY <1>1
<1> HIDE DEF N, M
<1>3. a \in Int /\ b \in Int /\ p + a \in Int /\ p + b \in Int
    BY <1>2
<1>4. \A i \in a..b : s[i] \in Byte
    BY <1>1, <1>2 DEF M
<1>5. \A i \in p + a..p + b : t[i] \in Byte
    BY <1>1, <1>2 DEF N
<1>6. /\ v \in Seq(Byte) /\ Len(v) = IF a <= b THEN b - a + 1 ELSE 0
      /\ \A i \in 1..b - a + 1 : v[i] = s[a + i - 1]
    BY <1>3, <1>4, SubSeqProperties
<1>7. /\ w \in Seq(Byte) /\ Len(w) = IF p + a <= p + b THEN p + b - (p + a) + 1 ELSE 0
      /\ \A i \in 1..p + b - (p + a) + 1 : w[i] = t[p + a + i - 1]
    <2> DEFINE c == p + a
               d == p + b
    <2>1. c \in Int /\ d \in Int /\ \A i \in c..d : t[i] \in Byte
        BY <1>3, <1>5
    <2> HIDE DEF c, d
    <2>2. /\ SubSeq(t, c, d) \in Seq(Byte) /\ Len(SubSeq(t, c, d)) = IF c <= d THEN d - c + 1 ELSE 0
          /\ \A i \in 1..d - c + 1 : SubSeq(t, c, d)[i] = t[c + i - 1]
        BY ONLY <2>1, SubSeqProperties
    <2> QED BY <2>2 DEF c, d
<1> HIDE DEF v, w
<1>8. Len(v) = b - a + 1 /\ Len(w) = b - a + 1
    <2>1. (p + a <= p + b <=> a <= b) /\ p + b - (p + a) + 1 = b - a + 1 /\ (a <= b \/ b - a + 1 = 0)
        BY <1>2
    <2> QED BY <1>6, <1>7, <2>1
<1>9. ASSUME NEW i \in 1..Len(v) PROVE v[i] = w[i]
    <2>1. i \in 1..b - a + 1 /\ i \in 1..p + b - (p + a) + 1 /\ a + i - 1 \in 1..M
        BY <1>2, <1>8
    <2>2. p + (a + i - 1) = p + a + i - 1
        BY <1>2, <2>1
    <2> QED BY <1>1, <1>6, <1>7, <2>1, <2>2
<1>10. v = w
    BY <1>6, <1>7, <1>8, <1>9, SeqEqual
<1> QED BY <1>10 DEF v, w

---------------------------------------------------------------------------
(* The vector loops and write_string_complex.                              *)

LEMMA QuoteDist ==
    ASSUME string \in Seq(Byte), NEW n \in Nat, idx \in Nat, idx + n <= Len(string)
    PROVE  /\ quote_dist(n) \in 0..n
           /\ quote_dist(n) < n => ESCAPED(string[idx + quote_dist(n) + 1]) # 0
           /\ \A j \in idx + 1..idx + quote_dist(n) : ESCAPED(string[j]) = 0
PROOF
<1> DEFINE bad(j) == string[idx + j + 1] \in {Quote, Backslash} \union 0..31
           good(k) == (k < n => bad(k)) /\ \A j \in 0..k - 1 : ~bad(j)
           T == {k \in 0..n : k < n => bad(k)}
           q == quote_dist(n)
<1>1. T \subseteq Nat /\ n \in T
    OBVIOUS
<1>2. PICK m \in T : \A k \in T : m <= k
    <2> HIDE DEF T
    <2> QED BY <1>1, LeastNatural
<1>3. m \in 0..n /\ good(m)
    <2>1. m \in 0..n /\ (m < n => bad(m))
        BY <1>2
    <2>2. ASSUME NEW j \in 0..m - 1, bad(j) PROVE FALSE
        <3>1. j \in T /\ ~(m <= j)
            BY <2>1, <2>2
        <3> QED BY <1>2, <3>1
    <2> QED BY <2>1, <2>2
<1>4. q = CHOOSE k \in 0..n : good(k)
    BY DEF quote_dist
<1>5. q \in 0..n /\ good(q)
    <2> HIDE DEF good, q
    <2> QED BY <1>3, <1>4
<1> HIDE DEF q
<1>6. \A j \in 1..Len(string) : string[j] \in Byte
    OBVIOUS
<1>7. ASSUME q < n PROVE ESCAPED(string[idx + q + 1]) # 0
    <2>1. idx + q + 1 \in 1..Len(string) /\ bad(q)
        BY <1>5, <1>7
    <2> QED BY <1>6, <2>1, EscapedIs DEF Needy
<1>8. ASSUME NEW j \in idx + 1..idx + q PROVE ESCAPED(string[j]) = 0
    <2>1. j - idx - 1 \in 0..q - 1 /\ idx + (j - idx - 1) + 1 = j /\ j \in 1..Len(string)
        BY <1>5
    <2>2. ~bad(j - idx - 1)
        BY <1>5, <2>1
    <2>3. string[j] \notin Needy
        BY <2>1, <2>2 DEF Needy
    <2> QED BY <1>6, <2>1, <2>3, EscapedIs
<1> QED BY <1>5, <1>7, <1>8 DEF q

Clean(n) == \A k \in 1..n : ESCAPED(string[k]) = 0

RestAfter(p) ==
    text \in Seq(Byte) /\ p \in 0..Len(text) /\ string = SubSeq(text, p + 1, Len(text))

LEMMA RestIs ==
    ASSUME NEW p, RestAfter(p)
    PROVE  /\ text \in Seq(Byte) /\ p \in 0..Len(text) /\ Len(text) \in Nat
           /\ string \in Seq(Byte) /\ Len(string) = Len(text) - p
           /\ \A j \in 1..Len(string) : string[j] = text[p + j]
PROOF BY Slice DEF RestAfter

\* What stands between two places of the rest stands in the text.
LEMMA RestSlice ==
    ASSUME NEW p, RestAfter(p), NEW a \in 1..Len(string) + 1, NEW b \in a - 1..Len(string)
    PROVE  SubSeq(string, a, b) = SubSeq(text, p + a, p + b)
PROOF BY SliceOfSlice DEF RestAfter

Progress == [bytes : Seq(Nat), start : Nat]

\* One round of write_string_complex.
Round(k, r) ==
    IF ESCAPED(string[k]) = 0 THEN r
    ELSE [bytes |-> r.bytes \o SubSeq(string, r.start + 1, k - 1) \o Escape(string[k]), start |-> k]

LEMMA RoundType ==
    ASSUME string \in Seq(Byte), NEW k \in 1..Len(string), NEW r \in Progress
    PROVE  Round(k, r) \in Progress
PROOF
<1> DEFINE b == r.bytes
           c == SubSeq(string, r.start + 1, k - 1)
           d == Escape(string[k])
<1>1. b \in Seq(Nat) /\ r.start \in Nat /\ k \in Nat
    BY DEF Progress
<1>2. c \in Seq(Nat)
    <2>1. r.start + 1 \in Nat /\ r.start + 1 > 0 /\ k - 1 \in Int /\ k - 1 <= Len(string)
        BY <1>1
    <2> QED BY <2>1, SliceType
<1>3. d \in Seq(Nat)
    BY EscapeType
<1> HIDE DEF b, c, d
<1>4. b \o c \o d \in Seq(Nat)
    BY <1>1, <1>2, <1>3, ConcatProperties
<1>5. Round(k, r) = IF ESCAPED(string[k]) = 0 THEN r ELSE [bytes |-> b \o c \o d, start |-> k]
    BY DEF Round, b, c, d
<1> QED BY <1>1, <1>4, <1>5 DEF Progress

LEMMA LoopDef ==
    ASSUME string \in Seq(Byte), NEW from \in 0..Len(string)
    PROVE  /\ ComplexLoop(from)[from] = [bytes |-> First(from), start |-> from]
           /\ \A k \in from + 1..Len(string) : ComplexLoop(from)[k] = Round(k, ComplexLoop(from)[k - 1])
PROOF
<1> DEFINE N == Len(string)
           S == Progress
           q == [bytes |-> First(from), start |-> from]
           G == [k \in from + 1..N |-> [r \in S |-> Round(k, r)]]
           body(f) == [k \in from..N |-> IF k = from THEN q ELSE Round(k, f[k - 1])]
           loop == ComplexLoop(from)
<1>1. N \in Nat /\ from \in Nat /\ from <= N
    OBVIOUS
<1>2. q \in S
    <2>1. from \in Int /\ from <= Len(string)
        OBVIOUS
    <2>2. First(from) \in Seq(Nat)
        BY <2>1, SliceType DEF First
    <2> QED BY <1>1, <2>2 DEF Progress
<1>3. \A k \in from + 1..N, r \in S : Round(k, r) \in S
    BY RoundType
<1> HIDE DEF S, q
<1>4. G \in [from + 1..N -> [S -> S]]
    BY <1>3
<1>5. PICK f \in [from..N -> S] : Solves(f, from, N, q, G)
    <2> HIDE DEF N, G
    <2> QED BY <1>1, <1>2, <1>4, Recursion
<1>6. f[from] = q /\ \A k \in from + 1..N : f[k] = Round(k, f[k - 1])
    <2>1. f[from] = q
        BY <1>5 DEF Solves
    <2>2. ASSUME NEW k \in from + 1..N PROVE f[k] = Round(k, f[k - 1])
        <3>1. k - 1 \in from..N
            BY <1>1
        <3>2. f[k - 1] \in S
            BY <1>5, <3>1
        <3>3. G[k][f[k - 1]] = Round(k, f[k - 1])
            BY <3>2
        <3> HIDE DEF G
        <3> QED BY <1>5, <3>3 DEF Solves
    <2> QED BY <2>1, <2>2
<1>7. f = body(f)
    <2>1. \A k \in from..N : f[k] = IF k = from THEN q ELSE Round(k, f[k - 1])
        BY <1>1, <1>6
    <2> QED BY <1>5, <2>1
<1>8. loop = CHOOSE g : g = body(g)
    BY DEF ComplexLoop, Round, q
<1>9. loop = body(loop)
    <2> HIDE DEF body, loop
    <2> QED BY <1>7, <1>8
<1> HIDE DEF loop
<1>10. loop = [k \in from..N |-> IF k = from THEN q ELSE Round(k, loop[k - 1])]
    BY <1>9
<1>11. loop[from] = q /\ \A k \in from + 1..N : loop[k] = Round(k, loop[k - 1])
    BY <1>1, <1>10
<1> QED BY <1>11 DEF loop, q

\* After each byte, what is written and what is waiting make up its text.
LEMMA LoopRight ==
    ASSUME NEW p, RestAfter(p), NEW from \in 0..Len(string), Clean(from)
    PROVE  Complex(from) \in Seq(Nat) /\ encoded[Len(text)] = encoded[p] \o Complex(from)
PROOF
<1> DEFINE N == Len(text)
           M == Len(string)
           loop == ComplexLoop(from)
           waiting(k) == SubSeq(string, loop[k].start + 1, k)
           right(k) == /\ loop[k] \in Progress /\ loop[k].start \in from..k
                       /\ encoded[p + k] = encoded[p] \o (loop[k].bytes \o waiting(k))
           T == {j \in 0..M - from : right(from + j)}
<1>0. text \in Seq(Byte) /\ N \in Nat /\ p \in 0..N
    BY RestIs
<1>1. string \in Seq(Byte) /\ M = N - p /\ \A j \in 1..M : string[j] = text[p + j]
    BY RestIs
<1>2. N \in Nat /\ M \in Nat /\ p \in 0..N /\ from \in 0..M /\ p + M = N
    BY <1>0, <1>1
<1>3. loop[from] = [bytes |-> First(from), start |-> from]
    BY <1>1, LoopDef
<1>4. \A k \in from + 1..M : loop[k] = Round(k, loop[k - 1])
    BY <1>1, LoopDef
<1>5. \A n \in 0..N : encoded[n] \in Seq(Nat)
    BY <1>0, EncodedDef
<1> HIDE DEF loop, N, M
<1>6. 0 \in T
    <2> DEFINE b == First(from)
    <2>1. p + from \in p..N
        BY <1>2
    <2>2. b = SubSeq(text, p + 1, p + from)
        <3>1. 1 \in 1..M + 1 /\ from \in 1 - 1..M
            BY <1>2
        <3> QED BY <3>1, RestSlice DEF First, M
    <2>3. \A k \in p + 1..p + from : ESCAPED(text[k]) = 0
        <3> SUFFICES ASSUME NEW k \in p + 1..p + from PROVE ESCAPED(text[k]) = 0
            OBVIOUS
        <3>1. k - p \in 1..from /\ k - p \in 1..M /\ p + (k - p) = k
            BY <1>2
        <3> QED BY <1>1, <3>1 DEF Clean
    <2>4. encoded[p + from] = encoded[p] \o b
        BY <1>0, <2>1, <2>2, <2>3, CleanRun DEF N
    <2>5. b \in Seq(Nat)
        <3>1. from \in Int /\ from <= Len(string)
            BY <1>2 DEF M
        <3> QED BY <1>1, <3>1, SliceType DEF First
    <2>6. waiting(from) = << >>
        <3>1. waiting(from) = SubSeq(string, from + 1, from)
            BY <1>3
        <3>2. from \in Int
            BY <1>2
        <3> HIDE DEF waiting
        <3> QED BY <3>1, <3>2, EmptySlice
    <2>7. loop[from] = [bytes |-> b, start |-> from]
        BY <1>3
    <2> HIDE DEF b
    <2>8. b \o << >> = b
        BY <2>5, ConcatEmptySeq
    <2>9. loop[from].bytes = b /\ loop[from].start = from
        BY <2>7
    <2>10. encoded[p + from] = encoded[p] \o (loop[from].bytes \o waiting(from))
        BY <2>4, <2>6, <2>8, <2>9
    <2>11. loop[from] \in Progress /\ loop[from].start \in from..from
        BY <1>2, <2>5, <2>7, <2>9 DEF Progress
    <2>12. right(from)
        BY <2>10, <2>11
    <2>13. from + 0 = from /\ 0 \in 0..M - from
        BY <1>2
    <2> HIDE DEF right
    <2> QED BY <2>12, <2>13
<1>7. ASSUME NEW j \in 0..M - from - 1, j \in T PROVE j + 1 \in T
    <2> DEFINE k == from + (j + 1)
               n == p + k
               r == loop[k - 1]
               a == encoded[p]
               b == r.bytes
               c == SubSeq(string, r.start + 1, k - 1)
               x == <<string[k]>>
               y == Escape(string[k])
    <2>1. k \in from + 1..M /\ k - 1 = from + j /\ k \in 1..M /\ n \in 1..N /\ n - 1 = p + (k - 1)
        BY <1>2
    <2>11. string[k] \in Byte /\ text[n] = string[k]
        BY <1>1, <2>1 DEF M
    <2>12. \A z : z = encoded[n] => z = encoded[p + k]
        OBVIOUS
    <2>13. right(k) => j + 1 \in T
        <3> HIDE DEF right
        <3> QED BY <1>2
    <2> HIDE DEF k, n
    <2>2. right(k - 1)
        <3> HIDE DEF right
        <3> QED BY <1>7, <2>1
    <2>3. r \in Progress /\ r.start \in from..k - 1 /\ encoded[n - 1] = a \o (b \o c)
        BY <2>1, <2>2
    <2>4. loop[k] = Round(k, r)
        BY <1>4, <2>1
    <2>6. a \in Seq(Nat) /\ b \in Seq(Nat)
        BY <1>2, <1>5, <2>3 DEF Progress
    <2>7. c \in Seq(Nat)
        <3>1. r.start \in Nat /\ k \in 1..Len(string)
            BY <1>2, <2>1, <2>3 DEF M, Progress
        <3> HIDE DEF r
        <3>2. r.start + 1 \in Nat /\ r.start + 1 > 0 /\ k - 1 \in Int /\ k - 1 <= Len(string)
            BY <1>1, <3>1
        <3> QED BY <1>1, <3>2, SliceType
    <2>8. x \in Seq(Nat) /\ y \in Seq(Nat)
        <3>0. Byte \subseteq Nat
            BY DEF Byte
        <3>2. string[k] \in Byte
            BY <2>11
        <3>1. string[k] \in Nat
            BY <3>0, <3>2
        <3> QED BY <2>11, <3>1, EscapeType
    <2>9. CASE ESCAPED(string[k]) = 0
        <3>1. loop[k] = r
            BY <2>4, <2>9 DEF Round
        <3>2. waiting(k) = c \o x
            <4>1. r.start + 1 \in 1..M /\ k \in r.start + 1..M
                <5>1. r.start \in from..k - 1 /\ k \in from + 1..M
                    BY <2>1, <2>3
                <5> HIDE DEF r
                <5> QED BY <1>2, <5>1
            <4>2. SubSeq(string, r.start + 1, k) = SubSeq(string, r.start + 1, k - 1) \o <<string[k]>>
                <5> HIDE DEF r
                <5> QED BY <1>1, <4>1, SubSeqRecursiveSecond DEF M
            <4> QED BY <3>1, <4>2
        <3>3. encoded[n] = encoded[n - 1] \o x
            <4>1. Code(text[n]) = x
                BY <2>11, <2>9 DEF Code
            <4>2. encoded[n] = encoded[n - 1] \o Code(text[n])
                BY <1>0, <2>1, EncodedDef DEF N
            <4> QED BY <4>1, <4>2
        <3>4. encoded[n - 1] = a \o (b \o c)
            BY <2>3
        <3>5. r.start \in from..k
            <4>1. r.start \in from..k - 1 /\ k \in from + 1..M
                BY <2>1, <2>3
            <4> HIDE DEF r
            <4> QED BY <1>2, <4>1
        <3> HIDE DEF a, b, c, x, y, r
        <3>6. (a \o (b \o c)) \o x = a \o (b \o (c \o x))
            <4>1. b \o c \in Seq(Nat)
                BY <2>6, <2>7, Joins
            <4>2. (b \o c) \o x = b \o (c \o x)
                BY <2>6, <2>7, <2>8, Associative
            <4>3. (a \o (b \o c)) \o x = a \o ((b \o c) \o x)
                BY <2>6, <2>8, <4>1, Associative
            <4> QED BY <4>2, <4>3
        <3>7. encoded[n] = a \o (b \o waiting(k))
            BY <3>2, <3>3, <3>4, <3>6
        <3>8. right(k)
            BY <2>3, <2>12, <3>1, <3>5, <3>7 DEF a, b
        <3> QED BY <2>13, <3>8
    <2>10. CASE ESCAPED(string[k]) # 0
        <3>1. loop[k] = [bytes |-> b \o c \o y, start |-> k]
            BY <2>4, <2>10 DEF Round
        <3>2. waiting(k) = << >>
            <4>1. waiting(k) = SubSeq(string, k + 1, k)
                <5>1. loop[k].start = k
                    BY <3>1
                <5> QED BY <5>1
            <4>2. k \in Int
                BY <2>1
            <4> QED BY <4>1, <4>2, EmptySlice
        <3>3. encoded[n] = encoded[n - 1] \o y
            <4>1. n \in 1..Len(text) /\ ESCAPED(text[n]) # 0
                BY <2>1, <2>10, <2>11 DEF N
            <4>2. encoded[n] = encoded[n - 1] \o Escape(text[n])
                BY <1>0, <4>1, EscapedOne
            <4> QED BY <2>11, <4>2
        <3>4. encoded[n - 1] = a \o (b \o c)
            BY <2>3
        <3>5. k \in from..k /\ k \in Nat
            BY <1>2, <2>1
        <3> HIDE DEF a, b, c, x, y, r
        <3>6. (a \o (b \o c)) \o y = a \o ((b \o c) \o y)
            <4>1. b \o c \in Seq(Nat)
                BY <2>6, <2>7, Joins
            <4> QED BY <2>6, <2>8, <4>1, Associative
        <3>7. (b \o c) \o y \in Seq(Nat)
            BY <2>6, <2>7, <2>8, Joins
        <3>8. ((b \o c) \o y) \o << >> = (b \o c) \o y
            BY <3>7, ConcatEmptySeq
        <3>9. loop[k].bytes = (b \o c) \o y /\ loop[k].start = k
            BY <3>1
        <3>10. encoded[n] = a \o (loop[k].bytes \o waiting(k))
            BY <3>2, <3>3, <3>4, <3>6, <3>8, <3>9
        <3>11. loop[k] \in Progress
            BY <3>1, <3>5, <3>7 DEF Progress
        <3>12. right(k)
            BY <2>12, <3>5, <3>9, <3>10, <3>11 DEF a
        <3> QED BY <2>13, <3>12
    <2> QED BY <2>9, <2>10
<1>8. right(M)
    <2> HIDE DEF T
    <2>1. M - from \in Nat
        BY <1>2
    <2>2. 0..M - from \subseteq T
        BY <1>6, <1>7, <2>1, Induction
    <2>3. M - from \in T /\ from + (M - from) = M
        BY <1>2, <2>1, <2>2
    <2> HIDE DEF right
    <2> QED BY <2>3 DEF T
<1>9. Complex(from) = loop[M].bytes \o waiting(M)
    BY DEF Complex, After, loop, M
<1>10. Complex(from) \in Seq(Nat)
    <2> DEFINE b == loop[M].bytes
               c == waiting(M)
               st == loop[M].start
    <2>1. b \in Seq(Nat) /\ st \in from..M
        BY <1>8 DEF Progress
    <2>2. c \in Seq(Nat)
        <3>1. c = SubSeq(string, st + 1, M)
            OBVIOUS
        <3> HIDE DEF st, c
        <3>2. st + 1 \in Nat /\ st + 1 > 0 /\ M \in Int /\ M <= Len(string)
            BY <1>2, <2>1 DEF M
        <3> QED BY <1>1, <3>1, <3>2, SliceType
    <2> HIDE DEF b, c
    <2>3. b \o c \in Seq(Nat)
        BY <2>1, <2>2, ConcatProperties
    <2> QED BY <1>9, <2>3 DEF b, c
<1>11. encoded[p + M] = encoded[p] \o Complex(from)
    BY <1>8, <1>9
<1> QED BY <1>2, <1>10, <1>11 DEF N

---------------------------------------------------------------------------
(* What is written is always the text of what is no longer left to write.  *)

Past == Len(text) - Len(string)

StringInv ==
    /\ text \in Seq(Byte)
    /\ pc \in {"Idle", "Begin", "Wide", "Narrow", "Rest", "Ok", "Error"}
    /\ pc = "Begin" => out = << >> /\ string = text /\ idx = 0
    /\ pc \in {"Wide", "Narrow", "Rest"} => RestAfter(Past) /\ out = encoded[Past]
    /\ pc \in {"Wide", "Narrow"} => idx \in 0..Len(string) /\ Clean(idx)
    /\ pc = "Ok" => out = Encoded
    /\ pc \in {"Idle", "Error"} => IsPrefix(out, Encoded)

LEMMA TextOnly ==
    ASSUME text' = text
    PROVE  encoded' = encoded /\ Encoded' = Encoded
PROOF
<1>1. encoded' = encoded
    BY DEF encoded
<1> QED BY <1>1 DEF Encoded

LEMMA EmptyPrefix ==
    ASSUME text \in Seq(Byte)
    PROVE  IsPrefix(<< >>, Encoded)
PROOF
<1>1. encoded[0] \in Seq(Nat)
    BY EncodedDef
<1>2. PICK s \in Seq(Nat) : Encoded = encoded[0] \o s
    <2>1. 0 \in 0..Len(text)
        OBVIOUS
    <2> QED BY <2>1, Beginning
<1>3. Encoded \in Seq(Nat)
    BY <1>1, <1>2, Joins
<1> DEFINE e == << >>
           w == Encoded
<1>4. Len(e) = 0 /\ Len(w) \in Nat
    BY <1>3
<1>5. SubSeq(e, 1, 0) = << >> /\ SubSeq(w, 1, 0) = << >>
    <2>1. 0 \in Int /\ 0 + 1 = 1
        OBVIOUS
    <2> HIDE DEF e, w
    <2> QED BY <2>1, EmptySlice
<1> HIDE DEF e, w
<1>6. IsPrefix(e, w)
    BY <1>4, <1>5 DEF IsPrefix
<1> QED BY <1>6 DEF e, w

\* A write is done, or fails after a part of it.
LEMMA Writes ==
    ASSUME text' = text, NEW bytes \in Seq(Nat), NEW next, NEW u \in Seq(Nat), out \in Seq(Nat),
           Encoded = (out \o bytes) \o u, Write(bytes, next)
    PROVE  \/ pc' = next /\ out' = out \o bytes
           \/ pc' = "Error" /\ IsPrefix(out', Encoded')
PROOF
<1>1. Encoded' = Encoded
    BY TextOnly
<1>2. CASE out' = out \o bytes /\ pc' = next
    BY <1>2
<1>3. CASE \E n \in 0..Len(bytes) - 1 : out' = out \o SubSeq(bytes, 1, n) /\ pc' = "Error"
    <2>1. PICK n \in 0..Len(bytes) - 1 : out' = out \o SubSeq(bytes, 1, n) /\ pc' = "Error"
        BY <1>3
    <2>2. n \in 0..Len(bytes)
        BY <2>1
    <2>3. IsPrefix(out \o SubSeq(bytes, 1, n), (out \o bytes) \o u)
        BY <2>2, PrefixOf
    <2> QED BY <1>1, <2>1, <2>3
<1> QED BY <1>2, <1>3 DEF Write

\* A write that is the text of the next characters.
LEMMA WritesNext ==
    ASSUME text \in Seq(Byte), text' = text, NEW p \in 0..Len(text), NEW q \in 0..Len(text),
           out = encoded[p], NEW bytes \in Seq(Nat), NEW next,
           encoded[q] = encoded[p] \o bytes, Write(bytes, next)
    PROVE  \/ pc' = next /\ out' = encoded'[q]
           \/ pc' = "Error" /\ IsPrefix(out', Encoded')
PROOF
<1>1. PICK s \in Seq(Nat) : Encoded = encoded[q] \o s
    BY Beginning
<1>2. out \in Seq(Nat) /\ Encoded = (out \o bytes) \o s
    BY <1>1, EncodedDef
<1>3. \/ pc' = next /\ out' = out \o bytes
      \/ pc' = "Error" /\ IsPrefix(out', Encoded')
    BY <1>1, <1>2, Writes
<1>4. encoded' = encoded
    BY TextOnly
<1> QED BY <1>3, <1>4

\* The first k characters of the rest, and the rest without them.
LEMMA FirstIs ==
    ASSUME NEW p, RestAfter(p), NEW k \in 0..Len(string)
    PROVE  First(k) = SubSeq(text, p + 1, p + k) /\ First(k) \in Seq(Nat)
PROOF
<1>1. string \in Seq(Byte) /\ Len(string) \in Nat
    BY RestIs
<1>2. First(k) = SubSeq(text, p + 1, p + k)
    <2>1. 1 \in 1..Len(string) + 1 /\ k \in 1 - 1..Len(string)
        BY <1>1
    <2> QED BY <2>1, RestSlice DEF First
<1>3. First(k) \in Seq(Nat)
    <2>1. k \in Int /\ k <= Len(string)
        BY <1>1
    <2> QED BY <1>1, <2>1, SliceType DEF First
<1> QED BY <1>2, <1>3

LEMMA AfterIs ==
    ASSUME string \in Seq(Byte), NEW k \in 0..Len(string)
    PROVE  After(k) \in Seq(Byte) /\ Len(After(k)) = Len(string) - k
PROOF BY Slice DEF After

LEMMA Advance ==
    ASSUME NEW p, RestAfter(p), NEW k \in 0..Len(string), text' = text, string' = After(k)
    PROVE  p + k \in 0..Len(text) /\ RestAfter(p + k)' /\ Past' = p + k
PROOF
<1> DEFINE N == Len(text)
           M == Len(string)
           q == p + k
<1>1. text \in Seq(Byte) /\ N \in Nat /\ p \in 0..N /\ string \in Seq(Byte) /\ M = N - p
    BY RestIs
<1>2. q \in 0..N /\ k \in 0..M /\ p + M = N
    BY <1>1
<1>3. After(k) = SubSeq(text, p + (k + 1), p + M)
    <2> DEFINE a == k + 1
    <2>1. a \in 1..Len(string) + 1 /\ M \in a - 1..Len(string)
        BY <1>1
    <2>2. After(k) = SubSeq(string, a, M)
        BY DEF After
    <2> HIDE DEF a, M
    <2>3. SubSeq(string, a, M) = SubSeq(text, p + a, p + M)
        BY <2>1, RestSlice
    <2> QED BY <2>2, <2>3 DEF a
<1>4. string' = SubSeq(text, q + 1, Len(text))
    <2>1. p + (k + 1) = q + 1
        BY <1>1, <1>2
    <2> HIDE DEF q
    <2> QED BY <1>2, <1>3, <2>1
<1>5. RestAfter(q)'
    BY <1>1, <1>2, <1>4 DEF RestAfter
<1>6. Past' = q
    <2>1. Len(string') = M - k
        BY <1>1, AfterIs
    <2> QED BY <1>1, <1>2, <2>1 DEF Past
<1> QED BY <1>2, <1>5, <1>6

---------------------------------------------------------------------------
(* Each step of write_string keeps it so.                                  *)

LEMMA BeginStep == StringInv /\ Begin => StringInv'
PROOF
<1> SUFFICES ASSUME StringInv, Begin PROVE StringInv'
    OBVIOUS
<1> DEFINE q == <<Quote>>
<1>1. /\ text \in Seq(Byte) /\ out = << >> /\ string = text /\ idx = 0
      /\ text' = text /\ string' = string /\ idx' = idx /\ Write(q, "Wide")
    BY DEF StringInv, Begin
<1>2. q \in Seq(Nat) /\ encoded[0] = q
    BY <1>1, EncodedDef DEF Quote
<1> HIDE DEF q
<1>3. PICK s \in Seq(Nat) : Encoded = q \o s
    <2>1. 0 \in 0..Len(text)
        BY <1>1
    <2> QED BY <1>1, <1>2, <2>1, Beginning
<1>4. out \in Seq(Nat) /\ out \o q = q
    <2> DEFINE e == << >>
    <2>1. e \o q = q
        BY <1>2, ConcatEmptySeq
    <2> QED BY <1>1, <2>1
<1>5. \/ pc' = "Wide" /\ out' = q
      \/ pc' = "Error" /\ IsPrefix(out', Encoded')
    BY <1>1, <1>2, <1>3, <1>4, Writes
<1>6. encoded' = encoded
    BY <1>1, TextOnly
<1>7. SubSeq(text, 1, Len(text)) = text
    BY <1>1, SubSeqFull
<1>8. Past' = 0 /\ 0 \in 0..Len(text) /\ Len(text) \in Nat
    BY <1>1 DEF Past
<1>9. RestAfter(0)'
    BY <1>1, <1>7, <1>8 DEF RestAfter
<1>10. Clean(0)' /\ idx' \in 0..Len(string')
    BY <1>1, <1>8 DEF Clean
<1>11. CASE pc' = "Wide" /\ out' = q
    BY <1>1, <1>2, <1>6, <1>8, <1>9, <1>10, <1>11 DEF StringInv
<1>12. CASE pc' = "Error" /\ IsPrefix(out', Encoded')
    BY <1>1, <1>12 DEF StringInv
<1> QED BY <1>5, <1>11, <1>12

LEMMA SkipStep ==
    ASSUME StringInv, NEW n \in Nat, idx + n <= Len(string), pc \in {"Wide", "Narrow"}, Skip(n)
    PROVE  StringInv'
PROOF
<1>1. /\ RestAfter(Past) /\ out = encoded[Past] /\ idx \in 0..Len(string) /\ Clean(idx)
      /\ quote_dist(n) = n /\ idx' = idx + n
      /\ text' = text /\ pc' = pc /\ string' = string /\ out' = out
    BY DEF StringInv, Skip
<1>2. string \in Seq(Byte) /\ Len(string) \in Nat /\ text \in Seq(Byte)
    BY <1>1, RestIs
<1>3. \A j \in idx + 1..idx + n : ESCAPED(string[j]) = 0
    BY <1>1, <1>2, QuoteDist
<1>4. idx' \in 0..Len(string)
    BY <1>1, <1>2
<1>5. Clean(idx')
    <2> SUFFICES ASSUME NEW j \in 1..idx' PROVE ESCAPED(string[j]) = 0
        BY DEF Clean
    <2>1. j \in 1..idx \/ j \in idx + 1..idx + n
        BY <1>1, <1>2
    <2> QED BY <1>1, <1>3, <2>1 DEF Clean
<1>6. encoded' = encoded /\ Past' = Past
    BY <1>1, TextOnly DEF Past
<1>7. RestAfter(Past)' /\ Clean(idx)' /\ (idx \in 0..Len(string))'
    BY <1>1, <1>4, <1>5, <1>6 DEF RestAfter, Clean
<1> QED BY <1>1, <1>2, <1>6, <1>7 DEF StringInv

LEMMA FoundStep ==
    ASSUME StringInv, NEW n \in Nat, idx + n <= Len(string), pc \in {"Wide", "Narrow"}, Found(n)
    PROVE  StringInv'
PROOF
<1>0. PICK p, k, c : p = Past /\ k = idx + quote_dist(n) /\ c = string[k + 1]
    OBVIOUS
<1> DEFINE q == p + (k + 1)
           bytes == First(k) \o Escape(c)
<1>1. /\ RestAfter(p) /\ out = encoded[p] /\ idx \in 0..Len(string) /\ Clean(idx)
      /\ quote_dist(n) < n /\ Write(bytes, pc) /\ string' = After(k + 1) /\ idx' = 0 /\ text' = text
    BY <1>0 DEF StringInv, Found
<1>2. string \in Seq(Byte) /\ Len(string) \in Nat /\ text \in Seq(Byte) /\ p \in 0..Len(text)
      /\ Len(string) = Len(text) - p /\ \A j \in 1..Len(string) : string[j] = text[p + j]
    BY <1>1, RestIs
<1>3. /\ quote_dist(n) \in 0..n
      /\ ESCAPED(string[idx + quote_dist(n) + 1]) # 0
      /\ \A j \in idx + 1..idx + quote_dist(n) : ESCAPED(string[j]) = 0
    BY <1>1, <1>2, QuoteDist
<1>4. k \in 0..Len(string) - 1 /\ k + 1 \in 0..Len(string) /\ k \in 0..Len(string) /\ ESCAPED(c) # 0
    BY <1>0, <1>1, <1>2, <1>3
<1>5. Clean(k)
    <2> SUFFICES ASSUME NEW j \in 1..k PROVE ESCAPED(string[j]) = 0
        BY DEF Clean
    <2>1. j \in 1..idx \/ j \in idx + 1..idx + quote_dist(n)
        BY <1>0, <1>1, <1>2, <1>3
    <2> QED BY <1>1, <1>3, <2>1 DEF Clean
<1>6. q \in 0..Len(text) /\ RestAfter(q)' /\ Past' = q
    <2> DEFINE j == k + 1
    <2>1. j \in 0..Len(string) /\ string' = After(j)
        BY <1>1, <1>4
    <2> HIDE DEF j
    <2>2. p + j \in 0..Len(text) /\ RestAfter(p + j)' /\ Past' = p + j
        BY <1>1, <2>1, Advance
    <2> QED BY <2>2 DEF j
<1>7. First(k) = SubSeq(text, p + 1, p + k) /\ First(k) \in Seq(Nat)
    BY <1>1, <1>4, FirstIs
<1>8. q \in 1..Len(text) /\ q - 1 = p + k /\ q - 1 \in p..Len(text) /\ text[q] = c /\ c \in Byte
    <2> DEFINE j == k + 1
    <2>1. j \in 1..Len(string) /\ c = string[j] /\ q = p + j
        BY <1>0, <1>2, <1>4
    <2> HIDE DEF j
    <2>2. text[q] = c /\ c \in Byte
        BY <1>2, <2>1
    <2> QED BY <1>2, <1>4, <2>2
<1>9. encoded[q - 1] = encoded[p] \o First(k)
    <2>1. \A j \in p + 1..p + k : ESCAPED(text[j]) = 0
        <3> SUFFICES ASSUME NEW j \in p + 1..p + k PROVE ESCAPED(text[j]) = 0
            OBVIOUS
        <3>1. j - p \in 1..k /\ j - p \in 1..Len(string) /\ p + (j - p) = j
            BY <1>2, <1>4
        <3> QED BY <1>2, <1>5, <3>1 DEF Clean
    <2> DEFINE m == p + k
    <2>2. m \in p..Len(text) /\ q - 1 = m /\ \A j \in p + 1..m : ESCAPED(text[j]) = 0
        BY <1>8, <2>1
    <2>3. First(k) = SubSeq(text, p + 1, m)
        BY <1>7
    <2> HIDE DEF m, q
    <2> QED BY <1>2, <2>2, <2>3, CleanRun
<1>10. encoded[q] = encoded[q - 1] \o Escape(c)
    <2> HIDE DEF q
    <2> QED BY <1>2, <1>4, <1>8, EscapedOne
<1>11. Escape(c) \in Seq(Nat) /\ encoded[p] \in Seq(Nat)
    BY <1>2, <1>8, EscapeType, EncodedDef
<1>12. bytes \in Seq(Nat) /\ encoded[q] = encoded[p] \o bytes
    <2> DEFINE x == encoded[p]
               y == First(k)
               z == Escape(c)
    <2>1. x \in Seq(Nat) /\ y \in Seq(Nat) /\ z \in Seq(Nat) /\ bytes = y \o z
        BY <1>7, <1>11
    <2>2. encoded[q] = (x \o y) \o z
        BY <1>9, <1>10
    <2> HIDE DEF x, y, z, bytes, q
    <2> QED BY <2>1, <2>2, Associative, Joins DEF x
<1> HIDE DEF q, bytes
<1>13. \/ pc' = pc /\ out' = encoded'[q]
       \/ pc' = "Error" /\ IsPrefix(out', Encoded')
    BY <1>1, <1>2, <1>6, <1>12, WritesNext
<1>14. CASE pc' = pc /\ out' = encoded'[q]
    <2>1. RestAfter(Past)'
        BY <1>6 DEF RestAfter
    <2>2. Clean(0)' /\ idx' \in 0..Len(string')
        <3>1. string' \in Seq(Byte)
            BY <1>1, <1>2, <1>4, AfterIs
        <3> QED BY <1>1, <3>1 DEF Clean
    <2> QED BY <1>1, <1>2, <1>6, <1>14, <2>1, <2>2 DEF StringInv
<1>15. CASE pc' = "Error" /\ IsPrefix(out', Encoded')
    BY <1>1, <1>2, <1>15 DEF StringInv
<1> QED BY <1>13, <1>14, <1>15

LEMMA NarrowEndStep == StringInv /\ NarrowEnd => StringInv'
PROOF
<1> SUFFICES ASSUME StringInv, NarrowEnd PROVE StringInv'
    OBVIOUS
<1>0. PICK p, k : p = Past /\ k = idx
    OBVIOUS
<1> DEFINE q == p + k
           bytes == First(k)
<1>1. /\ RestAfter(p) /\ out = encoded[p] /\ k \in 0..Len(string) /\ Clean(k)
      /\ Write(bytes, "Rest") /\ string' = After(k) /\ text' = text
    BY <1>0 DEF StringInv, NarrowEnd
<1>2. string \in Seq(Byte) /\ Len(string) \in Nat /\ text \in Seq(Byte) /\ p \in 0..Len(text)
      /\ Len(string) = Len(text) - p /\ \A j \in 1..Len(string) : string[j] = text[p + j]
    BY <1>1, RestIs
<1>3. q \in 0..Len(text) /\ RestAfter(q)' /\ Past' = q
    BY <1>1, Advance
<1>4. bytes = SubSeq(text, p + 1, q) /\ bytes \in Seq(Nat)
    BY <1>1, FirstIs
<1>5. encoded[q] = encoded[p] \o bytes
    <2>1. \A j \in p + 1..q : ESCAPED(text[j]) = 0
        <3> SUFFICES ASSUME NEW j \in p + 1..q PROVE ESCAPED(text[j]) = 0
            OBVIOUS
        <3>1. j - p \in 1..k /\ j - p \in 1..Len(string) /\ p + (j - p) = j
            BY <1>1, <1>2
        <3> QED BY <1>1, <1>2, <3>1 DEF Clean
    <2>2. q \in p..Len(text)
        BY <1>1, <1>2
    <2> HIDE DEF q, bytes
    <2> QED BY <1>2, <1>4, <2>1, <2>2, CleanRun
<1> HIDE DEF q, bytes
<1>6. \/ pc' = "Rest" /\ out' = encoded'[q]
      \/ pc' = "Error" /\ IsPrefix(out', Encoded')
    BY <1>1, <1>2, <1>3, <1>4, <1>5, WritesNext
<1>7. CASE pc' = "Rest" /\ out' = encoded'[q]
    <2>1. RestAfter(Past)'
        BY <1>3 DEF RestAfter
    <2> QED BY <1>1, <1>2, <1>3, <1>7, <2>1 DEF StringInv
<1>8. CASE pc' = "Error" /\ IsPrefix(out', Encoded')
    BY <1>1, <1>2, <1>8 DEF StringInv
<1> QED BY <1>6, <1>7, <1>8

\* What write_string_complex or a clean rest is written as.
LEMMA RestIsEncoded ==
    ASSUME NEW p, RestAfter(p)
    PROVE  \E b \in Seq(Nat) :
              /\ b = IF NeedEscape = {} THEN string
                     ELSE Complex((CHOOSE k \in NeedEscape : \A j \in NeedEscape : k <= j) - 1)
              /\ encoded[Len(text)] = encoded[p] \o b
PROOF
<1> DEFINE M == Len(string)
<1>1. string \in Seq(Byte) /\ M \in Nat /\ text \in Seq(Byte) /\ p \in 0..Len(text) /\ Len(text) \in Nat
      /\ M = Len(text) - p /\ \A j \in 1..M : string[j] = text[p + j]
    BY RestIs
<1>2. NeedEscape \subseteq 1..M /\ \A j \in 1..M : j \notin NeedEscape => ESCAPED(string[j]) = 0
    <2>1. \A j \in 1..M : ESCAPED(string[j]) \in Nat
        BY <1>1, EscapedIs
    <2> QED BY <1>1, <2>1 DEF NeedEscape
<1>3. CASE NeedEscape = {}
    <2>1. string \in Seq(Nat)
        BY <1>1, BytesAreNat
    <2>2. encoded[Len(text)] = encoded[p] \o string
        <3> DEFINE q == Len(text)
        <3>1. q \in p..Len(text)
            BY <1>1
        <3>2. \A j \in p + 1..q : ESCAPED(text[j]) = 0
            <4> SUFFICES ASSUME NEW j \in p + 1..q PROVE ESCAPED(text[j]) = 0
                OBVIOUS
            <4>1. j - p \in 1..M /\ p + (j - p) = j
                BY <1>1
            <4> QED BY <1>1, <1>2, <1>3, <4>1
        <3>3. string = SubSeq(text, p + 1, q)
            BY DEF RestAfter
        <3> HIDE DEF q
        <3>4. encoded[q] = encoded[p] \o string
            BY <1>1, <3>1, <3>2, <3>3, CleanRun
        <3> QED BY <3>4 DEF q
    <2> QED BY <1>3, <2>1, <2>2
<1>4. CASE NeedEscape # {}
    <2> DEFINE m == CHOOSE k \in NeedEscape : \A j \in NeedEscape : k <= j
               from == m - 1
    <2>1. \E k \in NeedEscape : \A j \in NeedEscape : k <= j
        <3>1. NeedEscape \subseteq Nat
            BY <1>2
        <3> QED BY <1>4, <3>1, LeastNatural
    <2>2. m \in NeedEscape /\ \A j \in NeedEscape : m <= j
        BY <2>1
    <2> HIDE DEF m
    <2>3. m \in 1..M /\ from \in 0..Len(string)
        BY <1>2, <2>2
    <2>4. Clean(from)
        <3> SUFFICES ASSUME NEW j \in 1..from PROVE ESCAPED(string[j]) = 0
            BY DEF Clean
        <3>1. j \in 1..M /\ ~(m <= j)
            BY <2>3
        <3> QED BY <1>2, <2>2, <3>1
    <2>6. Complex(from) = Complex((CHOOSE k \in NeedEscape : \A j \in NeedEscape : k <= j) - 1)
        BY DEF from, m
    <2> HIDE DEF from
    <2>5. Complex(from) \in Seq(Nat) /\ encoded[Len(text)] = encoded[p] \o Complex(from)
        BY <2>3, <2>4, LoopRight
    <2> QED BY <1>4, <2>5, <2>6
<1> QED BY <1>3, <1>4

LEMMA RestStep == StringInv /\ Rest => StringInv'
PROOF
<1> SUFFICES ASSUME StringInv, Rest PROVE StringInv'
    OBVIOUS
<1> DEFINE p == Past
           b == IF NeedEscape = {} THEN string
                ELSE Complex((CHOOSE k \in NeedEscape : \A j \in NeedEscape : k <= j) - 1)
           q == <<Quote>>
           bytes == b \o q
<1>1. /\ RestAfter(p) /\ out = encoded[p]
      /\ Write(bytes, "Ok") /\ text' = text
    BY DEF StringInv, Rest
<1>2. text \in Seq(Byte) /\ p \in 0..Len(text)
    BY <1>1, RestIs
<1>3. b \in Seq(Nat) /\ encoded[Len(text)] = encoded[p] \o b
    <2>1. \E x \in Seq(Nat) : x = b /\ encoded[Len(text)] = encoded[p] \o x
        BY <1>1, RestIsEncoded
    <2> QED BY <2>1
<1>4. q \in Seq(Nat) /\ Encoded = encoded[Len(text)] \o q
    BY DEF Quote, Encoded
<1>5. out \in Seq(Nat)
    BY <1>1, <1>2, EncodedDef
<1> DEFINE e == << >>
<1>6. e \in Seq(Nat)
    OBVIOUS
<1>8. \A s \in Seq(Nat) : s \o e = s
    BY ConcatEmptySeq
<1> HIDE DEF b, q, e, p
<1>7. bytes \in Seq(Nat) /\ Encoded = out \o bytes
    <2>1. bytes \in Seq(Nat)
        BY <1>3, <1>4, Joins
    <2>2. (out \o b) \o q = out \o (b \o q)
        BY <1>3, <1>4, <1>5, Associative
    <2> QED BY <1>1, <1>3, <1>4, <2>1, <2>2
<1> HIDE DEF bytes
<1>9. Encoded = (out \o bytes) \o e
    <2>1. out \o bytes \in Seq(Nat)
        BY <1>5, <1>7, Joins
    <2> QED BY <1>7, <1>8, <2>1
<1>10. \/ pc' = "Ok" /\ out' = out \o bytes
       \/ pc' = "Error" /\ IsPrefix(out', Encoded')
    BY <1>1, <1>5, <1>6, <1>7, <1>9, Writes
<1>11. Encoded' = Encoded
    BY <1>1, TextOnly
<1>12. CASE pc' = "Ok" /\ out' = out \o bytes
    BY <1>1, <1>2, <1>7, <1>11, <1>12 DEF StringInv
<1>13. CASE pc' = "Error" /\ IsPrefix(out', Encoded')
    BY <1>1, <1>2, <1>13 DEF StringInv
<1> QED BY <1>10, <1>12, <1>13

LEMMA StringSteps == StringInv /\ Step => StringInv'
PROOF
<1> SUFFICES ASSUME StringInv, Step PROVE StringInv'
    OBVIOUS
<1>1. CASE Begin
    BY <1>1, BeginStep
<1>2. CASE WideLoop
    <2>1. /\ pc = "Wide" /\ string \in Seq(Byte) /\ Len(string) \in Nat /\ idx \in 0..Len(string)
          /\ RestAfter(Past) /\ Clean(idx) /\ out = encoded[Past] /\ text \in Seq(Byte)
        BY <1>2, RestIs DEF WideLoop, StringInv
    <2>2. Wide \in Nat
        BY WidthsAssumption
    <2>3. CASE Left >= Wide /\ (Skip(Wide) \/ Found(Wide))
        <3>1. idx + Wide <= Len(string)
            BY <2>1, <2>2, <2>3 DEF Left
        <3> QED BY <2>1, <2>2, <2>3, <3>1, SkipStep, FoundStep
    <2>4. CASE pc' = "Narrow" /\ UNCHANGED <<text, string, idx, out>>
        <3>1. encoded' = encoded /\ Past' = Past
            BY <2>4, TextOnly DEF Past
        <3> QED BY <2>1, <2>4, <3>1 DEF StringInv, RestAfter, Clean
    <2> QED BY <1>2, <2>3, <2>4 DEF WideLoop
<1>3. CASE NarrowLoop
    <2>1. pc = "Narrow" /\ string \in Seq(Byte) /\ Len(string) \in Nat /\ idx \in 0..Len(string)
        BY <1>3, RestIs DEF NarrowLoop, StringInv
    <2>2. Narrow \in Nat
        BY WidthsAssumption
    <2>3. idx + Narrow <= Len(string)
        BY <1>3, <2>1, <2>2 DEF NarrowLoop, Left
    <2> QED BY <1>3, <2>1, <2>2, <2>3, SkipStep, FoundStep DEF NarrowLoop
<1>4. CASE NarrowEnd
    BY <1>4, NarrowEndStep
<1>5. CASE Rest
    BY <1>5, RestStep
<1> QED BY <1>1, <1>2, <1>3, <1>4, <1>5 DEF Step

---------------------------------------------------------------------------
(* Reading a text back.                                                    *)

ReadAt(written, f, p) ==
    CASE p > Len(written) -> None
      [] p <= Len(written) /\ written[p] < 32 -> None
      [] p <= Len(written) /\ written[p] = Quote ->
            IF p = Len(written) THEN [bytes |-> << >>, ended |-> TRUE] ELSE None
      [] p + 1 <= Len(written) /\ written[p] = Backslash /\ written[p + 1] \in DOMAIN Unescaped ->
            Then(f[p + 2], Unescaped[written[p + 1]])
      [] p + 5 <= Len(written) /\ written[p] = Backslash /\ written[p + 1] = LetterU ->
            Then(f[p + 6], 16 * HexValue(written[p + 4]) + HexValue(written[p + 5]))
      [] OTHER -> IF written[p] = Backslash THEN None ELSE Then(f[p + 1], written[p])

\* What is read at a place depends on what is read further on only.
LEMMA ReadsOn ==
    ASSUME NEW w \in Seq(Nat), NEW p \in 1..Len(w) + 1, NEW f, NEW g,
           \A q \in p + 1..Len(w) + 1 : f[q] = g[q]
    PROVE  ReadAt(w, f, p) = ReadAt(w, g, p)
PROOF
<1> DEFINE one(h) == Then(h[p + 1], w[p])
           two(h) == Then(h[p + 2], Unescaped[w[p + 1]])
           six(h) == Then(h[p + 6], 16 * HexValue(w[p + 4]) + HexValue(w[p + 5]))
           end == IF p = Len(w) THEN [bytes |-> << >>, ended |-> TRUE] ELSE None
           last(h) == IF w[p] = Backslash THEN None ELSE one(h)
<1>1. Len(w) \in Nat
    OBVIOUS
<1>2. p <= Len(w) => one(f) = one(g)
    <2>1. p <= Len(w) => p + 1 \in p + 1..Len(w) + 1
        BY <1>1
    <2> QED BY <2>1
<1>3. p + 1 <= Len(w) => two(f) = two(g)
    <2>1. p + 1 <= Len(w) => p + 2 \in p + 1..Len(w) + 1
        BY <1>1
    <2> QED BY <2>1
<1>4. p + 5 <= Len(w) => six(f) = six(g)
    <2>1. p + 5 <= Len(w) => p + 6 \in p + 1..Len(w) + 1
        BY <1>1
    <2> QED BY <2>1
<1>5. \A h : ReadAt(w, h, p) =
        CASE p > Len(w) -> None
          [] p <= Len(w) /\ w[p] < 32 -> None
          [] p <= Len(w) /\ w[p] = Quote -> end
          [] p + 1 <= Len(w) /\ w[p] = Backslash /\ w[p + 1] \in DOMAIN Unescaped -> two(h)
          [] p + 5 <= Len(w) /\ w[p] = Backslash /\ w[p + 1] = LetterU -> six(h)
          [] OTHER -> last(h)
    BY DEF ReadAt
<1>6. p <= Len(w) => last(f) = last(g)
    BY <1>2
<1> HIDE DEF one, two, six, end, last
<1>7. p > Len(w) \/ p <= Len(w)
    BY <1>1
<1> QED BY <1>3, <1>4, <1>5, <1>6, <1>7

LEMMA ReadingDef ==
    ASSUME NEW w \in Seq(Nat)
    PROVE  \A p \in 1..Len(w) + 1 : Reading(w)[p] = ReadAt(w, Reading(w), p)
PROOF
<1> DEFINE W == Len(w)
           from(m) == W + 1 - m
           body(f, m) == [p \in from(m)..W + 1 |-> ReadAt(w, f, p)]
           S == {m \in 0..W : \E f : f = body(f, m)}
<1>1. W \in Nat
    OBVIOUS
<1>2. 0 \in S
    <2> DEFINE f == [p \in from(0)..W + 1 |-> ReadAt(w, << >>, p)]
    <2>1. ASSUME NEW p \in from(0)..W + 1 PROVE ReadAt(w, << >>, p) = ReadAt(w, f, p)
        <3> DEFINE e == << >>
        <3>1. p \in 1..Len(w) + 1 /\ p = Len(w) + 1
            BY <1>1
        <3>2. \A q \in p + 1..Len(w) + 1 : e[q] = f[q]
            BY <1>1, <3>1
        <3> HIDE DEF e, f
        <3>3. ReadAt(w, e, p) = ReadAt(w, f, p)
            BY <3>1, <3>2, ReadsOn
        <3> QED BY <3>3 DEF e
    <2>2. f = body(f, 0)
        <3> DEFINE g == body(f, 0)
        <3>1. \A p \in from(0)..W + 1 : f[p] = ReadAt(w, << >>, p) /\ g[p] = ReadAt(w, f, p)
            OBVIOUS
        <3> QED BY <2>1, <3>1
    <2> HIDE DEF f, body
    <2> QED BY <1>1, <2>2
<1>3. ASSUME NEW m \in 0..W - 1, m \in S PROVE m + 1 \in S
    <2>1. PICK f : f = body(f, m)
        BY <1>3
    <2> DEFINE g == [p \in from(m + 1)..W + 1 |-> ReadAt(w, f, p)]
    <2>2. ASSUME NEW q \in from(m)..W + 1 PROVE g[q] = f[q]
        <3>1. q \in from(m + 1)..W + 1
            BY <1>1
        <3>2. g[q] = ReadAt(w, f, q)
            BY <3>1
        <3> HIDE DEF g
        <3>3. f[q] = ReadAt(w, f, q)
            BY <2>1
        <3> QED BY <3>2, <3>3
    <2>3. ASSUME NEW p \in from(m + 1)..W + 1 PROVE ReadAt(w, g, p) = ReadAt(w, f, p)
        <3>1. p \in 1..Len(w) + 1
            BY <1>1
        <3>2. \A q \in p + 1..Len(w) + 1 : q \in from(m)..W + 1
            BY <1>1
        <3> HIDE DEF g, from, W
        <3>3. \A q \in p + 1..Len(w) + 1 : g[q] = f[q]
            BY <2>2, <3>2
        <3> QED BY <3>1, <3>3, ReadsOn
    <2>4. g = body(g, m + 1)
        <3> DEFINE h == body(g, m + 1)
        <3>1. \A p \in from(m + 1)..W + 1 : g[p] = ReadAt(w, f, p) /\ h[p] = ReadAt(w, g, p)
            OBVIOUS
        <3> QED BY <2>3, <3>1
    <2>5. m + 1 \in 0..W
        BY <1>1
    <2> HIDE DEF g, body
    <2> QED BY <2>4, <2>5
<1>4. W \in S
    <2> HIDE DEF S, W
    <2>1. 0..W \subseteq S
        BY <1>1, <1>2, <1>3, Induction
    <2> QED BY <1>1, <2>1
<1>5. \E f : f = [p \in 1..W + 1 |-> ReadAt(w, f, p)]
    <2>1. from(W) = 1
        BY <1>1
    <2> QED BY <1>4, <2>1
<1> DEFINE reading == Reading(w)
<1>6. reading = CHOOSE f : f = [p \in 1..W + 1 |-> ReadAt(w, f, p)]
    BY DEF Reading, ReadAt
<1>7. reading = [p \in 1..W + 1 |-> ReadAt(w, reading, p)]
    <2> HIDE DEF reading
    <2> QED BY <1>5, <1>6
<1> HIDE DEF reading
<1>8. \A p \in 1..W + 1 : reading[p] = ReadAt(w, reading, p)
    BY <1>7
<1> QED BY <1>8 DEF reading

\* What stands for a character at a place of a text.
CodeAt(w, p, c) ==
    /\ p + Len(Code(c)) - 1 <= Len(w)
    /\ \A i \in 1..Len(Code(c)) : w[p + i - 1] = Code(c)[i]

LEMMA ReadClean ==
    ASSUME NEW w \in Seq(Nat), NEW f, NEW p \in 1..Len(w), NEW c \in Byte,
           ESCAPED(c) = 0, CodeAt(w, p, c)
    PROVE  Len(Code(c)) = 1 /\ ReadAt(w, f, p) = Then(f[p + 1], c)
PROOF
<1>1. Code(c) = <<c>> /\ Len(Code(c)) = 1 /\ Code(c)[1] = c
    BY DEF Code
<1>2. c >= 32 /\ c # Quote /\ c # Backslash
    <2>1. c \notin Needy
        BY EscapedIs
    <2> QED BY <2>1 DEF Needy, Byte
<1>3. w[p] = c /\ p \in Nat /\ Len(w) \in Nat
    <2>1. p + 1 - 1 = p /\ 1 \in 1..1
        OBVIOUS
    <2> QED BY <1>1, <2>1 DEF CodeAt
<1> DEFINE t == Then(f[p + 1], c)
<1>4. ReadAt(w, f, p) = t
    BY <1>2, <1>3 DEF ReadAt, Quote, Backslash
<1> QED BY <1>1, <1>4

LEMMA ReadPair ==
    ASSUME NEW w \in Seq(Nat), NEW f, NEW p \in 1..Len(w), NEW c \in Byte,
           ESCAPED(c) # 0, ESCAPED(c) # LetterU, CodeAt(w, p, c)
    PROVE  Len(Code(c)) = 2 /\ ReadAt(w, f, p) = Then(f[p + 2], c)
PROOF
<1> DEFINE e == ESCAPED(c)
<1>1. Code(c) = <<Backslash, e>>
    <2>1. Code(c) = <<Backslash, e>> \o << >>
        BY DEF Code, Escape
    <2> QED BY <2>1
<1>2. e \in DOMAIN Unescaped /\ Unescaped[e] = c
    BY DEF ESCAPED, Unescaped, Byte, Quote, Backslash, LetterU
<1> HIDE DEF e
<1>3. Len(Code(c)) = 2 /\ Code(c)[1] = Backslash /\ Code(c)[2] = e
    BY <1>1
<1>4. w[p] = Backslash /\ w[p + 1] = e /\ p + 1 <= Len(w) /\ p \in Nat /\ Len(w) \in Nat
    <2>1. p + 1 - 1 = p /\ p + 2 - 1 = p + 1 /\ 1 \in 1..2 /\ 2 \in 1..2
        OBVIOUS
    <2> QED BY <1>3, <2>1 DEF CodeAt
<1> DEFINE t == Then(f[p + 2], Unescaped[e])
<1>5. ReadAt(w, f, p) = t
    <2>1. w[p + 1] \in DOMAIN Unescaped /\ w[p + 1] # LetterU
        BY <1>2, <1>4 DEF e
    <2> QED BY <1>4, <2>1 DEF ReadAt, Quote, Backslash
<1> QED BY <1>2, <1>3, <1>5

LEMMA HexRight ==
    ASSUME NEW c \in 0..31
    PROVE  16 * HexValue(HexDigit(c \div 16)) + HexValue(HexDigit(c % 16)) = c
PROOF
<1> DEFINE a == c \div 16
           b == c % 16
<1>1. a \in 0..1 /\ b \in 0..15 /\ 16 * a + b = c
    OBVIOUS
<1> HIDE DEF a, b
<1>2. HexValue(HexDigit(a)) = a /\ HexValue(HexDigit(b)) = b
    BY <1>1 DEF HexDigit, HexValue
<1> QED BY <1>1, <1>2 DEF a, b

LEMMA ReadHex ==
    ASSUME NEW w \in Seq(Nat), NEW f, NEW p \in 1..Len(w), NEW c \in Byte,
           ESCAPED(c) = LetterU, CodeAt(w, p, c)
    PROVE  Len(Code(c)) = 6 /\ ReadAt(w, f, p) = Then(f[p + 6], c)
PROOF
<1> DEFINE a == HexDigit(c \div 16)
           b == HexDigit(c % 16)
<1>1. Code(c) = <<Backslash, LetterU>> \o <<48, 48, a, b>>
    BY DEF Code, Escape, LetterU
<1>2. c \in 0..31
    <2>1. c \in Needy
        BY EscapedIs DEF LetterU
    <2>2. ESCAPED(Quote) = Quote /\ ESCAPED(Backslash) = Backslash
        BY DEF ESCAPED, Quote, Backslash
    <2> QED BY <2>1, <2>2 DEF Needy, Quote, Backslash, LetterU
<1>3. 16 * HexValue(a) + HexValue(b) = c
    BY <1>2, HexRight
<1>4. Len(Code(c)) = 6 /\ Code(c)[1] = Backslash /\ Code(c)[2] = LetterU /\ Code(c)[5] = a /\ Code(c)[6] = b
    <2> DEFINE x == <<Backslash, LetterU>>
               y == <<48, 48, a, b>>
    <2>1. a \in Nat /\ b \in Nat
        <3>1. c \div 16 \in Nat /\ c % 16 \in Nat
            BY <1>2
        <3> QED BY <3>1, DigitType
    <2> HIDE DEF a, b
    <2>2. x \in Seq(Nat) /\ Len(x) = 2 /\ x[1] = Backslash /\ x[2] = LetterU
        BY DEF Backslash, LetterU
    <2>3. y \in Seq(Nat) /\ Len(y) = 4 /\ y[3] = a /\ y[4] = b
        BY <2>1
    <2> HIDE DEF x, y
    <2>4. Len(x \o y) = 6 /\ \A i \in 1..6 : (x \o y)[i] = IF i <= 2 THEN x[i] ELSE y[i - 2]
        <3>1. /\ Len(x \o y) = Len(x) + Len(y)
              /\ \A i \in 1..Len(x) + Len(y) : (x \o y)[i] = IF i <= Len(x) THEN x[i] ELSE y[i - Len(x)]
            BY <2>2, <2>3, ConcatProperties
        <3>2. Len(x) = 2 /\ Len(x) + Len(y) = 6
            BY <2>2, <2>3
        <3> QED BY ONLY <3>1, <3>2
    <2>5. (x \o y)[1] = x[1] /\ (x \o y)[2] = x[2] /\ (x \o y)[5] = y[3] /\ (x \o y)[6] = y[4]
        BY <2>4
    <2> QED BY <1>1, <2>2, <2>3, <2>4, <2>5 DEF x, y
<1> HIDE DEF a, b
<1>5. /\ w[p] = Backslash /\ w[p + 1] = LetterU /\ w[p + 4] = a /\ w[p + 5] = b
      /\ p + 5 <= Len(w) /\ p \in Nat /\ Len(w) \in Nat
    <2>1. p + 6 - 1 <= Len(w) /\ \A i \in 1..6 : w[p + i - 1] = Code(c)[i]
        BY <1>4 DEF CodeAt
    <2>2. w[p + 1 - 1] = Backslash /\ w[p + 2 - 1] = LetterU /\ w[p + 5 - 1] = a /\ w[p + 6 - 1] = b
        BY <1>4, <2>1
    <2>3. p + 1 - 1 = p /\ p + 2 - 1 = p + 1 /\ p + 5 - 1 = p + 4 /\ p + 6 - 1 = p + 5
        OBVIOUS
    <2> QED BY <2>1, <2>2, <2>3
<1> DEFINE t == Then(f[p + 6], 16 * HexValue(w[p + 4]) + HexValue(w[p + 5]))
<1>6. ReadAt(w, f, p) = t
    <2>1. LetterU \notin DOMAIN Unescaped
        BY DEF Unescaped, Quote, Backslash, LetterU
    <2> QED BY <1>5, <2>1 DEF ReadAt, Quote, Backslash
<1> QED BY <1>3, <1>4, <1>5, <1>6

LEMMA ReadOne ==
    ASSUME NEW w \in Seq(Nat), NEW f, NEW p \in 1..Len(w), NEW c \in Byte, CodeAt(w, p, c)
    PROVE  ReadAt(w, f, p) = Then(f[p + Len(Code(c))], c)
PROOF
<1>1. CASE ESCAPED(c) = 0
    <2>1. Len(Code(c)) = 1 /\ ReadAt(w, f, p) = Then(f[p + 1], c)
        BY <1>1, ReadClean
    <2> QED BY <2>1
<1>2. CASE ESCAPED(c) # 0 /\ ESCAPED(c) # LetterU
    <2>1. Len(Code(c)) = 2 /\ ReadAt(w, f, p) = Then(f[p + 2], c)
        BY <1>2, ReadPair
    <2> QED BY <2>1
<1>3. CASE ESCAPED(c) = LetterU
    <2>1. Len(Code(c)) = 6 /\ ReadAt(w, f, p) = Then(f[p + 6], c)
        BY <1>3, ReadHex
    <2> QED BY <2>1
<1> QED BY <1>1, <1>2, <1>3

LEMMA CodeLength ==
    ASSUME NEW c \in Byte
    PROVE  Len(Code(c)) \in Nat \ {0}
PROOF
<1>1. CASE ESCAPED(c) = 0
    <2>1. Code(c) = <<c>>
        BY <1>1 DEF Code
    <2> QED BY <2>1
<1>2. CASE ESCAPED(c) # 0
    <2> DEFINE e == ESCAPED(c)
               x == <<Backslash, e>>
               y == IF e = LetterU THEN <<48, 48, HexDigit(c \div 16), HexDigit(c % 16)>> ELSE << >>
    <2>1. Code(c) = x \o y
        BY <1>2 DEF Code, Escape
    <2>2. e \in Nat /\ c \div 16 \in Nat /\ c % 16 \in Nat
        BY EscapedIs DEF Byte
    <2>3. y \in Seq(Nat)
        <3>1. HexDigit(c \div 16) \in Nat /\ HexDigit(c % 16) \in Nat
            BY <2>2, DigitType
        <3> QED BY <3>1
    <2>4. x \in Seq(Nat) /\ Len(x) = 2
        BY <2>2 DEF Backslash
    <2> HIDE DEF x, y
    <2>5. Len(x \o y) = Len(x) + Len(y)
        BY <2>3, <2>4, ConcatProperties
    <2>6. Len(y) \in Nat
        BY <2>3, LenProperties
    <2> QED BY <2>1, <2>4, <2>5, <2>6
<1> QED BY <1>1, <1>2

LEMMA SecondPart ==
    ASSUME NEW s \in Seq(Nat), NEW t \in Seq(Nat), NEW i \in 1..Len(t)
    PROVE  (s \o t)[Len(s) + i] = t[i]
PROOF
<1>1. Len(s) \in Nat /\ Len(t) \in Nat
    BY LenProperties
<1>2. PICK j \in 1..Len(s) + Len(t) : j = Len(s) + i
    BY <1>1
<1>3. (s \o t)[j] = IF j <= Len(s) THEN s[j] ELSE t[j - Len(s)]
    BY ConcatProperties
<1>4. ~(j <= Len(s)) /\ j - Len(s) = i
    BY <1>1, <1>2
<1> QED BY <1>2, <1>3, <1>4

\* The place of the character after the n-th, and that it stands there.
LEMMA Stands ==
    ASSUME text \in Seq(Byte), NEW n \in 1..Len(text)
    PROVE  /\ Len(encoded[n - 1]) + 1 \in 1..Len(Encoded)
           /\ CodeAt(Encoded, Len(encoded[n - 1]) + 1, text[n])
           /\ Len(encoded[n]) = Len(encoded[n - 1]) + Len(Code(text[n]))
PROOF
<1> DEFINE a == encoded[n - 1]
           c == Code(text[n])
<1>1. encoded[n] = a \o c /\ a \in Seq(Nat) /\ c \in Seq(Nat)
    <2>1. n \in 0..Len(text) /\ n - 1 \in 0..Len(text) /\ text[n] \in Byte
        OBVIOUS
    <2> QED BY <2>1, EncodedDef, EscapeType
<1>2. PICK s \in Seq(Nat) : Encoded = encoded[n] \o s
    <2>1. n \in 0..Len(text)
        OBVIOUS
    <2> QED BY <2>1, Beginning
<1>3. Len(c) > 0
    BY CodeLength
<1> HIDE DEF a, c
<1> DEFINE A == Len(a)
           C == Len(c)
<1>4. A \in Nat /\ C \in Nat /\ Len(s) \in Nat
    BY <1>1, <1>2
<1>5. Len(a \o c) = A + C /\ \A i \in 1..A + C : (a \o c)[i] = IF i <= A THEN a[i] ELSE c[i - A]
    BY <1>1, ConcatProperties
<1>6. /\ Len(Encoded) = A + C + Len(s)
      /\ \A i \in 1..A + C : Encoded[i] = (a \o c)[i]
    <2> DEFINE b == a \o c
    <2>1. b \in Seq(Nat) /\ Len(b) = A + C
        BY <1>1, <1>5, Joins
    <2> HIDE DEF b, A, C
    <2>2. Len(b \o s) = Len(b) + Len(s) /\ \A i \in 1..Len(b) + Len(s) : (b \o s)[i] = IF i <= Len(b) THEN b[i] ELSE s[i - Len(b)]
        BY <1>2, <2>1, ConcatProperties
    <2>3. Encoded = b \o s
        BY <1>1, <1>2 DEF b
    <2> QED BY <1>4, <2>1, <2>2, <2>3 DEF b
<1> HIDE DEF A, C
<1>7. ASSUME NEW i \in 1..C PROVE Encoded[A + 1 + i - 1] = c[i]
    <2>1. A + 1 + i - 1 = A + i /\ A + i \in 1..A + C
        BY <1>4
    <2>2. Encoded[A + i] = (a \o c)[A + i]
        BY <1>6, <2>1
    <2>3. (a \o c)[A + i] = c[i]
        BY <1>1, SecondPart DEF A, C
    <2> QED BY <2>1, <2>2, <2>3
<1>8. A + 1 + C - 1 <= Len(Encoded) /\ A + 1 \in 1..Len(Encoded)
    BY <1>3, <1>4, <1>6 DEF C
<1>9. CodeAt(Encoded, A + 1, text[n])
    BY <1>7, <1>8 DEF CodeAt, A, C, c
<1> QED BY <1>1, <1>5, <1>8, <1>9 DEF A, C, a, c

LEMMA ThenIs ==
    ASSUME NEW s, NEW c, NEW e
    PROVE  Then([bytes |-> s, ended |-> e], c) = [bytes |-> <<c>> \o s, ended |-> e]
PROOF
<1> DEFINE r == [bytes |-> s, ended |-> e]
           v == <<c>> \o r.bytes
<1>1. Then(r, c) = [r EXCEPT !.bytes = v]
    BY DEF Then
<1>2. v = <<c>> \o s
    OBVIOUS
<1> HIDE DEF v
<1>3. [r EXCEPT !.bytes = v] = [bytes |-> v, ended |-> e]
    OBVIOUS
<1> HIDE DEF r
<1> QED BY <1>1, <1>2, <1>3 DEF r

LEMMA ReadsEncoded ==
    ASSUME text \in Seq(Byte)
    PROVE  ReadBack(Encoded) = [bytes |-> text, ended |-> TRUE]
PROOF
<1> DEFINE N == Len(text)
           w == Encoded
           place(n) == Len(encoded[n]) + 1
           rest(n) == [bytes |-> SubSeq(text, n + 1, N), ended |-> TRUE]
           S == {n \in 0..N : Reading(w)[place(n)] = rest(n)}
<1>1. N \in Nat
    OBVIOUS
<1>2. /\ w \in Seq(Nat) /\ w # << >> /\ w[1] = Quote
      /\ place(N) \in Nat \ {0} /\ Len(w) = place(N) /\ w[place(N)] = Quote
    <2> DEFINE q == <<Quote>>
               a == encoded[N]
    <2>1. a \in Seq(Nat) /\ q \in Seq(Nat) /\ Len(q) = 1 /\ q[1] = Quote /\ encoded[0] = q
        BY <1>1, EncodedDef DEF Quote
    <2>2. Encoded = a \o q
        BY DEF Encoded
    <2>3. PICK s \in Seq(Nat) : Encoded = q \o s
        <3>1. 0 \in 0..N
            BY <1>1
        <3> QED BY <2>1, <3>1, Beginning
    <2> HIDE DEF a, q
    <2>4. a \o q \in Seq(Nat) /\ Len(a \o q) = Len(a) + 1 /\ (a \o q)[Len(a) + 1] = Quote /\ Len(a) \in Nat
        <3>1. Len(a) \in Nat
            BY <2>1, LenProperties
        <3>2. a \o q \in Seq(Nat) /\ Len(a \o q) = Len(a) + Len(q)
            BY <2>1, ConcatProperties
        <3>3. (a \o q)[Len(a) + 1] = q[1]
            <4>1. 1 \in 1..Len(q)
                BY <2>1
            <4> QED BY <2>1, <4>1, SecondPart
        <3> QED BY <2>1, <3>1, <3>2, <3>3
    <2>5. (q \o s)[1] = Quote
        <3>1. Len(s) \in Nat
            BY <2>3, LenProperties
        <3>2. \A i \in 1..Len(q) + Len(s) : (q \o s)[i] = IF i <= Len(q) THEN q[i] ELSE s[i - Len(q)]
            BY <2>1, <2>3, ConcatProperties
        <3>3. 1 \in 1..Len(q) + Len(s) /\ 1 <= Len(q)
            BY <2>1, <3>1
        <3>4. (q \o s)[1] = q[1]
            BY <3>2, <3>3
        <3> QED BY <2>1, <3>4
    <2>6. w \in Seq(Nat) /\ w[1] = Quote /\ Len(w) = Len(a) + 1 /\ w[Len(a) + 1] = Quote /\ Len(a) \in Nat
        BY <2>2, <2>3, <2>4, <2>5
    <2>7. place(N) = Len(a) + 1
        BY DEF a
    <2> HIDE DEF w, place
    <2>8. w # << >>
        <3> DEFINE e == << >>
        <3>1. Len(e) = 0
            OBVIOUS
        <3>2. Len(w) # 0
            BY <2>6
        <3> QED BY <3>1, <3>2
    <2> QED BY <2>6, <2>7, <2>8
<1>3. \A p \in 1..Len(w) + 1 : Reading(w)[p] = ReadAt(w, Reading(w), p)
    BY <1>2, ReadingDef
<1>4. N \in S
    <2> DEFINE p == place(N)
    <2>1. p = Len(w) /\ w[p] = Quote /\ p \in 1..Len(w) + 1 /\ p \in Nat
        BY <1>2
    <2>2. Reading(w)[p] = [bytes |-> << >>, ended |-> TRUE]
        <3> DEFINE f == Reading(w)
                   e == [bytes |-> << >>, ended |-> TRUE]
        <3> HIDE DEF w, p
        <3>1. f[p] = ReadAt(w, f, p)
            BY <1>3, <2>1
        <3> HIDE DEF f
        <3>2. ReadAt(w, f, p) = e
            BY <2>1 DEF ReadAt, Quote, Backslash
        <3> QED BY <3>1, <3>2 DEF f
    <2>3. SubSeq(text, N + 1, N) = << >>
        BY <1>1, EmptySlice
    <2> HIDE DEF w
    <2>4. N \in 0..N
        BY <1>1
    <2>5. Reading(w)[place(N)] = rest(N)
        BY <2>2, <2>3
    <2> QED BY <2>4, <2>5
<1>5. ASSUME NEW n \in 1..N, n \in S PROVE n - 1 \in S
    <2> DEFINE c == text[n]
               p == place(n - 1)
               f == Reading(w)
    <2>1. c \in Byte /\ n - 1 \in 0..N
        BY <1>1
    <2>2. p \in 1..Len(w) /\ CodeAt(w, p, c) /\ place(n) = p + Len(Code(c))
        <3>1. Len(encoded[n - 1]) \in Nat /\ Len(Code(c)) \in Nat
            BY <2>1, EncodedDef, CodeLength
        <3>2. Len(encoded[n]) = Len(encoded[n - 1]) + Len(Code(c))
            BY Stands
        <3>3. p \in 1..Len(w) /\ CodeAt(w, p, c)
            BY Stands
        <3>4. place(n) = p + Len(Code(c))
            <4> DEFINE x == Len(encoded[n - 1])
                       y == Len(Code(c))
                       z == Len(encoded[n])
            <4>1. x \in Nat /\ y \in Nat /\ z = x + y
                BY <3>1, <3>2
            <4> HIDE DEF x, y, z
            <4>2. z + 1 = x + 1 + y
                BY <4>1
            <4> QED BY <4>2 DEF x, y, z
        <3> QED BY <3>3, <3>4
    <2>3. f[place(n)] = rest(n)
        BY <1>5
    <2> HIDE DEF w, place, c, p, rest, f
    <2>4. p \in 1..Len(w) + 1 /\ f[p] = ReadAt(w, f, p)
        BY <1>2, <1>3, <2>2 DEF f
    <2>5. f[p] = Then(rest(n), c)
        BY <1>2, <2>1, <2>2, <2>3, <2>4, ReadOne
    <2>6. Then(rest(n), c) = rest(n - 1)
        <3>1. SubSeq(text, n, N) = <<text[n]>> \o SubSeq(text, n + 1, N)
            BY <1>1, SubSeqRecursiveFirst
        <3>2. n - 1 + 1 = n
            BY <1>1
        <3> DEFINE q == SubSeq(text, n + 1, N)
                   r == SubSeq(text, n - 1 + 1, N)
        <3>3. rest(n) = [bytes |-> q, ended |-> TRUE] /\ rest(n - 1) = [bytes |-> r, ended |-> TRUE]
            BY DEF rest
        <3>4. r = <<c>> \o q
            BY <3>1, <3>2 DEF c
        <3> HIDE DEF q, r
        <3>5. Then([bytes |-> q, ended |-> TRUE], c) = [bytes |-> <<c>> \o q, ended |-> TRUE]
            <4> DEFINE e == TRUE
            <4> HIDE DEF e
            <4>1. Then([bytes |-> q, ended |-> e], c) = [bytes |-> <<c>> \o q, ended |-> e]
                BY ThenIs
            <4> QED BY <4>1 DEF e
        <3> QED BY <3>3, <3>4, <3>5
    <2> QED BY <2>1, <2>5, <2>6 DEF f, p
<1>6. 0 \in S
    <2> HIDE DEF S
    <2> QED BY <1>1, <1>4, <1>5, DownwardInduction
<1>7. place(0) = 2
    <2> DEFINE q == <<Quote>>
    <2>1. Len(q) = 1 /\ encoded[0] = q
        BY EncodedDef
    <2> QED BY <2>1
<1>8. SubSeq(text, 1, N) = text
    BY SubSeqFull
<1> HIDE DEF w
<1>9. ReadBack(w) = Reading(w)[2]
    BY <1>2 DEF ReadBack
<1>10. Reading(w)[place(0)] = [bytes |-> SubSeq(text, 1, N), ended |-> TRUE]
    BY <1>6
<1> HIDE DEF place
<1> QED BY <1>7, <1>8, <1>9, <1>10 DEF w

---------------------------------------------------------------------------
(* The containers under way.                                               *)

ItemAts == {"First line", "Next line", "Item", "Key", "Colon"}
ValueAts == {"Json", "Text", "Returned"}
EndAts == {"Last line", "Close"}
KeyAts == {"Key", "Colon"}

Frame ==
    {f \in [kind : Containers, left : Seq(Parts)] :
        f.kind = "object" => \A n \in DOMAIN f.left : Len(f.left[n].items) = 1}

\* All but the innermost have an item left, the one being written, and so has
\* the innermost until its last item has been.
CallsInv ==
    /\ json \in Parts
    /\ calls \in Seq(Frame)
    /\ \A k \in 1..Len(calls) - 1 : calls[k].left # << >>
    /\ at \in ItemAts \union ValueAts => calls = << >> \/ call.left # << >>
    /\ at \in ItemAts \union EndAts => calls # << >>
    /\ at \in KeyAts => call.kind = "object"

\* A step that leaves the calls as they are.
LEMMA SameCalls ==
    ASSUME CallsInv, calls' = calls, json' \in Parts,
           at' \in ItemAts \union ValueAts => at \in ItemAts \union ValueAts,
           at' \in ItemAts \union EndAts => at \in ItemAts \union EndAts,
           at' \in KeyAts => call.kind = "object"
    PROVE  CallsInv'
PROOF
<1>1. call' = call
    BY DEF call
<1> QED BY <1>1 DEF CallsInv

\* The container whose item or end is being written.
LEMMA Innermost ==
    ASSUME CallsInv, calls # << >>
    PROVE  /\ Len(calls) \in Nat \ {0} /\ call = calls[Len(calls)] /\ call \in Frame
           /\ call.left \in Seq(Parts)
PROOF
<1>1. calls \in Seq(Frame)
    BY DEF CallsInv
<1>2. Len(calls) \in Nat \ {0}
    BY <1>1
<1>3. call = calls[Len(calls)]
    BY DEF call, Last
<1>4. calls[Len(calls)] \in Frame
    <2> HIDE DEF Frame
    <2> QED BY <1>1, <1>2
<1> QED BY <1>2, <1>3, <1>4 DEF Frame

LEMMA NextItem ==
    ASSUME CallsInv, calls # << >>, call.left # << >>
    PROVE  /\ Head(call.left) \in Parts /\ Head(call.left).text \in Seq(Byte)
           /\ call.kind = "object" => Head(call.left).items[1] \in Parts
PROOF
<1> DEFINE left == call.left
           item == Head(left)
<1>1. left \in Seq(Parts) /\ call \in Frame
    BY Innermost
<1>2. item \in Parts /\ Len(left) \in Nat \ {0} /\ item = left[1]
    <2> HIDE DEF left
    <2> QED BY <1>1 DEF left
<1>3. item.text \in Seq(Byte) /\ item.items \in Seq(Parts)
    BY <1>2, PartsAssumption DEF Closed
<1>4. ASSUME call.kind = "object" PROVE item.items[1] \in Parts
    <2>1. Len(left[1].items) = 1
        BY <1>1, <1>2, <1>4 DEF Frame
    <2> HIDE DEF left
    <2> QED BY <1>2, <1>3, <2>1
<1> QED BY <1>2, <1>3, <1>4

LEMMA OpenCalls ==
    ASSUME CallsInv, at \in ValueAts, json.kind \in Containers, json' = json,
           calls' = Append(calls, [kind |-> json.kind, left |-> json.items]),
           at' \in ItemAts \union ValueAts => json.items # << >>,
           at' \notin KeyAts
    PROVE  CallsInv'
PROOF
<1> DEFINE new == [kind |-> json.kind, left |-> json.items]
           L == Len(calls)
<1>1. json \in Parts /\ calls \in Seq(Frame) /\ L \in Nat
    BY DEF CallsInv
<1>2. new \in Frame
    BY <1>1, PartsAssumption DEF Frame, Closed
<1> HIDE DEF new
<1>3. calls' \in Seq(Frame) /\ Len(calls') = L + 1 /\ calls' # << >> /\ calls'[L + 1] = new
      /\ \A k \in 1..L : calls'[k] = calls[k]
    <2> HIDE DEF Frame
    <2> QED BY <1>1, <1>2, AppendProperties DEF new
<1>4. call' = new
    BY <1>3 DEF call, Last
<1>5. ASSUME NEW k \in 1..L PROVE calls[k].left # << >>
    <2>1. calls = << >> \/ call.left # << >>
        BY DEF CallsInv
    <2>2. calls # << >>
        BY <1>1
    <2>3. call = calls[L]
        BY DEF call, Last
    <2> QED BY <1>1, <2>1, <2>2, <2>3 DEF CallsInv
<1>6. \A k \in 1..Len(calls') - 1 : calls'[k].left # << >>
    BY <1>1, <1>3, <1>5
<1>7. at' \in ItemAts \union ValueAts => call'.left # << >>
    BY <1>4 DEF new
<1> QED BY <1>1, <1>3, <1>6, <1>7 DEF CallsInv

LEMMA ReturnedCalls ==
    ASSUME CallsInv, at \in ValueAts, calls # << >>, json' = json,
           calls' = [calls EXCEPT ![Len(calls)].left = Tail(call.left)],
           at' \in ItemAts \union ValueAts => Tail(call.left) # << >>,
           at' \notin KeyAts
    PROVE  CallsInv'
PROOF
<1> DEFINE L == Len(calls)
           left == Tail(call.left)
           new == [calls[L] EXCEPT !.left = left]
<1>1. /\ L \in Nat \ {0} /\ call = calls[L] /\ call \in Frame /\ call.left \in Seq(Parts)
      /\ calls \in Seq(Frame) /\ json \in Parts /\ call.left # << >>
    BY Innermost DEF CallsInv
<1>2. left \in Seq(Parts) /\ Len(left) = Len(call.left) - 1 /\ \A n \in 1..Len(left) : left[n] = call.left[n + 1]
    BY <1>1, HeadTailProperties
<1>3. new \in Frame
    <2>1. new.kind = call.kind /\ new.left = left /\ new \in [kind : Containers, left : Seq(Parts)]
        BY <1>1, <1>2 DEF Frame
    <2>2. ASSUME call.kind = "object", NEW n \in DOMAIN left PROVE Len(left[n].items) = 1
        <3> DEFINE old == call.left
        <3>1. n \in 1..Len(left) /\ n + 1 \in DOMAIN old
            BY <1>1, <1>2
        <3>2. Len(old[n + 1].items) = 1
            BY <1>1, <2>2, <3>1 DEF Frame
        <3> QED BY <1>2, <3>1, <3>2
    <2> HIDE DEF new, left
    <2> QED BY <2>1, <2>2 DEF Frame
<1>4. calls' = [calls EXCEPT ![L] = new]
    OBVIOUS
<1>5. new.left = left
    BY <1>1 DEF Frame
<1> HIDE DEF new, left
<1>6. calls' \in Seq(Frame) /\ Len(calls') = L /\ calls' # << >>
      /\ \A k \in 1..L : calls'[k] = IF k = L THEN new ELSE calls[k]
    <2> HIDE DEF Frame
    <2>1. L \in 1..Len(calls)
        BY <1>1
    <2> DEFINE next == [calls EXCEPT ![L] = new]
    <2>2. /\ next \in Seq(Frame) /\ Len(next) = Len(calls)
          /\ \A k \in 1..Len(calls) : next[k] = IF k = L THEN new ELSE calls[k]
        <3> HIDE DEF L
        <3> QED BY <1>1, <1>3, <2>1, ExceptSeq
    <2>3. calls' = next
        BY <1>4
    <2> HIDE DEF next
    <2>4. next # << >>
        <3> DEFINE e == << >>
        <3>1. Len(e) = 0 /\ Len(next) # 0
            BY <1>1, <2>2
        <3> QED BY <3>1
    <2> QED BY <2>2, <2>3, <2>4
<1>7. call' = new
    BY <1>1, <1>6 DEF call, Last
<1>8. \A k \in 1..Len(calls') - 1 : calls'[k].left # << >>
    BY <1>1, <1>6 DEF CallsInv
<1>9. at' \in ItemAts \union ValueAts => call'.left # << >>
    BY <1>5, <1>7 DEF left
<1> QED BY <1>1, <1>6, <1>8, <1>9 DEF CallsInv

LEMMA FrontIs ==
    ASSUME NEW S, NEW s \in Seq(S), s # << >>
    PROVE  /\ Front(s) \in Seq(S) /\ Len(Front(s)) = Len(s) - 1
           /\ \A k \in 1..Len(s) - 1 : Front(s)[k] = s[k]
PROOF
<1> DEFINE m == Len(s) - 1
           front == SubSeq(s, 1, m)
<1>1. Len(s) \in Nat \ {0} /\ m \in Nat
    OBVIOUS
<1>2. \A i \in 1..m : s[i] \in S
    BY <1>1
<1> HIDE DEF m
<1>3. /\ front \in Seq(S) /\ Len(front) = IF 1 <= m THEN m - 1 + 1 ELSE 0
      /\ \A k \in 1..m - 1 + 1 : front[k] = s[1 + k - 1]
    <2>1. m \in Int /\ 1 \in Int
        BY <1>1
    <2> QED BY <1>2, <2>1, SubSeqProperties
<1> HIDE DEF front
<1>4. Len(front) = m /\ \A k \in 1..m : front[k] = s[k]
    <2>1. ASSUME NEW k \in 1..m PROVE front[k] = s[k]
        <3>1. k \in 1..m - 1 + 1 /\ 1 + k - 1 = k
            BY <1>1
        <3> QED BY <1>3, <3>1
    <2> QED BY <1>1, <1>3, <2>1
<1>5. Front(s) = front
    BY DEF Front, front, m
<1> QED BY <1>3, <1>4, <1>5 DEF m

LEMMA CloseCalls ==
    ASSUME CallsInv, calls # << >>, json' = json, calls' = Front(calls), at' \notin ItemAts \union EndAts,
           at' \notin KeyAts
    PROVE  CallsInv'
PROOF
<1> DEFINE L == Len(calls)
<1>1. L \in Nat \ {0} /\ calls \in Seq(Frame) /\ json \in Parts
    BY Innermost DEF CallsInv
<1>2. calls' \in Seq(Frame) /\ Len(calls') = L - 1 /\ \A k \in 1..L - 1 : calls'[k] = calls[k]
    <2> HIDE DEF Frame
    <2> QED BY <1>1, FrontIs
<1>3. \A k \in 1..L - 1 : calls'[k].left # << >>
    BY <1>2 DEF CallsInv
<1>4. calls' = << >> \/ call'.left # << >>
    <2>1. CASE L = 1
        <3>1. Len(calls') = 0
            BY <1>2, <2>1
        <3> QED BY <1>2, <3>1, EmptySeq
    <2>2. CASE L # 1
        <3>1. L - 1 \in 1..L - 1 /\ call' = calls'[L - 1]
            BY <1>1, <1>2, <2>2 DEF call, Last
        <3> QED BY <1>3, <3>1
    <2> QED BY <2>1, <2>2
<1>5. \A k \in 1..Len(calls') - 1 : calls'[k].left # << >>
    BY <1>1, <1>2, <1>3
<1> QED BY <1>1, <1>2, <1>4, <1>5 DEF CallsInv

---------------------------------------------------------------------------
(* Each step of write_json keeps both so.                                  *)

LEMMA StringStays ==
    ASSUME StringInv, UNCHANGED vars
    PROVE  StringInv'
PROOF
<1>1. encoded' = encoded /\ Encoded' = Encoded
    BY TextOnly DEF vars
<1>2. text' = text /\ pc' = pc /\ string' = string /\ idx' = idx /\ out' = out /\ Past' = Past
    BY DEF vars, Past
<1> QED BY <1>1, <1>2 DEF StringInv, RestAfter, Clean

LEMMA StringStarts ==
    ASSUME NEW s \in Seq(Byte), Start(s)
    PROVE  StringInv'
PROOF BY DEF Start, StringInv

LEMMA TextBegins ==
    ASSUME text \in Seq(Byte), NEW p \in 0..Len(text)
    PROVE  IsPrefix(encoded[p], Encoded)
PROOF
<1> DEFINE a == encoded[p]
           e == << >>
<1>1. PICK s \in Seq(Nat) : Encoded = a \o s
    BY Beginning
<1>2. a \in Seq(Nat) /\ e \in Seq(Nat)
    <2>1. e \in Seq(Nat)
        OBVIOUS
    <2> HIDE DEF e
    <2> QED BY <2>1, EncodedDef
<1>3. SubSeq(s, 1, 0) = e
    <2>1. 0 \in Int /\ 0 + 1 = 1
        OBVIOUS
    <2> QED BY <2>1, EmptySlice
<1> HIDE DEF a, e
<1>4. IsPrefix(a \o SubSeq(s, 1, 0), (a \o s) \o e)
    <2>1. 0 \in 0..Len(s)
        BY <1>1, LenProperties
    <2> QED BY <1>1, <1>2, <2>1, PrefixOf
<1>5. a \o e = a /\ (a \o s) \o e = a \o s
    <2>1. a \o s \in Seq(Nat)
        BY <1>1, <1>2, Joins
    <2> QED BY <1>2, <2>1, ConcatEmptySeq DEF e
<1> QED BY <1>1, <1>3, <1>4, <1>5 DEF a

LEMMA EncodedType ==
    ASSUME text \in Seq(Byte)
    PROVE  Encoded \in Seq(Nat)
PROOF
<1>1. PICK s \in Seq(Nat) : Encoded = encoded[0] \o s
    <2>1. 0 \in 0..Len(text)
        OBVIOUS
    <2> QED BY <2>1, Beginning
<1>2. encoded[0] \in Seq(Nat)
    BY EncodedDef
<1> QED BY <1>1, <1>2, Joins

LEMMA TextIsWhole ==
    ASSUME text \in Seq(Byte)
    PROVE  IsPrefix(Encoded, Encoded)
PROOF
<1> DEFINE w == Encoded
<1>1. w \in Seq(Nat)
    BY EncodedType
<1> HIDE DEF w
<1>2. IsPrefix(w, w)
    BY <1>1 DEF IsPrefix
<1> QED BY <1>2 DEF w

LEMMA StringEnds ==
    ASSUME StringInv, pc = "Ok", pc' = "Idle", UNCHANGED <<text, string, idx, out>>
    PROVE  StringInv'
PROOF
<1>1. Encoded' = Encoded /\ text \in Seq(Byte) /\ out = Encoded
    BY TextOnly DEF StringInv
<1>2. IsPrefix(Encoded, Encoded)
    BY <1>1, TextIsWhole
<1> QED BY <1>1, <1>2 DEF StringInv

JsonInv == StringInv /\ CallsInv

LEMMA InitStep == JsonInit => JsonInv
PROOF
<1> SUFFICES ASSUME JsonInit PROVE JsonInv
    OBVIOUS
<1>1. text = << >> /\ pc = "Idle" /\ out = << >> /\ json \in Values /\ calls = << >>
    BY DEF JsonInit, Init
<1>2. at \in ValueAts /\ at \notin EndAts /\ at \notin ItemAts /\ at \notin KeyAts
    BY Zenon DEF JsonInit, ValueAts, EndAts, ItemAts, KeyAts
<1>3. StringInv
    <2>1. text \in Seq(Byte)
        BY <1>1
    <2>2. IsPrefix(out, Encoded)
        BY <1>1, <2>1, EmptyPrefix
    <2> QED BY <1>1, <2>1, <2>2 DEF StringInv
<1>4. CallsInv
    BY <1>1, <1>2, PartsAssumption DEF CallsInv
<1> QED BY <1>3, <1>4 DEF JsonInv

\* Where the program is after something was written, or was not.
LEMMA EmitAt ==
    ASSUME NEW tokens, NEW then, Emit(tokens, then)
    PROVE  at' = then \/ at' = "Error"
PROOF BY DEF Emit

LEMMA LineAt ==
    ASSUME NEW d, NEW then, NewLine(d, then)
    PROVE  at' = then \/ at' \in {"Error", "Panic"}
PROOF BY EmitAt DEF NewLine

\* An error is returned from any place.
LEMMA Returns ==
    ASSUME CallsInv, calls' = calls, json' = json, at' \in {"Ok", "Error", "Panic"}
    PROVE  CallsInv'
PROOF
<1>1. at' \notin ItemAts \union ValueAts /\ at' \notin ItemAts \union EndAts /\ at' \notin KeyAts
    BY Zenon DEF ItemAts, ValueAts, EndAts, KeyAts
<1>2. json \in Parts
    BY DEF CallsInv
<1> QED BY <1>1, <1>2, SameCalls

LEMMA ScalarStep == JsonInv /\ Scalar => JsonInv'
PROOF
<1> SUFFICES ASSUME JsonInv, Scalar PROVE JsonInv'
    OBVIOUS
<1>1. UNCHANGED vars /\ json' = json /\ calls' = calls /\ at = "Json"
    BY DEF Scalar
<1>2. at' = "Returned" \/ at' = "Error"
    BY EmitAt DEF Scalar
<1>3. at' = "Returned" => at' \notin EndAts /\ at' \notin KeyAts /\ at' \notin ItemAts /\ at \in ValueAts
    BY <1>1, Zenon DEF ItemAts, ValueAts, EndAts, KeyAts
<1>4. CallsInv'
    <2>1. CallsInv /\ json \in Parts
        BY DEF JsonInv, CallsInv
    <2>2. CASE at' = "Returned"
        BY <1>1, <1>3, <2>1, <2>2, SameCalls
    <2>3. CASE at' = "Error"
        BY <1>1, <2>1, <2>3, Returns
    <2> QED BY <1>2, <2>2, <2>3
<1> QED BY <1>1, <1>4, StringStays DEF JsonInv

LEMMA JsonStringStep == JsonInv /\ JsonString => JsonInv'
PROOF
<1> SUFFICES ASSUME JsonInv, JsonString PROVE JsonInv'
    OBVIOUS
<1>1. Start(json.text) /\ json' = json /\ calls' = calls /\ at = "Json" /\ at' = "Text"
    BY DEF JsonString
<1>2. at' \notin EndAts /\ at' \notin KeyAts /\ at' \notin ItemAts /\ at \in ValueAts
    BY <1>1, Zenon DEF ItemAts, ValueAts, EndAts, KeyAts
<1>3. CallsInv /\ json \in Parts
    BY DEF JsonInv, CallsInv
<1>4. json.text \in Seq(Byte)
    BY <1>3, PartsAssumption DEF Closed
<1> QED BY <1>1, <1>2, <1>3, <1>4, SameCalls, StringStarts DEF JsonInv

LEMMA StringStepStep == JsonInv /\ StringStep => JsonInv'
PROOF
<1> SUFFICES ASSUME JsonInv, StringStep PROVE JsonInv'
    OBVIOUS
<1>1. Step /\ json' = json /\ calls' = calls /\ (at' = at \/ at' = "Error")
    BY DEF StringStep
<1>2. CallsInv /\ StringInv /\ json \in Parts
    BY DEF JsonInv, CallsInv
<1>3. CallsInv'
    <2>1. CASE at' = at
        <3>1. at' \in KeyAts => call.kind = "object"
            BY <1>2, <2>1 DEF CallsInv
        <3> QED BY <1>1, <1>2, <2>1, <3>1, SameCalls
    <2>2. CASE at' = "Error"
        BY <1>1, <1>2, <2>2, Returns
    <2> QED BY <1>1, <2>1, <2>2
<1> QED BY <1>1, <1>2, <1>3, StringSteps DEF JsonInv

LEMMA StringWrittenStep == JsonInv /\ StringWritten => JsonInv'
PROOF
<1> SUFFICES ASSUME JsonInv, StringWritten PROVE JsonInv'
    OBVIOUS
<1>1. /\ pc = "Ok" /\ pc' = "Idle" /\ UNCHANGED <<text, string, idx, out>>
      /\ json' = json /\ calls' = calls
      /\ (at = "Key" /\ at' = "Colon") \/ (at = "Text" /\ at' = "Returned")
    BY Zenon DEF StringWritten
<1>2. CallsInv /\ StringInv /\ json \in Parts
    BY DEF JsonInv, CallsInv
<1>3. CallsInv'
    <2>1. CASE at = "Key" /\ at' = "Colon"
        <3>1. at \in ItemAts /\ at \in KeyAts
            BY <2>1, Zenon DEF ItemAts, KeyAts
        <3>2. call.kind = "object"
            BY <1>2, <3>1 DEF CallsInv
        <3> QED BY <1>1, <1>2, <3>1, <3>2, SameCalls
    <2>2. CASE at = "Text" /\ at' = "Returned"
        <3>1. at' \notin EndAts /\ at' \notin KeyAts /\ at' \notin ItemAts /\ at \in ValueAts
            BY <2>2, Zenon DEF ItemAts, ValueAts, EndAts, KeyAts
        <3> QED BY <1>1, <1>2, <3>1, SameCalls
    <2> QED BY <1>1, <2>1, <2>2
<1> QED BY <1>1, <1>2, <1>3, StringEnds DEF JsonInv

LEMMA LineStep ==
    ASSUME JsonInv, NEW d, NEW then, NewLine(d, then), UNCHANGED <<vars, json, calls>>,
           (then \in ItemAts /\ at \in ItemAts) \/ (then \in EndAts /\ at \in EndAts),
           then \notin KeyAts, then \in EndAts => then \notin ItemAts \union ValueAts
    PROVE  JsonInv'
PROOF
<1>1. CallsInv /\ StringInv /\ json \in Parts
    BY DEF JsonInv, CallsInv
<1>2. at' = then \/ at' \in {"Error", "Panic"}
    BY LineAt
<1>3. CallsInv'
    <2>1. CASE at' = then
        BY <1>1, <2>1, SameCalls
    <2>2. CASE at' \in {"Error", "Panic"}
        BY <1>1, <2>2, Returns
    <2> QED BY <1>2, <2>1, <2>2
<1> QED BY <1>1, <1>3, StringStays DEF JsonInv

LEMMA LineSteps == JsonInv /\ (FirstLine \/ NextLine \/ LastLine) => JsonInv'
PROOF
<1> SUFFICES ASSUME JsonInv, FirstLine \/ NextLine \/ LastLine PROVE JsonInv'
    OBVIOUS
<1> DEFINE item == "Item"
           end == "Close"
<1>1. /\ item \in ItemAts /\ item \notin KeyAts /\ item \notin EndAts
      /\ end \in EndAts /\ end \notin KeyAts /\ end \notin ItemAts \union ValueAts
    BY Zenon DEF ItemAts, ValueAts, EndAts, KeyAts
<1>2. CASE FirstLine
    <2>1. UNCHANGED <<vars, json, calls>> /\ NewLine(dent', item) /\ at \in ItemAts
        BY <1>2, Zenon DEF FirstLine, ItemAts
    <2> HIDE DEF item
    <2>2. PICK d : d = dent'
        OBVIOUS
    <2>3. NewLine(d, item)
        BY <2>1, <2>2
    <2> QED BY <1>1, <2>1, <2>3, LineStep
<1>3. CASE NextLine
    <2>1. UNCHANGED <<vars, json, calls>> /\ NewLine(dent, item) /\ at \in ItemAts
        BY <1>3, Zenon DEF NextLine, ItemAts
    <2> HIDE DEF item
    <2> QED BY <1>1, <2>1, LineStep
<1>4. CASE LastLine
    <2>1. UNCHANGED <<vars, json, calls>> /\ NewLine(dent', end) /\ at \in EndAts
        BY <1>4, Zenon DEF LastLine, EndAts
    <2> HIDE DEF end
    <2>2. PICK d : d = dent'
        OBVIOUS
    <2>3. NewLine(d, end)
        BY <2>1, <2>2
    <2> QED BY <1>1, <2>1, <2>3, LineStep
<1> QED BY <1>2, <1>3, <1>4

LEMMA OpenStep == JsonInv /\ Open => JsonInv'
PROOF
<1> SUFFICES ASSUME JsonInv, Open PROVE JsonInv'
    OBVIOUS
<1> DEFINE then == IF json.items = << >> THEN "Close" ELSE "First line"
<1>1. /\ UNCHANGED vars /\ json' = json /\ at \in ValueAts /\ json.kind \in Containers
      /\ calls' = Append(calls, [kind |-> json.kind, left |-> json.items])
    BY Zenon DEF Open, ValueAts
<1>2. at' = then \/ at' = "Error"
    <2> DEFINE tokens == Bracket(json.kind, "[", "{")
    <2>1. Emit(tokens, then)
        BY Zenon DEF Open
    <2> HIDE DEF tokens, then
    <2> QED BY <2>1, EmitAt
<1>3. then \notin ValueAts /\ then \notin KeyAts /\ (then \in ItemAts => json.items # << >>)
    BY Zenon DEF ItemAts, ValueAts, KeyAts
<1>4. "Error" \notin ValueAts /\ "Error" \notin KeyAts /\ "Error" \notin ItemAts
    BY Zenon DEF ItemAts, ValueAts, KeyAts
<1> HIDE DEF then
<1>5. CallsInv'
    <2>1. /\ at' \in ItemAts \union ValueAts => json.items # << >>
          /\ at' \notin KeyAts
        BY <1>2, <1>3, <1>4
    <2>2. CallsInv
        BY DEF JsonInv
    <2> QED BY <1>1, <2>1, <2>2, OpenCalls
<1> QED BY <1>1, <1>5, StringStays DEF JsonInv

LEMMA ItemStep == JsonInv /\ Item => JsonInv'
PROOF
<1> SUFFICES ASSUME JsonInv, Item PROVE JsonInv'
    OBVIOUS
<1> DEFINE item == Head(call.left)
<1>1. calls' = calls /\ at \in ItemAts
    BY Zenon DEF Item, ItemAts
<1>2. CallsInv /\ calls # << >> /\ call.left # << >> /\ json \in Parts
    BY <1>1 DEF JsonInv, CallsInv
<1>3. item \in Parts /\ item.text \in Seq(Byte)
    BY <1>2, NextItem
<1>4. \/ at' = "Json" /\ json' = item /\ UNCHANGED vars
      \/ call.kind = "object" /\ at' = "Key" /\ Start(item.text) /\ json' = json
    BY Zenon DEF Item
<1> HIDE DEF item
<1>5. CASE at' = "Json" /\ json' = item /\ UNCHANGED vars
    <2>1. at' \notin KeyAts /\ at' \notin EndAts
        BY <1>5, Zenon DEF KeyAts, EndAts
    <2>2. CallsInv'
        BY <1>1, <1>2, <1>3, <1>5, <2>1, SameCalls
    <2> QED BY <1>5, <2>2, StringStays DEF JsonInv
<1>6. CASE call.kind = "object" /\ at' = "Key" /\ Start(item.text) /\ json' = json
    <2>1. CallsInv'
        BY <1>1, <1>2, <1>6, SameCalls
    <2> QED BY <1>3, <1>6, <2>1, StringStarts DEF JsonInv
<1> QED BY <1>4, <1>5, <1>6

LEMMA ColonStep == JsonInv /\ Colon => JsonInv'
PROOF
<1> SUFFICES ASSUME JsonInv, Colon PROVE JsonInv'
    OBVIOUS
<1> DEFINE value == Head(call.left).items[1]
<1>1. UNCHANGED vars /\ calls' = calls /\ json' = value /\ at \in ItemAts /\ at \in KeyAts
    BY Zenon DEF Colon, ItemAts, KeyAts
<1>2. CallsInv /\ calls # << >> /\ call.left # << >> /\ call.kind = "object"
    BY <1>1 DEF JsonInv, CallsInv
<1>3. value \in Parts
    BY <1>2, NextItem
<1>4. at' = "Json" \/ at' = "Error"
    <2> DEFINE tokens == <<Token(":", << >>)>> \o (IF Indents THEN <<Token("space", << >>)>> ELSE << >>)
    <2>1. Emit(tokens, "Json")
        BY Zenon DEF Colon
    <2> HIDE DEF tokens
    <2> QED BY <2>1, EmitAt
<1>5. at' \notin KeyAts /\ at' \notin EndAts
    BY <1>4, Zenon DEF KeyAts, EndAts
<1> HIDE DEF value
<1>6. CallsInv'
    BY <1>1, <1>2, <1>3, <1>5, SameCalls
<1> QED BY <1>1, <1>6, StringStays DEF JsonInv

LEMMA ReturnedStep == JsonInv /\ Returned => JsonInv'
PROOF
<1> SUFFICES ASSUME JsonInv, Returned PROVE JsonInv'
    OBVIOUS
<1> DEFINE left == Tail(call.left)
           more == left # << >>
           next == "Next line"
           last == "Last line"
<1>1. /\ UNCHANGED vars /\ json' = json /\ calls # << >> /\ at \in ValueAts
      /\ calls' = [calls EXCEPT ![Len(calls)].left = left]
    BY Zenon DEF Returned, ValueAts
<1>2. (more /\ (at' = next \/ at' = "Error")) \/ at' = last
    <2> DEFINE tokens == <<Token(",", << >>)>>
    <2>1. IF left # << >> THEN Emit(tokens, next) ELSE at' = last /\ UNCHANGED sink
        BY Zenon DEF Returned
    <2> HIDE DEF tokens, next, last, left
    <2>2. Emit(tokens, next) => at' = next \/ at' = "Error"
        BY EmitAt
    <2> QED BY <2>1, <2>2
<1>3. next \notin KeyAts /\ last \notin KeyAts /\ "Error" \notin KeyAts /\ last \notin ItemAts \union ValueAts
    BY Zenon DEF ItemAts, ValueAts, KeyAts
<1> HIDE DEF next, last
<1>4. CallsInv'
    <2>1. at' \notin KeyAts /\ (at' \in ItemAts \union ValueAts => more)
        BY <1>2, <1>3
    <2>2. CallsInv
        BY DEF JsonInv
    <2> QED BY <1>1, <2>1, <2>2, ReturnedCalls
<1> QED BY <1>1, <1>4, StringStays DEF JsonInv

LEMMA CloseStep == JsonInv /\ Close => JsonInv'
PROOF
<1> SUFFICES ASSUME JsonInv, Close PROVE JsonInv'
    OBVIOUS
<1>1. UNCHANGED vars /\ json' = json /\ calls' = Front(calls) /\ at \in EndAts
    BY Zenon DEF Close, EndAts
<1>2. CallsInv /\ calls # << >>
    BY <1>1 DEF JsonInv, CallsInv
<1>3. at' = "Returned" \/ at' = "Error"
    <2> DEFINE tokens == Bracket(call.kind, "]", "}")
    <2>1. Emit(tokens, "Returned")
        BY Zenon DEF Close
    <2> HIDE DEF tokens
    <2> QED BY <2>1, EmitAt
<1>4. at' \notin KeyAts /\ at' \notin ItemAts \union EndAts
    BY <1>3, Zenon DEF ItemAts, EndAts, KeyAts
<1>5. CallsInv'
    BY <1>1, <1>2, <1>4, CloseCalls
<1> QED BY <1>1, <1>5, StringStays DEF JsonInv

LEMMA FinishStep == JsonInv /\ Finish => JsonInv'
PROOF
<1> SUFFICES ASSUME JsonInv, Finish PROVE JsonInv'
    OBVIOUS
<1>1. UNCHANGED vars /\ json' = json /\ calls' = calls /\ at' = "Ok"
    BY DEF Finish
<1>2. CallsInv'
    BY <1>1, Returns DEF JsonInv
<1> QED BY <1>1, <1>2, StringStays DEF JsonInv

LEMMA JsonSteps == JsonInv /\ [JsonNext]_jsonVars => JsonInv'
PROOF
<1> SUFFICES ASSUME JsonInv, [JsonNext]_jsonVars PROVE JsonInv'
    OBVIOUS
<1>1. ASSUME UNCHANGED jsonVars PROVE JsonInv'
    <2>1. UNCHANGED vars /\ json' = json /\ calls' = calls /\ at' = at
        BY <1>1 DEF jsonVars, vars
    <2>2. CallsInv'
        <3>1. call' = call
            BY <2>1 DEF call
        <3> QED BY <2>1, <3>1 DEF JsonInv, CallsInv
    <2> QED BY <2>1, <2>2, StringStays DEF JsonInv
<1>2. CASE JsonStep
    BY <1>2, ScalarStep, JsonStringStep, StringStepStep, StringWrittenStep, OpenStep, LineSteps,
       ItemStep, ColonStep, ReturnedStep, CloseStep, FinishStep DEF JsonStep
<1> QED BY <1>1, <1>2 DEF JsonNext, JsonReturned

LEMMA JsonAlways == JsonSpec => []JsonInv
PROOF BY InitStep, JsonSteps, PTL DEF JsonSpec

\* At every moment, and when the writer has failed, what was written of a string
\* or a key is the beginning of its text, for every set of values, every width of
\* the vector loops and every width of the indentation.
THEOREM StringsInOrder == JsonSpec => []WrittenInOrder
PROOF
<1>1. StringInv => WrittenInOrder
    <2> SUFFICES ASSUME StringInv PROVE IsPrefix(out, Encoded)
        BY DEF WrittenInOrder
    <2>1. text \in Seq(Byte)
        BY DEF StringInv
    <2>2. CASE pc = "Begin"
        BY <2>1, <2>2, EmptyPrefix DEF StringInv
    <2>3. CASE pc \in {"Wide", "Narrow", "Rest"}
        <3>1. Past \in 0..Len(text) /\ out = encoded[Past]
            BY <2>3, RestIs DEF StringInv
        <3> QED BY <2>1, <3>1, TextBegins
    <2>4. CASE pc = "Ok"
        BY <2>1, <2>4, TextIsWhole DEF StringInv
    <2> QED BY <2>2, <2>3, <2>4 DEF StringInv
<1>2. JsonInv => WrittenInOrder
    BY <1>1 DEF JsonInv
<1> QED BY <1>2, JsonAlways, PTL

\* A string or a key that was written to its end reads back as it was given.
THEOREM StringsReadBack == JsonSpec => []ReadsBack
PROOF
<1>1. JsonInv => ReadsBack
    <2> SUFFICES ASSUME JsonInv, pc = "Ok" PROVE ReadBack(out) = [bytes |-> text, ended |-> TRUE]
        BY DEF ReadsBack
    <2>1. text \in Seq(Byte) /\ out = Encoded
        BY DEF JsonInv, StringInv
    <2> QED BY <2>1, ReadsEncoded
<1> QED BY <1>1, JsonAlways, PTL

---------------------------------------------------------------------------
(* The depth of what was written.                                          *)

Tokens == [char : Char \union Whitespace, bytes : Seq(Nat), spaces : Nat]

IsLine(t) == t.char = "newline"
Closing(t) == IF t.char \in Closers THEN 1 ELSE 0
Opening(t) == IF t.char \in Openers THEN 1 ELSE 0

HeightOf(s) == Height(Chars(s), 1, Len(s))

\* The spaces at an indentation of d, as the program computes it.
Indent(d) == ((d % Width) * Spaces) % Width

LineDepth(s, k) == Height(Chars(s), 1, k) - Closing(s[k + 1])

LinesRight(s) ==
    \A k \in 1..Len(s) - 1 :
        IsLine(s[k]) => LineDepth(s, k) \in Nat /\ s[k].spaces = Indent(LineDepth(s, k))

\* If a line has just begun, it is indented by d.
Begun(s, d) == s # << >> /\ IsLine(s[Len(s)]) => d \in Nat /\ s[Len(s)].spaces = Indent(d)

NoLine(s) == s = << >> \/ ~IsLine(s[Len(s)])

BegunAts == {"Json", "Item", "Key", "Text", "Close"}
FreshAts == {"First line", "Close"}
Failed == {"Error", "Panic"}

Fresh == IF at \in FreshAts THEN 1 ELSE 0

\* The calls under way are the brackets open; dent counts them, and is one
\* behind between an opening bracket and the first line, and from the last
\* line to the closing bracket.
DepthInv ==
    /\ HeightOf(sink) = Len(calls)
    /\ dent = (Len(calls) - Fresh) % Width
    /\ IF at \in BegunAts THEN Begun(sink, Len(calls) - Fresh) ELSE NoLine(sink)

IndentInv ==
    /\ sink \in Seq(Tokens) /\ dent \in 0..Width - 1
    /\ LinesRight(sink)
    /\ at \notin Failed => DepthInv

LEMMA HeightSame ==
    ASSUME NEW d, NEW e, NEW n \in Nat, \A k \in 1..n : d[k] = e[k]
    PROVE  Height(d, 1, n) = Height(e, 1, n)
PROOF
<1>1. ASSUME NEW S PROVE Occurrences(d, 1, n, S) = Occurrences(e, 1, n, S)
    <2>1. {k \in 1..n : d[k] \in S} = {k \in 1..n : e[k] \in S}
        OBVIOUS
    <2> QED BY <2>1 DEF Occurrences
<1> QED BY <1>1 DEF Height

LEMMA OccurrencesNext ==
    ASSUME NEW d, NEW n \in Nat, NEW S
    PROVE  /\ Occurrences(d, 1, n, S) \in Nat
           /\ Occurrences(d, 1, n + 1, S) = Occurrences(d, 1, n, S) + (IF d[n + 1] \in S THEN 1 ELSE 0)
PROOF
<1> DEFINE T == {k \in 1..n + 1 : d[k] \in S}
<1>1. {q \in 1..n : q \in T} = {k \in 1..n : d[k] \in S} /\ {q \in 1..n + 1 : q \in T} = T
    OBVIOUS
<1>2. n + 1 \in T <=> d[n + 1] \in S
    OBVIOUS
<1>3. T = {k \in 1..n + 1 : d[k] \in S}
    OBVIOUS
<1> HIDE DEF T
<1>4. /\ Cardinality({q \in 1..n : q \in T}) \in Nat
      /\ Cardinality({q \in 1..n + 1 : q \in T})
            = Cardinality({q \in 1..n : q \in T}) + (IF n + 1 \in T THEN 1 ELSE 0)
    BY CountNext
<1> QED BY <1>1, <1>2, <1>3, <1>4 DEF Occurrences

LEMMA HeightNext ==
    ASSUME NEW d, NEW n \in Nat
    PROVE  /\ Height(d, 1, n) \in Int
           /\ Height(d, 1, n + 1) = Height(d, 1, n) + (IF d[n + 1] \in Openers THEN 1 ELSE 0)
                                       - (IF d[n + 1] \in Closers THEN 1 ELSE 0)
PROOF
<1> DEFINE o == Occurrences(d, 1, n, Openers)
           c == Occurrences(d, 1, n, Closers)
           p == Occurrences(d, 1, n + 1, Openers)
           q == Occurrences(d, 1, n + 1, Closers)
           x == IF d[n + 1] \in Openers THEN 1 ELSE 0
           y == IF d[n + 1] \in Closers THEN 1 ELSE 0
<1>1. o \in Nat /\ c \in Nat /\ p = o + x /\ q = c + y /\ x \in Nat /\ y \in Nat
    BY OccurrencesNext
<1>2. Height(d, 1, n) = o - c /\ Height(d, 1, n + 1) = p - q
    BY DEF Height
<1> HIDE DEF o, c, p, q, x, y
<1>3. Height(d, 1, n) \in Int /\ Height(d, 1, n + 1) = Height(d, 1, n) + x - y
    BY <1>1, <1>2
<1> QED BY <1>3 DEF x, y

\* A token more.
LEMMA AddToken ==
    ASSUME NEW s \in Seq(Tokens), NEW t \in Tokens, LinesRight(s), Begun(s, HeightOf(s) - Closing(t))
    PROVE  /\ Append(s, t) \in Seq(Tokens) /\ LinesRight(Append(s, t))
           /\ HeightOf(s) \in Int
           /\ HeightOf(Append(s, t)) = HeightOf(s) + Opening(t) - Closing(t)
           /\ \A d : (IsLine(t) => d \in Nat /\ t.spaces = Indent(d)) => Begun(Append(s, t), d)
           /\ ~IsLine(t) => NoLine(Append(s, t))
PROOF
<1> DEFINE u == Append(s, t)
           L == Len(s)
<1>1. /\ u \in Seq(Tokens) /\ u # << >> /\ L \in Nat /\ Len(u) = L + 1 /\ u[L + 1] = t
      /\ \A k \in 1..L : u[k] = s[k]
    <2> HIDE DEF Tokens
    <2> QED BY AppendProperties
<1>2. DOMAIN u = 1..L + 1 /\ DOMAIN s = 1..L
    <2> HIDE DEF u
    <2> QED BY <1>1, LenProperties
<1> HIDE DEF u
<1>3. \A k \in 1..L : Chars(u)[k] = Chars(s)[k]
    BY <1>1, <1>2 DEF Chars
<1>4. Chars(u)[L + 1] = t.char
    BY <1>1, <1>2 DEF Chars
<1>5. \A n \in 0..L : Height(Chars(u), 1, n) = Height(Chars(s), 1, n)
    <2>1. ASSUME NEW n \in 0..L PROVE Height(Chars(u), 1, n) = Height(Chars(s), 1, n)
        <3>1. n \in Nat /\ \A k \in 1..n : Chars(u)[k] = Chars(s)[k]
            BY <1>1, <1>3
        <3> QED BY <3>1, HeightSame
    <2> QED BY <2>1
<1>6. HeightOf(s) \in Int /\ HeightOf(u) = HeightOf(s) + Opening(t) - Closing(t)
    <2> DEFINE d == Chars(u)
    <2>1. d[L + 1] = t.char
        BY <1>4
    <2> HIDE DEF d
    <2>2. Height(d, 1, L) \in Int /\ Height(d, 1, L + 1) = Height(d, 1, L) + Opening(t) - Closing(t)
        BY <1>1, <2>1, HeightNext DEF Opening, Closing
    <2>3. Height(d, 1, L) = HeightOf(s)
        BY <1>1, <1>5 DEF HeightOf, d
    <2>4. Height(d, 1, L + 1) = HeightOf(u)
        BY <1>1 DEF HeightOf, d
    <2> QED BY <2>2, <2>3, <2>4
<1>7. LinesRight(u)
    <2> SUFFICES ASSUME NEW k \in 1..L, IsLine(u[k])
                 PROVE  LineDepth(u, k) \in Nat /\ u[k].spaces = Indent(LineDepth(u, k))
        BY <1>1 DEF LinesRight
    <2>1. k \in 0..L /\ u[k] = s[k] /\ Height(Chars(u), 1, k) = Height(Chars(s), 1, k)
        BY <1>1, <1>5
    <2>2. CASE k = L
        <3>1. LineDepth(u, k) = HeightOf(s) - Closing(t)
            BY <1>1, <2>1, <2>2 DEF LineDepth, HeightOf
        <3>2. s # << >>
            BY <1>1, <2>2
        <3> QED BY <2>1, <2>2, <3>1, <3>2 DEF Begun
    <2>3. CASE k # L
        <3>1. k \in 1..L - 1 /\ k + 1 \in 1..L
            BY <1>1, <2>3
        <3>2. LineDepth(u, k) = LineDepth(s, k)
            BY <1>1, <2>1, <3>1 DEF LineDepth
        <3> QED BY <2>1, <3>1, <3>2 DEF LinesRight
    <2> QED BY <2>2, <2>3
<1>8. u[Len(u)] = t
    BY <1>1
<1>9. \A d : (IsLine(t) => d \in Nat /\ t.spaces = Indent(d)) => Begun(u, d)
    BY <1>8 DEF Begun
<1>10. ~IsLine(t) => NoLine(u)
    BY <1>8 DEF NoLine
<1> QED BY <1>1, <1>6, <1>7, <1>9, <1>10 DEF u

\* What is in the width is computed right.
LEMMA IndentRight ==
    ASSUME NEW d \in Nat, Spaces * d < Width
    PROVE  Indent(d) = Spaces * d
PROOF
<1>1. Spaces \in Nat /\ Width \in Nat \ {0}
    BY IndentAssumption
<1>2. CASE Spaces = 0
    <2>1. (d % Width) * 0 = 0 /\ 0 * d = 0 /\ 0 % Width = 0
        BY <1>1
    <2> QED BY <1>1, <1>2, <2>1 DEF Indent
<1>3. CASE Spaces > 0
    <2>1. d <= Spaces * d
        BY <1>1, <1>3
    <2>2. d < Width /\ d % Width = d
        BY <1>1, <2>1
    <2>3. d * Spaces = Spaces * d /\ Spaces * d \in Nat
        BY <1>1
    <2> DEFINE x == Spaces * d
    <2>4. x % Width = x
        <3> HIDE DEF x
        <3> QED BY <1>1, <2>3 DEF x
    <2> QED BY <2>2, <2>3, <2>4 DEF Indent
<1> QED BY <1>1, <1>2, <1>3

---------------------------------------------------------------------------
(* Each step keeps the depth so.                                           *)

\* A token that is no bracket and begins no line.
Plain(t) == t \in Tokens /\ Opening(t) = 0 /\ Closing(t) = 0 /\ ~IsLine(t)

LEMMA AddedToken ==
    ASSUME NEW s \in Seq(Tokens), NEW t \in Tokens, LinesRight(s), Begun(s, HeightOf(s) - Closing(t))
    PROVE  /\ s \o <<t>> \in Seq(Tokens) /\ LinesRight(s \o <<t>>)
           /\ HeightOf(s) \in Int
           /\ HeightOf(s \o <<t>>) = HeightOf(s) + Opening(t) - Closing(t)
           /\ \A d : (IsLine(t) => d \in Nat /\ t.spaces = Indent(d)) => Begun(s \o <<t>>, d)
           /\ ~IsLine(t) => NoLine(s \o <<t>>)
PROOF
<1>1. Append(s, t) = s \o <<t>>
    <2> HIDE DEF Tokens
    <2> QED BY AppendIsConcat
<1> QED BY <1>1, AddToken

LEMMA NoneBegun ==
    ASSUME NEW s, NoLine(s), NEW d
    PROVE  Begun(s, d)
PROOF BY DEF NoLine, Begun

LEMMA FailStep ==
    ASSUME IndentInv, sink' = sink, dent' \in 0..Width - 1, at' \in Failed
    PROVE  IndentInv'
PROOF BY DEF IndentInv

LEMMA DepthIs ==
    ASSUME IndentInv, CallsInv, at \notin Failed
    PROVE  /\ sink \in Seq(Tokens) /\ LinesRight(sink) /\ dent \in 0..Width - 1
           /\ HeightOf(sink) = Len(calls) /\ Len(calls) \in Nat
           /\ dent = (Len(calls) - Fresh) % Width
           /\ Begun(sink, Len(calls) - Fresh)
           /\ at \notin BegunAts => NoLine(sink)
PROOF
<1>1. calls \in Seq(Frame)
    BY DEF CallsInv
<1>2. Len(calls) \in Nat
    <2> HIDE DEF Frame
    <2> QED BY <1>1, LenProperties
<1>3. DepthInv
    BY DEF IndentInv
<1> QED BY <1>2, <1>3, NoneBegun DEF IndentInv, DepthInv

LEMMA NothingStep ==
    ASSUME IndentInv, CallsInv, at \notin Failed, sink' = sink, dent' = dent, Len(calls') = Len(calls),
           at \notin FreshAts, at' \notin FreshAts, at' \in BegunAts \/ at \notin BegunAts
    PROVE  IndentInv'
PROOF
<1>1. Fresh = 0 /\ Fresh' = 0
    BY DEF Fresh
<1> QED BY <1>1, DepthIs, NoneBegun DEF IndentInv, DepthInv

LEMMA PlainStep ==
    ASSUME IndentInv, CallsInv, at \notin Failed, NEW t, Plain(t), sink' = sink \o <<t>>, dent' = dent,
           Len(calls') = Len(calls), at \notin FreshAts, at' \notin FreshAts
    PROVE  IndentInv'
PROOF
<1>1. Fresh = 0 /\ Fresh' = 0
    BY DEF Fresh
<1>2. PICK s : s = sink
    OBVIOUS
<1>3. /\ s \in Seq(Tokens) /\ LinesRight(s) /\ HeightOf(s) = Len(calls) /\ Len(calls) \in Nat
      /\ t \in Tokens /\ Opening(t) = 0 /\ Closing(t) = 0 /\ ~IsLine(t)
      /\ Begun(s, HeightOf(s) - Closing(t))
    BY <1>1, <1>2, DepthIs DEF Plain
<1>4. PICK u : u = s \o <<t>>
    OBVIOUS
<1>5. u \in Seq(Tokens) /\ LinesRight(u) /\ HeightOf(u) = Len(calls) /\ NoLine(u)
    <2>1. HeightOf(u) = HeightOf(s) + Opening(t) - Closing(t) /\ u \in Seq(Tokens) /\ LinesRight(u) /\ NoLine(u)
        BY <1>3, <1>4, AddedToken
    <2> QED BY <1>3, <2>1
<1>6. sink' = u
    BY <1>2, <1>4
<1> QED BY <1>1, <1>5, <1>6, DepthIs, NoneBegun DEF IndentInv, DepthInv

\* Two of them.
LEMMA PlainPair ==
    ASSUME IndentInv, CallsInv, at \notin Failed, NEW t, Plain(t), NEW v, Plain(v),
           sink' = (sink \o <<t>>) \o <<v>>, dent' = dent, Len(calls') = Len(calls),
           at \notin FreshAts, at' \notin FreshAts
    PROVE  IndentInv'
PROOF
<1>1. Fresh = 0 /\ Fresh' = 0
    BY DEF Fresh
<1>2. PICK s : s = sink
    OBVIOUS
<1>3. /\ s \in Seq(Tokens) /\ LinesRight(s) /\ HeightOf(s) = Len(calls) /\ Len(calls) \in Nat
      /\ t \in Tokens /\ Opening(t) = 0 /\ Closing(t) = 0 /\ ~IsLine(t)
      /\ v \in Tokens /\ Opening(v) = 0 /\ Closing(v) = 0 /\ ~IsLine(v)
      /\ Begun(s, HeightOf(s) - Closing(t))
    BY <1>1, <1>2, DepthIs DEF Plain
<1>4. PICK u : u = s \o <<t>>
    OBVIOUS
<1>5. /\ u \in Seq(Tokens) /\ LinesRight(u) /\ HeightOf(u) = Len(calls)
      /\ Begun(u, HeightOf(u) - Closing(v))
    <2>1. HeightOf(u) = HeightOf(s) + Opening(t) - Closing(t) /\ u \in Seq(Tokens) /\ LinesRight(u) /\ NoLine(u)
        BY <1>3, <1>4, AddedToken
    <2> QED BY <1>3, <2>1, NoneBegun
<1>6. PICK w : w = u \o <<v>>
    OBVIOUS
<1>7. w \in Seq(Tokens) /\ LinesRight(w) /\ HeightOf(w) = Len(calls) /\ NoLine(w)
    <2>1. HeightOf(w) = HeightOf(u) + Opening(v) - Closing(v) /\ w \in Seq(Tokens) /\ LinesRight(w) /\ NoLine(w)
        BY <1>3, <1>5, <1>6, AddedToken
    <2> QED BY <1>3, <1>5, <2>1
<1>8. sink' = w
    BY <1>2, <1>4, <1>6
<1> QED BY <1>1, <1>7, <1>8, DepthIs, NoneBegun DEF IndentInv, DepthInv

\* Of an opening bracket.
LEMMA OpenDepth ==
    ASSUME IndentInv, CallsInv, at \notin Failed, at \notin FreshAts, at' \in FreshAts,
           NEW t \in Tokens, Opening(t) = 1, Closing(t) = 0, ~IsLine(t), sink' = sink \o <<t>>,
           dent' = dent, Len(calls') = Len(calls) + 1
    PROVE  IndentInv'
PROOF
<1>1. Fresh = 0 /\ Fresh' = 1
    BY DEF Fresh
<1>2. PICK s : s = sink
    OBVIOUS
<1>3. /\ s \in Seq(Tokens) /\ LinesRight(s) /\ HeightOf(s) = Len(calls) /\ Len(calls) \in Nat
      /\ Begun(s, HeightOf(s) - Closing(t))
    BY <1>1, <1>2, DepthIs
<1>4. PICK u : u = s \o <<t>>
    OBVIOUS
<1>5. u \in Seq(Tokens) /\ LinesRight(u) /\ HeightOf(u) = Len(calls) + 1 /\ NoLine(u)
    <2>1. HeightOf(u) = HeightOf(s) + Opening(t) - Closing(t) /\ u \in Seq(Tokens) /\ LinesRight(u) /\ NoLine(u)
        BY <1>3, <1>4, AddedToken
    <2> QED BY <1>3, <2>1
<1>6. sink' = u /\ Len(calls') - Fresh' = Len(calls) - Fresh
    BY <1>1, <1>2, <1>3, <1>4
<1> QED BY <1>1, <1>3, <1>5, <1>6, DepthIs, NoneBegun DEF IndentInv, DepthInv

\* Of a closing bracket.
LEMMA CloseDepth ==
    ASSUME IndentInv, CallsInv, at \notin Failed, at \in FreshAts, at' \notin FreshAts,
           NEW t \in Tokens, Opening(t) = 0, Closing(t) = 1, ~IsLine(t), sink' = sink \o <<t>>,
           dent' = dent, Len(calls') = Len(calls) - 1
    PROVE  IndentInv'
PROOF
<1>1. Fresh = 1 /\ Fresh' = 0
    BY DEF Fresh
<1>2. PICK s : s = sink
    OBVIOUS
<1>3. /\ s \in Seq(Tokens) /\ LinesRight(s) /\ HeightOf(s) = Len(calls) /\ Len(calls) \in Nat
      /\ Begun(s, HeightOf(s) - Closing(t))
    BY <1>1, <1>2, DepthIs
<1>4. PICK u : u = s \o <<t>>
    OBVIOUS
<1>5. u \in Seq(Tokens) /\ LinesRight(u) /\ HeightOf(u) = Len(calls) - 1 /\ NoLine(u)
    <2>1. HeightOf(u) = HeightOf(s) + Opening(t) - Closing(t) /\ u \in Seq(Tokens) /\ LinesRight(u) /\ NoLine(u)
        BY <1>3, <1>4, AddedToken
    <2> QED BY <1>3, <2>1
<1>6. sink' = u /\ Len(calls') - Fresh' = Len(calls) - Fresh
    BY <1>1, <1>2, <1>3, <1>4
<1> QED BY <1>1, <1>3, <1>5, <1>6, DepthIs, NoneBegun DEF IndentInv, DepthInv

LEMMA TokenType ==
    ASSUME NEW c \in Char \union Whitespace, NEW b \in Seq(Nat), NEW n \in Nat
    PROVE  [char |-> c, bytes |-> b, spaces |-> n] \in Tokens
PROOF BY DEF Tokens

\* What a new line writes.
LineToken(d) == [char |-> "newline", bytes |-> << >>, spaces |-> (d * Spaces) % Width]

LEMMA LineTokenIs ==
    ASSUME NEW d \in Nat
    PROVE  LET t == LineToken(d) IN
           /\ t \in Tokens /\ IsLine(t) /\ Opening(t) = 0 /\ Closing(t) = 0 /\ t.spaces = (d * Spaces) % Width
PROOF
<1> DEFINE t == LineToken(d)
<1>1. Spaces \in Nat /\ Width \in Nat \ {0} /\ d * Spaces \in Nat
    BY IndentAssumption
<1>2. t.spaces \in Nat /\ t.spaces = (d * Spaces) % Width /\ t.char = "newline"
    BY <1>1 DEF LineToken
<1>3. "newline" \in Char \union Whitespace /\ "newline" \notin Openers /\ "newline" \notin Closers
    BY Zenon DEF Whitespace, Openers, Closers
<1>4. t = [char |-> t.char, bytes |-> << >>, spaces |-> t.spaces]
    BY DEF LineToken
<1>5. << >> \in Seq(Nat)
    OBVIOUS
<1> HIDE DEF t
<1>6. t \in Tokens
    <2> DEFINE c == t.char
               b == << >>
               n == t.spaces
    <2>1. c \in Char \union Whitespace /\ b \in Seq(Nat) /\ n \in Nat /\ t = [char |-> c, bytes |-> b, spaces |-> n]
        BY <1>2, <1>3, <1>4, <1>5
    <2> HIDE DEF c, b, n
    <2>2. [char |-> c, bytes |-> b, spaces |-> n] \in Tokens
        BY <2>1, TokenType
    <2> QED BY <2>1, <2>2
<1>7. IsLine(t) /\ Opening(t) = 0 /\ Closing(t) = 0
    BY <1>2, <1>3 DEF IsLine, Opening, Closing
<1> QED BY <1>2, <1>6, <1>7 DEF t

LEMMA LineOutcomes ==
    ASSUME NEW d, NEW then, NewLine(d, then)
    PROVE  \/ at' = then /\ sink' = sink \o <<LineToken(d)>>
           \/ at' = then /\ sink' = sink \o << >>
           \/ at' \in Failed /\ sink' = sink
PROOF
<1>1. "Error" \in Failed /\ "Panic" \in Failed
    BY Zenon DEF Failed
<1> QED BY <1>1 DEF NewLine, Emit, LineToken

LEMMA LineDepthStep ==
    ASSUME IndentInv, CallsInv, at \notin Failed, at \notin BegunAts, NEW d, NEW then, NewLine(d, then),
           then \in BegunAts, dent' = d, calls' = calls, NEW k \in {0, 1}, Len(calls) - k \in Nat,
           d = (Len(calls) - k) % Width, then \in FreshAts <=> k = 1
    PROVE  IndentInv'
PROOF
<1>1. Width \in Nat \ {0}
    BY IndentAssumption
<1>2. PICK n : n = Len(calls) - k
    OBVIOUS
<1>3. n \in Nat /\ d = n % Width /\ d \in 0..Width - 1
    BY <1>1, <1>2
<1>4. PICK s : s = sink
    OBVIOUS
<1>5. s \in Seq(Tokens) /\ LinesRight(s) /\ HeightOf(s) = Len(calls) /\ Len(calls) \in Nat /\ NoLine(s)
    BY <1>4, DepthIs
<1> DEFINE t == LineToken(d)
<1>6. t \in Tokens /\ IsLine(t) /\ Opening(t) = 0 /\ Closing(t) = 0 /\ t.spaces = Indent(n)
    <2>1. d \in Nat
        BY <1>3
    <2>2. t.spaces = (d * Spaces) % Width
        BY <2>1, LineTokenIs
    <2>3. t.spaces = Indent(n)
        BY <1>3, <2>2 DEF Indent
    <2> QED BY <2>1, <2>3, LineTokenIs
<1> HIDE DEF t
<1>7. at' = then => Fresh' = k /\ Len(calls') - Fresh' = n
    BY <1>2 DEF Fresh
<1>8. CASE at' = then /\ sink' = sink \o <<t>>
    <2>1. PICK u : u = s \o <<t>>
        OBVIOUS
    <2>2. Begun(s, HeightOf(s) - Closing(t))
        BY <1>5, NoneBegun
    <2>3. /\ u \in Seq(Tokens) /\ LinesRight(u) /\ HeightOf(u) = HeightOf(s) + Opening(t) - Closing(t)
          /\ Begun(u, n)
        BY <1>3, <1>5, <1>6, <2>1, <2>2, AddedToken
    <2>4. HeightOf(u) = Len(calls)
        BY <1>5, <1>6, <2>3
    <2>5. sink' = u
        BY <1>4, <1>8, <2>1
    <2> QED BY <1>2, <1>3, <1>7, <1>8, <2>3, <2>4, <2>5 DEF IndentInv, DepthInv
<1>9. CASE at' = then /\ sink' = sink \o << >>
    <2>1. sink' = s
        <3> HIDE DEF Tokens
        <3> QED BY <1>4, <1>5, <1>9, ConcatEmptySeq
    <2>2. Begun(s, n)
        BY <1>5, NoneBegun
    <2> QED BY <1>2, <1>3, <1>5, <1>7, <1>9, <2>1, <2>2 DEF IndentInv, DepthInv
<1>10. CASE at' \in Failed /\ sink' = sink
    BY <1>3, <1>10, FailStep
<1> QED BY <1>8, <1>9, <1>10, LineOutcomes DEF t

PlainChar(c) ==
    c \in Char \union Whitespace /\ c \notin Openers /\ c \notin Closers /\ c # "newline"

LEMMA PlainToken ==
    ASSUME NEW c, PlainChar(c), NEW b \in Seq(Nat)
    PROVE  Plain(Token(c, b))
PROOF
<1> DEFINE t == Token(c, b)
<1>1. t.char = c
    BY DEF Token
<1>2. t \in Tokens
    BY TokenType DEF Token, PlainChar
<1> HIDE DEF t
<1>3. Plain(t)
    BY <1>1, <1>2 DEF Plain, PlainChar, Opening, Closing, IsLine
<1> QED BY <1>3 DEF t

LEMMA PlainChars == PlainChar("str") /\ PlainChar(":") /\ PlainChar(",") /\ PlainChar("space")
PROOF
<1>1. PlainChar("str")
    BY Zenon DEF PlainChar, Char, Whitespace, Openers, Closers, Quotes, Strings
<1>2. PlainChar(":")
    BY Zenon DEF PlainChar, Char, Whitespace, Openers, Closers
<1>3. PlainChar(",")
    BY Zenon DEF PlainChar, Char, Whitespace, Openers, Closers
<1>4. PlainChar("space")
    BY Zenon DEF PlainChar, Char, Whitespace, Openers, Closers
<1> QED BY <1>1, <1>2, <1>3, <1>4, Zenon

LEMMA ScalarChar ==
    ASSUME NEW kind \in DOMAIN Written, NEW c \in Written[kind]
    PROVE  PlainChar(c)
PROOF
<1>1. c \in {"null", "bool", "num", "badnum", "other"}
    BY DEF Written
<1> QED BY <1>1, Zenon DEF PlainChar, Char, Whitespace, Openers, Closers, Atoms, Numbers, Numerals

LEMMA EmitOutcomes ==
    ASSUME NEW tokens, NEW then, Emit(tokens, then)
    PROVE  \/ at' = then /\ sink' = sink \o tokens
           \/ at' \in Failed /\ sink' = sink
PROOF
<1>1. "Error" \in Failed
    BY Zenon DEF Failed
<1> QED BY <1>1 DEF Emit

DepthJson == IndentInv /\ JsonInv

LEMMA ScalarDepth == DepthJson /\ Scalar => IndentInv'
PROOF
<1> SUFFICES ASSUME DepthJson, Scalar PROVE IndentInv'
    OBVIOUS
<1> DEFINE then == "Returned"
<1>1. PICK c \in Written[json.kind] : Emit(<<Token(c, json.text)>>, then)
    BY DEF Scalar
<1>2. json.kind \in DOMAIN Written /\ calls' = calls /\ dent' = dent
    BY DEF Scalar
<1>3. at \notin Failed /\ at \notin FreshAts /\ then \notin FreshAts
    BY Zenon DEF Scalar, Failed, FreshAts
<1> HIDE DEF then
<1>4. CallsInv /\ IndentInv /\ dent \in 0..Width - 1 /\ json.text \in Seq(Nat)
    <2>1. json.text \in Seq(Byte)
        BY PartsAssumption DEF DepthJson, JsonInv, CallsInv, Closed
    <2> QED BY <2>1, BytesAreNat DEF DepthJson, JsonInv, IndentInv
<1> DEFINE t == Token(c, json.text)
<1>5. Plain(t)
    BY <1>1, <1>2, <1>4, ScalarChar, PlainToken
<1> HIDE DEF t
<1>6. CASE at' = then /\ sink' = sink \o <<t>>
    BY <1>2, <1>3, <1>4, <1>5, <1>6, PlainStep
<1>7. CASE at' \in Failed /\ sink' = sink
    BY <1>2, <1>4, <1>7, FailStep
<1>8. Emit(<<t>>, then)
    BY <1>1 DEF t
<1> QED BY <1>6, <1>7, <1>8, EmitOutcomes

LEMMA StringDepth == DepthJson /\ (JsonString \/ StringStep) => IndentInv'
PROOF
<1> SUFFICES ASSUME DepthJson, JsonString \/ StringStep PROVE IndentInv'
    OBVIOUS
<1>1. calls' = calls /\ dent' = dent /\ sink' = sink
    BY DEF JsonString, StringStep
<1>2. /\ at \in BegunAts /\ at \notin Failed /\ at \notin FreshAts
      /\ at' \in Failed \/ (at' \in BegunAts /\ at' \notin FreshAts)
    BY Zenon DEF JsonString, StringStep, BegunAts, Failed, FreshAts
<1>3. CallsInv /\ IndentInv /\ dent \in 0..Width - 1
    BY DEF DepthJson, JsonInv, IndentInv
<1> QED BY <1>1, <1>2, <1>3, NothingStep, FailStep

LEMMA WrittenDepth == DepthJson /\ StringWritten => IndentInv'
PROOF
<1> SUFFICES ASSUME DepthJson, StringWritten PROVE IndentInv'
    OBVIOUS
<1> DEFINE t == Token("str", out)
<1>1. calls' = calls /\ dent' = dent /\ sink' = Append(sink, t) /\ pc = "Ok"
    BY DEF StringWritten
<1>2. at \notin Failed /\ at \notin FreshAts /\ at' \notin FreshAts
    BY Zenon DEF StringWritten, Failed, FreshAts
<1>3. CallsInv /\ IndentInv /\ sink \in Seq(Tokens)
    BY DEF DepthJson, JsonInv, IndentInv
<1>4. out \in Seq(Nat)
    <2>1. text \in Seq(Byte) /\ out = Encoded
        BY <1>1 DEF DepthJson, JsonInv, StringInv
    <2> QED BY <2>1, EncodedType
<1>5. Plain(t)
    BY <1>4, PlainChars, PlainToken
<1> HIDE DEF t
<1>6. Append(sink, t) = sink \o <<t>>
    <2>1. t \in Tokens
        BY <1>5 DEF Plain
    <2> HIDE DEF Tokens
    <2> QED BY <1>3, <2>1, AppendIsConcat
<1> QED BY <1>1, <1>2, <1>3, <1>5, <1>6, PlainStep

LEMMA OpenerToken ==
    ASSUME NEW c \in Openers
    PROVE  LET t == Token(c, << >>) IN t \in Tokens /\ Opening(t) = 1 /\ Closing(t) = 0 /\ ~IsLine(t)
PROOF
<1> DEFINE t == Token(c, << >>)
<1>1. c \in Char \union Whitespace /\ c \notin Closers /\ c # "newline"
    BY Zenon DEF Char, Openers, Closers
<1>2. t.char = c
    BY DEF Token
<1>3. t \in Tokens
    <2> DEFINE e == << >>
    <2>1. e \in Seq(Nat) /\ 0 \in Nat
        OBVIOUS
    <2> HIDE DEF e
    <2>2. [char |-> c, bytes |-> e, spaces |-> 0] \in Tokens
        BY <1>1, <2>1, TokenType
    <2> QED BY <2>2 DEF e, Token
<1> HIDE DEF t
<1>4. t \in Tokens /\ Opening(t) = 1 /\ Closing(t) = 0 /\ ~IsLine(t)
    BY <1>1, <1>2, <1>3 DEF Opening, Closing, IsLine
<1> QED BY <1>4 DEF t

LEMMA CloserToken ==
    ASSUME NEW c \in Closers
    PROVE  LET t == Token(c, << >>) IN t \in Tokens /\ Opening(t) = 0 /\ Closing(t) = 1 /\ ~IsLine(t)
PROOF
<1> DEFINE t == Token(c, << >>)
<1>1. c \in Char \union Whitespace /\ c \notin Openers /\ c # "newline"
    BY Zenon DEF Char, Openers, Closers
<1>2. t.char = c
    BY DEF Token
<1>3. t \in Tokens
    <2> DEFINE e == << >>
    <2>1. e \in Seq(Nat) /\ 0 \in Nat
        OBVIOUS
    <2> HIDE DEF e
    <2>2. [char |-> c, bytes |-> e, spaces |-> 0] \in Tokens
        BY <1>1, <2>1, TokenType
    <2> QED BY <2>2 DEF e, Token
<1> HIDE DEF t
<1>4. t \in Tokens /\ Opening(t) = 0 /\ Closing(t) = 1 /\ ~IsLine(t)
    BY <1>1, <1>2, <1>3 DEF Opening, Closing, IsLine
<1> QED BY <1>4 DEF t

LEMMA OpenDepthStep == DepthJson /\ Open => IndentInv'
PROOF
<1> SUFFICES ASSUME DepthJson, Open PROVE IndentInv'
    OBVIOUS
<1> DEFINE then == IF json.items = << >> THEN "Close" ELSE "First line"
           c == IF json.kind = "array" THEN "[" ELSE "{"
           t == Token(c, << >>)
           new == [kind |-> json.kind, left |-> json.items]
<1>1. /\ at \notin Failed /\ at \notin FreshAts /\ then \in FreshAts /\ c \in Openers
      /\ Emit(<<t>>, then) /\ dent' = dent /\ json.kind \in Containers /\ calls' = Append(calls, new)
    BY Zenon DEF Open, Bracket, Failed, FreshAts, Openers
<1> HIDE DEF then, c
<1>2. t \in Tokens /\ Opening(t) = 1 /\ Closing(t) = 0 /\ ~IsLine(t)
    BY <1>1, OpenerToken
<1>3. CallsInv /\ IndentInv /\ dent \in 0..Width - 1 /\ calls \in Seq(Frame) /\ json \in Parts
    BY DEF DepthJson, JsonInv, IndentInv, CallsInv
<1>4. Len(calls') = Len(calls) + 1
    <2>1. new \in Frame
        BY <1>1, <1>3, PartsAssumption DEF Frame, Closed
    <2> HIDE DEF Frame, new
    <2> QED BY <1>1, <1>3, <2>1, AppendProperties
<1> HIDE DEF t
<1>5. CASE at' = then /\ sink' = sink \o <<t>>
    BY <1>1, <1>2, <1>3, <1>4, <1>5, OpenDepth
<1>6. CASE at' \in Failed /\ sink' = sink
    BY <1>1, <1>3, <1>6, FailStep
<1> QED BY <1>1, <1>5, <1>6, EmitOutcomes

LEMMA CloseDepthStep == DepthJson /\ Close => IndentInv'
PROOF
<1> SUFFICES ASSUME DepthJson, Close PROVE IndentInv'
    OBVIOUS
<1> DEFINE then == "Returned"
           c == IF call.kind = "array" THEN "]" ELSE "}"
           t == Token(c, << >>)
<1>1. /\ at \notin Failed /\ at \in FreshAts /\ at \in EndAts /\ then \notin FreshAts /\ c \in Closers
      /\ Emit(<<t>>, then) /\ dent' = dent /\ calls' = Front(calls)
    BY Zenon DEF Close, Bracket, Failed, FreshAts, EndAts, Closers
<1> HIDE DEF then, c
<1>2. t \in Tokens /\ Opening(t) = 0 /\ Closing(t) = 1 /\ ~IsLine(t)
    BY <1>1, CloserToken
<1>3. CallsInv /\ IndentInv /\ dent \in 0..Width - 1 /\ calls \in Seq(Frame) /\ calls # << >>
    BY <1>1 DEF DepthJson, JsonInv, IndentInv, CallsInv
<1>4. Len(calls') = Len(calls) - 1
    BY <1>1, <1>3, FrontIs
<1> HIDE DEF t
<1>5. CASE at' = then /\ sink' = sink \o <<t>>
    BY <1>1, <1>2, <1>3, <1>4, <1>5, CloseDepth
<1>6. CASE at' \in Failed /\ sink' = sink
    BY <1>1, <1>3, <1>6, FailStep
<1> QED BY <1>1, <1>5, <1>6, EmitOutcomes

LEMMA LineDepths == DepthJson /\ (FirstLine \/ NextLine \/ LastLine) => IndentInv'
PROOF
<1> SUFFICES ASSUME DepthJson, FirstLine \/ NextLine \/ LastLine PROVE IndentInv'
    OBVIOUS
<1>1. at \in ItemAts \union EndAts /\ at \notin Failed /\ at \notin BegunAts /\ calls' = calls
    BY Zenon DEF FirstLine, NextLine, LastLine, ItemAts, EndAts, Failed, BegunAts
<1>2. CallsInv /\ IndentInv
    BY DEF DepthJson, JsonInv
<1>3. PICK n : n = Len(calls)
    OBVIOUS
<1>4. n \in Nat \ {0} /\ dent = (n - Fresh) % Width
    <2>1. calls # << >>
        BY <1>1, <1>2 DEF CallsInv
    <2> QED BY <1>1, <1>2, <1>3, <2>1, Innermost, DepthIs
<1> DEFINE item == "Item"
           end == "Close"
<1>5. item \in BegunAts /\ item \notin FreshAts /\ end \in BegunAts /\ end \in FreshAts
    BY Zenon DEF BegunAts, FreshAts
<1>6. CASE FirstLine
    <2>1. at \in FreshAts /\ dent' = (dent + 1) % Width /\ NewLine(dent', item)
        BY <1>6, Zenon DEF FirstLine, FreshAts
    <2>2. Fresh = 1
        BY <2>1 DEF Fresh
    <2>3. dent' = n % Width
        <3>1. (((n - 1) % Width) + 1) % Width = (n - 1 + 1) % Width
            <4>1. Width \in Nat \ {0} /\ n - 1 \in Int /\ 1 \in Int
                BY <1>4, IndentAssumption
            <4> QED BY Zenon, <4>1, ModStep
        <3>2. n - 1 + 1 = n
            BY <1>4
        <3> QED BY <1>4, <2>1, <2>2, <3>1, <3>2
    <2>4. PICK d : d = dent'
        OBVIOUS
    <2>5. n - 0 = n /\ n \in Nat
        BY <1>4
    <2> HIDE DEF item
    <2> QED BY <1>1, <1>2, <1>3, <1>5, <2>1, <2>3, <2>4, <2>5, LineDepthStep
<1>7. CASE NextLine
    <2>1. at \notin FreshAts /\ dent' = dent /\ NewLine(dent, item)
        BY <1>7, Zenon DEF NextLine, FreshAts
    <2>2. Fresh = 0
        BY <2>1 DEF Fresh
    <2>3. dent = (n - 0) % Width /\ n - 0 \in Nat
        BY <1>4, <2>2
    <2> HIDE DEF item
    <2> QED BY <1>1, <1>2, <1>3, <1>5, <2>1, <2>3, LineDepthStep
<1>8. CASE LastLine
    <2>1. at \notin FreshAts /\ dent' = (dent - 1) % Width /\ NewLine(dent', end)
        BY <1>8, Zenon DEF LastLine, FreshAts
    <2>2. Fresh = 0
        BY <2>1 DEF Fresh
    <2>3. dent' = (n - 1) % Width
        <3>1. ((n % Width) + (-1)) % Width = (n + (-1)) % Width
            <4>1. Width \in Nat \ {0} /\ n \in Int /\ -1 \in Int
                BY <1>4, IndentAssumption
            <4> QED BY Zenon, <4>1, ModStep
        <3>2. n - 0 = n /\ n + (-1) = n - 1
            BY <1>4
        <3>3. dent = n % Width /\ dent \in Int
            BY <1>4, <2>2, <3>2 DEF DepthJson, IndentInv
        <3>4. dent - 1 = dent + (-1)
            BY <3>3
        <3> QED BY <2>1, <3>1, <3>2, <3>3, <3>4
    <2>4. PICK d : d = dent'
        OBVIOUS
    <2>5. n - 1 \in Nat
        BY <1>4
    <2> HIDE DEF end
    <2> QED BY <1>1, <1>2, <1>3, <1>5, <2>1, <2>3, <2>4, <2>5, LineDepthStep
<1> QED BY <1>6, <1>7, <1>8

LEMMA ItemDepth == DepthJson /\ (Item \/ Finish) => IndentInv'
PROOF
<1> SUFFICES ASSUME DepthJson, Item \/ Finish PROVE IndentInv'
    OBVIOUS
<1>1. calls' = calls /\ dent' = dent /\ sink' = sink
    BY DEF Item, Finish
<1>2. /\ at \notin Failed /\ at \notin FreshAts /\ at' \notin FreshAts
      /\ at' \in BegunAts \/ at \notin BegunAts
    BY Zenon DEF Item, Finish, BegunAts, Failed, FreshAts
<1>3. CallsInv /\ IndentInv
    BY DEF DepthJson, JsonInv
<1> QED BY <1>1, <1>2, <1>3, NothingStep

LEMMA ReturnedDepth == DepthJson /\ Returned => IndentInv'
PROOF
<1> SUFFICES ASSUME DepthJson, Returned PROVE IndentInv'
    OBVIOUS
<1> DEFINE left == Tail(call.left)
           new == [calls[Len(calls)] EXCEPT !.left = left]
           next == "Next line"
           t == Token(",", << >>)
<1>1. /\ at \notin Failed /\ at \notin FreshAts /\ at \notin BegunAts /\ next \notin FreshAts
      /\ Emit(<<t>>, next) \/ (at' \notin FreshAts /\ sink' = sink)
    BY Zenon DEF Returned, Failed, FreshAts, BegunAts
<1>2. dent' = dent /\ calls' = [calls EXCEPT ![Len(calls)].left = left]
    BY DEF Returned
<1>3. CallsInv /\ IndentInv /\ dent \in 0..Width - 1 /\ calls \in Seq(Frame)
    BY DEF DepthJson, JsonInv, IndentInv, CallsInv
<1>4. Len(calls') = Len(calls)
    BY <1>2, <1>3
<1>5. Plain(t)
    <2> DEFINE e == << >>
               c == ","
    <2>1. e \in Seq(Nat)
        OBVIOUS
    <2>2. PlainChar(c)
        BY PlainChars, Zenon
    <2> HIDE DEF e, c
    <2>3. Plain(Token(c, e))
        BY <2>1, <2>2, PlainToken
    <2> QED BY <2>3, Zenon DEF e, c
<1> HIDE DEF t, next
<1>6. CASE at' \notin FreshAts /\ sink' = sink
    BY <1>1, <1>2, <1>3, <1>4, <1>6, NothingStep
<1>7. CASE at' = next /\ sink' = sink \o <<t>>
    BY <1>1, <1>2, <1>3, <1>4, <1>5, <1>7, PlainStep
<1>8. CASE at' \in Failed /\ sink' = sink
    BY <1>2, <1>3, <1>8, FailStep
<1> QED BY <1>1, <1>6, <1>7, <1>8, EmitOutcomes

LEMMA ColonDepth == DepthJson /\ Colon => IndentInv'
PROOF
<1> SUFFICES ASSUME DepthJson, Colon PROVE IndentInv'
    OBVIOUS
<1> DEFINE e == << >>
           a == Token(":", e)
           b == Token("space", e)
           more == IF Indents THEN <<b>> ELSE << >>
           then == "Json"
<1>1. /\ at \notin Failed /\ at \notin FreshAts /\ then \notin FreshAts
      /\ Emit(<<a>> \o more, then) /\ dent' = dent /\ calls' = calls
    BY Zenon DEF Colon, Failed, FreshAts
<1>2. Plain(a) /\ Plain(b)
    <2>1. e \in Seq(Nat)
        OBVIOUS
    <2> DEFINE c == ":"
               d == "space"
    <2>2. PlainChar(c) /\ PlainChar(d)
        BY PlainChars, Zenon
    <2> HIDE DEF c, d, e
    <2>3. Plain(Token(c, e)) /\ Plain(Token(d, e))
        BY <2>1, <2>2, PlainToken
    <2> QED BY <2>3, Zenon DEF c, d
<1> HIDE DEF a, b
<1>3. CallsInv /\ IndentInv /\ dent \in 0..Width - 1 /\ sink \in Seq(Tokens)
    BY DEF DepthJson, JsonInv, IndentInv
<1>4. CASE at' = then /\ sink' = sink \o (<<a>> \o more)
    <2>1. CASE Indents
        <3>1. sink' = (sink \o <<a>>) \o <<b>>
            <4> DEFINE x == <<a>>
                       y == <<b>>
            <4>1. a \in Tokens /\ b \in Tokens
                BY <1>2 DEF Plain
            <4> HIDE DEF Tokens
            <4>2. x \in Seq(Tokens) /\ y \in Seq(Tokens)
                BY <4>1
            <4>3. sink' = sink \o (x \o y)
                BY <1>4, <2>1
            <4> HIDE DEF x, y
            <4>4. (sink \o x) \o y = sink \o (x \o y)
                BY <1>3, <4>2, ConcatAssociative
            <4> QED BY <4>3, <4>4 DEF x, y
        <3> HIDE DEF then
        <3> QED BY <1>1, <1>2, <1>3, <1>4, <3>1, PlainPair
    <2>2. CASE ~Indents
        <3>1. sink' = sink \o <<a>>
            <4> DEFINE x == <<a>>
            <4>1. a \in Tokens
                BY <1>2 DEF Plain
            <4> HIDE DEF Tokens
            <4>2. x \in Seq(Tokens)
                BY <4>1
            <4>3. sink' = sink \o (x \o << >>)
                BY <1>4, <2>2
            <4> HIDE DEF x
            <4>4. x \o << >> = x
                BY <4>2, ConcatEmptySeq
            <4> QED BY <4>3, <4>4 DEF x
        <3> HIDE DEF then
        <3> QED BY <1>1, <1>2, <1>3, <1>4, <3>1, PlainStep
    <2> QED BY <2>1, <2>2
<1> HIDE DEF then, more
<1>5. CASE at' \in Failed /\ sink' = sink
    BY <1>1, <1>3, <1>5, FailStep
<1>6. \/ at' = then /\ sink' = sink \o (<<a>> \o more)
      \/ at' \in Failed /\ sink' = sink
    <2> DEFINE tokens == <<a>> \o more
    <2> HIDE DEF tokens
    <2>1. Emit(tokens, then)
        BY <1>1 DEF tokens
    <2>2. \/ at' = then /\ sink' = sink \o tokens
          \/ at' \in Failed /\ sink' = sink
        BY <2>1, EmitOutcomes
    <2> QED BY <2>2 DEF tokens
<1> QED BY <1>4, <1>5, <1>6 DEF then, more

LEMMA InitDepth == JsonInit => IndentInv
PROOF
<1> SUFFICES ASSUME JsonInit PROVE IndentInv
    OBVIOUS
<1> DEFINE e == << >>
<1>1. sink = e /\ calls = e /\ dent = 0 /\ Len(e) = 0
    BY DEF JsonInit
<1>2. at \notin FreshAts
    BY Zenon DEF JsonInit, FreshAts
<1>3. Width \in Nat \ {0} /\ 0 % Width = 0
    <2>1. Width \in Nat \ {0}
        BY IndentAssumption
    <2> QED BY <2>1
<1>4. HeightOf(e) = 0
    <2>1. ASSUME NEW S PROVE Occurrences(Chars(e), 1, 0, S) = 0
        <3>1. {k \in 1..0 : Chars(e)[k] \in S} = {}
            OBVIOUS
        <3> QED BY <3>1, FS_EmptySet DEF Occurrences
    <2> QED BY <2>1 DEF HeightOf, Height
<1>5. NoLine(e) /\ LinesRight(e) /\ e \in Seq(Tokens)
    BY DEF NoLine, LinesRight
<1> HIDE DEF e
<1>6. Fresh = 0
    BY <1>2 DEF Fresh
<1>7. Begun(e, 0)
    BY <1>5, NoneBegun
<1> QED BY <1>1, <1>3, <1>4, <1>5, <1>6, <1>7 DEF IndentInv, DepthInv

LEMMA DepthSteps == DepthJson /\ [JsonNext]_jsonVars => IndentInv'
PROOF
<1> SUFFICES ASSUME DepthJson, [JsonNext]_jsonVars PROVE IndentInv'
    OBVIOUS
<1>1. ASSUME UNCHANGED jsonVars PROVE IndentInv'
    <2>1. at' = at /\ calls' = calls /\ dent' = dent /\ sink' = sink
        BY <1>1 DEF jsonVars
    <2> QED BY <2>1 DEF DepthJson, IndentInv, DepthInv, Fresh
<1>2. CASE JsonStep
    BY <1>2, ScalarDepth, StringDepth, WrittenDepth, OpenDepthStep, LineDepths, ItemDepth, ColonDepth,
       ReturnedDepth, CloseDepthStep DEF JsonStep
<1> QED BY <1>1, <1>2 DEF JsonNext, JsonReturned

AtEnd == at = "Ok" => calls = << >>

LEMMA EndSteps == AtEnd /\ [JsonNext]_jsonVars => AtEnd'
PROOF
<1> SUFFICES ASSUME AtEnd, [JsonNext]_jsonVars, at' = "Ok" PROVE calls' = << >>
    BY DEF AtEnd
<1>1. ASSUME UNCHANGED jsonVars PROVE calls' = << >>
    BY <1>1 DEF AtEnd, jsonVars
<1>2. CASE Finish
    BY <1>2 DEF Finish
<1>3. CASE Scalar \/ JsonString \/ StringStep \/ StringWritten
    BY <1>3, Zenon DEF Scalar, JsonString, StringStep, StringWritten, Emit
<1>4. CASE FirstLine \/ NextLine \/ LastLine
    BY <1>4, Zenon DEF FirstLine, NextLine, LastLine, NewLine, Emit
<1>5. CASE Open \/ Item \/ Colon
    BY <1>5, Zenon DEF Open, Item, Colon, Emit
<1>6. CASE Returned \/ Close
    BY <1>6, Zenon DEF Returned, Close, Emit
<1> QED BY <1>1, <1>2, <1>3, <1>4, <1>5, <1>6 DEF JsonNext, JsonStep, JsonReturned

\* Every line of pretty printing begins with spaces_per_indent spaces for each
\* bracket it is in, as long as the width of the indentation allows it, and at the
\* end the indentation is back at zero; for every set of values and every width.
THEOREM IndentsRight == JsonSpec => []Indented
PROOF
<1>1. JsonInit => DepthJson /\ AtEnd
    <2>1. JsonInit => AtEnd
        BY Zenon DEF JsonInit, AtEnd
    <2> QED BY <2>1, InitStep, InitDepth DEF DepthJson
<1>2. DepthJson /\ AtEnd /\ [JsonNext]_jsonVars => DepthJson' /\ AtEnd'
    BY JsonSteps, DepthSteps, EndSteps DEF DepthJson
<1>3. DepthJson /\ AtEnd => Indented
    <2> SUFFICES ASSUME DepthJson, AtEnd PROVE Indented
        OBVIOUS
    <2>1. IndentInv /\ CallsInv
        BY DEF DepthJson, JsonInv
    <2>2. ASSUME NEW k \in 1..Len(sink) - 1, IsLine(sink[k]), Spaces * DepthAt(k) < Width
          PROVE  sink[k].spaces = Spaces * DepthAt(k)
        <3>1. DepthAt(k) = LineDepth(sink, k)
            BY DEF DepthAt, LineDepth, Closing
        <3> DEFINE d == LineDepth(sink, k)
        <3>2. d \in Nat /\ sink[k].spaces = Indent(d)
            BY <2>1, <2>2 DEF IndentInv, LinesRight
        <3> HIDE DEF d
        <3> QED BY <2>2, <3>1, <3>2, IndentRight DEF d
    <2>3. ASSUME at = "Ok" PROVE dent = 0
        <3>1. at \notin Failed /\ at \notin FreshAts
            BY <2>3, Zenon DEF Failed, FreshAts
        <3>2. dent = (Len(calls) - 0) % Width /\ Len(calls) = 0
            BY <2>1, <2>3, <3>1, DepthIs DEF Fresh, AtEnd
        <3>3. Width \in Nat \ {0}
            BY IndentAssumption
        <3>4. (0 - 0) % Width = 0
            BY <3>3
        <3> QED BY <3>2, <3>4
    <2> QED BY <2>2, <2>3 DEF Indented, IsLine
<1> QED BY <1>1, <1>2, <1>3, PTL DEF JsonSpec
=================================================================================
