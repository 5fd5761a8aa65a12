------------------------------ MODULE NumberProofs ------------------------------
(***************************************************************************)
(* The number parser reads what was written, for texts of any length and   *)
(* words of any width that keeps the ratios the code relies on.            *)
(*                                                                         *)
(* Every property is a theorem of Spec.  The proof needs no more than      *)
(* where the parts of a number end, which every step agrees on with the    *)
(* reference, and that the word is the digits so far: modulo its width     *)
(* while the code does not look, exactly once it does.                     *)
(***************************************************************************)
EXTENDS NumberParse, NaturalLemmas, SequenceTheorems

---------------------------------------------------------------------------
(* Powers, words and digits.                                               *)

RaisedSteps(b, n) == [k \in 0 + 1..n |-> [x \in Nat |-> x * b]]

LEMMA RaisedIs ==
    ASSUME NEW b \in Nat, NEW n \in Nat
    PROVE  \E r \in [0..n -> Nat] :
              /\ r[0] = 1 /\ \A k \in 0..n - 1 : r[k + 1] = r[k] * b
              /\ Raised(b, n) = r[n]
PROOF
<1> DEFINE G == RaisedSteps(b, n)
           body(r) == [k \in 0..n |-> IF k = 0 THEN 1 ELSE r[k - 1] * b]
           powers == CHOOSE r : r = body(r)
<1>1. G \in [0 + 1..n -> [Nat -> Nat]]
    BY DEF RaisedSteps
<1>2. PICK f \in [0..n -> Nat] : Solves(f, 0, n, 1, G)
    <2>1. 0 \in Nat /\ 0 <= n /\ 1 \in Nat
        OBVIOUS
    <2> HIDE DEF G
    <2> QED BY <1>1, <2>1, Recursion
<1>3. f = body(f)
    <2>1. ASSUME NEW k \in 0..n, k # 0 PROVE f[k] = f[k - 1] * b
        <3>1. k \in 0 + 1..n /\ k - 1 \in 0..n
            BY <2>1
        <3>2. G[k][f[k - 1]] = f[k - 1] * b
            BY <3>1 DEF RaisedSteps
        <3> HIDE DEF G
        <3> QED BY <1>2, <3>1, <3>2 DEF Solves
    <2>2. f[0] = 1
        BY <1>2 DEF Solves
    <2>3. \A k \in 0..n : f[k] = IF k = 0 THEN 1 ELSE f[k - 1] * b
        BY <2>1, <2>2
    <2> QED BY <1>2, <2>3
<1>4. powers = body(powers)
    <2> HIDE DEF body
    <2> QED BY <1>3
<1>5. \A k \in 0..n : powers[k] = IF k = 0 THEN 1 ELSE powers[k - 1] * b
    <2> HIDE DEF powers
    <2> QED BY <1>4
<1>6. Raised(b, n) = powers[n]
    BY DEF Raised
<1> HIDE DEF powers
<1>7. f[n] = powers[n]
    <2> DEFINE T == {k \in 0..n : f[k] = powers[k]}
    <2>1. ASSUME NEW k \in 0..n - 1, k \in T PROVE k + 1 \in T
        <3>1. k + 1 \in 0..n /\ k + 1 # 0 /\ (k + 1) - 1 = k
            OBVIOUS
        <3>2. f[k + 1] = f[k] * b /\ powers[k + 1] = powers[k] * b
            BY <1>3, <1>5, <3>1
        <3>3. f[k] = powers[k]
            BY <2>1
        <3> QED BY <3>1, <3>2, <3>3
    <2>2. 0 \in T
        BY <1>3, <1>5
    <2> HIDE DEF T
    <2>3. 0..n \subseteq T
        BY <2>1, <2>2, Induction
    <2>4. n \in 0..n
        OBVIOUS
    <2> QED BY <2>3, <2>4 DEF T
<1>8. ASSUME NEW k \in 0..n - 1 PROVE f[k + 1] = f[k] * b
    <2>1. k + 1 \in 0..n /\ k + 1 # 0 /\ (k + 1) - 1 = k
        OBVIOUS
    <2> QED BY <1>3, <2>1
<1>9. f[0] = 1
    BY <1>3
<1> QED BY <1>2, <1>6, <1>7, <1>8, <1>9

LEMMA RaisedNext ==
    ASSUME NEW b \in Nat, NEW n \in Nat
    PROVE  /\ Raised(b, 0) = 1
           /\ Raised(b, n) \in Nat
           /\ Raised(b, n + 1) = Raised(b, n) * b
PROOF
<1>1. PICK q \in [0..n -> Nat] : /\ q[0] = 1 /\ \A k \in 0..n - 1 : q[k + 1] = q[k] * b
                                 /\ Raised(b, n) = q[n]
    BY RaisedIs
<1>2. PICK r \in [0..n + 1 -> Nat] : /\ r[0] = 1 /\ \A k \in 0..(n + 1) - 1 : r[k + 1] = r[k] * b
                                     /\ Raised(b, n + 1) = r[n + 1]
    <2>1. n + 1 \in Nat
        OBVIOUS
    <2> QED BY <2>1, RaisedIs
<1>3. PICK p \in [0..0 -> Nat] : p[0] = 1 /\ Raised(b, 0) = p[0]
    <2>1. 0 \in Nat
        OBVIOUS
    <2> QED BY <2>1, RaisedIs
<1> DEFINE T == {k \in 0..n : q[k] = r[k]}
<1>4. ASSUME NEW k \in 0..n - 1, k \in T PROVE k + 1 \in T
    <2>1. q[k + 1] = q[k] * b /\ q[k] = r[k]
        BY <1>1, <1>4
    <2>2. r[k + 1] = r[k] * b
        BY <1>2
    <2> QED BY <2>1, <2>2
<1>5. 0 \in T
    BY <1>1, <1>2
<1> HIDE DEF T
<1>6. 0..n \subseteq T
    BY <1>4, <1>5, Induction
<1>7. n \in 0..n /\ n \in 0..(n + 1) - 1
    OBVIOUS
<1>8. q[n] = r[n]
    BY <1>6, <1>7 DEF T
<1>9. r[n + 1] = r[n] * b
    BY <1>2, <1>7
<1> QED BY <1>1, <1>2, <1>3, <1>7, <1>8, <1>9

LEMMA RaisedGrows ==
    ASSUME NEW b \in Nat, b > 0, NEW m \in Nat, NEW n \in Nat, m <= n
    PROVE  Raised(b, m) \in Nat /\ Raised(b, m) > 0 /\ Raised(b, m) <= Raised(b, n)
PROOF
<1> DEFINE T == {k \in 0..n : /\ Raised(b, k) > 0
                              /\ m <= k => Raised(b, m) <= Raised(b, k)}
<1>1. ASSUME NEW k \in 0..n - 1, k \in T PROVE k + 1 \in T
    <2>1. /\ Raised(b, k) \in Nat /\ Raised(b, k + 1) \in Nat
          /\ Raised(b, k + 1) = Raised(b, k) * b
        BY RaisedNext
    <2> DEFINE x == Raised(b, k)
               y == Raised(b, k + 1)
               z == Raised(b, m)
    <2>2. z \in Nat
        BY RaisedNext
    <2>3. x > 0 /\ (m <= k => z <= x)
        BY <1>1
    <2>4. y >= x
        <3> HIDE DEF x, y
        <3> QED BY <2>1, <2>3 DEF x, y
    <2>5. k + 1 \in 0..n
        OBVIOUS
    <2>6. m <= k + 1 => z <= y
        <3>1. CASE m = k + 1
            BY <2>2, <3>1
        <3>2. CASE m <= k
            <4> HIDE DEF x, y, z
            <4> QED BY <2>1, <2>2, <2>3, <2>4, <3>2 DEF x, y
        <3> QED BY <3>1, <3>2
    <2>7. y > 0
        <3> HIDE DEF x, y
        <3> QED BY <2>1, <2>3, <2>4 DEF x, y
    <2> QED BY <2>5, <2>6, <2>7
<1>2. 0 \in T
    <2>1. Raised(b, 0) = 1
        BY RaisedNext
    <2> QED BY <2>1
<1> HIDE DEF T
<1>3. 0..n \subseteq T
    BY <1>1, <1>2, Induction
<1>4. n \in 0..n /\ m \in 0..n
    OBVIOUS
<1>5. n \in T /\ m \in T
    BY <1>3, <1>4
<1>6. Raised(b, m) > 0 /\ (m <= n => Raised(b, m) <= Raised(b, n))
    BY <1>5, Zenon DEF T
<1>7. Raised(b, m) \in Nat
    BY RaisedNext
<1> QED BY <1>6, <1>7


\* Twice the half is the word; both are more than a digit.
LEMMA WordIs ==
    /\ Word \in Nat /\ Half \in Nat /\ Word = 2 * Half /\ Half > 0
    /\ Word >= 10
    /\ Raised(10, SignedDigits) <= Half /\ Raised(10, SignedDigits + 1) <= Word
PROOF
<1>1. WordBits \in Nat /\ WordBits - 1 \in Nat /\ (WordBits - 1) + 1 = WordBits /\ SignedDigits \in Nat
    BY NumberWordAssumption
<1>2. Half \in Nat /\ Raised(2, (WordBits - 1) + 1) = Half * 2
    BY <1>1, RaisedNext DEF Half
<1>3. Word = Half * 2
    BY <1>1, <1>2 DEF Word
<1>4. Half > 0
    BY <1>1, RaisedGrows DEF Half
<1>5. Raised(10, 1) = 10
    <2>1. Raised(10, 0) = 1 /\ Raised(10, 0 + 1) = Raised(10, 0) * 10
        BY RaisedNext
    <2> QED BY <2>1
<1>6. Raised(10, 1) <= Raised(10, SignedDigits + 1)
    BY <1>1, RaisedGrows
<1>7. Raised(10, SignedDigits + 1) \in Nat
    BY <1>1, RaisedNext
<1> QED BY <1>2, <1>3, <1>4, <1>5, <1>6, <1>7, NumberWordAssumption

LEMMA BufIs ==
    ASSUME text \in NumberTexts
    PROVE  /\ Len(text) \in Nat /\ Len(text) > 0 /\ start \in {0, 1}
           /\ \A k \in Nat : /\ buf(k) \in Byte
                             /\ k >= Len(text) => buf(k) = 0
                             /\ Digit(k) \in Int
                             /\ is_integer(buf(k)) =>
                                   k < Len(text) /\ Digit(k) >= 0 /\ Digit(k) <= 9
PROOF
<1>1. text \in Seq(Byte) /\ text # << >>
    BY NumberTextsAssumption
<1>2. Len(text) \in Nat /\ Len(text) > 0
    BY <1>1, EmptySeq, LenProperties
<1>3. ASSUME NEW k \in Nat PROVE buf(k) \in Byte /\ (k >= Len(text) => buf(k) = 0)
    <2>1. CASE k < Len(text)
        <3>1. k + 1 \in 1..Len(text)
            BY <1>2, <2>1
        <3>2. text[k + 1] \in Byte
            BY <1>1, <3>1, ElementOfSeq
        <3> QED BY <1>2, <2>1, <3>2 DEF buf
    <2>2. CASE ~(k < Len(text))
        BY <2>2 DEF buf, Byte
    <2> QED BY <2>1, <2>2
<1>4. ASSUME NEW k \in Nat
      PROVE  /\ Digit(k) \in Int
             /\ is_integer(buf(k)) => k < Len(text) /\ Digit(k) >= 0 /\ Digit(k) <= 9
    <2>1. buf(k) \in Byte /\ (k >= Len(text) => buf(k) = 0)
        BY <1>3
    <2> DEFINE c == buf(k)
    <2> HIDE DEF c
    <2>2. c \in Byte /\ (k >= Len(text) => c = 0) /\ Digit(k) = c - 48
        BY <2>1 DEF c, Digit
    <2>3. Digit(k) \in Int /\ (is_integer(c) => k < Len(text) /\ Digit(k) >= 0 /\ Digit(k) <= 9)
        BY <1>2, <2>2 DEF is_integer, Byte
    <2> QED BY <2>3 DEF c
<1>5. start \in {0, 1}
    BY DEF start
<1> QED BY <1>2, <1>3, <1>4, <1>5

\* r is the function Appended is defined by.
Appends(r, n, a, b) ==
    /\ r \in [a..b -> Int]
    /\ r[a] = n
    /\ \A k \in 0..b - a - 1 : r[a + k + 1] = r[a + k] * 10 + Digit(a + k)
    /\ Appended(n, a, b) = r[b]

LEMMA AppendedIs ==
    ASSUME text \in NumberTexts, NEW n \in Int, NEW a \in Nat, NEW b \in Nat, a <= b
    PROVE  \E r : Appends(r, n, a, b)
PROOF
<1> DEFINE G == [k \in a + 1..b |-> [x \in Int |-> x * 10 + Digit(k - 1)]]
           body(r) == [k \in a..b |-> IF k = a THEN n ELSE r[k - 1] * 10 + Digit(k - 1)]
           appended == CHOOSE r : r = body(r)
<1>1. G \in [a + 1..b -> [Int -> Int]]
    <2>1. \A k \in a + 1..b : k - 1 \in Nat /\ Digit(k - 1) \in Int
        BY BufIs
    <2> QED BY <2>1
<1>2. PICK f \in [a..b -> Int] : Solves(f, a, b, n, G)
    <2> HIDE DEF G
    <2> QED BY <1>1, Recursion
<1>3. f = body(f)
    <2>1. ASSUME NEW k \in a..b, k # a PROVE f[k] = f[k - 1] * 10 + Digit(k - 1)
        <3>1. k \in a + 1..b /\ k - 1 \in a..b
            BY <2>1
        <3>2. G[k][f[k - 1]] = f[k - 1] * 10 + Digit(k - 1)
            BY <3>1
        <3> HIDE DEF G
        <3> QED BY <1>2, <3>1, <3>2 DEF Solves
    <2>2. f[a] = n
        BY <1>2 DEF Solves
    <2>3. \A k \in a..b : f[k] = IF k = a THEN n ELSE f[k - 1] * 10 + Digit(k - 1)
        BY <2>1, <2>2
    <2> QED BY <1>2, <2>3
<1>4. appended = body(appended)
    <2> HIDE DEF body
    <2> QED BY <1>3
<1>5. \A k \in a..b : appended[k] = IF k = a THEN n ELSE appended[k - 1] * 10 + Digit(k - 1)
    <2> HIDE DEF appended
    <2> QED BY <1>4
<1>6. Appended(n, a, b) = appended[b]
    BY DEF Appended
<1> HIDE DEF appended
<1>7. a \in a..b /\ b \in a..b /\ b - a \in Nat /\ b - a \in 0..b - a /\ a + (b - a) = b
    OBVIOUS
<1>8. ASSUME NEW k \in 0..b - a - 1
      PROVE  /\ f[a + k + 1] = f[a + k] * 10 + Digit(a + k)
             /\ appended[a + k + 1] = appended[a + k] * 10 + Digit(a + k)
    <2>1. a + k + 1 \in a..b /\ a + k + 1 # a /\ (a + k + 1) - 1 = a + k
        OBVIOUS
    <2> QED BY <1>3, <1>5, <2>1
<1>9. f[a] = n /\ appended[a] = n
    BY <1>3, <1>5, <1>7
<1>10. f[b] = appended[b]
    <2> DEFINE T == {k \in 0..b - a : f[a + k] = appended[a + k]}
    <2>1. ASSUME NEW k \in 0..b - a - 1, k \in T PROVE k + 1 \in T
        <3>1. k + 1 \in 0..b - a /\ a + (k + 1) = a + k + 1
            OBVIOUS
        <3>2. f[a + k] = appended[a + k]
            BY <2>1
        <3> QED BY <1>8, <3>1, <3>2
    <2>2. 0 \in T
        BY <1>7, <1>9
    <2> HIDE DEF T
    <2>3. 0..b - a \subseteq T
        BY <1>7, <2>1, <2>2, Induction
    <2> QED BY <1>7, <2>3 DEF T
<1> QED BY <1>2, <1>6, <1>8, <1>9, <1>10 DEF Appends

LEMMA AppendedNext ==
    ASSUME text \in NumberTexts, NEW n \in Int, NEW a \in Nat, NEW b \in Nat, a <= b
    PROVE  /\ Appended(n, a, a) = n
           /\ Appended(n, a, b) \in Int
           /\ Appended(n, a, b + 1) = Appended(n, a, b) * 10 + Digit(b)
PROOF
<1>1. PICK q : Appends(q, n, a, b)
    BY AppendedIs
<1>0. PICK c \in Nat : c = b + 1
    OBVIOUS
<1>2. PICK r : Appends(r, n, a, c)
    <2>1. a <= c
        BY <1>0
    <2> QED BY <2>1, AppendedIs
<1>3. PICK p : Appends(p, n, a, a)
    <2>1. a <= a
        OBVIOUS
    <2> QED BY <2>1, AppendedIs
<1> DEFINE T == {k \in 0..b - a : q[a + k] = r[a + k]}
<1>4. ASSUME NEW k \in 0..b - a - 1, k \in T PROVE k + 1 \in T
    <2>1. q[a + k + 1] = q[a + k] * 10 + Digit(a + k)
        BY <1>1 DEF Appends
    <2>2. r[a + k + 1] = r[a + k] * 10 + Digit(a + k)
        <3>1. k \in 0..c - a - 1
            BY <1>0
        <3> QED BY <1>2, <3>1 DEF Appends
    <2>3. q[a + k] = r[a + k]
        BY <1>4
    <2>4. a + (k + 1) = a + k + 1
        OBVIOUS
    <2> QED BY <2>1, <2>2, <2>3, <2>4
<1>5. 0 \in T
    BY <1>1, <1>2 DEF Appends
<1> HIDE DEF T
<1>6. b - a \in Nat /\ b - a \in 0..b - a /\ a + (b - a) = b /\ b - a \in 0..c - a - 1
      /\ b \in a..b
    BY <1>0
<1>7. 0..b - a \subseteq T
    BY <1>4, <1>5, <1>6, Induction
<1>8. q[b] = r[b]
    BY <1>6, <1>7 DEF T
<1>9. r[c] = r[b] * 10 + Digit(b)
    BY <1>0, <1>2, <1>6 DEF Appends
<1>10. Appended(n, a, b) = q[b] /\ q[b] \in Int /\ Appended(n, a, c) = r[c] /\ Appended(n, a, a) = n
    BY <1>1, <1>2, <1>3, <1>6 DEF Appends
<1> QED BY <1>0, <1>8, <1>9, <1>10

\* Whether the positions a, ..., b - 1 hold digits.
DigitsAt(a, b) == \A k \in Nat : a <= k /\ k < b => is_integer(buf(k))

\* Digits only make a natural number larger, and tenfold at most.
LEMMA AppendedGrows ==
    ASSUME text \in NumberTexts, NEW n \in Nat, NEW a \in Nat, NEW b \in Nat, NEW c \in Nat,
           a <= b, b <= c, DigitsAt(a, c)
    PROVE  Appended(n, a, b) \in Nat /\ Appended(n, a, c) \in Nat /\ Appended(n, a, b) <= Appended(n, a, c)
PROOF
<1> DEFINE P(k) == /\ Appended(n, a, a + k) >= 0
                   /\ b <= a + k => Appended(n, a, b) <= Appended(n, a, a + k)
           T == {k \in 0..c - a : P(k)}
<1>1. \A k \in Nat : Appended(n, a, a + k) \in Int
    BY AppendedNext
<1>2. Appended(n, a, b) \in Int
    BY AppendedNext
<1>3. ASSUME NEW k \in 0..c - a - 1, k \in T PROVE k + 1 \in T
    <2>1. PICK p \in Nat : p = a + k
        OBVIOUS
    <2>0. a <= p /\ p < c /\ n \in Int
        BY <2>1
    <2> DEFINE x == Appended(n, a, p)
               y == Appended(n, a, p + 1)
               z == Appended(n, a, b)
               e == Digit(p)
    <2>2. y = x * 10 + e /\ x \in Int
        BY <2>0, AppendedNext
    <2>3. is_integer(buf(p))
        BY <2>0 DEF DigitsAt
    <2>4. e \in Int /\ e >= 0
        BY <2>3, BufIs
    <2>5. x \in Int /\ z \in Int
        BY <1>2, <2>2
    <2>6. x >= 0 /\ (b <= p => z <= x)
        BY <1>3, <2>1
    <2>7. y >= 0 /\ (b <= p => z <= y)
        <3> HIDE DEF x, y, z, e
        <3> QED BY <2>2, <2>4, <2>5, <2>6
    <2>8. b = p + 1 => z = y
        OBVIOUS
    <2>9. P(k + 1)
        <3>1. b <= p + 1 <=> b <= p \/ b = p + 1
            OBVIOUS
        <3>2. y \in Int
            BY <2>2, <2>4
        <3>3. b = p + 1 => z <= y
            <4> HIDE DEF z, y
            <4> QED BY <2>5, <2>8, <3>2
        <3> QED BY <2>1, <2>7, <3>1, <3>3
    <2>10. k + 1 \in 0..c - a
        OBVIOUS
    <2> QED BY <2>9, <2>10
<1>4. 0 \in T
    <2>1. Appended(n, a, a) = n /\ a + 0 = a
        BY AppendedNext
    <2>2. b <= a => b = a
        OBVIOUS
    <2>3. P(0)
        BY <2>1, <2>2
    <2>4. 0 \in 0..c - a
        OBVIOUS
    <2> QED BY <2>3, <2>4
<1> HIDE DEF T
<1>5. c - a \in Nat /\ c - a \in 0..c - a /\ a + (c - a) = c /\ b - a \in 0..c - a /\ a + (b - a) = b
    OBVIOUS
<1>6. 0..c - a \subseteq T
    BY <1>3, <1>4, <1>5, Induction
<1>7. P(c - a) /\ P(b - a)
    BY <1>5, <1>6 DEF T
<1>8. Appended(n, a, b) >= 0 /\ Appended(n, a, c) >= 0 /\ Appended(n, a, b) <= Appended(n, a, c)
    BY <1>5, <1>7
<1>9. Appended(n, a, c) \in Int
    <2>1. a <= c
        OBVIOUS
    <2> QED BY <2>1, AppendedNext
<1> QED BY <1>2, <1>8, <1>9

LEMMA AppendedBound ==
    ASSUME text \in NumberTexts, NEW n \in Nat, NEW m \in Nat, n < Raised(10, m),
           NEW a \in Nat, NEW b \in Nat, a <= b, DigitsAt(a, b)
    PROVE  Appended(n, a, b) < Raised(10, m + (b - a))
PROOF
<1> DEFINE P(k) == Appended(n, a, a + k) < Raised(10, m + k)
           T == {k \in 0..b - a : P(k)}
<1>1. ASSUME NEW k \in 0..b - a - 1, k \in T PROVE k + 1 \in T
    <2>9. PICK p \in Nat : p = a + k
        OBVIOUS
    <2>0. a <= p /\ p < b /\ n \in Int
        BY <2>9
    <2> DEFINE x == Appended(n, a, p)
               y == Appended(n, a, p + 1)
               r == Raised(10, m + k)
               s == Raised(10, m + (k + 1))
               e == Digit(p)
    <2>1. /\ m + k \in Nat /\ m + (k + 1) = (m + k) + 1
        OBVIOUS
    <2>2. y = x * 10 + e /\ x \in Int
        BY <2>0, AppendedNext
    <2>3. s = r * 10 /\ r \in Nat
        BY <2>1, RaisedNext
    <2>4. is_integer(buf(p))
        BY <2>0 DEF DigitsAt
    <2>5. e \in Int /\ e <= 9
        BY <2>4, BufIs
    <2>6. x < r
        BY <1>1, <2>9
    <2>7. y < s
        <3> HIDE DEF x, y, r, s, e
        <3> QED BY <2>2, <2>3, <2>5, <2>6
    <2>8. k + 1 \in 0..b - a
        OBVIOUS
    <2> QED BY <2>7, <2>8, <2>9
<1>2. 0 \in T
    <2>1. Appended(n, a, a) = n /\ a + 0 = a /\ m + 0 = m
        BY AppendedNext
    <2>2. P(0)
        BY <2>1
    <2> QED BY <2>2
<1> HIDE DEF T
<1>3. b - a \in Nat /\ b - a \in 0..b - a /\ a + (b - a) = b
    OBVIOUS
<1>4. 0..b - a \subseteq T
    BY <1>1, <1>2, <1>3, Induction
<1>5. P(b - a)
    BY <1>3, <1>4 DEF T
<1> QED BY <1>3, <1>5

\* Ten times a word that wrapped, and a digit.
LEMMA TenTimes ==
    ASSUME NEW w \in Nat \ {0}, NEW x \in Int, NEW k \in Int
    PROVE  ((x % w) * 10 + k) % w = (x * 10 + k) % w
PROOF
<1> DEFINE a == x % w
           q == x \div w
           b == (a * 10 + k) % w
           c == (x * 10 + k) % w
           g == (a * 10 + k) \div w
           h == (x * 10 + k) \div w
<1>1. a \in 0..w - 1 /\ x = w * q + a /\ q \in Int
    OBVIOUS
<1> HIDE DEF a, q
<1>2. b \in 0..w - 1 /\ a * 10 + k = w * g + b /\ g \in Int
    BY <1>1
<1>3. c \in 0..w - 1 /\ x * 10 + k = w * h + c /\ h \in Int
    OBVIOUS
<1> HIDE DEF b, c, g, h
<1>4. w * (10 * q + g) = 10 * (w * q) + w * g
    BY <1>1, <1>2
<1>5. w * q \in Int /\ w * g \in Int /\ w * h \in Int
    BY <1>1, <1>2, <1>3
<1>6. w * (10 * q + g) + b = w * h + c
    <2> DEFINE u == w * q
               v == w * g
               z == w * h
               y == w * (10 * q + g)
    <2>1. y = 10 * u + v /\ x = u + a /\ a * 10 + k = v + b /\ x * 10 + k = z + c
        BY <1>1, <1>2, <1>3, <1>4
    <2>2. u \in Int /\ v \in Int /\ z \in Int /\ a \in Int /\ b \in Int /\ c \in Int
        BY <1>1, <1>2, <1>3, <1>5
    <2> HIDE DEF u, v, z, y
    <2>3. y + b = z + c
        BY <2>1, <2>2
    <2> QED BY <2>3 DEF y, z
<1>7. 10 * q + g \in Int
    BY <1>1, <1>2
<1>8. b = c
    BY <1>2, <1>3, <1>6, <1>7, Quotient
<1> QED BY <1>8 DEF a, b, c

LEMMA AppendedMod ==
    ASSUME text \in NumberTexts, NEW w \in Nat \ {0}, NEW n \in Int, NEW m \in Int, n % w = m % w,
           NEW a \in Nat, NEW b \in Nat, a <= b
    PROVE  Appended(n, a, b) % w = Appended(m, a, b) % w
PROOF
<1> DEFINE P(k) == Appended(n, a, a + k) % w = Appended(m, a, a + k) % w
           T == {k \in 0..b - a : P(k)}
<1>1. ASSUME NEW k \in 0..b - a - 1, k \in T PROVE k + 1 \in T
    <2>1. PICK p \in Nat : p = a + k
        OBVIOUS
    <2>0. a <= p
        BY <2>1
    <2> DEFINE x == Appended(n, a, p)
               y == Appended(m, a, p)
               e == Digit(p)
    <2>2. Appended(n, a, p + 1) = x * 10 + e /\ x \in Int
        BY <2>0, AppendedNext
    <2>3. Appended(m, a, p + 1) = y * 10 + e /\ y \in Int
        BY <2>0, AppendedNext
    <2>4. e \in Int
        BY BufIs
    <2>5. x % w = y % w
        BY <1>1, <2>1
    <2>6. (x * 10 + e) % w = (y * 10 + e) % w
        <3> HIDE DEF x, y, e
        <3>1. (x * 10 + e) % w = ((x % w) * 10 + e) % w
            BY <2>2, <2>4, TenTimes
        <3>2. (y * 10 + e) % w = ((y % w) * 10 + e) % w
            BY <2>3, <2>4, TenTimes
        <3> QED BY <2>5, <3>1, <3>2
    <2>7. k + 1 \in 0..b - a
        OBVIOUS
    <2> QED BY <2>1, <2>2, <2>3, <2>6, <2>7
<1>2. 0 \in T
    <2>1. Appended(n, a, a) = n /\ a + 0 = a
        BY AppendedNext
    <2>2. Appended(m, a, a) = m
        BY AppendedNext
    <2>3. P(0)
        BY <2>1, <2>2
    <2> QED BY <2>3
<1> HIDE DEF T
<1>3. b - a \in Nat /\ b - a \in 0..b - a /\ a + (b - a) = b
    OBVIOUS
<1>4. 0..b - a \subseteq T
    BY <1>1, <1>2, <1>3, Induction
<1>5. P(b - a)
    BY <1>3, <1>4 DEF T
<1> QED BY <1>3, <1>5

---------------------------------------------------------------------------
(* The parts of a number.                                                  *)

LEMMA RunEndIs ==
    ASSUME text \in NumberTexts, NEW k \in Nat, k <= Len(text)
    PROVE  /\ RunEnd(k) \in Nat /\ k <= RunEnd(k) /\ RunEnd(k) <= Len(text)
           /\ ~is_integer(buf(RunEnd(k)))
           /\ DigitsAt(k, RunEnd(k))
PROOF
<1> DEFINE S == {e \in k..Len(text) : ~is_integer(buf(e))}
           P(e) == ~is_integer(buf(e)) /\ \A j \in k..e - 1 : is_integer(buf(j))
<1>1. Len(text) \in Nat /\ buf(Len(text)) = 0
    BY BufIs
<1>2. Len(text) \in S
    BY <1>1 DEF is_integer
<1>3. S \subseteq Nat
    BY <1>1
<1>4. PICK m \in S : \A e \in S : m <= e
    <2> HIDE DEF S
    <2> QED BY <1>2, <1>3, LeastNatural
<1>5. m \in k..Len(text) /\ P(m)
    <2>1. m \in k..Len(text) /\ ~is_integer(buf(m))
        BY <1>4
    <2>2. ASSUME NEW j \in k..m - 1 PROVE is_integer(buf(j))
        <3>1. j \in k..Len(text) /\ ~(m <= j)
            BY <1>1, <2>1
        <3> QED BY <1>4, <3>1
    <2> QED BY <2>1, <2>2
<1>6. RunEnd(k) \in k..Len(text) /\ P(RunEnd(k))
    <2>1. RunEnd(k) = CHOOSE e \in k..Len(text) : P(e)
        BY DEF RunEnd
    <2> HIDE DEF P
    <2> QED BY <1>5, <2>1
<1> DEFINE r == RunEnd(k)
<1> HIDE DEF r
<1>7. r \in Nat /\ k <= r /\ r <= Len(text)
    BY <1>1, <1>6 DEF r
<1>8. ASSUME NEW j \in Nat, k <= j /\ j < r PROVE is_integer(buf(j))
    <2>1. j \in k..r - 1
        BY <1>7, <1>8
    <2> QED BY <1>6, <2>1 DEF r
<1>9. DigitsAt(k, r)
    BY <1>8 DEF DigitsAt
<1> QED BY <1>6, <1>7, <1>9 DEF r

LEMMA RunEndSame ==
    ASSUME text \in NumberTexts, NEW k \in Nat, k <= Len(text),
           NEW e \in Nat, k <= e, ~is_integer(buf(e)), DigitsAt(k, e)
    PROVE  RunEnd(k) = e
PROOF
<1>1. PICK r \in Nat : r = RunEnd(k)
    BY RunEndIs
<1>2. k <= r /\ ~is_integer(buf(r)) /\ DigitsAt(k, r)
    BY <1>1, RunEndIs
<1>3. ~(r < e)
    BY <1>2 DEF DigitsAt
<1>4. ~(e < r)
    BY <1>2 DEF DigitsAt
<1> QED BY <1>1, <1>3, <1>4

LEMMA IntegerPart ==
    ASSUME text \in NumberTexts
    PROVE  /\ start \in Nat /\ start <= Len(text)
           /\ IntegerEnd \in Nat /\ start <= IntegerEnd /\ IntegerEnd <= Len(text)
           /\ ~is_integer(buf(IntegerEnd)) /\ DigitsAt(start, IntegerEnd)
           /\ Integer \in Nat
           /\ Integer < Raised(10, IntegerEnd - start)
PROOF
<1>1. start \in Nat /\ start <= Len(text)
    BY BufIs
<1>2. PICK s \in Nat : s = start
    BY <1>1
<1>3. /\ IntegerEnd \in Nat /\ start <= IntegerEnd /\ IntegerEnd <= Len(text)
      /\ ~is_integer(buf(IntegerEnd)) /\ DigitsAt(start, IntegerEnd)
    BY <1>1, <1>2, RunEndIs DEF IntegerEnd
<1>4. PICK e \in Nat : e = IntegerEnd
    BY <1>3
<1>5. s <= e /\ DigitsAt(s, e)
    BY <1>2, <1>3, <1>4
<1>6. s <= s /\ e <= e
    OBVIOUS
<1>7. Appended(0, s, e) \in Nat
    <2>1. 0 \in Nat
        OBVIOUS
    <2> QED BY <1>5, <1>6, <2>1, AppendedGrows
<1>8. Appended(0, s, e) < Raised(10, e - s)
    <2>1. 0 \in Nat /\ 0 < Raised(10, 0)
        BY RaisedNext
    <2>2. Appended(0, s, e) < Raised(10, 0 + (e - s))
        BY <1>5, <2>1, AppendedBound
    <2>3. 0 + (e - s) = e - s
        OBVIOUS
    <2> QED BY <2>2, <2>3
<1> QED BY <1>1, <1>2, <1>3, <1>4, <1>7, <1>8 DEF Integer

Points == IF HasFraction THEN 1 ELSE 0

LEMMA FractionPart ==
    ASSUME text \in NumberTexts
    PROVE  /\ HasFraction <=> buf(IntegerEnd) = Point
           /\ FractionEnd \in Nat /\ IntegerEnd <= FractionEnd /\ FractionEnd <= Len(text)
           /\ ~is_integer(buf(FractionEnd))
           /\ HasFraction => IntegerEnd + 1 <= FractionEnd /\ DigitsAt(IntegerEnd + 1, FractionEnd)
           /\ ~HasFraction => FractionEnd = IntegerEnd
           /\ Digits \in Nat
           /\ FractionEnd - start - Points \in Nat
           /\ Digits < Raised(10, FractionEnd - start - Points)
PROOF
<1>1. PICK s \in Nat, e \in Nat : s = start /\ e = IntegerEnd
    BY IntegerPart
<1>2. s <= e /\ e <= Len(text) /\ ~is_integer(buf(e)) /\ Len(text) \in Nat
    BY <1>1, IntegerPart, BufIs
<1>3. PICK n \in Nat : n = Integer
    BY IntegerPart
<1>4. n < Raised(10, e - s) /\ e - s \in Nat
    BY <1>1, <1>2, <1>3, IntegerPart
<1>5. CASE buf(e) = Point
    <2>1. e < Len(text)
        <3>1. buf(e) # 0
            BY <1>5 DEF Point
        <3> QED BY <1>2, <3>1, BufIs
    <2>2. PICK p \in Nat : p = e + 1
        OBVIOUS
    <2>3. p <= Len(text)
        BY <1>2, <2>1, <2>2
    <2>4. FractionEnd = RunEnd(p)
        BY <1>1, <1>5, <2>2 DEF FractionEnd
    <2>5. PICK f \in Nat : f = FractionEnd
        BY <2>3, <2>4, RunEndIs
    <2>6. p <= f /\ f <= Len(text) /\ ~is_integer(buf(f)) /\ DigitsAt(p, f)
        BY <2>3, <2>4, <2>5, RunEndIs
    <2>7. HasFraction
        BY <1>1, <2>2, <2>5, <2>6 DEF HasFraction
    <2>8. Digits = Appended(n, p, f)
        BY <1>1, <1>3, <2>2, <2>5, <2>7 DEF Digits
    <2>9. Appended(n, p, f) \in Nat
        <3>1. p <= p
            OBVIOUS
        <3> QED BY <2>6, <3>1, AppendedGrows
    <2>10. Appended(n, p, f) < Raised(10, (e - s) + (f - p))
        BY <1>4, <2>6, AppendedBound
    <2>11. (e - s) + (f - p) = f - s - 1 /\ f - s - 1 \in Nat
        BY <1>2, <2>2, <2>6
    <2>12. Points = 1
        BY <2>7 DEF Points
    <2>13. Digits < Raised(10, FractionEnd - start - Points)
        BY <1>1, <2>5, <2>8, <2>10, <2>11, <2>12
    <2>14. e <= f /\ e + 1 <= f
        BY <2>2, <2>6
    <2> QED BY <1>1, <1>5, <2>2, <2>5, <2>6, <2>7, <2>8, <2>9, <2>11, <2>12, <2>13, <2>14
<1>6. CASE buf(e) # Point
    <2>1. FractionEnd = e
        BY <1>1, <1>6 DEF FractionEnd
    <2>2. ~HasFraction
        BY <1>1, <2>1 DEF HasFraction
    <2>3. Digits = n /\ Points = 0
        BY <1>3, <2>2 DEF Digits, Points
    <2>4. e - s - 0 = e - s
        BY <1>2
    <2>5. e <= e
        OBVIOUS
    <2> QED BY <1>1, <1>2, <1>4, <1>6, <2>1, <2>2, <2>3, <2>4, <2>5
<1> QED BY <1>5, <1>6

LEMMA ExponentPart ==
    ASSUME text \in NumberTexts
    PROVE  /\ ExponentFrom \in Nat /\ NumberEnd \in Nat /\ FractionEnd <= ExponentFrom
           /\ ExponentFrom <= NumberEnd /\ NumberEnd <= Len(text)
           /\ ~is_integer(buf(NumberEnd))
           /\ ~HasExponent => NumberEnd = FractionEnd /\ Power = 0
           /\ HasExponent => FractionEnd + 1 <= ExponentFrom
           /\ Power \in Int
           /\ \A most \in Nat : HasExponent =>
                 /\ ExponentAt(FractionEnd, most).ok = (NumberEnd - ExponentFrom \in 1..most)
                 /\ ExponentAt(FractionEnd, most).end = NumberEnd
                 /\ ExponentAt(FractionEnd, most).value = Power
PROOF
<1>1. PICK f \in Nat : f = FractionEnd
    BY FractionPart
<1>2. f <= Len(text) /\ ~is_integer(buf(f)) /\ Len(text) \in Nat
    BY <1>1, FractionPart, BufIs
<1>3. CASE ~HasExponent
    <2>1. ExponentFrom = f /\ Power = 0
        BY <1>1, <1>3 DEF ExponentFrom, Power
    <2>2. DigitsAt(f, f) /\ f <= f
        BY DEF DigitsAt
    <2>3. NumberEnd = f
        BY <1>2, <2>1, <2>2, RunEndSame DEF NumberEnd
    <2> QED BY <1>1, <1>2, <1>3, <2>1, <2>2, <2>3
<1>4. CASE HasExponent
    <2>1. PICK x \in Nat : x = ExponentFrom
        BY <1>1, <1>4 DEF ExponentFrom
    <2>2. f < Len(text)
        <3>1. buf(f) # 0
            BY <1>1, <1>4 DEF HasExponent, E
        <3> QED BY <1>2, <3>1, BufIs
    <2>3. f + 1 \in Nat /\ (buf(f + 1) \in {Plus, Minus} => f + 1 < Len(text))
        <3>1. f + 1 \in Nat
            OBVIOUS
        <3>2. buf(f + 1) \in {Plus, Minus} => buf(f + 1) # 0
            BY DEF Plus, Minus
        <3> QED BY <1>2, <3>1, <3>2, BufIs
    <2>4. x = IF buf(f + 1) \in {Plus, Minus} THEN f + 2 ELSE f + 1
        BY <1>1, <1>4, <2>1 DEF ExponentFrom
    <2>5. x <= Len(text) /\ f + 1 <= x
        BY <1>2, <2>2, <2>3, <2>4
    <2>6. PICK n \in Nat : n = NumberEnd
        BY <2>1, <2>5, RunEndIs DEF NumberEnd
    <2>7. n = RunEnd(x)
        BY <2>1, <2>6 DEF NumberEnd
    <2>8. x <= n /\ n <= Len(text) /\ ~is_integer(buf(n)) /\ DigitsAt(x, n)
        BY <2>5, <2>7, RunEndIs
    <2>9. PICK v \in Int : v = Appended(0, x, n)
        <3>1. 0 \in Int
            OBVIOUS
        <3> QED BY <2>8, <3>1, AppendedNext
    <2>10. Power = IF buf(f + 1) = Minus THEN -v ELSE v
        BY <1>1, <1>4, <2>1, <2>6, <2>9 DEF Power
    <2>11. Power \in Int
        BY <2>10
    <2>12. ASSUME NEW most \in Nat
           PROVE  /\ ExponentAt(f, most).ok = (n - x \in 1..most)
                  /\ ExponentAt(f, most).end = n
                  /\ ExponentAt(f, most).value = Power
        <3> DEFINE sign == IF buf(f + 1) \in {Minus, Plus} THEN 1 ELSE 0
        <3>1. f + 1 + sign = x
            BY <2>4
        <3> HIDE DEF sign
        <3>2. ExponentAt(f, most) = [ok |-> RunEnd(f + 1 + sign) - (f + 1 + sign) \in 1..most,
                                     end |-> RunEnd(f + 1 + sign),
                                     value |-> IF buf(f + 1) = Minus
                                               THEN -Appended(0, f + 1 + sign, RunEnd(f + 1 + sign))
                                               ELSE Appended(0, f + 1 + sign, RunEnd(f + 1 + sign))]
            BY Zenon DEF ExponentAt, sign
        <3>3. ExponentAt(f, most) = [ok |-> n - x \in 1..most, end |-> n,
                                     value |-> IF buf(f + 1) = Minus THEN -v ELSE v]
            BY <2>7, <2>9, <3>1, <3>2
        <3> QED BY <2>10, <3>3
    <2>13. f <= x
        BY <2>5
    <2> QED BY <1>1, <1>4, <2>1, <2>5, <2>6, <2>8, <2>11, <2>12, <2>13
<1> QED BY <1>3, <1>4

LEMMA Frozen ==
    ASSUME text' = text
    PROVE  /\ start' = start /\ negative' = negative
           /\ \A k : buf(k)' = buf(k)
           /\ \A n, a, b : Appended(n, a, b)' = Appended(n, a, b)
           /\ IntegerEnd' = IntegerEnd /\ FractionEnd' = FractionEnd
           /\ ExponentFrom' = ExponentFrom /\ NumberEnd' = NumberEnd
           /\ HasFraction' = HasFraction /\ HasExponent' = HasExponent
           /\ Integer' = Integer /\ Digits' = Digits /\ Power' = Power /\ Scale' = Scale
           /\ Value' = Value
PROOF
<1>1. /\ start' = start /\ negative' = negative
      /\ \A k : buf(k)' = buf(k)
    BY DEF start, negative, buf
<1>3. \A k : RunEnd(k)' = RunEnd(k)
    BY DEF RunEnd, buf, is_integer
<1>4. \A n, a, b : Appended(n, a, b)' = Appended(n, a, b)
    BY DEF Appended, Digit, buf
<1>5. IntegerEnd' = IntegerEnd
    BY <1>1, <1>3 DEF IntegerEnd
<1>6. FractionEnd' = FractionEnd
    <2>1. \A k : RunEnd(k + 1)' = RunEnd(k + 1)
        BY <1>3
    <2> QED BY <1>1, <1>3, <1>5 DEF FractionEnd
<1>7. HasFraction' = HasFraction /\ HasExponent' = HasExponent
    BY <1>1, <1>5, <1>6 DEF HasFraction, HasExponent
<1>8. ExponentFrom' = ExponentFrom
    BY <1>1, <1>6, <1>7 DEF ExponentFrom
<1>9. NumberEnd' = NumberEnd
    BY <1>3, <1>8 DEF NumberEnd
<1>10. Integer' = Integer
    BY <1>1, <1>4, <1>5 DEF Integer
<1>11. Digits' = Digits
    BY <1>4, <1>5, <1>6, <1>7, <1>10 DEF Digits
<1>12. Power' = Power
    BY <1>1, <1>4, <1>6, <1>7, <1>8, <1>9 DEF Power
<1>13. Scale' = Scale
    BY <1>5, <1>6, <1>7, <1>12 DEF Scale
<1>14. Value' = Value
    BY <1>1, <1>11 DEF Value
<1> QED BY <1>1, <1>4, <1>5, <1>6, <1>7, <1>8, <1>9, <1>10, <1>11, <1>12, <1>13, <1>14

---------------------------------------------------------------------------
(* The inductive invariant.                                                *)

Shape ==
    /\ text \in NumberTexts
    /\ pc \in {"Start", "Integer", "Fraction", "Value", "Large", "Done"}
    /\ byte_count \in Nat /\ ignore_count \in Nat
    /\ i \in Nat /\ i < Word
    /\ firstafterperiod \in Nat
    /\ exponent \in Int /\ expnumber \in Int

\* The integer part is one: a digit, and no other behind a zero.
Begun == start < IntegerEnd /\ (buf(start) = Zero => IntegerEnd = start + 1)

\* What is left of the parts, once the exponent is read.
PartsRead ==
    /\ Begun
    /\ HasFraction => IntegerEnd + 1 < FractionEnd
    /\ HasExponent => NumberEnd - ExponentFrom \in 1..3

AtStart == pc = "Start" => byte_count = start /\ ignore_count = 0

NoPower == pc \in {"Start", "Integer", "Fraction"} => expnumber = 0

InInteger ==
    pc = "Integer" =>
        /\ Begun /\ ignore_count = 0
        /\ start + 1 <= byte_count /\ byte_count <= IntegerEnd
        /\ i = Appended(0, start, byte_count) % Word

InFraction ==
    pc = "Fraction" =>
        /\ Begun /\ ignore_count = 1 /\ HasFraction
        /\ firstafterperiod = IntegerEnd + 1
        /\ IntegerEnd + 2 <= byte_count /\ byte_count <= FractionEnd
        /\ i = Appended(Integer, IntegerEnd + 1, byte_count) % Word

AtValue ==
    pc = "Value" =>
        /\ PartsRead
        /\ byte_count = NumberEnd
        /\ ignore_count = Points + (NumberEnd - FractionEnd)
        /\ i = Digits % Word
        /\ exponent = Scale /\ expnumber = Power

\* The second reading of an integer is exact.
InLarge ==
    pc = "Large" =>
        /\ PartsRead /\ ~HasFraction /\ Power = 0 /\ NumberEnd >= SignedDigits
        /\ start + 1 <= byte_count /\ byte_count <= IntegerEnd
        /\ i = Appended(0, start, byte_count)

\* What the properties say of a result.
Right(r) ==
    r.kind \in {"I64", "F64"} =>
        /\ IsNumber
        /\ r.value = Value
        /\ r.kind = "I64" => ~HasFraction /\ Power = 0
        /\ r.kind = "F64" /\ Digits # 0 => r.exponent = Scale

Known(r) ==
    r.kind \notin {"I64", "F64"} /\ IsNumber =>
        IF HasFraction \/ HasExponent
        THEN \/ NumberEnd - ExponentFrom > 3
             \/ Power \notin -MaxExponent..MaxExponent
             \/ Scale \notin -MaxExponent..MaxExponent
             \/ ~HasFraction /\ Power = 0 /\ NumberEnd >= SignedDigits
             \/ IntegerEnd - start > SignedDigits + 1
        ELSE \/ Value \notin -Half..Half - 1
             \/ overflow_checks /\ Value = -Half

Answered == pc = "Done" => Right(result) /\ Known(result)

NumberInv == Shape /\ AtStart /\ NoPower /\ InInteger /\ InFraction /\ AtValue /\ InLarge /\ Answered

---------------------------------------------------------------------------
(* Each step keeps it.                                                     *)

\* What a result is checked against is the same after the step.
LEMMA FrozenResult ==
    ASSUME text' = text, overflow_checks' = overflow_checks,
           NEW r, Right(r), Known(r), result' = r
    PROVE  (Right(result) /\ Known(result))'
PROOF
<1>1. IsNumber' = IsNumber
    BY Frozen DEF IsNumber
<1>2. Right(result)'
    BY <1>1, Frozen DEF Right
<1>3. Known(result)'
    BY <1>1, Frozen DEF Known, Half, Word
<1> QED BY <1>2, <1>3

LEMMA DoneStep ==
    ASSUME NumberInv, text' = text, overflow_checks' = overflow_checks,
           NEW r, Done(r), Right(r), Known(r),
           byte_count' \in Nat, ignore_count' \in Nat, i' \in Nat, i' < Word,
           firstafterperiod' \in Nat, exponent' \in Int, expnumber' \in Int
    PROVE  NumberInv'
PROOF
<1>1. pc' = "Done" /\ result' = r
    BY DEF Done
<1>2. Answered'
    BY <1>1, FrozenResult DEF Answered
<1>3. Word' = Word
    BY DEF Word
<1>4. Shape'
    BY <1>1, <1>3 DEF Shape, NumberInv
<1>5. (AtStart /\ NoPower /\ InInteger /\ InFraction /\ AtValue /\ InLarge)'
    BY <1>1 DEF AtStart, NoPower, InInteger, InFraction, AtValue, InLarge
<1> QED BY <1>2, <1>4, <1>5 DEF NumberInv

\* An error is never taken for a result, and right where there is no number.
LEMMA NoNumber ==
    ASSUME ~IsNumber, NEW e, e \notin {"I64", "F64"}
    PROVE  Right(Error(e)) /\ Known(Error(e))
PROOF BY DEF Right, Known, Error

LEMMA Begins ==
    ASSUME text \in NumberTexts, is_integer(buf(start)),
           buf(start) = Zero => ~is_integer(buf(start + 1))
    PROVE  Begun /\ start + 1 <= IntegerEnd
PROOF
<1>1. PICK s \in Nat : s = start
    BY IntegerPart
<1>2. s < IntegerEnd /\ IntegerEnd \in Nat
    BY <1>1, IntegerPart
<1>3. buf(s) = Zero => IntegerEnd = s + 1
    <2> SUFFICES ASSUME buf(s) = Zero PROVE IntegerEnd = s + 1
        OBVIOUS
    <2>1. s + 1 \in Nat /\ s <= s + 1 /\ ~is_integer(buf(s + 1))
        BY <1>1
    <2>2. DigitsAt(s, s + 1)
        <3> SUFFICES ASSUME NEW k \in Nat, s <= k, k < s + 1 PROVE is_integer(buf(k))
            BY DEF DigitsAt
        <3>1. k = s
            OBVIOUS
        <3> QED BY <1>1, <3>1
    <2>3. s <= Len(text)
        BY <1>1, IntegerPart
    <2> QED BY <1>1, <2>1, <2>2, <2>3, RunEndSame DEF IntegerEnd
<1> QED BY <1>1, <1>2, <1>3 DEF Begun

LEMMA FirstRefuses ==
    ASSUME text \in NumberTexts,
           \/ ~is_integer(buf(start))
           \/ buf(start) = Zero /\ buf(start + 1) \notin StructuralOrWhitespace \union ExponentOrDecimal
    PROVE  ~IsNumber
PROOF
<1>1. PICK s \in Nat : s = start
    BY IntegerPart
<1>2. PICK e \in Nat : e = IntegerEnd
    BY IntegerPart
<1>3. s <= e /\ DigitsAt(s, e) /\ ~is_integer(buf(e))
    BY <1>1, <1>2, IntegerPart
<1> SUFFICES ASSUME IsNumber PROVE FALSE
    OBVIOUS
<1>4. s < e
    BY <1>1, <1>2 DEF IsNumber
<1>5. is_integer(buf(s))
    BY <1>3, <1>4 DEF DigitsAt
<1>6. buf(s) = Zero /\ buf(s + 1) \notin StructuralOrWhitespace \union ExponentOrDecimal
    BY <1>1, <1>5
<1>7. e = s + 1
    BY <1>1, <1>2, <1>6 DEF IsNumber
<1>8. ~HasFraction /\ FractionEnd = e
    <2>1. buf(e) # Point
        BY <1>6, <1>7 DEF ExponentOrDecimal
    <2> QED BY <1>2, <2>1, FractionPart
<1>9. ~HasExponent
    BY <1>6, <1>7, <1>8 DEF HasExponent, ExponentOrDecimal
<1>10. NumberEnd = e
    BY <1>8, <1>9, ExponentPart
<1> QED BY <1>6, <1>7, <1>10 DEF IsNumber

\* The place a machine word of one digit begins with.
LEMMA OneDigit ==
    ASSUME text \in NumberTexts, is_integer(buf(start))
    PROVE  /\ Appended(0, start, start + 1) = Digit(start)
           /\ Digit(start) \in Nat /\ Digit(start) < Word
           /\ Digit(start) % Word = Digit(start)
PROOF
<1>1. PICK s \in Nat : s = start
    BY IntegerPart
<1>2. Digit(s) \in Int /\ Digit(s) >= 0 /\ Digit(s) <= 9
    BY <1>1, BufIs
<1>3. Appended(0, s, s) = 0 /\ Appended(0, s, s + 1) = Appended(0, s, s) * 10 + Digit(s)
    <2>1. s <= s /\ 0 \in Int
        OBVIOUS
    <2> QED BY <2>1, AppendedNext
<1>4. Word \in Nat /\ Word >= 10
    BY WordIs
<1>5. Digit(s) % Word = Digit(s)
    <2> DEFINE e == Digit(s)
               w == Word
    <2>1. e \in Nat /\ w \in Nat /\ e < w
        BY <1>2, <1>4
    <2> HIDE DEF e, w
    <2>2. e % w = e
        BY <2>1
    <2> QED BY <2>2 DEF e, w
<1> QED BY <1>1, <1>2, <1>3, <1>4, <1>5

LEMMA FirstStep ==
    ASSUME NumberInv, First
    PROVE  NumberInv'
PROOF
<1>0. /\ text \in NumberTexts /\ byte_count = start /\ ignore_count = 0
      /\ byte_count \in Nat /\ ignore_count \in Nat /\ i \in Nat /\ i < Word
      /\ firstafterperiod \in Nat /\ exponent \in Int /\ expnumber \in Int /\ expnumber = 0
    BY DEF First, NumberInv, Shape, AtStart, NoPower
<1>1. /\ text' = text /\ overflow_checks' = overflow_checks
      /\ ignore_count' = ignore_count /\ firstafterperiod' = firstafterperiod
      /\ exponent' = exponent /\ expnumber' = expnumber
    BY DEF First, Unchanged
<1> DEFINE Bad == \/ ~is_integer(d)
                  \/ d = Zero /\ buf(byte_count + 1) \notin StructuralOrWhitespace \union ExponentOrDecimal
<1>2. CASE Bad
    <2>1. Done(Error("InvalidNumber")) /\ byte_count' = byte_count /\ i' = i
        BY <1>2 DEF First
    <2>2. ~IsNumber
        BY <1>0, <1>2, FirstRefuses DEF d
    <2>3. Right(Error("InvalidNumber")) /\ Known(Error("InvalidNumber"))
        BY <2>2, NoNumber
    <2>4. Word' = Word
        BY DEF Word
    <2> QED BY <1>0, <1>1, <2>1, <2>3, DoneStep
<1>3. CASE ~Bad
    <2>1. i' = Digit(start) /\ byte_count' = start + 1 /\ pc' = "Integer"
        BY <1>0, <1>3 DEF First
    <2>2. is_integer(buf(start))
        BY <1>0, <1>3 DEF d
    <2>3. buf(start) = Zero => ~is_integer(buf(start + 1))
        BY <1>0, <1>3 DEF d, StructuralOrWhitespace, ExponentOrDecimal, E, Point, is_integer
    <2>4. Begun /\ start + 1 <= IntegerEnd
        BY <1>0, <2>2, <2>3, Begins
    <2>5. start \in Nat
        BY <1>0, IntegerPart
    <2>6. Word' = Word
        BY DEF Word
    <2>7. Digit(start) \in Nat /\ Digit(start) < Word /\ Digit(start) = Appended(0, start, start + 1) % Word
        BY <1>0, <2>2, OneDigit
    <2>8. Shape'
        BY <1>0, <1>1, <2>1, <2>5, <2>6, <2>7 DEF Shape
    <2>9. InInteger'
        <3>1. Begun'
            BY <1>1, <2>4, Frozen DEF Begun
        <3>2. ignore_count' = 0
            BY <1>0, <1>1
        <3>3. start' = start /\ IntegerEnd' = IntegerEnd
            BY <1>1, Frozen
        <3>4. PICK s \in Nat, p \in Nat, x \in Nat : s = start' /\ p = byte_count' /\ x = i'
            BY <2>1, <2>5, <2>7, <3>3
        <3>5. Appended(0, s, p)' = Appended(0, s, p)
            BY <1>1, Frozen
        <3>6. (i = Appended(0, start, byte_count) % Word)'
            BY <2>1, <2>6, <2>7, <3>3, <3>4, <3>5
        <3>7. s + 1 <= p /\ p <= IntegerEnd'
            BY <2>1, <2>4, <2>5, <3>3, <3>4
        <3>8. (start + 1 <= byte_count /\ byte_count <= IntegerEnd)'
            BY <3>4, <3>7
        <3> QED BY <3>1, <3>2, <3>6, <3>8 DEF InInteger
    <2>10. NoPower'
        BY <1>0, <1>1 DEF NoPower
    <2> QED BY <2>1, <2>8, <2>9, <2>10 DEF NumberInv, AtStart, InFraction, AtValue, InLarge, Answered
<1> QED BY <1>2, <1>3

\* One more digit, in the word and in the number.
LEMMA WordStep ==
    ASSUME text \in NumberTexts, NEW n \in Int, NEW a \in Nat, NEW b \in Nat, a <= b,
           NEW x, x = Appended(n, a, b) % Word
    PROVE  /\ (x * 10 + Digit(b)) % Word = Appended(n, a, b + 1) % Word
           /\ (((x * 10) % Word) + Digit(b)) % Word = Appended(n, a, b + 1) % Word
PROOF
<1> DEFINE w == Word
           y == Appended(n, a, b)
           e == Digit(b)
<1>1. w \in Nat \ {0} /\ y \in Int /\ e \in Int
    BY WordIs, AppendedNext, BufIs
<1>2. Appended(n, a, b + 1) = y * 10 + e
    BY AppendedNext
<1>3. x = y % w
    OBVIOUS
<1> HIDE DEF w, y, e
<1>4. x \in Int
    BY <1>1, <1>3
<1>5. ((y % w) * 10 + e) % w = (y * 10 + e) % w
    BY <1>1, TenTimes
<1>6. (((x * 10) % w) + e) % w = (x * 10 + e) % w
    <2>1. x * 10 \in Int
        BY <1>4
    <2> QED BY <1>1, <2>1, ModStep
<1> QED BY <1>2, <1>3, <1>5, <1>6 DEF w, y, e

\* A number whose digits so far have left the word.
LEMMA TooLarge ==
    ASSUME text \in NumberTexts, NEW b \in Nat, start <= b, b <= IntegerEnd,
           Appended(0, start, b) >= Word,
           NEW e, e \notin {"I64", "F64"}
    PROVE  Right(Error(e)) /\ Known(Error(e))
PROOF
<1>1. PICK s \in Nat, end \in Nat : s = start /\ end = IntegerEnd
    BY IntegerPart
<1>2. s <= b /\ b <= end /\ DigitsAt(s, end)
    BY <1>1, IntegerPart
<1>3. Appended(0, s, b) \in Nat /\ Appended(0, s, end) \in Nat /\ Appended(0, s, b) <= Appended(0, s, end)
    <2>1. 0 \in Nat
        OBVIOUS
    <2> QED BY <1>2, <2>1, AppendedGrows
<1>4. PICK n \in Nat : n = Integer
    BY IntegerPart
<1>5. n >= Word
    BY <1>1, <1>3, <1>4, WordIs DEF Integer
<1>6. end - s > SignedDigits + 1
    <2> SUFFICES ASSUME end - s <= SignedDigits + 1 PROVE FALSE
        BY <1>2, NumberWordAssumption
    <2>1. end - s \in Nat /\ SignedDigits + 1 \in Nat
        BY <1>2, NumberWordAssumption
    <2>2. Raised(10, end - s) <= Raised(10, SignedDigits + 1)
        BY <2>1, RaisedGrows
    <2>3. n < Raised(10, end - s) /\ Raised(10, end - s) \in Nat /\ Raised(10, SignedDigits + 1) \in Nat
        BY <1>1, <1>4, <2>1, IntegerPart, RaisedNext
    <2> QED BY <1>5, <2>2, <2>3, WordIs
<1>7. ~HasFraction => Value \notin -Half..Half - 1
    <2> SUFFICES ASSUME ~HasFraction PROVE Value \notin -Half..Half - 1
        OBVIOUS
    <2>1. Value = IF negative THEN -n ELSE n
        BY <1>4 DEF Value, Digits
    <2>2. n > Half /\ Half \in Nat
        BY <1>5, WordIs
    <2>3. CASE negative
        BY <2>1, <2>2, <2>3
    <2>4. CASE ~negative
        BY <2>1, <2>2, <2>4
    <2> QED BY <2>3, <2>4
<1>8. Right(Error(e))
    BY DEF Right, Error
<1>9. Known(Error(e))
    BY <1>1, <1>6, <1>7 DEF Known
<1> QED BY <1>8, <1>9

LEMMA IntegerDigitStep ==
    ASSUME NumberInv, IntegerDigit
    PROVE  NumberInv'
PROOF
<1>0. /\ text \in NumberTexts /\ Begun /\ ignore_count = 0
      /\ byte_count \in Nat /\ ignore_count \in Nat /\ i \in Nat /\ i < Word
      /\ firstafterperiod \in Nat /\ exponent \in Int /\ expnumber \in Int /\ expnumber = 0
      /\ start + 1 <= byte_count /\ byte_count <= IntegerEnd
      /\ i = Appended(0, start, byte_count) % Word
      /\ is_integer(buf(byte_count))
    BY DEF IntegerDigit, NumberInv, Shape, NoPower, InInteger, d
<1>1. /\ text' = text /\ overflow_checks' = overflow_checks
      /\ ignore_count' = ignore_count /\ firstafterperiod' = firstafterperiod
      /\ exponent' = exponent /\ expnumber' = expnumber
    BY DEF IntegerDigit, Unchanged
<1>2. Word' = Word
    BY DEF Word
<1>3. PICK s \in Nat, b \in Nat, x \in Nat, end \in Nat :
         s = start /\ b = byte_count /\ x = i /\ end = IntegerEnd
    BY <1>0, IntegerPart
<1>4. s + 1 <= b /\ s <= b /\ b < end /\ b + 1 <= end /\ b + 1 \in Nat /\ s <= b + 1 /\ s + 1 <= b + 1
    <2>1. ~is_integer(buf(end))
        BY <1>0, <1>3, IntegerPart
    <2>2. b # end
        BY <1>0, <1>3, <2>1
    <2>3. s + 1 <= b /\ b <= end
        BY <1>0, <1>3
    <2> QED BY <2>2, <2>3
<1>5. x = Appended(0, s, b) % Word
    BY <1>0, <1>3
<1> DEFINE w == Word
           e == Digit(b)
           y == ((x * 10) % w) + e
           z == Appended(0, s, b + 1)
<1>6. w \in Nat \ {0} /\ e \in Int /\ e >= 0
    BY <1>0, <1>3, WordIs, BufIs
<1>7. y % w = z % w
    <2>1. 0 \in Int
        OBVIOUS
    <2> QED BY <1>0, <1>4, <1>5, <2>1, WordStep
<1>8. y \in Nat
    <2> HIDE DEF w, e
    <2>1. x * 10 \in Nat
        OBVIOUS
    <2>2. (x * 10) % w \in Nat
        BY <1>6, <2>1
    <2> QED BY <1>6, <2>2
<1>9. CASE y < w
    <2>1. i' = y /\ byte_count' = b + 1 /\ pc' = "Integer"
        BY <1>3, <1>9 DEF IntegerDigit
    <2>2. y = z % w
        <3> HIDE DEF y, w, z
        <3>1. y % w = y
            BY <1>6, <1>8, <1>9
        <3> QED BY <1>7, <3>1
    <2>3. Shape'
        <3> HIDE DEF y
        <3> QED BY <1>0, <1>1, <1>2, <1>4, <1>8, <1>9, <2>1 DEF Shape
    <2>4. InInteger'
        <3>1. Begun'
            BY <1>0, <1>1, Frozen DEF Begun
        <3>2. start' = s /\ IntegerEnd' = end
            BY <1>1, <1>3, Frozen
        <3>3. PICK p \in Nat : p = b + 1
            OBVIOUS
        <3>4. Appended(0, s, p)' = Appended(0, s, p)
            BY <1>1, Frozen
        <3>5. (i = Appended(0, start, byte_count) % Word)'
            <4> HIDE DEF y
            <4> QED BY <1>2, <2>1, <2>2, <3>2, <3>3, <3>4
        <3>6. (start + 1 <= byte_count /\ byte_count <= IntegerEnd)'
            BY <1>4, <2>1, <3>2
        <3> QED BY <1>0, <1>1, <3>1, <3>5, <3>6 DEF InInteger
    <2>5. NoPower'
        BY <1>0, <1>1 DEF NoPower
    <2> QED BY <2>1, <2>3, <2>4, <2>5 DEF NumberInv, AtStart, InFraction, AtValue, InLarge, Answered
<1>10. CASE ~(y < w)
    <2>1. Done(Error("Overflow")) /\ byte_count' = byte_count /\ i' = i
        BY <1>3, <1>10 DEF IntegerDigit
    <2>2. z >= w
        <3> DEFINE u == Appended(0, s, b)
        <3>1. u \in Nat
            <4>1. DigitsAt(s, end)
                BY <1>0, <1>3, IntegerPart
            <4>2. DigitsAt(s, b) /\ b <= b /\ 0 \in Nat
                BY <1>4, <4>1 DEF DigitsAt
            <4> QED BY <1>0, <1>4, <4>2, AppendedGrows
        <3>2. z = u * 10 + e
            <4>1. 0 \in Int
                OBVIOUS
            <4> QED BY <1>0, <1>4, <4>1, AppendedNext
        <3>3. x = u % w
            BY <1>5
        <3> HIDE DEF u, w, e, z
        <3>4. \A k \in Int : ((u % w) * 10 + k) % w = (u * 10 + k) % w
            <4>1. u \in Int
                BY <3>1
            <4> QED BY <1>6, <4>1, TenTimes
        <3>5. (x * 10) % w = (u * 10) % w
            <4>1. x * 10 + 0 = x * 10 /\ u * 10 + 0 = u * 10 /\ 0 \in Int
                BY <3>1
            <4> QED BY <3>3, <3>4, <4>1
        <3>6. (u * 10) % w <= u * 10
            <4> DEFINE v == u * 10
            <4>1. v \in Nat
                BY <3>1
            <4> HIDE DEF v
            <4>2. v % w <= v
                BY <1>6, <4>1
            <4> QED BY <4>2 DEF v
        <3>7. (u * 10) % w \in Nat /\ u * 10 \in Nat
            BY <1>6, <3>1
        <3> QED BY <1>6, <1>10, <3>2, <3>5, <3>6, <3>7
    <2>3. Right(Error("Overflow")) /\ Known(Error("Overflow"))
        BY <1>0, <1>3, <1>4, <2>2, TooLarge
    <2> QED BY <1>0, <1>1, <1>2, <2>1, <2>3, DoneStep
<1> QED BY <1>9, <1>10

\* Without a digit behind the point there is no number.
LEMMA FractionStep ==
    ASSUME NumberInv, Fraction
    PROVE  NumberInv'
PROOF
<1>0. /\ text \in NumberTexts /\ Begun /\ ignore_count = 0
      /\ byte_count \in Nat /\ ignore_count \in Nat /\ i \in Nat /\ i < Word
      /\ firstafterperiod \in Nat /\ exponent \in Int /\ expnumber \in Int /\ expnumber = 0
      /\ start + 1 <= byte_count /\ byte_count <= IntegerEnd
      /\ i = Appended(0, start, byte_count) % Word
      /\ buf(byte_count) = Point
    BY DEF Fraction, NumberInv, Shape, NoPower, InInteger, d
<1>1. /\ text' = text /\ overflow_checks' = overflow_checks
      /\ ignore_count' = ignore_count + 1 /\ firstafterperiod' = byte_count + 1
      /\ exponent' = exponent /\ expnumber' = expnumber
    BY DEF Fraction, Unchanged
<1>2. Word' = Word
    BY DEF Word
<1>3. PICK s \in Nat, b \in Nat, x \in Nat, end \in Nat :
         s = start /\ b = byte_count /\ x = i /\ end = IntegerEnd
    BY <1>0, IntegerPart
<1>4. b = end
    <2>1. DigitsAt(s, end) /\ ~is_integer(buf(b))
        BY <1>0, <1>3, IntegerPart DEF Point, is_integer
    <2>2. s <= b /\ b <= end
        BY <1>0, <1>3
    <2>3. ~(b < end)
        BY <2>1, <2>2 DEF DigitsAt
    <2> QED BY <2>2, <2>3
<1>5. x = Integer % Word
    BY <1>0, <1>3, <1>4 DEF Integer
<1>6. HasFraction
    BY <1>0, <1>3, <1>4, FractionPart
<1>7. PICK f \in Nat : f = FractionEnd
    BY <1>0, FractionPart
<1>8. b + 1 <= f /\ f <= Len(text) /\ DigitsAt(b + 1, f) /\ ~is_integer(buf(f))
    BY <1>0, <1>3, <1>4, <1>6, <1>7, FractionPart
<1>9. CASE ~is_integer(buf(b + 1))
    <2>1. Done(Error("InvalidNumber")) /\ byte_count' = b + 1 /\ i' = i
        BY <1>3, <1>9 DEF Fraction
    <2>2. ~IsNumber
        <3> SUFFICES ASSUME IsNumber PROVE FALSE
            OBVIOUS
        <3>1. b + 1 < f
            BY <1>3, <1>4, <1>6, <1>7 DEF IsNumber
        <3>2. b + 1 \in Nat /\ b + 1 <= b + 1
            OBVIOUS
        <3> QED BY <1>8, <1>9, <3>1, <3>2 DEF DigitsAt
    <2>3. Right(Error("InvalidNumber")) /\ Known(Error("InvalidNumber"))
        BY <2>2, NoNumber
    <2>4. byte_count + 1 \in Nat /\ ignore_count + 1 \in Nat /\ b + 1 \in Nat
        BY <1>0
    <2> QED BY <1>0, <1>1, <1>2, <2>1, <2>3, <2>4, DoneStep
<1>10. CASE is_integer(buf(b + 1))
    <2>1. b + 1 < f
        <3>1. b + 1 # f
            BY <1>8, <1>10
        <3> QED BY <1>8, <3>1
    <2>2. PICK m \in Nat : m = b + 2
        OBVIOUS
    <2>3. m <= f /\ m <= Len(text)
        BY <1>0, <1>8, <2>1, <2>2, BufIs
    <2>4. DigitsAt(m, f)
        BY <1>8, <2>2 DEF DigitsAt
    <2>5. RunEnd(m) = f
        BY <1>0, <1>8, <2>3, <2>4, RunEndSame
    <2>6. PICK next \in Nat : next = IF RunEnd(m) - m >= Eight THEN m + Eight ELSE m
        BY NumberStepsAssumption
    <2>7. m <= next /\ next <= f
        BY <2>3, <2>5, <2>6, NumberStepsAssumption
    <2>8. i' = Appended(x, b + 1, next) % Word /\ byte_count' = next /\ pc' = "Fraction"
        BY <1>3, <1>10, <2>2, <2>6 DEF Fraction
    <2>9. PICK p \in Nat : p = b + 1
        OBVIOUS
    <2>10. p <= next
        BY <2>2, <2>7, <2>9
    <2>11. PICK n \in Int : n = Integer
        BY <1>0, IntegerPart
    <2>12. Appended(x, p, next) % Word = Appended(n, p, next) % Word
        <3>1. Word \in Nat \ {0}
            BY WordIs
        <3>2. x % Word = n % Word
            <4> DEFINE w == Word
            <4>1. x = n % w /\ w \in Nat \ {0}
                BY <1>5, <2>11, <3>1
            <4> HIDE DEF w
            <4>2. x % w = n % w
                BY <4>1
            <4> QED BY <4>2 DEF w
        <3>3. x \in Int
            OBVIOUS
        <3> QED BY <1>0, <2>10, <3>1, <3>2, <3>3, AppendedMod
    <2>13. i' = Appended(n, p, next) % Word
        BY <2>8, <2>9, <2>12
    <2>14. i' \in Nat /\ i' < Word
        <3> DEFINE w == Word
                   y == Appended(n, p, next)
        <3>0. w \in Nat \ {0}
            BY WordIs
        <3>1. y \in Int
            BY <1>0, <2>10, AppendedNext
        <3>2. i' = y % w
            BY <2>13
        <3> HIDE DEF w, y
        <3>3. i' \in Nat /\ i' < w
            BY <3>0, <3>1, <3>2
        <3> QED BY <3>3 DEF w
    <2>15. Shape'
        <3>1. byte_count + 1 \in Nat /\ ignore_count + 1 \in Nat
            BY <1>0
        <3> QED BY <1>0, <1>1, <1>2, <2>8, <2>14, <3>1 DEF Shape
    <2>16. InFraction'
        <3>1. Begun'
            BY <1>0, <1>1, Frozen DEF Begun
        <3>2. HasFraction' /\ IntegerEnd' = b /\ FractionEnd' = f /\ Integer' = n
            BY <1>1, <1>3, <1>4, <1>6, <1>7, <2>11, Frozen
        <3>3. Appended(n, p, next)' = Appended(n, p, next)
            BY <1>1, Frozen
        <3>4. (i = Appended(Integer, IntegerEnd + 1, byte_count) % Word)'
            BY <1>2, <2>8, <2>9, <2>13, <3>2, <3>3
        <3>5. (IntegerEnd + 2 <= byte_count /\ byte_count <= FractionEnd)'
            BY <2>2, <2>7, <2>8, <3>2
        <3>6. (ignore_count = 1 /\ firstafterperiod = IntegerEnd + 1)'
            BY <1>0, <1>1, <1>3, <3>2
        <3> QED BY <3>1, <3>2, <3>4, <3>5, <3>6 DEF InFraction
    <2>17. NoPower'
        BY <1>0, <1>1 DEF NoPower
    <2> QED BY <2>8, <2>15, <2>16, <2>17 DEF NumberInv, AtStart, InInteger, AtValue, InLarge, Answered
<1> QED BY <1>9, <1>10

LEMMA FractionDigitStep ==
    ASSUME NumberInv, FractionDigit
    PROVE  NumberInv'
PROOF
<1>0. /\ text \in NumberTexts /\ Begun /\ ignore_count = 1 /\ HasFraction
      /\ byte_count \in Nat /\ ignore_count \in Nat /\ i \in Nat /\ i < Word
      /\ firstafterperiod \in Nat /\ exponent \in Int /\ expnumber \in Int /\ expnumber = 0
      /\ firstafterperiod = IntegerEnd + 1
      /\ IntegerEnd + 2 <= byte_count /\ byte_count <= FractionEnd
      /\ i = Appended(Integer, IntegerEnd + 1, byte_count) % Word
      /\ is_integer(buf(byte_count))
    BY DEF FractionDigit, NumberInv, Shape, NoPower, InFraction, d
<1>1. /\ text' = text /\ overflow_checks' = overflow_checks /\ pc' = pc /\ pc = "Fraction"
      /\ ignore_count' = ignore_count /\ firstafterperiod' = firstafterperiod
      /\ exponent' = exponent /\ expnumber' = expnumber
      /\ i' = (i * 10 + Digit(byte_count)) % Word /\ byte_count' = byte_count + 1
    BY DEF FractionDigit, Unchanged
<1>2. Word' = Word
    BY DEF Word
<1>3. PICK b \in Nat, x \in Nat, end \in Nat, f \in Nat, n \in Int :
         b = byte_count /\ x = i /\ end = IntegerEnd /\ f = FractionEnd /\ n = Integer
    <2>1. IntegerEnd \in Nat /\ Integer \in Nat
        BY <1>0, IntegerPart
    <2>2. FractionEnd \in Nat
        BY <1>0, FractionPart
    <2>3. Integer \in Int
        BY <2>1
    <2> QED BY <1>0, <2>1, <2>2, <2>3
<1>4. end + 2 <= b /\ b < f /\ b + 1 <= f /\ end + 2 <= b + 1
    <2>1. b # f
        BY <1>0, <1>3, FractionPart
    <2> QED BY <1>0, <1>3, <2>1
<1>5. PICK p \in Nat : p = end + 1
    OBVIOUS
<1>6. p <= b
    BY <1>4, <1>5
<1>7. x = Appended(n, p, b) % Word
    BY <1>0, <1>3, <1>5
<1>8. i' = Appended(n, p, b + 1) % Word
    <2>1. (x * 10 + Digit(b)) % Word = Appended(n, p, b + 1) % Word
        BY <1>0, <1>6, <1>7, WordStep
    <2> QED BY <1>1, <1>3, <2>1
<1>9. i' \in Nat /\ i' < Word
    <2> DEFINE w == Word
               y == x * 10 + Digit(b)
    <2>0. w \in Nat \ {0}
        BY WordIs
    <2>1. Digit(b) \in Int
        BY <1>0, BufIs
    <2>2. y \in Int
        BY <2>1
    <2>3. i' = y % w
        BY <1>1, <1>3
    <2> HIDE DEF w, y
    <2>4. i' \in Nat /\ i' < w
        BY <2>0, <2>2, <2>3
    <2> QED BY <2>4 DEF w
<1>10. Shape'
    <2>1. byte_count + 1 \in Nat
        BY <1>0
    <2> QED BY <1>0, <1>1, <1>2, <1>9, <2>1 DEF Shape
<1>11. InFraction'
    <2>1. Begun'
        BY <1>0, <1>1, Frozen DEF Begun
    <2>2. HasFraction' /\ IntegerEnd' = end /\ FractionEnd' = f /\ Integer' = n
        BY <1>0, <1>1, <1>3, Frozen
    <2>3. PICK q \in Nat : q = b + 1
        OBVIOUS
    <2>4. Appended(n, p, q)' = Appended(n, p, q)
        BY <1>1, Frozen
    <2>5. byte_count' = q /\ i' = Appended(n, p, q) % Word
        BY <1>1, <1>3, <1>8, <2>3
    <2>6. (i = Appended(Integer, IntegerEnd + 1, byte_count) % Word)'
        BY <1>2, <1>5, <2>2, <2>4, <2>5
    <2>7. (IntegerEnd + 2 <= byte_count /\ byte_count <= FractionEnd)'
        BY <1>4, <2>2, <2>3, <2>5
    <2>8. (ignore_count = 1 /\ firstafterperiod = IntegerEnd + 1)'
        BY <1>0, <1>1, <1>3, <2>2
    <2> QED BY <2>1, <2>2, <2>6, <2>7, <2>8 DEF InFraction
<1>12. NoPower'
    BY <1>0, <1>1 DEF NoPower
<1> QED BY <1>1, <1>10, <1>11, <1>12 DEF NumberInv, AtStart, InInteger, AtValue, InLarge, Answered

---------------------------------------------------------------------------
(* The digits are read.                                                    *)

LEMMA DigitsEnd ==
    ASSUME NumberInv, DigitsRead
    PROVE  /\ text \in NumberTexts /\ Begun
           /\ byte_count = FractionEnd /\ ignore_count = Points
           /\ i = Digits % Word
           /\ HasFraction => IntegerEnd + 1 < FractionEnd
           /\ FractionExponent = IF HasFraction THEN -(FractionEnd - IntegerEnd - 1) ELSE 0
           /\ expnumber = 0
           /\ d \in E <=> HasExponent
PROOF
<1>0. text \in NumberTexts /\ ~is_integer(buf(byte_count)) /\ byte_count \in Nat /\ expnumber = 0
    BY DEF DigitsRead, NumberInv, Shape, d, NoPower
<1>1. PICK s \in Nat, end \in Nat, b \in Nat : s = start /\ end = IntegerEnd /\ b = byte_count
    BY <1>0, IntegerPart
<1>2. PICK f \in Nat : f = FractionEnd
    BY <1>0, FractionPart
<1>3. CASE pc = "Integer"
    <2>1. /\ Begun /\ ignore_count = 0 /\ s + 1 <= b /\ b <= end
          /\ i = Appended(0, s, b) % Word
        BY <1>1, <1>3 DEF NumberInv, InInteger
    <2>2. b = end
        <3>1. DigitsAt(s, end) /\ s <= b
            BY <1>0, <1>1, <2>1, IntegerPart
        <3>2. ~(b < end)
            BY <1>0, <1>1, <3>1 DEF DigitsAt
        <3> QED BY <2>1, <3>2
    <2>3. buf(end) # Point
        BY <1>1, <1>3, <2>2 DEF DigitsRead, d
    <2>4. ~HasFraction /\ f = end
        BY <1>0, <1>1, <1>2, <2>3, FractionPart
    <2>5. i = Digits % Word /\ Points = 0
        BY <1>1, <2>1, <2>2, <2>4 DEF Digits, Integer, Points
    <2>6. FractionExponent = 0
        BY <1>3 DEF FractionExponent
    <2>7. d \in E <=> HasExponent
        BY <1>1, <1>2, <2>2, <2>4 DEF d, HasExponent
    <2> QED BY <1>0, <1>1, <1>2, <2>1, <2>2, <2>4, <2>5, <2>6, <2>7
<1>4. CASE pc = "Fraction"
    <2>1. /\ Begun /\ ignore_count = 1 /\ HasFraction /\ firstafterperiod = end + 1
          /\ end + 2 <= b /\ b <= f
          /\ i = Appended(Integer, end + 1, b) % Word
        BY <1>1, <1>2, <1>4 DEF NumberInv, InFraction
    <2>2. b = f
        <3>1. DigitsAt(end + 1, f) /\ end + 1 <= b
            BY <1>0, <1>1, <1>2, <2>1, FractionPart
        <3>2. ~(b < f)
            BY <1>0, <1>1, <3>1 DEF DigitsAt
        <3> QED BY <2>1, <3>2
    <2>3. i = Digits % Word /\ Points = 1
        BY <1>1, <1>2, <2>1, <2>2 DEF Digits, Points
    <2>4. FractionExponent = -(f - end - 1) /\ end + 1 < f
        BY <1>1, <1>4, <2>1, <2>2 DEF FractionExponent
    <2>5. d \in E <=> HasExponent
        BY <1>1, <1>2, <2>2 DEF d, HasExponent
    <2> QED BY <1>0, <1>1, <1>2, <2>1, <2>2, <2>3, <2>4, <2>5
<1> QED BY <1>3, <1>4 DEF DigitsRead

\* What to prove of a step to the value.
LEMMA ValueStep ==
    ASSUME NumberInv, DigitsRead, text' = text, pc' = "Value",
           byte_count' = NumberEnd, ignore_count' = ignore_count + (NumberEnd - FractionEnd),
           i' = i, firstafterperiod' = firstafterperiod,
           exponent' = FractionExponent + Power, expnumber' = Power,
           HasExponent => NumberEnd - ExponentFrom \in 1..3
    PROVE  NumberInv'
PROOF
<1>1. /\ text \in NumberTexts /\ Begun /\ ignore_count = Points
      /\ i = Digits % Word
      /\ HasFraction => IntegerEnd + 1 < FractionEnd
      /\ FractionExponent = IF HasFraction THEN -(FractionEnd - IntegerEnd - 1) ELSE 0
    BY DigitsEnd
<1>2. PICK s \in Nat, end \in Nat : s = start /\ end = IntegerEnd
    BY <1>1, IntegerPart
<1>3. PICK f \in Nat : f = FractionEnd
    BY <1>1, FractionPart
<1>4. PICK x \in Nat, n \in Nat, v \in Int : x = ExponentFrom /\ n = NumberEnd /\ v = Power
    BY <1>1, ExponentPart
<1>5. f <= n
    BY <1>1, <1>3, <1>4, ExponentPart
<1>6. exponent' = Scale
    <2>1. CASE HasFraction
        BY <1>1, <1>2, <1>3, <1>4, <2>1 DEF Scale
    <2>2. CASE ~HasFraction
        BY <1>1, <1>4, <2>2 DEF Scale
    <2> QED BY <2>1, <2>2
<1>7. Scale \in Int
    BY <1>2, <1>3, <1>4 DEF Scale
<1>8. Word' = Word /\ Points' = Points
    BY Frozen DEF Word, Points
<1>9. Shape'
    <2>1. NumberInv => Shape
        BY DEF NumberInv
    <2>2. ignore_count' \in Nat
        BY <1>1, <1>3, <1>4, <1>5 DEF Points
    <2> QED BY <1>4, <1>6, <1>7, <1>8, <2>1, <2>2 DEF Shape
<1>10. AtValue'
    <2>1. Begun'
        BY <1>1, Frozen DEF Begun
    <2>2. PartsRead'
        BY <1>1, <2>1, Frozen DEF PartsRead
    <2>3. /\ NumberEnd' = NumberEnd /\ FractionEnd' = FractionEnd /\ Digits' = Digits
          /\ Scale' = Scale /\ Power' = Power
        BY Frozen
    <2> QED BY <1>1, <1>6, <1>8, <2>2, <2>3 DEF AtValue
<1> QED BY <1>9, <1>10 DEF NumberInv, AtStart, NoPower, InInteger, InFraction, InLarge, Answered

LEMMA NoExponentStep ==
    ASSUME NumberInv, NoExponent
    PROVE  NumberInv'
PROOF
<1>1. /\ DigitsRead /\ d \notin E /\ exponent' = FractionExponent /\ pc' = "Value" /\ text' = text
      /\ byte_count' = byte_count /\ ignore_count' = ignore_count /\ i' = i
      /\ firstafterperiod' = firstafterperiod /\ expnumber' = expnumber
    BY DEF NoExponent, Unchanged
<1>2. /\ text \in NumberTexts /\ byte_count = FractionEnd /\ ignore_count = Points
      /\ expnumber = 0 /\ ~HasExponent
      /\ FractionExponent = IF HasFraction THEN -(FractionEnd - IntegerEnd - 1) ELSE 0
    BY <1>1, DigitsEnd
<1>3. NumberEnd = FractionEnd /\ Power = 0
    BY <1>2, ExponentPart
<1>4. PICK f \in Nat, end \in Nat : f = FractionEnd /\ end = IntegerEnd
    BY <1>2, FractionPart, IntegerPart
<1>5. ignore_count + (NumberEnd - FractionEnd) = ignore_count
    BY <1>2, <1>3, <1>4 DEF Points
<1>6. FractionExponent + Power = FractionExponent
    BY <1>2, <1>3, <1>4
<1> QED BY <1>1, <1>2, <1>3, <1>5, <1>6, ValueStep

LEMMA ExponentStep ==
    ASSUME NumberInv, Exponent
    PROVE  NumberInv'
PROOF
<1>0. /\ byte_count \in Nat /\ ignore_count \in Nat /\ i \in Nat /\ i < Word
      /\ firstafterperiod \in Nat /\ exponent \in Int /\ expnumber \in Int
    BY DEF NumberInv, Shape
<1>1. /\ DigitsRead /\ d \in E /\ text' = text /\ overflow_checks' = overflow_checks
      /\ i' = i /\ firstafterperiod' = firstafterperiod
    BY DEF Exponent, Unchanged
<1>2. /\ text \in NumberTexts /\ byte_count = FractionEnd /\ HasExponent
    BY <1>1, DigitsEnd
<1> DEFINE exp == ExponentAt(FractionEnd, 3)
<1>3. exp.ok = (NumberEnd - ExponentFrom \in 1..3) /\ exp.end = NumberEnd /\ exp.value = Power
    <2>1. 3 \in Nat
        OBVIOUS
    <2> QED BY <1>2, <2>1, ExponentPart
<1>4. Word' = Word
    BY DEF Word
<1> HIDE DEF exp
<1>5. CASE ~exp.ok
    <2>1. /\ Done(Error("InvalidNumber")) /\ byte_count' = byte_count /\ ignore_count' = ignore_count
          /\ exponent' = exponent /\ expnumber' = expnumber
        BY <1>2, <1>5 DEF Exponent, exp
    <2>2. IsNumber => NumberEnd - ExponentFrom > 3
        <3>1. PICK x \in Nat, n \in Nat : x = ExponentFrom /\ n = NumberEnd
            BY <1>2, ExponentPart
        <3>2. ~(n - x \in 1..3)
            BY <1>3, <1>5, <3>1
        <3>3. IsNumber => x < n
            BY <1>2, <3>1 DEF IsNumber
        <3> QED BY <3>1, <3>2, <3>3
    <2>3. Right(Error("InvalidNumber")) /\ Known(Error("InvalidNumber"))
        BY <1>2, <2>2 DEF Right, Known, Error
    <2> QED BY <1>0, <1>1, <1>4, <2>1, <2>3, DoneStep
<1>6. CASE exp.ok
    <2>1. /\ expnumber' = Power /\ exponent' = FractionExponent + Power
          /\ ignore_count' = ignore_count + NumberEnd - FractionEnd
          /\ byte_count' = NumberEnd /\ pc' = "Value"
        BY <1>2, <1>3, <1>6 DEF Exponent, exp
    <2>2. ignore_count + NumberEnd - FractionEnd = ignore_count + (NumberEnd - FractionEnd)
        <3>1. NumberEnd \in Nat /\ FractionEnd \in Nat
            BY <1>2, ExponentPart, FractionPart
        <3> QED BY <1>0, <3>1
    <2> QED BY <1>1, <1>3, <1>6, <2>1, <2>2, ValueStep
<1> QED BY <1>5, <1>6

---------------------------------------------------------------------------
(* The value.                                                              *)

\* With its parts read, a number needs no more than a proper end.
LEMMA NumberIff ==
    ASSUME text \in NumberTexts, PartsRead
    PROVE  IsNumber <=> buf(NumberEnd) \in StructuralOrWhitespace
PROOF
<1>1. PICK x \in Nat, n \in Nat : x = ExponentFrom /\ n = NumberEnd
    BY ExponentPart
<1>2. HasExponent => x < n
    BY <1>1 DEF PartsRead
<1> QED BY <1>1, <1>2 DEF PartsRead, Begun, IsNumber

\* What Ended answers, where only the end is left to look at.
LEMMA EndedRight ==
    ASSUME text \in NumberTexts, PartsRead,
           NEW r, IsNumber => Right(r) /\ Known(r),
           NEW e, e \notin {"I64", "F64"}
    PROVE  Right(Ended(NumberEnd, r, e)) /\ Known(Ended(NumberEnd, r, e))
PROOF
<1>1. CASE IsNumber
    <2>1. Ended(NumberEnd, r, e) = r
        BY <1>1, NumberIff DEF Ended
    <2> QED BY <1>1, <2>1
<1>2. CASE ~IsNumber
    <2>1. Ended(NumberEnd, r, e) = Error(e)
        BY <1>2, NumberIff DEF Ended
    <2> QED BY <1>2, <2>1, NoNumber
<1> QED BY <1>1, <1>2

LEMMA FloatRight ==
    ASSUME text \in NumberTexts, IsNumber
    PROVE  Right(F64(Digits, Scale)) /\ Known(F64(Digits, Scale))
PROOF
<1> DEFINE r == F64(Digits, Scale)
<1>1. PICK n \in Nat : n = Digits
    BY FractionPart
<1>2. Value = IF negative THEN -n ELSE n
    BY <1>1 DEF Value
<1>3. r.kind = "F64" /\ r.value = Value /\ (n # 0 => r.exponent = Scale)
    <2>1. CASE n = 0
        <3>1. -n = n
            <4>1. n <= 0
                BY <2>1
            <4> QED BY <4>1
        <3>2. Value = n
            BY <1>2, <3>1
        <3> QED BY <1>1, <2>1, <3>2 DEF F64
    <2>2. CASE n # 0
        BY <1>1, <1>2, <2>2 DEF F64
    <2> QED BY <2>1, <2>2
<1> HIDE DEF r
<1>4. Right(r)
    BY <1>1, <1>3 DEF Right
<1>5. Known(r)
    BY <1>3 DEF Known
<1> QED BY <1>4, <1>5 DEF r

\* So few digits fit a signed word.
LEMMA DigitsFit ==
    ASSUME text \in NumberTexts, FractionEnd - Points <= SignedDigits
    PROVE  Digits \in Nat /\ Digits < Half /\ Digits % Word = Digits
PROOF
<1>1. PICK s \in Nat, f \in Nat : s = start /\ f = FractionEnd
    BY IntegerPart, FractionPart
<1>2. PICK n \in Nat : n = Digits
    BY FractionPart
<1>3. PICK p \in {0, 1} : p = Points
    BY DEF Points
<1>4. f - s - p \in Nat /\ n < Raised(10, f - s - p)
    BY <1>1, <1>2, <1>3, FractionPart
<1>5. f - s - p <= SignedDigits /\ SignedDigits \in Nat
    BY <1>1, <1>3, NumberWordAssumption
<1>6. /\ Raised(10, f - s - p) <= Raised(10, SignedDigits)
      /\ Raised(10, f - s - p) \in Nat /\ Raised(10, SignedDigits) \in Nat
    BY <1>4, <1>5, RaisedGrows
<1>7. n < Half
    BY <1>4, <1>6, WordIs
<1>8. n % Word = n
    <2> DEFINE w == Word
    <2>1. w \in Nat /\ n < w
        BY <1>7, WordIs
    <2> HIDE DEF w
    <2>2. n % w = n
        BY <2>1
    <2> QED BY <2>2 DEF w
<1> QED BY <1>2, <1>7, <1>8

\* parse_float reads the same number again.
LEMMA ParseFloatIs ==
    ASSUME text \in NumberTexts, PartsRead
    PROVE  parse_float = IF HasExponent /\ Power \notin -MaxExponent..MaxExponent THEN Error("Parser")
                         ELSE Ended(NumberEnd, F64(Digits, Scale), "Parser")
PROOF
<1> DEFINE whole == IF buf(start) = Zero THEN start + 1 ELSE RunEnd(start)
           end   == IF buf(whole) = Point THEN RunEnd(whole + 1) ELSE whole
           scale == IF buf(whole) = Point THEN end - whole - 1 ELSE 0
           n     == IF buf(whole) = Point
                    THEN Appended(Appended(0, start, whole), whole + 1, end)
                    ELSE Appended(0, start, whole)
           exp   == ExponentAt(end, 4)
<1>1. parse_float =
         IF buf(whole) = Point /\ scale = 0 THEN Error("Parser")
         ELSE IF buf(end) \notin E THEN Ended(end, F64(n, -scale), "Parser")
         ELSE IF ~exp.ok \/ exp.value \notin -MaxExponent..MaxExponent THEN Error("Parser")
         ELSE Ended(exp.end, F64(n, exp.value - scale), "Parser")
    BY Zenon DEF parse_float
<1>2. whole = IntegerEnd
    BY DEF PartsRead, Begun, IntegerEnd
<1> HIDE DEF whole
<1>3. buf(whole) = Point <=> HasFraction
    BY <1>2, FractionPart
<1>4. end = FractionEnd
    BY <1>2 DEF FractionEnd
<1> HIDE DEF end
<1>5. n = Digits
    BY <1>2, <1>3, <1>4 DEF Digits, Integer
<1> HIDE DEF n
<1>6. PICK a \in Nat, f \in Nat, v \in Int : a = IntegerEnd /\ f = FractionEnd /\ v = Power
    BY IntegerPart, FractionPart, ExponentPart
<1>7. scale \in Int /\ Scale = v - scale /\ ~(buf(whole) = Point /\ scale = 0)
    <2>1. CASE HasFraction
        <3>1. scale = f - a - 1 /\ Scale = v - (f - a - 1) /\ a + 1 < f
            BY <1>2, <1>3, <1>4, <1>6, <2>1 DEF Scale, PartsRead
        <3> HIDE DEF scale
        <3> QED BY <3>1
    <2>2. CASE ~HasFraction
        <3>1. scale = 0 /\ Scale = v
            BY <1>3, <1>6, <2>2 DEF Scale
        <3> HIDE DEF scale
        <3> QED BY <1>3, <2>2, <3>1
    <2> QED BY <2>1, <2>2
<1> HIDE DEF scale, exp
<1>8. CASE ~HasExponent
    <2>1. NumberEnd = FractionEnd /\ v = 0
        BY <1>6, <1>8, ExponentPart
    <2>2. Scale = -scale
        BY <1>7, <2>1
    <2>3. buf(end) \notin E
        BY <1>4, <1>8 DEF HasExponent
    <2> QED BY <1>1, <1>4, <1>5, <1>7, <1>8, <2>1, <2>2, <2>3
<1>9. CASE HasExponent
    <2>1. exp.ok = (NumberEnd - ExponentFrom \in 1..4) /\ exp.end = NumberEnd /\ exp.value = Power
        <3>1. 4 \in Nat
            OBVIOUS
        <3> QED BY <1>4, <1>9, <3>1, ExponentPart DEF exp
    <2>2. NumberEnd - ExponentFrom \in 1..4
        BY <1>9 DEF PartsRead
    <2>3. buf(end) \in E
        BY <1>4, <1>9 DEF HasExponent
    <2> QED BY <1>1, <1>5, <1>6, <1>7, <1>9, <2>1, <2>2, <2>3
<1> QED BY <1>8, <1>9

LEMMA FloatValueStep ==
    ASSUME NumberInv, FloatValue
    PROVE  NumberInv'
PROOF
<1>0. /\ text \in NumberTexts
      /\ byte_count \in Nat /\ ignore_count \in Nat /\ i \in Nat /\ i < Word
      /\ firstafterperiod \in Nat /\ exponent \in Int /\ expnumber \in Int
    BY DEF NumberInv, Shape
<1>1. /\ PartsRead /\ byte_count = NumberEnd /\ ignore_count = Points + (NumberEnd - FractionEnd)
      /\ i = Digits % Word /\ exponent = Scale /\ expnumber = Power
    BY DEF NumberInv, AtValue, FloatValue
<1>2. /\ text' = text /\ overflow_checks' = overflow_checks
      /\ byte_count' = byte_count /\ ignore_count' = ignore_count /\ i' = i
      /\ firstafterperiod' = firstafterperiod /\ exponent' = exponent /\ expnumber' = expnumber
      /\ Word' = Word
    BY DEF FloatValue, Unchanged, Word
<1>3. PICK f \in Nat, n \in Nat, p \in {0, 1}, v \in Int :
         f = FractionEnd /\ n = NumberEnd /\ p = Points /\ v = Power
    <2>1. FractionEnd \in Nat
        BY <1>0, FractionPart
    <2>2. NumberEnd \in Nat /\ Power \in Int
        BY <1>0, ExponentPart
    <2>3. Points \in {0, 1}
        BY DEF Points
    <2> QED BY <2>1, <2>2, <2>3
<1>4. byte_count - ignore_count = f - p
    BY <1>1, <1>3
<1>5. HasFraction \/ HasExponent
    <2> SUFFICES ASSUME ~HasFraction, ~HasExponent PROVE FALSE
        OBVIOUS
    <2>1. Power = 0
        BY <1>0, ExponentPart
    <2>2. Scale = 0
        BY <2>1 DEF Scale
    <2> QED BY <1>1, <2>1, <2>2 DEF FloatValue, IsFloat
<1> DEFINE Keeps(r) == Right(r) /\ Known(r)
<1>6. IsNumber => Keeps(F64(Digits, Scale))
    BY <1>0, FloatRight
<1>7. Keeps(Ended(NumberEnd, F64(Digits, Scale), "Parser"))
      /\ Keeps(Ended(NumberEnd, F64(Digits, Scale), "InvalidNumber"))
    BY <1>0, <1>1, <1>6, EndedRight
<1>8. CASE byte_count - ignore_count >= SignedDigits + 1
    <2>1. Done(parse_float)
        BY <1>8 DEF FloatValue
    <2>2. CASE HasExponent /\ Power \notin -MaxExponent..MaxExponent
        <3>1. parse_float = Error("Parser")
            BY <1>0, <1>1, <2>2, ParseFloatIs
        <3>2. Right(Error("Parser")) /\ Known(Error("Parser"))
            BY <2>2 DEF Right, Known, Error
        <3> QED BY <1>0, <1>2, <2>1, <3>1, <3>2, DoneStep
    <2>3. CASE ~(HasExponent /\ Power \notin -MaxExponent..MaxExponent)
        <3>1. parse_float = Ended(NumberEnd, F64(Digits, Scale), "Parser")
            BY <1>0, <1>1, <2>3, ParseFloatIs
        <3> QED BY <1>0, <1>2, <1>7, <2>1, <3>1, DoneStep
    <2> QED BY <2>2, <2>3
<1>9. CASE ~(byte_count - ignore_count >= SignedDigits + 1)
    <2>1. f - p <= SignedDigits
        BY <1>3, <1>4, <1>9, NumberWordAssumption
    <2>2. i = Digits
        BY <1>0, <1>1, <1>3, <2>1, DigitsFit
    <2>3. Done(IF i # 0 /\ exponent \notin -MaxExponent..MaxExponent THEN Error("InvalidExponent")
               ELSE Ended(byte_count, F64(i, exponent), "InvalidNumber"))
        BY <1>9 DEF FloatValue
    <2>4. CASE i # 0 /\ exponent \notin -MaxExponent..MaxExponent
        <3>1. Done(Error("InvalidExponent"))
            BY <2>3, <2>4
        <3>2. Right(Error("InvalidExponent")) /\ Known(Error("InvalidExponent"))
            BY <1>1, <1>5, <2>4 DEF Right, Known, Error
        <3> QED BY <1>0, <1>2, <3>1, <3>2, DoneStep
    <2>5. CASE ~(i # 0 /\ exponent \notin -MaxExponent..MaxExponent)
        <3>1. Done(Ended(NumberEnd, F64(Digits, Scale), "InvalidNumber"))
            BY <1>1, <2>2, <2>3, <2>5
        <3> QED BY <1>0, <1>2, <1>7, <3>1, DoneStep
    <2> QED BY <2>4, <2>5
<1> QED BY <1>8, <1>9

\* An integer that is neither a fraction nor has a power reads as itself.
LEMMA IntegerRight ==
    ASSUME text \in NumberTexts, IsNumber, ~HasFraction, Power = 0,
           NEW v, v = Value
    PROVE  Right(I64(v)) /\ Known(I64(v))
PROOF BY DEF Right, Known, I64

LEMMA IntegerValueStep ==
    ASSUME NumberInv, IntegerValue
    PROVE  NumberInv'
PROOF
<1>0. /\ text \in NumberTexts
      /\ byte_count \in Nat /\ ignore_count \in Nat /\ i \in Nat /\ i < Word
      /\ firstafterperiod \in Nat /\ exponent \in Int /\ expnumber \in Int
    BY DEF NumberInv, Shape
<1>1. /\ PartsRead /\ byte_count = NumberEnd /\ i = Digits % Word
      /\ Scale = 0 /\ Power = 0 /\ byte_count < SignedDigits
    BY DEF NumberInv, AtValue, IntegerValue, IsFloat
<1>2. /\ text' = text /\ overflow_checks' = overflow_checks
      /\ byte_count' = byte_count /\ ignore_count' = ignore_count /\ i' = i
      /\ firstafterperiod' = firstafterperiod /\ exponent' = exponent /\ expnumber' = expnumber
      /\ Word' = Word
    BY DEF IntegerValue, Unchanged, Word
<1>3. ~HasFraction
    <2>1. PICK a \in Nat, f \in Nat : a = IntegerEnd /\ f = FractionEnd
        BY <1>0, IntegerPart, FractionPart
    <2>2. HasFraction => a + 1 < f
        BY <1>1, <2>1 DEF PartsRead
    <2>3. HasFraction => Scale = 0 - (f - a - 1)
        BY <1>1, <2>1 DEF Scale
    <2> QED BY <1>1, <2>1, <2>2, <2>3
<1>4. Digits \in Nat /\ Digits < Half /\ i = Digits
    <2>1. PICK f \in Nat, x \in Nat, n \in Nat : f = FractionEnd /\ x = ExponentFrom /\ n = NumberEnd
        BY <1>0, FractionPart, ExponentPart
    <2>2. f <= x /\ x <= n
        BY <1>0, <2>1, ExponentPart
    <2>3. Points = 0
        BY <1>3 DEF Points
    <2>4. n < SignedDigits /\ SignedDigits \in Nat
        BY <1>1, <2>1, NumberWordAssumption
    <2>5. f - 0 <= SignedDigits
        BY <2>2, <2>4
    <2> QED BY <1>0, <1>1, <2>1, <2>3, <2>5, DigitsFit
<1>5. Signed(IF negative THEN (Word - i) % Word ELSE i) = Value
    <2> DEFINE w == Word
               h == Half
    <2>1. w \in Nat /\ h \in Nat /\ w = 2 * h /\ h > 0
        BY WordIs
    <2>2. PICK n \in Nat : n = Digits
        BY <1>4
    <2> HIDE DEF w, h
    <2>3. n < h /\ i = n
        BY <1>4, <2>2 DEF h
    <2>4. CASE ~negative
        <3>1. Signed(n) = n
            BY <2>1, <2>3 DEF Signed, h
        <3> QED BY <2>2, <2>3, <2>4, <3>1 DEF Value
    <2>5. CASE negative
        <3>1. Value = -n
            BY <2>2, <2>5 DEF Value
        <3>2. CASE n = 0
            <4>1. (w - n) % w = 0
                BY <2>1, <3>2
            <4>2. Signed(0) = 0
                BY <2>1 DEF Signed, h
            <4>3. Value = 0
                <5>1. -n = n
                    <6>1. n <= 0
                        BY <3>2
                    <6> QED BY <6>1
                <5> QED BY <3>1, <3>2, <5>1
            <4> QED BY <2>3, <2>5, <4>1, <4>2, <4>3 DEF w
        <3>3. CASE n # 0
            <4> DEFINE m == w - n
            <4>1. m \in Nat /\ m < w /\ m >= h /\ m - w = -n
                BY <2>1, <2>3, <3>3
            <4> HIDE DEF m
            <4>2. m % w = m
                BY <2>1, <4>1
            <4>3. Signed(m) = m - w
                BY <4>1 DEF Signed, h, w
            <4> QED BY <2>3, <2>5, <3>1, <4>1, <4>2, <4>3 DEF w, m
        <3> QED BY <3>2, <3>3
    <2> QED BY <2>4, <2>5
<1> DEFINE v == Signed(IF negative THEN (Word - i) % Word ELSE i)
<1>6. Done(Ended(NumberEnd, I64(v), "InvalidNumber"))
    BY <1>1, Zenon DEF IntegerValue
<1> HIDE DEF v
<1>7. IsNumber => Right(I64(v)) /\ Known(I64(v))
    BY <1>0, <1>1, <1>3, <1>5, IntegerRight DEF v
<1>8. Right(Ended(NumberEnd, I64(v), "InvalidNumber")) /\ Known(Ended(NumberEnd, I64(v), "InvalidNumber"))
    BY <1>0, <1>1, <1>7, EndedRight
<1> QED BY <1>0, <1>2, <1>6, <1>8, DoneStep

---------------------------------------------------------------------------
(* Large integers.                                                         *)

LEMMA LargeIntegerStep ==
    ASSUME NumberInv, LargeInteger
    PROVE  NumberInv'
PROOF
<1>0. /\ text \in NumberTexts
      /\ byte_count \in Nat /\ ignore_count \in Nat /\ i \in Nat /\ i < Word
      /\ firstafterperiod \in Nat /\ exponent \in Int /\ expnumber \in Int
    BY DEF NumberInv, Shape
<1>1. /\ PartsRead /\ byte_count = NumberEnd
      /\ Scale = 0 /\ Power = 0 /\ NumberEnd >= SignedDigits
    BY DEF NumberInv, AtValue, LargeInteger, IsFloat
<1>2. /\ text' = text /\ byte_count' = start + 1 /\ i' = Digit(start) /\ pc' = "Large"
      /\ ignore_count' = ignore_count /\ firstafterperiod' = firstafterperiod
      /\ exponent' = exponent /\ expnumber' = expnumber /\ Word' = Word
    BY DEF LargeInteger, Unchanged, Word
<1>3. PICK s \in Nat, a \in Nat, f \in Nat : s = start /\ a = IntegerEnd /\ f = FractionEnd
    BY <1>0, IntegerPart, FractionPart
<1>4. ~HasFraction
    <2>1. HasFraction => a + 1 < f
        BY <1>1, <1>3 DEF PartsRead
    <2>2. HasFraction => Scale = 0 - (f - a - 1)
        BY <1>1, <1>3 DEF Scale
    <2> QED BY <1>1, <1>3, <2>1, <2>2
<1>5. s < a /\ is_integer(buf(s))
    <2>1. s < a
        BY <1>1, <1>3 DEF PartsRead, Begun
    <2>2. DigitsAt(s, a) /\ s <= s
        BY <1>0, <1>3, IntegerPart
    <2> QED BY <2>1, <2>2 DEF DigitsAt
<1>6. Appended(0, s, s + 1) = Digit(s) /\ Digit(s) \in Nat /\ Digit(s) < Word
    BY <1>0, <1>3, <1>5, OneDigit
<1>7. Shape'
    BY <1>0, <1>2, <1>3, <1>6 DEF Shape
<1>8. InLarge'
    <2>1. PartsRead'
        BY <1>1, <1>2, Frozen DEF PartsRead, Begun
    <2>2. /\ ~HasFraction' /\ Power' = 0 /\ NumberEnd' >= SignedDigits
          /\ start' = s /\ IntegerEnd' = a
        BY <1>1, <1>2, <1>3, <1>4, Frozen
    <2>3. PICK p \in Nat : p = s + 1
        OBVIOUS
    <2>4. Appended(0, s, p)' = Appended(0, s, p)
        BY <1>2, Frozen
    <2>5. (i = Appended(0, start, byte_count))'
        BY <1>2, <1>3, <1>6, <2>2, <2>3, <2>4
    <2>6. (start + 1 <= byte_count /\ byte_count <= IntegerEnd)'
        BY <1>2, <1>3, <1>5, <2>2
    <2> QED BY <2>1, <2>2, <2>5, <2>6 DEF InLarge
<1> QED BY <1>2, <1>7, <1>8 DEF NumberInv, AtStart, NoPower, InInteger, InFraction, AtValue, Answered

LEMMA LargeDigitStep ==
    ASSUME NumberInv, LargeDigit
    PROVE  NumberInv'
PROOF
<1>0. /\ text \in NumberTexts
      /\ byte_count \in Nat /\ ignore_count \in Nat /\ i \in Nat /\ i < Word
      /\ firstafterperiod \in Nat /\ exponent \in Int /\ expnumber \in Int
    BY DEF NumberInv, Shape
<1>1. /\ PartsRead /\ ~HasFraction /\ Power = 0 /\ NumberEnd >= SignedDigits
      /\ start + 1 <= byte_count /\ byte_count <= IntegerEnd
      /\ i = Appended(0, start, byte_count) /\ is_integer(buf(byte_count))
    BY DEF NumberInv, InLarge, LargeDigit, d
<1>2. /\ text' = text /\ overflow_checks' = overflow_checks
      /\ ignore_count' = ignore_count /\ firstafterperiod' = firstafterperiod
      /\ exponent' = exponent /\ expnumber' = expnumber /\ Word' = Word
    BY DEF LargeDigit, Unchanged, Word
<1>3. PICK s \in Nat, b \in Nat, x \in Nat, a \in Nat :
         s = start /\ b = byte_count /\ x = i /\ a = IntegerEnd
    BY <1>0, IntegerPart
<1>4. s <= b /\ s + 1 <= b + 1 /\ b + 1 <= a
    <2>1. b # a
        BY <1>0, <1>1, <1>3, IntegerPart
    <2> QED BY <1>1, <1>3, <2>1
<1> DEFINE y == x * 10 + Digit(b)
<1>5. y = Appended(0, s, b + 1)
    <2>1. 0 \in Int
        OBVIOUS
    <2>2. Appended(0, s, b + 1) = Appended(0, s, b) * 10 + Digit(b)
        BY <1>0, <1>4, <2>1, AppendedNext
    <2> QED BY <1>1, <1>3, <2>2
<1>6. y \in Nat
    <2>1. Digit(b) \in Int /\ Digit(b) >= 0
        BY <1>0, <1>1, <1>3, BufIs
    <2> QED BY <2>1
<1>7. CASE y < Word
    <2>1. i' = y /\ byte_count' = b + 1 /\ pc' = "Large"
        BY <1>3, <1>7 DEF LargeDigit
    <2> HIDE DEF y
    <2>2. Shape'
        BY <1>0, <1>2, <1>6, <1>7, <2>1 DEF Shape
    <2>3. InLarge'
        <3>1. PartsRead'
            BY <1>1, <1>2, Frozen DEF PartsRead, Begun
        <3>2. /\ ~HasFraction' /\ Power' = 0 /\ NumberEnd' >= SignedDigits
              /\ start' = s /\ IntegerEnd' = a
            BY <1>1, <1>2, <1>3, Frozen
        <3>3. PICK p \in Nat : p = b + 1
            OBVIOUS
        <3>4. Appended(0, s, p)' = Appended(0, s, p)
            BY <1>2, Frozen
        <3>5. (i = Appended(0, start, byte_count))'
            BY <1>5, <2>1, <3>2, <3>3, <3>4
        <3>6. (start + 1 <= byte_count /\ byte_count <= IntegerEnd)'
            BY <1>4, <2>1, <3>2
        <3> QED BY <3>1, <3>2, <3>5, <3>6 DEF InLarge
    <2> QED BY <2>1, <2>2, <2>3 DEF NumberInv, AtStart, NoPower, InInteger, InFraction, AtValue, Answered
<1>8. CASE ~(y < Word)
    <2>1. Done(Error("Overflow")) /\ byte_count' = byte_count /\ i' = i
        BY <1>3, <1>8 DEF LargeDigit
    <2> HIDE DEF y
    <2>2. PICK p \in Nat : p = b + 1
        OBVIOUS
    <2>3. Appended(0, start, p) >= Word
        BY <1>3, <1>5, <1>6, <1>8, <2>2, WordIs
    <2>4. start <= p /\ p <= IntegerEnd
        BY <1>3, <1>4, <2>2
    <2>5. Right(Error("Overflow")) /\ Known(Error("Overflow"))
        BY <1>0, <2>3, <2>4, TooLarge
    <2> QED BY <1>0, <1>2, <2>1, <2>5, DoneStep
<1> QED BY <1>7, <1>8

LEMMA LargeEndStep ==
    ASSUME NumberInv, LargeEnd
    PROVE  NumberInv'
PROOF
<1>0. /\ text \in NumberTexts
      /\ byte_count \in Nat /\ ignore_count \in Nat /\ i \in Nat /\ i < Word
      /\ firstafterperiod \in Nat /\ exponent \in Int /\ expnumber \in Int
    BY DEF NumberInv, Shape
<1>1. /\ PartsRead /\ ~HasFraction /\ Power = 0 /\ NumberEnd >= SignedDigits
      /\ start + 1 <= byte_count /\ byte_count <= IntegerEnd
      /\ i = Appended(0, start, byte_count) /\ ~is_integer(buf(byte_count))
    BY DEF NumberInv, InLarge, LargeEnd, d
<1>2. /\ text' = text /\ overflow_checks' = overflow_checks
      /\ byte_count' = byte_count /\ ignore_count' = ignore_count /\ i' = i
      /\ firstafterperiod' = firstafterperiod /\ exponent' = exponent /\ expnumber' = expnumber
      /\ Word' = Word
    BY DEF LargeEnd, Unchanged, Word
<1>3. PICK s \in Nat, b \in Nat, x \in Nat, a \in Nat, h \in Nat :
         s = start /\ b = byte_count /\ x = i /\ a = IntegerEnd /\ h = Half
    BY <1>0, IntegerPart, WordIs
<1>4. b = a /\ FractionEnd = a
    <2>1. s <= b /\ b <= a
        BY <1>1, <1>3
    <2>2. DigitsAt(s, a)
        BY <1>0, <1>3, IntegerPart
    <2>3. ~(b < a)
        BY <1>1, <1>3, <2>1, <2>2 DEF DigitsAt
    <2> QED BY <1>0, <1>1, <1>3, <2>1, <2>3, FractionPart
<1>5. x = Digits /\ Value = IF negative THEN -x ELSE x
    BY <1>1, <1>3, <1>4 DEF Digits, Integer, Value
\* An exponent, of power zero, is not looked at: the e ends no number.
<1>6. CASE HasExponent
    <2>1. IsNumber => (\A r : Known(r))
        BY <1>1, <1>6 DEF Known
    <2>2. PICK r : Done(r) /\ (r.kind \notin {"I64", "F64"})
        <3>1. buf(byte_count) \notin StructuralOrWhitespace
            BY <1>3, <1>4, <1>6 DEF HasExponent, E, StructuralOrWhitespace
        <3>2. \A q, e : Ended(byte_count, q, e) = Error(e)
            BY <3>1 DEF Ended
        <3>3. Done(Error("Overflow")) \/ Done(Error("InvalidNumber"))
            BY <3>2, Zenon DEF LargeEnd
        <3> QED BY <3>3 DEF Error
    <2>3. Right(r) /\ Known(r)
        BY <2>1, <2>2 DEF Right, Known
    <2> QED BY <1>0, <1>2, <2>2, <2>3, DoneStep
<1>7. CASE ~HasExponent
    <2>1. byte_count = NumberEnd
        BY <1>0, <1>3, <1>4, <1>7, ExponentPart
    <2> DEFINE r == IF i = Half /\ overflow_checks THEN Error("panic")
                    ELSE I64(IF negative THEN -i ELSE i)
    <2>2. Done(IF (IF negative THEN i > Half ELSE i >= Half) THEN Error("Overflow")
               ELSE Ended(NumberEnd, r, "InvalidNumber"))
        BY <2>1, Zenon DEF LargeEnd
    <2>3. CASE IF negative THEN i > Half ELSE i >= Half
        <3>1. Value \notin -Half..Half - 1
            BY <1>3, <1>5, <2>3
        <3>2. Right(Error("Overflow")) /\ Known(Error("Overflow"))
            BY <1>1, <1>7, <3>1 DEF Right, Known, Error
        <3> QED BY <1>0, <1>2, <2>2, <2>3, <3>2, DoneStep
    <2>4. CASE ~(IF negative THEN i > Half ELSE i >= Half)
        <3>1. IsNumber => Right(r) /\ Known(r)
            <4>1. CASE i = Half /\ overflow_checks
                <5>1. Value = -Half
                    <6>1. x = h /\ h >= h
                        BY <1>3, <4>1
                    <6>2. negative
                        BY <1>3, <2>4, <6>1
                    <6> QED BY <1>3, <1>5, <6>1, <6>2
                <5>2. r = Error("panic")
                    BY <4>1
                <5> HIDE DEF r
                <5> QED BY <1>1, <1>7, <4>1, <5>1, <5>2 DEF Right, Known, Error
            <4>2. CASE ~(i = Half /\ overflow_checks)
                <5>1. r = I64(Value)
                    BY <1>3, <1>5, <4>2
                <5> HIDE DEF r
                <5> QED BY <1>0, <1>1, <5>1, IntegerRight
            <4> QED BY <4>1, <4>2
        <3> HIDE DEF r
        <3>2. Right(Ended(NumberEnd, r, "InvalidNumber")) /\ Known(Ended(NumberEnd, r, "InvalidNumber"))
            BY <1>0, <1>1, <3>1, EndedRight
        <3> QED BY <1>0, <1>2, <2>2, <2>4, <3>2, DoneStep
    <2> QED BY <2>3, <2>4
<1> QED BY <1>6, <1>7

---------------------------------------------------------------------------
(* The theorems.                                                           *)

LEMMA InitHolds ==
    ASSUME Init
    PROVE  NumberInv
PROOF
<1>1. text \in NumberTexts /\ pc = "Start" /\ i = 0
    BY DEF Init
<1>2. start \in Nat /\ 0 < Word
    BY <1>1, IntegerPart, WordIs
<1>3. Shape
    BY <1>2 DEF Init, Shape
<1> QED BY <1>1, <1>3 DEF Init, NumberInv, AtStart, NoPower, InInteger, InFraction, AtValue, InLarge, Answered

LEMMA StepKeeps ==
    ASSUME NumberInv, [Next]_vars
    PROVE  NumberInv'
PROOF
<1>1. CASE First
    BY <1>1, FirstStep
<1>2. CASE IntegerDigit
    BY <1>2, IntegerDigitStep
<1>3. CASE Fraction
    BY <1>3, FractionStep
<1>4. CASE FractionDigit
    BY <1>4, FractionDigitStep
<1>5. CASE NoExponent
    BY <1>5, NoExponentStep
<1>6. CASE Exponent
    BY <1>6, ExponentStep
<1>7. CASE FloatValue
    BY <1>7, FloatValueStep
<1>8. CASE IntegerValue
    BY <1>8, IntegerValueStep
<1>9. CASE LargeInteger
    BY <1>9, LargeIntegerStep
<1>10. CASE LargeDigit
    BY <1>10, LargeDigitStep
<1>11. CASE LargeEnd
    BY <1>11, LargeEndStep
<1>12. CASE Returned \/ UNCHANGED vars
    <2>1. UNCHANGED vars
        BY <1>12 DEF Returned
    <2>2. /\ text' = text /\ overflow_checks' = overflow_checks /\ pc' = pc
          /\ byte_count' = byte_count /\ ignore_count' = ignore_count /\ i' = i
          /\ firstafterperiod' = firstafterperiod /\ exponent' = exponent /\ expnumber' = expnumber
          /\ result' = result
        BY <2>1 DEF vars
    <2>3. PICK s \in Nat, b \in Nat, a \in Int, n \in Int :
             s = start /\ b = byte_count /\ a = IntegerEnd + 1 /\ n = Integer
        <3>1. text \in NumberTexts /\ byte_count \in Nat
            BY DEF NumberInv, Shape
        <3>2. start \in Nat /\ IntegerEnd \in Nat /\ Integer \in Nat
            BY <3>1, IntegerPart
        <3>3. IntegerEnd + 1 \in Int /\ Integer \in Int
            BY <3>2
        <3> QED BY <3>1, <3>2, <3>3
    <2>4. /\ Appended(0, s, b)' = Appended(0, s, b) /\ Appended(n, a, b)' = Appended(n, a, b)
        BY <2>2, Frozen
    <2>5. Shape' /\ AtStart' /\ NoPower'
        BY <2>2, Frozen DEF NumberInv, Shape, AtStart, NoPower, Word
    <2>6. Begun' = Begun /\ PartsRead' = PartsRead /\ Word' = Word /\ Points' = Points
        BY <2>2, Frozen DEF Begun, PartsRead, Word, Points
    <2>7. InInteger'
        BY <2>2, <2>3, <2>4, <2>6, Frozen DEF NumberInv, InInteger
    <2>8. InFraction'
        BY <2>2, <2>3, <2>4, <2>6, Frozen DEF NumberInv, InFraction
    <2>9. AtValue' /\ InLarge'
        BY <2>2, <2>3, <2>4, <2>6, Frozen DEF NumberInv, AtValue, InLarge
    <2>10. Answered'
        <3>1. pc = "Done" => Right(result) /\ Known(result)
            BY DEF NumberInv, Answered
        <3>2. PICK r : r = result
            OBVIOUS
        <3> QED BY <2>2, <3>1, <3>2, FrozenResult DEF Answered
    <2> QED BY <2>5, <2>7, <2>8, <2>9, <2>10 DEF NumberInv
<1> QED BY <1>1, <1>2, <1>3, <1>4, <1>5, <1>6, <1>7, <1>8, <1>9, <1>10, <1>11, <1>12 DEF Next, Step

LEMMA InvariantHolds == Spec => []NumberInv
PROOF
<1>1. Init => NumberInv
    BY InitHolds
<1>2. NumberInv /\ [Next]_vars => NumberInv'
    BY StepKeeps
<1> QED BY <1>1, <1>2, PTL DEF Spec

\* Whatever the word wrapped to on the way, an accepted text is a number and its
\* result the number that was written, digit for digit (parse_number_int,
\* parse_large_integer and parse_float of numberparse.rs).
THEOREM ReadsTheNumber == Spec => []ValueRight
PROOF
<1>1. NumberInv => ValueRight
    BY DEF NumberInv, Answered, Right, ValueRight, Accepted
<1> QED BY <1>1, InvariantHolds, PTL

\* A number is refused in the cases that RefusalsAreKnown lists and in no other.
THEOREM RefusesKnownCases == Spec => []RefusalsAreKnown
PROOF
<1>1. NumberInv => RefusalsAreKnown
    BY DEF NumberInv, Answered, Known, RefusalsAreKnown, Refused
<1> QED BY <1>1, InvariantHolds, PTL

=================================================================================
