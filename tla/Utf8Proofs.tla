------------------------------- MODULE Utf8Proofs -------------------------------
(***************************************************************************)
(* The UTF-8 check is right for every set of texts and every lane of three *)
(* bytes or more.  The proof goes through a third view of the check, one   *)
(* byte at a time: Good(q) says that the byte at q fits those before it,   *)
(* Left(q) how many continuations are owed after it.  The vector           *)
(* operations of a lane compute it, and so does the table of the standard. *)
(***************************************************************************)
EXTENDS Utf8Check, NaturalLemmas

SeqLen(b) == IF b < 128 THEN 1 ELSE IF b < 192 THEN 0
             ELSE IF b < 224 THEN 2 ELSE IF b < 240 THEN 3 ELSE 4

TooLarge(a, b) ==
    \/ Signed(b) > Signed(159) /\ a = 237
    \/ Signed(b) > Signed(143) /\ a = 244
Overlong(a, b) == initial_mins[Nibble(a)] > Signed(a) /\ second_mins[Nibble(a)] > Signed(b)
BadPair(a, b)  == TooLarge(a, b) \/ Overlong(a, b)

\* The text with spaces before and behind it.
B(q)    == IF q \in 1..Len(text) THEN text[q] ELSE 32
L(q)    == SeqLen(B(q))
Left(q) == Saturating(L(q) - 1) + Saturating(L(q - 1) - 2) + Saturating(L(q - 2) - 3)

Good(q) ==
    /\ B(q) <= 244
    /\ Left(q - 1) > 0 <=> L(q) = 0
    /\ ~BadPair(B(q - 1), B(q))

AllGood(n) == \A q \in 1..n : Good(q)

---------------------------------------------------------------------------
(* Bytes and pairs of bytes.                                               *)

LEMMA Lengths ==
    ASSUME NEW b \in Byte
    PROVE  continuation_lengths[Nibble(b) + 1] = SeqLen(b) /\ SeqLen(b) \in 0..4
PROOF
<1>1. Nibble(b) \in 0..15
    BY DEF Byte, Nibble
<1>2. /\ b < 128 <=> Nibble(b) < 8
      /\ b < 192 <=> Nibble(b) < 12
      /\ b < 224 <=> Nibble(b) < 14
      /\ b < 240 <=> Nibble(b) < 15
    BY DEF Byte, Nibble
<1>3. \A n \in 0..15 : continuation_lengths[n + 1] =
            IF n < 8 THEN 1 ELSE IF n < 12 THEN 0 ELSE IF n < 14 THEN 2 ELSE IF n < 15 THEN 3 ELSE 4
    BY DEF continuation_lengths
<1> QED BY <1>1, <1>2, <1>3 DEF SeqLen

\* The tests of neighbours, spelt out.
LEMMA Pairs ==
    ASSUME NEW a \in Byte, NEW b \in Byte
    PROVE  BadPair(a, b) <=>
              \/ a = 237 /\ (b < 128 \/ b > 159)
              \/ a = 244 /\ (b < 128 \/ b > 143)
              \/ a \in {192, 193} /\ b # 127
              \/ a = 224 /\ b \in 128..159
              \/ a = 240 /\ b \in 128..143
PROOF
<1>1. Nibble(a) \in 0..15
    BY DEF Byte, Nibble
<1>2. /\ Signed(159) = -97 /\ Signed(143) = -113 /\ Signed(194) = -62 /\ Signed(225) = -31
      /\ Signed(241) = -15 /\ Signed(160) = -96 /\ Signed(144) = -112
    BY DEF Signed
<1>3. initial_mins[Nibble(a)] > Signed(a) <=> a \in {192, 193, 224, 240}
    BY <1>1, <1>2 DEF initial_mins, Nibble, Signed, Byte
<1>4. a \in {192, 193, 224, 240} =>
          second_mins[Nibble(a)] = IF a = 224 THEN -96 ELSE IF a = 240 THEN -112 ELSE 127
    BY <1>1, <1>2 DEF second_mins, Nibble, Byte
<1> QED BY <1>2, <1>3, <1>4 DEF BadPair, TooLarge, Overlong, Signed, Byte

LEMMA Types ==
    ASSUME text \in Seq(Byte), NEW q \in Int
    PROVE  B(q) \in Byte /\ L(q) \in 0..4 /\ Left(q) \in 0..6
PROOF
<1>1. \A p \in Int : B(p) \in Byte
    <2>1. 32 \in Byte
        BY DEF Byte
    <2> QED BY <2>1 DEF B
<1>2. \A p \in Int : L(p) \in 0..4
    BY <1>1, Lengths DEF L
<1>3. L(q) \in 0..4 /\ L(q - 1) \in 0..4 /\ L(q - 2) \in 0..4
    BY <1>2
<1>4. Left(q) \in 0..6
    BY <1>3 DEF Left, Saturating
<1> QED BY <1>1, <1>3, <1>4

LEMMA Classes ==
    ASSUME text \in Seq(Byte), NEW q \in Int
    PROVE  /\ L(q) = 0 <=> B(q) \in 128..191
           /\ L(q) = 1 <=> B(q) \in 0..127
           /\ L(q) \in {2, 3, 4} <=> B(q) \in 192..255
PROOF
<1>1. \A b \in 0..255 : /\ SeqLen(b) = 0 <=> b \in 128..191
                        /\ SeqLen(b) = 1 <=> b \in 0..127
                        /\ SeqLen(b) \in {2, 3, 4} <=> b \in 192..255
    BY DEF SeqLen
<1>2. B(q) \in 0..255
    BY Types DEF Byte
<1> QED BY <1>1, <1>2 DEF L

\* Only a byte that leads others makes a bad pair.
LEMMA LoneLeader ==
    ASSUME NEW a \in Byte, NEW b \in Byte, a \notin 192..255
    PROVE  ~BadPair(a, b)
PROOF
<1>1. \A x \in 0..255 : x \notin 192..255 => x \notin {192, 193, 224, 237, 240, 244}
    OBVIOUS
<1>2. a \notin {192, 193, 224, 237, 240, 244}
    BY <1>1 DEF Byte
<1> QED BY <1>2, Pairs

\* Nothing is wrong before the text or with spaces.
LEMMA Before ==
    ASSUME text \in Seq(Byte), NEW q \in Int, q <= 0
    PROVE  B(q) = 32 /\ L(q) = 1 /\ Left(q) = 0 /\ Good(q)
PROOF
<1>1. \A p \in Int : p <= 0 => B(p) = 32 /\ L(p) = 1
    BY DEF B, L, SeqLen
<1>3. /\ L(q) = 1 /\ L(q - 1) = 1 /\ L(q - 2) = 1 /\ L(q - 3) = 1
      /\ q - 1 - 1 = q - 2 /\ q - 1 - 2 = q - 3
    BY <1>1
<1>4. Left(q) = 0 /\ Left(q - 1) = 0
    BY <1>3 DEF Left, Saturating
<1>5. ~BadPair(32, 32)
    <2>1. 32 \in Byte
        BY DEF Byte
    <2> QED BY <2>1, Pairs
<1>6. B(q) = 32 /\ B(q - 1) = 32
    BY <1>1
<1> QED BY <1>3, <1>4, <1>5, <1>6 DEF Good

\* Good is a property of the bytes so far.
LEMMA GoodBefore ==
    ASSUME text \in Seq(Byte), NEW n \in Int, AllGood(n), NEW q \in Int, q <= n
    PROVE  Good(q)
PROOF
<1>1. CASE q <= 0
    BY <1>1, Before
<1>2. CASE q > 0
    BY <1>2 DEF AllGood
<1> QED BY <1>1, <1>2

\* What is owed goes down by one with every continuation.
LEMMA LeftNext ==
    ASSUME text \in Seq(Byte), NEW q \in Int, Good(q), Good(q - 1), Good(q - 2)
    PROVE  /\ Left(q) = IF L(q) > 0 THEN L(q) - 1 ELSE Left(q - 1) - 1
           /\ Left(q) \in 0..3
           /\ L(q) = 0 => Left(q) \in 0..2
PROOF
<1>1. /\ q - 1 \in Int /\ q - 2 \in Int /\ q - 3 \in Int /\ q - 4 \in Int /\ q - 5 \in Int
      /\ L(q) \in 0..4 /\ L(q - 1) \in 0..4 /\ L(q - 2) \in 0..4 /\ L(q - 3) \in 0..4
      /\ L(q - 4) \in 0..4 /\ L(q - 5) \in 0..4
    BY Types
<1>2. /\ q - 1 - 1 = q - 2 /\ q - 1 - 2 = q - 3 /\ q - 2 - 1 = q - 3 /\ q - 2 - 2 = q - 4
      /\ q - 3 - 1 = q - 4 /\ q - 3 - 2 = q - 5
    OBVIOUS
<1>3. /\ Left(q) = Saturating(L(q) - 1) + Saturating(L(q - 1) - 2) + Saturating(L(q - 2) - 3)
      /\ Left(q - 1) = Saturating(L(q - 1) - 1) + Saturating(L(q - 2) - 2) + Saturating(L(q - 3) - 3)
      /\ Left(q - 2) = Saturating(L(q - 2) - 1) + Saturating(L(q - 3) - 2) + Saturating(L(q - 4) - 3)
      /\ Left(q - 3) = Saturating(L(q - 3) - 1) + Saturating(L(q - 4) - 2) + Saturating(L(q - 5) - 3)
    BY <1>2 DEF Left
<1>4. /\ Left(q - 1) > 0 <=> L(q) = 0
      /\ Left(q - 2) > 0 <=> L(q - 1) = 0
      /\ Left(q - 3) > 0 <=> L(q - 2) = 0
    BY <1>2 DEF Good
<1> DEFINE l0 == L(q)
           l1 == L(q - 1)
           l2 == L(q - 2)
           l3 == L(q - 3)
           l4 == L(q - 4)
           l5 == L(q - 5)
<1>5. /\ l0 \in 0..4 /\ l1 \in 0..4 /\ l2 \in 0..4 /\ l3 \in 0..4 /\ l4 \in 0..4 /\ l5 \in 0..4
      /\ Left(q) = Saturating(l0 - 1) + Saturating(l1 - 2) + Saturating(l2 - 3)
      /\ Left(q - 1) = Saturating(l1 - 1) + Saturating(l2 - 2) + Saturating(l3 - 3)
      /\ Saturating(l1 - 1) + Saturating(l2 - 2) + Saturating(l3 - 3) > 0 <=> l0 = 0
      /\ Saturating(l2 - 1) + Saturating(l3 - 2) + Saturating(l4 - 3) > 0 <=> l1 = 0
      /\ Saturating(l3 - 1) + Saturating(l4 - 2) + Saturating(l5 - 3) > 0 <=> l2 = 0
    BY <1>1, <1>3, <1>4
<1> HIDE DEF l0, l1, l2, l3, l4, l5
<1>6. /\ Left(q) = IF l0 > 0 THEN l0 - 1 ELSE Left(q - 1) - 1
      /\ Left(q) \in 0..3 /\ (l0 = 0 => Left(q) \in 0..2)
    BY <1>5 DEF Saturating
<1> QED BY <1>6 DEF l0

---------------------------------------------------------------------------
(* The table of the standard, one byte at a time.                          *)

\* The beginnings of the rows of the table: m bytes of a row of length len.
Begins(len, m, p) == \E row \in Legal : Len(row) = len /\ Stands(row, m, p)

LEMMA Rows ==
    ASSUME text \in Seq(Byte), NEW p \in 1..Len(text), NEW m \in 1..4, p + m - 1 <= Len(text),
           NEW len \in m..4
    PROVE  Begins(len, m, p) <=>
              /\ L(p) = len /\ B(p) <= 244
              /\ m = 1 => B(p) \notin {192, 193}
              /\ \A k \in 1..m - 1 : L(p + k) = 0
              /\ m > 1 => ~BadPair(B(p), B(p + 1))
PROOF
<1> DEFINE a == text[p]
           b == text[p + 1]
           c == text[p + 2]
           d == text[p + 3]
           begins == Begins(len, m, p)
<1>1. /\ a \in Byte /\ B(p) = a
      /\ m > 1 => b \in Byte /\ B(p + 1) = b
      /\ m > 2 => c \in Byte /\ B(p + 2) = c
      /\ m > 3 => d \in Byte /\ B(p + 3) = d
    BY DEF B
<1>2. /\ p + 1 - 1 = p /\ p + 2 - 1 = p + 1 /\ p + 3 - 1 = p + 2 /\ p + 4 - 1 = p + 3
    OBVIOUS
<1>3. ASSUME NEW row
      PROVE  Stands(row, m, p) <=> /\ a \in row[1]
                                   /\ m > 1 => b \in row[2]
                                   /\ m > 2 => c \in row[3]
                                   /\ m > 3 => d \in row[4]
    <2>1. \A k \in 1..m : k = 1 \/ (m > 1 /\ k = 2) \/ (m > 2 /\ k = 3) \/ (m > 3 /\ k = 4)
        OBVIOUS
    <2>2. 1 \in 1..m /\ (m > 1 => 2 \in 1..m) /\ (m > 2 => 3 \in 1..m) /\ (m > 3 => 4 \in 1..m)
        OBVIOUS
    <2> QED BY <1>2, <2>1, <2>2 DEF Stands
<1>4. begins <=>
          \/ len = 1 /\ a \in 0..127
          \/ len = 2 /\ a \in 194..223 /\ (m > 1 => b \in Tail80)
          \/ /\ len = 3 /\ (m > 2 => c \in Tail80)
             /\ \/ a = 224 /\ (m > 1 => b \in 160..191)
                \/ a \in 225..236 /\ (m > 1 => b \in Tail80)
                \/ a = 237 /\ (m > 1 => b \in 128..159)
                \/ a \in 238..239 /\ (m > 1 => b \in Tail80)
          \/ /\ len = 4 /\ (m > 2 => c \in Tail80) /\ (m > 3 => d \in Tail80)
             /\ \/ a = 240 /\ (m > 1 => b \in 144..191)
                \/ a \in 241..243 /\ (m > 1 => b \in Tail80)
                \/ a = 244 /\ (m > 1 => b \in 128..143)
    <2> DEFINE r1 == <<0..127>>
               r2 == <<194..223, Tail80>>
               r3 == <<{224}, 160..191, Tail80>>
               r4 == <<225..236, Tail80, Tail80>>
               r5 == <<{237}, 128..159, Tail80>>
               r6 == <<238..239, Tail80, Tail80>>
               r7 == <<{240}, 144..191, Tail80, Tail80>>
               r8 == <<241..243, Tail80, Tail80, Tail80>>
               r9 == <<{244}, 128..143, Tail80, Tail80>>
    <2>1. Legal = {r1, r2, r3, r4, r5, r6, r7, r8, r9}
        BY DEF Legal
    <2>2. /\ Len(r1) = 1 /\ Len(r2) = 2 /\ Len(r3) = 3 /\ Len(r4) = 3 /\ Len(r5) = 3
          /\ Len(r6) = 3 /\ Len(r7) = 4 /\ Len(r8) = 4 /\ Len(r9) = 4
        OBVIOUS
    <2>3. /\ r1[1] = 0..127
          /\ r2[1] = 194..223 /\ r2[2] = Tail80
          /\ r3[1] = {224} /\ r3[2] = 160..191 /\ r3[3] = Tail80
          /\ r4[1] = 225..236 /\ r4[2] = Tail80 /\ r4[3] = Tail80
          /\ r5[1] = {237} /\ r5[2] = 128..159 /\ r5[3] = Tail80
          /\ r6[1] = 238..239 /\ r6[2] = Tail80 /\ r6[3] = Tail80
        OBVIOUS
    <2>4. /\ r7[1] = {240} /\ r7[2] = 144..191 /\ r7[3] = Tail80 /\ r7[4] = Tail80
          /\ r8[1] = 241..243 /\ r8[2] = Tail80 /\ r8[3] = Tail80 /\ r8[4] = Tail80
          /\ r9[1] = {244} /\ r9[2] = 128..143 /\ r9[3] = Tail80 /\ r9[4] = Tail80
        OBVIOUS
    <2> HIDE DEF a, b, c, d, r1, r2, r3, r4, r5, r6, r7, r8, r9
    <2>5. begins <=>
              \/ len = 1 /\ Stands(r1, m, p)
              \/ len = 2 /\ Stands(r2, m, p)
              \/ len = 3 /\ (Stands(r3, m, p) \/ Stands(r4, m, p) \/ Stands(r5, m, p) \/ Stands(r6, m, p))
              \/ len = 4 /\ (Stands(r7, m, p) \/ Stands(r8, m, p) \/ Stands(r9, m, p))
        BY <2>1, <2>2 DEF Begins
    <2> DEFINE Fits(row) == /\ a \in row[1]
                            /\ m > 1 => b \in row[2]
                            /\ m > 2 => c \in row[3]
                            /\ m > 3 => d \in row[4]
    <2>6. \A row : Stands(row, m, p) <=> Fits(row)
        BY <1>3
    <2>7. /\ m <= 1 => (Fits(r1) <=> a \in 0..127)
          /\ m <= 2 => (Fits(r2) <=> a \in 194..223 /\ (m > 1 => b \in Tail80))
        <3>1. r1[1] = 0..127 /\ r2[1] = 194..223 /\ r2[2] = Tail80
            BY <2>3
        <3>2. m <= 1 => ~(m > 1) /\ ~(m > 2) /\ ~(m > 3)
            OBVIOUS
        <3>3. m <= 2 => ~(m > 2) /\ ~(m > 3)
            OBVIOUS
        <3>4. m <= 1 => (Fits(r1) <=> a \in 0..127)
            BY <3>1, <3>2
        <3>5. m <= 2 => (Fits(r2) <=> a \in 194..223 /\ (m > 1 => b \in Tail80))
            BY <3>1, <3>3
        <3> QED BY <3>4, <3>5
    <2>8. m <= 3 => (Fits(r3) <=> a = 224 /\ (m > 1 => b \in 160..191) /\ (m > 2 => c \in Tail80))
        <3>1. r3[2] = 160..191 /\ r3[3] = Tail80
            BY <2>3
        <3>2. a \in r3[1] <=> a = 224
            BY <2>3
        <3>3. Fits(r3) <=> a \in r3[1] /\ (m > 1 => b \in r3[2]) /\ (m > 2 => c \in r3[3]) /\ (m > 3 => d \in r3[4])
            OBVIOUS
        <3> HIDE DEF Fits
        <3> QED BY <3>1, <3>2, <3>3
    <2>9. m <= 3 => (Fits(r4) <=> a \in 225..236 /\ (m > 1 => b \in Tail80) /\ (m > 2 => c \in Tail80))
        BY <2>3
    <2>10. m <= 3 => (Fits(r5) <=> a = 237 /\ (m > 1 => b \in 128..159) /\ (m > 2 => c \in Tail80))
        <3>1. r5[2] = 128..159 /\ r5[3] = Tail80
            BY <2>3
        <3>2. a \in r5[1] <=> a = 237
            BY <2>3
        <3>3. Fits(r5) <=> a \in r5[1] /\ (m > 1 => b \in r5[2]) /\ (m > 2 => c \in r5[3]) /\ (m > 3 => d \in r5[4])
            OBVIOUS
        <3> HIDE DEF Fits
        <3> QED BY <3>1, <3>2, <3>3
    <2>11. m <= 3 => (Fits(r6) <=> a \in 238..239 /\ (m > 1 => b \in Tail80) /\ (m > 2 => c \in Tail80))
        BY <2>3
    <2>12. Fits(r7) <=> /\ a = 240 /\ (m > 1 => b \in 144..191)
                        /\ (m > 2 => c \in Tail80) /\ (m > 3 => d \in Tail80)
        BY <2>4
    <2>13. Fits(r8) <=> /\ a \in 241..243 /\ (m > 1 => b \in Tail80)
                        /\ (m > 2 => c \in Tail80) /\ (m > 3 => d \in Tail80)
        BY <2>4
    <2>14. Fits(r9) <=> /\ a = 244 /\ (m > 1 => b \in 128..143)
                        /\ (m > 2 => c \in Tail80) /\ (m > 3 => d \in Tail80)
        BY <2>4
    <2> HIDE DEF Fits
    <2>15. m <= len
        OBVIOUS
    <2>16. CASE len = 1
        <3>1. m <= 1 /\ len # 2 /\ len # 3 /\ len # 4
            BY <2>15, <2>16
        <3> QED BY <2>5, <2>6, <2>7, <2>16, <3>1
    <2>17. CASE len = 2
        BY <2>5, <2>6, <2>7, <2>15, <2>17
    <2>18. CASE len = 3
        BY <2>5, <2>6, <2>8, <2>9, <2>10, <2>11, <2>15, <2>18
    <2>19. CASE len = 4
        <3>1. len # 1 /\ len # 2 /\ len # 3
            BY <2>19
        <3>2. begins <=>
                  Fits(r7) \/ Fits(r8) \/ Fits(r9)
            BY <2>5, <2>6, <2>19, <3>1
        <3> QED BY <2>12, <2>13, <2>14, <2>19, <3>1, <3>2
    <2> QED BY <2>16, <2>17, <2>18, <2>19
<1> HIDE DEF begins
<1> SUFFICES begins <=> /\ L(p) = len /\ B(p) <= 244
                        /\ m = 1 => B(p) \notin {192, 193}
                        /\ \A k \in 1..m - 1 : L(p + k) = 0
                        /\ m > 1 => ~BadPair(B(p), B(p + 1))
    BY DEF begins
<1>5. (\A k \in 1..m - 1 : L(p + k) = 0) <=>
          /\ m > 1 => b \in Tail80
          /\ m > 2 => c \in Tail80
          /\ m > 3 => d \in Tail80
    <2>1. \A k \in 1..m - 1 : (m > 1 /\ k = 1) \/ (m > 2 /\ k = 2) \/ (m > 3 /\ k = 3)
        OBVIOUS
    <2>2. (m > 1 => 1 \in 1..m - 1) /\ (m > 2 => 2 \in 1..m - 1) /\ (m > 3 => 3 \in 1..m - 1)
        OBVIOUS
    <2>3. \A x \in Byte : SeqLen(x) = 0 <=> x \in Tail80
        BY DEF SeqLen, Tail80, Byte
    <2> QED BY <1>1, <2>1, <2>2, <2>3 DEF L
<1>6. m > 1 /\ b \in Tail80 =>
          (BadPair(a, b) <=> \/ a = 237 /\ b > 159
                             \/ a = 244 /\ b > 143
                             \/ a \in {192, 193}
                             \/ a = 224 /\ b < 160
                             \/ a = 240 /\ b < 144)
    <2> HIDE DEF a, b
    <2> SUFFICES ASSUME m > 1, b \in Tail80
                 PROVE  BadPair(a, b) <=> \/ a = 237 /\ b > 159
                                          \/ a = 244 /\ b > 143
                                          \/ a \in {192, 193}
                                          \/ a = 224 /\ b < 160
                                          \/ a = 240 /\ b < 144
        OBVIOUS
    <2>1. a \in Byte /\ b \in Byte /\ b \in 128..191
        BY <1>1 DEF Tail80
    <2> QED BY <2>1, Pairs
<1>7. L(p) = SeqLen(a)
    BY <1>1 DEF L
<1> HIDE DEF a, b, c, d
<1>8. CASE m = 1
    BY <1>1, <1>4, <1>5, <1>7, <1>8 DEF SeqLen, Byte
<1>9. CASE m > 1
    <2>1. (\A k \in 1..m - 1 : L(p + k) = 0) => b \in Tail80 /\ L(p + 1) = 0
        BY <1>5, <1>9
    <2>2. begins <=>
              /\ b \in Tail80 /\ (m > 2 => c \in Tail80) /\ (m > 3 => d \in Tail80)
              /\ \/ len = 2 /\ a \in 194..223
                 \/ len = 3 /\ ((a = 224 /\ b > 159) \/ a \in 225..236 \/ (a = 237 /\ b < 160) \/ a \in 238..239)
                 \/ len = 4 /\ ((a = 240 /\ b > 143) \/ a \in 241..243 \/ (a = 244 /\ b < 144))
        <3>1. len = 2 => m <= 2
            OBVIOUS
        <3>2. len = 3 => m <= 3
            OBVIOUS
        <3>3. len # 1
            BY <1>9
        <3>4. /\ b \in 160..191 <=> b \in Tail80 /\ b > 159
              /\ b \in 128..159 <=> b \in Tail80 /\ b < 160
              /\ b \in 144..191 <=> b \in Tail80 /\ b > 143
              /\ b \in 128..143 <=> b \in Tail80 /\ b < 144
            <4>1. \A x \in 0..255 :
                      /\ x \in 160..191 <=> x \in 128..191 /\ x > 159
                      /\ x \in 128..159 <=> x \in 128..191 /\ x < 160
                      /\ x \in 144..191 <=> x \in 128..191 /\ x > 143
                      /\ x \in 128..143 <=> x \in 128..191 /\ x < 144
                OBVIOUS
            <4>2. b \in 0..255
                BY <1>1, <1>9 DEF Byte
            <4> QED BY <4>1, <4>2 DEF Tail80
        <3>5. CASE len = 2
            BY <1>4, <1>9, <3>1, <3>5
        <3>6. CASE len = 3
            <4>1. begins <=>
                      /\ m > 2 => c \in Tail80
                      /\ \/ a = 224 /\ b \in 160..191
                         \/ a \in 225..236 /\ b \in Tail80
                         \/ a = 237 /\ b \in 128..159
                         \/ a \in 238..239 /\ b \in Tail80
                BY <1>4, <1>9, <3>6
            <4>2. ~(m > 3)
                BY <3>2, <3>6
            <4> QED BY <3>4, <3>6, <4>1, <4>2
        <3>7. CASE len = 4
            <4>1. begins <=>
                      /\ m > 2 => c \in Tail80
                      /\ m > 3 => d \in Tail80
                      /\ \/ a = 240 /\ b \in 144..191
                         \/ a \in 241..243 /\ b \in Tail80
                         \/ a = 244 /\ b \in 128..143
                BY <1>4, <1>9, <3>7
            <4> QED BY <3>4, <3>7, <4>1
        <3> QED BY <3>3, <3>5, <3>6, <3>7
    <2>3. a \in 0..255 /\ (len = 2 \/ len = 3 \/ len = 4)
        BY <1>1, <1>9 DEF Byte
    <2>4. b \in Tail80 =>
             ((\/ len = 2 /\ a \in 194..223
               \/ len = 3 /\ ((a = 224 /\ b > 159) \/ a \in 225..236 \/ (a = 237 /\ b < 160) \/ a \in 238..239)
               \/ len = 4 /\ ((a = 240 /\ b > 143) \/ a \in 241..243 \/ (a = 244 /\ b < 144)))
              <=> SeqLen(a) = len /\ a <= 244 /\ ~BadPair(a, b))
        <3> SUFFICES ASSUME b \in Tail80
                     PROVE  (\/ len = 2 /\ a \in 194..223
                             \/ len = 3 /\ ((a = 224 /\ b > 159) \/ a \in 225..236 \/ (a = 237 /\ b < 160) \/ a \in 238..239)
                             \/ len = 4 /\ ((a = 240 /\ b > 143) \/ a \in 241..243 \/ (a = 244 /\ b < 144)))
                            <=> SeqLen(a) = len /\ a <= 244 /\ ~BadPair(a, b)
            OBVIOUS
        <3>1. b \in 128..191
            BY DEF Tail80
        <3>2. BadPair(a, b) <=> \/ a = 237 /\ b > 159
                                \/ a = 244 /\ b > 143
                                \/ a \in {192, 193}
                                \/ a = 224 /\ b < 160
                                \/ a = 240 /\ b < 144
            BY <1>6, <1>9
        <3>3. CASE len = 2
            BY <2>3, <3>1, <3>2, <3>3 DEF SeqLen
        <3>4. CASE len = 3
            <4>1. SeqLen(a) = 3 <=> a \in 224..239
                BY <2>3 DEF SeqLen
            <4> QED BY <2>3, <3>1, <3>2, <3>4, <4>1
        <3>5. CASE len = 4
            <4>1. SeqLen(a) = 4 <=> a \in 240..255
                BY <2>3 DEF SeqLen
            <4> QED BY <2>3, <3>1, <3>2, <3>5, <4>1
        <3> QED BY <2>3, <3>3, <3>4, <3>5
    <2> QED BY <1>1, <1>5, <1>7, <1>9, <2>1, <2>2, <2>4
<1> QED BY <1>8, <1>9

\* The recursion of starts has a solution.
LEMMA StartsDef ==
    ASSUME text \in Seq(Byte)
    PROVE  \A p \in 1..Len(text) + 1 :
              starts[p] <=> p = 1 \/ \E row \in Legal :
                                        /\ p - Len(row) >= 1
                                        /\ Stands(row, Len(row), p - Len(row))
                                        /\ starts[p - Len(row)]
PROOF
<1> DEFINE N == Len(text) + 1
           after(f, p) == p = 1 \/ \E row \in Legal :
                                      /\ p - Len(row) >= 1
                                      /\ Stands(row, Len(row), p - Len(row))
                                      /\ f[p - Len(row)]
           S == {m \in Nat : \E f : f = [p \in 1..m |-> after(f, p)]}
<1>1. N \in Nat
    OBVIOUS
<1>2. \A row \in Legal : Len(row) \in 1..4
    BY DEF Legal
<1>3. 0 \in S
    <2> DEFINE f == [p \in 1..0 |-> TRUE]
    <2>1. f = [p \in 1..0 |-> after(f, p)]
        OBVIOUS
    <2> QED BY <2>1
<1>4. ASSUME NEW m \in 0..N - 1, m \in S PROVE m + 1 \in S
    <2>1. PICK f : f = [p \in 1..m |-> after(f, p)]
        BY <1>4
    <2> DEFINE g == [p \in 1..m + 1 |-> after(f, p)]
    <2>2. ASSUME NEW q \in 1..m PROVE g[q] = f[q]
        <3>1. g[q] = after(f, q)
            BY <1>1
        <3> HIDE DEF after, g
        <3>2. f[q] = after(f, q)
            BY <2>1
        <3> QED BY <3>1, <3>2
    <2>3. ASSUME NEW p \in 1..m + 1 PROVE after(g, p) = after(f, p)
        <3>1. ASSUME NEW row \in Legal, p - Len(row) >= 1 PROVE g[p - Len(row)] = f[p - Len(row)]
            <4>1. p - Len(row) \in 1..m
                <5>1. Len(row) \in 1..4
                    BY <1>2
                <5>2. \A l \in 1..4 : p - l >= 1 => p - l \in 1..m
                    BY <1>1
                <5> QED BY <3>1, <5>1, <5>2
            <4> HIDE DEF g
            <4> QED BY <2>2, <4>1
        <3> HIDE DEF g
        <3> QED BY <3>1
    <2>4. g = [p \in 1..m + 1 |-> after(g, p)]
        <3> DEFINE h == [p \in 1..m + 1 |-> after(g, p)]
        <3>1. \A p \in 1..m + 1 : g[p] = after(f, p) /\ h[p] = after(g, p)
            OBVIOUS
        <3> HIDE DEF after
        <3> QED BY <2>3
    <2>5. m + 1 \in Nat
        BY <1>1
    <2> HIDE DEF g, after
    <2> QED BY <2>4, <2>5
<1>5. N \in S
    <2> HIDE DEF S
    <2>1. 0..N \subseteq S
        BY <1>1, <1>3, <1>4, Induction
    <2> QED BY <1>1, <2>1
<1>6. PICK f : f = [p \in 1..N |-> after(f, p)]
    BY <1>5
<1>7. starts = [p \in 1..N |-> after(starts, p)]
    BY <1>6 DEF starts
<1>8. \A p \in 1..N : starts[p] = after(starts, p)
    <2> HIDE DEF after
    <2> QED BY <1>7
<1> QED BY <1>8

LEMMA Ends ==
    ASSUME text \in Seq(Byte), NEW q \in Int, Good(q), Good(q - 1), Good(q - 2)
    PROVE  Left(q) = 0 =>
              \/ L(q) = 1 /\ Left(q - 1) = 0
              \/ L(q) = 0 /\ L(q - 1) = 2
              \/ L(q) = 0 /\ L(q - 1) = 0 /\ L(q - 2) = 3
              \/ L(q) = 0 /\ L(q - 1) = 0 /\ L(q - 2) = 0 /\ L(q - 3) = 4
PROOF
<1>1. /\ q - 1 \in Int /\ q - 2 \in Int /\ q - 3 \in Int
      /\ q - 1 - 1 = q - 2 /\ q - 1 - 2 = q - 3 /\ q - 2 - 1 = q - 3
    OBVIOUS
<1>2. /\ L(q) \in 0..4 /\ L(q - 1) \in 0..4 /\ L(q - 2) \in 0..4 /\ L(q - 3) \in 0..4
      /\ Left(q - 1) \in 0..6 /\ Left(q - 2) \in 0..6 /\ Left(q - 3) \in 0..6
    BY <1>1, Types
<1>3. /\ Left(q) = Saturating(L(q) - 1) + Saturating(L(q - 1) - 2) + Saturating(L(q - 2) - 3)
      /\ Left(q - 1) = Saturating(L(q - 1) - 1) + Saturating(L(q - 2) - 2) + Saturating(L(q - 3) - 3)
      /\ Left(q - 2) = Saturating(L(q - 2) - 1) + Saturating(L(q - 3) - 2) + Saturating(L(q - 2 - 2) - 3)
      /\ Left(q - 3) = Saturating(L(q - 3) - 1) + Saturating(L(q - 3 - 1) - 2) + Saturating(L(q - 3 - 2) - 3)
    BY <1>1 DEF Left
<1>4. L(q - 2 - 2) \in 0..4 /\ L(q - 3 - 1) \in 0..4 /\ L(q - 3 - 2) \in 0..4
    BY <1>1, Types
<1>5. /\ Left(q - 1) > 0 <=> L(q) = 0
      /\ Left(q - 2) > 0 <=> L(q - 1) = 0
      /\ Left(q - 3) > 0 <=> L(q - 2) = 0
    BY <1>1 DEF Good
<1> DEFINE l0 == L(q)
           l1 == L(q - 1)
           l2 == L(q - 2)
           l3 == L(q - 3)
           l4 == L(q - 2 - 2)
           l5 == L(q - 3 - 1)
           l6 == L(q - 3 - 2)
           left1 == Left(q - 1)
<1>6. /\ l0 \in 0..4 /\ l1 \in 0..4 /\ l2 \in 0..4 /\ l3 \in 0..4
      /\ l4 \in 0..4 /\ l5 \in 0..4 /\ l6 \in 0..4
    BY <1>2, <1>4
<1>7. /\ Left(q) = Saturating(l0 - 1) + Saturating(l1 - 2) + Saturating(l2 - 3)
      /\ left1 = Saturating(l1 - 1) + Saturating(l2 - 2) + Saturating(l3 - 3)
      /\ left1 > 0 <=> l0 = 0
      /\ Saturating(l2 - 1) + Saturating(l3 - 2) + Saturating(l4 - 3) > 0 <=> l1 = 0
      /\ Saturating(l3 - 1) + Saturating(l5 - 2) + Saturating(l6 - 3) > 0 <=> l2 = 0
    BY <1>3, <1>5
<1> HIDE DEF l0, l1, l2, l3, l4, l5, l6, left1
<1>8. Left(q) = 0 => \/ l0 = 1 /\ left1 = 0
                     \/ l0 = 0 /\ l1 = 2
                     \/ l0 = 0 /\ l1 = 0 /\ l2 = 3
                     \/ l0 = 0 /\ l1 = 0 /\ l2 = 0 /\ l3 = 4
    BY <1>6, <1>7 DEF Saturating
<1> QED BY <1>8 DEF l0, l1, l2, l3, left1

\* A continuation where one is owed.
LEMMA Continue ==
    ASSUME text \in Seq(Byte), NEW n \in Nat, AllGood(n), Left(n) > 0, L(n + 1) = 0,
           L(n) = 0 \/ ~BadPair(B(n), B(n + 1))
    PROVE  AllGood(n + 1) /\ Left(n + 1) = Left(n) - 1
PROOF
<1>1. /\ n + 1 \in Int /\ n \in Int /\ n - 1 \in Int /\ n + 1 - 1 = n /\ n + 1 - 2 = n - 1
      /\ B(n) \in Byte /\ B(n + 1) \in Byte
    BY Types
<1>2. B(n + 1) \in 128..191
    BY <1>1, Classes
<1>3. ~BadPair(B(n), B(n + 1))
    <2>1. L(n) = 0 => B(n) \in 128..191
        BY <1>1, Classes
    <2>2. \A b \in 128..191 : b \notin 192..255
        OBVIOUS
    <2>3. L(n) = 0 => ~BadPair(B(n), B(n + 1))
        <3> SUFFICES ASSUME L(n) = 0 PROVE ~BadPair(B(n), B(n + 1))
            OBVIOUS
        <3>1. B(n) \notin 192..255
            BY <2>1, <2>2
        <3> QED BY <1>1, <3>1, LoneLeader
    <2> QED BY <2>3
<1>4. Good(n + 1)
    <2>1. \A b \in 128..191 : b <= 244
        OBVIOUS
    <2>2. B(n + 1) <= 244
        BY <1>2, <2>1
    <2>3. Left(n + 1 - 1) = Left(n) /\ B(n + 1 - 1) = B(n)
        BY <1>1
    <2> QED BY <1>3, <2>2, <2>3 DEF Good
<1>5. AllGood(n + 1)
    BY <1>4 DEF AllGood
<1>6. Good(n) /\ Good(n - 1)
    BY <1>1, GoodBefore
<1> QED BY <1>1, <1>4, <1>5, <1>6, LeftNext

\* The first m bytes of a character of len bytes, where a character can begin.
LEMMA Prefix ==
    ASSUME text \in Seq(Byte), NEW p \in Nat \ {0}, AllGood(p - 1), Left(p - 1) = 0,
           NEW len \in 1..4, NEW m \in 1..len, L(p) = len, B(p) <= 244,
           \A k \in 1..m - 1 : L(p + k) = 0, m > 1 => ~BadPair(B(p), B(p + 1))
    PROVE  AllGood(p + m - 1) /\ Left(p + m - 1) = len - m
PROOF
<1>1. /\ p \in Int /\ p - 1 \in Int /\ p - 2 \in Int /\ p - 3 \in Int
      /\ p - 1 - 1 = p - 2 /\ p - 1 - 2 = p - 3
      /\ B(p) \in Byte /\ B(p - 1) \in Byte
      /\ L(p - 1) \in 0..4 /\ L(p - 2) \in 0..4 /\ L(p - 3) \in 0..4
    BY Types
<1>2. Good(p)
    <2>1. Left(p - 1) = Saturating(L(p - 1) - 1) + Saturating(L(p - 2) - 2) + Saturating(L(p - 3) - 3)
        BY <1>1 DEF Left
    <2>2. L(p - 1) <= 1
        BY <1>1, <2>1 DEF Saturating
    <2>3. B(p - 1) \notin 192..255
        <3>1. L(p - 1) \notin {2, 3, 4}
            BY <1>1, <2>2
        <3> QED BY <1>1, <3>1, Classes
    <2>4. ~BadPair(B(p - 1), B(p))
        BY <1>1, <2>3, LoneLeader
    <2> QED BY <2>4 DEF Good
<1>3. AllGood(p) /\ Left(p) = len - 1
    <2>1. AllGood(p)
        BY <1>2 DEF AllGood
    <2>2. Good(p - 1) /\ Good(p - 2)
        BY <1>1, GoodBefore
    <2> QED BY <1>1, <1>2, <2>1, <2>2, LeftNext
<1>4. CASE m = 1
    BY <1>3, <1>4
<1>5. m > 1 => AllGood(p + 1) /\ Left(p + 1) = len - 2
    <2> SUFFICES ASSUME m > 1 PROVE AllGood(p + 1) /\ Left(p + 1) = len - 2
        OBVIOUS
    <2>1. L(p + 1) = 0 /\ ~BadPair(B(p), B(p + 1)) /\ Left(p) > 0 /\ p \in Nat
        BY <1>3
    <2> QED BY <1>3, <2>1, Continue
<1>6. m > 2 => AllGood(p + 2) /\ Left(p + 2) = len - 3
    <2> SUFFICES ASSUME m > 2 PROVE AllGood(p + 2) /\ Left(p + 2) = len - 3
        OBVIOUS
    <2>1. L(p + 1 + 1) = 0 /\ L(p + 1) = 0 /\ Left(p + 1) > 0 /\ p + 1 \in Nat /\ p + 1 + 1 = p + 2
        BY <1>5
    <2>2. AllGood(p + 1 + 1) /\ Left(p + 1 + 1) = Left(p + 1) - 1
        BY <1>5, <2>1, Continue
    <2> QED BY <1>5, <2>1, <2>2
<1>7. m > 3 => AllGood(p + 3) /\ Left(p + 3) = len - 4
    <2> SUFFICES ASSUME m > 3 PROVE AllGood(p + 3) /\ Left(p + 3) = len - 4
        OBVIOUS
    <2>1. L(p + 2 + 1) = 0 /\ L(p + 2) = 0 /\ Left(p + 2) > 0 /\ p + 2 \in Nat /\ p + 2 + 1 = p + 3
        BY <1>6
    <2>2. AllGood(p + 2 + 1) /\ Left(p + 2 + 1) = Left(p + 2) - 1
        BY <1>6, <2>1, Continue
    <2> QED BY <1>6, <2>1, <2>2
<1>8. /\ m = 2 => p + m - 1 = p + 1
      /\ m = 3 => p + m - 1 = p + 2
      /\ m = 4 => p + m - 1 = p + 3
      /\ m = 1 \/ m = 2 \/ m = 3 \/ m = 4
    OBVIOUS
<1> QED BY <1>4, <1>5, <1>6, <1>7, <1>8

\* A character can begin where all is good and nothing is owed, and only there.
LEMMA StartsRight ==
    ASSUME text \in Seq(Byte)
    PROVE  \A p \in 1..Len(text) + 1 : starts[p] <=> AllGood(p - 1) /\ Left(p - 1) = 0
PROOF
<1> DEFINE N == Len(text) + 1
           Right(p) == starts[p] <=> AllGood(p - 1) /\ Left(p - 1) = 0
           S == {m \in Nat : \A p \in 1..m : Right(p)}
<1>1. N \in Nat /\ \A row \in Legal : Len(row) \in 1..4
    BY DEF Legal
<1>2. 0 \in S
    OBVIOUS
<1>3. ASSUME NEW m \in 0..N - 1, m \in S PROVE m + 1 \in S
    <2>0. m \in Nat /\ m + 1 \in 1..N /\ m + 1 - 1 = m /\ m <= Len(text) /\ Len(text) \in Nat
          /\ \A p \in 1..m : Right(p)
        BY <1>1, <1>3
    <2>1. starts[m + 1] => AllGood(m) /\ Left(m) = 0
        <3> SUFFICES ASSUME starts[m + 1] PROVE AllGood(m) /\ Left(m) = 0
            OBVIOUS
        <3>1. CASE m = 0
            BY <3>1, Before DEF AllGood
        <3>2. CASE m # 0
            <4>1. PICK row \in Legal : /\ m + 1 - Len(row) >= 1
                                       /\ Stands(row, Len(row), m + 1 - Len(row))
                                       /\ starts[m + 1 - Len(row)]
                BY <2>0, <3>2, StartsDef
            <4> DEFINE len == Len(row)
                       q == m + 1 - len
            <4>2. len \in 1..4
                BY <1>1
            <4> HIDE DEF len
            <4>3. q \in 1..m /\ q \in 1..Len(text) /\ q + len - 1 <= Len(text) /\ q \in Nat \ {0}
                  /\ q + len - 1 = m /\ len \in len..4 /\ len \in 1..len
                <5>1. m + 1 - len >= 1
                    BY <4>1 DEF len
                <5> QED BY <2>0, <4>2, <5>1
            <4>4. AllGood(q - 1) /\ Left(q - 1) = 0
                BY <2>0, <4>1, <4>3 DEF len
            <4>5. Len(row) = len /\ Stands(row, len, q)
                BY <4>1 DEF len
            <4> HIDE DEF q
            <4>6. /\ L(q) = len /\ B(q) <= 244
                  /\ \A k \in 1..len - 1 : L(q + k) = 0
                  /\ len > 1 => ~BadPair(B(q), B(q + 1))
                <5>1. Begins(len, len, q)
                    BY <4>5 DEF Begins
                <5> QED BY <4>2, <4>3, <5>1, Rows
            <4>7. AllGood(q + len - 1) /\ Left(q + len - 1) = len - len
                BY <4>2, <4>3, <4>4, <4>6, Prefix
            <4> QED BY <4>2, <4>3, <4>7
        <3> QED BY <3>1, <3>2
    <2>2. AllGood(m) /\ Left(m) = 0 => starts[m + 1]
        <3> SUFFICES ASSUME AllGood(m), Left(m) = 0 PROVE starts[m + 1]
            OBVIOUS
        <3>1. CASE m = 0
            <4>1. 1 \in 1..Len(text) + 1
                BY <2>0
            <4> QED BY <3>1, <4>1, StartsDef
        <3>2. CASE m # 0
            <4>1. PICK len \in 1..4 : L(m + 1 - len) = len /\ \A k \in 1..len - 1 : L(m + 1 - len + k) = 0
                <5>1. Good(m) /\ Good(m - 1) /\ Good(m - 2) /\ m \in Int
                    BY <2>0, GoodBefore
                <5>2. \/ L(m) = 1
                      \/ L(m) = 0 /\ L(m - 1) = 2
                      \/ L(m) = 0 /\ L(m - 1) = 0 /\ L(m - 2) = 3
                      \/ L(m) = 0 /\ L(m - 1) = 0 /\ L(m - 2) = 0 /\ L(m - 3) = 4
                    BY <5>1, Ends
                <5>3. CASE L(m) = 1
                    <6>1. m + 1 - 1 = m
                        BY <2>0
                    <6> QED BY <5>3, <6>1
                <5>4. CASE L(m) = 0 /\ L(m - 1) = 2
                    <6>1. m + 1 - 2 = m - 1 /\ \A k \in 1..2 - 1 : m + 1 - 2 + k = m
                        BY <2>0
                    <6> QED BY <5>4, <6>1
                <5>5. CASE L(m) = 0 /\ L(m - 1) = 0 /\ L(m - 2) = 3
                    <6>1. m + 1 - 3 = m - 2 /\ \A k \in 1..3 - 1 : m + 1 - 3 + k \in {m, m - 1}
                        BY <2>0
                    <6>2. \A k \in 1..3 - 1 : L(m + 1 - 3 + k) = 0
                        BY <5>5, <6>1
                    <6> QED BY <5>5, <6>1, <6>2
                <5>6. CASE L(m) = 0 /\ L(m - 1) = 0 /\ L(m - 2) = 0 /\ L(m - 3) = 4
                    <6>1. m + 1 - 4 = m - 3 /\ \A k \in 1..4 - 1 : m + 1 - 4 + k \in {m, m - 1, m - 2}
                        BY <2>0
                    <6>2. \A k \in 1..4 - 1 : L(m + 1 - 4 + k) = 0
                        BY <5>6, <6>1
                    <6> QED BY <5>6, <6>1, <6>2
                <5> QED BY <5>2, <5>3, <5>4, <5>5, <5>6
            <4> DEFINE q == m + 1 - len
            <4>2. q \in Int /\ q <= m /\ q - 1 \in Int /\ q - 1 <= m /\ q + 1 - 1 = q /\ q + 1 \in Int
                BY <2>0
            <4>3. q >= 1
                BY <2>0, <3>2, <4>1, <4>2, Before
            <4>4. q \in 1..m /\ q \in 1..Len(text) /\ q + len - 1 <= Len(text) /\ len \in len..4
                  /\ q - 1 <= m /\ m + 1 - len = q
                BY <2>0, <4>2, <4>3
            <4>5. L(q) = len /\ \A k \in 1..len - 1 : L(q + k) = 0
                BY <4>1
            <4> HIDE DEF q
            <4>6. Good(q) /\ (len > 1 => Good(q + 1))
                <5>1. len > 1 => q + 1 <= m
                    BY <2>0, <4>2, <4>4
                <5> QED BY <2>0, <4>2, <5>1, GoodBefore
            <4>7. AllGood(q - 1) /\ Left(q - 1) = 0
                <5>1. AllGood(q - 1)
                    BY <2>0, <4>2 DEF AllGood
                <5>2. Left(q - 1) \in 0..6
                    BY <4>2, Types
                <5> QED BY <4>5, <4>6, <5>1, <5>2 DEF Good
            <4>8. starts[q]
                BY <2>0, <4>4, <4>7
            <4>9. B(q) <= 244 /\ (len > 1 => ~BadPair(B(q), B(q + 1)))
                BY <4>2, <4>6 DEF Good
            <4>10. len = 1 => B(q) \notin {192, 193}
                <5>1. \A b \in 0..127 : b \notin {192, 193}
                    OBVIOUS
                <5>2. len = 1 => B(q) \in 0..127
                    BY <4>2, <4>5, Classes
                <5> QED BY <5>1, <5>2
            <4>11. PICK row \in Legal : Len(row) = len /\ Stands(row, len, q)
                <5>1. Begins(len, len, q)
                    BY <4>4, <4>5, <4>9, <4>10, Rows
                <5> QED BY <5>1 DEF Begins
            <4>12. /\ m + 1 - Len(row) >= 1
                   /\ Stands(row, Len(row), m + 1 - Len(row))
                   /\ starts[m + 1 - Len(row)]
                BY <4>3, <4>4, <4>8, <4>11
            <4> QED BY <2>0, <4>12, StartsDef
        <3> QED BY <3>1, <3>2
    <2>3. Right(m + 1)
        BY <2>0, <2>1, <2>2
    <2> HIDE DEF Right
    <2>4. m + 1 \in Nat /\ \A p \in 1..m + 1 : p = m + 1 \/ p \in 1..m
        BY <2>0
    <2> QED BY <2>0, <2>3, <2>4
<1> HIDE DEF S
<1>4. 0..N \subseteq S
    BY <1>1, <1>2, <1>3, Induction
<1> QED BY <1>1, <1>4 DEF S

\* The reference in terms of single bytes.
LEMMA SoFar ==
    ASSUME text \in Seq(Byte), NEW n \in 0..Len(text)
    PROVE  /\ Complete(n) <=> AllGood(n) /\ Left(n) = 0
           /\ Pending(n) <=> AllGood(n) /\ Left(n) > 0
PROOF
<1>0. /\ n \in Nat /\ n \in Int /\ n - 1 \in Int /\ n - 2 \in Int /\ Len(text) \in Nat
      /\ n + 1 \in 1..Len(text) + 1 /\ n + 1 - 1 = n
      /\ \A p \in 1..n : /\ p \in 1..Len(text) + 1 /\ p \in 1..Len(text) /\ p \in Nat \ {0}
                         /\ p \in Int /\ n - p + 1 \in Nat
    OBVIOUS
<1>1. Complete(n) <=> AllGood(n) /\ Left(n) = 0
    BY <1>0, StartsRight DEF Complete
<1>2. Pending(n) => AllGood(n) /\ Left(n) > 0
    <2> SUFFICES ASSUME NEW p \in 1..n, starts[p],
                        \/ p = n /\ text[p] \in 192..244
                        \/ \E row \in Legal : n - p + 1 < Len(row) /\ Stands(row, n - p + 1, p)
                 PROVE  AllGood(n) /\ Left(n) > 0
        BY DEF Pending
    <2>1. AllGood(p - 1) /\ Left(p - 1) = 0
        BY <1>0, StartsRight
    <2> DEFINE m == n - p + 1
    <2>2. \E len \in 2..4 :
              /\ m \in 1..len - 1 /\ L(p) = len /\ B(p) <= 244
              /\ \A k \in 1..m - 1 : L(p + k) = 0
              /\ m > 1 => ~BadPair(B(p), B(p + 1))
        <3>1. CASE p = n /\ text[p] \in 192..244
            <4>1. B(p) = text[p]
                BY <1>0 DEF B
            <4>2. \A b \in 192..244 : b \in 192..255 /\ b <= 244
                OBVIOUS
            <4>3. L(p) \in {2, 3, 4} /\ B(p) <= 244
                <5>1. B(p) \in 192..244
                    BY <3>1, <4>1
                <5>2. B(p) \in 192..255 /\ B(p) <= 244
                    BY <4>2, <5>1
                <5> QED BY <1>0, <5>2, Classes
            <4>4. m = 1
                BY <3>1
            <4>5. L(p) \in 2..4 /\ m \in 1..L(p) - 1 /\ ~(m > 1) /\ \A k \in 1..m - 1 : FALSE
                BY <4>3, <4>4
            <4> HIDE DEF m
            <4> QED BY <4>3, <4>5
        <3>2. CASE \E row \in Legal : m < Len(row) /\ Stands(row, m, p)
            <4>1. PICK row \in Legal : m < Len(row) /\ Stands(row, m, p)
                BY <3>2
            <4> DEFINE len == Len(row)
            <4>2. len \in 1..4
                BY DEF Legal
            <4>3. m < len
                BY <4>1
            <4> HIDE DEF len
            <4>4. m \in 1..4 /\ p + m - 1 <= Len(text) /\ len \in m..4 /\ len \in 2..4 /\ m \in 1..len - 1
                BY <1>0, <4>2, <4>3
            <4>5. Begins(len, m, p)
                BY <4>1 DEF Begins, len
            <4> HIDE DEF m
            <4>6. /\ L(p) = len /\ B(p) <= 244
                  /\ \A k \in 1..m - 1 : L(p + k) = 0
                  /\ m > 1 => ~BadPair(B(p), B(p + 1))
                BY <1>0, <4>4, <4>5, Rows
            <4> QED BY <4>4, <4>6
        <3> QED BY <3>1, <3>2
    <2>3. PICK len \in 2..4 :
              /\ m \in 1..len - 1 /\ L(p) = len /\ B(p) <= 244
              /\ \A k \in 1..m - 1 : L(p + k) = 0
              /\ m > 1 => ~BadPair(B(p), B(p + 1))
        BY <2>2
    <2>4. len \in 1..4 /\ m \in 1..len /\ len - m > 0 /\ p + m - 1 = n /\ p \in Nat \ {0}
        BY <2>3
    <2> HIDE DEF m
    <2>5. AllGood(p + m - 1) /\ Left(p + m - 1) = len - m
        BY <2>1, <2>3, <2>4, Prefix
    <2> QED BY <2>4, <2>5
<1>3. AllGood(n) /\ Left(n) > 0 => Pending(n)
    <2> SUFFICES ASSUME AllGood(n), Left(n) > 0 PROVE Pending(n)
        OBVIOUS
    <2>1. /\ L(n) \in 0..4 /\ L(n - 1) \in 0..4 /\ L(n - 2) \in 0..4 /\ L(n - 3) \in 0..4
          /\ n - 3 \in Int
          /\ n - 1 - 1 = n - 2 /\ n - 1 - 2 = n - 3 /\ n - 2 - 1 = n - 3 /\ n - 2 - 2 = n - 4
        BY <1>0, Types
    <2>2. Good(n) /\ Good(n - 1) /\ Left(n - 1) \in 0..6 /\ Left(n - 2) \in 0..6
        BY <1>0, GoodBefore, Types
    <2>3. PICK d \in 1..3 : L(n + 1 - d) \in d + 1..4 /\ \A k \in 1..d - 1 : L(n + 1 - d + k) = 0
        <3> DEFINE l0 == L(n)
                   l1 == L(n - 1)
                   l2 == L(n - 2)
                   l3 == L(n - 3)
                   l4 == L(n - 4)
        <3>1. /\ Left(n) = Saturating(l0 - 1) + Saturating(l1 - 2) + Saturating(l2 - 3)
              /\ Left(n - 1) = Saturating(l1 - 1) + Saturating(l2 - 2) + Saturating(l3 - 3)
              /\ Left(n - 2) = Saturating(l2 - 1) + Saturating(l3 - 2) + Saturating(l4 - 3)
            BY <2>1 DEF Left
        <3>2. Left(n - 1) > 0 <=> l0 = 0
            BY <2>2 DEF Good
        <3>3. Left(n - 2) > 0 <=> l1 = 0
            BY <2>1, <2>2 DEF Good
        <3>4. l0 \in 0..4 /\ l1 \in 0..4 /\ l2 \in 0..4 /\ l3 \in 0..4 /\ l4 \in 0..4
            <4>1. n - 4 \in Int
                BY <1>0
            <4> QED BY <2>1, <4>1, Types
        <3> HIDE DEF l0, l1, l2, l3, l4
        <3>5. \/ l0 \in 2..4
              \/ l1 \in 3..4 /\ l0 = 0
              \/ l2 \in 4..4 /\ l1 = 0 /\ l0 = 0
            BY <3>1, <3>2, <3>3, <3>4 DEF Saturating
        <3>6. CASE l0 \in 2..4
            <4>1. n + 1 - 1 = n /\ 1 + 1 = 2
                BY <1>0
            <4> QED BY <3>6, <4>1 DEF l0
        <3>7. CASE l1 \in 3..4 /\ l0 = 0
            <4>1. n + 1 - 2 = n - 1 /\ 2 + 1 = 3 /\ \A k \in 1..2 - 1 : n + 1 - 2 + k = n
                BY <1>0
            <4> QED BY <3>7, <4>1 DEF l0, l1
        <3>8. CASE l2 \in 4..4 /\ l1 = 0 /\ l0 = 0
            <4>1. n + 1 - 3 = n - 2 /\ 3 + 1 = 4 /\ \A k \in 1..3 - 1 : n + 1 - 3 + k \in {n - 1, n}
                BY <1>0
            <4>2. \A k \in 1..3 - 1 : L(n + 1 - 3 + k) = 0
                BY <3>8, <4>1 DEF l0, l1
            <4> QED BY <3>8, <4>1, <4>2 DEF l2
        <3> QED BY <3>5, <3>6, <3>7, <3>8
    <2> DEFINE p == n + 1 - d
               len == L(p)
    <2>4. p \in Int /\ p <= n /\ p - 1 \in Int /\ p - 1 <= n /\ p + 1 - 1 = p /\ p + 1 \in Int
        BY <1>0
    <2>5. p >= 1
        <3>1. len # 1
            BY <2>3
        <3> HIDE DEF p
        <3> QED BY <2>4, <3>1, Before
    <2>6. p \in 1..n /\ d \in 1..4 /\ p + d - 1 <= Len(text) /\ n - p + 1 = d /\ len \in d..4 /\ d < len
        <3>1. len \in d + 1..4
            BY <2>3
        <3> HIDE DEF len
        <3> QED BY <1>0, <2>4, <2>5, <3>1
    <2>7. \A k \in 1..d - 1 : L(p + k) = 0
        BY <2>3
    <2>8. len \in {2, 3, 4}
        <3>1. len \in d + 1..4
            BY <2>3
        <3> HIDE DEF len
        <3> QED BY <3>1
    <2> HIDE DEF p
    <2>9. Good(p) /\ (d > 1 => Good(p + 1))
        <3>1. d > 1 => p + 1 <= n
            BY <1>0, <2>4, <2>6
        <3> QED BY <1>0, <2>4, <3>1, GoodBefore
    <2>10. AllGood(p - 1) /\ Left(p - 1) = 0
        <3>1. AllGood(p - 1)
            BY <1>0, <2>4 DEF AllGood
        <3>2. Left(p - 1) \in 0..6
            BY <2>4, Types
        <3> QED BY <2>8, <2>9, <3>1, <3>2 DEF Good
    <2>11. starts[p]
        BY <1>0, <2>6, <2>10, StartsRight
    <2>12. B(p) <= 244 /\ (d > 1 => ~BadPair(B(p), B(p + 1)))
        BY <2>4, <2>9 DEF Good
    <2>13. B(p) \in 192..255 /\ B(p) = text[p]
        BY <1>0, <2>4, <2>6, <2>8, Classes DEF B
    <2>14. CASE d = 1
        <3>1. p = n
            BY <2>4, <2>6, <2>14
        <3>2. B(p) \in 192..244
            <4> DEFINE b == B(p)
            <4>1. b \in 192..255 /\ b <= 244
                BY <2>12, <2>13
            <4> HIDE DEF b
            <4>2. b \in 192..244
                BY <4>1
            <4> QED BY <4>2 DEF b
        <3>3. text[p] \in 192..244
            BY <2>13, <3>2
        <3> QED BY <2>6, <2>11, <3>1, <3>3 DEF Pending
    <2>15. CASE d # 1
        <3>1. Begins(len, d, p)
            BY <1>0, <2>6, <2>7, <2>12, <2>15, Rows
        <3>2. PICK row \in Legal : Len(row) = len /\ Stands(row, d, p)
            BY <3>1 DEF Begins
        <3>3. n - p + 1 < Len(row) /\ Stands(row, n - p + 1, p)
            BY <2>6, <3>2
        <3> QED BY <2>6, <2>11, <3>3 DEF Pending
    <2> QED BY <2>14, <2>15
<1> QED BY <1>1, <1>2, <1>3

---------------------------------------------------------------------------
(* A lane.                                                                 *)

\* What the record of a lane tells of the text up to i.  After a stretch of
\* ASCII it is not that of the last lane, but it tells the same.
Record(raw, carries, i) ==
    /\ carries \in [Lanes -> Nat]
    /\ raw \in [Lanes -> Byte]
    /\ Saturating(carries[Lane - 1] - 1) = Left(i)
    /\ Saturating(carries[Lane - 2] - 2) > 0 => Left(i) > 0
    /\ raw[Lane - 1] = B(i) \/ (raw[Lane - 1] \notin 192..255 /\ B(i) \notin 192..255)

\* The carry of a byte is its own length and what is owed before it.  That of a
\* lane's first byte can count what is owed twice, which no later byte sees.
LEMMA Carries ==
    ASSUME text \in Seq(Byte), NEW i \in Nat, NEW raw, NEW before, Record(raw, before, i),
           NEW lengths, lengths = [k \in Lanes |-> L(i + k + 1)]
    PROVE  /\ avxcarry_continuations(lengths, before) \in [Lanes -> Nat]
           /\ AllGood(i) =>
                 (avxcarry_continuations(lengths, before)[0] > L(i + 1) <=> Left(i) > 0)
           /\ \A k \in 1..Lane - 1 : AllGood(i + k) =>
                 avxcarry_continuations(lengths, before)[k] = L(i + k + 1) + Left(i + k)
PROOF
<1> USE LaneAssumption
<1> DEFINE carries == avxcarry_continuations(lengths, before)
           c1 == before[Lane - 1]
           c2 == before[Lane - 2]
           right1 == [k \in Lanes |-> Saturating(push_last_byte_of_a_to_b(before, lengths)[k] - 1)]
           sum == [k \in Lanes |-> lengths[k] + right1[k]]
           right2 == [k \in Lanes |-> Saturating(push_last_2bytes_of_a_to_b(before, sum)[k] - 2)]
<1>0. /\ \A k \in Lanes : k \in Nat /\ k < Lane /\ k \in Int /\ (k >= 1 => k - 1 \in Lanes) /\ (k >= 2 => k - 2 \in Lanes)
      /\ \A k \in Nat : k < Lane => k \in Lanes
      /\ 0 \in Lanes /\ 1 \in Lanes /\ Lane - 1 \in Lanes /\ Lane - 2 \in Lanes
    BY DEF Lanes
<1>1. c1 \in Nat /\ c2 \in Nat /\ Saturating(c1 - 1) = Left(i) /\ (Saturating(c2 - 2) > 0 => Left(i) > 0)
    BY <1>0 DEF Record
<1>2. carries = [k \in Lanes |-> sum[k] + right2[k]]
    BY DEF avxcarry_continuations
<1>3. \A k \in Lanes : lengths[k] = L(i + k + 1) /\ lengths[k] \in 0..4
    <2>1. ASSUME NEW k \in Lanes PROVE lengths[k] = L(i + k + 1) /\ lengths[k] \in 0..4
        <3>1. i + k + 1 \in Int
            BY DEF Lanes
        <3> QED BY <3>1, Types
    <2> QED BY <2>1
<1> HIDE DEF c1, c2
<1>4. \A k \in Lanes : right1[k] = IF k = 0 THEN Saturating(c1 - 1) ELSE Saturating(lengths[k - 1] - 1)
    BY <1>0 DEF push_last_byte_of_a_to_b, c1
<1>5. \A k \in Lanes : sum[k] = lengths[k] + right1[k]
    OBVIOUS
<1>6. \A k \in Lanes : right2[k] = IF k = 0 THEN Saturating(c2 - 2)
                                   ELSE IF k = 1 THEN Saturating(c1 - 2)
                                   ELSE Saturating(sum[k - 2] - 2)
    <2> HIDE DEF sum
    <2>1. Lane - 2 + 0 = Lane - 2 /\ Lane - 2 + 1 = Lane - 1
        OBVIOUS
    <2>2. \A k \in Lanes : push_last_2bytes_of_a_to_b(before, sum)[k] =
                              IF k = 0 THEN c2 ELSE IF k = 1 THEN c1 ELSE sum[k - 2]
        BY <1>0, <2>1 DEF push_last_2bytes_of_a_to_b, c1, c2
    <2> QED BY <2>2
<1>7. \A k \in Lanes : carries[k] = sum[k] + right2[k]
    BY <1>2
<1>8. \A k \in Lanes : carries[k] \in Nat
    <2> HIDE DEF right1, sum, right2, carries
    <2>0. \A n \in Nat : Saturating(n - 1) \in Nat /\ Saturating(n - 2) \in Nat
        BY DEF Saturating
    <2>1. \A k \in Lanes : lengths[k] \in Nat
        BY <1>3
    <2>2. \A k \in Lanes : right1[k] \in Nat
        <3>1. ASSUME NEW k \in Lanes PROVE right1[k] \in Nat
            <4>1. CASE k = 0
                BY <1>1, <1>4, <2>0, <4>1
            <4>2. CASE k # 0
                <5>1. k - 1 \in Lanes
                    BY <4>2 DEF Lanes
                <5> QED BY <1>4, <2>0, <2>1, <4>2, <5>1
            <4> QED BY <4>1, <4>2
        <3> QED BY <3>1
    <2>3. \A k \in Lanes : sum[k] \in Nat
        BY <1>5, <2>1, <2>2
    <2>4. \A k \in Lanes : right2[k] \in Nat
        <3>1. ASSUME NEW k \in Lanes PROVE right2[k] \in Nat
            <4>1. CASE k = 0
                BY <1>1, <1>6, <2>0, <4>1
            <4>2. CASE k = 1
                BY <1>1, <1>6, <2>0, <4>2
            <4>3. CASE k # 0 /\ k # 1
                <5>1. k - 2 \in Lanes
                    BY <4>3 DEF Lanes
                <5> QED BY <1>6, <2>0, <2>3, <4>3, <5>1
            <4> QED BY <4>1, <4>2, <4>3
        <3> QED BY <3>1
    <2> QED BY <1>7, <2>3, <2>4
<1>9. carries \in [Lanes -> Nat]
    <2> HIDE DEF right1, sum, right2
    <2> QED BY <1>2, <1>8
<1> HIDE DEF right1, sum, right2, carries
<1>10. AllGood(i) => (carries[0] > L(i + 1) <=> Left(i) > 0)
    <2>1. i + 0 + 1 = i + 1
        OBVIOUS
    <2>2. carries[0] = lengths[0] + Left(i) + Saturating(c2 - 2) /\ lengths[0] = L(i + 1)
        <3>1. right1[0] = Left(i) /\ right2[0] = Saturating(c2 - 2) /\ lengths[0] = L(i + 1)
            BY <1>0, <1>1, <1>3, <1>4, <1>6, <2>1
        <3>2. carries[0] = sum[0] + right2[0] /\ sum[0] = lengths[0] + right1[0]
            BY <1>0, <1>5, <1>7
        <3> QED BY <3>1, <3>2
    <2>3. Left(i) \in 0..6 /\ L(i + 1) \in 0..4 /\ Saturating(c2 - 2) \in Nat
        BY <1>1, Types DEF Saturating
    <2> DEFINE l == L(i + 1)
               left == Left(i)
               z == Saturating(c2 - 2)
    <2>4. carries[0] = l + left + z /\ l \in 0..4 /\ left \in 0..6 /\ z \in Nat /\ (z > 0 => left > 0)
        BY <1>1, <2>2, <2>3
    <2> HIDE DEF l, left, z
    <2>5. carries[0] > l <=> left > 0
        BY <2>4
    <2> QED BY <2>5 DEF l, left
<1>11. ASSUME NEW k \in 1..Lane - 1, AllGood(i + k)
       PROVE  carries[k] = L(i + k + 1) + Left(i + k)
    <2>0. /\ k \in Lanes /\ k - 1 \in Lanes /\ (k >= 2 => k - 2 \in Lanes) /\ k # 0 /\ k \in Int
          /\ i + k \in Int /\ i + k - 1 \in Int /\ i + k - 2 \in Int /\ i + k - 3 \in Int
          /\ i + (k - 1) + 1 = i + k /\ i + (k - 2) + 1 = i + k - 1 /\ i + (k - 3) + 1 = i + k - 2
          /\ i + k - 1 - 1 = i + k - 2 /\ i + k - 1 - 2 = i + k - 3 /\ i + k - 2 - 1 = i + k - 3
          /\ i + k - 1 <= i + k /\ i + k - 2 <= i + k /\ i + k - 3 <= i + k /\ i + k - 4 <= i + k
          /\ i + k - 2 - 2 = i + k - 4 /\ i + k - 4 \in Int
        BY <1>0 DEF Lanes
    <2>1. Good(i + k) /\ Good(i + k - 1) /\ Good(i + k - 2) /\ Good(i + k - 3) /\ Good(i + k - 4)
        <3> DEFINE n == i + k
        <3>1. AllGood(n) /\ n \in Int
            BY <1>11, <2>0
        <3>2. n \in Int /\ n - 1 \in Int /\ n - 2 \in Int /\ n - 3 \in Int /\ n - 4 \in Int
            BY <2>0
        <3> HIDE DEF n
        <3>3. Good(n) /\ Good(n - 1) /\ Good(n - 2) /\ Good(n - 3) /\ Good(n - 4)
            BY <3>1, <3>2, GoodBefore
        <3> QED BY <3>3 DEF n
    <2> DEFINE l0 == L(i + k)
               l1 == L(i + k - 1)
               l2 == L(i + k - 2)
               left0 == Left(i + k)
               left1 == Left(i + k - 1)
               left2 == Left(i + k - 2)
               left3 == Left(i + k - 3)
    <2>2. /\ l0 \in 0..4 /\ l1 \in 0..4 /\ l2 \in 0..4
          /\ left0 = (IF l0 > 0 THEN l0 - 1 ELSE left1 - 1)
          /\ left1 = (IF l1 > 0 THEN l1 - 1 ELSE left2 - 1)
          /\ left2 = (IF l2 > 0 THEN l2 - 1 ELSE left3 - 1)
          /\ left0 \in 0..3 /\ left1 \in 0..3 /\ left2 \in 0..3
          /\ (l0 = 0 => left0 \in 0..2) /\ (l1 = 0 => left1 \in 0..2) /\ (l2 = 0 => left2 \in 0..2)
        <3>1. l0 \in 0..4 /\ l1 \in 0..4 /\ l2 \in 0..4
            BY <2>0, Types
        <3>2. /\ left0 = (IF l0 > 0 THEN l0 - 1 ELSE left1 - 1)
              /\ left0 \in 0..3 /\ (l0 = 0 => left0 \in 0..2)
            BY <2>0, <2>1, LeftNext
        <3>3. /\ left1 = (IF l1 > 0 THEN l1 - 1 ELSE left2 - 1)
              /\ left1 \in 0..3 /\ (l1 = 0 => left1 \in 0..2)
            BY <2>0, <2>1, LeftNext
        <3>4. /\ left2 = (IF l2 > 0 THEN l2 - 1 ELSE left3 - 1)
              /\ left2 \in 0..3 /\ (l2 = 0 => left2 \in 0..2)
            BY <2>0, <2>1, LeftNext
        <3> QED BY <3>1, <3>2, <3>3, <3>4
    <2>3. /\ left1 > 0 <=> l0 = 0
          /\ left2 > 0 <=> l1 = 0
          /\ left3 > 0 <=> l2 = 0
        BY <2>0, <2>1 DEF Good
    <2>4. carries[k] = L(i + k + 1) + Saturating(l0 - 1) + right2[k]
        <3>1. sum[k] = lengths[k] + right1[k] /\ right1[k] = Saturating(lengths[k - 1] - 1)
              /\ carries[k] = sum[k] + right2[k] /\ lengths[k - 1] = l0 /\ lengths[k] = L(i + k + 1)
            BY <1>3, <1>4, <1>5, <1>7, <2>0
        <3> QED BY <3>1
    <2>5. L(i + k + 1) \in 0..4
        <3>1. i + k + 1 \in Int
            BY <2>0
        <3> QED BY <3>1, Types
    <2>6. CASE k = 1
        <3>1. right2[k] = Saturating(c1 - 2)
            BY <1>6, <2>0, <2>6
        <3>2. left1 = Left(i)
            BY <2>6
        <3> HIDE DEF l0, l1, l2, left0, left1, left2, left3
        <3>3. Saturating(l0 - 1) + right2[k] = left0
            BY <1>1, <2>2, <2>3, <3>1, <3>2 DEF Saturating
        <3>4. Saturating(l0 - 1) \in Nat /\ right2[k] \in Nat
            BY <1>1, <2>2, <3>1 DEF Saturating
        <3> DEFINE l == L(i + k + 1)
        <3>5. carries[k] = l + Saturating(l0 - 1) + right2[k] /\ l \in 0..4
            BY <2>4, <2>5
        <3> HIDE DEF l
        <3>6. carries[k] = l + left0
            BY <3>3, <3>4, <3>5
        <3> QED BY <3>6 DEF l, left0
    <2>7. CASE k > 1
        <3>1. k - 2 \in Lanes /\ (k - 2 # 0 => k - 2 - 1 \in Lanes) /\ i + (k - 2 - 1) + 1 = i + k - 2
            BY <1>0, <2>0, <2>7
        <3>2. right2[k] = Saturating(sum[k - 2] - 2)
            BY <1>6, <2>0, <2>7
        <3>3. sum[k - 2] = lengths[k - 2] + right1[k - 2] /\ lengths[k - 2] = l1
            BY <1>3, <1>5, <2>0, <3>1
        <3>4. k - 2 = 0 => right1[k - 2] = left2
            <4>1. k - 2 = 0 => i + k - 2 = i
                BY <2>0
            <4> QED BY <1>0, <1>1, <1>4, <4>1
        <3>5. k - 2 # 0 => right1[k - 2] = Saturating(l2 - 1)
            BY <1>3, <1>4, <3>1
        <3> HIDE DEF l0, l1, l2, left0, left1, left2, left3
        <3> DEFINE x == right1[k - 2]
        <3>6. x = left2 \/ x = Saturating(l2 - 1)
            BY <3>4, <3>5
        <3> DEFINE y == sum[k - 2]
        <3>7. right2[k] = Saturating(y - 2) /\ y = l1 + x
            BY <3>2, <3>3 DEF l1
        <3> HIDE DEF x, y
        <3>8. Saturating(l0 - 1) + right2[k] = left0
            BY <2>2, <2>3, <3>6, <3>7 DEF Saturating
        <3>9. Saturating(l0 - 1) \in Nat /\ right2[k] \in Nat
            BY <2>2, <3>6, <3>7 DEF Saturating
        <3> DEFINE l == L(i + k + 1)
        <3>10. carries[k] = l + Saturating(l0 - 1) + right2[k] /\ l \in 0..4
            BY <2>4, <2>5
        <3> HIDE DEF l
        <3>11. carries[k] = l + left0
            BY <3>8, <3>9, <3>10
        <3> QED BY <3>11 DEF l, left0
    <2>8. k = 1 \/ k > 1
        OBVIOUS
    <2> QED BY <2>6, <2>7, <2>8
<1> QED BY <1>9, <1>10, <1>11 DEF carries

\* A lane adds an error exactly when one of its bytes is not good, and else
\* hands on a right record.
LEMMA LaneRight ==
    ASSUME text \in Seq(Byte), NEW i \in Nat, AllGood(i), NEW raw, NEW before, Record(raw, before, i),
           NEW bytes, bytes = [k \in Lanes |-> B(i + k + 1)],
           NEW after, after = avxcheck_utf8_bytes(bytes, [raw |-> raw, carries |-> before, error |-> FALSE])
    PROVE  /\ after.error <=> ~AllGood(i + Lane)
           /\ AllGood(i + Lane) => Record(after.raw, after.carries, i + Lane)
PROOF
<1> USE LaneAssumption
<1> DEFINE lengths == avxcontinuation_lengths(bytes)
           carries == avxcarry_continuations(lengths, before)
           off1 == push_last_byte_of_a_to_b(raw, bytes)
           Wrong(k) == \/ bytes[k] > 244
                       \/ (carries[k] > lengths[k]) = (lengths[k] > 0)
                       \/ BadPair(off1[k], bytes[k])
<1>0. /\ \A k \in Lanes : k \in Nat /\ k < Lane /\ (k # 0 => k - 1 \in Lanes /\ k \in 1..Lane - 1)
      /\ \A k \in Nat : k < Lane => k \in Lanes
      /\ 0 \in Lanes /\ Lane - 1 \in Lanes /\ Lane - 2 \in Lanes
    BY DEF Lanes
<1>1. \A k \in Lanes : i + k + 1 \in Int /\ bytes[k] = B(i + k + 1) /\ bytes[k] \in Byte
    <2>1. ASSUME NEW k \in Lanes PROVE i + k + 1 \in Int /\ bytes[k] = B(i + k + 1) /\ bytes[k] \in Byte
        <3>1. i + k + 1 \in Int
            BY DEF Lanes
        <3> QED BY <3>1, Types
    <2> QED BY <2>1
<1>2. lengths = [k \in Lanes |-> L(i + k + 1)]
    <2>1. ASSUME NEW k \in Lanes PROVE continuation_lengths[Nibble(bytes[k]) + 1] = L(i + k + 1)
        BY <1>1, Lengths DEF L
    <2> QED BY <2>1 DEF avxcontinuation_lengths
<1> HIDE DEF lengths
<1>3. /\ carries \in [Lanes -> Nat]
      /\ carries[0] > L(i + 1) <=> Left(i) > 0
      /\ \A k \in 1..Lane - 1 : AllGood(i + k) => carries[k] = L(i + k + 1) + Left(i + k)
    BY <1>2, Carries
<1> HIDE DEF carries
<1>4. /\ after.raw = bytes /\ after.carries = carries
      /\ after.error <=> \E k \in Lanes : Wrong(k)
    <2>1. /\ after.raw = bytes /\ after.carries = carries
          /\ after.error = (\/ FALSE
                            \/ avxcheck_smaller_than_0xf4(bytes)
                            \/ avxcheck_continuations(lengths, carries)
                            \/ avxcheck_first_continuation_max(bytes, off1)
                            \/ avxcheck_overlong(bytes, off1))
        BY DEF avxcheck_utf8_bytes, lengths, carries
    <2> HIDE DEF off1
    <2>2. avxcheck_smaller_than_0xf4(bytes) <=> \E k \in Lanes : bytes[k] > 244
        BY DEF avxcheck_smaller_than_0xf4
    <2>3. avxcheck_continuations(lengths, carries)
             <=> \E k \in Lanes : (carries[k] > lengths[k]) = (lengths[k] > 0)
        BY DEF avxcheck_continuations
    <2>4. (avxcheck_first_continuation_max(bytes, off1) \/ avxcheck_overlong(bytes, off1))
             <=> \E k \in Lanes : BadPair(off1[k], bytes[k])
        <3>1. /\ avxcheck_first_continuation_max(bytes, off1) <=> \E k \in Lanes : TooLarge(off1[k], bytes[k])
              /\ avxcheck_overlong(bytes, off1) <=> \E k \in Lanes : Overlong(off1[k], bytes[k])
            BY DEF avxcheck_first_continuation_max, avxcheck_overlong, TooLarge, Overlong
        <3> QED BY <3>1 DEF BadPair
    <2> QED BY <2>1, <2>2, <2>3, <2>4
<1>5. ASSUME NEW k \in Lanes, AllGood(i + k) PROVE Wrong(k) <=> ~Good(i + k + 1)
    <2> DEFINE p == i + k + 1
    <2>0. p \in Int /\ p - 1 \in Int /\ p - 1 = i + k
        BY DEF Lanes
    <2>1. p \in Int /\ p - 1 \in Int /\ p - 1 = i + k /\ lengths[k] = L(p) /\ bytes[k] = B(p)
        <3>1. lengths[k] = L(p)
            BY <1>2
        <3>2. bytes[k] = B(p)
            BY <1>1
        <3> QED BY <2>0, <3>1, <3>2
    <2>2. B(p) \in Byte /\ B(p - 1) \in Byte /\ L(p) \in 0..4 /\ Left(p - 1) \in 0..6
        BY <2>1, Types
    <2>3. (carries[k] > L(p)) <=> (Left(p - 1) > 0)
        <3>1. CASE k = 0
            <4>1. i + 0 + 1 = i + 1 /\ i + 0 + 1 - 1 = i
                OBVIOUS
            <4> QED BY <1>3, <3>1, <4>1
        <3>2. CASE k # 0
            <4>1. k \in 1..Lane - 1
                BY <1>0, <3>2
            <4>2. carries[k] = L(p) + Left(p - 1)
                BY <1>3, <1>5, <2>1, <4>1
            <4> DEFINE l == L(p)
                       left == Left(p - 1)
            <4>3. carries[k] = l + left /\ l \in 0..4 /\ left \in 0..6
                BY <2>2, <4>2
            <4> HIDE DEF l, left
            <4>4. carries[k] > l <=> left > 0
                BY <4>3
            <4> QED BY <4>4 DEF l, left
        <3> QED BY <3>1, <3>2
    <2>4. BadPair(off1[k], B(p)) <=> BadPair(B(p - 1), B(p))
        <3>1. CASE k = 0
            <4>1. off1[k] = raw[Lane - 1] /\ p - 1 = i /\ raw[Lane - 1] \in Byte
                BY <1>0, <2>1, <3>1 DEF push_last_byte_of_a_to_b, Record
            <4>2. CASE raw[Lane - 1] = B(i)
                BY <4>1, <4>2
            <4>3. CASE raw[Lane - 1] \notin 192..255 /\ B(i) \notin 192..255
                <5> HIDE DEF off1, p
                <5>1. ~BadPair(off1[k], B(p))
                    BY <2>2, <4>1, <4>3, LoneLeader
                <5>2. ~BadPair(B(p - 1), B(p))
                    BY <2>2, <4>1, <4>3, LoneLeader
                <5> QED BY <5>1, <5>2
            <4> QED BY <4>2, <4>3 DEF Record
        <3>2. CASE k # 0
            <4>1. off1[k] = bytes[k - 1] /\ k - 1 \in Lanes
                BY <1>0, <3>2 DEF push_last_byte_of_a_to_b
            <4>2. i + (k - 1) + 1 = p - 1
                BY <1>0
            <4>3. bytes[k - 1] = B(p - 1)
                BY <1>1, <4>1, <4>2
            <4> QED BY <4>1, <4>3
        <3> QED BY <3>1, <3>2
    <2> HIDE DEF off1, p
    <2>5. Wrong(k) <=> \/ B(p) > 244
                       \/ (Left(p - 1) > 0) <=> (L(p) > 0)
                       \/ BadPair(B(p - 1), B(p))
        BY <2>1, <2>3, <2>4
    <2>6. Good(p) <=> ~(\/ B(p) > 244
                        \/ (Left(p - 1) > 0) <=> (L(p) > 0)
                        \/ BadPair(B(p - 1), B(p)))
        <3> DEFINE l == L(p)
                   b == B(p)
        <3>1. l \in 0..4 /\ b \in 0..255
            BY <2>2 DEF Byte
        <3>2. Good(p) <=> /\ b <= 244
                          /\ Left(p - 1) > 0 <=> l = 0
                          /\ ~BadPair(B(p - 1), B(p))
            BY DEF Good
        <3> HIDE DEF l, b
        <3>3. (b <= 244 <=> ~(b > 244)) /\ (l = 0 <=> ~(l > 0))
            BY <3>1
        <3>4. Good(p) <=> ~(\/ b > 244
                            \/ (Left(p - 1) > 0) <=> (l > 0)
                            \/ BadPair(B(p - 1), B(p)))
            BY <3>2, <3>3
        <3> QED BY <3>4 DEF l, b
    <2> QED BY <2>5, <2>6 DEF p
<1> HIDE DEF Wrong
<1>6. after.error => ~AllGood(i + Lane)
    <2> SUFFICES ASSUME AllGood(i + Lane), NEW k \in Lanes, Wrong(k) PROVE FALSE
        BY <1>4
    <2>1. /\ \A q \in 1..i + k : q \in 1..i + Lane
          /\ i + k + 1 \in 1..i + Lane
        BY DEF Lanes
    <2>2. AllGood(i + k) /\ Good(i + k + 1)
        BY <2>1 DEF AllGood
    <2> QED BY <1>5, <2>2
<1>7. ~after.error => AllGood(i + Lane)
    <2> SUFFICES ASSUME \A k \in Lanes : ~Wrong(k) PROVE AllGood(i + Lane)
        BY <1>4
    <2> DEFINE S == {m \in Nat : AllGood(i + m)}
    <2>1. 0 \in S
        <3>1. i + 0 = i
            OBVIOUS
        <3> QED BY <3>1
    <2>2. ASSUME NEW m \in 0..Lane - 1, m \in S PROVE m + 1 \in S
        <3>1. m \in Lanes /\ AllGood(i + m) /\ m + 1 \in Nat
            BY <1>0, <2>2
        <3>2. Good(i + m + 1)
            BY <1>5, <3>1
        <3>3. \A q \in 1..i + (m + 1) : q \in 1..i + m \/ q = i + m + 1
            OBVIOUS
        <3>4. AllGood(i + (m + 1))
            BY <3>1, <3>2, <3>3 DEF AllGood
        <3> QED BY <3>1, <3>4
    <2> HIDE DEF S
    <2>3. 0..Lane \subseteq S
        BY <2>1, <2>2, Induction
    <2>4. Lane \in 0..Lane
        OBVIOUS
    <2> QED BY <2>3, <2>4 DEF S
<1>8. ASSUME AllGood(i + Lane) PROVE Record(after.raw, after.carries, i + Lane)
    <2> DEFINE q == i + Lane
    <2>0. /\ q \in Int /\ q - 1 \in Int /\ q - 2 \in Int /\ q - 3 \in Int
          /\ q - 1 - 1 = q - 2 /\ q - 1 - 2 = q - 3 /\ q - 1 <= q /\ q - 2 <= q /\ q - 3 <= q
          /\ i + (Lane - 1) = q - 1 /\ i + (Lane - 2) = q - 2
          /\ i + (Lane - 1) + 1 = q /\ i + (Lane - 2) + 1 = q - 1
          /\ Lane - 1 \in 1..Lane - 1 /\ Lane - 2 \in 1..Lane - 1
          /\ \A r \in 1..q - 1 : r \in 1..q
          /\ \A r \in 1..q - 2 : r \in 1..q
        OBVIOUS
    <2>1. AllGood(q) /\ AllGood(q - 1) /\ AllGood(q - 2)
        BY <1>8, <2>0 DEF AllGood
    <2>2. carries[Lane - 1] = L(q) + Left(q - 1) /\ carries[Lane - 2] = L(q - 1) + Left(q - 2)
        <3>1. AllGood(i + (Lane - 1)) /\ AllGood(i + (Lane - 2))
            BY <2>0, <2>1
        <3> HIDE DEF q
        <3> QED BY <1>3, <2>0, <3>1
    <2>3. bytes[Lane - 1] = B(q)
        BY <1>0, <1>1, <2>0
    <2> HIDE DEF q
    <2>4. Good(q) /\ Good(q - 1) /\ Good(q - 2) /\ Good(q - 3)
        BY <2>0, <2>1, GoodBefore
    <2> DEFINE l0 == L(q)
               l1 == L(q - 1)
               left0 == Left(q)
               left1 == Left(q - 1)
               left2 == Left(q - 2)
    <2>5. /\ l0 \in 0..4 /\ l1 \in 0..4
          /\ left0 = (IF l0 > 0 THEN l0 - 1 ELSE left1 - 1) /\ left0 \in 0..3
          /\ left1 = (IF l1 > 0 THEN l1 - 1 ELSE left2 - 1) /\ left1 \in 0..3
          /\ left2 \in 0..6
        BY <2>0, <2>4, LeftNext, Types
    <2>6. (left1 > 0 <=> l0 = 0) /\ (left2 > 0 <=> l1 = 0)
        BY <2>0, <2>4 DEF Good
    <2>7. carries[Lane - 1] = l0 + left1 /\ carries[Lane - 2] = l1 + left2
        BY <2>2
    <2> HIDE DEF l0, l1, left0, left1, left2
    <2>8. Saturating(carries[Lane - 1] - 1) = left0
        BY <2>5, <2>6, <2>7 DEF Saturating
    <2>9. Saturating(carries[Lane - 2] - 2) > 0 => left0 > 0
        BY <2>5, <2>6, <2>7 DEF Saturating
    <2>10. bytes \in [Lanes -> Byte]
        BY <1>1
    <2>11. i + Lane = q
        BY DEF q
    <2> QED BY <1>3, <1>4, <2>3, <2>8, <2>9, <2>10, <2>11 DEF Record, left0
<1> QED BY <1>6, <1>7, <1>8

\* Where nothing is owed no leader stands.
LEMMA NothingOwed ==
    ASSUME text \in Seq(Byte), NEW n \in Int, Left(n) = 0
    PROVE  B(n) \notin 192..255
PROOF
<1> DEFINE l0 == L(n)
           l1 == L(n - 1)
           l2 == L(n - 2)
<1>1. Left(n) = Saturating(l0 - 1) + Saturating(l1 - 2) + Saturating(l2 - 3)
    BY DEF Left
<1>2. n - 1 \in Int /\ n - 2 \in Int
    OBVIOUS
<1>3. l0 \in 0..4 /\ l1 \in 0..4 /\ l2 \in 0..4
    BY <1>2, Types
<1> HIDE DEF l0, l1, l2
<1>4. l0 \notin {2, 3, 4}
    BY <1>1, <1>3 DEF Saturating
<1> QED BY <1>4, Classes DEF l0

\* A stretch of ASCII behind good bytes is good if nothing is owed.
LEMMA AsciiRight ==
    ASSUME text \in Seq(Byte), NEW i \in Nat, NEW d \in Nat, d > 0,
           \A q \in i + 1..i + d : B(q) \in 0..127
    PROVE  /\ AllGood(i) /\ Left(i) = 0 => AllGood(i + d) /\ Left(i + d) = 0
           /\ AllGood(i + d) => AllGood(i) /\ Left(i) = 0
PROOF
<1>1. ASSUME AllGood(i), Left(i) = 0 PROVE AllGood(i + d) /\ Left(i + d) = 0
    <2> DEFINE S == {m \in Nat : AllGood(i + m) /\ Left(i + m) = 0}
    <2>1. 0 \in S
        <3>1. i + 0 = i
            OBVIOUS
        <3> QED BY <1>1, <3>1
    <2>2. ASSUME NEW m \in 0..d - 1, m \in S PROVE m + 1 \in S
        <3> DEFINE n == i + m
        <3>1. /\ AllGood(n) /\ Left(n) = 0 /\ m + 1 \in Nat /\ i + (m + 1) = n + 1
              /\ n + 1 \in i + 1..i + d /\ n \in Int /\ n + 1 \in Int /\ n - 1 \in Int
              /\ n + 1 - 1 = n /\ n + 1 - 2 = n - 1 /\ n - 1 <= n /\ n <= n /\ n + 1 \in Nat
              /\ \A q \in 1..n + 1 : q = n + 1 \/ q \in 1..n
            BY <2>2
        <3> HIDE DEF n
        <3>2. B(n + 1) \in 0..127 /\ L(n + 1) = 1 /\ B(n) \in Byte /\ B(n + 1) \in Byte
            <4>1. B(n + 1) \in 0..127
                BY <3>1
            <4>2. L(n + 1) = 1
                BY <3>1, <4>1, Classes
            <4>3. B(n) \in Byte /\ B(n + 1) \in Byte
                BY <3>1, Types
            <4> QED BY <4>1, <4>2, <4>3
        <3>3. Good(n) /\ Good(n - 1)
            BY <3>1, GoodBefore
        <3>4. ~BadPair(B(n), B(n + 1))
            <4>2. B(n) \notin 192..255
                BY <3>1, NothingOwed
            <4> DEFINE a == B(n)
                       b == B(n + 1)
            <4>3. a \in Byte /\ b \in Byte /\ a \notin 192..255
                BY <3>2, <4>2
            <4> HIDE DEF a, b
            <4>4. ~BadPair(a, b)
                BY <4>3, LoneLeader
            <4> QED BY <4>4 DEF a, b
        <3>5. \A b \in 0..127 : b <= 244
            OBVIOUS
        <3>6. B(n + 1) <= 244
            BY <3>2, <3>5
        <3>7. Good(n + 1)
            BY <3>1, <3>2, <3>4, <3>6 DEF Good
        <3>8. AllGood(n + 1)
            BY <3>1, <3>7 DEF AllGood
        <3>9. Left(n + 1) = 0
            BY <3>1, <3>2, <3>3, <3>7, LeftNext
        <3> QED BY <3>1, <3>8, <3>9
    <2> HIDE DEF S
    <2>3. 0..d \subseteq S
        BY <2>1, <2>2, Induction
    <2>4. d \in 0..d
        OBVIOUS
    <2> QED BY <2>3, <2>4 DEF S
<1>2. ASSUME AllGood(i + d) PROVE AllGood(i) /\ Left(i) = 0
    <2>1. /\ i + 1 \in i + 1..i + d /\ i + 1 \in 1..i + d /\ i + 1 - 1 = i /\ i + 1 \in Int /\ i \in Int
          /\ \A q \in 1..i : q \in 1..i + d
        OBVIOUS
    <2>2. L(i + 1) = 1 /\ Left(i) \in 0..6
        BY <2>1, Classes, Types
    <2>3. Good(i + 1) /\ AllGood(i)
        BY <1>2, <2>1 DEF AllGood
    <2> QED BY <2>1, <2>2, <2>3 DEF Good
<1> QED BY <1>1, <1>2

LEMMA GoodSoFar ==
    ASSUME NEW n \in Nat, NEW m \in Nat, n <= m, AllGood(m)
    PROVE  AllGood(n)
PROOF
<1>1. \A q \in 1..n : q \in 1..m
    OBVIOUS
<1> QED BY <1>1 DEF AllGood

\* The two lanes of a block, one after the other; an error stays.
LEMMA BlockRight ==
    ASSUME text \in Seq(Byte), NEW i \in Nat, NEW raw, NEW before, NEW e \in BOOLEAN,
           e <=> ~AllGood(i), ~e => Record(raw, before, i),
           NEW lo, lo = [k \in Lanes |-> B(i + k + 1)],
           NEW hi, hi = [k \in Lanes |-> B(i + Lane + k + 1)],
           NEW mid, mid = avxcheck_utf8_bytes(lo, [raw |-> raw, carries |-> before, error |-> e]),
           NEW after, after = avxcheck_utf8_bytes(hi, mid)
    PROVE  /\ after.error \in BOOLEAN
           /\ after.error <=> ~AllGood(i + Width)
           /\ ~after.error => Record(after.raw, after.carries, i + Width)
PROOF
<1>0. /\ Width = Lane + Lane /\ i + Lane + Lane = i + Width
      /\ i + Lane \in Nat /\ i + Width \in Nat /\ i <= i + Lane /\ i + Lane <= i + Width
    BY LaneAssumption DEF Width
<1>1. mid.error \in BOOLEAN /\ (e => mid.error)
    BY DEF avxcheck_utf8_bytes
<1>2. after.error \in BOOLEAN /\ (mid.error => after.error)
    BY <1>1 DEF avxcheck_utf8_bytes
<1>3. CASE e
    BY <1>0, <1>1, <1>2, <1>3, GoodSoFar
<1>4. CASE ~e
    <2>1. AllGood(i) /\ Record(raw, before, i) /\ e = FALSE
        BY <1>4
    <2>2. /\ mid.error <=> ~AllGood(i + Lane)
          /\ AllGood(i + Lane) => Record(mid.raw, mid.carries, i + Lane)
        BY <2>1, LaneRight
    <2>3. CASE mid.error
        BY <1>0, <1>2, <2>2, <2>3, GoodSoFar
    <2>4. CASE ~mid.error
        <3>1. mid = [raw |-> mid.raw, carries |-> mid.carries, error |-> FALSE]
            BY <1>1, <2>4 DEF avxcheck_utf8_bytes
        <3>2. AllGood(i + Lane) /\ Record(mid.raw, mid.carries, i + Lane)
            BY <2>2, <2>4
        <3>3. after = avxcheck_utf8_bytes(hi, [raw |-> mid.raw, carries |-> mid.carries, error |-> FALSE])
            BY <3>1
        <3> DEFINE j == i + Lane
        <3>4. j \in Nat /\ hi = [k \in Lanes |-> B(j + k + 1)] /\ j + Lane = i + Width
            BY <1>0
        <3>5. AllGood(j) /\ Record(mid.raw, mid.carries, j)
            BY <3>2
        <3> HIDE DEF j
        <3>6. /\ after.error <=> ~AllGood(j + Lane)
              /\ AllGood(j + Lane) => Record(after.raw, after.carries, j + Lane)
            BY <3>3, <3>4, <3>5, LaneRight
        <3> QED BY <1>2, <3>4, <3>6
    <2> QED BY <2>3, <2>4
<1> QED BY <1>3, <1>4

---------------------------------------------------------------------------
(* The inductive invariant.                                                *)

Shape ==
    /\ text \in Seq(Byte)
    /\ idx \in Nat /\ idx % Width = 0 /\ idx - Width < Len(text)
    /\ pc \in {"Scan", "Done"}
    /\ has_error \in BOOLEAN

FlagInv == has_error <=> ~AllGood(idx)
RecordInv == ~has_error => Record(rawbytes, carried_continuations, idx)
DoneInv == pc = "Done" => /\ idx >= Len(text)
                          /\ result = IF has_error THEN "InvalidUTF8" ELSE "Ok"

IInv == Shape /\ FlagInv /\ RecordInv /\ DoneInv

LEMMA WidthType == Width \in Nat /\ Width > 0 /\ Width = Lane + Lane
PROOF BY LaneAssumption DEF Width

LEMMA InitInv == Init => IInv
PROOF
<1> SUFFICES ASSUME Init PROVE IInv
    OBVIOUS
<1> USE LaneAssumption
<1>1. text \in Seq(Byte) /\ idx = 0 /\ pc = "Scan" /\ has_error = FALSE
    BY Utf8TextsAssumption DEF Init
<1>2. Shape
    <2>1. 0 % Width = 0 /\ 0 - Width < Len(text)
        BY <1>1, WidthType
    <2> QED BY <1>1, <2>1 DEF Shape
<1>3. AllGood(0)
    BY DEF AllGood
<1>4. Record(rawbytes, carried_continuations, 0)
    <2>1. rawbytes = [k \in Lanes |-> 0] /\ carried_continuations = [k \in Lanes |-> 0]
        BY DEF Init
    <2>2. Lane - 1 \in Lanes /\ Lane - 2 \in Lanes /\ 0 \in Byte
        BY DEF Lanes, Byte
    <2>3. rawbytes[Lane - 1] = 0 /\ carried_continuations[Lane - 1] = 0 /\ carried_continuations[Lane - 2] = 0
        BY <2>1, <2>2
    <2>4. Saturating(0 - 1) = 0 /\ Saturating(0 - 2) = 0
        BY DEF Saturating
    <2>5. B(0) = 32 /\ Left(0) = 0
        BY <1>1, Before
    <2>6. 0 \notin 192..255 /\ 32 \notin 192..255
        OBVIOUS
    <2> QED BY <2>1, <2>2, <2>3, <2>4, <2>5, <2>6 DEF Record
<1> QED BY <1>1, <1>2, <1>3, <1>4 DEF IInv, FlagInv, RecordInv, DoneInv

\* The block is the text, and the spaces behind it.
LEMMA Input ==
    ASSUME Shape, NEW k \in 0..Width - 1
    PROVE  input[k] = B(idx + k + 1)
PROOF
<1>1. text \in Seq(Byte) /\ Len(text) \in Nat /\ idx \in Nat /\ Width \in Nat
    BY WidthType DEF Shape
<1>2. idx + k < Len(text) <=> idx + k + 1 \in 1..Len(text)
    BY <1>1
<1> QED BY <1>2 DEF input, B

LEMMA AsciiStep ==
    ASSUME IInv, IsAscii(input), Ascii
    PROVE  /\ has_error' \in BOOLEAN
           /\ has_error' <=> ~AllGood(idx + Width)
           /\ ~has_error' => Record(rawbytes', carried_continuations', idx + Width)
PROOF
<1>0. /\ text \in Seq(Byte) /\ idx \in Nat /\ has_error \in BOOLEAN
      /\ Width \in Nat /\ Width > 0 /\ idx + Width \in Nat /\ idx \in Int /\ idx <= idx + Width
    BY WidthType DEF IInv, Shape
<1>1. \A q \in idx + 1..idx + Width : B(q) \in 0..127
    <2> SUFFICES ASSUME NEW q \in idx + 1..idx + Width PROVE B(q) \in 0..127
        OBVIOUS
    <2> DEFINE k == q - idx - 1
    <2>1. k \in 0..Width - 1 /\ idx + k + 1 = q
        BY <1>0
    <2>2. input[k] = B(q)
        BY <2>1, Input DEF IInv
    <2>3. input[k] < 128
        BY <2>1 DEF IsAscii, input
    <2>4. B(q) \in 0..255
        BY <1>0, Types DEF Byte
    <2> DEFINE b == B(q)
    <2>5. b \in 0..255 /\ b < 128
        BY <2>2, <2>3, <2>4
    <2> HIDE DEF b
    <2>6. b \in 0..127
        BY <2>5
    <2> QED BY <2>6 DEF b
<1>2. /\ AllGood(idx) /\ Left(idx) = 0 => AllGood(idx + Width) /\ Left(idx + Width) = 0
      /\ AllGood(idx + Width) => AllGood(idx) /\ Left(idx) = 0
    BY <1>0, <1>1, AsciiRight
<1>3. /\ has_error' = (has_error \/ carried_continuations[Lane - 1] > 1)
      /\ rawbytes' = rawbytes /\ carried_continuations' = carried_continuations
    BY DEF Ascii, previous
<1>4. CASE has_error
    BY <1>0, <1>2, <1>3, <1>4 DEF IInv, FlagInv
<1>5. CASE ~has_error
    <2>1. AllGood(idx) /\ Record(rawbytes, carried_continuations, idx)
        BY <1>5 DEF IInv, FlagInv, RecordInv
    <2>2. carried_continuations[Lane - 1] > 1 <=> Left(idx) # 0
        <3> DEFINE c == carried_continuations[Lane - 1]
                   left == Left(idx)
        <3>1. Lane - 1 \in Lanes
            BY LaneAssumption DEF Lanes
        <3>2. c \in Nat /\ Saturating(c - 1) = left
            BY <2>1, <3>1 DEF Record
        <3> HIDE DEF c, left
        <3>3. c > 1 <=> left # 0
            BY <3>2 DEF Saturating
        <3> QED BY <3>3 DEF c, left
    <2>3. has_error' <=> Left(idx) # 0
        BY <1>3, <1>5, <2>2
    <2>4. ASSUME Left(idx) = 0
          PROVE  Record(rawbytes, carried_continuations, idx + Width)
        <3>1. Left(idx + Width) = 0 /\ B(idx) \notin 192..255
            BY <1>0, <1>2, <2>1, <2>4, NothingOwed
        <3>2. idx + Width \in idx + 1..idx + Width
            BY <1>0
        <3>3. \A b \in 0..127 : b \notin 192..255
            OBVIOUS
        <3>4. B(idx + Width) \notin 192..255
            BY <1>1, <3>2, <3>3
        <3> QED BY <2>1, <2>4, <3>1, <3>4 DEF Record
    <2>5. has_error' \in BOOLEAN
        BY <1>0, <1>3
    <2> QED BY <1>2, <1>3, <2>1, <2>3, <2>4, <2>5
<1> QED BY <1>4, <1>5

LEMMA NotAsciiStep ==
    ASSUME IInv, NotAscii
    PROVE  /\ has_error' \in BOOLEAN
           /\ has_error' <=> ~AllGood(idx + Width)
           /\ ~has_error' => Record(rawbytes', carried_continuations', idx + Width)
PROOF
<1> DEFINE lo == [k \in Lanes |-> input[k]]
           hi == [k \in Lanes |-> input[Lane + k]]
           mid == avxcheck_utf8_bytes(lo,
                      [raw |-> rawbytes, carries |-> carried_continuations, error |-> has_error])
           after == avxcheck_utf8_bytes(hi, mid)
<1>1. rawbytes' = after.raw /\ carried_continuations' = after.carries /\ has_error' = after.error
    BY DEF NotAscii
<1>2. \A k \in Lanes : /\ k \in 0..Width - 1 /\ Lane + k \in 0..Width - 1
                       /\ idx + (Lane + k) + 1 = idx + Lane + k + 1
    BY LaneAssumption DEF Lanes, Width, IInv, Shape
<1>3. lo = [k \in Lanes |-> B(idx + k + 1)]
    BY <1>2, Input DEF IInv
<1>4. hi = [k \in Lanes |-> B(idx + Lane + k + 1)]
    BY <1>2, Input DEF IInv
<1>5. /\ text \in Seq(Byte) /\ idx \in Nat /\ has_error \in BOOLEAN
      /\ has_error <=> ~AllGood(idx)
      /\ ~has_error => Record(rawbytes, carried_continuations, idx)
    BY DEF IInv, Shape, FlagInv, RecordInv
<1>6. mid = avxcheck_utf8_bytes(lo,
                [raw |-> rawbytes, carries |-> carried_continuations, error |-> has_error])
      /\ after = avxcheck_utf8_bytes(hi, mid)
    OBVIOUS
<1> HIDE DEF lo, hi, mid, after
<1>7. /\ after.error \in BOOLEAN
      /\ after.error <=> ~AllGood(idx + Width)
      /\ ~after.error => Record(after.raw, after.carries, idx + Width)
    BY <1>3, <1>4, <1>5, <1>6, BlockRight
<1> QED BY <1>1, <1>7

LEMMA NextInv == IInv /\ [Next]_vars => IInv'
PROOF
<1> SUFFICES ASSUME IInv, [Next]_vars PROVE IInv'
    OBVIOUS
<1>0. Shape /\ Width \in Nat /\ Width > 0
    BY WidthType DEF IInv
<1>1. CASE check_utf8
    <2>1. /\ text' = text /\ idx' = idx + Width /\ pc' = "Scan" /\ idx < Len(text)
          /\ (IsAscii(input) /\ Ascii) \/ NotAscii
        BY <1>1 DEF check_utf8
    <2>2. /\ has_error' \in BOOLEAN
          /\ has_error' <=> ~AllGood(idx + Width)
          /\ ~has_error' => Record(rawbytes', carried_continuations', idx + Width)
        BY <2>1, AsciiStep, NotAsciiStep
    <2>3. Shape'
        <3>1. (idx + Width) % Width = 0
            BY <1>0, MultipleNext DEF Shape
        <3>2. idx + Width \in Nat /\ idx + Width - Width < Len(text)
            BY <1>0, <2>1 DEF Shape
        <3> QED BY <1>0, <2>1, <2>2, <3>1, <3>2 DEF Shape, Width
    <2>4. FlagInv' /\ RecordInv'
        BY <2>1, <2>2 DEF FlagInv, RecordInv, AllGood, Good, Left, L, B, Record
    <2> QED BY <2>1, <2>3, <2>4 DEF IInv, DoneInv
<1>2. CASE Finish
    <2>1. /\ text' = text /\ idx' = idx /\ rawbytes' = rawbytes /\ has_error' = has_error
          /\ carried_continuations' = carried_continuations
          /\ pc' = "Done" /\ idx >= Len(text)
          /\ result' = IF has_error THEN "InvalidUTF8" ELSE "Ok"
        BY <1>2 DEF Finish, previous
    <2>2. Shape'
        BY <1>0, <2>1 DEF Shape
    <2>3. FlagInv' /\ RecordInv'
        BY <2>1 DEF IInv, FlagInv, RecordInv, AllGood, Good, Left, L, B, Record
    <2> QED BY <2>1, <2>2, <2>3 DEF IInv, DoneInv
<1>3. CASE UNCHANGED vars
    BY <1>3 DEF vars, IInv, Shape, FlagInv, RecordInv, DoneInv, AllGood, Good, Left, L, B, Record
<1> QED BY <1>1, <1>2, <1>3 DEF Next, Step, Returned

LEMMA SpecInv == Spec => []IInv
PROOF BY InitInv, NextInv, PTL DEF Spec

---------------------------------------------------------------------------

\* After every block of every text the error flag is right about the bytes so
\* far: no carry between lanes, lost or stale, makes check_utf8 forget an error
\* or find one that is not there.
THEOREM ErrorRight == Spec => []ErrorSoFar
PROOF
<1>1. IInv => ErrorSoFar
    <2> SUFFICES ASSUME IInv, idx <= Len(text) PROVE has_error <=> ~(Complete(idx) \/ Pending(idx))
        BY DEF ErrorSoFar
    <2>1. text \in Seq(Byte) /\ idx \in 0..Len(text) /\ idx \in Int
        BY DEF IInv, Shape
    <2>2. /\ Complete(idx) <=> (AllGood(idx) /\ Left(idx) = 0)
          /\ Pending(idx) <=> (AllGood(idx) /\ Left(idx) > 0)
        BY <2>1, SoFar
    <2>3. Left(idx) = 0 \/ Left(idx) > 0
        BY <2>1, Types
    <2> QED BY <2>2, <2>3 DEF IInv, FlagInv
<1> QED BY <1>1, SpecInv, PTL

\* The verdict on every text is right, the text cut off in the middle of a
\* character included: the spaces check_utf8 fills the last block with refuse
\* it, unless the block has none.
THEOREM VerdictRight == Spec => []VerdictCorrect
PROOF
<1>1. IInv => VerdictCorrect
    <2> SUFFICES ASSUME IInv, pc = "Done"
                 PROVE  result = "Ok" <=> \/ Complete(Len(text))
                                          \/ Len(text) % Width = 0 /\ Pending(Len(text))
        BY DEF VerdictCorrect
    <2> DEFINE n == Len(text)
    <2>1. /\ text \in Seq(Byte) /\ n \in Nat /\ n \in 0..Len(text) /\ n \in Int
          /\ idx \in Nat /\ idx % Width = 0 /\ n <= idx /\ idx - Width < n
          /\ Width \in Nat /\ Width > 0
        BY WidthType DEF IInv, Shape, DoneInv
    <2>2. result = "Ok" <=> AllGood(idx)
        BY DEF IInv, DoneInv, FlagInv
    <2>3. /\ Complete(n) <=> (AllGood(n) /\ Left(n) = 0)
          /\ Pending(n) <=> (AllGood(n) /\ Left(n) > 0)
        BY <2>1, SoFar
    <2>4. Left(n) = 0 \/ Left(n) > 0
        BY <2>1, Types
    <2>5. n % Width = 0 <=> n = idx
        BY <2>1, MultipleOnce
    <2>6. CASE n = idx
        BY <2>2, <2>3, <2>4, <2>5, <2>6
    <2>7. CASE n # idx
        <3> DEFINE d == idx - n
        <3>1. d \in Nat /\ d > 0 /\ n + d = idx
            BY <2>1, <2>7
        <3>2. \A q \in n + 1..n + d : B(q) \in 0..127
            <4>1. \A q \in n + 1..n + d : q \notin 1..Len(text)
                BY <2>1
            <4>2. 32 \in 0..127
                OBVIOUS
            <4> QED BY <4>1, <4>2 DEF B
        <3> HIDE DEF d, n
        <3>3. AllGood(idx) <=> (AllGood(n) /\ Left(n) = 0)
            BY <2>1, <3>1, <3>2, AsciiRight
        <3> QED BY <2>2, <2>3, <2>5, <2>7, <3>3 DEF n
    <2> QED BY <2>6, <2>7
<1> QED BY <1>1, SpecInv, PTL
=================================================================================
