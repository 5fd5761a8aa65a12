------------------------------- MODULE StringProofs -------------------------------
(***************************************************************************)
(* A string is unescaped to what it spells, inside its buffers and over    *)
(* its own characters alone, for every closed string, every size of a      *)
(* chunk and whatever lies behind the input.                               *)
(***************************************************************************)
EXTENDS StringParse, NaturalLemmas, SequenceTheorems

---------------------------------------------------------------------------
(* Characters behind a backslash.                                          *)

LEMMA OddNext ==
    ASSUME NEW n \in Nat
    PROVE  (n + 1) % 2 = 1 <=> ~(n % 2 = 1)
PROOF OBVIOUS

LEMMA EscapedNext ==
    ASSUME NEW t, NEW p \in Nat \ {0}
    PROVE  Escaped(t, p + 1) <=> t[p] = Backslash /\ ~Escaped(t, p)
PROOF
<1> DEFINE Run(k) == {q \in 1..k - 1 : \A r \in q..k - 1 : t[r] = Backslash}
<1>1. IsFiniteSet(Run(p)) /\ Cardinality(Run(p)) \in Nat
    <2>1. p - 1 \in Int /\ Run(p) \subseteq 1..p - 1
        OBVIOUS
    <2> HIDE DEF Run
    <2> QED BY <2>1, PartOfInterval
<1>2. CASE t[p] = Backslash
    <2>1. Run(p + 1) = Run(p) \union {p}
        <3>1. \A q \in 1..p : q \in Run(p + 1) <=> q = p \/ q \in Run(p)
            BY <1>2
        <3>2. Run(p + 1) \subseteq 1..p /\ Run(p) \subseteq 1..p
            OBVIOUS
        <3> HIDE DEF Run
        <3> QED BY <3>1, <3>2
    <2>2. p \notin Run(p)
        OBVIOUS
    <2> HIDE DEF Run
    <2>3. Cardinality(Run(p + 1)) = Cardinality(Run(p)) + 1
        BY <1>1, <2>1, <2>2, FS_AddElement
    <2>4. Cardinality(Run(p + 1)) % 2 = 1 <=> ~(Cardinality(Run(p)) % 2 = 1)
        BY <1>1, <2>3, OddNext
    <2> QED BY <1>2, <2>4 DEF Escaped, Run
<1>3. CASE t[p] # Backslash
    <2>1. Run(p + 1) = {}
        BY <1>3
    <2> HIDE DEF Run
    <2>2. Cardinality(Run(p + 1)) = 0
        BY <2>1, FS_EmptySet
    <2> QED BY <1>3, <2>2 DEF Escaped, Run
<1> QED BY <1>2, <1>3

\* A character by itself begins at p, and the string was not closed before.
StillOpen(t, p) == /\ p \in Nat \ {0, 1}
                   /\ ~Escaped(t, p)
                   /\ \A q \in 2..p - 1 : t[q] = Quote => Escaped(t, q)

\* An open string goes on.
LEMMA StillInside ==
    ASSUME NEW t \in Texts, NEW p, StillOpen(t, p)
    PROVE  \E q \in p..Len(t) : t[q] = Quote
PROOF
<1>1. Len(t) \in Nat /\ Closed(t)
    BY StringTextsAssumption
<1>2. PICK q \in 2..Len(t) : t[q] = Quote /\ ~Escaped(t, q)
    BY <1>1 DEF Closed, ClosedBy
<1> QED BY <1>1, <1>2 DEF StillOpen

\* An open string closes no earlier than where it is.
LEMMA NotYetClosed ==
    ASSUME NEW t, NEW p, StillOpen(t, p), NEW q \in Nat, ClosedBy(t, q)
    PROVE  p <= q
PROOF
<1>1. PICK r \in 2..q : t[r] = Quote /\ ~Escaped(t, r)
    BY DEF ClosedBy
<1>2. p \in Nat /\ ~(r \in 2..p - 1)
    BY <1>1 DEF StillOpen
<1> QED BY <1>2

LEMMA OpenNext ==
    ASSUME NEW t, NEW p, StillOpen(t, p), t[p] \notin {Quote, Backslash}
    PROVE  StillOpen(t, p + 1)
PROOF
<1>1. ~Escaped(t, p + 1)
    BY EscapedNext DEF StillOpen
<1> QED BY <1>1 DEF StillOpen

LEMMA OpenBehindEscape ==
    ASSUME NEW t, NEW p, StillOpen(t, p), t[p] = Backslash
    PROVE  StillOpen(t, p + 2)
PROOF
<1>1. Escaped(t, p + 1)
    BY EscapedNext DEF StillOpen
<1>2. ~Escaped(t, p + 2)
    <2>1. p + 1 \in Nat \ {0} /\ (p + 1) + 1 = p + 2
        BY DEF StillOpen
    <2> QED BY <1>1, <2>1, EscapedNext
<1>3. t[p] # Quote
    BY DEF Quote, Backslash
<1> QED BY <1>1, <1>2, <1>3 DEF StillOpen

LEMMA OpenBehindRun ==
    ASSUME NEW t, NEW p, StillOpen(t, p), NEW d \in Nat,
           \A q \in p..p + d - 1 : t[q] \notin {Quote, Backslash}
    PROVE  StillOpen(t, p + d)
PROOF
<1> DEFINE S == {k \in 0..d : StillOpen(t, p + k)}
<1>0. p \in Nat
    BY DEF StillOpen
<1>1. 0 \in S
    BY <1>0
<1>2. ASSUME NEW k \in 0..d - 1, k \in S PROVE k + 1 \in S
    <2>1. t[p + k] \notin {Quote, Backslash}
        BY <1>0
    <2>2. StillOpen(t, (p + k) + 1)
        BY <1>2, <2>1, OpenNext
    <2>3. (p + k) + 1 = p + (k + 1)
        BY <1>0
    <2> QED BY <2>2, <2>3
<1> HIDE DEF S
<1>3. d \in S
    BY <1>1, <1>2, Induction
<1> QED BY <1>3 DEF S

---------------------------------------------------------------------------
(* The readings are what their recursion says.                             *)

States == {"open", "closed", "invalid", "unpaired"}
ReadingSet == [at : Nat, bytes : Seq(Int), state : States]

LEMMA EscapeMapType == \A c : ESCAPE_MAP(c) \in Int
PROOF BY DEF ESCAPE_MAP

LEMMA DigitType == \A c : DIGITTOVAL(c) \in -1..15
PROOF BY DEF DIGITTOVAL

Unit(u) == u \in Int /\ u >= -1 /\ u <= 65535

LEMMA HexType ==
    ASSUME NEW t, NEW p \in Nat
    PROVE  Unit(HexAt(t, p))
PROOF
<1> DEFINE d(n) == DIGITTOVAL(t[p + n])
           a == DIGITTOVAL(t[p])
<1>1. a \in -1..15 /\ d(1) \in -1..15 /\ d(2) \in -1..15 /\ d(3) \in -1..15
    BY DigitType
<1>2. CASE \A n \in 0..3 : p + n <= Len(t) /\ DIGITTOVAL(t[p + n]) >= 0
    <2>1. HexAt(t, p) = a * 4096 + d(1) * 256 + d(2) * 16 + d(3)
        BY <1>2 DEF HexAt
    <2>2. d(0) >= 0 /\ d(1) >= 0 /\ d(2) >= 0 /\ d(3) >= 0 /\ p + 0 = p
        BY <1>2
    <2> HIDE DEF a, d
    <2>3. a >= 0
        BY <2>2 DEF a, d
    <2> QED BY <1>1, <2>1, <2>2, <2>3 DEF Unit
<1>3. CASE ~\A n \in 0..3 : p + n <= Len(t) /\ DIGITTOVAL(t[p + n]) >= 0
    <2>1. HexAt(t, p) = -1
        BY <1>3 DEF HexAt
    <2> QED BY <2>1 DEF Unit
<1> QED BY <1>2, <1>3

LEMMA UnitType ==
    ASSUME NEW t, NEW p \in Nat
    PROVE  Unit(UnicodeAt(t, p))
PROOF
<1>1. Unit(HexAt(t, p + 2)) /\ Unit(-1)
    BY HexType DEF Unit
<1> QED BY <1>1 DEF UnicodeAt

LEMMA Utf8Type ==
    ASSUME NEW c \in Int
    PROVE  codepoint_to_utf8(c) \in Seq(Int) /\ Len(codepoint_to_utf8(c)) <= 4
PROOF BY DEF codepoint_to_utf8

LEMMA TakeType ==
    ASSUME NEW r \in ReadingSet, NEW n \in Nat, NEW bytes \in Seq(Int)
    PROVE  Take(r, n, bytes) \in ReadingSet
PROOF
<1>1. r.bytes \o bytes \in Seq(Int)
    BY DEF ReadingSet
<1>2. Take(r, n, bytes) = [at |-> r.at + n, bytes |-> r.bytes \o bytes, state |-> r.state]
    <2>1. r = [at |-> r.at, bytes |-> r.bytes, state |-> r.state]
        BY DEF ReadingSet
    <2> DEFINE a == r.at + n
               b == r.bytes \o bytes
    <2>2. Take(r, n, bytes) = [r EXCEPT !.at = a, !.bytes = b]
        BY DEF Take
    <2> HIDE DEF a, b
    <2>3. Take(r, n, bytes) = [at |-> a, bytes |-> b, state |-> r.state]
        BY <2>1, <2>2
    <2> QED BY <2>3 DEF a, b
<1>3. r.at + n \in Nat /\ r.state \in States
    BY DEF ReadingSet
<1> QED BY <1>1, <1>2, <1>3 DEF ReadingSet

LEMMA EndType ==
    ASSUME NEW r \in ReadingSet, NEW s \in States
    PROVE  End(r, s) \in ReadingSet
PROOF BY DEF End, ReadingSet

LEMMA TakeUnicodeType ==
    ASSUME NEW r \in ReadingSet, NEW u, NEW n, Unit(u), Unit(n)
    PROVE  TakeUnicode(r, u, n) \in ReadingSet
PROOF
<1>1. End(r, "invalid") \in ReadingSet /\ End(r, "unpaired") \in ReadingSet
    BY EndType DEF States
<1>0. u \in Int /\ n \in Int
    BY DEF Unit
<1>2. Take(r, 6, codepoint_to_utf8(u)) \in ReadingSet
    BY <1>0, TakeType, Utf8Type
<1>3. Take(r, 12, codepoint_to_utf8((u - 55296) * 1024 + n - 56320 + 65536)) \in ReadingSet
    BY <1>0, TakeType, Utf8Type
<1> HIDE DEF High, Low
<1> QED BY <1>1, <1>2, <1>3 DEF TakeUnicode

LEMMA TakeCharacterType ==
    ASSUME NEW t \in Seq(Int), NEW r \in ReadingSet, r.at > 0
    PROVE  TakeCharacter(t, r) \in ReadingSet /\ TakeCharacter(t, r).at >= r.at
PROOF
<1> DEFINE p == r.at
           u == UnicodeAt(t, p)
           n == UnicodeAt(t, p + 6)
<1>1. End(r, "invalid") \in ReadingSet /\ End(r, "closed") \in ReadingSet
    BY EndType DEF States
<1>2. TakeUnicode(r, u, n) \in ReadingSet
    <2>1. Unit(u) /\ Unit(n)
        <3>1. p \in Nat /\ p + 6 \in Nat
            BY DEF ReadingSet
        <3> QED BY <3>1, UnitType
    <2> QED BY <2>1, TakeUnicodeType
<1>3. TakeEscape(r, t[p + 1]) \in ReadingSet
    <2>1. <<ESCAPE_MAP(t[p + 1])>> \in Seq(Int)
        BY EscapeMapType
    <2>2. Take(r, 2, <<ESCAPE_MAP(t[p + 1])>>) \in ReadingSet
        BY <2>1, TakeType
    <2> QED BY <1>1, <2>2 DEF TakeEscape
<1>4. ASSUME p <= Len(t) PROVE Take(r, 1, <<t[p]>>) \in ReadingSet
    <2>1. <<t[p]>> \in Seq(Int)
        BY <1>4 DEF ReadingSet
    <2> QED BY <2>1, TakeType
<1>5. TakeCharacter(t, r) \in ReadingSet
    BY <1>1, <1>2, <1>3, <1>4 DEF TakeCharacter, ReadingSet
<1>6. TakeCharacter(t, r).at >= r.at
    <2>1. \A m \in Nat : \A b : Take(r, m, b).at >= r.at
        BY DEF Take, ReadingSet
    <2>2. \A s : End(r, s).at >= r.at
        BY DEF End, ReadingSet
    <2>3. TakeUnicode(r, u, n).at >= r.at
        <3> HIDE DEF u, n
        <3>1. Take(r, 12, codepoint_to_utf8((u - 55296) * 1024 + n - 56320 + 65536)).at >= r.at
              /\ Take(r, 6, codepoint_to_utf8(u)).at >= r.at
            BY <2>1
        <3> QED BY <2>2, <3>1 DEF TakeUnicode
    <2>4. TakeEscape(r, t[p + 1]).at >= r.at
        BY <2>1, <2>2 DEF TakeEscape
    <2> QED BY <2>1, <2>2, <2>3, <2>4 DEF TakeCharacter, ReadingSet
<1> QED BY <1>5, <1>6

LEMMA ReadingsDef ==
    ASSUME NEW t \in Seq(Int)
    PROVE  /\ Readings(t)[0] = Unread
           /\ \A n \in 0..Len(t) : Readings(t)[n] \in ReadingSet
           /\ \A n \in 1..Len(t) : Readings(t)[n] = TakeCharacter(t, Readings(t)[n - 1])
PROOF
<1> DEFINE N == Len(t)
           S == {r \in ReadingSet : r.at > 0}
           G == [n \in 0 + 1..N |-> [r \in S |-> TakeCharacter(t, r)]]
           body(f) == [n \in 0..N |-> IF n = 0 THEN Unread ELSE TakeCharacter(t, f[n - 1])]
           reading == Readings(t)
<1>1. N \in Nat
    OBVIOUS
<1>2. Unread \in S
    BY DEF Unread, ReadingSet, States
<1>3. G \in [0 + 1..N -> [S -> S]]
    <2> SUFFICES ASSUME NEW r \in S PROVE TakeCharacter(t, r) \in S
        OBVIOUS
    <2>1. TakeCharacter(t, r) \in ReadingSet /\ TakeCharacter(t, r).at >= r.at
        BY TakeCharacterType
    <2>2. TakeCharacter(t, r).at \in Nat /\ r.at \in Nat
        BY <2>1 DEF ReadingSet
    <2> QED BY <2>1, <2>2
<1>4. PICK f \in [0..N -> S] : Solves(f, 0, N, Unread, G)
    <2>1. 0 \in Nat /\ 0 <= N
        BY <1>1
    <2> HIDE DEF S, G, N
    <2> QED BY <1>1, <1>2, <1>3, <2>1, Recursion
<1>5. f[0] = Unread /\ \A n \in 1..N : f[n] = TakeCharacter(t, f[n - 1])
    <2>1. f[0] = Unread
        BY <1>4 DEF Solves
    <2>2. ASSUME NEW n \in 1..N PROVE f[n] = TakeCharacter(t, f[n - 1])
        <3>1. n \in 0 + 1..N /\ n - 1 \in 0..N
            BY <1>1
        <3>2. f[n - 1] \in S
            BY <1>4, <3>1
        <3>3. G[n][f[n - 1]] = TakeCharacter(t, f[n - 1])
            BY <3>1, <3>2
        <3> HIDE DEF G
        <3> QED BY <1>4, <3>1, <3>3 DEF Solves
    <2> QED BY <2>1, <2>2
<1>6. f = body(f)
    <2>1. \A n \in 0..N : f[n] = IF n = 0 THEN Unread ELSE TakeCharacter(t, f[n - 1])
        BY <1>1, <1>5
    <2> QED BY <1>4, <2>1
<1>7. reading = CHOOSE g : g = body(g)
    BY DEF Readings
<1>8. reading = body(reading)
    <2> HIDE DEF body, reading
    <2> QED BY <1>6, <1>7
<1> HIDE DEF reading
<1>9. reading[0] = Unread /\ \A n \in 1..N : reading[n] = TakeCharacter(t, reading[n - 1])
    <2>1. reading = [n \in 0..N |-> IF n = 0 THEN Unread ELSE TakeCharacter(t, reading[n - 1])]
        BY <1>8
    <2> QED BY <1>1, <2>1
<1>10. \A n \in 0..N : reading[n] \in S
    <2> DEFINE D == {n \in 0..N : reading[n] \in S}
    <2>1. 0 \in D
        BY <1>1, <1>2, <1>9
    <2>2. ASSUME NEW n \in 0..N - 1, n \in D PROVE n + 1 \in D
        <3>1. n + 1 \in 1..N /\ (n + 1) - 1 = n
            BY <1>1
        <3>2. reading[n + 1] = TakeCharacter(t, reading[n])
            BY <1>9, <3>1
        <3>3. TakeCharacter(t, reading[n]) \in S
            <4>1. G[n + 1][reading[n]] \in S
                <5>1. reading[n] \in S /\ n + 1 \in 0 + 1..N
                    BY <2>2, <3>1
                <5> HIDE DEF G, S
                <5> QED BY <1>3, <5>1
            <4> QED BY <2>2, <3>1, <4>1
        <3> QED BY <1>1, <3>2, <3>3
    <2> HIDE DEF D
    <2>3. 0..N \subseteq D
        BY <1>1, <2>1, <2>2, Induction
    <2> QED BY <2>3 DEF D
<1> QED BY <1>9, <1>10 DEF reading

---------------------------------------------------------------------------
(* How the reading goes on.                                                *)

Reading(p, b) == [at |-> p, bytes |-> b, state |-> "open"]

\* The reading comes by p, with the bytes b.
Reads(t, p, b) == \E n \in 0..p - 2 : Readings(t)[n] = Reading(p, b)

LEMMA TextsAreInt ==
    ASSUME NEW t \in Texts
    PROVE  t \in Seq(Int) /\ Len(t) \in Nat /\ Len(t) >= 2 /\ \A k \in 1..Len(t) : t[k] \in Byte
PROOF
<1>1. t \in Seq(Byte) /\ Len(t) >= 2
    BY StringTextsAssumption
<1>2. \A k \in 1..Len(t) : t[k] \in Byte
    BY <1>1
<1>3. t \in Seq(Int)
    <2>1. Byte \subseteq Int
        BY DEF Byte
    <2> QED BY <1>1, <2>1, SeqMonotonic
<1> QED BY <1>1, <1>2, <1>3

LEMMA ReadsOn ==
    ASSUME NEW t \in Seq(Int), NEW p \in 2..Len(t), NEW b, Reads(t, p, b),
           NEW q \in Nat, q > p, NEW c, TakeCharacter(t, Reading(p, b)) = Reading(q, c)
    PROVE  Reads(t, q, c)
PROOF
<1>1. Len(t) \in Nat
    OBVIOUS
<1>2. PICK n \in 0..p - 2 : Readings(t)[n] = Reading(p, b)
    BY DEF Reads
<1>3. n + 1 \in 1..Len(t) /\ (n + 1) - 1 = n /\ n + 1 \in 0..q - 2
    BY <1>1, <1>2
<1>4. Readings(t)[n + 1] = TakeCharacter(t, Readings(t)[n])
    BY <1>3, ReadingsDef
<1> QED BY <1>2, <1>3, <1>4 DEF Reads

LEMMA ReadsEnd ==
    ASSUME NEW t \in Seq(Int), NEW p \in 2..Len(t), NEW b, Reads(t, p, b),
           NEW r, TakeCharacter(t, Reading(p, b)) = r, r.state # "open"
    PROVE  Readings(t)[Len(t)] = r
PROOF
<1> DEFINE N == Len(t)
<1>1. N \in Nat
    OBVIOUS
<1>2. PICK n \in 0..p - 2 : Readings(t)[n] = Reading(p, b)
    BY DEF Reads
<1>3. n \in Nat /\ n + 1 \in 1..N /\ (n + 1) - 1 = n
    BY <1>1, <1>2
<1>4. Readings(t)[n + 1] = r
    BY <1>2, <1>3, ReadingsDef
<1> DEFINE S == {k \in 0..N - (n + 1) : Readings(t)[n + 1 + k] = r}
<1>5. 0 \in S
    BY <1>1, <1>3, <1>4
<1>6. ASSUME NEW k \in 0..N - (n + 1) - 1, k \in S PROVE k + 1 \in S
    <2>1. n + 1 + (k + 1) \in 1..N /\ n + 1 + (k + 1) - 1 = n + 1 + k
        BY <1>1, <1>3
    <2>2. Readings(t)[n + 1 + (k + 1)] = TakeCharacter(t, r)
        BY <1>6, <2>1, ReadingsDef
    <2>3. TakeCharacter(t, r) = r
        BY DEF TakeCharacter
    <2> QED BY <1>1, <1>3, <2>2, <2>3
<1> HIDE DEF S
<1>7. N - (n + 1) \in S
    <2> DEFINE m == N - (n + 1)
    <2>1. m \in Nat
        BY <1>1, <1>3
    <2>2. \A k \in 0..m - 1 : k \in S => k + 1 \in S
        BY <1>6
    <2> HIDE DEF m
    <2>3. 0..m \subseteq S
        BY <1>5, <2>1, <2>2, Induction
    <2>4. m \in S
        BY <2>1, <2>3
    <2> QED BY <2>4 DEF m
<1>8. n + 1 + (N - (n + 1)) = N
    BY <1>1, <1>3
<1> QED BY <1>7, <1>8 DEF S

LEMMA Joined ==
    ASSUME NEW a \in Seq(Int), NEW b \in Seq(Int), NEW c \in Seq(Int)
    PROVE  (a \o b) \o c = a \o (b \o c) /\ a \o b \in Seq(Int) /\ a \o << >> = a
PROOF BY ConcatAssociative, ConcatProperties, ConcatEmptySeq

LEMMA JoinedNext ==
    ASSUME NEW x \in Seq(Int), NEW y \in Seq(Int), NEW e \in Int
    PROVE  (x \o y) \o <<e>> = x \o (y \o <<e>>)
PROOF
<1>1. <<e>> \in Seq(Int)
    OBVIOUS
<1> DEFINE z == <<e>>
<1> HIDE DEF z
<1>2. (x \o y) \o z = x \o (y \o z)
    BY <1>1, ConcatAssociative DEF z
<1> QED BY <1>2 DEF z

\* A part of a text, and the next character.
LEMMA PartNext ==
    ASSUME NEW t \in Seq(Int), NEW p \in Nat \ {0}, NEW q \in Nat, p <= q + 1, q + 1 <= Len(t)
    PROVE  /\ SubSeq(t, p, q) \in Seq(Int) /\ Len(SubSeq(t, p, q)) = q - p + 1
           /\ SubSeq(t, p, q + 1) = SubSeq(t, p, q) \o <<t[q + 1]>>
           /\ \A k \in 1..q - p + 1 : SubSeq(t, p, q)[k] = t[p + k - 1]
PROOF
<1>1. \A i \in p..q : t[i] \in Int
    BY ElementOfSeq
<1>2. /\ SubSeq(t, p, q) \in Seq(Int) /\ Len(SubSeq(t, p, q)) = q - p + 1
      /\ \A k \in 1..q - p + 1 : SubSeq(t, p, q)[k] = t[p + k - 1]
    <2>1. p \in Int /\ q \in Int
        OBVIOUS
    <2>2. /\ SubSeq(t, p, q) \in Seq(Int)
          /\ Len(SubSeq(t, p, q)) = IF p <= q THEN q - p + 1 ELSE 0
          /\ \A k \in 1..q - p + 1 : SubSeq(t, p, q)[k] = t[p + k - 1]
        BY ONLY <1>1, <2>1, SubSeqProperties
    <2> QED BY <2>2
<1>3. SubSeq(t, p, q + 1) = SubSeq(t, p, q) \o <<t[q + 1]>>
    <2> DEFINE n == q + 1
    <2>1. p \in 1..Len(t) /\ n \in p..Len(t) /\ n - 1 = q
        OBVIOUS
    <2> HIDE DEF n
    <2>2. SubSeq(t, p, n) = SubSeq(t, p, n - 1) \o <<t[n]>>
        BY <2>1, SubSeqRecursiveSecond
    <2> QED BY <2>1, <2>2 DEF n
<1> QED BY <1>2, <1>3

LEMMA TakesPlain ==
    ASSUME NEW t \in Seq(Int), NEW p \in 2..Len(t), NEW b \in Seq(Int),
           t[p] \notin {Quote, Backslash}
    PROVE  TakeCharacter(t, Reading(p, b)) = Reading(p + 1, b \o <<t[p]>>)
PROOF
<1>1. p <= Len(t)
    OBVIOUS
<1>2. TakeCharacter(t, Reading(p, b)) = Take(Reading(p, b), 1, <<t[p]>>)
    BY <1>1 DEF TakeCharacter, Reading
<1> QED BY <1>2 DEF Take, Reading

LEMMA ReadsRun ==
    ASSUME NEW t \in Seq(Int), NEW p \in Nat \ {0, 1}, NEW b \in Seq(Int), Reads(t, p, b),
           NEW d \in Nat, p + d - 1 <= Len(t),
           \A q \in p..p + d - 1 : t[q] \notin {Quote, Backslash}
    PROVE  Reads(t, p + d, b \o SubSeq(t, p, p + d - 1))
PROOF
<1> DEFINE part(k) == SubSeq(t, p, p + k - 1)
           S == {k \in 0..d : Reads(t, p + k, b \o part(k))}
<1>0. Len(t) \in Nat
    OBVIOUS
<1>b. b \in Seq(Int)
    OBVIOUS
<1>1. 0 \in S
    <2>1. part(0) = << >> /\ p + 0 = p
        OBVIOUS
    <2>2. b \o << >> = b
        BY ConcatEmptySeq
    <2> HIDE DEF part
    <2>3. Reads(t, p + 0, b \o part(0))
        BY <2>1, <2>2
    <2> QED BY <2>3
<1>2. ASSUME NEW k \in 0..d - 1, k \in S PROVE k + 1 \in S
    <2>1. p + k \in 2..Len(t) /\ t[p + k] \notin {Quote, Backslash} /\ p + (k + 1) = (p + k) + 1
        BY <1>0
    <2>2. part(k) \in Seq(Int) /\ part(k + 1) = part(k) \o <<t[p + k]>> /\ <<t[p + k]>> \in Seq(Int)
        <3> DEFINE q == p + k - 1
        <3>1. q \in Nat /\ p <= q + 1 /\ q + 1 <= Len(t) /\ q + 1 = p + k /\ p + (k + 1) - 1 = q + 1
            BY <1>0, <2>1
        <3> HIDE DEF q
        <3>2. SubSeq(t, p, q) \in Seq(Int) /\ SubSeq(t, p, q + 1) = SubSeq(t, p, q) \o <<t[q + 1]>>
            BY <3>1, PartNext
        <3>3. <<t[p + k]>> \in Seq(Int)
            BY <2>1
        <3> QED BY <3>1, <3>2, <3>3 DEF q
    <2> HIDE DEF part
    <2>3. b \o part(k) \in Seq(Int)
        BY <2>2
    <2>4. TakeCharacter(t, Reading(p + k, b \o part(k)))
            = Reading((p + k) + 1, (b \o part(k)) \o <<t[p + k]>>)
        BY <2>1, <2>3, TakesPlain
    <2>5. Reads(t, p + k, b \o part(k))
        BY <1>2
    <2>6. Reads(t, (p + k) + 1, (b \o part(k)) \o <<t[p + k]>>)
        <3>1. (p + k) + 1 \in Nat /\ (p + k) + 1 > p + k
            OBVIOUS
        <3> QED BY <2>1, <2>4, <2>5, <3>1, ReadsOn
    <2>7. (b \o part(k)) \o <<t[p + k]>> = b \o part(k + 1)
        <3>1. t[p + k] \in Int
            BY <2>1
        <3>2. (b \o part(k)) \o <<t[p + k]>> = b \o (part(k) \o <<t[p + k]>>)
            BY ONLY <1>b, <2>2, <3>1, JoinedNext
        <3> QED BY <2>2, <3>2
    <2>8. Reads(t, p + (k + 1), b \o part(k + 1))
        BY <2>1, <2>6, <2>7
    <2> QED BY <2>8
<1> HIDE DEF S, part
<1>3. 0..d \subseteq S
    BY <1>1, <1>2, Induction
<1>4. d \in S
    BY <1>3
<1> QED BY <1>4 DEF S, part

---------------------------------------------------------------------------
(* The inductive invariant.                                                *)

\* The first n bytes of a buffer.
Spells(buffer, n) == [k \in 1..n |-> buffer[k - 1]]

SoFar == SubSeq(text, 2, len + 1) \o Spells(strings, dst_i)

Shape ==
    /\ text \in Texts /\ beyond \in Int
    /\ pc \in {"Scan", "Copy", "Done"}
    /\ src_i \in Nat /\ len \in Nat /\ dst_i \in Nat
    /\ strings \in [0..Len(text) + Chunk - 1 -> Int]
    /\ padding \in [Lanes -> Int]

\* The string is read in step with the reference, unless it takes a surrogate
\* for a character that the reference does not.
InStep ==
    /\ input = text
    /\ StillOpen(text, src_i + 2)
    /\ Reference.state = "unpaired" \/ Reads(text, src_i + 2, SoFar)
    /\ len + dst_i <= src_i

StringInv ==
    /\ Shape
    /\ pc # "Done" => InStep
    /\ pc = "Scan" => dst_i = 0 /\ len = src_i
    /\ UnescapedRight
    /\ RestUntouched

---------------------------------------------------------------------------
(* The chunks.                                                             *)

LEMMA DistanceIs ==
    ASSUME NEW b
    PROVE  /\ Distance(b) \in 0..Chunk
           /\ Distance(b) < Chunk => v[Distance(b)] = b
           /\ \A j \in 0..Distance(b) - 1 : v[j] # b
PROOF
<1> DEFINE S == {k \in 0..Chunk : k < Chunk => v[k] = b}
           First(k) == (k < Chunk => v[k] = b) /\ \A j \in 0..k - 1 : v[j] # b
<1>0. Chunk \in Nat
    BY ChunkAssumption
<1>1. Chunk \in S /\ S \subseteq Nat
    BY <1>0
<1>2. PICK m \in S : \A n \in S : m <= n
    <2> HIDE DEF S
    <2> QED BY <1>1, LeastNatural
<1>3. m \in 0..Chunk /\ First(m)
    BY <1>0, <1>2
<1>4. Distance(b) = CHOOSE k \in 0..Chunk : First(k)
    BY DEF Distance
<1> HIDE DEF First
<1>5. Distance(b) \in 0..Chunk /\ First(Distance(b))
    BY <1>3, <1>4
<1> QED BY <1>5 DEF First

\* What is loaded, where it is in the input.
LEMMA LaneIs ==
    ASSUME Shape, input = text, NEW k \in Lanes, src_i + k + 2 <= Len(text)
    PROVE  v[k] = text[src_i + k + 2]
PROOF
<1>1. Len(text) \in Nat /\ src_i \in Nat /\ k \in Nat
    BY TextsAreInt, ChunkAssumption DEF Shape, Lanes
<1>2. src_i + k < SrcLen
    BY <1>1 DEF SrcLen
<1>3. Src(src_i + k) = text[src_i + k + 2]
    BY <1>2 DEF Src
<1> QED BY <1>2, <1>3 DEF v, Padded

LEMMA SrcType ==
    ASSUME Shape, input = text, NEW k \in Nat
    PROVE  Src(k) \in Int /\ (k < SrcLen <=> k + 2 <= Len(text))
           /\ (k < SrcLen => Src(k) = text[k + 2])
PROOF
<1>1. Len(text) \in Nat /\ \A j \in 1..Len(text) : text[j] \in Int
    BY TextsAreInt DEF Shape, Byte
<1> QED BY <1>1 DEF Shape, Src, SrcLen

LEMMA ChunkType ==
    ASSUME Shape, input = text
    PROVE  v \in [Lanes -> Int] /\ Padded \in [Lanes -> Int]
PROOF
<1>1. \A k \in Lanes : src_i + k \in Nat
    BY ChunkAssumption DEF Shape, Lanes
<1>2. \A k \in Lanes : Src(src_i + k) \in Int /\ padding[k] \in Int
    BY <1>1, SrcType DEF Shape
<1>3. Padded \in [Lanes -> Int]
    BY <1>2 DEF Padded
<1> QED BY <1>2, <1>3 DEF v

Plain(c) == c \notin {Quote, Backslash}

\* The characters of a chunk before the first quote or backslash.
LEMMA ChunkRead ==
    ASSUME Shape, input = text, StillOpen(text, src_i + 2),
           NEW d \in 0..Chunk, \A j \in 0..d - 1 : Plain(v[j])
    PROVE  /\ src_i + 2 + d <= Len(text)
           /\ \A q \in src_i + 2..src_i + 2 + d - 1 : Plain(text[q])
           /\ StillOpen(text, src_i + 2 + d)
           /\ \A j \in 0..d - 1 : v[j] = text[src_i + 2 + j]
           /\ d < Chunk => v[d] = text[src_i + 2 + d]
PROOF
<1>0. src_i \in Nat /\ Chunk \in Nat /\ Len(text) \in Nat /\ text \in Texts
    BY TextsAreInt, ChunkAssumption DEF Shape
<1>1. PICK q \in src_i + 2..Len(text) : text[q] = Quote
    BY <1>0, StillInside
<1>2. src_i + 2 + d <= Len(text)
    <2> SUFFICES ASSUME q < src_i + 2 + d PROVE FALSE
        BY <1>0, <1>1
    <2> DEFINE j == q - src_i - 2
    <2>1. j \in 0..d - 1 /\ j \in Lanes /\ src_i + j + 2 = q
        BY <1>0 DEF Lanes
    <2> HIDE DEF j
    <2>2. v[j] = text[q]
        BY <2>1, LaneIs
    <2> QED BY <1>1, <2>1, <2>2 DEF Plain
<1>3. \A j \in 0..d - 1 : v[j] = text[src_i + 2 + j]
    <2> SUFFICES ASSUME NEW j \in 0..d - 1 PROVE v[j] = text[src_i + 2 + j]
        OBVIOUS
    <2>1. j \in Lanes /\ src_i + j + 2 <= Len(text) /\ src_i + j + 2 = src_i + 2 + j
        BY <1>0, <1>2 DEF Lanes
    <2> QED BY <2>1, LaneIs
<1>4. d < Chunk => v[d] = text[src_i + 2 + d]
    <2> SUFFICES ASSUME d < Chunk PROVE v[d] = text[src_i + 2 + d]
        OBVIOUS
    <2>1. d \in Lanes /\ src_i + d + 2 <= Len(text) /\ src_i + d + 2 = src_i + 2 + d
        BY <1>0, <1>2 DEF Lanes
    <2> QED BY <2>1, LaneIs
<1>5. \A r \in src_i + 2..src_i + 2 + d - 1 : Plain(text[r])
    <2> SUFFICES ASSUME NEW r \in src_i + 2..src_i + 2 + d - 1 PROVE Plain(text[r])
        OBVIOUS
    <2>1. r - src_i - 2 \in 0..d - 1 /\ src_i + 2 + (r - src_i - 2) = r
        BY <1>0
    <2> QED BY <1>3, <2>1
<1>6. StillOpen(text, src_i + 2 + d)
    <2> DEFINE p == src_i + 2
    <2>1. \A r \in p..p + d - 1 : text[r] \notin {Quote, Backslash}
        BY <1>5 DEF Plain
    <2>2. d \in Nat
        BY <1>0
    <2> HIDE DEF p
    <2>3. StillOpen(text, p + d)
        BY <2>1, <2>2, OpenBehindRun DEF p
    <2> QED BY <2>3 DEF p
<1> QED BY <1>2, <1>3, <1>4, <1>5, <1>6

\* The three cases of a chunk.
LEMMA ChunkCases ==
    /\ QuoteFirst => /\ Distance(Quote) < Chunk
                     /\ \A j \in 0..Distance(Quote) - 1 : Plain(v[j])
                     /\ v[Distance(Quote)] = Quote
    /\ BackslashFirst => /\ Distance(Backslash) < Chunk
                         /\ \A j \in 0..Distance(Backslash) - 1 : Plain(v[j])
                         /\ v[Distance(Backslash)] = Backslash
    /\ Neither => \A j \in 0..Chunk - 1 : Plain(v[j])
PROOF
<1>1. /\ Distance(Quote) \in 0..Chunk
      /\ Distance(Quote) < Chunk => v[Distance(Quote)] = Quote
      /\ \A j \in 0..Distance(Quote) - 1 : v[j] # Quote
    BY DistanceIs
<1>2. /\ Distance(Backslash) \in 0..Chunk
      /\ Distance(Backslash) < Chunk => v[Distance(Backslash)] = Backslash
      /\ \A j \in 0..Distance(Backslash) - 1 : v[j] # Backslash
    BY DistanceIs
<1>3. Chunk \in Nat /\ Quote # Backslash
    BY ChunkAssumption DEF Quote, Backslash
<1> DEFINE q == Distance(Quote)
           b == Distance(Backslash)
<1> HIDE DEF q, b
<1>4. /\ q < b => q < Chunk /\ \A j \in 0..q - 1 : Plain(v[j])
      /\ b < q => b < Chunk /\ \A j \in 0..b - 1 : Plain(v[j])
      /\ q = b => \A j \in 0..Chunk - 1 : Plain(v[j])
    BY <1>1, <1>2, <1>3 DEF q, b, Plain
<1> QED BY <1>1, <1>2, <1>4 DEF q, b, QuoteFirst, BackslashFirst, Neither

---------------------------------------------------------------------------
(* The buffer.                                                             *)

LEMMA SpellsType ==
    ASSUME NEW N \in Nat, NEW buffer \in [0..N - 1 -> Int], NEW n \in 0..N
    PROVE  /\ Spells(buffer, n) \in Seq(Int) /\ Len(Spells(buffer, n)) = n
           /\ \A k \in 1..n : Spells(buffer, n)[k] = buffer[k - 1]
PROOF BY DEF Spells

LEMMA StoredIs ==
    ASSUME NEW N \in Nat, NEW buffer \in [0..N - 1 -> Int], NEW n \in Nat,
           NEW bs \in Seq(Int), NEW d \in 0..Len(bs), n + d <= N
    PROVE  /\ Stored(buffer, n, bs) \in [0..N - 1 -> Int]
           /\ Spells(Stored(buffer, n, bs), n + d) = Spells(buffer, n) \o SubSeq(bs, 1, d)
PROOF
<1> DEFINE stored == Stored(buffer, n, bs)
           part == SubSeq(bs, 1, d)
           whole == Spells(stored, n + d)
           front == Spells(buffer, n)
<1>0. Len(bs) \in Nat /\ \A k \in 1..Len(bs) : bs[k] \in Int
    OBVIOUS
<1>1. stored \in [0..N - 1 -> Int]
    BY <1>0 DEF Stored
<1>2. \A j \in 0..n - 1 : j \in 0..N - 1 => stored[j] = buffer[j]
    BY <1>0 DEF Stored
<1>3. \A k \in 1..d : stored[n + k - 1] = bs[k]
    BY <1>0 DEF Stored
<1> HIDE DEF stored
<1>4. /\ whole \in Seq(Int) /\ Len(whole) = n + d
      /\ \A k \in 1..n + d : whole[k] = stored[k - 1]
    <2>1. n + d \in 0..N
        OBVIOUS
    <2> QED BY <1>1, <2>1, SpellsType
<1>5. /\ front \in Seq(Int) /\ Len(front) = n
      /\ \A k \in 1..n : front[k] = buffer[k - 1]
    <2>1. n \in 0..N
        OBVIOUS
    <2> QED BY <2>1, SpellsType
<1>6. part \in Seq(Int) /\ Len(part) = d /\ \A k \in 1..d : part[k] = bs[k]
    <2>1. 1 \in Int /\ d \in Int /\ \A i \in 1..d : bs[i] \in Int
        BY <1>0
    <2>2. /\ part \in Seq(Int) /\ Len(part) = IF 1 <= d THEN d - 1 + 1 ELSE 0
          /\ \A i \in 1..d - 1 + 1 : part[i] = bs[1 + i - 1]
        BY ONLY <2>1, SubSeqProperties
    <2> QED BY <2>1, <2>2
<1> HIDE DEF part, whole, front
<1> DEFINE both == front \o part
<1>7. /\ both \in Seq(Int) /\ Len(both) = n + d
      /\ \A k \in 1..n + d : both[k] = IF k <= n THEN front[k] ELSE part[k - n]
    BY <1>5, <1>6, ConcatProperties
<1> HIDE DEF both
<1>8. \A k \in 1..n + d : whole[k] = both[k]
    <2> SUFFICES ASSUME NEW k \in 1..n + d PROVE whole[k] = both[k]
        OBVIOUS
    <2>1. CASE k <= n
        <3>1. k \in 1..n /\ k - 1 \in 0..n - 1 /\ k - 1 \in 0..N - 1
            BY <2>1
        <3> QED BY <1>2, <1>4, <1>5, <1>7, <2>1, <3>1
    <2>2. CASE k > n
        <3>1. k - n \in 1..d /\ n + (k - n) - 1 = k - 1
            BY <2>2
        <3>2. stored[k - 1] = bs[k - n]
            BY <1>3, <3>1
        <3>3. whole[k] = bs[k - n]
            BY <1>4, <3>2
        <3>4. both[k] = part[k - n]
            BY <1>7, <2>2
        <3>5. part[k - n] = bs[k - n]
            BY <1>6, <3>1
        <3> QED BY <3>3, <3>4, <3>5
    <2> QED BY <2>1, <2>2
<1>9. whole = both
    BY <1>4, <1>7, <1>8, SeqEqual
<1> QED BY <1>1, <1>9 DEF stored, part, whole, front, both

---------------------------------------------------------------------------
(* Escapes, in the program and in the reference.                           *)

LEMMA DigitIs == \A c : DIGITTOVAL(c) = -1 <=> ~(DIGITTOVAL(c) >= 0)
PROOF BY DigitType

LEMMA QuoteIsNoDigit == DIGITTOVAL(Quote) = -1 /\ DIGITTOVAL(Backslash) = -1
PROOF BY DEF DIGITTOVAL, Quote, Backslash

\* The four digits at p, read where nothing closes the string before them.
LEMMA HexSame ==
    ASSUME Shape, input = text, NEW p, StillOpen(text, p)
    PROVE  /\ hex_to_u32_nocheck(p - 2) = IF HexAt(text, p) = -1 THEN HighBits ELSE HexAt(text, p)
           /\ HexAt(text, p) # -1 => StillOpen(text, p + 4)
PROOF
<1> DEFINE c(n) == DIGITTOVAL(Src(p - 2 + n))
           d(n) == DIGITTOVAL(text[p + n])
<1>0. p \in Nat \ {0, 1} /\ Len(text) \in Nat /\ text \in Texts
    BY TextsAreInt DEF Shape, StillOpen
<1>1. PICK q \in p..Len(text) : text[q] = Quote
    BY <1>0, StillInside
<1>2. ASSUME NEW n \in 0..3, p + n <= Len(text) PROVE c(n) = d(n)
    <2>1. p - 2 + n \in Nat /\ p - 2 + n + 2 = p + n
        BY <1>0
    <2>2. Src(p - 2 + n) = text[p + n]
        BY <1>2, <2>1, SrcType
    <2> QED BY <2>2
<1>3. CASE \A n \in 0..3 : c(n) # -1
    <2>1. p + 3 <= Len(text)
        <3> SUFFICES ASSUME p + 3 > Len(text) PROVE FALSE
            BY <1>0
        <3>1. q - p \in 0..3 /\ p + (q - p) = q /\ q <= Len(text)
            BY <1>0, <1>1
        <3> DEFINE m == q - p
        <3> HIDE DEF m, c, d
        <3>2. m \in 0..3 /\ p + m = q
            BY <3>1 DEF m
        <3>3. c(m) = d(m)
            BY <1>2, <3>1, <3>2
        <3>4. d(m) = -1
            BY <1>1, <3>2, QuoteIsNoDigit DEF d
        <3> QED BY <1>3, <3>2, <3>3, <3>4
    <2>2. \A n \in 0..3 : p + n <= Len(text)
        BY <1>0, <2>1
    <2>3. \A n \in 0..3 : c(n) = d(n) /\ d(n) # -1
        <3> HIDE DEF c, d
        <3> QED BY <1>2, <1>3, <2>2
    <2>4. \A n \in 0..3 : d(n) >= 0
        BY <2>3, DigitIs
    <2>5. hex_to_u32_nocheck(p - 2) = d(0) * 4096 + d(1) * 256 + d(2) * 16 + d(3)
        <3>1. hex_to_u32_nocheck(p - 2) = c(0) * 4096 + c(1) * 256 + c(2) * 16 + c(3)
            BY <1>3 DEF hex_to_u32_nocheck
        <3> HIDE DEF c, d
        <3> QED BY <2>3, <3>1
    <2>6. HexAt(text, p) = d(0) * 4096 + d(1) * 256 + d(2) * 16 + d(3)
        <3>1. p + 0 = p
            BY <1>0
        <3> QED BY <2>2, <2>4, <3>1 DEF HexAt
    <2>7. HexAt(text, p) # -1
        <3>1. d(0) \in Int /\ d(1) \in Int /\ d(2) \in Int /\ d(3) \in Int
            BY DigitType
        <3> HIDE DEF d
        <3> QED BY <2>4, <2>6, <3>1
    <2>8. StillOpen(text, p + 4)
        <3>1. \A r \in p..p + 4 - 1 : text[r] \notin {Quote, Backslash}
            <4> SUFFICES ASSUME NEW r \in p..p + 4 - 1 PROVE text[r] \notin {Quote, Backslash}
                OBVIOUS
            <4>1. r - p \in 0..3 /\ p + (r - p) = r
                BY <1>0
            <4>2. DIGITTOVAL(text[r]) # -1
                BY <2>3, <4>1
            <4> QED BY <4>2, QuoteIsNoDigit
        <3> QED BY <3>1, OpenBehindRun
    <2> QED BY <2>5, <2>6, <2>7, <2>8
<1>4. CASE \E n \in 0..3 : c(n) = -1
    <2>1. hex_to_u32_nocheck(p - 2) = HighBits
        BY <1>4 DEF hex_to_u32_nocheck
    <2>2. PICK n \in 0..3 : c(n) = -1
        BY <1>4
    <2>3. p + n <= Len(text) => d(n) = -1
        <3> HIDE DEF c, d
        <3> QED BY <1>2, <2>2
    <2>4. ~(p + n <= Len(text) /\ DIGITTOVAL(text[p + n]) >= 0)
        BY <2>3, DigitIs
    <2>5. HexAt(text, p) = -1
        BY <2>4 DEF HexAt
    <2> QED BY <2>1, <2>5
<1> QED BY <1>3, <1>4

LEMMA EscapeAt ==
    ASSUME Shape, input = text, NEW p, StillOpen(text, p)
    PROVE  /\ p <= Len(text) /\ Src(p - 2) = text[p]
           /\ text[p] = Backslash =>
                 p + 1 <= Len(text) /\ Src(p - 1) = text[p + 1] /\ StillOpen(text, p + 2)
PROOF
<1>0. p \in Nat \ {0, 1} /\ Len(text) \in Nat /\ text \in Texts
    BY TextsAreInt DEF Shape, StillOpen
<1>1. PICK q \in p..Len(text) : text[q] = Quote
    BY <1>0, StillInside
<1>2. p <= Len(text) /\ Src(p - 2) = text[p]
    <2>1. p - 2 \in Nat /\ p - 2 + 2 = p /\ p <= Len(text)
        BY <1>0, <1>1
    <2> QED BY <2>1, SrcType
<1>3. ASSUME text[p] = Backslash
      PROVE  p + 1 <= Len(text) /\ Src(p - 1) = text[p + 1] /\ StillOpen(text, p + 2)
    <2>1. q # p
        BY <1>1, <1>3 DEF Quote, Backslash
    <2>2. p - 1 \in Nat /\ p - 1 + 2 = p + 1 /\ p + 1 <= Len(text)
        BY <1>0, <1>1, <2>1
    <2>3. Src(p - 1) = text[p + 1]
        BY <2>2, SrcType
    <2> QED BY <1>3, <2>2, <2>3, OpenBehindEscape
<1> QED BY <1>2, <1>3

LEMMA BitOrType ==
    ASSUME NEW x \in Int, NEW y \in Int
    PROVE  BitOr(x, y) \in Int
PROOF BY DEF BitOr

LEMMA BitOrIs ==
    ASSUME NEW h \in Nat, h < 1024, NEW y \in Nat, y < 1024
    PROVE  BitOr(h * 1024, y) = h * 1024 + y
PROOF
<1> DEFINE x == h * 1024
<1>1. y \div 1024 = 0 /\ y \div 2048 = 0 /\ y \div 4096 = 0 /\ y \div 8192 = 0 /\ y % 1024 = y
    OBVIOUS
<1>2. x \div 1024 = h /\ x \div 2048 = h \div 2 /\ x \div 4096 = h \div 4 /\ x \div 8192 = h \div 8
    OBVIOUS
<1>3. x % 16384 = (h % 16) * 1024
    OBVIOUS
<1>4. h % 16 = 8 * ((h \div 8) % 2) + 4 * ((h \div 4) % 2) + 2 * ((h \div 2) % 2) + (h % 2)
    OBVIOUS
<1> HIDE DEF x
<1>5. /\ x \in Int
      /\ (h \div 8) % 2 \in 0..1 /\ (h \div 4) % 2 \in 0..1 /\ (h \div 2) % 2 \in 0..1 /\ h % 2 \in 0..1
    BY DEF x
<1> DEFINE bit(n, w) == IF n = 1 \/ 0 % 2 = 1 THEN w ELSE 0
<1>6. BitOr(x, y) = (x - (x % 16384)) + bit((h \div 8) % 2, 8192) + bit((h \div 4) % 2, 4096)
                      + bit((h \div 2) % 2, 2048) + bit(h % 2, 1024) + y
    BY <1>1, <1>2 DEF BitOr
<1>7. \A n \in 0..1, w \in Nat : bit(n, w) = n * w
    OBVIOUS
<1>8. /\ bit((h \div 8) % 2, 8192) = ((h \div 8) % 2) * 8192
      /\ bit((h \div 4) % 2, 4096) = ((h \div 4) % 2) * 4096
      /\ bit((h \div 2) % 2, 2048) = ((h \div 2) % 2) * 2048
      /\ bit(h % 2, 1024) = (h % 2) * 1024
    <2> HIDE DEF bit
    <2> QED BY <1>5, <1>7
<1> HIDE DEF bit
<1> QED BY <1>3, <1>4, <1>5, <1>6, <1>8 DEF x

LEMMA Utf8Is ==
    ASSUME NEW c \in Int, c >= 0
    PROVE  codepoint_to_utf8(c) = << >> <=> c > 1114111
PROOF BY DEF codepoint_to_utf8

LEMMA TakeIs ==
    ASSUME NEW p, NEW b, NEW n, NEW c
    PROVE  /\ Take(Reading(p, b), n, c) = Reading(p + n, b \o c)
           /\ Take(Reading(p, b), n, c).state = "open"
           /\ \A s : End(Reading(p, b), s).state = s
PROOF
<1> DEFINE q == p + n
           a == b \o c
<1>1. Take(Reading(p, b), n, c) = [Reading(p, b) EXCEPT !.at = q, !.bytes = a]
    BY DEF Take, Reading
<1> HIDE DEF q, a
<1>2. Take(Reading(p, b), n, c) = Reading(q, a)
    BY <1>1 DEF Reading
<1>3. Reading(q, a).state = "open"
    BY DEF Reading
<1>4. \A s : End(Reading(p, b), s).state = s
    BY DEF End, Reading
<1> QED BY <1>2, <1>3, <1>4 DEF q, a

\* What a \u and its digits are, beside what the reference takes them for: r
\* is the program's answer, and x the reading behind them.
Agrees(p, b, r, x) ==
    \/ x.state = "unpaired"
    \/ r.bytes = << >> /\ x.state = "invalid"
    \/ r.bytes # << >> /\ x = Reading(p + r.length, b \o r.bytes)

LEMMA UnicodeRight ==
    ASSUME Shape, input = text, NEW p, StillOpen(text, p),
           text[p] = Backslash, text[p + 1] = LetterU, NEW b,
           NEW r, r = handle_unicode_codepoint(p - 2)
    PROVE  /\ r.bytes \in Seq(Int) /\ Len(r.bytes) <= 4 /\ r.length \in {6, 12}
           /\ r.bytes # << >> => StillOpen(text, p + r.length)
           /\ Agrees(p, b, r, TakeUnicode(Reading(p, b), UnicodeAt(text, p), UnicodeAt(text, p + 6)))
PROOF
<1> DEFINE unit == UnicodeAt(text, p)
           next == UnicodeAt(text, p + 6)
           first == hex_to_u32_nocheck(p)
           second == hex_to_u32_nocheck(p + 6)
           R == Reading(p, b)
           x == TakeUnicode(R, unit, next)
           wide == BitOr((first - 55296) * 1024, second - 56320) + 65536
<1>0. p \in Nat \ {0, 1} /\ Len(text) \in Nat
    BY SMT, TextsAreInt DEF Shape, StillOpen
<1>1. Src(p + 4) = Src((p + 6) - 2) /\ Src(p + 5) = Src((p + 6) - 1)
      /\ (p + 2) - 2 = p /\ (p + 8) - 2 = p + 6 /\ (p - 2) + 2 = p /\ (p - 2) + 8 = p + 6
      /\ (p - 2) + 6 = p + 4 /\ (p - 2) + 7 = p + 5 /\ (p + 6) + 2 = p + 8
      /\ (p + 2) + 4 = p + 6 /\ (p + 8) + 4 = p + 12 /\ (p + 6) + 1 = p + 7
    <2>1. (p + 6) - 2 = p + 4 /\ (p + 6) - 1 = p + 5
        BY SMT, <1>0
    <2> QED BY SMT, <1>0, <2>1
<1>2. unit = HexAt(text, p + 2) /\ StillOpen(text, p + 2) /\ Unit(unit) /\ Unit(next)
    <2>1. p + 1 <= Len(text) /\ StillOpen(text, p + 2)
        BY SMT, EscapeAt
    <2>2. p \in Nat /\ p + 6 \in Nat
        BY SMT, <1>0
    <2> QED BY SMT, <2>1, <2>2, UnitType DEF UnicodeAt
<1>3. first = (IF unit = -1 THEN HighBits ELSE unit) /\ (unit # -1 => StillOpen(text, p + 6))
    BY SMT, <1>1, <1>2, HexSame
<1>4. r = IF first \in High
          THEN IF Src(p + 4) # Backslash \/ Src(p + 5) # LetterU \/ second = HighBits \/ second < 56320
               THEN [bytes |-> << >>, length |-> 6]
               ELSE [bytes |-> codepoint_to_utf8(wide), length |-> 12]
          ELSE [bytes |-> codepoint_to_utf8(first), length |-> 6]
    BY SMT, <1>1 DEF handle_unicode_codepoint, High
<1>5. ASSUME unit # -1
      PROVE  \/ (Src(p + 4) # Backslash \/ Src(p + 5) # LetterU) /\ next = -1
             \/ /\ Src(p + 4) = Backslash /\ Src(p + 5) = LetterU
                /\ second = (IF next = -1 THEN HighBits ELSE next)
                /\ next # -1 => StillOpen(text, p + 12)
    <2>1. StillOpen(text, p + 6)
        BY SMT, <1>3, <1>5
    <2>2. /\ p + 6 <= Len(text) /\ Src(p + 4) = text[p + 6]
          /\ text[p + 6] = Backslash =>
                 p + 7 <= Len(text) /\ Src(p + 5) = text[p + 7] /\ StillOpen(text, p + 8)
        BY SMT, <1>1, <2>1, EscapeAt
    <2>3. CASE Src(p + 4) # Backslash \/ Src(p + 5) # LetterU
        BY SMT, <1>1, <2>2, <2>3 DEF UnicodeAt
    <2>4. CASE Src(p + 4) = Backslash /\ Src(p + 5) = LetterU
        <3>1. next = HexAt(text, p + 8) /\ StillOpen(text, p + 8)
            BY SMT, <1>1, <2>2, <2>4 DEF UnicodeAt
        <3>2. /\ second = IF HexAt(text, p + 8) = -1 THEN HighBits ELSE HexAt(text, p + 8)
              /\ HexAt(text, p + 8) # -1 => StillOpen(text, p + 12)
            BY SMT, <1>1, <3>1, HexSame
        <3> QED BY SMT, <2>4, <3>1, <3>2
    <2> QED BY SMT, <2>3, <2>4
<1> HIDE DEF unit, next, first, second, R
<1>6. \A s : End(R, s).state = s
    BY SMT, TakeIs DEF R
<1>7. HighBits \notin High /\ HighBits \in Int /\ HighBits > 1114111
    BY SMT DEF HighBits, High
<1>8. /\ \A u \in Int : u \in High <=> u >= 55296 /\ u <= 56319
      /\ \A u \in Int : u \in Low <=> u >= 56320 /\ u <= 57343
    BY SMT DEF High, Low
<1>9. codepoint_to_utf8(HighBits) = << >>
    BY SMT, <1>7, Utf8Is
<1>10. << >> \in Seq(Int) /\ Len(<< >>) <= 4
    OBVIOUS
<1> HIDE DEF High, Low, HighBits
<1>11. CASE unit = -1
    <2>1. r.bytes = << >> /\ r.length = 6
        BY SMT, <1>3, <1>4, <1>7, <1>9, <1>11
    <2>2. x = End(R, "invalid")
        BY SMT, <1>2, <1>8, <1>11 DEF TakeUnicode, Unit
    <2>3. x.state = "invalid"
        BY SMT, <1>6, <2>2
    <2>4. r.bytes \in Seq(Int) /\ Len(r.bytes) <= 4
        BY Zenon, <1>10, <2>1
    <2> QED BY SMT, <2>1, <2>3, <2>4 DEF Agrees, x, R, unit, next
<1>12. CASE unit # -1 /\ unit \notin High
    <2>1. first = unit /\ unit \in Int /\ unit >= 0 /\ unit <= 1114111 /\ StillOpen(text, p + 6)
        BY SMT, <1>2, <1>3, <1>12 DEF Unit
    <2>2. r.bytes = codepoint_to_utf8(unit) /\ r.length = 6
        BY SMT, <1>4, <1>12, <2>1
    <2>3. r.bytes \in Seq(Int) /\ Len(r.bytes) <= 4 /\ r.bytes # << >>
        <3>0. unit \in Int
            BY SMT, <2>1
        <3>1. codepoint_to_utf8(unit) \in Seq(Int) /\ Len(codepoint_to_utf8(unit)) <= 4
            BY Zenon, <3>0, Utf8Type
        <3>2. codepoint_to_utf8(unit) # << >>
            BY SMT, <2>1, Utf8Is
        <3> QED BY Zenon, <2>2, <3>1, <3>2
    <2>4. CASE unit \in Low
        <3>1. x = End(R, "unpaired")
            BY SMT, <1>12, <2>4 DEF TakeUnicode
        <3> QED BY SMT, <1>6, <2>1, <2>2, <2>3, <3>1 DEF Agrees, x, R, unit, next
    <2>5. CASE unit \notin Low
        <3>1. x = Take(R, 6, codepoint_to_utf8(unit))
            BY SMT, <1>12, <2>5 DEF TakeUnicode
        <3>2. x = Reading(p + 6, b \o codepoint_to_utf8(unit))
            BY SMT, <3>1, TakeIs DEF R
        <3> HIDE DEF x
        <3> QED BY SMT, <2>1, <2>2, <2>3, <3>2 DEF Agrees, x, R, unit, next
    <2> QED BY SMT, <2>4, <2>5
<1>13. CASE unit \in High
    <2>1. unit # -1 /\ unit \in Int /\ unit >= 55296 /\ unit <= 56319 /\ first = unit /\ unit \notin Low
        BY SMT, <1>2, <1>3, <1>8, <1>13 DEF Unit
    <2>2. CASE next < 56320
        <3>1. next = -1 \/ second = next
            BY SMT, <1>2, <1>5, <2>1, <2>2 DEF Unit
        <3>2. r.bytes = << >> /\ r.length = 6
            BY SMT, <1>2, <1>4, <1>5, <1>13, <2>1, <2>2, <3>1 DEF Unit
        <3>3. next \notin Low
            BY SMT, <1>2, <1>8, <2>2 DEF Unit
        <3>4. x = End(R, "invalid")
            BY SMT, <1>2, <1>13, <2>1, <2>2, <3>3 DEF TakeUnicode, Unit
        <3>5. x.state = "invalid"
            BY SMT, <1>6, <3>4
        <3>6. r.bytes \in Seq(Int) /\ Len(r.bytes) <= 4
            BY Zenon, <1>10, <3>2
        <3> QED BY SMT, <3>2, <3>5, <3>6 DEF Agrees, x, R, unit, next
    <2>3. CASE next >= 56320
        <3>1. second = next /\ next \in Int /\ next <= 65535 /\ StillOpen(text, p + 12)
            BY SMT, <1>2, <1>5, <2>1, <2>3 DEF Unit
        <3>2. second # HighBits /\ Src(p + 4) = Backslash /\ Src(p + 5) = LetterU
            BY SMT, <1>2, <1>5, <1>7, <2>1, <2>3, <3>1 DEF Unit
        <3>3. r.bytes = codepoint_to_utf8(wide) /\ r.length = 12
            BY SMT, <1>4, <1>13, <2>1, <2>3, <3>1, <3>2
        <3>4. wide \in Int
            BY SMT, <2>1, <3>1, BitOrType
        <3>5. r.bytes \in Seq(Int) /\ Len(r.bytes) <= 4
            <4> HIDE DEF wide
            <4> QED BY Zenon, <3>3, <3>4, Utf8Type
        <3>6. CASE next > 57343
            <4>1. next \notin Low
                BY SMT, <1>8, <3>1, <3>6
            <4>2. x = End(R, "unpaired")
                BY SMT, <1>13, <2>1, <2>3, <3>1, <3>6, <4>1 DEF TakeUnicode
            <4> QED BY SMT, <1>6, <3>1, <3>3, <3>5, <4>2 DEF Agrees, x, R, unit, next
        <3>7. CASE next <= 57343
            <4>1. next \in Low
                BY SMT, <1>8, <2>3, <3>1, <3>7
            <4> DEFINE h == unit - 55296
                       y == next - 56320
                       point == (unit - 55296) * 1024 + next - 56320 + 65536
            <4>2. h \in Nat /\ h < 1024 /\ y \in Nat /\ y < 1024
                BY SMT, <2>1, <2>3, <3>1, <3>7
            <4>3. wide = point
                <5>1. BitOr(h * 1024, y) = h * 1024 + y
                    <6> HIDE DEF h, y
                    <6> QED BY SMT, <4>2, BitOrIs
                <5> QED BY SMT, <2>1, <3>1, <5>1
            <4>4. point \in Int /\ point >= 0 /\ point <= 1114111
                BY SMT, <2>1, <2>3, <3>1, <3>7
            <4>5. x = Take(R, 12, codepoint_to_utf8(point))
                BY SMT, <1>13, <2>1, <2>3, <3>1, <3>7, <4>1 DEF TakeUnicode
            <4> HIDE DEF point, wide
            <4>6. codepoint_to_utf8(point) # << >>
                BY SMT, <4>4, Utf8Is
            <4>7. x = Reading(p + 12, b \o codepoint_to_utf8(point))
                BY SMT, <4>5, TakeIs DEF R
            <4> HIDE DEF x
            <4> QED BY SMT, <3>1, <3>3, <3>5, <4>3, <4>6, <4>7 DEF Agrees, x, R, unit, next
        <3> QED BY SMT, <3>1, <3>6, <3>7
    <2> QED BY SMT, <1>2, <2>2, <2>3 DEF Unit
<1> QED BY SMT, <1>11, <1>12, <1>13

---------------------------------------------------------------------------
(* A chunk read.                                                           *)

Front == SubSeq(text, 2, len + 1)

Copied(d) == Front \o Spells(ChunkStored, dst_i + d)

LEMMA FrontType ==
    ASSUME Shape, InStep
    PROVE  Front \in Seq(Int) /\ Len(Front) = len
PROOF
<1>1. text \in Seq(Int) /\ Len(text) \in Nat
    BY TextsAreInt DEF Shape
<1>2. src_i + 2 <= Len(text)
    BY EscapeAt DEF InStep, Shape
<1>3. len + 1 \in Nat /\ 2 <= (len + 1) + 1 /\ len + 1 <= Len(text)
    BY <1>1, <1>2 DEF Shape, InStep
<1>4. \A i \in 2..len + 1 : text[i] \in Int
    BY <1>1, <1>3, ElementOfSeq
<1> DEFINE n == len + 1
<1>5. 2 \in Int /\ n \in Int /\ n \in Nat /\ n >= 1 /\ n = len + 1
    BY <1>3 DEF Shape
<1> HIDE DEF n
<1>6. \A i \in 2..n : text[i] \in Int
    BY <1>4, <1>5
<1>7. SubSeq(text, 2, n) \in Seq(Int) /\ Len(SubSeq(text, 2, n)) = IF 2 <= n THEN n - 2 + 1 ELSE 0
    BY ONLY <1>5, <1>6, SubSeqProperties
<1>8. Len(SubSeq(text, 2, n)) = len
    BY <1>5, <1>7 DEF Shape
<1> QED BY <1>5, <1>7, <1>8 DEF Front

\* The chunk as a sequence, and the part of it that is read.
LEMMA ChunkPart ==
    ASSUME Shape, input = text, StillOpen(text, src_i + 2),
           NEW d \in 0..Chunk, \A j \in 0..d - 1 : Plain(v[j])
    PROVE  /\ [k \in 1..Chunk |-> v[k - 1]] \in Seq(Int)
           /\ Len([k \in 1..Chunk |-> v[k - 1]]) = Chunk
           /\ SubSeq([k \in 1..Chunk |-> v[k - 1]], 1, d) = SubSeq(text, src_i + 2, src_i + 2 + d - 1)
           /\ SubSeq(text, src_i + 2, src_i + 2 + d - 1) \in Seq(Int)
PROOF
<1> DEFINE c == [k \in 1..Chunk |-> v[k - 1]]
           p == src_i + 2
           q == p + d - 1
           a == SubSeq(c, 1, d)
           b == SubSeq(text, p, q)
<1>0. Chunk \in Nat /\ p \in Nat \ {0, 1} /\ text \in Seq(Int) /\ Len(text) \in Nat /\ d \in Nat
    BY TextsAreInt, ChunkAssumption DEF Shape
<1>1. \A k \in 1..Chunk : v[k - 1] \in Int
    <2>1. \A k \in 1..Chunk : k - 1 \in Lanes
        BY <1>0 DEF Lanes
    <2> QED BY <2>1, ChunkType
<1>2. c \in Seq(Int) /\ Len(c) = Chunk /\ \A k \in 1..Chunk : c[k] = v[k - 1]
    BY <1>0, <1>1
<1>3. p + d <= Len(text) /\ \A j \in 0..d - 1 : v[j] = text[p + j]
    BY ChunkRead
<1> HIDE DEF c, p
<1>4. a \in Seq(Int) /\ Len(a) = d /\ \A k \in 1..d : a[k] = c[k]
    <2>1. 1 \in Int /\ d \in Int /\ \A i \in 1..d : c[i] \in Int
        BY <1>0, <1>2, <1>1
    <2>2. /\ a \in Seq(Int) /\ Len(a) = IF 1 <= d THEN d - 1 + 1 ELSE 0
          /\ \A i \in 1..d - 1 + 1 : a[i] = c[1 + i - 1]
        BY ONLY <2>1, SubSeqProperties
    <2> HIDE DEF a
    <2> QED BY <1>0, <2>1, <2>2
<1>5. b \in Seq(Int) /\ Len(b) = d /\ \A k \in 1..d : b[k] = text[p + k - 1]
    <2>0. q \in Nat /\ p \in Nat \ {0} /\ p <= q + 1 /\ q + 1 <= Len(text) /\ q - p + 1 = d
        BY <1>0, <1>3
    <2> HIDE DEF q
    <2> QED BY <1>0, <2>0, PartNext
<1> HIDE DEF a, b
<1>6. \A k \in 1..d : a[k] = b[k]
    <2> SUFFICES ASSUME NEW k \in 1..d PROVE a[k] = b[k]
        OBVIOUS
    <2>1. k \in 1..Chunk /\ k - 1 \in 0..d - 1 /\ p + k - 1 = p + (k - 1)
        BY <1>0
    <2> QED BY <1>2, <1>3, <1>4, <1>5, <2>1
<1>7. a = b
    BY <1>4, <1>5, <1>6, SeqEqual
<1> QED BY <1>2, <1>5, <1>7 DEF a, b, c, p

\* What is read of a chunk is copied to the buffer, and the reference comes by
\* its end.
LEMMA CopiedIs ==
    ASSUME Shape, InStep, NEW d \in 0..Chunk, \A j \in 0..d - 1 : Plain(v[j])
    PROVE  /\ ChunkStored \in [0..Len(text) + Chunk - 1 -> Int]
           /\ len + (dst_i + d) <= src_i + d /\ src_i + d + 2 <= Len(text)
           /\ Copied(d) \in Seq(Int) /\ Len(Copied(d)) = len + (dst_i + d)
           /\ Reference.state = "unpaired" \/ Reads(text, src_i + 2 + d, Copied(d))
PROOF
<1> DEFINE c == [k \in 1..Chunk |-> v[k - 1]]
           N == Len(text) + Chunk
           p == src_i + 2
           part == SubSeq(text, p, p + d - 1)
           before == Spells(strings, dst_i)
<1>0. Chunk \in Nat /\ p \in Nat \ {0, 1} /\ text \in Seq(Int) /\ Len(text) \in Nat /\ d \in Nat /\ N \in Nat
    BY TextsAreInt, ChunkAssumption DEF Shape
<1>1. c \in Seq(Int) /\ Len(c) = Chunk /\ SubSeq(c, 1, d) = part /\ part \in Seq(Int)
    BY ChunkPart DEF InStep
<1>2. p + d <= Len(text) /\ \A q \in p..p + d - 1 : Plain(text[q])
    BY ChunkRead DEF InStep
<1>3. len + (dst_i + d) <= src_i + d /\ src_i + d + 2 <= Len(text) /\ dst_i + d <= N /\ dst_i \in 0..N
      /\ dst_i + d \in 0..N
    BY <1>0, <1>2 DEF InStep, Shape
<1> HIDE DEF c, part, p, N
<1>4. /\ Stored(strings, dst_i, c) \in [0..N - 1 -> Int]
      /\ Spells(Stored(strings, dst_i, c), dst_i + d) = Spells(strings, dst_i) \o SubSeq(c, 1, d)
    <2>1. strings \in [0..N - 1 -> Int] /\ dst_i \in Nat /\ d \in 0..Len(c)
        BY <1>0, <1>1 DEF Shape, N
    <2>2. N \in Nat /\ c \in Seq(Int) /\ dst_i + d <= N
        BY <1>0, <1>1, <1>3
    <2> QED BY Zenon, <2>1, <2>2, StoredIs
<1>5. ChunkStored = Stored(strings, dst_i, c)
    BY DEF ChunkStored, c
<1>6. /\ before \in Seq(Int) /\ Front \in Seq(Int) /\ Front \o before \in Seq(Int)
      /\ SoFar = Front \o before /\ Len(Front) = len
    <2>1. before \in Seq(Int)
        <3>1. strings \in [0..N - 1 -> Int]
            BY <1>0 DEF Shape, N
        <3> QED BY <1>0, <1>3, <3>1, SpellsType
    <2>2. Front \in Seq(Int) /\ Len(Front) = len
        BY FrontType
    <2>3. SoFar = Front \o before
        BY DEF SoFar, Front
    <2> HIDE DEF before
    <2>4. Front \o before \in Seq(Int)
        BY <2>1, <2>2, ConcatProperties
    <2> QED BY <2>1, <2>2, <2>3, <2>4
<1> HIDE DEF before
<1>7. Spells(ChunkStored, dst_i + d) = before \o part
    BY <1>1, <1>4, <1>5 DEF before
<1>8. Copied(d) = (Front \o before) \o part
    <2>1. (Front \o before) \o part = Front \o (before \o part)
        <3>1. before \in Seq(Int) /\ Front \in Seq(Int) /\ part \in Seq(Int)
            BY <1>1, <1>6
        <3> QED BY <3>1, Joined
    <2> QED BY <1>7, <2>1 DEF Copied
<1>9. Copied(d) \in Seq(Int) /\ Len(Copied(d)) = len + (dst_i + d)
    <2> DEFINE after == Spells(ChunkStored, dst_i + d)
    <2>1. after \in Seq(Int) /\ Len(after) = dst_i + d
        BY <1>0, <1>3, <1>4, <1>5, SpellsType
    <2>2. Copied(d) = Front \o after
        BY DEF Copied
    <2> HIDE DEF after
    <2> QED BY <1>6, <2>1, <2>2, ConcatProperties
<1>10. Reference.state = "unpaired" \/ Reads(text, p + d, Copied(d))
    <2> SUFFICES ASSUME Reads(text, p, SoFar) PROVE Reads(text, p + d, Copied(d))
        BY DEF InStep, p
    <2>1. \A q \in p..p + d - 1 : text[q] \notin {Quote, Backslash}
        BY <1>2 DEF Plain
    <2>2. p + d - 1 <= Len(text)
        BY <1>0, <1>2
    <2>3. Reads(text, p, Front \o before)
        BY <1>6
    <2>4. Reads(text, p + d, (Front \o before) \o part)
        BY <1>0, <1>6, <2>1, <2>2, <2>3, ReadsRun DEF part
    <2> QED BY <1>8, <2>4
<1>11. ChunkStored \in [0..Len(text) + Chunk - 1 -> Int]
    BY <1>0, <1>4, <1>5 DEF N
<1> QED BY <1>3, <1>9, <1>10, <1>11 DEF p

\* The bytes of an escape behind them.
LEMMA WrittenIs ==
    ASSUME Shape, InStep, NEW d \in 0..Chunk, \A j \in 0..d - 1 : Plain(v[j]),
           NEW bs \in Seq(Int), dst_i + d + Len(bs) <= Len(text),
           NEW new, new = Stored(ChunkStored, dst_i + d, bs)
    PROVE  /\ new \in [0..Len(text) + Chunk - 1 -> Int]
           /\ Front \o Spells(new, dst_i + d + Len(bs)) = Copied(d) \o bs
PROOF
<1> DEFINE N == Len(text) + Chunk
           n == dst_i + d
           after == Spells(ChunkStored, n)
<1>0. Chunk \in Nat /\ Len(text) \in Nat /\ d \in Nat /\ N \in Nat /\ n \in Nat /\ Len(bs) \in Nat
    BY TextsAreInt, ChunkAssumption DEF Shape
<1>1. ChunkStored \in [0..N - 1 -> Int]
    BY <1>0, CopiedIs
<1>2. n + Len(bs) <= N /\ n \in 0..N
    BY <1>0
<1> HIDE DEF N, n
<1>3. /\ new \in [0..N - 1 -> Int]
      /\ Spells(new, n + Len(bs)) = after \o SubSeq(bs, 1, Len(bs))
    <2>1. Len(bs) \in 0..Len(bs)
        BY <1>0
    <2>2. new = Stored(ChunkStored, n, bs)
        BY DEF n
    <2>3. n \in Nat /\ N \in Nat /\ n + Len(bs) <= N
        BY <1>0, <1>2
    <2> DEFINE buffer == ChunkStored
               stored == Stored(buffer, n, bs)
    <2>4. buffer \in [0..N - 1 -> Int] /\ bs \in Seq(Int)
        BY <1>1
    <2> HIDE DEF buffer
    <2>5. /\ stored \in [0..N - 1 -> Int]
          /\ Spells(stored, n + Len(bs)) = Spells(buffer, n) \o SubSeq(bs, 1, Len(bs))
        BY ONLY <2>1, <2>3, <2>4, StoredIs
    <2> QED BY <2>2, <2>5 DEF buffer
<1>4. SubSeq(bs, 1, Len(bs)) = bs
    BY SubSeqFull
<1>5. after \in Seq(Int) /\ Front \in Seq(Int)
    BY <1>0, <1>1, <1>2, SpellsType, FrontType
<1>6. Copied(d) = Front \o after
    BY DEF Copied, n
<1> HIDE DEF after
<1>7. Front \o (after \o bs) = (Front \o after) \o bs
    <2>1. bs \in Seq(Int)
        OBVIOUS
    <2> DEFINE front == Front
    <2>2. front \in Seq(Int) /\ after \in Seq(Int)
        BY <1>5
    <2> HIDE DEF front
    <2>3. front \o (after \o bs) = (front \o after) \o bs
        BY ONLY <2>1, <2>2, ConcatAssociative
    <2> QED BY <2>3 DEF front
<1>8. Front \o Spells(new, n + Len(bs)) = Copied(d) \o bs
    BY <1>3, <1>4, <1>6, <1>7
<1>9. new \in [0..Len(text) + Chunk - 1 -> Int]
    BY <1>0, <1>3 DEF N
<1>10. Front \o Spells(new, dst_i + d + Len(bs)) = Copied(d) \o bs
    BY <1>8 DEF n
<1> QED BY <1>9, <1>10

\* What is read of a chunk while the string stays in place.
LEMMA ScannedIs ==
    ASSUME Shape, InStep, dst_i = 0, len = src_i,
           NEW d \in 0..Chunk, \A j \in 0..d - 1 : Plain(v[j])
    PROVE  LET scanned == SubSeq(text, 2, len + d + 1) IN
           /\ scanned \in Seq(Int) /\ Len(scanned) = len + d
           /\ scanned \o Spells(strings, 0) = scanned
           /\ Reference.state = "unpaired" \/ Reads(text, src_i + 2 + d, scanned)
PROOF
<1> DEFINE q == src_i + d + 1
           scanned == SubSeq(text, 2, q)
           p == src_i + 2
           part == SubSeq(text, p, p + d - 1)
<1>0. p \in Nat \ {0, 1} /\ text \in Seq(Int) /\ Len(text) \in Nat /\ d \in Nat /\ Chunk \in Nat
    BY TextsAreInt, ChunkAssumption DEF Shape
<1>1. p + d <= Len(text) /\ \A r \in p..p + d - 1 : text[r] \notin {Quote, Backslash}
    BY ChunkRead DEF InStep, Plain
<1>2. Spells(strings, 0) = << >>
    BY DEF Spells
<1>3. Front \in Seq(Int) /\ Front \o << >> = Front /\ Front = SubSeq(text, 2, p - 1)
    <2> DEFINE front == Front
    <2>1. front \in Seq(Int)
        BY FrontType
    <2> HIDE DEF front
    <2>2. front \o << >> = front
        BY <2>1, ConcatEmptySeq
    <2>3. len + 1 = p - 1
        BY DEF Shape
    <2> QED BY <2>1, <2>2, <2>3 DEF front, Front
<1>4. SoFar = Front
    BY <1>2, <1>3 DEF SoFar, Front
<1>5. scanned \in Seq(Int) /\ Len(scanned) = src_i + d
    <2>1. q \in Nat /\ 2 <= q + 1 /\ q + 1 <= Len(text) /\ q - 2 + 1 = src_i + d /\ 2 \in Nat \ {0}
        BY <1>0, <1>1 DEF Shape
    <2> HIDE DEF q, p
    <2> QED BY <1>0, <2>1, PartNext
<1>6. SubSeq(text, 2, p - 1) \o part = scanned
    <2> DEFINE k == p - 1
    <2>1. 2 \in 1..Len(text) + 1 /\ k \in 2 - 1..Len(text) /\ q \in k..Len(text) /\ k + 1 = p
          /\ p + d - 1 = q
        BY <1>0, <1>1 DEF Shape
    <2> HIDE DEF p, q, k
    <2>2. SubSeq(text, 2, k) \o SubSeq(text, k + 1, q) = SubSeq(text, 2, q)
        BY <1>0, <2>1, ConcatAdjacentSubSeq
    <2> QED BY <2>1, <2>2 DEF k
<1> HIDE DEF p
<1>7. Reference.state = "unpaired" \/ Reads(text, p + d, scanned)
    <2> SUFFICES ASSUME Reads(text, p, SoFar) PROVE Reads(text, p + d, scanned)
        BY DEF InStep, p
    <2>1. p + d - 1 <= Len(text) /\ Reads(text, p, Front)
        BY <1>0, <1>1, <1>4
    <2>2. Reads(text, p + d, Front \o part)
        BY <1>0, <1>1, <1>3, <2>1, ReadsRun DEF part
    <2> QED BY <1>3, <1>6, <2>2
<1>8. scanned \o Spells(strings, 0) = scanned
    <2> HIDE DEF scanned
    <2>1. scanned \o << >> = scanned
        BY <1>5, ConcatEmptySeq
    <2> QED BY <1>2, <2>1
<1>9. len + d + 1 = q /\ len + d = src_i + d
    BY DEF Shape
<1> HIDE DEF q
<1> QED BY <1>5, <1>7, <1>8, <1>9 DEF p

---------------------------------------------------------------------------
(* The steps.                                                              *)

LEMMA PaddingType ==
    ASSUME Shape, input = text, KeepPadding
    PROVE  padding' \in [Lanes -> Int]
PROOF BY ChunkType DEF Shape, KeepPadding

LEMMA ReferenceKept ==
    ASSUME text' = text
    PROVE  Reference' = Reference
PROOF BY DEF Reference

\* A step after which the string is still open.
LEMMA GoesOn ==
    ASSUME StringInv, pc # "Done", KeepPadding, UNCHANGED <<text, input, beyond>>,
           pc' \in {"Scan", "Copy"}, src_i' \in Nat, len' \in Nat, dst_i' \in Nat,
           strings' \in [0..Len(text) + Chunk - 1 -> Int],
           StillOpen(text, src_i' + 2),
           \/ Reference.state = "unpaired"
           \/ Reads(text, src_i' + 2, SubSeq(text, 2, len' + 1) \o Spells(strings', dst_i')),
           len' + dst_i' <= src_i',
           pc' = "Scan" => dst_i' = 0 /\ len' = src_i'
    PROVE  StringInv'
PROOF
<1>1. Shape /\ input = text
    BY DEF StringInv, InStep
<1>2. Reference' = Reference
    BY ReferenceKept
<1>3. Shape'
    BY <1>1, PaddingType DEF Shape
<1>4. InStep'
    BY <1>1, <1>2 DEF InStep, SoFar
<1>5. UnescapedRight'
    BY DEF UnescapedRight
<1>6. RestUntouched'
    BY <1>1 DEF RestUntouched
<1> QED BY <1>3, <1>4, <1>5, <1>6 DEF StringInv

\* A step that ends the string.
LEMMA Finishes ==
    ASSUME StringInv, pc # "Done", KeepPadding, UNCHANGED <<text, beyond>>,
           pc' = "Done", src_i' \in Nat, len' \in Nat, dst_i' \in Nat,
           strings' \in [0..Len(text) + Chunk - 1 -> Int],
           Reference.state # "unpaired" =>
               /\ result'.status = "ok" <=> Reference.state = "closed"
               /\ result'.status = "ok" => SubSeq(input', 2, result'.length + 1) = Reference.bytes,
           \A p \in DOMAIN text : p = 1 \/ ClosedBy(text, p) => input'[p] = text[p]
    PROVE  StringInv'
PROOF
<1>1. Shape /\ input = text
    BY DEF StringInv, InStep
<1>2. Reference' = Reference
    BY ReferenceKept
<1>3. Shape'
    BY <1>1, PaddingType DEF Shape
<1>4. UnescapedRight'
    BY <1>2 DEF UnescapedRight, StringReturned
<1>5. RestUntouched'
    <2>1. DOMAIN text \subseteq Nat
        BY <1>1, TextsAreInt DEF Shape
    <2>2. \A p \in DOMAIN text : ClosedBy(text', p) <=> ClosedBy(text, p)
        OBVIOUS
    <2>3. \A p \in DOMAIN text : p \in Nat /\ p >= 1
        BY <1>1, TextsAreInt DEF Shape
    <2>4. \A p \in DOMAIN text : input'[p] # text[p] => p > 1 /\ ~ClosedBy(text, p)
        BY <2>3
    <2> QED BY <2>4 DEF RestUntouched
<1> QED BY <1>3, <1>4, <1>5 DEF StringInv

LEMMA ReferenceEnds ==
    ASSUME Shape, NEW p \in 2..Len(text), NEW b, Reads(text, p, b),
           NEW r, TakeCharacter(text, Reading(p, b)) = r, r.state # "open"
    PROVE  Reference = r
PROOF
<1>1. text \in Seq(Int)
    BY TextsAreInt DEF Shape
<1>2. Readings(text)[Len(text)] = r
    BY <1>1, ReadsEnd
<1> QED BY <1>2 DEF Reference

\* A closing quote.
LEMMA ReferenceCloses ==
    ASSUME Shape, NEW p \in 2..Len(text), NEW b, Reads(text, p, b), text[p] = Quote
    PROVE  Reference.state = "closed" /\ Reference.at = p /\ Reference.bytes = b
PROOF
<1> DEFINE r == End(Reading(p, b), "closed")
<1>1. TakeCharacter(text, Reading(p, b)) = r
    BY DEF TakeCharacter, Reading
<1>2. r.state = "closed" /\ r.at = p /\ r.bytes = b
    BY DEF End, Reading
<1> HIDE DEF r
<1> QED BY <1>1, <1>2, ReferenceEnds

LEMMA ScanOnKeeps ==
    ASSUME StringInv, ScanOn
    PROVE  StringInv'
PROOF
<1>1. Shape /\ InStep /\ dst_i = 0 /\ len = src_i /\ pc = "Scan"
    BY DEF StringInv, ScanOn
<1>2. Chunk \in 0..Chunk /\ Chunk \in Nat /\ \A j \in 0..Chunk - 1 : Plain(v[j])
    BY ChunkAssumption, ChunkCases DEF ScanOn
<1>3. StillOpen(text, src_i + 2 + Chunk)
    BY <1>1, <1>2, ChunkRead DEF InStep
<1>4. /\ SubSeq(text, 2, len + Chunk + 1) \o Spells(strings, 0) = SubSeq(text, 2, len + Chunk + 1)
      /\ Reference.state = "unpaired"
           \/ Reads(text, src_i + 2 + Chunk, SubSeq(text, 2, len + Chunk + 1))
    BY <1>1, <1>2, ScannedIs
<1>5. /\ KeepPadding /\ UNCHANGED <<text, input, beyond>> /\ pc' = pc
      /\ len' = len + Chunk /\ src_i' = src_i + Chunk /\ dst_i' = 0 /\ strings' = strings
    BY <1>1 DEF ScanOn
<1>6. /\ src_i' \in Nat /\ len' \in Nat /\ dst_i' \in Nat /\ src_i' + 2 = src_i + 2 + Chunk
      /\ strings \in [0..Len(text) + Chunk - 1 -> Int] /\ len' + dst_i' <= src_i' /\ len' = src_i'
    BY <1>1, <1>2, <1>5 DEF Shape
<1>7. StillOpen(text, src_i' + 2)
    BY <1>3, <1>6
<1>8. \/ Reference.state = "unpaired"
      \/ Reads(text, src_i' + 2, SubSeq(text, 2, len' + 1) \o Spells(strings', dst_i'))
    BY <1>4, <1>5, <1>6
<1> QED BY <1>1, <1>5, <1>6, <1>7, <1>8, GoesOn

LEMMA ScanBackslashKeeps ==
    ASSUME StringInv, ScanBackslash
    PROVE  StringInv'
PROOF
<1> DEFINE d == Distance(Backslash)
<1>1. Shape /\ InStep /\ dst_i = 0 /\ len = src_i /\ pc = "Scan"
    BY DEF StringInv, ScanBackslash
<1>2. d \in 0..Chunk /\ d \in Nat /\ \A j \in 0..d - 1 : Plain(v[j])
    BY ChunkAssumption, ChunkCases, DistanceIs DEF ScanBackslash
<1>5. /\ KeepPadding /\ UNCHANGED <<text, input, beyond>> /\ pc' = "Copy"
      /\ len' = len + d /\ src_i' = src_i + d /\ dst_i' = 0 /\ strings' = strings
    BY <1>1 DEF ScanBackslash
<1> HIDE DEF d
<1>3. StillOpen(text, src_i + 2 + d)
    BY <1>1, <1>2, ChunkRead DEF InStep
<1>4. /\ SubSeq(text, 2, len + d + 1) \o Spells(strings, 0) = SubSeq(text, 2, len + d + 1)
      /\ Reference.state = "unpaired"
           \/ Reads(text, src_i + 2 + d, SubSeq(text, 2, len + d + 1))
    BY <1>1, <1>2, ScannedIs
<1>6. /\ src_i' \in Nat /\ len' \in Nat /\ dst_i' \in Nat /\ src_i' + 2 = src_i + 2 + d
      /\ strings \in [0..Len(text) + Chunk - 1 -> Int] /\ len' + dst_i' <= src_i'
    BY <1>1, <1>2, <1>5 DEF Shape
<1>7. StillOpen(text, src_i' + 2)
    BY <1>3, <1>6
<1>8. \/ Reference.state = "unpaired"
      \/ Reads(text, src_i' + 2, SubSeq(text, 2, len' + 1) \o Spells(strings', dst_i'))
    BY <1>4, <1>5, <1>6
<1> QED BY <1>1, <1>5, <1>6, <1>7, <1>8, GoesOn

LEMMA ScanQuoteKeeps ==
    ASSUME StringInv, ScanQuote
    PROVE  StringInv'
PROOF
<1> DEFINE d == Distance(Quote)
           b == SubSeq(text, 2, len + d + 1)
<1>1. Shape /\ InStep /\ dst_i = 0 /\ len = src_i /\ pc = "Scan" /\ input = text
    BY DEF StringInv, ScanQuote, InStep
<1>2. d \in 0..Chunk /\ d < Chunk /\ d \in Nat /\ v[d] = Quote /\ \A j \in 0..d - 1 : Plain(v[j])
    BY ChunkAssumption, ChunkCases, DistanceIs DEF ScanQuote
<1>3. /\ KeepPadding /\ UNCHANGED <<text, input, beyond>> /\ pc' = "Done"
      /\ len' = len + d /\ src_i' = src_i /\ dst_i' = 0 /\ strings' = strings
      /\ result' = [status |-> "ok", length |-> len + d]
    BY <1>1 DEF ScanQuote, Ok
<1> HIDE DEF d
<1>4. src_i + 2 + d \in 2..Len(text) /\ text[src_i + 2 + d] = Quote
    <2>1. src_i + 2 + d <= Len(text) /\ v[d] = text[src_i + 2 + d]
        BY <1>1, <1>2, ChunkRead DEF InStep
    <2>2. src_i \in Nat /\ Len(text) \in Nat
        BY <1>1, TextsAreInt DEF Shape
    <2> QED BY <1>2, <2>1, <2>2
<1>5. Reference.state = "unpaired" \/ Reads(text, src_i + 2 + d, b)
    BY <1>1, <1>2, ScannedIs
<1>6. Reference.state = "unpaired" \/ (Reference.state = "closed" /\ Reference.bytes = b)
    <2> HIDE DEF b
    <2> QED BY <1>1, <1>4, <1>5, ReferenceCloses
<1>7. result'.status = "ok" /\ SubSeq(input', 2, result'.length + 1) = b
    BY <1>1, <1>3
<1>8. src_i' \in Nat /\ len' \in Nat /\ dst_i' \in Nat /\ strings' \in [0..Len(text) + Chunk - 1 -> Int]
    BY <1>1, <1>2, <1>3 DEF Shape
<1>9. \A p \in DOMAIN text : input'[p] = text[p]
    BY <1>1, <1>3
<1> HIDE DEF b
<1> QED BY <1>1, <1>3, <1>6, <1>7, <1>8, <1>9, Finishes

LEMMA CopyOnKeeps ==
    ASSUME StringInv, CopyOn
    PROVE  StringInv'
PROOF
<1>1. Shape /\ InStep /\ pc = "Copy"
    BY DEF StringInv, CopyOn
<1>2. Chunk \in 0..Chunk /\ Chunk \in Nat /\ \A j \in 0..Chunk - 1 : Plain(v[j])
    BY ChunkAssumption, ChunkCases DEF CopyOn
<1>3. StillOpen(text, src_i + 2 + Chunk)
    BY <1>1, <1>2, ChunkRead DEF InStep
<1>4. /\ ChunkStored \in [0..Len(text) + Chunk - 1 -> Int]
      /\ len + (dst_i + Chunk) <= src_i + Chunk
      /\ Reference.state = "unpaired" \/ Reads(text, src_i + 2 + Chunk, Copied(Chunk))
    BY <1>1, <1>2, CopiedIs
<1>5. /\ KeepPadding /\ UNCHANGED <<text, input, beyond>> /\ pc' = "Copy"
      /\ len' = len /\ src_i' = src_i + Chunk /\ dst_i' = dst_i + Chunk /\ strings' = ChunkStored
    BY <1>1 DEF CopyOn
<1>6. /\ src_i' \in Nat /\ len' \in Nat /\ dst_i' \in Nat /\ src_i' + 2 = src_i + 2 + Chunk
      /\ len' + dst_i' <= src_i'
    BY <1>1, <1>2, <1>4, <1>5 DEF Shape
<1>7. StillOpen(text, src_i' + 2)
    BY <1>3, <1>6
<1>8. \/ Reference.state = "unpaired"
      \/ Reads(text, src_i' + 2, SubSeq(text, 2, len' + 1) \o Spells(strings', dst_i'))
    BY <1>4, <1>5, <1>6 DEF Copied, Front
<1> QED BY <1>1, <1>4, <1>5, <1>6, <1>7, <1>8, GoesOn

\* The input with the string written back: the string, and what follows it.
LEMMA WrittenBack ==
    ASSUME Shape, InStep, NEW d \in 0..Chunk, \A j \in 0..d - 1 : Plain(v[j]),
           NEW back, NEW n, n = dst_i + d,
           back = [p \in DOMAIN input |->
                      IF p - 2 - len \in 0..n - 1 THEN ChunkStored[p - 2 - len] ELSE input[p]]
    PROVE  /\ SubSeq(back, 2, len + n + 1) = Copied(d)
           /\ \A p \in DOMAIN text : p = 1 \/ p >= src_i + 2 + d => back[p] = text[p]
PROOF
<1> DEFINE stored == ChunkStored
           N == Len(text) + Chunk
           m == len + n + 1
           part == SubSeq(back, 2, m)
           after == Spells(stored, n)
           front == Front
<1>0. /\ text \in Seq(Int) /\ Len(text) \in Nat /\ input = text /\ Chunk \in Nat /\ d \in Nat
      /\ n \in Nat /\ len \in Nat /\ src_i \in Nat /\ N \in Nat
    BY TextsAreInt, ChunkAssumption DEF Shape, InStep
<1>1. /\ stored \in [0..Len(text) + Chunk - 1 -> Int]
      /\ len + n <= src_i + d /\ src_i + d + 2 <= Len(text)
      /\ Copied(d) \in Seq(Int) /\ Len(Copied(d)) = len + n
    BY CopiedIs
<1>2. DOMAIN text = 1..Len(text) /\ \A p \in 1..Len(text) : text[p] \in Int
    BY <1>0
<1>3. \A p \in 1..Len(text) : back[p] = IF p - 2 - len \in 0..n - 1 THEN stored[p - 2 - len] ELSE text[p]
    BY <1>0, <1>2
<1>4. stored \in [0..N - 1 -> Int] /\ n \in 0..N
    BY <1>0, <1>1
<1>5. after \in Seq(Int) /\ Len(after) = n /\ \A k \in 1..n : after[k] = stored[k - 1]
    <2> HIDE DEF stored, N
    <2> QED BY <1>0, <1>4, SpellsType
<1>6. front \in Seq(Int) /\ Len(front) = len /\ \A k \in 1..len : front[k] = text[k + 1]
    <2>1. front \in Seq(Int) /\ Len(front) = len
        BY FrontType
    <2> DEFINE q == len + 1
    <2>2. q \in Nat /\ 2 \in Nat \ {0} /\ 2 <= q + 1 /\ q + 1 <= Len(text) /\ q - 2 + 1 = len
        BY <1>0, <1>1
    <2>3. \A k \in 1..len : 2 + k - 1 = k + 1
        BY <1>0
    <2> HIDE DEF q
    <2>4. \A k \in 1..len : SubSeq(text, 2, q)[k] = text[2 + k - 1]
        BY <1>0, <2>2, PartNext
    <2>5. front = SubSeq(text, 2, q)
        BY DEF Front, q
    <2> HIDE DEF front
    <2> QED BY <2>1, <2>3, <2>4, <2>5
<1>7. \A k \in 1..len + n : Copied(d)[k] = IF k <= len THEN front[k] ELSE after[k - len]
    <2>1. Copied(d) = front \o after
        BY DEF Copied
    <2> HIDE DEF front, after, stored
    <2> QED BY <1>5, <1>6, <2>1, ConcatProperties
<1>8. \A p \in 2..m : p \in 1..Len(text) /\ back[p] \in Int
    <2> SUFFICES ASSUME NEW p \in 2..m PROVE p \in 1..Len(text) /\ back[p] \in Int
        OBVIOUS
    <2>1. p \in 1..Len(text)
        BY <1>0, <1>1
    <2>2. p - 2 - len \in 0..n - 1 => p - 2 - len \in 0..Len(text) + Chunk - 1
        BY <1>0, <1>1
    <2> HIDE DEF stored
    <2> QED BY <1>1, <1>2, <1>3, <2>1, <2>2
<1>9. part \in Seq(Int) /\ Len(part) = len + n /\ \A k \in 1..len + n : part[k] = back[k + 1]
    <2>1. 2 \in Int /\ m \in Int /\ m - 2 + 1 = len + n /\ m >= 1 /\ (m = 1 => len + n = 0)
          /\ \A k \in 1..m - 2 + 1 : 2 + k - 1 = k + 1
        BY <1>0
    <2>2. \A p \in 2..m : back[p] \in Int
        BY <1>8
    <2> HIDE DEF m
    <2>3. /\ part \in Seq(Int) /\ Len(part) = IF 2 <= m THEN m - 2 + 1 ELSE 0
          /\ \A i \in 1..m - 2 + 1 : part[i] = back[2 + i - 1]
        BY ONLY <2>1, <2>2, SubSeqProperties
    <2> HIDE DEF part
    <2> QED BY <1>0, <2>1, <2>3
<1> HIDE DEF part, after, front, stored
<1>10. \A k \in 1..len + n : part[k] = Copied(d)[k]
    <2> SUFFICES ASSUME NEW k \in 1..len + n PROVE part[k] = Copied(d)[k]
        OBVIOUS
    <2>1. k + 1 \in 1..Len(text) /\ k + 1 - 2 - len = k - len - 1
        BY <1>0, <1>1
    <2>2. part[k] = IF k - len - 1 \in 0..n - 1 THEN stored[k - len - 1] ELSE text[k + 1]
        <3> DEFINE j == k + 1
        <3>1. j \in 1..Len(text) /\ j - 2 - len = k - len - 1
            BY <1>0, <2>1
        <3> HIDE DEF j
        <3>2. back[j] = IF k - len - 1 \in 0..n - 1 THEN stored[k - len - 1] ELSE text[j]
            BY <1>3, <3>1
        <3>3. part[k] = back[j]
            BY <1>9 DEF j
        <3> QED BY <3>2, <3>3 DEF j
    <2>3. CASE k <= len
        <3>1. k - len - 1 \notin 0..n - 1 /\ k \in 1..len
            BY <1>0, <2>3
        <3> QED BY <1>6, <1>7, <2>2, <2>3, <3>1
    <2>4. CASE k > len
        <3>1. k - len - 1 \in 0..n - 1 /\ k - len \in 1..n /\ ~(k <= len) /\ (k - len) - 1 = k - len - 1
            BY <1>0, <2>4
        <3>2. after[k - len] = stored[k - len - 1]
            BY <1>5, <3>1
        <3> QED BY <1>7, <2>2, <3>1, <3>2
    <2> QED BY <1>0, <2>3, <2>4
<1>11. part = Copied(d)
    BY <1>1, <1>9, <1>10, SeqEqual
<1>12. \A p \in DOMAIN text : p = 1 \/ p >= src_i + 2 + d => back[p] = text[p]
    <2> SUFFICES ASSUME NEW p \in 1..Len(text), p = 1 \/ p >= src_i + 2 + d PROVE back[p] = text[p]
        BY <1>2
    <2>1. p - 2 - len \notin 0..n - 1
        BY <1>0, <1>1
    <2> QED BY <1>3, <2>1
<1> QED BY <1>11, <1>12 DEF part, m

LEMMA CopyQuoteKeeps ==
    ASSUME StringInv, CopyQuote
    PROVE  StringInv'
PROOF
<1> DEFINE d == Distance(Quote)
           b == Copied(d)
           n == dst_i + d
           back == [p \in DOMAIN input |->
                       IF p - 2 - len \in 0..n - 1 THEN ChunkStored[p - 2 - len] ELSE input[p]]
<1>1. Shape /\ InStep /\ pc = "Copy"
    BY DEF StringInv, CopyQuote
<1>2. d \in 0..Chunk /\ d < Chunk /\ d \in Nat /\ v[d] = Quote /\ \A j \in 0..d - 1 : Plain(v[j])
    BY ChunkAssumption, ChunkCases, DistanceIs DEF CopyQuote
<1>3. /\ KeepPadding /\ UNCHANGED <<text, beyond>> /\ pc' = "Done"
      /\ len' = len /\ src_i' = src_i /\ dst_i' = n /\ strings' = ChunkStored
      /\ result' = [status |-> "ok", length |-> len + n] /\ input' = back
    BY <1>1 DEF CopyQuote, Ok
<1> HIDE DEF d
<1>4. src_i + 2 + d \in 2..Len(text) /\ text[src_i + 2 + d] = Quote
    <2>1. src_i + 2 + d <= Len(text) /\ v[d] = text[src_i + 2 + d]
        BY <1>1, <1>2, ChunkRead DEF InStep
    <2>2. src_i \in Nat /\ Len(text) \in Nat
        BY <1>1, TextsAreInt DEF Shape
    <2> QED BY <1>2, <2>1, <2>2
<1>5. /\ ChunkStored \in [0..Len(text) + Chunk - 1 -> Int]
      /\ Reference.state = "unpaired" \/ Reads(text, src_i + 2 + d, b)
    BY <1>1, <1>2, CopiedIs
<1>6. \/ Reference.state = "unpaired"
      \/ Reference.state = "closed" /\ Reference.at = src_i + 2 + d /\ Reference.bytes = b
    <2> HIDE DEF b
    <2> QED BY <1>1, <1>4, <1>5, ReferenceCloses
<1> HIDE DEF n, back, b
<1>7. /\ SubSeq(back, 2, len + n + 1) = b
      /\ \A p \in DOMAIN text : p = 1 \/ p >= src_i + 2 + d => back[p] = text[p]
    BY <1>1, <1>2, WrittenBack DEF n, back, b
<1>8. result'.status = "ok" /\ SubSeq(input', 2, result'.length + 1) = b
    BY <1>3, <1>7
<1>9. src_i' \in Nat /\ len' \in Nat /\ dst_i' \in Nat /\ strings' \in [0..Len(text) + Chunk - 1 -> Int]
    BY <1>1, <1>2, <1>3, <1>5 DEF Shape, n
<1>10. \A p \in DOMAIN text : p = 1 \/ ClosedBy(text, p) => input'[p] = text[p]
    <2>1. StillOpen(text, src_i + 2 + d)
        BY <1>1, <1>2, ChunkRead DEF InStep
    <2>2. DOMAIN text \subseteq Nat
        BY <1>1, TextsAreInt DEF Shape
    <2>3. \A p \in DOMAIN text : ClosedBy(text, p) => p >= src_i + 2 + d
        <3> SUFFICES ASSUME NEW p \in DOMAIN text, ClosedBy(text, p) PROVE p >= src_i + 2 + d
            OBVIOUS
        <3>1. p \in Nat /\ src_i + 2 + d \in Nat
            BY <1>4, <2>2
        <3>2. src_i + 2 + d <= p
            BY <2>1, <3>1, NotYetClosed
        <3> QED BY <3>1, <3>2
    <2> QED BY <1>3, <1>7, <2>3
<1> QED BY <1>1, <1>3, <1>6, <1>8, <1>9, <1>10, Finishes

LEMMA CopyEscapeKeeps ==
    ASSUME StringInv, CopyEscape
    PROVE  StringInv'
PROOF
<1> DEFINE d == Distance(Backslash)
           p == src_i + 2 + d
           e == ESCAPE_MAP(EscapeChar)
<1>1. Shape /\ InStep /\ pc = "Copy" /\ input = text
    BY DEF StringInv, CopyEscape, InStep
<1>2. d \in 0..Chunk /\ d < Chunk /\ d \in Nat /\ v[d] = Backslash /\ \A j \in 0..d - 1 : Plain(v[j])
    BY ChunkAssumption, ChunkCases, DistanceIs DEF CopyEscape
<1>3. /\ KeepPadding /\ UNCHANGED <<text, input, beyond>> /\ len' = len
      /\ IF e = 0
         THEN /\ Fail("InvalidEscape") /\ strings' = ChunkStored /\ UNCHANGED <<src_i, dst_i>>
         ELSE /\ strings' = Stored(ChunkStored, dst_i + d, <<e>>)
              /\ src_i' = src_i + d + 2 /\ dst_i' = dst_i + d + 1 /\ pc' = pc
    BY DEF CopyEscape
<1>4. EscapeChar = Src(src_i + d + 1) /\ EscapeChar # LetterU
    BY DEF CopyEscape, EscapeChar
<1> HIDE DEF d, e
<1>5. p \in 2..Len(text) /\ text[p] = Backslash /\ StillOpen(text, p)
    <2>1. p <= Len(text) /\ v[d] = text[p] /\ StillOpen(text, p)
        BY <1>1, <1>2, ChunkRead DEF InStep
    <2>2. src_i \in Nat /\ Len(text) \in Nat
        BY <1>1, TextsAreInt DEF Shape
    <2> QED BY <1>2, <2>1, <2>2
<1>6. p + 1 <= Len(text) /\ text[p + 1] = EscapeChar /\ StillOpen(text, p + 2)
    <2>1. p - 1 = src_i + d + 1
        BY <1>1, <1>2 DEF Shape
    <2> HIDE DEF p
    <2>2. p + 1 <= Len(text) /\ Src(p - 1) = text[p + 1] /\ StillOpen(text, p + 2)
        BY <1>1, <1>5, EscapeAt
    <2> QED BY <1>4, <2>1, <2>2
<1>7. /\ ChunkStored \in [0..Len(text) + Chunk - 1 -> Int]
      /\ len + (dst_i + d) <= src_i + d
      /\ Copied(d) \in Seq(Int)
      /\ Reference.state = "unpaired" \/ Reads(text, p, Copied(d))
    BY <1>1, <1>2, CopiedIs
<1>8. TakeCharacter(text, Reading(p, Copied(d))) = TakeEscape(Reading(p, Copied(d)), EscapeChar)
    <2>1. p <= Len(text) /\ text[p] # Quote
        BY <1>5 DEF Quote, Backslash
    <2> QED BY <1>4, <1>5, <1>6, <2>1 DEF TakeCharacter, Reading
<1>9. CASE e = 0
    <2>1. pc' = "Done" /\ result' = [status |-> "InvalidEscape", length |-> 0] /\ strings' = ChunkStored
          /\ src_i' = src_i /\ dst_i' = dst_i
        BY <1>3, <1>9 DEF Fail
    <2> DEFINE r == End(Reading(p, Copied(d)), "invalid")
    <2>2. r.state = "invalid"
        BY DEF End, Reading
    <2>3. TakeCharacter(text, Reading(p, Copied(d))) = r
        BY <1>8, <1>9 DEF TakeEscape, e
    <2> HIDE DEF p, r
    <2>4. Reference.state = "unpaired" \/ Reference.state = "invalid"
        BY <1>1, <1>5, <1>7, <2>2, <2>3, ReferenceEnds
    <2>5. src_i' \in Nat /\ len' \in Nat /\ dst_i' \in Nat
        BY <1>1, <1>3, <2>1 DEF Shape
    <2>6. \A k \in DOMAIN text : input'[k] = text[k]
        BY <1>1, <1>3
    <2>7. result'.status # "ok"
        BY <2>1
    <2> QED BY <1>1, <1>3, <1>7, <2>1, <2>4, <2>5, <2>6, <2>7, Finishes
<1>10. CASE e # 0
    <2> DEFINE bs == <<e>>
               new == Stored(ChunkStored, dst_i + d, bs)
    <2>1. /\ strings' = new
          /\ src_i' = src_i + d + 2 /\ dst_i' = dst_i + d + 1 /\ pc' = "Copy"
        BY <1>1, <1>3, <1>10
    <2>2. bs \in Seq(Int) /\ Len(bs) = 1
        BY EscapeMapType DEF e
    <2>3. dst_i + d + 1 <= Len(text) /\ src_i' \in Nat /\ len' \in Nat /\ dst_i' \in Nat
          /\ src_i' + 2 = p + 2 /\ len' + dst_i' <= src_i' /\ Len(text) \in Nat
          /\ p + 2 \in Nat /\ p + 2 > p /\ p \in Nat
        BY <1>1, <1>2, <1>3, <1>5, <1>7, <2>1, TextsAreInt DEF Shape
    <2> DEFINE q == p + 2
    <2>4. TakeCharacter(text, Reading(p, Copied(d))) = Reading(q, Copied(d) \o bs)
        <3>1. TakeCharacter(text, Reading(p, Copied(d))) = Take(Reading(p, Copied(d)), 2, bs)
            BY <1>8, <1>10 DEF TakeEscape, e
        <3> HIDE DEF p, bs
        <3> QED BY <3>1, TakeIs
    <2> HIDE DEF bs, new, p
    <2>5. /\ new \in [0..Len(text) + Chunk - 1 -> Int]
          /\ Front \o Spells(new, dst_i + d + 1) = Copied(d) \o bs
        <3>1. dst_i + d + Len(bs) <= Len(text)
            BY <2>2, <2>3
        <3>2. /\ new \in [0..Len(text) + Chunk - 1 -> Int]
              /\ Front \o Spells(new, dst_i + d + Len(bs)) = Copied(d) \o bs
            BY <1>1, <1>2, <2>2, <3>1, WrittenIs DEF new
        <3> QED BY <2>2, <3>2
    <2>6. Reference.state = "unpaired" \/ Reads(text, q, Copied(d) \o bs)
        <3> SUFFICES ASSUME Reads(text, p, Copied(d)) PROVE Reads(text, q, Copied(d) \o bs)
            BY <1>7
        <3>1. text \in Seq(Int) /\ q \in Nat /\ q > p
            BY <1>1, <2>3, TextsAreInt DEF Shape
        <3> HIDE DEF q
        <3> QED BY <1>5, <2>4, <3>1, ReadsOn
    <2>7. StillOpen(text, src_i' + 2)
        BY <1>6, <2>3
    <2>8. \/ Reference.state = "unpaired"
          \/ Reads(text, src_i' + 2, SubSeq(text, 2, len' + 1) \o Spells(strings', dst_i'))
        BY <1>3, <2>1, <2>3, <2>5, <2>6 DEF Front
    <2>9. strings' \in [0..Len(text) + Chunk - 1 -> Int]
        BY <2>1, <2>5
    <2> QED BY <1>1, <1>3, <2>1, <2>3, <2>7, <2>8, <2>9, GoesOn
<1> QED BY <1>9, <1>10

LEMMA CopyUnicodeKeeps ==
    ASSUME StringInv, CopyUnicode
    PROVE  StringInv'
PROOF
<1> DEFINE d == Distance(Backslash)
           p == src_i + 2 + d
           r == handle_unicode_codepoint(src_i + d)
           new == Stored(ChunkStored, dst_i + d, r.bytes)
           R == Reading(p, Copied(d))
           x == TakeUnicode(R, UnicodeAt(text, p), UnicodeAt(text, p + 6))
<1>1. Shape /\ InStep /\ pc = "Copy" /\ input = text
    BY DEF StringInv, CopyUnicode, InStep
<1>2. d \in 0..Chunk /\ d < Chunk /\ d \in Nat /\ v[d] = Backslash /\ \A j \in 0..d - 1 : Plain(v[j])
    BY ChunkAssumption, ChunkCases, DistanceIs DEF CopyUnicode
<1>3. /\ KeepPadding /\ UNCHANGED <<text, input, beyond>> /\ len' = len /\ strings' = new
      /\ IF r.bytes = << >>
         THEN /\ Fail("InvlaidUnicodeCodepoint") /\ src_i' = src_i + d /\ dst_i' = dst_i + d
         ELSE /\ src_i' = src_i + d + r.length /\ dst_i' = dst_i + d + Len(r.bytes) /\ pc' = pc
    BY DEF CopyUnicode
<1>4. EscapeChar = Src(src_i + d + 1) /\ EscapeChar = LetterU
    BY DEF CopyUnicode, EscapeChar
<1> HIDE DEF d, r
<1>5. p \in 2..Len(text) /\ text[p] = Backslash /\ StillOpen(text, p)
    <2>1. p <= Len(text) /\ v[d] = text[p] /\ StillOpen(text, p)
        BY <1>1, <1>2, ChunkRead DEF InStep
    <2>2. src_i \in Nat /\ Len(text) \in Nat
        BY <1>1, TextsAreInt DEF Shape
    <2> QED BY <1>2, <2>1, <2>2
<1>6. p + 1 <= Len(text) /\ text[p + 1] = LetterU /\ p - 2 = src_i + d
    <2>1. p - 1 = src_i + d + 1 /\ p - 2 = src_i + d
        BY <1>1, <1>2 DEF Shape
    <2> HIDE DEF p
    <2>2. p + 1 <= Len(text) /\ Src(p - 1) = text[p + 1]
        BY <1>1, <1>5, EscapeAt
    <2> QED BY <1>4, <2>1, <2>2
<1>7. /\ ChunkStored \in [0..Len(text) + Chunk - 1 -> Int]
      /\ len + (dst_i + d) <= src_i + d
      /\ Copied(d) \in Seq(Int)
      /\ Reference.state = "unpaired" \/ Reads(text, p, Copied(d))
    BY <1>1, <1>2, CopiedIs
<1>8. TakeCharacter(text, R) = x
    <2>1. p <= Len(text) /\ text[p] # Quote
        BY <1>5 DEF Quote, Backslash
    <2> QED BY <1>5, <1>6, <2>1 DEF TakeCharacter, Reading
<1> HIDE DEF p, new, x
<1>9. /\ r.bytes \in Seq(Int) /\ Len(r.bytes) <= 4 /\ r.length \in {6, 12}
      /\ r.bytes # << >> => StillOpen(text, p + r.length)
      /\ Agrees(p, Copied(d), r, x)
    <2>1. r = handle_unicode_codepoint(p - 2)
        BY <1>6 DEF r
    <2> QED BY <1>1, <1>5, <1>6, <2>1, UnicodeRight DEF x
<1>10. src_i \in Nat /\ dst_i \in Nat /\ len \in Nat /\ Len(text) \in Nat /\ text \in Seq(Int)
       /\ text \in Texts /\ p = src_i + 2 + d /\ Len(r.bytes) \in Nat
    BY <1>1, <1>9, TextsAreInt DEF Shape, p
<1> DEFINE m == r.length
           n == Len(r.bytes)
<1>11. m \in Nat /\ m >= 6 /\ n \in Nat /\ n <= 4
    BY <1>9, <1>10
<1> HIDE DEF m, n
<1>12. dst_i + d + Len(r.bytes) <= Len(text)
    <2>1. CASE r.bytes = << >>
        <3>1. Len(r.bytes) = 0
            BY <2>1
        <3> QED BY <1>2, <1>5, <1>7, <1>10, <3>1
    <2>2. CASE r.bytes # << >>
        <3>1. PICK q \in p + r.length..Len(text) : text[q] = Quote
            BY <1>9, <1>10, <2>2, StillInside
        <3>2. q \in p + m..Len(text)
            BY <3>1 DEF m
        <3>3. dst_i + d + n <= Len(text)
            BY <1>2, <1>7, <1>10, <1>11, <3>2
        <3> QED BY <3>3 DEF n
    <2> QED BY <2>1, <2>2
<1>13. /\ new \in [0..Len(text) + Chunk - 1 -> Int]
       /\ Front \o Spells(new, dst_i + d + Len(r.bytes)) = Copied(d) \o r.bytes
    <2> DEFINE bs == r.bytes
    <2>1. bs \in Seq(Int) /\ dst_i + d + Len(bs) <= Len(text) /\ new = Stored(ChunkStored, dst_i + d, bs)
        BY <1>9, <1>12 DEF new
    <2> HIDE DEF bs
    <2>2. /\ new \in [0..Len(text) + Chunk - 1 -> Int]
          /\ Front \o Spells(new, dst_i + d + Len(bs)) = Copied(d) \o bs
        BY <1>1, <1>2, <2>1, WrittenIs
    <2> QED BY <2>2 DEF bs
<1>14. CASE r.bytes = << >>
    <2>1. pc' = "Done" /\ result' = [status |-> "InvlaidUnicodeCodepoint", length |-> 0]
          /\ src_i' = src_i + d /\ dst_i' = dst_i + d
        BY <1>3, <1>14 DEF Fail
    <2>2. x.state = "unpaired" \/ x.state = "invalid"
        BY <1>9, <1>14 DEF Agrees
    <2>3. Reference.state = "unpaired" \/ Reference.state = "invalid"
        <3> SUFFICES ASSUME Reads(text, p, Copied(d)) PROVE Reference = x
            BY <1>7, <2>2
        <3>1. TakeCharacter(text, Reading(p, Copied(d))) = x
            BY <1>8
        <3> QED BY <1>1, <1>5, <2>2, <3>1, ReferenceEnds
    <2>4. src_i' \in Nat /\ len' \in Nat /\ dst_i' \in Nat
        BY <1>2, <1>3, <1>10, <2>1
    <2>5. \A k \in DOMAIN text : input'[k] = text[k]
        BY <1>1, <1>3
    <2>6. result'.status # "ok"
        BY <2>1
    <2>7. strings' \in [0..Len(text) + Chunk - 1 -> Int]
        BY <1>3, <1>13
    <2> QED BY <1>1, <1>3, <2>1, <2>3, <2>4, <2>5, <2>6, <2>7, Finishes
<1>15. CASE r.bytes # << >>
    <2> DEFINE q == p + r.length
               b == Copied(d) \o r.bytes
    <2>1. src_i' = src_i + d + r.length /\ dst_i' = dst_i + d + Len(r.bytes) /\ pc' = "Copy"
        BY <1>1, <1>3, <1>15
    <2>2. src_i' \in Nat /\ len' \in Nat /\ dst_i' \in Nat /\ src_i' + 2 = q /\ len' + dst_i' <= src_i'
          /\ q \in Nat /\ q > p
        <3>1. src_i' = src_i + d + m /\ dst_i' = dst_i + d + n /\ len' = len /\ q = p + m
            BY <1>3, <2>1 DEF m, n
        <3> HIDE DEF q
        <3> QED BY <1>2, <1>7, <1>10, <1>11, <3>1
    <2>3. Reference.state = "unpaired" \/ Reads(text, q, b)
        <3> SUFFICES ASSUME Reads(text, p, Copied(d)), Reference.state # "unpaired"
                     PROVE  Reads(text, q, b)
            BY <1>7
        <3>1. TakeCharacter(text, Reading(p, Copied(d))) = x
            BY <1>8
        <3>2. x.state # "unpaired"
            <4> SUFFICES ASSUME x.state = "unpaired" PROVE Reference = x
                OBVIOUS
            <4> QED BY <1>1, <1>5, <3>1, ReferenceEnds
        <3>3. x = Reading(q, b)
            BY <1>9, <1>15, <3>2 DEF Agrees
        <3> HIDE DEF q, b
        <3> QED BY <1>5, <1>10, <2>2, <3>1, <3>3, ReadsOn
    <2> HIDE DEF q
    <2>4. StillOpen(text, src_i' + 2)
        BY <1>9, <1>15, <2>2 DEF q
    <2>5. \/ Reference.state = "unpaired"
          \/ Reads(text, src_i' + 2, SubSeq(text, 2, len' + 1) \o Spells(strings', dst_i'))
        BY <1>3, <1>13, <2>1, <2>2, <2>3 DEF Front
    <2>6. strings' \in [0..Len(text) + Chunk - 1 -> Int]
        BY <1>3, <1>13
    <2> QED BY <1>1, <1>3, <2>1, <2>2, <2>4, <2>5, <2>6, GoesOn
<1> QED BY <1>14, <1>15

---------------------------------------------------------------------------
(* The string as a whole.                                                  *)

LEMMA StringInit == Init => StringInv
PROOF
<1> SUFFICES ASSUME Init PROVE StringInv
    OBVIOUS
<1>1. text \in Texts /\ input = text /\ pc = "Scan" /\ src_i = 0 /\ len = 0 /\ dst_i = 0
      /\ text \in Seq(Int) /\ Len(text) \in Nat /\ Len(text) >= 2 /\ Chunk \in Nat
    BY TextsAreInt, ChunkAssumption DEF Init
<1>2. Shape
    <2>1. beyond \in Int
        BY ChunkAssumption DEF Init, Byte
    <2>2. strings \in [0..Len(text) + Chunk - 1 -> Int] /\ padding \in [Lanes -> Int]
        BY DEF Init
    <2> QED BY <1>1, <2>1, <2>2 DEF Shape
<1>3. StillOpen(text, 2)
    <2>1. ~Escaped(text, 1)
        <3> DEFINE run == {q \in 1..1 - 1 : \A r \in q..1 - 1 : text[r] = Backslash}
        <3>1. run = {}
            OBVIOUS
        <3> HIDE DEF run
        <3>2. Cardinality(run) = 0
            BY <3>1, FS_EmptySet
        <3> QED BY <3>2 DEF run, Escaped
    <2>2. text[1] # Backslash
        BY <1>1, StringTextsAssumption DEF Quote, Backslash
    <2>3. ~Escaped(text, 1 + 1)
        BY <2>2, EscapedNext
    <2> QED BY <2>3 DEF StillOpen
<1>4. Reads(text, 2, SoFar)
    <2>1. SubSeq(text, 2, 1) = << >> /\ Spells(strings, 0) = << >>
        BY <1>1 DEF Spells
    <2>2. SoFar = << >>
        BY <1>1, <2>1 DEF SoFar
    <2>3. Readings(text)[0] = Reading(2, << >>)
        BY <1>1, ReadingsDef DEF Unread, Reading
    <2>4. 0 \in 0..2 - 2
        OBVIOUS
    <2> QED BY <2>2, <2>3, <2>4 DEF Reads
<1>5. InStep
    BY <1>1, <1>3, <1>4 DEF InStep
<1> QED BY <1>1, <1>2, <1>5 DEF StringInv, UnescapedRight, RestUntouched

LEMMA StringStep == StringInv /\ [Next]_vars => StringInv'
PROOF
<1> SUFFICES ASSUME StringInv, [Next]_vars PROVE StringInv'
    OBVIOUS
<1>1. CASE Step
    BY <1>1, ScanQuoteKeeps, ScanBackslashKeeps, ScanOnKeeps,
       CopyQuoteKeeps, CopyUnicodeKeeps, CopyEscapeKeeps, CopyOnKeeps DEF Step
<1>2. CASE UNCHANGED vars
    <2>1. Reference' = Reference
        BY <1>2, ReferenceKept DEF vars
    <2>2. Shape' <=> Shape
        BY <1>2 DEF vars, Shape, Lanes
    <2>3. InStep' <=> InStep
        BY <1>2, <2>1 DEF vars, InStep, SoFar
    <2>4. UnescapedRight' <=> UnescapedRight
        BY <1>2, <2>1 DEF vars, UnescapedRight, StringReturned
    <2>5. RestUntouched' <=> RestUntouched
        BY <1>2, <2>1 DEF vars, RestUntouched
    <2>6. pc' = pc /\ dst_i' = dst_i /\ len' = len /\ src_i' = src_i
        BY <1>2 DEF vars
    <2> QED BY <2>2, <2>3, <2>4, <2>5, <2>6 DEF StringInv
<1> QED BY <1>1, <1>2 DEF Next, Returned

LEMMA StringAlways == Spec => []StringInv
PROOF BY StringInit, StringStep, PTL DEF Spec

\* The digits of an escape reach up to three bytes beyond the input: there is
\* a quote ahead wherever the code is about to load the next four.
LEMMA LastLoadedIs ==
    ASSUME Shape, input = text, NEW p, StillOpen(text, p), text[p] = Backslash
    PROVE  LastLoaded(p - 2) < SrcLen + 3
PROOF
<1>1. p \in Nat \ {0, 1} /\ Len(text) \in Nat /\ SrcLen = Len(text) - 1
    BY TextsAreInt DEF Shape, StillOpen, SrcLen
<1>2. StillOpen(text, p + 2)
    BY EscapeAt
<1>3. p + 2 <= Len(text)
    BY <1>2, EscapeAt
<1> DEFINE first == hex_to_u32_nocheck(p)
<1>4. (p - 2) + 2 = p /\ (p + 2) - 2 = p /\ (p + 2) + 4 = p + 6 /\ (p - 2) + 6 = p + 4
      /\ (p - 2) + 7 = p + 5 /\ (p + 6) - 2 = p + 4 /\ (p + 6) + 2 = p + 8
    BY <1>1
<1>5. LastLoaded(p - 2) = IF first \notin 55296..56319 THEN (p - 2) + 5
                          ELSE IF Src(p + 4) # Backslash THEN (p - 2) + 6
                          ELSE IF Src(p + 5) # LetterU THEN (p - 2) + 7
                          ELSE (p - 2) + 11
    BY <1>4 DEF LastLoaded
<1>6. /\ first = IF HexAt(text, p + 2) = -1 THEN HighBits ELSE HexAt(text, p + 2)
      /\ HexAt(text, p + 2) # -1 => StillOpen(text, p + 6)
    BY <1>2, <1>4, HexSame
<1> HIDE DEF first
<1>7. CASE first \notin 55296..56319
    <2>1. LastLoaded(p - 2) = (p - 2) + 5
        BY <1>5, <1>7
    <2> QED BY <1>1, <1>3, <2>1
<1>8. CASE first \in 55296..56319
    <2>1. StillOpen(text, p + 6)
        BY <1>6, <1>8 DEF HighBits
    <2>2. /\ p + 6 <= Len(text) /\ Src(p + 4) = text[p + 6]
          /\ text[p + 6] = Backslash => StillOpen(text, p + 8)
        BY <1>4, <2>1, EscapeAt
    <2>3. CASE Src(p + 4) # Backslash \/ Src(p + 5) # LetterU
        <3>1. LastLoaded(p - 2) = (p - 2) + 6 \/ LastLoaded(p - 2) = (p - 2) + 7
            BY <1>5, <1>8, <2>3
        <3> QED BY <1>1, <2>2, <3>1
    <2>4. CASE Src(p + 4) = Backslash /\ Src(p + 5) = LetterU
        <3>1. p + 8 <= Len(text)
            BY <2>2, <2>4, EscapeAt
        <3>2. LastLoaded(p - 2) = (p - 2) + 11
            BY <1>5, <1>8, <2>4
        <3> QED BY <1>1, <3>1, <3>2
    <2> QED BY <2>3, <2>4
<1> QED BY <1>7, <1>8

\* A chunk is loaded from inside the input and stored inside the buffer, and
\* the digits of an escape reach at most three bytes beyond the input, in every
\* string that stage 1 lets pass: there is a quote ahead that no backslash
\* stands before, so the loops of parse_str_ stop without a test of their own.
THEOREM StaysInBuffers == Spec => []BuffersInRange
PROOF
<1>1. StringInv => BuffersInRange
    <2> SUFFICES ASSUME StringInv, pc # "Done" PROVE BuffersInRange
        BY DEF BuffersInRange, StringInv
    <2>1. Shape /\ InStep /\ input = text
        BY DEF StringInv, InStep
    <2>2. Len(text) \in Nat /\ Chunk \in Nat /\ src_i \in Nat /\ len \in Nat /\ dst_i \in Nat
        BY <2>1, TextsAreInt, ChunkAssumption DEF Shape
    <2>3. src_i + 2 <= Len(text) /\ len + dst_i <= src_i
        BY <2>1, EscapeAt DEF InStep
    <2> DEFINE d == Distance(Backslash)
               p == src_i + 2 + d
    <2>4. ASSUME BackslashFirst
          PROVE  /\ src_i + d + 1 < SrcLen
                 /\ LastLoaded(src_i + d) < SrcLen + 3
        <3>1. d \in 0..Chunk /\ d \in Nat /\ d < Chunk /\ v[d] = Backslash
              /\ \A j \in 0..d - 1 : Plain(v[j])
            BY <2>2, <2>4, ChunkCases, DistanceIs
        <3> HIDE DEF d
        <3>2. v[d] = text[p] /\ StillOpen(text, p)
            BY <2>1, <3>1, ChunkRead DEF InStep
        <3>3. p \in Nat /\ p - 2 = src_i + d /\ text[p] = Backslash
            BY <2>2, <3>1, <3>2
        <3> HIDE DEF p
        <3>4. p + 1 <= Len(text)
            BY <2>1, <3>2, <3>3, EscapeAt
        <3>5. LastLoaded(p - 2) < SrcLen + 3
            BY <2>1, <3>2, <3>3, LastLoadedIs
        <3>6. src_i + d + 1 < SrcLen
            BY <2>1, <2>2, <3>1, <3>3, <3>4 DEF SrcLen
        <3> QED BY <3>3, <3>5, <3>6
    <2>5. src_i < SrcLen /\ dst_i + Chunk <= Len(text) + Chunk
        BY <2>1, <2>2, <2>3 DEF SrcLen
    <2> QED BY <2>3, <2>4, <2>5 DEF BuffersInRange
<1> QED BY <1>1, StringAlways, PTL

\* The string parse_str_ returns is the one the text spells, and it refuses the
\* text if it spells none.
THEOREM UnescapesRight == Spec => []UnescapedRight
PROOF
<1>1. StringInv => UnescapedRight
    BY DEF StringInv
<1> QED BY <1>1, StringAlways, PTL

\* parse_str_ writes over nothing but what is between the quotes of the string
\* it read, of every string that stage 1 lets pass, one it takes although it
\* spells nothing included.
THEOREM LeavesTheRest == Spec => []RestUntouched
PROOF
<1>1. StringInv => RestUntouched
    BY DEF StringInv
<1> QED BY <1>1, StringAlways, PTL
=================================================================================
