--------------------------------- MODULE Grammar ---------------------------------
(***************************************************************************)
(* Where every character of a document stands, and what that says of the   *)
(* document.                                                               *)
(*                                                                         *)
(* A place is what is expected at a character, the innermost bracket open  *)
(* before it, the number of the element of that bracket, and how many      *)
(* brackets are open.  This is the view in which the proofs of the two     *)
(* passes over a document meet: validate computes it with a stack, the     *)
(* walk over the validated characters follows it with a cursor and the     *)
(* counts, and the definitions of Json count it out.                       *)
(*                                                                         *)
(* A document is a text of the JSON grammar exactly when each of its       *)
(* characters is where it is expected and nothing is left open: the        *)
(* grammar of Json, which joins texts, and the places, which read from     *)
(* left to right, agree on every document.  That is the second half of     *)
(* the module, from TableIs on: it turns the grammar into a recursive      *)
(* descent over positions (ValueAtIs, ElementsAtIs, MembersAtIs), follows  *)
(* a derivation with the places, and reads a derivation off them; the last *)
(* two are inductions over the length of a text.                           *)
(***************************************************************************)
EXTENDS Json, NaturalLemmas, SequenceTheorems

Comma == ","
Brace == "{"
ScalarChars == Quotes \union Numbers \union Atoms \union {"cutatom"}

Beginning == {"Value", "FirstElement"}
First     == {"FirstElement", "FirstKey"}
Wants     == Beginning \union First \union {"Key", "Colon", "Behind", "Stray"}

Place(want, inside, ordinal, level) ==
    [want |-> want, inside |-> inside, ordinal |-> ordinal, level |-> level]

CloserFor(c) == IF c = Brace THEN "}" ELSE "]"

\* The place behind position k, from the places up to k.
PlaceBehind(at, d, k) ==
    LET s == at[k]
        c == d[k]
        In(want) == Place(want, s.inside, s.ordinal, s.level)
    IN  IF s.want \in Beginning /\ c \in Openers
          THEN Place(IF c = Brace THEN "FirstKey" ELSE "FirstElement", k, 1, s.level + 1)
        ELSE IF s.want \in Beginning /\ c \in ScalarChars THEN In("Behind")
        ELSE IF s.want \in {"FirstKey", "Key"} /\ c \in Quotes THEN In("Colon")
        ELSE IF s.want = "Colon" /\ c = ":" THEN In("Value")
        ELSE IF s.inside \notin 1..k - 1 THEN In("Stray")
        ELSE IF s.want = "Behind" /\ c = Comma
          THEN Place(IF d[s.inside] = Brace THEN "Key" ELSE "Value", s.inside, s.ordinal + 1, s.level)
        ELSE IF s.want \in First \union {"Behind"} /\ c = CloserFor(d[s.inside])
          THEN Place("Behind", at[s.inside].inside, at[s.inside].ordinal, s.level - 1)
        ELSE In("Stray")

\* The place of every position of d, and of the one behind its end.
Places(d) ==
    LET at[k \in 1..Len(d) + 1] ==
            IF k = 1 THEN Place("Value", 0, 0, 0) ELSE PlaceBehind(at, d, k - 1)
    IN  at

Want(d, k)    == Places(d)[k].want
Inside(d, k)  == Places(d)[k].inside
Ordinal(d, k) == Places(d)[k].ordinal
Level(d, k)   == Places(d)[k].level

\* What the character at k does, where it is what is expected.
Enters(d, k) ==
    /\ Want(d, k) \in Beginning /\ d[k] \in Openers
    /\ Want(d, k + 1) = IF d[k] = Brace THEN "FirstKey" ELSE "FirstElement"
    /\ Inside(d, k + 1) = k /\ Ordinal(d, k + 1) = 1 /\ Level(d, k + 1) = Level(d, k) + 1

Stays(d, k) ==
    /\ \/ Want(d, k) \in Beginning /\ d[k] \in ScalarChars /\ Want(d, k + 1) = "Behind"
       \/ Want(d, k) \in {"FirstKey", "Key"} /\ d[k] \in Quotes /\ Want(d, k + 1) = "Colon"
       \/ Want(d, k) = "Colon" /\ d[k] = ":" /\ Want(d, k + 1) = "Value"
    /\ Inside(d, k + 1) = Inside(d, k) /\ Ordinal(d, k + 1) = Ordinal(d, k)
    /\ Level(d, k + 1) = Level(d, k)

Advances(d, k) ==
    /\ Want(d, k) = "Behind" /\ d[k] = Comma /\ Inside(d, k) \in 1..k - 1
    /\ Want(d, k + 1) = IF d[Inside(d, k)] = Brace THEN "Key" ELSE "Value"
    /\ Inside(d, k + 1) = Inside(d, k) /\ Ordinal(d, k + 1) = Ordinal(d, k) + 1
    /\ Level(d, k + 1) = Level(d, k)

Leaves(d, k) ==
    /\ Want(d, k) \in First \union {"Behind"} /\ Inside(d, k) \in 1..k - 1
    /\ d[k] = CloserFor(d[Inside(d, k)]) /\ d[k] \in Closers
    /\ Want(d, k + 1) = "Behind"
    /\ Inside(d, k + 1) = Inside(d, Inside(d, k)) /\ Ordinal(d, k + 1) = Ordinal(d, Inside(d, k))
    /\ Level(d, k + 1) = Level(d, k) - 1

\* The first n characters are what is expected where they stand.
Sound(d, n) == \A k \in 1..n + 1 : Want(d, k) # "Stray"

---------------------------------------------------------------------------

\* Places(d) satisfies its definition.
LEMMA PlacesDef ==
    ASSUME NEW d, d \in Seq(Char)
    PROVE  /\ Places(d)[1] = Place("Value", 0, 0, 0)
           /\ \A k \in 1..Len(d) : Places(d)[k + 1] = PlaceBehind(Places(d), d, k)
PROOF
<1> DEFINE N == Len(d) + 1
           at(f, k) == IF k = 1 THEN Place("Value", 0, 0, 0) ELSE PlaceBehind(f, d, k - 1)
           S == {m \in Nat : \E f : f = [k \in 1..m |-> at(f, k)]}
<1>1. N \in Nat
    OBVIOUS
<1>2. 0 \in S
    <2> DEFINE f == [k \in 1..0 |-> TRUE]
    <2>1. f = [k \in 1..0 |-> at(f, k)]
        OBVIOUS
    <2> QED BY <2>1
<1>3. ASSUME NEW m \in 0..N - 1, m \in S PROVE m + 1 \in S
    <2>1. PICK f : f = [k \in 1..m |-> at(f, k)]
        BY <1>3
    <2> DEFINE g == [k \in 1..m + 1 |-> at(f, k)]
    <2>2. ASSUME NEW q \in 1..m PROVE g[q] = f[q]
        <3>1. g[q] = at(f, q)
            BY <1>1
        <3> HIDE DEF at, g
        <3>2. f[q] = at(f, q)
            BY <2>1
        <3> QED BY <3>1, <3>2
    <2>3. ASSUME NEW k \in 1..m + 1 PROVE at(g, k) = at(f, k)
        <3>1. k # 1 => k - 1 \in 1..m /\ \A q \in 1..k - 1 - 1 : q \in 1..m
            BY <1>1
        <3> HIDE DEF g
        <3>2. CASE k # 1
            <4>1. g[k - 1] = f[k - 1]
                BY <2>2, <3>1, <3>2
            <4>2. f[k - 1].inside \in 1..k - 1 - 1 => g[f[k - 1].inside] = f[f[k - 1].inside]
                BY <2>2, <3>1, <3>2
            <4> QED BY <4>1, <4>2 DEF PlaceBehind
        <3> QED BY <3>2
    <2>4. g = [k \in 1..m + 1 |-> at(g, k)]
        <3> DEFINE h == [k \in 1..m + 1 |-> at(g, k)]
        <3>1. \A k \in 1..m + 1 : g[k] = at(f, k) /\ h[k] = at(g, k)
            OBVIOUS
        <3> HIDE DEF at
        <3> QED BY <2>3
    <2>5. m + 1 \in Nat
        BY <1>1
    <2> HIDE DEF g, at
    <2> QED BY <2>4, <2>5
<1>4. N \in S
    <2> HIDE DEF S
    <2>1. 0..N \subseteq S
        BY <1>1, <1>2, <1>3, Induction
    <2> QED BY <1>1, <2>1
<1>5. PICK f : f = [k \in 1..N |-> at(f, k)]
    BY <1>4
<1>6. Places(d) = [k \in 1..N |-> at(Places(d), k)]
    BY <1>5 DEF Places
<1>7. \A k \in 1..N : Places(d)[k] = at(Places(d), k)
    <2> HIDE DEF at
    <2> QED BY <1>6
<1>8. /\ 1 \in 1..N
      /\ \A k \in 1..Len(d) : k + 1 \in 1..N /\ k + 1 # 1 /\ k + 1 - 1 = k
    OBVIOUS
<1> QED BY <1>7, <1>8

LEMMA FirstPlace ==
    ASSUME NEW d, d \in Seq(Char)
    PROVE  Want(d, 1) = "Value" /\ Inside(d, 1) = 0 /\ Ordinal(d, 1) = 0 /\ Level(d, 1) = 0
PROOF BY PlacesDef DEF Place, Want, Inside, Ordinal, Level

\* A character that is not expected leaves a stray place behind it.
LEMMA Moves ==
    ASSUME NEW d, d \in Seq(Char), NEW k \in 1..Len(d)
    PROVE  /\ Want(d, k + 1) # "Stray" => Enters(d, k) \/ Stays(d, k) \/ Advances(d, k) \/ Leaves(d, k)
           /\ Want(d, k) \in Beginning /\ d[k] \in Openers => Enters(d, k)
           /\ Want(d, k) \in Beginning /\ d[k] \in ScalarChars => Stays(d, k)
           /\ Want(d, k) \in {"FirstKey", "Key"} /\ d[k] \in Quotes => Stays(d, k)
           /\ Want(d, k) = "Colon" /\ d[k] = ":" => Stays(d, k)
           /\ Want(d, k) = "Behind" /\ d[k] = Comma /\ Inside(d, k) \in 1..k - 1 => Advances(d, k)
           /\ /\ Want(d, k) \in First \union {"Behind"} /\ Inside(d, k) \in 1..k - 1
              /\ d[k] = CloserFor(d[Inside(d, k)])
              => Leaves(d, k)
PROOF
<1> DEFINE s == Places(d)[k]
           t == Places(d)[k + 1]
           o == Places(d)[s.inside]
<1>1. t = PlaceBehind(Places(d), d, k)
    BY PlacesDef
<1>2. /\ Want(d, k) = s.want /\ Inside(d, k) = s.inside /\ Ordinal(d, k) = s.ordinal /\ Level(d, k) = s.level
      /\ Want(d, k + 1) = t.want /\ Inside(d, k + 1) = t.inside
      /\ Ordinal(d, k + 1) = t.ordinal /\ Level(d, k + 1) = t.level
      /\ Inside(d, Inside(d, k)) = o.inside /\ Ordinal(d, Inside(d, k)) = o.ordinal
    BY DEF Want, Inside, Ordinal, Level
<1> HIDE DEF t
<1> DEFINE c == d[k]
           at == Places(d)
           In(want) == Place(want, s.inside, s.ordinal, s.level)
<1>3. t = IF s.want \in Beginning /\ c \in Openers
            THEN Place(IF c = Brace THEN "FirstKey" ELSE "FirstElement", k, 1, s.level + 1)
          ELSE IF s.want \in Beginning /\ c \in ScalarChars THEN In("Behind")
          ELSE IF s.want \in {"FirstKey", "Key"} /\ c \in Quotes THEN In("Colon")
          ELSE IF s.want = "Colon" /\ c = ":" THEN In("Value")
          ELSE IF s.inside \notin 1..k - 1 THEN In("Stray")
          ELSE IF s.want = "Behind" /\ c = Comma
            THEN Place(IF d[s.inside] = Brace THEN "Key" ELSE "Value", s.inside, s.ordinal + 1, s.level)
          ELSE IF s.want \in First \union {"Behind"} /\ c = CloserFor(d[s.inside])
            THEN Place("Behind", o.inside, o.ordinal, s.level - 1)
          ELSE In("Stray")
    BY <1>1 DEF PlaceBehind
<1> HIDE DEF s, o
<1> DEFINE w == s.want
<1>4. CASE w \in Beginning /\ c \in Openers
    <2>1. t = Place(IF c = Brace THEN "FirstKey" ELSE "FirstElement", k, 1, s.level + 1)
        BY <1>3, <1>4
    <2>2. Enters(d, k)
        BY <1>2, <1>4, <2>1 DEF Enters, Place
    <2>3. c \notin ScalarChars /\ c \notin Quotes /\ c # ":" /\ c # Comma
        BY <1>4 DEF Openers, ScalarChars, Quotes, Strings, Numbers, Numerals, Atoms, Comma
    <2>4. w \in First => ~(c = CloserFor(d[Inside(d, k)]))
        BY <1>4 DEF Openers, CloserFor
    <2>5. w # "Behind"
        BY <1>4 DEF Beginning
    <2> QED BY <1>2, <1>4, <2>2, <2>3, <2>4, <2>5
<1>5. CASE w \in Beginning /\ c \in ScalarChars
    <2>1. c \notin Openers /\ c \notin Closers
        BY <1>5 DEF Openers, Closers, ScalarChars, Quotes, Strings, Numbers, Numerals, Atoms
    <2>2. t = In("Behind")
        BY <1>3, <1>5, <2>1
    <2>3. Stays(d, k)
        BY <1>2, <1>5, <2>2 DEF Stays, Place
    <2>4. ~(c = CloserFor(d[Inside(d, k)]))
        BY <2>1 DEF Closers, CloserFor
    <2>5. w # "Behind"
        BY <1>5 DEF Beginning
    <2> QED BY <1>2, <2>1, <2>3, <2>4, <2>5
<1>6. CASE w \in {"FirstKey", "Key"} /\ c \in Quotes
    <2>1. c \notin Openers /\ c \notin Closers /\ w \notin Beginning
        BY <1>6 DEF Openers, Closers, Quotes, Strings, Beginning
    <2>2. t = In("Colon")
        BY <1>3, <1>6, <2>1
    <2>3. Stays(d, k)
        BY <1>2, <1>6, <2>2 DEF Stays, Place
    <2>4. ~(c = CloserFor(d[Inside(d, k)]))
        BY <2>1 DEF Closers, CloserFor
    <2> QED BY <1>2, <1>6, <2>1, <2>3, <2>4
<1>7. CASE w = "Colon" /\ c = ":"
    <2>1. w \notin Beginning
        BY <1>7 DEF Beginning
    <2>2. t = In("Value")
        BY <1>3, <1>7, <2>1
    <2>3. Stays(d, k)
        BY <1>2, <1>7, <2>2 DEF Stays, Place
    <2> QED BY <1>2, <1>7, <2>1, <2>3 DEF First
<1>8. CASE w = "Behind" /\ c = Comma /\ s.inside \in 1..k - 1
    <2>1. w \notin Beginning
        BY <1>8 DEF Beginning
    <2>2. t = Place(IF d[s.inside] = Brace THEN "Key" ELSE "Value", s.inside, s.ordinal + 1, s.level)
        BY <1>3, <1>8, <2>1
    <2>3. Advances(d, k)
        BY <1>2, <1>8, <2>2 DEF Advances, Place
    <2>4. ~(c = CloserFor(d[Inside(d, k)]))
        BY <1>8 DEF CloserFor, Comma
    <2> QED BY <1>2, <1>8, <2>1, <2>3, <2>4
<1>9. CASE w \in First \union {"Behind"} /\ s.inside \in 1..k - 1 /\ c = CloserFor(d[s.inside])
    <2>1. c \in Closers /\ c \notin Openers /\ c \notin ScalarChars /\ c \notin Quotes /\ c # ":" /\ c # Comma
        BY <1>9 DEF CloserFor, Closers, Openers, ScalarChars, Quotes, Strings, Numbers, Numerals, Atoms, Comma
    <2>2. t = Place("Behind", o.inside, o.ordinal, s.level - 1)
        BY <1>3, <1>9, <2>1
    <2>3. Leaves(d, k)
        BY <1>2, <1>9, <2>1, <2>2 DEF Leaves, Place
    <2> QED BY <2>1, <2>3
<1>10. CASE /\ ~(w \in Beginning /\ c \in Openers)
            /\ ~(w \in Beginning /\ c \in ScalarChars)
            /\ ~(w \in {"FirstKey", "Key"} /\ c \in Quotes)
            /\ ~(w = "Colon" /\ c = ":")
            /\ ~(w = "Behind" /\ c = Comma /\ s.inside \in 1..k - 1)
            /\ ~(w \in First \union {"Behind"} /\ s.inside \in 1..k - 1 /\ c = CloserFor(d[s.inside]))
    <2>1. t = In("Stray")
        BY <1>3, <1>10
    <2>2. Want(d, k + 1) = "Stray"
        BY <1>2, <2>1 DEF Place
    <2> QED BY <1>2, <1>10, <2>2
<1> QED BY <1>4, <1>5, <1>6, <1>7, <1>8, <1>9, <1>10

---------------------------------------------------------------------------
(* What a place tells of the places before it.                             *)

\* The commas of the container opened at p, up to r.
CommasOf(d, p, r) == {k \in p + 1..r - 1 : d[k] = Comma /\ Inside(d, k) = p}

\* The places directly inside the innermost open bracket are those at its
\* level; their ordinals count its commas.
PlacedIn(d, r, p) ==
    /\ p \in 0..r - 1 /\ Ordinal(d, r) \in Nat /\ Level(d, r) \in Nat
    /\ p = 0 => Level(d, r) = 0
    /\ p # 0 => d[p] \in Openers /\ Level(d, r) = Level(d, p) + 1
    /\ \A m \in p + 1..r :
          /\ Level(d, m) >= Level(d, r)
          /\ Inside(d, m) = p <=> Level(d, m) = Level(d, r)
    /\ \A m \in p + 1..r :
          Inside(d, m) = p => /\ Ordinal(d, m) <= Ordinal(d, r)
                              /\ m < r /\ d[m] = Comma => Ordinal(d, m) < Ordinal(d, r)
    /\ p # 0 => /\ IsFiniteSet(CommasOf(d, p, r))
                /\ Ordinal(d, r) = 1 + Cardinality(CommasOf(d, p, r))

Placed(d, r) == PlacedIn(d, r, Inside(d, r))

LEMMA PlacedFirst ==
    ASSUME NEW d, d \in Seq(Char)
    PROVE  Placed(d, 1)
PROOF
<1>1. Inside(d, 1) = 0 /\ Ordinal(d, 1) = 0 /\ Level(d, 1) = 0
    BY FirstPlace
<1>2. \A m \in 0 + 1..1 : m = 1
    OBVIOUS
<1> QED BY <1>1, <1>2 DEF Placed, PlacedIn

LEMMA PlacedEnter ==
    ASSUME NEW d, d \in Seq(Char), NEW k \in 1..Len(d), \A r \in 1..k : Placed(d, r), Enters(d, k)
    PROVE  Placed(d, k + 1)
PROOF
<1>0. k \in Nat /\ k \in 1..k
    OBVIOUS
<1>1. /\ Inside(d, k + 1) = k /\ Ordinal(d, k + 1) = 1 /\ Level(d, k + 1) = Level(d, k) + 1
      /\ d[k] \in Openers /\ Level(d, k) \in Nat
    BY <1>0 DEF Enters, Placed, PlacedIn
<1>2. \A m \in k + 1..k + 1 : m = k + 1
    OBVIOUS
<1>3. CommasOf(d, k, k + 1) = {}
    <2>1. \A m \in k + 1..k + 1 - 1 : FALSE
        OBVIOUS
    <2> QED BY <2>1 DEF CommasOf
<1>4. IsFiniteSet({}) /\ Cardinality({}) = 0
    BY FS_EmptySet
<1>5. k \in 0..k + 1 - 1 /\ k # 0
    OBVIOUS
<1>6. Level(d, k) + 1 \in Nat
    BY <1>1
<1>7. ASSUME NEW m \in k + 1..k + 1
      PROVE  /\ Level(d, m) >= Level(d, k + 1) /\ ~(m < k + 1) /\ Ordinal(d, m) <= Ordinal(d, k + 1)
             /\ Inside(d, m) = k /\ Level(d, m) = Level(d, k + 1)
    <2>1. m = k + 1
        BY <1>2
    <2> QED BY <1>1, <1>6, <2>1
<1>8. Ordinal(d, k + 1) = 1 + Cardinality(CommasOf(d, k, k + 1))
    <2>1. Cardinality(CommasOf(d, k, k + 1)) = 0
        BY <1>3, <1>4
    <2> QED BY <1>1, <2>1
<1>9. PlacedIn(d, k + 1, k)
    <2>1. IsFiniteSet(CommasOf(d, k, k + 1))
        BY <1>3, <1>4
    <2>2. Ordinal(d, k + 1) \in Nat /\ Level(d, k + 1) \in Nat
        BY <1>1, <1>6
    <2> QED BY <1>1, <1>5, <1>7, <1>8, <2>1, <2>2 DEF PlacedIn
<1> QED BY <1>1, <1>9 DEF Placed

LEMMA PlacedStay ==
    ASSUME NEW d, d \in Seq(Char), NEW k \in 1..Len(d), \A r \in 1..k : Placed(d, r), Stays(d, k)
    PROVE  Placed(d, k + 1)
PROOF
<1>0. k \in Nat /\ k \in 1..k
    OBVIOUS
<1> DEFINE p == Inside(d, k)
<1>1. /\ Inside(d, k + 1) = p /\ Ordinal(d, k + 1) = Ordinal(d, k) /\ Level(d, k + 1) = Level(d, k)
      /\ p \in 0..k - 1 /\ Level(d, k) \in Nat /\ Ordinal(d, k) \in Nat
    BY <1>0 DEF Stays, Placed, PlacedIn
<1>2. d[k] # Comma
    BY DEF Stays, ScalarChars, Quotes, Strings, Numbers, Numerals, Atoms, Comma
<1> HIDE DEF p
<1>3. \A m \in p + 1..k + 1 : m \in p + 1..k \/ m = k + 1
    BY <1>1
<1>4. CommasOf(d, p, k + 1) = CommasOf(d, p, k)
    <2>1. \A m \in p + 1..k + 1 - 1 : m # k => m \in p + 1..k - 1
        BY <1>1
    <2>2. \A m \in p + 1..k - 1 : m \in p + 1..k + 1 - 1
        BY <1>1
    <2> QED BY <1>2, <2>1, <2>2 DEF CommasOf
<1>5. p \in 0..k + 1 - 1
    BY <1>1
<1>6. /\ p = 0 => Level(d, k) = 0
      /\ p # 0 => d[p] \in Openers /\ Level(d, k) = Level(d, p) + 1
      /\ \A m \in p + 1..k : /\ Level(d, m) >= Level(d, k)
                             /\ Inside(d, m) = p <=> Level(d, m) = Level(d, k)
      /\ \A m \in p + 1..k :
            Inside(d, m) = p => /\ Ordinal(d, m) <= Ordinal(d, k)
                                /\ m < k /\ d[m] = Comma => Ordinal(d, m) < Ordinal(d, k)
      /\ p # 0 => /\ IsFiniteSet(CommasOf(d, p, k))
                  /\ Ordinal(d, k) = 1 + Cardinality(CommasOf(d, p, k))
    BY <1>0 DEF Placed, PlacedIn, p
<1>7. \A m \in p + 1..k + 1 : /\ Level(d, m) >= Level(d, k + 1)
                              /\ Inside(d, m) = p <=> Level(d, m) = Level(d, k + 1)
    BY <1>1, <1>3, <1>6
<1>8. ASSUME NEW m \in p + 1..k + 1, Inside(d, m) = p
      PROVE  /\ Ordinal(d, m) <= Ordinal(d, k + 1)
             /\ m < k + 1 /\ d[m] = Comma => Ordinal(d, m) < Ordinal(d, k + 1)
    <2>1. CASE m = k + 1
        BY <1>1, <2>1
    <2>2. CASE m # k + 1
        <3>1. m \in p + 1..k /\ (m = k \/ m < k)
            BY <1>1, <2>2
        <3> QED BY <1>1, <1>2, <1>6, <1>8, <3>1
    <2> QED BY <2>1, <2>2
<1> QED BY <1>1, <1>4, <1>5, <1>6, <1>7, <1>8 DEF Placed, PlacedIn

LEMMA PlacedAdvance ==
    ASSUME NEW d, d \in Seq(Char), NEW k \in 1..Len(d), \A r \in 1..k : Placed(d, r), Advances(d, k)
    PROVE  Placed(d, k + 1)
PROOF
<1>0. k \in Nat /\ k \in 1..k
    OBVIOUS
<1> DEFINE p == Inside(d, k)
<1>1. /\ Inside(d, k + 1) = p /\ Ordinal(d, k + 1) = Ordinal(d, k) + 1 /\ Level(d, k + 1) = Level(d, k)
      /\ p \in 1..k - 1 /\ Level(d, k) \in Nat /\ Ordinal(d, k) \in Nat /\ d[k] = Comma /\ Inside(d, k) = p
    BY <1>0 DEF Advances, Placed, PlacedIn
<1> HIDE DEF p
<1>3. \A m \in p + 1..k + 1 : m \in p + 1..k \/ m = k + 1
    BY <1>1
<1>4. CommasOf(d, p, k + 1) = CommasOf(d, p, k) \union {k} /\ k \notin CommasOf(d, p, k)
    <2>1. \A m \in p + 1..k + 1 - 1 : m # k => m \in p + 1..k - 1
        BY <1>1
    <2>2. \A m \in p + 1..k - 1 : m \in p + 1..k + 1 - 1 /\ m # k
        BY <1>1
    <2>3. k \in p + 1..k + 1 - 1
        BY <1>1
    <2> QED BY <1>1, <2>1, <2>2, <2>3 DEF CommasOf
<1>5. p \in 0..k + 1 - 1 /\ p # 0
    BY <1>1
<1>6. /\ p # 0 => d[p] \in Openers /\ Level(d, k) = Level(d, p) + 1
      /\ \A m \in p + 1..k : /\ Level(d, m) >= Level(d, k)
                             /\ Inside(d, m) = p <=> Level(d, m) = Level(d, k)
      /\ \A m \in p + 1..k :
            Inside(d, m) = p => /\ Ordinal(d, m) <= Ordinal(d, k)
                                /\ m < k /\ d[m] = Comma => Ordinal(d, m) < Ordinal(d, k)
      /\ p # 0 => /\ IsFiniteSet(CommasOf(d, p, k))
                  /\ Ordinal(d, k) = 1 + Cardinality(CommasOf(d, p, k))
    BY <1>0 DEF Placed, PlacedIn, p
<1>7. \A m \in p + 1..k + 1 : /\ Level(d, m) >= Level(d, k + 1)
                              /\ Inside(d, m) = p <=> Level(d, m) = Level(d, k + 1)
    BY <1>1, <1>3, <1>6
<1>8. ASSUME NEW m \in p + 1..k + 1, Inside(d, m) = p
      PROVE  /\ Ordinal(d, m) <= Ordinal(d, k + 1)
             /\ m < k + 1 /\ d[m] = Comma => Ordinal(d, m) < Ordinal(d, k + 1)
    <2>1. CASE m = k + 1
        BY <1>1, <2>1
    <2>2. CASE m # k + 1
        <3> DEFINE a == Ordinal(d, m)
                   b == Ordinal(d, k)
        <3>1. m \in p + 1..k
            BY <1>1, <2>2
        <3>2. a <= b /\ b \in Nat /\ a \in Int
            <4>1. m \in 1..k
                BY <1>1, <3>1
            <4>2. Ordinal(d, m) \in Nat
                BY <4>1 DEF Placed, PlacedIn
            <4> QED BY <1>1, <1>6, <1>8, <3>1, <4>2
        <3> HIDE DEF a, b
        <3>3. a <= b + 1 /\ a < b + 1
            BY <3>2
        <3> QED BY <1>1, <3>3 DEF a, b
    <2> QED BY <2>1, <2>2
<1>9. /\ IsFiniteSet(CommasOf(d, p, k + 1))
      /\ Ordinal(d, k + 1) = 1 + Cardinality(CommasOf(d, p, k + 1))
    <2> DEFINE C == CommasOf(d, p, k)
    <2>1. IsFiniteSet(C) /\ Ordinal(d, k) = 1 + Cardinality(C)
        BY <1>5, <1>6
    <2>2. IsFiniteSet(C \union {k}) /\ Cardinality(C \union {k}) = Cardinality(C) + 1
        BY <1>4, <2>1, FS_AddElement
    <2>3. Cardinality(C) \in Nat
        BY <2>1, FS_CardinalityType
    <2>4. CommasOf(d, p, k + 1) = C \union {k}
        BY <1>4
    <2> HIDE DEF C
    <2>5. Ordinal(d, k) + 1 = 1 + Cardinality(C \union {k})
        BY <2>1, <2>2, <2>3
    <2> QED BY <1>1, <2>2, <2>4, <2>5
<1>10. Ordinal(d, k + 1) \in Nat /\ Level(d, k + 1) \in Nat
    BY <1>1
<1>11. d[p] \in Openers /\ Level(d, k + 1) = Level(d, p) + 1
    BY <1>1, <1>5, <1>6
<1>12. PlacedIn(d, k + 1, p)
    BY <1>5, <1>7, <1>8, <1>9, <1>10, <1>11 DEF PlacedIn
<1> QED BY <1>1, <1>12 DEF Placed

LEMMA PlacedLeave ==
    ASSUME NEW d, d \in Seq(Char), NEW k \in 1..Len(d), \A r \in 1..k : Placed(d, r), Leaves(d, k)
    PROVE  Placed(d, k + 1)
PROOF
<1>0. k \in Nat /\ k \in 1..k
    OBVIOUS
<1> DEFINE p == Inside(d, k)
           q == Inside(d, p)
           lev == Level(d, p)
<1>1. /\ Inside(d, k + 1) = q /\ Ordinal(d, k + 1) = Ordinal(d, p) /\ Level(d, k + 1) = Level(d, k) - 1
      /\ p \in 1..k - 1 /\ d[k] \in Closers
    BY DEF Leaves
<1>2. p \in 1..k /\ p # 0 /\ p \in Nat
    BY <1>0, <1>1
<1>3. Placed(d, p) /\ Placed(d, k)
    BY <1>0, <1>2
<1>4. /\ q \in 0..p - 1 /\ Ordinal(d, p) \in Nat /\ lev \in Nat
      /\ d[p] \in Openers /\ Level(d, k) = lev + 1
    BY <1>2, <1>3 DEF Placed, PlacedIn
<1>5. Level(d, k + 1) = lev
    BY <1>1, <1>4
<1>6. d[p] # Comma /\ d[k] # Comma
    BY <1>1, <1>4 DEF Openers, Closers, Comma
<1>7. /\ q = 0 => lev = 0
      /\ q # 0 => d[q] \in Openers /\ lev = Level(d, q) + 1
      /\ \A m \in q + 1..p : /\ Level(d, m) >= lev
                             /\ Inside(d, m) = q <=> Level(d, m) = lev
      /\ \A m \in q + 1..p :
            Inside(d, m) = q => /\ Ordinal(d, m) <= Ordinal(d, p)
                                /\ m < p /\ d[m] = Comma => Ordinal(d, m) < Ordinal(d, p)
      /\ q # 0 => /\ IsFiniteSet(CommasOf(d, q, p))
                  /\ Ordinal(d, p) = 1 + Cardinality(CommasOf(d, q, p))
    BY <1>3 DEF Placed, PlacedIn
<1>8. ASSUME NEW m \in p + 1..k PROVE Level(d, m) >= lev + 1 /\ Inside(d, m) # q
    <2>1. Level(d, m) >= lev + 1
        BY <1>3, <1>4 DEF Placed, PlacedIn
    <2>2. m \in 1..k
        BY <1>0, <1>2
    <2>3. Placed(d, m) /\ Level(d, m) \in Nat
        BY <2>2 DEF Placed, PlacedIn
    <2>4. ASSUME Inside(d, m) = q PROVE FALSE
        <3>1. Level(d, m) = lev
            BY <1>7, <2>3, <2>4 DEF Placed, PlacedIn
        <3> QED BY <1>4, <2>1, <3>1
    <2> QED BY <2>1, <2>4
<1> HIDE DEF p, q, lev
<1>9. \A m \in q + 1..k + 1 : m \in q + 1..p \/ m \in p + 1..k \/ m = k + 1
    BY <1>0, <1>1, <1>4
<1>10. ASSUME NEW m \in q + 1..k + 1
       PROVE  Level(d, m) >= lev /\ (Inside(d, m) = q <=> Level(d, m) = lev)
    <2>1. CASE m \in q + 1..p
        BY <1>7, <2>1
    <2>2. CASE m \in p + 1..k
        <3> DEFINE l == Level(d, m)
        <3>1. l >= lev + 1 /\ Inside(d, m) # q
            BY <1>8, <2>2
        <3>2. m \in 1..k
            BY <1>0, <1>2, <2>2
        <3>3. l \in Nat
            BY <3>2 DEF Placed, PlacedIn
        <3> HIDE DEF l
        <3>4. l >= lev /\ l # lev
            BY <1>4, <3>1, <3>3
        <3> QED BY <3>1, <3>4 DEF l
    <2>3. CASE m = k + 1
        BY <1>1, <1>4, <1>5, <2>3
    <2> QED BY <1>9, <2>1, <2>2, <2>3
<1>11. ASSUME NEW m \in q + 1..k + 1, Inside(d, m) = q
       PROVE  /\ Ordinal(d, m) <= Ordinal(d, p)
              /\ m < k + 1 /\ d[m] = Comma => Ordinal(d, m) < Ordinal(d, p)
    <2>1. CASE m \in q + 1..p
        <3>1. m = p \/ m < p
            BY <1>2, <1>4, <2>1
        <3> QED BY <1>6, <1>7, <1>11, <2>1, <3>1
    <2>2. CASE m \in p + 1..k
        BY <1>8, <1>11, <2>2
    <2>3. CASE m = k + 1
        <3>1. ~(k + 1 < k + 1)
            BY <1>0
        <3> QED BY <1>1, <1>4, <2>3, <3>1
    <2> QED BY <1>9, <2>1, <2>2, <2>3
<1>12. CommasOf(d, q, k + 1) = CommasOf(d, q, p)
    <2>1. ASSUME NEW m \in q + 1..k + 1 - 1, d[m] = Comma, Inside(d, m) = q PROVE m \in q + 1..p - 1
        <3>1. m \in q + 1..p \/ m \in p + 1..k
            BY <1>0, <1>1, <1>4
        <3>2. m # p
            BY <1>6, <2>1
        <3>3. m \in q + 1..p
            BY <1>8, <2>1, <3>1
        <3> QED BY <1>2, <1>4, <3>2, <3>3
    <2>2. \A m \in q + 1..p - 1 : m \in q + 1..k + 1 - 1
        BY <1>0, <1>1, <1>4
    <2> QED BY <2>1, <2>2 DEF CommasOf
<1>13. q \in 0..k + 1 - 1
    BY <1>0, <1>1, <1>4
<1>14. PlacedIn(d, k + 1, q)
    BY <1>1, <1>4, <1>5, <1>7, <1>10, <1>11, <1>12, <1>13 DEF PlacedIn
<1> QED BY <1>1, <1>14 DEF Placed

\* While the characters are what is expected, every place is as said.
LEMMA AllPlaced ==
    ASSUME NEW d, d \in Seq(Char), NEW n \in 0..Len(d), Sound(d, n)
    PROVE  \A r \in 1..n + 1 : Placed(d, r)
PROOF
<1> DEFINE S == {m \in Nat : \A r \in 1..m + 1 : Placed(d, r)}
<1>1. 0 \in S
    <2>1. \A r \in 1..0 + 1 : r = 1
        OBVIOUS
    <2> QED BY <2>1, PlacedFirst
<1>2. ASSUME NEW m \in 0..n - 1, m \in S PROVE m + 1 \in S
    <2> DEFINE k == m + 1
    <2>1. /\ k \in 1..Len(d) /\ k + 1 \in 1..n + 1 /\ k \in Nat
          /\ \A r \in 1..k : Placed(d, r)
          /\ \A r \in 1..k + 1 : r \in 1..k \/ r = k + 1
        BY <1>2
    <2> HIDE DEF k
    <2>2. Want(d, k + 1) # "Stray"
        BY <2>1 DEF Sound
    <2>3. Enters(d, k) \/ Stays(d, k) \/ Advances(d, k) \/ Leaves(d, k)
        BY <2>1, <2>2, Moves
    <2>4. Placed(d, k + 1)
        BY <2>1, <2>3, PlacedEnter, PlacedStay, PlacedAdvance, PlacedLeave
    <2>5. \A r \in 1..k + 1 : Placed(d, r)
        BY <2>1, <2>4
    <2> QED BY <2>1, <2>5 DEF k
<1> HIDE DEF S
<1>3. 0..n \subseteq S
    BY <1>1, <1>2, Induction
<1>4. n \in S
    <2>1. n \in 0..n
        OBVIOUS
    <2> QED BY <1>3, <2>1
<1> QED BY <1>4 DEF S

---------------------------------------------------------------------------
(* Brackets.                                                               *)

\* What a character that stands where it is expected does, by its kind.
LEMMA ByKind ==
    ASSUME NEW d, d \in Seq(Char), NEW k \in 1..Len(d), Want(d, k + 1) # "Stray"
    PROVE  /\ d[k] \in Openers => Enters(d, k)
           /\ d[k] \in Closers => Leaves(d, k)
           /\ d[k] = Comma => Advances(d, k)
           /\ d[k] \notin Openers \union Closers \union {Comma} => Stays(d, k)
PROOF
<1>1. Enters(d, k) \/ Stays(d, k) \/ Advances(d, k) \/ Leaves(d, k)
    BY Moves
<1>2. Enters(d, k) => d[k] \in Openers /\ d[k] \notin Closers /\ d[k] # Comma
    BY DEF Enters, Openers, Closers, Comma
<1>3. Leaves(d, k) => d[k] \in Closers /\ d[k] \notin Openers /\ d[k] # Comma
    BY DEF Leaves, Openers, Closers, Comma
<1>4. Advances(d, k) => d[k] = Comma /\ d[k] \notin Openers /\ d[k] \notin Closers
    BY DEF Advances, Openers, Closers, Comma
<1>5. Stays(d, k) => d[k] # Comma /\ d[k] \notin Openers /\ d[k] \notin Closers
    BY DEF Stays, Openers, Closers, Comma, ScalarChars, Quotes, Strings, Numbers, Numerals, Atoms
<1> QED BY <1>1, <1>2, <1>3, <1>4, <1>5

\* Behind the end of a bracket nothing is inside it.
LEMMA ClosedOnce ==
    ASSUME NEW d, d \in Seq(Char), NEW n \in 0..Len(d), Sound(d, n),
           NEW k \in 1..n, Leaves(d, k), NEW r \in k + 1..n + 1
    PROVE  Inside(d, r) # Inside(d, k)
PROOF
<1> DEFINE p == Inside(d, k)
           a == Level(d, p)
           b == Level(d, k)
           c == Level(d, k + 1)
           l == Level(d, r)
<1>1. /\ k \in 1..n + 1 /\ k + 1 \in 1..n + 1 /\ r \in 1..n + 1
      /\ \A m \in 1..k - 1 : m \in 1..n + 1 /\ k + 1 \in m + 1..r
    OBVIOUS
<1>2. Placed(d, k) /\ Placed(d, r)
    BY <1>1, AllPlaced
<1>3. p \in 1..k - 1 /\ c = b - 1
    BY DEF Leaves
<1>4. b = a + 1 /\ b \in Nat /\ Placed(d, p)
    <2>1. p # 0 /\ p \in 1..n + 1
        BY <1>1, <1>3
    <2> QED BY <1>2, <2>1, AllPlaced DEF Placed, PlacedIn
<1>5. a \in Nat
    BY <1>4 DEF Placed, PlacedIn
<1>6. ASSUME Inside(d, r) = p PROVE FALSE
    <2>1. PlacedIn(d, r, p)
        BY <1>2, <1>6 DEF Placed
    <2>2. k + 1 \in p + 1..r /\ p # 0
        BY <1>1, <1>3
    <2>3. c >= l /\ l = a + 1 /\ l \in Nat
        BY <2>1, <2>2 DEF PlacedIn
    <2> HIDE DEF a, b, c, l
    <2> QED BY <1>3, <1>4, <1>5, <2>3
<1> QED BY <1>6

\* A bracket has been closed once its level is reached again.
LEMMA Closed ==
    ASSUME NEW d, d \in Seq(Char), NEW n \in 0..Len(d), Sound(d, n),
           NEW p \in 1..n, d[p] \in Openers, Level(d, n + 1) <= Level(d, p)
    PROVE  \E q \in p + 1..n : /\ Leaves(d, q) /\ Inside(d, q) = p
                              /\ \A m \in p + 1..q : Level(d, m) > Level(d, p)
PROOF
<1> DEFINE S == {r \in p + 1..n + 1 : Level(d, r) <= Level(d, p)}
<1>0. /\ \A m \in 1..n : m \in 1..Len(d) /\ m \in 1..n + 1 /\ m + 1 \in 1..n + 1 /\ m \in Nat
      /\ n \in Nat /\ n + 1 \in p + 1..n + 1
    OBVIOUS
<1>1. \A m \in 1..n + 1 : Placed(d, m)
    BY AllPlaced
<1>2. \A m \in 1..n + 1 : Level(d, m) \in Nat
    BY <1>1 DEF Placed, PlacedIn
<1>3. PICK r \in S : \A m \in S : r <= m
    <2>1. S \subseteq Nat /\ n + 1 \in S
        BY <1>0
    <2> HIDE DEF S
    <2> QED BY <2>1, LeastNatural
<1>4. r \in p + 1..n + 1 /\ Level(d, r) <= Level(d, p)
    OBVIOUS
<1>5. ASSUME NEW m \in p + 1..n + 1, m < r PROVE Level(d, m) > Level(d, p)
    <2>1. m \notin S
        BY <1>0, <1>3, <1>4, <1>5
    <2>2. Level(d, m) \in Nat /\ Level(d, p) \in Nat
        <3>1. m \in 1..n + 1 /\ p \in 1..n + 1
            BY <1>0
        <3> QED BY <1>2, <3>1
    <2> DEFINE a == Level(d, m)
               b == Level(d, p)
    <2>3. ~(a <= b) /\ a \in Nat /\ b \in Nat
        BY <2>1, <2>2
    <2> HIDE DEF a, b
    <2>4. a > b
        BY <2>3
    <2> QED BY <2>4 DEF a, b
<1> HIDE DEF S
<1>6. Enters(d, p) /\ Inside(d, p + 1) = p /\ Level(d, p + 1) = Level(d, p) + 1
    <2>1. Want(d, p + 1) # "Stray"
        BY <1>0 DEF Sound
    <2>2. p \in 1..Len(d)
        BY <1>0
    <2>3. Enters(d, p)
        BY <2>1, <2>2, ByKind
    <2> QED BY <2>3 DEF Enters
<1> DEFINE q == r - 1
<1>7. q \in p + 1..n /\ q + 1 = r /\ q < r
    <2>1. r # p + 1
        <3> DEFINE a == Level(d, p)
        <3>1. a \in Nat
            BY <1>0, <1>2
        <3> HIDE DEF a
        <3>2. ~(a + 1 <= a)
            BY <3>1
        <3> QED BY <1>4, <1>6, <3>2 DEF a
    <2> QED BY <1>0, <1>4, <2>1
<1> HIDE DEF q
<1>8. q \in 1..n /\ q \in 1..Len(d) /\ q \in p + 1..n + 1 /\ q \in 1..n + 1 /\ q \in Nat /\ p \in 1..n + 1
    BY <1>0, <1>7
<1>9. Level(d, q) > Level(d, p) /\ Level(d, q + 1) <= Level(d, p)
    BY <1>4, <1>5, <1>7, <1>8
<1> DEFINE a == Level(d, p)
           b == Level(d, q)
           c == Level(d, q + 1)
           o == Inside(d, q)
           e == Level(d, o)
<1>10. a \in Nat /\ b \in Nat /\ b > a /\ c <= a
    BY <1>2, <1>8, <1>9
<1>11. Leaves(d, q)
    <2>1. Want(d, q + 1) # "Stray"
        BY <1>0, <1>8 DEF Sound
    <2>2. Enters(d, q) => c = b + 1
        BY DEF Enters
    <2>3. Stays(d, q) \/ Advances(d, q) => c = b
        BY DEF Stays, Advances
    <2>4. Enters(d, q) \/ Stays(d, q) \/ Advances(d, q) \/ Leaves(d, q)
        BY <1>8, <2>1, Moves
    <2> HIDE DEF a, b, c
    <2> QED BY <1>10, <2>2, <2>3, <2>4
<1>12. o \in 1..q - 1 /\ c = b - 1
    BY <1>11 DEF Leaves
<1>13. PlacedIn(d, q, o)
    BY <1>1, <1>8 DEF Placed
<1>14. b = e + 1 /\ e \in Nat /\ e = a
    <2>1. o # 0 /\ o \in 1..n + 1
        BY <1>8, <1>12
    <2>2. b = e + 1 /\ e \in Nat
        BY <1>2, <1>13, <2>1 DEF PlacedIn
    <2> HIDE DEF a, b, c, e
    <2> QED BY <1>10, <1>12, <2>2
<1>15. o = p
    <2>1. CASE o > p
        <3>1. o \in p + 1..n + 1 /\ o < r
            BY <1>7, <1>8, <1>12, <2>1
        <3>2. e > a
            BY <1>5, <3>1
        <3> HIDE DEF a, e
        <3> QED BY <1>10, <1>14, <3>2
    <2>2. CASE o < p
        <3>1. p \in o + 1..q
            BY <1>7, <1>8, <1>12, <2>2
        <3>2. a >= b
            BY <1>13, <3>1 DEF PlacedIn
        <3> HIDE DEF a, b
        <3> QED BY <1>10, <3>2
    <2> QED BY <1>8, <1>12, <2>1, <2>2
<1>16. \A m \in p + 1..q : m \in p + 1..n + 1 /\ m < r
    BY <1>7, <1>8
<1> QED BY <1>5, <1>7, <1>11, <1>15, <1>16

---------------------------------------------------------------------------
(* The places agree with the definitions of Json, which count brackets.    *)

LEMMA OccurrencesNext ==
    ASSUME NEW d, NEW p \in Nat, NEW q \in Nat, p <= q + 1, NEW S
    PROVE  /\ Occurrences(d, p, q, S) \in Nat
           /\ p = q + 1 => Occurrences(d, p, q, S) = 0
           /\ Occurrences(d, p, q + 1, S)
                 = Occurrences(d, p, q, S) + (IF d[q + 1] \in S THEN 1 ELSE 0)
PROOF
<1> DEFINE A == {k \in p..q : d[k] \in S}
           C == {k \in p..q + 1 : d[k] \in S}
<1>1. IsFiniteSet(A) /\ Cardinality(A) \in Nat
    <2>1. A \subseteq p..q /\ p \in Int /\ q \in Int
        OBVIOUS
    <2> HIDE DEF A
    <2> QED BY <2>1, PartOfInterval
<1>2. p = q + 1 => A = {}
    <2>1. p = q + 1 => \A k \in p..q : FALSE
        OBVIOUS
    <2> QED BY <2>1
<1>3. \A k \in p..q + 1 : k \in p..q \/ k = q + 1
    OBVIOUS
<1>4. q + 1 \in p..q + 1 /\ q + 1 \notin A /\ \A k \in p..q : k \in p..q + 1
    OBVIOUS
<1>5. CASE d[q + 1] \in S
    <2>1. C = A \union {q + 1}
        BY <1>3, <1>4, <1>5
    <2> HIDE DEF A, C
    <2>2. Cardinality(A \union {q + 1}) = Cardinality(A) + 1
        BY <1>1, <1>4, FS_AddElement
    <2> QED BY <1>1, <1>2, <1>5, <2>1, <2>2, FS_EmptySet DEF Occurrences, A, C
<1>6. CASE d[q + 1] \notin S
    <2>1. C = A
        BY <1>3, <1>4, <1>6
    <2> HIDE DEF A, C
    <2> QED BY <1>1, <1>2, <1>6, <2>1, FS_EmptySet DEF Occurrences, A, C
<1> QED BY <1>5, <1>6

LEMMA HeightIs ==
    ASSUME NEW d, d \in Seq(Char), NEW n \in 0..Len(d), Sound(d, n), NEW p \in 1..n
    PROVE  \A q \in p - 1..n : Height(d, p, q) = Level(d, q + 1) - Level(d, p)
PROOF
<1> DEFINE S == {m \in Nat : Height(d, p, p - 1 + m) = Level(d, p - 1 + m + 1) - Level(d, p)}
           N == n - p + 1
<1>0. /\ N \in Nat /\ n \in Nat /\ p \in Nat /\ p \in 1..n + 1
    OBVIOUS
<1>1. \A m \in 1..n + 1 : Level(d, m) \in Nat
    BY AllPlaced DEF Placed, PlacedIn
<1>2. 0 \in S
    <2>1. p - 1 \in Nat /\ p - 1 + 0 = p - 1 /\ p - 1 + 0 + 1 = p /\ p <= p - 1 + 1 /\ p = p - 1 + 1
        BY <1>0
    <2>2. Occurrences(d, p, p - 1, Openers) = 0 /\ Occurrences(d, p, p - 1, Closers) = 0
        BY <1>0, <2>1, OccurrencesNext
    <2>3. Height(d, p, p - 1) = 0
        BY <2>2 DEF Height
    <2> DEFINE l == Level(d, p)
    <2>4. l \in Nat
        BY <1>0, <1>1
    <2> HIDE DEF l
    <2>5. l - l = 0
        BY <2>4
    <2> QED BY <2>1, <2>3, <2>5 DEF l
<1>3. ASSUME NEW m \in 0..N - 1, m \in S PROVE m + 1 \in S
    <2> DEFINE q == p - 1 + m
               a == Occurrences(d, p, q, Openers)
               b == Occurrences(d, p, q, Closers)
               l0 == Level(d, p)
               l1 == Level(d, q + 1)
               l2 == Level(d, q + 2)
    <2>1. /\ q \in Nat /\ p <= q + 1 /\ q + 1 \in 1..n /\ q + 1 \in 1..Len(d) /\ q + 2 \in 1..n + 1
          /\ q + 1 \in 1..n + 1 /\ q + 1 + 1 = q + 2
          /\ p - 1 + (m + 1) = q + 1 /\ p - 1 + (m + 1) + 1 = q + 2 /\ m + 1 \in Nat
        BY <1>0
    <2>2. Height(d, p, q) = l1 - l0
        BY <1>3
    <2> HIDE DEF q
    <2>3. l0 \in Nat /\ l1 \in Nat /\ l2 \in Nat
        BY <1>0, <1>1, <2>1
    <2>4. /\ a \in Nat /\ b \in Nat
          /\ Occurrences(d, p, q + 1, Openers) = a + (IF d[q + 1] \in Openers THEN 1 ELSE 0)
          /\ Occurrences(d, p, q + 1, Closers) = b + (IF d[q + 1] \in Closers THEN 1 ELSE 0)
        BY <1>0, <2>1, OccurrencesNext
    <2>5. a - b = l1 - l0
        BY <2>2 DEF Height
    <2>6. Want(d, q + 2) # "Stray"
        BY <2>1 DEF Sound
    <2>7. Enters(d, q + 1) \/ Stays(d, q + 1) \/ Advances(d, q + 1) \/ Leaves(d, q + 1)
        BY <2>1, <2>6, Moves
    <2>8. /\ Enters(d, q + 1) => d[q + 1] \in Openers /\ d[q + 1] \notin Closers
          /\ Leaves(d, q + 1) => d[q + 1] \in Closers /\ d[q + 1] \notin Openers
          /\ Stays(d, q + 1) \/ Advances(d, q + 1) => d[q + 1] \notin Openers /\ d[q + 1] \notin Closers
        BY DEF Enters, Leaves, Stays, Advances, Openers, Closers, Comma, ScalarChars, Quotes, Strings,
               Numbers, Numerals, Atoms
    <2>9. /\ Enters(d, q + 1) => l2 = l1 + 1
          /\ Leaves(d, q + 1) => l2 = l1 - 1
          /\ Stays(d, q + 1) \/ Advances(d, q + 1) => l2 = l1
        BY <2>1 DEF Enters, Leaves, Stays, Advances
    <2> HIDE DEF a, b, l0, l1, l2
    <2>10. (a + (IF d[q + 1] \in Openers THEN 1 ELSE 0)) - (b + (IF d[q + 1] \in Closers THEN 1 ELSE 0))
               = l2 - l0
        BY <2>3, <2>4, <2>5, <2>7, <2>8, <2>9
    <2>11. Height(d, p, q + 1) = l2 - l0
        BY <2>4, <2>10 DEF Height
    <2> QED BY <2>1, <2>11 DEF l0, l2
<1> HIDE DEF S
<1>4. 0..N \subseteq S
    <2> HIDE DEF N
    <2> QED BY <1>0, <1>2, <1>3, Induction
<1>5. ASSUME NEW q \in p - 1..n PROVE Height(d, p, q) = Level(d, q + 1) - Level(d, p)
    <2> DEFINE m == q - (p - 1)
    <2>1. m \in 0..N /\ p - 1 + m = q
        BY <1>0
    <2> HIDE DEF m
    <2>2. m \in S
        BY <1>4, <2>1
    <2> QED BY <2>1, <2>2 DEF S
<1> QED BY <1>5

\* The count of a container is what it says at its closing bracket.
LEMMA CountIs ==
    ASSUME NEW d, d \in Seq(Char), Sound(d, Len(d)),
           NEW p \in 1..Len(d), d[p] \in Openers,
           NEW q \in p + 1..Len(d), Leaves(d, q), Inside(d, q) = p,
           \A m \in p + 1..q : Level(d, m) > Level(d, p)
    PROVE  /\ ElementCount(d, p) = IF Want(d, q) \in First THEN 0 ELSE Ordinal(d, q)
           /\ CloserOf(d, p) = q /\ SeparatorsOf(d, p) = CommasOf(d, p, q)
PROOF
<1> DEFINE n == Len(d)
           a == Level(d, p)
<1>0. /\ n \in Nat /\ n \in 0..Len(d) /\ p \in 1..n /\ q \in 1..n /\ q \in 1..n + 1 /\ p \in 1..n + 1
      /\ p \in Nat /\ q \in Nat /\ q + 1 \in 1..n + 1 /\ p + 1 \in 1..n + 1
    OBVIOUS
<1>1. \A m \in 1..n + 1 : Placed(d, m)
    BY <1>0, AllPlaced
<1>2. \A m \in 1..n + 1 : Level(d, m) \in Nat
    BY <1>1 DEF Placed, PlacedIn
<1>3. \A m \in p - 1..n : Height(d, p, m) = Level(d, m + 1) - a
    BY <1>0, HeightIs
<1>4. PlacedIn(d, q, p) /\ a \in Nat
    BY <1>0, <1>1, <1>2 DEF Placed
<1>5. Level(d, q) = a + 1 /\ Level(d, q + 1) = a
    <2>1. Level(d, q + 1) = Level(d, q) - 1
        BY DEF Leaves
    <2>2. Level(d, q) = a + 1
        BY <1>0, <1>4 DEF PlacedIn
    <2> HIDE DEF a
    <2> QED BY <1>4, <2>1, <2>2
<1> DEFINE Ends(m) == Height(d, p, m) = 0 /\ \A r \in p..m - 1 : Height(d, p, r) > 0
<1>6. Ends(q)
    <2>1. Height(d, p, q) = 0
        <3>1. q \in p - 1..n
            BY <1>0
        <3>2. Height(d, p, q) = a - a
            BY <1>3, <1>5, <3>1
        <3> HIDE DEF a
        <3> QED BY <1>4, <3>2
    <2>2. ASSUME NEW r \in p..q - 1 PROVE Height(d, p, r) > 0
        <3> DEFINE b == Level(d, r + 1)
        <3>1. r \in p - 1..n /\ r + 1 \in p + 1..q /\ r + 1 \in 1..n + 1
            BY <1>0
        <3>2. Height(d, p, r) = b - a /\ b > a /\ b \in Nat
            BY <1>2, <1>3, <3>1
        <3> HIDE DEF a, b
        <3>3. b - a > 0
            BY <1>4, <3>2
        <3> QED BY <3>2, <3>3
    <2> QED BY <2>1, <2>2
<1>7. ASSUME NEW m \in p + 1..n, Ends(m) PROVE m = q
    <2>1. CASE m < q
        <3>1. m \in p..q - 1
            BY <1>0, <2>1
        <3>2. Height(d, p, m) > 0 /\ Height(d, p, m) = 0
            BY <1>6, <1>7, <3>1
        <3> QED BY <3>2
    <2>2. CASE q < m
        <3>1. q \in p..m - 1
            BY <1>0, <2>2
        <3>2. Height(d, p, q) > 0 /\ Height(d, p, q) = 0
            BY <1>6, <1>7, <3>1
        <3> QED BY <3>2
    <2> QED BY <1>0, <2>1, <2>2
<1>8. CloserOf(d, p) = q
    <2>1. CloserOf(d, p) = CHOOSE m \in p + 1..n : Ends(m)
        BY DEF CloserOf
    <2> HIDE DEF Ends, n
    <2>2. q \in p + 1..n
        BY DEF n
    <2> QED BY <1>6, <1>7, <2>1, <2>2
<1>9. SeparatorsOf(d, p) = CommasOf(d, p, q)
    <2>1. SeparatorsOf(d, p) = {k \in p + 1..q - 1 : d[k] = Comma /\ Height(d, p, k) = 1}
        BY <1>8 DEF SeparatorsOf, Comma
    <2>2. ASSUME NEW k \in p + 1..q - 1, d[k] = Comma PROVE Height(d, p, k) = 1 <=> Inside(d, k) = p
        <3>1. k \in 1..n /\ k + 1 \in 1..n + 1 /\ k \in p - 1..n /\ k \in p + 1..q /\ k \in 1..n + 1
            BY <1>0
        <3>2. Want(d, k + 1) # "Stray"
            BY <3>1 DEF Sound
        <3>3. Advances(d, k)
            BY <2>2, <3>1, <3>2, ByKind
        <3> DEFINE b == Level(d, k)
        <3>4. Height(d, p, k) = b - a
            BY <1>3, <3>1, <3>3 DEF Advances
        <3>5. Inside(d, k) = p <=> b = a + 1
            BY <1>4, <1>5, <3>1 DEF PlacedIn
        <3>6. b \in Nat
            BY <1>2, <3>1
        <3> HIDE DEF a, b
        <3>7. b - a = 1 <=> b = a + 1
            BY <1>4, <3>6
        <3> QED BY <3>4, <3>5, <3>7
    <2> QED BY <2>1, <2>2 DEF CommasOf
<1>10. Want(d, q) \in First <=> q = p + 1
    <2>1. ASSUME q = p + 1 PROVE Want(d, q) \in First
        <3>1. Want(d, p + 1) # "Stray"
            BY <1>0 DEF Sound
        <3>2. Enters(d, p)
            BY <1>0, <3>1, ByKind
        <3> QED BY <2>1, <3>2 DEF Enters, First
    <2>2. ASSUME Want(d, q) \in First PROVE q = p + 1
        <3> DEFINE k == q - 1
        <3>1. k \in 1..Len(d) /\ k + 1 = q
            BY <1>0
        <3>2. Want(d, k + 1) # "Stray"
            BY <1>0, <3>1 DEF Sound
        <3>3. Enters(d, k) \/ Stays(d, k) \/ Advances(d, k) \/ Leaves(d, k)
            BY <3>1, <3>2, Moves
        <3> HIDE DEF k
        <3>4. Enters(d, k)
            BY <2>2, <3>1, <3>3 DEF Stays, Advances, Leaves, First
        <3>5. Inside(d, q) = k
            BY <3>1, <3>4 DEF Enters
        <3> QED BY <3>1, <3>5
    <2> QED BY <2>1, <2>2
<1>11. Ordinal(d, q) = 1 + Cardinality(CommasOf(d, p, q))
    BY <1>0, <1>4 DEF PlacedIn
<1> QED BY <1>8, <1>9, <1>10, <1>11 DEF ElementCount

---------------------------------------------------------------------------
(* What the grammar derives, from what it derives in fewer characters.     *)

\* Derivations(n) is the last row of a table that satisfies its definition.
LEMMA TableIs ==
    ASSUME NEW n \in Nat
    PROVE  \E t : /\ t[0] = << >> /\ Derivations(n) = t[n]
                  /\ \A m \in 1..n : t[m] = Append(t[m - 1], Derive(t[m - 1], m))
PROOF
<1> DEFINE at(f, m) == IF m = 0 THEN << >> ELSE Append(f[m - 1], Derive(f[m - 1], m))
           S == {m \in Nat : \E f : f = [k \in 0..m |-> at(f, k)]}
           table == CHOOSE f : f = [k \in 0..n |-> at(f, k)]
<1>1. 0 \in S
    <2> DEFINE f == [k \in 0..0 |-> << >>]
    <2>1. f = [k \in 0..0 |-> at(f, k)]
        OBVIOUS
    <2> QED BY <2>1
<1>2. ASSUME NEW m \in 0..n - 1, m \in S PROVE m + 1 \in S
    <2>1. PICK f : f = [k \in 0..m |-> at(f, k)]
        BY <1>2
    <2> DEFINE g == [k \in 0..m + 1 |-> at(f, k)]
    <2>2. ASSUME NEW q \in 0..m PROVE g[q] = f[q]
        <3>1. g[q] = at(f, q)
            OBVIOUS
        <3> HIDE DEF at, g
        <3>2. f[q] = at(f, q)
            BY <2>1
        <3> QED BY <3>1, <3>2
    <2>3. ASSUME NEW k \in 0..m + 1 PROVE at(g, k) = at(f, k)
        <3> HIDE DEF g
        <3>1. k # 0 => k - 1 \in 0..m
            OBVIOUS
        <3> QED BY <2>2, <3>1
    <2>4. g = [k \in 0..m + 1 |-> at(g, k)]
        <3> DEFINE h == [k \in 0..m + 1 |-> at(g, k)]
        <3>1. \A k \in 0..m + 1 : g[k] = at(f, k) /\ h[k] = at(g, k)
            OBVIOUS
        <3> HIDE DEF at
        <3> QED BY <2>3
    <2>5. m + 1 \in Nat
        OBVIOUS
    <2> HIDE DEF g, at
    <2> QED BY <2>4, <2>5
<1>3. n \in S
    <2> HIDE DEF S
    <2>1. 0..n \subseteq S
        BY <1>1, <1>2, Induction
    <2> QED BY <2>1
<1>4. PICK f : f = [k \in 0..n |-> at(f, k)]
    BY <1>3
<1>5. table = [k \in 0..n |-> at(table, k)]
    <2> HIDE DEF at
    <2> QED BY <1>4
<1>6. Derivations(n) = table[n]
    BY DEF Derivations
<1> HIDE DEF table
<1>7. \A k \in 0..n : table[k] = at(table, k)
    <2> HIDE DEF at
    <2> QED BY <1>5
<1>8. table[0] = << >>
    BY <1>7
<1>9. ASSUME NEW m \in 1..n PROVE table[m] = Append(table[m - 1], Derive(table[m - 1], m))
    <2>1. m \in 0..n /\ m # 0
        OBVIOUS
    <2> QED BY <1>7, <2>1
<1> QED BY <1>6, <1>8, <1>9, Zenon

Opening == "["
Closing == "]"
Unbrace == "}"
Quoted  == "str"
Plain   == "val"
Colon   == ":"

\* The texts of one kind in k characters.
Shorter(f, m, k, kind) == IF k \in 1..m - 1 THEN f[k][kind] ELSE {}

\* What makes s a value of m characters, the text between two brackets of
\* one, the members of an object.
ValueFrom(f, m, s) ==
    \/ m = 1 /\ s \in {<<Quoted>>, <<Plain>>}
    \/ m = 2 /\ s \in {<<Opening, Closing>>, <<Brace, Unbrace>>}
    \/ m > 2 /\ \E e \in Shorter(f, m, m - 2, "elements") : s = <<Opening>> \o e \o <<Closing>>
    \/ m > 2 /\ \E e \in Shorter(f, m, m - 2, "members") : s = <<Brace>> \o e \o <<Unbrace>>

ElementsBehind(f, m, s) ==
    \E k \in 1..m - 2 : \E v \in Shorter(f, m, k, "values") :
        \E e \in Shorter(f, m, m - 1 - k, "elements") : s = v \o <<Comma>> \o e

MembersFrom(f, m, s) ==
    \/ \E v \in Shorter(f, m, m - 2, "values") : s = <<Quoted, Colon>> \o v
    \/ \E k \in 1..m - 2 : \E v \in Shorter(f, m, k - 2, "values") :
          \E e \in Shorter(f, m, m - 1 - k, "members") : s = <<Quoted, Colon>> \o v \o <<Comma>> \o e

LEMMA JoinedIs ==
    ASSUME NEW S, NEW sep, NEW T, NEW s
    PROVE  s \in Joined(S, sep, T) <=> \E v \in S : \E e \in T : s = v \o sep \o e
PROOF BY DEF Joined

LEMMA DerivesValues ==
    ASSUME NEW f, NEW m \in Nat, m > 0, NEW s
    PROVE  s \in Derive(f, m).values <=> ValueFrom(f, m, s)
PROOF
<1> DEFINE Get(k, kind) == Shorter(f, m, k, kind)
           pairs(k) == {<<Quoted, Colon>> \o v : v \in Get(k - 2, "values")}
           values == CASE m = 1 -> {<<Quoted>>, <<Plain>>}
                       [] m = 2 -> {<<Opening, Closing>>, <<Brace, Unbrace>>}
                       [] OTHER -> {<<Opening>> \o e \o <<Closing>> : e \in Get(m - 2, "elements")}
                                     \union {<<Brace>> \o e \o <<Unbrace>> : e \in Get(m - 2, "members")}
           elements == values \union
                UNION {Joined(Get(k, "values"), <<Comma>>, Get(m - 1 - k, "elements")) : k \in 1..m - 2}
           members == pairs(m) \union
                UNION {Joined(pairs(k), <<Comma>>, Get(m - 1 - k, "members")) : k \in 1..m - 2}
<1>1. Derive(f, m) = [values |-> values, elements |-> elements, members |-> members]
    BY Zenon DEF Derive, Shorter, Opening, Closing, Brace, Unbrace, Quoted, Plain, Colon, Comma
<1>2. ~(m > 2 /\ m = 1) /\ ~(m > 2 /\ m = 2) /\ ~(m = 2 /\ m = 1) /\ (m = 1 \/ m = 2 \/ m > 2)
    OBVIOUS
<1>3. s \in values <=>
         \/ m = 1 /\ s \in {<<Quoted>>, <<Plain>>}
         \/ m = 2 /\ s \in {<<Opening, Closing>>, <<Brace, Unbrace>>}
         \/ m > 2 /\ \E e \in Shorter(f, m, m - 2, "elements") : s = <<Opening>> \o e \o <<Closing>>
         \/ m > 2 /\ \E e \in Shorter(f, m, m - 2, "members") : s = <<Brace>> \o e \o <<Unbrace>>
    BY <1>2, Zenon
<1> HIDE DEF values, elements, members
<1>6. Derive(f, m).values = values /\ Derive(f, m).elements = elements /\ Derive(f, m).members = members
    BY <1>1
<1> QED BY <1>3, <1>6 DEF ValueFrom

LEMMA DerivesElements ==
    ASSUME NEW f, NEW m \in Nat, m > 0, NEW s
    PROVE  s \in Derive(f, m).elements <=>
                \/ s \in Derive(f, m).values
                \/ ElementsBehind(f, m, s)
PROOF
<1> DEFINE Get(k, kind) == Shorter(f, m, k, kind)
           pairs(k) == {<<Quoted, Colon>> \o v : v \in Get(k - 2, "values")}
           values == CASE m = 1 -> {<<Quoted>>, <<Plain>>}
                       [] m = 2 -> {<<Opening, Closing>>, <<Brace, Unbrace>>}
                       [] OTHER -> {<<Opening>> \o e \o <<Closing>> : e \in Get(m - 2, "elements")}
                                     \union {<<Brace>> \o e \o <<Unbrace>> : e \in Get(m - 2, "members")}
           elements == values \union
                UNION {Joined(Get(k, "values"), <<Comma>>, Get(m - 1 - k, "elements")) : k \in 1..m - 2}
           members == pairs(m) \union
                UNION {Joined(pairs(k), <<Comma>>, Get(m - 1 - k, "members")) : k \in 1..m - 2}
<1>1. Derive(f, m) = [values |-> values, elements |-> elements, members |-> members]
    BY Zenon DEF Derive, Shorter, Opening, Closing, Brace, Unbrace, Quoted, Plain, Colon, Comma
<1> HIDE DEF values
<1>4. s \in elements <=>
         \/ s \in values
         \/ \E k \in 1..m - 2 : \E v \in Shorter(f, m, k, "values") :
               \E e \in Shorter(f, m, m - 1 - k, "elements") : s = v \o <<Comma>> \o e
    <2> DEFINE J(k) == Joined(Get(k, "values"), <<Comma>>, Get(m - 1 - k, "elements"))
               K == 1..m - 2
    <2>1. s \in elements <=> s \in values \/ \E k \in K : s \in J(k)
        BY Zenon
    <2>2. ASSUME NEW k PROVE s \in J(k) <=> \E v \in Get(k, "values") : \E e \in Get(m - 1 - k, "elements") : s = v \o <<Comma>> \o e
        <3> DEFINE S == Get(k, "values")
                   T == Get(m - 1 - k, "elements")
                   sep == <<Comma>>
        <3> HIDE DEF S, T, sep, elements
        <3>1. s \in Joined(S, sep, T) <=> \E v \in S : \E e \in T : s = v \o sep \o e
            BY JoinedIs
        <3> QED BY <3>1 DEF S, T, sep
    <2> HIDE DEF elements, J
    <2> QED BY <2>1, <2>2, Zenon
<1> HIDE DEF values, elements, members
<1>6. Derive(f, m).values = values /\ Derive(f, m).elements = elements /\ Derive(f, m).members = members
    BY <1>1
<1> QED BY <1>4, <1>6, Zenon DEF ElementsBehind

LEMMA DerivesMembers ==
    ASSUME NEW f, NEW m \in Nat, m > 0, NEW s
    PROVE  s \in Derive(f, m).members <=> MembersFrom(f, m, s)
PROOF
<1> DEFINE Get(k, kind) == Shorter(f, m, k, kind)
           pairs(k) == {<<Quoted, Colon>> \o v : v \in Get(k - 2, "values")}
           values == CASE m = 1 -> {<<Quoted>>, <<Plain>>}
                       [] m = 2 -> {<<Opening, Closing>>, <<Brace, Unbrace>>}
                       [] OTHER -> {<<Opening>> \o e \o <<Closing>> : e \in Get(m - 2, "elements")}
                                     \union {<<Brace>> \o e \o <<Unbrace>> : e \in Get(m - 2, "members")}
           elements == values \union
                UNION {Joined(Get(k, "values"), <<Comma>>, Get(m - 1 - k, "elements")) : k \in 1..m - 2}
           members == pairs(m) \union
                UNION {Joined(pairs(k), <<Comma>>, Get(m - 1 - k, "members")) : k \in 1..m - 2}
<1>1. Derive(f, m) = [values |-> values, elements |-> elements, members |-> members]
    BY Zenon DEF Derive, Shorter, Opening, Closing, Brace, Unbrace, Quoted, Plain, Colon, Comma
<1> HIDE DEF values
<1>5. s \in members <=>
         \/ \E v \in Shorter(f, m, m - 2, "values") : s = <<Quoted, Colon>> \o v
         \/ \E k \in 1..m - 2 : \E v \in Shorter(f, m, k - 2, "values") :
               \E e \in Shorter(f, m, m - 1 - k, "members") : s = <<Quoted, Colon>> \o v \o <<Comma>> \o e
    <2> DEFINE J(k) == Joined(pairs(k), <<Comma>>, Get(m - 1 - k, "members"))
               K == 1..m - 2
    <2>1. s \in members <=> s \in pairs(m) \/ \E k \in K : s \in J(k)
        BY Zenon
    <2>2. ASSUME NEW k PROVE s \in J(k) <=> \E v \in pairs(k) : \E e \in Get(m - 1 - k, "members") : s = v \o <<Comma>> \o e
        <3> DEFINE S == pairs(k)
                   T == Get(m - 1 - k, "members")
                   sep == <<Comma>>
        <3> HIDE DEF S, T, sep, elements, members
        <3>1. s \in Joined(S, sep, T) <=> \E v \in S : \E e \in T : s = v \o sep \o e
            BY JoinedIs
        <3> QED BY <3>1 DEF S, T, sep
    <2>3. \A k, x : x \in pairs(k) <=> \E v \in Get(k - 2, "values") : x = <<Quoted, Colon>> \o v
        OBVIOUS
    <2>4. s \in pairs(m) <=> \E v \in Get(m - 2, "values") : s = <<Quoted, Colon>> \o v
        BY <2>3
    <2>5. ASSUME NEW k PROVE s \in J(k) <=> \E v \in Get(k - 2, "values") : \E e \in Get(m - 1 - k, "members") :
                                               s = <<Quoted, Colon>> \o v \o <<Comma>> \o e
        <3> DEFINE T == Get(m - 1 - k, "members")
        <3> HIDE DEF members, J, pairs, elements, T
        <3>1. ASSUME s \in J(k)
              PROVE  \E v \in Get(k - 2, "values") : \E e \in T : s = <<Quoted, Colon>> \o v \o <<Comma>> \o e
            <4>1. PICK x \in pairs(k), e \in T : s = x \o <<Comma>> \o e
                BY <2>2, <3>1 DEF T
            <4>2. PICK v \in Get(k - 2, "values") : x = <<Quoted, Colon>> \o v
                BY <2>3
            <4> QED BY <4>1, <4>2
        <3>2. ASSUME NEW v \in Get(k - 2, "values"), NEW e \in T, s = <<Quoted, Colon>> \o v \o <<Comma>> \o e
              PROVE  s \in J(k)
            <4> DEFINE x == <<Quoted, Colon>> \o v
            <4>1. x \in pairs(k) /\ s = x \o <<Comma>> \o e
                BY <2>3, <3>2
            <4> HIDE DEF x
            <4> QED BY <2>2, <4>1 DEF T
        <3> QED BY <3>1, <3>2, Zenon DEF T
    <2> HIDE DEF members, J, pairs
    <2> QED BY <2>1, <2>4, <2>5, Zenon
<1> HIDE DEF values, elements, members
<1>6. Derive(f, m).values = values /\ Derive(f, m).elements = elements /\ Derive(f, m).members = members
    BY <1>1
<1> QED BY <1>5, <1>6, Zenon DEF MembersFrom

\* The derivations are what the grammar derives from each other.
LEMMA DerivationsAre ==
    ASSUME NEW n \in Nat, NEW m \in 1..n
    PROVE  \E f : /\ Derivations(n)[m] = Derive(f, m)
                  /\ \A k \in 1..m - 1 : f[k] = Derivations(n)[k]
PROOF
<1>1. PICK t : /\ t[0] = << >> /\ Derivations(n) = t[n]
               /\ \A q \in 1..n : t[q] = Append(t[q - 1], Derive(t[q - 1], q))
    BY TableIs
<1> DEFINE row(q) == Derive(t[q - 1], q)
           U == {row(q) : q \in 1..n}
           S == {q \in 0..n : t[q] \in Seq(U) /\ Len(t[q]) = q /\ \A k \in 1..q : t[q][k] = row(k)}
<1>2. 0 \in S
    <2>1. t[0] \in Seq(U) /\ Len(t[0]) = 0 /\ \A k \in 1..0 : FALSE
        BY <1>1
    <2> QED BY <2>1
<1>3. ASSUME NEW q \in 0..n - 1, q \in S PROVE q + 1 \in S
    <2>1. q + 1 \in 1..n /\ q + 1 \in 0..n /\ q + 1 - 1 = q /\ q \in Nat
        OBVIOUS
    <2> DEFINE r == row(q + 1)
    <2>2. r \in U
        BY <2>1
    <2>3. t[q] \in Seq(U) /\ Len(t[q]) = q /\ \A k \in 1..q : t[q][k] = row(k)
        BY <1>3
    <2>4. t[q + 1] = Append(t[q], r)
        BY <1>1, <2>1
    <2> HIDE DEF U, row, r
    <2>5. t[q + 1] \in Seq(U) /\ Len(t[q + 1]) = q + 1
        BY <2>1, <2>2, <2>3, <2>4
    <2>6. ASSUME NEW k \in 1..q + 1 PROVE t[q + 1][k] = row(k)
        <3>1. CASE k = q + 1
            BY <2>1, <2>3, <2>4, <3>1 DEF r
        <3>2. CASE k # q + 1
            <4>1. k \in 1..q
                BY <2>1, <3>2
            <4>2. t[q + 1][k] = t[q][k]
                BY <2>2, <2>3, <2>4, <4>1
            <4> QED BY <2>3, <4>1, <4>2
        <3> QED BY <3>1, <3>2
    <2> QED BY <2>1, <2>5, <2>6
<1>4. \A q \in 0..n : q \in S
    <2> HIDE DEF S
    <2>1. 0..n \subseteq S
        BY <1>2, <1>3, Induction
    <2> QED BY <2>1
<1> HIDE DEF U, row
<1>5. ASSUME NEW k \in 1..m - 1 PROVE t[m - 1][k] = Derivations(n)[k]
    <2>1. m - 1 \in 0..n /\ n \in 0..n /\ k \in 1..n
        OBVIOUS
    <2>2. t[m - 1][k] = row(k) /\ t[n][k] = row(k)
        BY <1>4, <2>1
    <2> QED BY <1>1, <2>2
<1>6. Derivations(n)[m] = Derive(t[m - 1], m)
    <2>1. n \in 0..n
        OBVIOUS
    <2>2. t[n][m] = row(m)
        BY <1>4, <2>1
    <2> QED BY <1>1, <2>2 DEF row
<1> QED BY <1>5, <1>6

---------------------------------------------------------------------------
(* The texts by positions.                                                 *)

Symbols == Char \union {Quoted, Plain}

Part(s, p, m) == [k \in 1..m |-> s[p + k - 1]]

\* k characters from p on are x, the j behind them y.
Parted(s, p, k, x, j, y) == Part(s, p, k) = x /\ Part(s, p + k, j) = y

LEMMA PartOfTwo ==
    ASSUME NEW s, NEW p \in Nat, NEW V, NEW x \in Seq(V), NEW y \in Seq(V), NEW m \in Nat
    PROVE  Part(s, p, m) = x \o y
             <=> m = Len(x) + Len(y) /\ Parted(s, p, Len(x), x, Len(y), y)
PROOF
<1> DEFINE a == Len(x)
           b == Len(y)
<1>1. a \in Nat /\ b \in Nat /\ x = [k \in 1..a |-> x[k]] /\ y = [k \in 1..b |-> y[k]]
    OBVIOUS
<1>2. /\ x \o y \in Seq(V) /\ Len(x \o y) = a + b
      /\ \A k \in 1..a : (x \o y)[k] = x[k]
      /\ \A k \in 1..b : (x \o y)[a + k] = y[k]
    BY ConcatProperties
<1> DEFINE z == x \o y
<1>a. /\ z \in Seq(V) /\ Len(z) = a + b
      /\ \A k \in 1..a : z[k] = x[k]
      /\ \A k \in 1..b : z[a + k] = y[k]
    BY <1>2
<1> HIDE DEF a, b, z
<1>3. z = [k \in 1..a + b |-> z[k]]
    BY <1>a
<1>4. ASSUME Part(s, p, m) = z
      PROVE  m = a + b /\ Part(s, p, a) = x /\ Part(s, p + a, b) = y
    <2>1. m = a + b
        <3>1. DOMAIN Part(s, p, m) = 1..m /\ DOMAIN z = 1..a + b
            BY <1>a DEF Part
        <3>2. 1..m = 1..a + b /\ a + b \in Nat
            BY <1>1, <1>4, <3>1
        <3>3. m # 0 => m \in 1..m
            OBVIOUS
        <3>4. a + b # 0 => a + b \in 1..m
            BY <3>2
        <3> QED BY <3>2, <3>3, <3>4
    <2>2. ASSUME NEW k \in 1..a PROVE s[p + k - 1] = x[k]
        <3>1. k \in 1..m
            BY <1>1, <2>1
        <3>2. Part(s, p, m)[k] = s[p + k - 1]
            BY <3>1 DEF Part
        <3> QED BY <1>a, <1>4, <3>2
    <2>3. ASSUME NEW k \in 1..b PROVE s[p + a + k - 1] = y[k]
        <3>1. a + k \in 1..m /\ p + (a + k) - 1 = p + a + k - 1
            BY <1>1, <2>1
        <3>2. Part(s, p, m)[a + k] = s[p + (a + k) - 1]
            BY <3>1 DEF Part
        <3> QED BY <1>a, <1>4, <3>1, <3>2
    <2> QED BY <1>1, <2>1, <2>2, <2>3 DEF Part
<1>5. ASSUME m = a + b, Part(s, p, a) = x, Part(s, p + a, b) = y
      PROVE  Part(s, p, m) = z
    <2>1. ASSUME NEW k \in 1..m PROVE s[p + k - 1] = z[k]
        <3>1. CASE k \in 1..a
            BY <1>a, <1>5, <3>1 DEF Part
        <3>2. CASE k \notin 1..a
            <4>1. k - a \in 1..b /\ p + a + (k - a) - 1 = p + k - 1 /\ a + (k - a) = k
                BY <1>1, <1>5, <3>2
            <4>2. y[k - a] = s[p + a + (k - a) - 1]
                BY <1>5, <4>1 DEF Part
            <4>3. z[a + (k - a)] = y[k - a]
                BY <1>a, <4>1
            <4> QED BY <4>1, <4>2, <4>3
        <3> QED BY <3>1, <3>2
    <2>2. z = [k \in 1..m |-> z[k]]
        BY <1>3, <1>5
    <2> QED BY <2>1, <2>2 DEF Part
<1> QED BY <1>4, <1>5 DEF a, b, z, Parted

---------------------------------------------------------------------------

LEMMA DerivationsSatisfy ==
    ASSUME NEW n \in Nat, NEW m \in 1..n, NEW s, NEW D, D = Derivations(n)
    PROVE  /\ s \in D[m].values <=> ValueFrom(D, m, s)
           /\ s \in D[m].elements <=> s \in D[m].values \/ ElementsBehind(D, m, s)
           /\ s \in D[m].members <=> MembersFrom(D, m, s)
PROOF
<1>1. PICK f : D[m] = Derive(f, m) /\ \A k \in 1..m - 1 : f[k] = D[k]
    BY DerivationsAre
<1>2. \A k, kind : Shorter(f, m, k, kind) = Shorter(D, m, k, kind)
    BY <1>1 DEF Shorter
<1>3. ValueFrom(f, m, s) <=> ValueFrom(D, m, s)
    BY <1>2, Zenon DEF ValueFrom
<1>4. ElementsBehind(f, m, s) <=> ElementsBehind(D, m, s)
    BY <1>2, Zenon DEF ElementsBehind
<1>5. MembersFrom(f, m, s) <=> MembersFrom(D, m, s)
    BY <1>2, Zenon DEF MembersFrom
<1>6. m \in Nat /\ m > 0
    OBVIOUS
<1> QED BY <1>1, <1>3, <1>4, <1>5, <1>6, DerivesValues, DerivesElements, DerivesMembers


\* A text of m characters is a sequence of m characters.
TextOf(m) == {s \in Seq(Symbols) : Len(s) = m}

LEMMA SymbolsAre ==
    /\ Opening \in Symbols /\ Closing \in Symbols /\ Brace \in Symbols /\ Unbrace \in Symbols
    /\ Quoted \in Symbols /\ Plain \in Symbols /\ Colon \in Symbols /\ Comma \in Symbols
PROOF BY Zenon DEF Symbols, Char, Openers, Closers, Opening, Closing, Brace, Unbrace, Quoted, Plain, Colon, Comma

LEMMA TextOfOne ==
    ASSUME NEW a \in Symbols
    PROVE  <<a>> \in TextOf(1)
PROOF BY DEF TextOf

LEMMA TextOfPair ==
    ASSUME NEW a \in Symbols, NEW b \in Symbols
    PROVE  <<a, b>> \in TextOf(2)
PROOF BY DEF TextOf

LEMMA TextOfTwo ==
    ASSUME NEW a \in Nat, NEW b \in Nat, NEW x \in TextOf(a), NEW y \in TextOf(b)
    PROVE  x \o y \in TextOf(a + b)
PROOF
<1>1. x \in Seq(Symbols) /\ y \in Seq(Symbols) /\ Len(x) = a /\ Len(y) = b
    BY DEF TextOf
<1> QED BY <1>1, ConcatProperties DEF TextOf

TypedAt(D, k) ==
    D[k].values \subseteq TextOf(k) /\ D[k].elements \subseteq TextOf(k) /\ D[k].members \subseteq TextOf(k)

LEMMA TextLengthStep ==
    ASSUME NEW n \in Nat, NEW j \in 1..n, NEW D, D = Derivations(n), \A k \in 1..j - 1 : TypedAt(D, k)
    PROVE  TypedAt(D, j)
PROOF
<1>1. ASSUME NEW k \in Int, NEW kind \in {"values", "elements", "members"}, NEW s \in Shorter(D, j, k, kind)
      PROVE  s \in TextOf(k) /\ k \in Nat
    <2>1. k \in 1..j - 1 /\ s \in D[k][kind]
        BY DEF Shorter
    <2>2. TypedAt(D, k)
        BY <2>1
    <2> QED BY <2>1, <2>2 DEF TypedAt
<1>2. ASSUME NEW s \in D[j].values PROVE s \in TextOf(j)
    <2>1. ValueFrom(D, j, s)
        BY DerivationsSatisfy
    <2>2. CASE j = 1 /\ s \in {<<Quoted>>, <<Plain>>}
        BY <2>2, SymbolsAre, TextOfOne
    <2>3. CASE j = 2 /\ s \in {<<Opening, Closing>>, <<Brace, Unbrace>>}
        BY <2>3, SymbolsAre, TextOfPair
    <2>4. CASE \/ \E e \in Shorter(D, j, j - 2, "elements") : s = <<Opening>> \o e \o <<Closing>>
               \/ \E e \in Shorter(D, j, j - 2, "members") : s = <<Brace>> \o e \o <<Unbrace>>
        <3>1. PICK a \in Symbols, b \in Symbols, e \in TextOf(j - 2) : s = <<a>> \o e \o <<b>> /\ j - 2 \in Nat
            <4>1. j - 2 \in Int
                OBVIOUS
            <4> QED BY <1>1, <2>4, <4>1, SymbolsAre
        <3>2. <<a>> \o e \in TextOf(1 + (j - 2))
            BY <3>1, TextOfOne, TextOfTwo
        <3>3. <<a>> \o e \o <<b>> \in TextOf(1 + (j - 2) + 1)
            <4>1. 1 + (j - 2) \in Nat
                BY <3>1
            <4> QED BY <3>2, <4>1, TextOfOne, TextOfTwo
        <3>4. 1 + (j - 2) + 1 = j
            OBVIOUS
        <3> QED BY <3>1, <3>3, <3>4
    <2> QED BY <2>1, <2>2, <2>3, <2>4, Zenon DEF ValueFrom
<1>3. ASSUME NEW x, NEW k \in 1..j - 2, x \in TextOf(k), NEW e, e \in TextOf(j - 1 - k)
      PROVE  x \o <<Comma>> \o e \in TextOf(j)
    <2>1. k \in Nat /\ k + 1 \in Nat /\ j - 1 - k \in Nat /\ (k + 1) + (j - 1 - k) = j
        OBVIOUS
    <2>2. x \o <<Comma>> \in TextOf(k + 1)
        BY <1>3, <2>1, SymbolsAre, TextOfOne, TextOfTwo
    <2> QED BY <1>3, <2>1, <2>2, TextOfTwo
<1>4. ASSUME NEW k \in Int, NEW v \in Shorter(D, j, k - 2, "values")
      PROVE  <<Quoted, Colon>> \o v \in TextOf(k)
    <2>1. k - 2 \in Int /\ 2 + (k - 2) = k
        OBVIOUS
    <2>2. v \in TextOf(k - 2) /\ k - 2 \in Nat
        BY <1>1, <2>1
    <2>3. <<Quoted, Colon>> \in TextOf(2)
        BY SymbolsAre, TextOfPair
    <2> QED BY <2>1, <2>2, <2>3, TextOfTwo
<1>5. \A k \in 1..j - 2 : k \in Int /\ j - 1 - k \in Int
    OBVIOUS
<1>6. ASSUME NEW s \in D[j].elements PROVE s \in TextOf(j)
    <2>1. ASSUME NEW k \in 1..j - 2, NEW v \in Shorter(D, j, k, "values"), NEW e \in Shorter(D, j, j - 1 - k, "elements"),
                 s = v \o <<Comma>> \o e
          PROVE  s \in TextOf(j)
        <3>1. v \in TextOf(k) /\ e \in TextOf(j - 1 - k)
            BY <1>1, <1>5
        <3> QED BY <1>3, <2>1, <3>1
    <2>2. s \in D[j].values \/ ElementsBehind(D, j, s)
        BY DerivationsSatisfy
    <2> QED BY <1>2, <2>1, <2>2, Zenon DEF ElementsBehind
<1>7. ASSUME NEW s \in D[j].members PROVE s \in TextOf(j)
    <2>1. ASSUME NEW v \in Shorter(D, j, j - 2, "values"), s = <<Quoted, Colon>> \o v
          PROVE  s \in TextOf(j)
        BY <1>4, <2>1
    <2>2. ASSUME NEW k \in 1..j - 2, NEW v \in Shorter(D, j, k - 2, "values"), NEW e \in Shorter(D, j, j - 1 - k, "members"),
                 s = <<Quoted, Colon>> \o v \o <<Comma>> \o e
          PROVE  s \in TextOf(j)
        <3> DEFINE x == <<Quoted, Colon>> \o v
        <3>1. x \in TextOf(k) /\ e \in TextOf(j - 1 - k)
            BY <1>1, <1>4, <1>5
        <3> HIDE DEF x
        <3>2. x \o <<Comma>> \o e \in TextOf(j)
            BY <1>3, <3>1
        <3> QED BY <2>2, <3>2 DEF x
    <2>3. MembersFrom(D, j, s)
        BY DerivationsSatisfy
    <2> QED BY <2>1, <2>2, <2>3, Zenon DEF MembersFrom
<1> QED BY <1>2, <1>6, <1>7 DEF TypedAt

LEMMA TextLength ==
    ASSUME NEW n \in Nat, NEW m \in 1..n
    PROVE  TypedAt(Derivations(n), m)
PROOF
<1> DEFINE S == {q \in 0..n : \A k \in 1..q : TypedAt(Derivations(n), k)}
<1>1. 0 \in S
    OBVIOUS
<1>2. ASSUME NEW q \in 0..n - 1, q \in S PROVE q + 1 \in S
    <2>1. q + 1 \in 1..n /\ q + 1 - 1 = q /\ q + 1 \in 0..n /\ \A k \in 1..q + 1 : k \in 1..q \/ k = q + 1
        OBVIOUS
    <2>2. \A k \in 1..q + 1 - 1 : TypedAt(Derivations(n), k)
        BY <1>2, <2>1
    <2>3. TypedAt(Derivations(n), q + 1)
        BY <2>1, <2>2, TextLengthStep
    <2> QED BY <1>2, <2>1, <2>3
<1> HIDE DEF S
<1>3. 0..n \subseteq S
    BY <1>1, <1>2, Induction
<1>4. n \in S
    BY <1>3
<1> QED BY <1>4 DEF S

---------------------------------------------------------------------------

LEMMA PartOne ==
    ASSUME NEW s, NEW p \in Nat
    PROVE  Part(s, p, 1) = << s[p] >>
PROOF
<1>1. Part(s, p, 1) = [k \in 1..1 |-> s[p + k - 1]]
    BY DEF Part
<1>2. \A k \in 1..1 : p + k - 1 = p
    OBVIOUS
<1> QED BY <1>1, <1>2

LEMMA PartTwo ==
    ASSUME NEW s, NEW p \in Nat
    PROVE  Part(s, p, 2) = << s[p], s[p + 1] >>
PROOF
<1>1. Part(s, p, 2) = [k \in 1..2 |-> s[p + k - 1]]
    BY DEF Part
<1>2. \A k \in 1..2 : (k = 1 /\ p + k - 1 = p) \/ (k = 2 /\ p + k - 1 = p + 1)
    OBVIOUS
<1> QED BY <1>1, <1>2

LEMMA PartText ==
    ASSUME NEW s, NEW p \in Nat, NEW m \in Nat, NEW k \in Nat, NEW j \in Nat, NEW x \in TextOf(k), NEW y \in TextOf(j)
    PROVE  Part(s, p, m) = x \o y <=> m = k + j /\ Parted(s, p, k, x, j, y)
PROOF
<1>1. x \in Seq(Symbols) /\ y \in Seq(Symbols) /\ Len(x) = k /\ Len(y) = j
    BY DEF TextOf
<1>2. Part(s, p, m) = x \o y <=> m = Len(x) + Len(y) /\ Parted(s, p, Len(x), x, Len(y), y)
    BY <1>1, PartOfTwo
<1> QED BY <1>1, <1>2

\* A text between two brackets, a list, a member of an object.
Between(s, p, k, a, e, b) == s[p] = a /\ Part(s, p + 1, k) = e /\ s[p + k + 1] = b
Listed(s, p, k, x, j, e)  == Part(s, p, k) = x /\ s[p + k] = Comma /\ Part(s, p + k + 1, j) = e
Paired(s, p, k, v)        == s[p] = Quoted /\ s[p + 1] = Colon /\ Part(s, p + 2, k) = v

LEMMA PartBetween ==
    ASSUME NEW s, NEW p \in Nat, NEW m \in Nat, NEW k \in Nat, NEW e \in TextOf(k),
           NEW a \in Symbols, NEW b \in Symbols
    PROVE  Part(s, p, m) = <<a>> \o e \o <<b>> <=> m = k + 2 /\ Between(s, p, k, a, e, b)
PROOF
<1> DEFINE w == <<a>>
<1>0. w \in TextOf(1) /\ <<b>> \in TextOf(1)
    BY TextOfOne
<1>1. 1 \in Nat /\ 1 + k \in Nat /\ p + (1 + k) \in Nat
    OBVIOUS
<1> HIDE DEF w
<1>2. w \o e \in TextOf(1 + k)
    BY <1>0, <1>1, TextOfTwo
<1>3. Part(s, p, 1 + k) = w \o e <=> 1 + k = 1 + k /\ Parted(s, p, 1, w, k, e)
    BY <1>0, <1>1, PartText
<1> DEFINE x == w \o e
<1> HIDE DEF x
<1>4. Part(s, p, m) = x \o <<b>> <=> m = 1 + k + 1 /\ Parted(s, p, 1 + k, x, 1, <<b>>)
    BY <1>0, <1>1, <1>2, PartText DEF x
<1>5. Part(s, p + (1 + k), 1) = <<b>> <=> s[p + (1 + k)] = b
    BY <1>1, PartOne
<1>6. Part(s, p, 1) = w <=> s[p] = a
    BY PartOne DEF w
<1>7. p + (1 + k) = p + k + 1 /\ 1 + k + 1 = k + 2
    OBVIOUS
<1>8. Parted(s, p, 1 + k, x, 1, <<b>>) <=> Between(s, p, k, a, e, b)
    BY <1>3, <1>5, <1>6, <1>7 DEF Parted, Between, x
<1> QED BY <1>4, <1>7, <1>8 DEF w, x

LEMMA PartList ==
    ASSUME NEW s, NEW p \in Nat, NEW m \in Nat, NEW k \in Nat, NEW j \in Nat, NEW x \in TextOf(k), NEW e \in TextOf(j)
    PROVE  Part(s, p, m) = x \o <<Comma>> \o e <=> m = k + 1 + j /\ Listed(s, p, k, x, j, e)
PROOF
<1> DEFINE w == <<Comma>>
<1>0. w \in TextOf(1)
    BY SymbolsAre, TextOfOne
<1>1. 1 \in Nat /\ k + 1 \in Nat /\ p + k \in Nat
    OBVIOUS
<1> HIDE DEF w
<1>2. x \o w \in TextOf(k + 1)
    BY <1>0, <1>1, TextOfTwo
<1>3. Part(s, p, k + 1) = x \o w <=> k + 1 = k + 1 /\ Parted(s, p, k, x, 1, w)
    BY <1>0, <1>1, PartText
<1> DEFINE y == x \o w
<1> HIDE DEF y
<1>4. Part(s, p, m) = y \o e <=> m = k + 1 + j /\ Parted(s, p, k + 1, y, j, e)
    BY <1>1, <1>2, PartText DEF y
<1>5. Part(s, p + k, 1) = w <=> s[p + k] = Comma
    BY <1>1, PartOne DEF w
<1>6. p + (k + 1) = p + k + 1
    OBVIOUS
<1>7. Parted(s, p, k + 1, y, j, e) <=> Listed(s, p, k, x, j, e)
    BY <1>3, <1>5, <1>6 DEF Parted, Listed, y
<1> QED BY <1>4, <1>7 DEF w, y

LEMMA PartPair ==
    ASSUME NEW s, NEW p \in Nat, NEW m \in Nat, NEW k \in Nat, NEW v \in TextOf(k)
    PROVE  Part(s, p, m) = <<Quoted, Colon>> \o v <=> m = k + 2 /\ Paired(s, p, k, v)
PROOF
<1> DEFINE w == <<Quoted, Colon>>
<1>0. w \in TextOf(2)
    BY SymbolsAre, TextOfPair
<1>1. 2 \in Nat /\ 2 + k = k + 2
    OBVIOUS
<1>3. Part(s, p, 2) = w <=> s[p] = Quoted /\ s[p + 1] = Colon
    BY PartTwo
<1> HIDE DEF w
<1>2. Part(s, p, m) = w \o v <=> m = 2 + k /\ Parted(s, p, 2, w, k, v)
    BY <1>0, <1>1, PartText
<1>4. Parted(s, p, 2, w, k, v) <=> Paired(s, p, k, v)
    BY <1>3 DEF Parted, Paired
<1> QED BY <1>1, <1>2, <1>4 DEF w

---------------------------------------------------------------------------

\* The m characters of s from p on are a value, elements, members.
ValueAt(D, s, p, m)    == m >= 1 /\ Part(s, p, m) \in D[m].values
ElementsAt(D, s, p, m) == m >= 1 /\ Part(s, p, m) \in D[m].elements
MembersAt(D, s, p, m)  == m >= 1 /\ Part(s, p, m) \in D[m].members
PairAt(D, s, p, m)     == s[p] = Quoted /\ s[p + 1] = Colon /\ ValueAt(D, s, p + 2, m - 2)

\* The characters make up a value, by what stands at its two ends.
ValueForm(D, s, p, m) ==
    \/ m = 1 /\ s[p] \in {Quoted, Plain}
    \/ m = 2 /\ \/ s[p] = Opening /\ s[p + 1] = Closing
                \/ s[p] = Brace /\ s[p + 1] = Unbrace
    \/ s[p] = Opening /\ s[p + m - 1] = Closing /\ ElementsAt(D, s, p + 1, m - 2)
    \/ s[p] = Brace /\ s[p + m - 1] = Unbrace /\ MembersAt(D, s, p + 1, m - 2)

LEMMA ValueAtIs ==
    ASSUME NEW n \in Nat, NEW D, D = Derivations(n), NEW s, NEW p \in Nat, NEW m \in 1..n
    PROVE  ValueAt(D, s, p, m) <=> ValueForm(D, s, p, m)
PROOF
<1> DEFINE t == Part(s, p, m)
           j == m - 2
<1>1. ValueAt(D, s, p, m) <=> ValueFrom(D, m, t)
    BY DerivationsSatisfy DEF ValueAt
<1>2. m = 1 => (t \in {<<Quoted>>, <<Plain>>} <=> s[p] \in {Quoted, Plain})
    BY PartOne
<1>3. m = 2 => (t \in {<<Opening, Closing>>, <<Brace, Unbrace>>}
                  <=> \/ s[p] = Opening /\ s[p + 1] = Closing
                      \/ s[p] = Brace /\ s[p + 1] = Unbrace)
    <2> DEFINE x == s[p]
               y == s[p + 1]
    <2>1. m = 2 => t = <<x, y>>
        BY PartTwo
    <2> HIDE DEF t, x, y
    <2>2. m = 2 => (t \in {<<Opening, Closing>>, <<Brace, Unbrace>>}
                      <=> (x = Opening /\ y = Closing) \/ (x = Brace /\ y = Unbrace))
        BY <2>1
    <2> QED BY <2>2, Zenon DEF x, y
<1>4. /\ j >= 1 <=> m > 2
      /\ m > 2 => j \in Nat /\ j \in 1..m - 1 /\ j \in 1..n /\ m = j + 2 /\ p + j + 1 = p + m - 1
      /\ m \in Nat
    OBVIOUS
<1> HIDE DEF j, t
<1>5. m > 2 => /\ Shorter(D, m, j, "elements") = D[j].elements
               /\ Shorter(D, m, j, "members") = D[j].members
    BY <1>4 DEF Shorter
<1>6. m > 2 => TypedAt(D, j)
    BY <1>4, TextLength
<1>7. m > 2 => ((\E e \in D[j].elements : t = <<Opening>> \o e \o <<Closing>>)
                  <=> s[p] = Opening /\ s[p + m - 1] = Closing /\ ElementsAt(D, s, p + 1, j))
    <2> SUFFICES ASSUME m > 2 PROVE (\E e \in D[j].elements : t = <<Opening>> \o e \o <<Closing>>)
                  <=> s[p] = Opening /\ s[p + m - 1] = Closing /\ ElementsAt(D, s, p + 1, j)
        OBVIOUS
    <2>1. ASSUME NEW e \in D[j].elements
          PROVE  t = <<Opening>> \o e \o <<Closing>>
                   <=> s[p] = Opening /\ s[p + m - 1] = Closing /\ Part(s, p + 1, j) = e
        <3>1. e \in TextOf(j)
            BY <1>6 DEF TypedAt
        <3>2. t = <<Opening>> \o e \o <<Closing>> <=> m = j + 2 /\ Between(s, p, j, Opening, e, Closing)
            BY <1>4, <3>1, PartBetween, SymbolsAre DEF t
        <3> QED BY <1>4, <3>2 DEF Between
    <2> QED BY <1>4, <2>1 DEF ElementsAt
<1>8. m > 2 => ((\E e \in D[j].members : t = <<Brace>> \o e \o <<Unbrace>>)
                  <=> s[p] = Brace /\ s[p + m - 1] = Unbrace /\ MembersAt(D, s, p + 1, j))
    <2> SUFFICES ASSUME m > 2 PROVE (\E e \in D[j].members : t = <<Brace>> \o e \o <<Unbrace>>)
                  <=> s[p] = Brace /\ s[p + m - 1] = Unbrace /\ MembersAt(D, s, p + 1, j)
        OBVIOUS
    <2>1. ASSUME NEW e \in D[j].members
          PROVE  t = <<Brace>> \o e \o <<Unbrace>>
                   <=> s[p] = Brace /\ s[p + m - 1] = Unbrace /\ Part(s, p + 1, j) = e
        <3>1. e \in TextOf(j)
            BY <1>6 DEF TypedAt
        <3>2. t = <<Brace>> \o e \o <<Unbrace>> <=> m = j + 2 /\ Between(s, p, j, Brace, e, Unbrace)
            BY <1>4, <3>1, PartBetween, SymbolsAre DEF t
        <3> QED BY <1>4, <3>2 DEF Between
    <2> QED BY <1>4, <2>1 DEF MembersAt
<1>9. ElementsAt(D, s, p + 1, j) \/ MembersAt(D, s, p + 1, j) => m > 2
    BY <1>4 DEF ElementsAt, MembersAt
<1>10. ValueFrom(D, m, t) <=>
    \/ m = 1 /\ t \in {<<Quoted>>, <<Plain>>}
    \/ m = 2 /\ t \in {<<Opening, Closing>>, <<Brace, Unbrace>>}
    \/ m > 2 /\ \E e \in D[j].elements : t = <<Opening>> \o e \o <<Closing>>
    \/ m > 2 /\ \E e \in D[j].members : t = <<Brace>> \o e \o <<Unbrace>>
    BY <1>5, Zenon DEF ValueFrom, j
<1> QED BY <1>1, <1>2, <1>3, <1>7, <1>8, <1>9, <1>10, Zenon DEF ValueForm, j

LEMMA ElementsAtIs ==
    ASSUME NEW n \in Nat, NEW D, D = Derivations(n), NEW s, NEW p \in Nat, NEW m \in 1..n
    PROVE  ElementsAt(D, s, p, m) <=>
              \/ ValueAt(D, s, p, m)
              \/ \E k \in 1..m - 2 : /\ ValueAt(D, s, p, k) /\ s[p + k] = Comma
                                     /\ ElementsAt(D, s, p + k + 1, m - 1 - k)
PROOF
<1> DEFINE t == Part(s, p, m)
           List(k) == ValueAt(D, s, p, k) /\ s[p + k] = Comma /\ ElementsAt(D, s, p + k + 1, m - 1 - k)
<1>1. ElementsAt(D, s, p, m) <=> ValueAt(D, s, p, m) \/ ElementsBehind(D, m, t)
    BY DerivationsSatisfy DEF ElementsAt, ValueAt
<1>2. ASSUME NEW k \in 1..m - 2
      PROVE  (\E v \in Shorter(D, m, k, "values") : \E e \in Shorter(D, m, m - 1 - k, "elements") :
                 t = v \o <<Comma>> \o e) <=> List(k)
    <2> DEFINE j == m - 1 - k
    <2>1. /\ k \in Nat /\ j \in Nat /\ k \in 1..m - 1 /\ j \in 1..m - 1 /\ k \in 1..n /\ j \in 1..n
          /\ m = k + 1 + j /\ k >= 1 /\ j >= 1 /\ m \in Nat
        OBVIOUS
    <2> HIDE DEF j, t, List
    <2>2. Shorter(D, m, k, "values") = D[k].values /\ Shorter(D, m, j, "elements") = D[j].elements
        BY <2>1 DEF Shorter
    <2>3. ASSUME NEW v \in D[k].values, NEW e \in D[j].elements
          PROVE  t = v \o <<Comma>> \o e
                   <=> Part(s, p, k) = v /\ s[p + k] = Comma /\ Part(s, p + k + 1, j) = e
        <3>1. v \in TextOf(k) /\ e \in TextOf(j)
            BY <2>1, TextLength DEF TypedAt
        <3>2. Part(s, p, m) = v \o <<Comma>> \o e <=> m = k + 1 + j /\ Listed(s, p, k, v, j, e)
            <4>1. k \in Nat /\ j \in Nat /\ m \in Nat
                BY <2>1
            <4> QED BY <3>1, <4>1, PartList
        <3> QED BY <2>1, <3>2 DEF Listed, t
    <2>4. List(k) <=> /\ Part(s, p, k) \in D[k].values /\ s[p + k] = Comma
                      /\ Part(s, p + k + 1, j) \in D[j].elements
        BY <2>1 DEF List, ValueAt, ElementsAt, j
    <2>5. (\E v \in D[k].values : \E e \in D[j].elements : t = v \o <<Comma>> \o e) <=> List(k)
        BY <2>3, <2>4
    <2> QED BY <2>2, <2>5 DEF j
<1> HIDE DEF t, List
<1>3. ElementsBehind(D, m, t) <=> \E k \in 1..m - 2 : List(k)
    BY <1>2, Zenon DEF ElementsBehind
<1> QED BY <1>1, <1>3 DEF List

LEMMA MembersAtIs ==
    ASSUME NEW n \in Nat, NEW D, D = Derivations(n), NEW s, NEW p \in Nat, NEW m \in 1..n
    PROVE  MembersAt(D, s, p, m) <=>
              \/ PairAt(D, s, p, m)
              \/ \E k \in 1..m - 2 : /\ PairAt(D, s, p, k) /\ s[p + k] = Comma
                                     /\ MembersAt(D, s, p + k + 1, m - 1 - k)
PROOF
<1> DEFINE t == Part(s, p, m)
           List(k) == PairAt(D, s, p, k) /\ s[p + k] = Comma /\ MembersAt(D, s, p + k + 1, m - 1 - k)
           pair(v) == <<Quoted, Colon>> \o v
<1>1. MembersAt(D, s, p, m) <=> MembersFrom(D, m, t)
    BY DerivationsSatisfy DEF MembersAt
<1>2. ASSUME NEW k \in 1..m, NEW v \in Shorter(D, m, k - 2, "values")
      PROVE  /\ pair(v) \in TextOf(k)
             /\ Part(s, p, k) = pair(v) <=> s[p] = Quoted /\ s[p + 1] = Colon /\ Part(s, p + 2, k - 2) = v
    <2> DEFINE j == k - 2
    <2>1. j \in 1..m - 1 /\ v \in D[j].values
        BY DEF Shorter
    <2>2. j \in Nat /\ k = j + 2 /\ k = 2 + j /\ j \in 1..n /\ k \in Nat
        BY <2>1
    <2> HIDE DEF j
    <2>3. v \in TextOf(j)
        BY <2>1, <2>2, TextLength DEF TypedAt
    <2>4. pair(v) \in TextOf(k)
        <3>1. <<Quoted, Colon>> \in TextOf(2)
            BY SymbolsAre, TextOfPair
        <3> QED BY <2>2, <2>3, <3>1, TextOfTwo
    <2>5. Part(s, p, k) = pair(v) <=> s[p] = Quoted /\ s[p + 1] = Colon /\ Part(s, p + 2, j) = v
        <3>1. Part(s, p, k) = pair(v) <=> k = j + 2 /\ Paired(s, p, j, v)
            BY <2>2, <2>3, PartPair
        <3> QED BY <2>2, <3>1 DEF Paired
    <2> QED BY <2>4, <2>5 DEF j
<1>3. ASSUME NEW k \in 1..m
      PROVE  PairAt(D, s, p, k) <=> \E v \in Shorter(D, m, k - 2, "values") : Part(s, p, k) = pair(v)
    <2>1. k - 2 >= 1 <=> k - 2 \in 1..m - 1
        OBVIOUS
    <2>2. Shorter(D, m, k - 2, "values") = IF k - 2 >= 1 THEN D[k - 2].values ELSE {}
        BY <2>1 DEF Shorter
    <2>3. PairAt(D, s, p, k) <=> /\ s[p] = Quoted /\ s[p + 1] = Colon
                                 /\ Part(s, p + 2, k - 2) \in Shorter(D, m, k - 2, "values")
        BY <2>2 DEF PairAt, ValueAt
    <2> HIDE DEF pair
    <2> QED BY <1>2, <2>3
<1>4. ASSUME NEW k \in 1..m - 2
      PROVE  (\E v \in Shorter(D, m, k - 2, "values") : \E e \in Shorter(D, m, m - 1 - k, "members") :
                 t = pair(v) \o <<Comma>> \o e) <=> List(k)
    <2> DEFINE j == m - 1 - k
    <2>1. /\ k \in Nat /\ j \in Nat /\ k \in 1..m /\ j \in 1..m - 1 /\ j \in 1..n
          /\ m = k + 1 + j /\ j >= 1 /\ m \in Nat
        OBVIOUS
    <2> HIDE DEF j, t, List, pair
    <2>2. Shorter(D, m, j, "members") = D[j].members
        BY <2>1 DEF Shorter
    <2>3. ASSUME NEW v \in Shorter(D, m, k - 2, "values"), NEW e \in D[j].members
          PROVE  t = pair(v) \o <<Comma>> \o e
                   <=> Part(s, p, k) = pair(v) /\ s[p + k] = Comma /\ Part(s, p + k + 1, j) = e
        <3>1. pair(v) \in TextOf(k) /\ e \in TextOf(j)
            BY <1>2, <2>1, TextLength DEF TypedAt
        <3>2. Part(s, p, m) = pair(v) \o <<Comma>> \o e <=> m = k + 1 + j /\ Listed(s, p, k, pair(v), j, e)
            <4>1. k \in Nat /\ j \in Nat /\ m \in Nat
                BY <2>1
            <4> QED BY <3>1, <4>1, PartList
        <3> QED BY <2>1, <3>2 DEF Listed, t
    <2>4. List(k) <=> /\ PairAt(D, s, p, k) /\ s[p + k] = Comma
                      /\ Part(s, p + k + 1, j) \in D[j].members
        BY <2>1 DEF List, MembersAt, j
    <2>5. PairAt(D, s, p, k) <=> \E v \in Shorter(D, m, k - 2, "values") : Part(s, p, k) = pair(v)
        BY <1>3, <2>1
    <2>6. (\E v \in Shorter(D, m, k - 2, "values") : \E e \in D[j].members : t = pair(v) \o <<Comma>> \o e) <=> List(k)
        BY <2>3, <2>4, <2>5
    <2> QED BY <2>2, <2>6 DEF j
<1>5. (\E v \in Shorter(D, m, m - 2, "values") : t = pair(v)) <=> PairAt(D, s, p, m)
    <2>1. m \in 1..m
        OBVIOUS
    <2> HIDE DEF pair
    <2> QED BY <1>3, <2>1
<1> HIDE DEF t, List
<1>6. MembersFrom(D, m, t) <=> PairAt(D, s, p, m) \/ \E k \in 1..m - 2 : List(k)
    BY <1>4, <1>5, Zenon DEF MembersFrom
<1> QED BY <1>1, <1>6 DEF List

---------------------------------------------------------------------------
(* From the grammar to the places.                                         *)

CutAtom == "cutatom"

LEMMA ViewOfChar ==
    ASSUME NEW d \in Seq(Char), NEW k \in 1..Len(d)
    PROVE  /\ GrammarView(d)[k] = Quoted => d[k] \in Quotes
           /\ GrammarView(d)[k] = Plain => d[k] \in Numbers \union Atoms
           /\ d[k] \in Quotes => GrammarView(d)[k] = Quoted
           /\ d[k] \in Numbers \union Atoms => GrammarView(d)[k] = Plain
           /\ \A c \in {Opening, Closing, Brace, Unbrace, Comma, Colon} :
                 GrammarView(d)[k] = c <=> d[k] = c
PROOF
<1> DEFINE c == d[k]
<1>1. c \in Char /\ k \in DOMAIN d
    OBVIOUS
<1>2. GrammarView(d)[k] = CASE c \in Quotes -> Quoted
                            [] c \in Numbers \union Atoms -> Plain
                            [] OTHER -> c
    BY <1>1, Zenon DEF GrammarView, Quoted, Plain
<1>3. ~(c \in Quotes /\ c \in Numbers \union Atoms) /\ Quoted # Plain /\ c # Plain
      /\ (c = Quoted => c \in Quotes)
    BY <1>1, Zenon DEF Quotes, Strings, Numbers, Numerals, Atoms, Quoted, Plain, Char, Openers, Closers, BadAtoms
<1>4. \A b \in {Opening, Closing, Brace, Unbrace, Comma, Colon} :
         b \notin Quotes /\ b \notin Numbers \union Atoms /\ b # Quoted /\ b # Plain
    BY Zenon DEF Quotes, Strings, Numbers, Numerals, Atoms, Opening, Closing, Brace, Unbrace, Comma, Colon, Quoted, Plain
<1> HIDE DEF c
<1> QED BY <1>2, <1>3, <1>4, Zenon DEF c

LEMMA Classes ==
    /\ Openers = {Brace, Opening} /\ Closers = {Unbrace, Closing} /\ Brace # Opening
    /\ CloserFor(Brace) = Unbrace /\ CloserFor(Opening) = Closing
    /\ Quotes \subseteq ScalarChars /\ Numbers \union Atoms \subseteq ScalarChars
    /\ ScalarChars = Quotes \union Numbers \union Atoms \union {CutAtom}
    /\ CutAtom \notin Quotes \union Numbers \union Atoms \union {Opening, Closing, Brace, Unbrace, Comma, Colon}
PROOF
<1>1. Openers = {Brace, Opening} /\ Closers = {Unbrace, Closing} /\ Brace # Opening
    BY Zenon DEF Openers, Closers, Brace, Opening, Unbrace, Closing
<1>2. CloserFor(Brace) = Unbrace /\ CloserFor(Opening) = Closing
    BY Zenon DEF CloserFor, Brace, Opening, Unbrace, Closing
<1>3. ScalarChars = Quotes \union Numbers \union Atoms \union {CutAtom}
    BY DEF ScalarChars, CutAtom
<1>4. CutAtom \notin Quotes \union Numbers \union Atoms \union {Opening, Closing, Brace, Unbrace, Comma, Colon}
    BY Zenon DEF CutAtom, Quotes, Strings, Numbers, Numerals, Atoms, Opening, Closing, Brace, Unbrace, Comma, Colon
<1> QED BY <1>1, <1>2, <1>3, <1>4

\* Characters that are where they are expected.
LEMMA StaysIs ==
    ASSUME NEW d \in Seq(Char), NEW k \in 1..Len(d)
    PROVE  /\ Want(d, k) \in Beginning /\ d[k] \in ScalarChars =>
                 Stays(d, k) /\ Want(d, k + 1) = "Behind" /\ Inside(d, k + 1) = Inside(d, k)
           /\ Want(d, k) \in {"FirstKey", "Key"} /\ d[k] \in Quotes =>
                 Stays(d, k) /\ Want(d, k + 1) = "Colon" /\ Inside(d, k + 1) = Inside(d, k)
           /\ Want(d, k) = "Colon" /\ d[k] = Colon =>
                 Stays(d, k) /\ Want(d, k + 1) = "Value" /\ Inside(d, k + 1) = Inside(d, k)
PROOF
<1>1. Stays(d, k) => Inside(d, k + 1) = Inside(d, k)
    BY DEF Stays
<1>2. Stays(d, k) /\ Want(d, k) \in Beginning => Want(d, k + 1) = "Behind" /\ d[k] \in ScalarChars
    BY Zenon DEF Stays, Beginning
<1>3. Stays(d, k) /\ Want(d, k) \in {"FirstKey", "Key"} => Want(d, k + 1) = "Colon"
    BY Zenon DEF Stays, Beginning
<1>4. Stays(d, k) /\ Want(d, k) = "Colon" => Want(d, k + 1) = "Value"
    BY Zenon DEF Stays, Beginning
<1>5. /\ Want(d, k) \in Beginning /\ d[k] \in ScalarChars => Stays(d, k)
      /\ Want(d, k) \in {"FirstKey", "Key"} /\ d[k] \in Quotes => Stays(d, k)
      /\ Want(d, k) = "Colon" /\ d[k] = Colon => Stays(d, k)
    BY Moves DEF Colon
<1> QED BY <1>1, <1>2, <1>3, <1>4, <1>5

\* The m characters from p on are all where they are expected, and what comes
\* behind them is behind what they make up.
Sure(d, p, m) ==
    /\ \A r \in p..p + m - 1 : Want(d, r + 1) # "Stray" /\ d[r] # CutAtom
    /\ Want(d, p + m) = "Behind" /\ Inside(d, p + m) = Inside(d, p)

LEMMA ScalarSure ==
    ASSUME NEW d \in Seq(Char), NEW p \in 1..Len(d), Want(d, p) \in Beginning,
           GrammarView(d)[p] \in {Quoted, Plain}
    PROVE  Sure(d, p, 1)
PROOF
<1>1. d[p] \in Quotes \union Numbers \union Atoms
    BY ViewOfChar
<1>2. d[p] \in ScalarChars /\ d[p] # CutAtom
    BY <1>1, Classes
<1>3. Want(d, p + 1) = "Behind" /\ Inside(d, p + 1) = Inside(d, p)
    BY <1>2, StaysIs
<1>4. \A r \in p..p + 1 - 1 : r = p
    OBVIOUS
<1> QED BY <1>2, <1>3, <1>4 DEF Sure

LEMMA ContainerSure ==
    ASSUME NEW d \in Seq(Char), NEW p \in 1..Len(d), NEW m \in Nat, m >= 2, p + m - 1 <= Len(d),
           d[p] \in Openers, Want(d, p) \in Beginning, d[p + m - 1] = CloserFor(d[p]),
           m > 2 => Sure(d, p + 1, m - 2)
    PROVE  Sure(d, p, m)
PROOF
<1> DEFINE e == p + m - 1
<1>1. /\ e \in 1..Len(d) /\ p \in 1..e - 1 /\ e + 1 = p + m /\ p + 1 + (m - 2) = e /\ (m = 2 => e = p + 1)
      /\ \A r \in p..p + m - 1 : r = p \/ r = e \/ (m > 2 /\ r \in p + 1..p + 1 + (m - 2) - 1)
    OBVIOUS
<1>2. Enters(d, p)
    BY Moves
<1>3. Want(d, p + 1) \in First /\ Inside(d, p + 1) = p
    BY <1>2 DEF Enters, First
<1> HIDE DEF e
<1>4. Want(d, e) \in First \union {"Behind"} /\ Inside(d, e) = p
    <2>1. CASE m = 2
        BY <1>1, <1>3, <2>1
    <2>2. CASE m > 2
        BY <1>1, <1>3, <2>2 DEF Sure
    <2> QED BY <2>1, <2>2
<1>5. Leaves(d, e)
    <2>1. d[e] = CloserFor(d[Inside(d, e)])
        BY <1>4 DEF e
    <2> QED BY <1>1, <1>4, <2>1, Moves
<1>6. Want(d, e + 1) = "Behind" /\ Inside(d, e + 1) = Inside(d, p)
    BY <1>4, <1>5 DEF Leaves
<1>7. d[p] # CutAtom /\ d[e] # CutAtom
    <2>1. d[e] \in Closers
        BY <1>5 DEF Leaves
    <2> QED BY <2>1, Classes
<1>8. ASSUME NEW r \in p..p + m - 1 PROVE Want(d, r + 1) # "Stray" /\ d[r] # CutAtom
    <2>1. CASE r = p
        BY <1>3, <1>7, <2>1 DEF First
    <2>2. CASE r = e
        BY <1>6, <1>7, <2>2
    <2>3. CASE m > 2 /\ r \in p + 1..p + 1 + (m - 2) - 1
        BY <2>3 DEF Sure
    <2> QED BY <1>1, <2>1, <2>2, <2>3
<1> QED BY <1>1, <1>6, <1>8 DEF Sure

\* Behind an element, a comma and the rest of the list.
LEMMA CommaSure ==
    ASSUME NEW d \in Seq(Char), NEW p \in 1..Len(d), NEW k \in Nat, p + k <= Len(d), k >= 1,
           Sure(d, p, k), d[p + k] = Comma, Inside(d, p) \in 1..p - 1
    PROVE  /\ Want(d, p + k + 1) = IF d[Inside(d, p)] = Brace THEN "Key" ELSE "Value"
           /\ Inside(d, p + k + 1) = Inside(d, p)
PROOF
<1> DEFINE q == p + k
<1>1. q \in 1..Len(d) /\ \A c \in 1..p - 1 : c \in 1..q - 1
    OBVIOUS
<1>2. Want(d, q) = "Behind" /\ Inside(d, q) = Inside(d, p)
    BY DEF Sure
<1>3. d[q] = Comma
    OBVIOUS
<1> HIDE DEF q
<1>4. Advances(d, q)
    BY <1>1, <1>2, <1>3, Moves
<1> QED BY <1>2, <1>4 DEF Advances, q

LEMMA ListSure ==
    ASSUME NEW d \in Seq(Char), NEW p \in 1..Len(d), NEW k \in Nat, NEW j \in Nat, p + k + j <= Len(d), k >= 1, j >= 1,
           Sure(d, p, k), d[p + k] = Comma, Inside(d, p) \in 1..p - 1, Sure(d, p + k + 1, j)
    PROVE  Sure(d, p, k + 1 + j)
PROOF
<1>1. Inside(d, p + k + 1) = Inside(d, p) /\ Want(d, p + k + 1) # "Stray"
    BY CommaSure
<1>2. p + (k + 1 + j) = p + k + 1 + j
    OBVIOUS
<1>3. ASSUME NEW r \in p..p + (k + 1 + j) - 1 PROVE Want(d, r + 1) # "Stray" /\ d[r] # CutAtom
    <2>1. r \in p..p + k - 1 \/ r = p + k \/ r \in p + k + 1..p + k + 1 + j - 1
        OBVIOUS
    <2>2. Comma # CutAtom
        BY Classes
    <2> QED BY <1>1, <2>1, <2>2 DEF Sure
<1>4. Want(d, p + k + 1 + j) = "Behind" /\ Inside(d, p + k + 1 + j) = Inside(d, p)
    BY <1>1 DEF Sure
<1> QED BY <1>2, <1>3, <1>4 DEF Sure

LEMMA PairSure ==
    ASSUME NEW d \in Seq(Char), NEW p \in 1..Len(d), NEW m \in Nat, m >= 3, p + m - 1 <= Len(d),
           Want(d, p) \in {"FirstKey", "Key"}, GrammarView(d)[p] = Quoted, GrammarView(d)[p + 1] = Colon
    PROVE  /\ Want(d, p + 2) = "Value" /\ Inside(d, p + 2) = Inside(d, p)
           /\ Sure(d, p + 2, m - 2) => Sure(d, p, m)
PROOF
<1> DEFINE q == p + 1
<1>1. q \in 1..Len(d) /\ q + 1 = p + 2 /\ p + 2 + (m - 2) = p + m
      /\ \A r \in p..p + m - 1 : r = p \/ r = q \/ r \in p + 2..p + 2 + (m - 2) - 1
    OBVIOUS
<1>2. d[p] \in Quotes
    BY ViewOfChar
<1>3. d[q] = Colon
    BY <1>1, ViewOfChar
<1>4. Want(d, q) = "Colon" /\ Inside(d, q) = Inside(d, p)
    BY <1>2, StaysIs
<1> HIDE DEF q
<1>5. Want(d, q + 1) = "Value" /\ Inside(d, q + 1) = Inside(d, q)
    BY <1>1, <1>3, <1>4, StaysIs
<1>6. d[p] # CutAtom /\ d[q] # CutAtom
    BY <1>2, <1>3, Classes
<1>7. ASSUME Sure(d, p + 2, m - 2) PROVE Sure(d, p, m)
    <2>1. ASSUME NEW r \in p..p + m - 1 PROVE Want(d, r + 1) # "Stray" /\ d[r] # CutAtom
        <3>1. CASE r = p
            BY <1>4, <1>6, <3>1 DEF q
        <3>2. CASE r = q
            BY <1>5, <1>6, <3>2
        <3>3. CASE r \in p + 2..p + 2 + (m - 2) - 1
            BY <1>7, <3>3 DEF Sure
        <3> QED BY <1>1, <3>1, <3>2, <3>3
    <2>2. Want(d, p + m) = "Behind" /\ Inside(d, p + m) = Inside(d, p)
        BY <1>1, <1>4, <1>5, <1>7 DEF Sure
    <2> QED BY <2>1, <2>2 DEF Sure
<1> QED BY <1>1, <1>4, <1>5, <1>7

\* The texts of m characters that begin where they are expected are sure.
ValuesSure(d, D, m) ==
    \A p \in 1..Len(d) :
        p + m - 1 <= Len(d) /\ Want(d, p) \in Beginning /\ ValueAt(D, GrammarView(d), p, m)
            => Sure(d, p, m)

ElementsSure(d, D, m) ==
    \A p \in 1..Len(d) :
        /\ p + m - 1 <= Len(d) /\ Want(d, p) \in Beginning
        /\ Inside(d, p) \in 1..p - 1 /\ d[Inside(d, p)] # Brace
        /\ ElementsAt(D, GrammarView(d), p, m)
        => Sure(d, p, m)

MembersSure(d, D, m) ==
    \A p \in 1..Len(d) :
        /\ p + m - 1 <= Len(d) /\ Want(d, p) \in {"FirstKey", "Key"}
        /\ Inside(d, p) \in 1..p - 1 /\ d[Inside(d, p)] = Brace
        /\ MembersAt(D, GrammarView(d), p, m)
        => Sure(d, p, m)

TextsSure(d, D, m) == ValuesSure(d, D, m) /\ ElementsSure(d, D, m) /\ MembersSure(d, D, m)

LEMMA ValuesSureStep ==
    ASSUME NEW d \in Seq(Char), NEW n \in Nat, NEW D, D = Derivations(n), NEW m \in 1..n,
           \A k \in 1..m - 1 : TextsSure(d, D, k)
    PROVE  ValuesSure(d, D, m)
PROOF
<1> DEFINE v == GrammarView(d)
<1> SUFFICES ASSUME NEW p \in 1..Len(d), p + m - 1 <= Len(d), Want(d, p) \in Beginning, ValueAt(D, v, p, m)
             PROVE  Sure(d, p, m)
    BY DEF ValuesSure
<1> DEFINE e == p + m - 1
<1>1. p \in Nat /\ m \in Nat /\ e \in 1..Len(d)
    OBVIOUS
<1>2. \/ m = 1 /\ v[p] \in {Quoted, Plain}
      \/ m = 2 /\ \/ v[p] = Opening /\ v[p + 1] = Closing
                  \/ v[p] = Brace /\ v[p + 1] = Unbrace
      \/ v[p] = Opening /\ v[p + m - 1] = Closing /\ ElementsAt(D, v, p + 1, m - 2)
      \/ v[p] = Brace /\ v[p + m - 1] = Unbrace /\ MembersAt(D, v, p + 1, m - 2)
    <2> HIDE DEF v, e
    <2>1. ValueForm(D, v, p, m)
        BY <1>1, ValueAtIs
    <2> QED BY <2>1, Zenon DEF ValueForm
<1> HIDE DEF v
<1>3. CASE m = 1 /\ v[p] \in {Quoted, Plain}
    BY <1>3, ScalarSure DEF v
<1> DEFINE Bracketed == \/ v[p] = Opening /\ v[e] = Closing
                        \/ v[p] = Brace /\ v[e] = Unbrace
<1>4. CASE m >= 2 /\ Bracketed /\ (m > 2 => Sure(d, p + 1, m - 2))
    <2>1. d[p] \in Openers /\ d[e] = CloserFor(d[p])
        <3>1. /\ v[p] = Opening => d[p] = Opening
              /\ v[p] = Brace => d[p] = Brace
              /\ v[e] = Closing => d[e] = Closing
              /\ v[e] = Unbrace => d[e] = Unbrace
            BY <1>1, ViewOfChar DEF v
        <3> HIDE DEF e
        <3> QED BY <1>4, <3>1, Classes
    <2> QED BY <1>1, <1>4, <2>1, ContainerSure
<1>5. ASSUME v[p] \in {Opening, Brace}, m > 2
      PROVE  /\ p + 1 \in 1..Len(d) /\ p + 1 + (m - 2) - 1 <= Len(d) /\ m - 2 \in 1..m - 1
             /\ Want(d, p + 1) = IF d[p] = Brace THEN "FirstKey" ELSE "FirstElement"
             /\ Inside(d, p + 1) = p /\ p \in 1..p + 1 - 1
             /\ v[p] = d[p]
    <2>1. v[p] = Opening => d[p] = Opening
        BY ViewOfChar DEF v
    <2>2. v[p] = Brace => d[p] = Brace
        BY ViewOfChar DEF v
    <2>3. d[p] \in Openers /\ v[p] = d[p]
        BY <1>5, <2>1, <2>2, Classes
    <2>4. Enters(d, p)
        BY <2>3, Moves
    <2> QED BY <1>5, <2>3, <2>4 DEF Enters
<1>6. CASE v[p] = Opening /\ v[p + m - 1] = Closing /\ ElementsAt(D, v, p + 1, m - 2)
    <2>1. m > 2
        BY <1>6 DEF ElementsAt
    <2>2. Want(d, p + 1) = "FirstElement" /\ d[p] # Brace
        BY <1>5, <1>6, <2>1, Classes
    <2>3. ElementsSure(d, D, m - 2)
        BY <1>5, <1>6, <2>1 DEF TextsSure
    <2>4. Sure(d, p + 1, m - 2)
        BY <1>5, <1>6, <2>1, <2>2, <2>3 DEF ElementsSure, Beginning, v
    <2> QED BY <1>4, <1>6, <2>1, <2>4
<1>7. CASE v[p] = Brace /\ v[p + m - 1] = Unbrace /\ MembersAt(D, v, p + 1, m - 2)
    <2>1. m > 2
        BY <1>7 DEF MembersAt
    <2>2. Want(d, p + 1) = "FirstKey" /\ d[p] = Brace
        BY <1>5, <1>7, <2>1, Classes
    <2>3. MembersSure(d, D, m - 2)
        BY <1>5, <1>7, <2>1 DEF TextsSure
    <2>4. Sure(d, p + 1, m - 2)
        BY <1>5, <1>7, <2>1, <2>2, <2>3 DEF MembersSure, v
    <2> QED BY <1>4, <1>7, <2>1, <2>4
<1>8. CASE m = 2 /\ \/ v[p] = Opening /\ v[p + 1] = Closing
                    \/ v[p] = Brace /\ v[p + 1] = Unbrace
    <2>1. e = p + 1 /\ m >= 2 /\ ~(m > 2)
        BY <1>8
    <2> HIDE DEF e
    <2>2. Bracketed
        BY <1>8, <2>1
    <2> QED BY <1>4, <2>1, <2>2
<1> QED BY <1>2, <1>3, <1>6, <1>7, <1>8

LEMMA ElementsSureStep ==
    ASSUME NEW d \in Seq(Char), NEW n \in Nat, NEW D, D = Derivations(n), NEW m \in 1..n,
           \A k \in 1..m - 1 : TextsSure(d, D, k), ValuesSure(d, D, m)
    PROVE  ElementsSure(d, D, m)
PROOF
<1> DEFINE v == GrammarView(d)
<1> SUFFICES ASSUME NEW p \in 1..Len(d), p + m - 1 <= Len(d), Want(d, p) \in Beginning,
                    Inside(d, p) \in 1..p - 1, d[Inside(d, p)] # Brace, ElementsAt(D, v, p, m)
             PROVE  Sure(d, p, m)
    BY DEF ElementsSure
<1>1. \/ ValueAt(D, v, p, m)
      \/ \E k \in 1..m - 2 : /\ ValueAt(D, v, p, k) /\ v[p + k] = Comma
                             /\ ElementsAt(D, v, p + k + 1, m - 1 - k)
    <2>1. p \in Nat
        OBVIOUS
    <2> QED BY <2>1, ElementsAtIs
<1> HIDE DEF v
<1>2. CASE ValueAt(D, v, p, m)
    BY <1>2 DEF ValuesSure, v
<1>3. ASSUME NEW k \in 1..m - 2, ValueAt(D, v, p, k), v[p + k] = Comma, ElementsAt(D, v, p + k + 1, m - 1 - k)
      PROVE  Sure(d, p, m)
    <2> DEFINE j == m - 1 - k
               q == p + k + 1
    <2>1. /\ k \in Nat /\ j \in Nat /\ k >= 1 /\ j >= 1 /\ k \in 1..m - 1 /\ j \in 1..m - 1
          /\ p + k + j <= Len(d) /\ p + k <= Len(d) /\ p + k \in 1..Len(d) /\ p + k - 1 <= Len(d)
          /\ q \in 1..Len(d) /\ q + j - 1 <= Len(d) /\ k + 1 + j = m
          /\ \A c \in 1..p - 1 : c \in 1..q - 1
        BY <1>3
    <2>2. d[p + k] = Comma
        BY <1>3, <2>1, ViewOfChar DEF v
    <2>3. Sure(d, p, k)
        BY <1>3, <2>1 DEF TextsSure, ValuesSure, v
    <2>4. Want(d, q) = "Value" /\ Inside(d, q) = Inside(d, p)
        BY <2>1, <2>2, <2>3, CommaSure
    <2>5. ElementsAt(D, v, q, j)
        BY <1>3
    <2> HIDE DEF q, j
    <2>6. Sure(d, q, j)
        <3>1. ElementsSure(d, D, j)
            BY <2>1 DEF TextsSure
        <3> QED BY <2>1, <2>4, <2>5, <3>1 DEF ElementsSure, Beginning, v
    <2>7. Sure(d, p, k + 1 + j)
        BY <2>1, <2>2, <2>3, <2>6, ListSure DEF q
    <2> QED BY <2>1, <2>7
<1> QED BY <1>1, <1>2, <1>3

LEMMA MembersSureStep ==
    ASSUME NEW d \in Seq(Char), NEW n \in Nat, NEW D, D = Derivations(n), NEW m \in 1..n,
           \A k \in 1..m - 1 : TextsSure(d, D, k)
    PROVE  MembersSure(d, D, m)
PROOF
<1> DEFINE v == GrammarView(d)
<1> SUFFICES ASSUME NEW p \in 1..Len(d), p + m - 1 <= Len(d), Want(d, p) \in {"FirstKey", "Key"},
                    Inside(d, p) \in 1..p - 1, d[Inside(d, p)] = Brace, MembersAt(D, v, p, m)
             PROVE  Sure(d, p, m)
    BY DEF MembersSure
<1>1. \/ PairAt(D, v, p, m)
      \/ \E k \in 1..m - 2 : /\ PairAt(D, v, p, k) /\ v[p + k] = Comma
                             /\ MembersAt(D, v, p + k + 1, m - 1 - k)
    <2>1. p \in Nat
        OBVIOUS
    <2> QED BY <2>1, MembersAtIs
<1> HIDE DEF v
<1>2. ASSUME NEW k \in 1..m, PairAt(D, v, p, k) PROVE Sure(d, p, k)
    <2>1. /\ k - 2 >= 1 /\ v[p] = Quoted /\ v[p + 1] = Colon /\ ValueAt(D, v, p + 2, k - 2)
        BY <1>2 DEF PairAt, ValueAt
    <2>2. /\ k \in Nat /\ k >= 3 /\ p + k - 1 <= Len(d) /\ k - 2 \in 1..m - 1 /\ p + 2 \in 1..Len(d)
          /\ p + 2 + (k - 2) - 1 <= Len(d)
        BY <2>1
    <2>3. /\ Want(d, p + 2) = "Value"
          /\ Sure(d, p + 2, k - 2) => Sure(d, p, k)
        BY <2>1, <2>2, PairSure DEF v
    <2>4. Sure(d, p + 2, k - 2)
        <3>1. ValuesSure(d, D, k - 2)
            BY <2>2 DEF TextsSure
        <3> QED BY <2>1, <2>2, <2>3, <3>1 DEF ValuesSure, Beginning, v
    <2> QED BY <2>3, <2>4
<1>3. CASE PairAt(D, v, p, m)
    <2>1. m \in 1..m
        OBVIOUS
    <2> QED BY <1>2, <1>3, <2>1
<1>4. ASSUME NEW k \in 1..m - 2, PairAt(D, v, p, k), v[p + k] = Comma, MembersAt(D, v, p + k + 1, m - 1 - k)
      PROVE  Sure(d, p, m)
    <2> DEFINE j == m - 1 - k
               q == p + k + 1
    <2>1. /\ k \in Nat /\ j \in Nat /\ k >= 1 /\ j >= 1 /\ k \in 1..m /\ j \in 1..m - 1
          /\ p + k + j <= Len(d) /\ p + k <= Len(d) /\ p + k \in 1..Len(d)
          /\ q \in 1..Len(d) /\ q + j - 1 <= Len(d) /\ k + 1 + j = m
          /\ \A c \in 1..p - 1 : c \in 1..q - 1
        BY <1>4
    <2>2. d[p + k] = Comma
        BY <1>4, <2>1, ViewOfChar DEF v
    <2>3. Sure(d, p, k)
        BY <1>2, <1>4, <2>1
    <2>4. Want(d, q) = "Key" /\ Inside(d, q) = Inside(d, p)
        BY <2>1, <2>2, <2>3, CommaSure
    <2>5. MembersAt(D, v, q, j)
        BY <1>4
    <2> HIDE DEF q, j
    <2>6. Sure(d, q, j)
        <3>1. MembersSure(d, D, j)
            BY <2>1 DEF TextsSure
        <3> QED BY <2>1, <2>4, <2>5, <3>1 DEF MembersSure, v
    <2>7. Sure(d, p, k + 1 + j)
        BY <2>1, <2>2, <2>3, <2>6, ListSure DEF q
    <2> QED BY <2>1, <2>7
<1> QED BY <1>1, <1>3, <1>4

LEMMA AllTextsSure ==
    ASSUME NEW d \in Seq(Char), NEW n \in Nat, NEW D, D = Derivations(n)
    PROVE  \A m \in 1..n : TextsSure(d, D, m)
PROOF
<1> DEFINE S == {q \in 0..n : \A k \in 1..q : TextsSure(d, D, k)}
<1>1. 0 \in S
    <2>1. \A k \in 1..0 : FALSE
        OBVIOUS
    <2> QED BY <2>1
<1>2. ASSUME NEW q \in 0..n - 1, q \in S PROVE q + 1 \in S
    <2> DEFINE m == q + 1
    <2>1. m \in 1..n /\ m \in 0..n /\ m - 1 = q /\ \A k \in 1..m : k \in 1..m - 1 \/ k = m
        OBVIOUS
    <2>2. \A k \in 1..m - 1 : TextsSure(d, D, k)
        BY <1>2, <2>1
    <2> HIDE DEF m
    <2>3. ValuesSure(d, D, m)
        BY <2>1, <2>2, ValuesSureStep
    <2>4. ElementsSure(d, D, m)
        BY <2>1, <2>2, <2>3, ElementsSureStep
    <2>5. MembersSure(d, D, m)
        BY <2>1, <2>2, MembersSureStep
    <2>6. TextsSure(d, D, m)
        BY <2>3, <2>4, <2>5 DEF TextsSure
    <2>7. m \in S
        BY <2>1, <2>2, <2>6
    <2> QED BY <2>7 DEF m
<1>3. 0..n \subseteq S
    <2> HIDE DEF S
    <2> QED BY <1>1, <1>2, Induction
<1>4. ASSUME NEW m \in 1..n PROVE TextsSure(d, D, m)
    <2>1. m \in 0..n /\ m \in 1..m
        OBVIOUS
    <2>2. m \in S
        BY <1>3, <2>1
    <2> QED BY <2>1, <2>2
<1> QED BY <1>4

---------------------------------------------------------------------------
(* From the places to the grammar.                                         *)

\* The characters from p to q are one value, as the places tell it.
ValueEnds(d, p, q) ==
    /\ Want(d, p) \in Beginning
    /\ \/ Stays(d, p) /\ q = p
       \/ Enters(d, p) /\ q \in p + 1..Len(d) /\ Leaves(d, q) /\ Inside(d, q) = p
    /\ Want(d, q + 1) = "Behind" /\ Inside(d, q + 1) = Inside(d, p)

\* A bracket is closed once.
LEMMA ClosedFirst ==
    ASSUME NEW d \in Seq(Char), Sound(d, Len(d)), NEW q \in 1..Len(d), Leaves(d, q),
           NEW k \in 1..q - 1, Inside(d, k) = Inside(d, q)
    PROVE  ~Leaves(d, k)
PROOF
<1> DEFINE n == Len(d)
<1>1. n \in 0..Len(d) /\ k \in 1..n /\ q \in k + 1..n + 1
    OBVIOUS
<1> HIDE DEF n
<1>2. Sound(d, n)
    BY DEF n
<1> QED BY <1>1, <1>2, ClosedOnce

LEMMA MovesOn ==
    ASSUME NEW d \in Seq(Char), Sound(d, Len(d)), NEW k \in 1..Len(d)
    PROVE  Enters(d, k) \/ Stays(d, k) \/ Advances(d, k) \/ Leaves(d, k)
PROOF
<1>1. k + 1 \in 1..Len(d) + 1
    OBVIOUS
<1> QED BY <1>1, Moves DEF Sound

\* A value ends before the container it is in.
LEMMA ElementEnds ==
    ASSUME NEW d \in Seq(Char), Sound(d, Len(d)), NEW q \in 1..Len(d), Leaves(d, q),
           NEW p \in 1..q - 1, Inside(d, p) = Inside(d, q), Want(d, p) \in Beginning
    PROVE  \E e \in p..q - 1 :
              /\ ValueEnds(d, p, e)
              /\ e + 1 = q \/ /\ e + 2 \in 1..q - 1 /\ d[e + 1] = Comma
                              /\ Want(d, e + 2) = IF d[Inside(d, q)] = Brace THEN "Key" ELSE "Value"
                              /\ Inside(d, e + 2) = Inside(d, q)
PROOF
<1> DEFINE c == Inside(d, q)
<1>1. /\ p \in Nat /\ q \in Nat /\ Len(d) \in Nat /\ p \in 1..Len(d)
      /\ \A e \in p..q - 1 : e \in 1..Len(d) /\ e \in Nat
    OBVIOUS
<1>2. c \in 1..q - 1 /\ Want(d, q) \in First \union {"Behind"}
    BY DEF Leaves
<1>3. \E e \in p..q - 1 : ValueEnds(d, p, e)
    <2>1. Enters(d, p) \/ Stays(d, p)
        <3>1. ~Leaves(d, p)
            BY <1>1, ClosedFirst
        <3>2. ~Advances(d, p)
            BY Zenon DEF Advances, Beginning
        <3> QED BY <1>1, <3>1, <3>2, MovesOn
    <2>2. CASE Stays(d, p)
        <3>1. Want(d, p + 1) = "Behind" /\ Inside(d, p + 1) = Inside(d, p)
            BY <2>2, Zenon DEF Stays, Beginning
        <3>2. ValueEnds(d, p, p)
            BY <2>2, <3>1, Zenon DEF ValueEnds
        <3>3. p \in p..q - 1
            OBVIOUS
        <3> QED BY <3>2, <3>3
    <2>3. CASE Enters(d, p)
        <3> DEFINE n == q - 1
        <3>1. /\ n \in 0..Len(d) /\ n + 1 = q /\ p \in 1..n /\ q \in 1..Len(d) + 1
              /\ \A k \in 1..n + 1 : k \in 1..Len(d) + 1
            BY <1>1
        <3>2. Sound(d, n)
            BY <3>1 DEF Sound
        <3>3. Placed(d, q)
            BY <3>1, <3>2, AllPlaced
        <3>4. c \in 0..q - 1 /\ \A m \in c + 1..q : Level(d, m) >= Level(d, q)
            BY <3>3 DEF Placed, PlacedIn
        <3>5. c < p
            <4>1. Placed(d, p)
                <5>1. p \in 1..n + 1
                    BY <3>1
                <5> QED BY <3>1, <3>2, <5>1, AllPlaced
            <4>2. Inside(d, p) \in 0..p - 1
                BY <4>1 DEF Placed, PlacedIn
            <4> QED BY <1>1, <4>2
        <3>6. Level(d, p) >= Level(d, q)
            <4>1. p \in c + 1..q
                BY <1>1, <1>2, <3>5
            <4> QED BY <3>4, <4>1
        <3>7. Level(d, n + 1) <= Level(d, p)
            BY <3>1, <3>6
        <3>8. d[p] \in Openers
            BY <2>3 DEF Enters
        <3> HIDE DEF n
        <3>9. PICK e \in p + 1..n : Leaves(d, e) /\ Inside(d, e) = p
            BY <3>1, <3>2, <3>7, <3>8, Closed
        <3>10. e \in p..q - 1 /\ e \in p + 1..Len(d)
            BY <3>1, <3>9
        <3>11. Want(d, e + 1) = "Behind" /\ Inside(d, e + 1) = Inside(d, p)
            BY <3>9 DEF Leaves
        <3>12. ValueEnds(d, p, e)
            BY <2>3, <3>9, <3>10, <3>11 DEF ValueEnds
        <3> QED BY <3>10, <3>12
    <2> QED BY <2>1, <2>2, <2>3
<1>4. PICK e \in p..q - 1 : ValueEnds(d, p, e)
    BY <1>3
<1> DEFINE k == e + 1
<1>5. /\ k \in 1..Len(d) /\ k \in Nat /\ k <= q /\ k + 1 = e + 2
      /\ (k # q => k \in 1..q - 1 /\ k + 1 \in 1..q)
    BY <1>1
<1>6. Want(d, k) = "Behind" /\ Inside(d, k) = c
    BY <1>4 DEF ValueEnds
<1> HIDE DEF k
<1>7. ASSUME k # q
      PROVE  /\ k + 1 \in 1..q - 1 /\ d[k] = Comma
             /\ Want(d, k + 1) = IF d[c] = Brace THEN "Key" ELSE "Value"
             /\ Inside(d, k + 1) = c
    <2>1. Advances(d, k)
        <3>1. ~Leaves(d, k)
            BY <1>5, <1>6, <1>7, ClosedFirst
        <3>2. ~Enters(d, k) /\ ~Stays(d, k)
            BY <1>6, Zenon DEF Enters, Stays, Beginning
        <3> QED BY <1>5, <3>1, <3>2, MovesOn
    <2>2. d[k] = Comma /\ Inside(d, k + 1) = c
          /\ Want(d, k + 1) = IF d[c] = Brace THEN "Key" ELSE "Value"
        BY <1>6, <2>1 DEF Advances
    <2>3. k + 1 # q
        BY <1>2, <2>2, Zenon DEF First
    <2> QED BY <1>5, <1>7, <2>2, <2>3
<1>8. k = e + 1
    BY DEF k
<1> QED BY <1>4, <1>5, <1>7, <1>8

\* What the places tell to be a text of m characters is one of the grammar.
ValuesRight(d, D, m) ==
    \A p \in 1..Len(d) :
        p + m - 1 <= Len(d) /\ ValueEnds(d, p, p + m - 1) => ValueAt(D, GrammarView(d), p, m)

ElementsRight(d, D, m) ==
    \A p \in 1..Len(d) :
        /\ p + m <= Len(d) /\ Leaves(d, p + m) /\ Want(d, p) \in Beginning
        /\ Inside(d, p) = Inside(d, p + m) /\ d[Inside(d, p)] # Brace
        => ElementsAt(D, GrammarView(d), p, m)

MembersRight(d, D, m) ==
    \A p \in 1..Len(d) :
        /\ p + m <= Len(d) /\ Leaves(d, p + m) /\ Want(d, p) \in {"FirstKey", "Key"}
        /\ Inside(d, p) = Inside(d, p + m) /\ d[Inside(d, p)] = Brace
        => MembersAt(D, GrammarView(d), p, m)

TextsRight(d, D, m) == ValuesRight(d, D, m) /\ ElementsRight(d, D, m) /\ MembersRight(d, D, m)

Uncut(d) == \A k \in 1..Len(d) : d[k] # CutAtom

LEMMA ValuesRightStep ==
    ASSUME NEW d \in Seq(Char), Sound(d, Len(d)), Uncut(d),
           NEW n \in Nat, NEW D, D = Derivations(n), NEW m \in 1..n,
           \A k \in 1..m - 1 : TextsRight(d, D, k)
    PROVE  ValuesRight(d, D, m)
PROOF
<1> DEFINE v == GrammarView(d)
<1> SUFFICES ASSUME NEW p \in 1..Len(d), p + m - 1 <= Len(d), ValueEnds(d, p, p + m - 1)
             PROVE  ValueAt(D, v, p, m)
    BY DEF ValuesRight
<1> DEFINE q == p + m - 1
<1>1. /\ p \in Nat /\ m \in Nat /\ q \in 1..Len(d) /\ (q = p => m = 1) /\ (q > p => m >= 2)
      /\ (m = 2 => q = p + 1)
      /\ m > 2 => m - 2 \in 1..m - 1 /\ p + 1 \in 1..Len(d) /\ p + 1 + (m - 2) = q
    OBVIOUS
<1>2. ValueAt(D, v, p, m) <=> ValueForm(D, v, p, m)
    <2> HIDE DEF v, q
    <2> QED BY <1>1, ValueAtIs
<1>3. ValueEnds(d, p, q)
    OBVIOUS
<1> HIDE DEF v
<1>4. CASE Stays(d, p) /\ q = p
    <2>1. d[p] \in ScalarChars
        BY <1>3, <1>4, Zenon DEF Stays, ValueEnds, Beginning
    <2>2. d[p] \in Quotes \union Numbers \union Atoms
        BY <2>1, Classes DEF Uncut
    <2>3. v[p] \in {Quoted, Plain}
        BY <2>2, ViewOfChar DEF v
    <2> QED BY <1>1, <1>2, <1>4, <2>3 DEF ValueForm
<1>5. CASE Enters(d, p) /\ q \in p + 1..Len(d) /\ Leaves(d, q) /\ Inside(d, q) = p
    <2>1. /\ d[p] \in Openers /\ Inside(d, p + 1) = p
          /\ Want(d, p + 1) = IF d[p] = Brace THEN "FirstKey" ELSE "FirstElement"
          /\ d[q] = CloserFor(d[p])
        BY <1>5 DEF Enters, Leaves
    <2>2. m >= 2
        BY <1>1, <1>5
    <2>3. /\ d[p] = Opening => v[p] = Opening
          /\ d[p] = Brace => v[p] = Brace
          /\ d[q] = Closing => v[q] = Closing
          /\ d[q] = Unbrace => v[q] = Unbrace
        BY <1>1, ViewOfChar DEF v
    <2> HIDE DEF q
    <2>4. \/ d[p] = Opening /\ v[p] = Opening /\ v[q] = Closing
          \/ d[p] = Brace /\ v[p] = Brace /\ v[q] = Unbrace
        BY <2>1, <2>3, Classes
    <2>5. CASE m = 2
        BY <1>1, <1>2, <2>4, <2>5 DEF ValueForm
    <2>6. CASE m > 2
        <3>1. TextsRight(d, D, m - 2)
            BY <1>1, <2>6
        <3>2. CASE d[p] = Opening /\ v[p] = Opening /\ v[q] = Closing
            <4>1. Want(d, p + 1) \in Beginning /\ d[Inside(d, p + 1)] # Brace
                BY <2>1, <3>2, Classes DEF Beginning
            <4>2. ElementsRight(d, D, m - 2)
                BY <3>1 DEF TextsRight
            <4>3. p + 1 \in 1..Len(d) /\ p + 1 + (m - 2) <= Len(d) /\ Leaves(d, p + 1 + (m - 2))
                  /\ Inside(d, p + 1) = Inside(d, p + 1 + (m - 2))
                BY <1>1, <1>5, <2>1, <2>6
            <4>4. ElementsAt(D, v, p + 1, m - 2)
                BY <4>1, <4>2, <4>3 DEF ElementsRight, v
            <4> QED BY <1>2, <3>2, <4>4 DEF ValueForm, q
        <3>3. CASE d[p] = Brace /\ v[p] = Brace /\ v[q] = Unbrace
            <4>1. Want(d, p + 1) \in {"FirstKey", "Key"} /\ d[Inside(d, p + 1)] = Brace
                BY <2>1, <3>3
            <4>2. MembersRight(d, D, m - 2)
                BY <3>1 DEF TextsRight
            <4>3. p + 1 \in 1..Len(d) /\ p + 1 + (m - 2) <= Len(d) /\ Leaves(d, p + 1 + (m - 2))
                  /\ Inside(d, p + 1) = Inside(d, p + 1 + (m - 2))
                BY <1>1, <1>5, <2>1, <2>6
            <4>4. MembersAt(D, v, p + 1, m - 2)
                BY <4>1, <4>2, <4>3 DEF MembersRight, v
            <4> QED BY <1>2, <3>3, <4>4 DEF ValueForm, q
        <3> QED BY <2>4, <3>2, <3>3
    <2>7. m = 2 \/ m > 2
        BY <1>1, <2>2
    <2> QED BY <2>5, <2>6, <2>7
<1> QED BY <1>3, <1>4, <1>5 DEF ValueEnds

LEMMA ElementsRightStep ==
    ASSUME NEW d \in Seq(Char), Sound(d, Len(d)), Uncut(d),
           NEW n \in Nat, NEW D, D = Derivations(n), NEW m \in 1..n,
           \A k \in 1..m - 1 : TextsRight(d, D, k), ValuesRight(d, D, m)
    PROVE  ElementsRight(d, D, m)
PROOF
<1> DEFINE v == GrammarView(d)
<1> SUFFICES ASSUME NEW p \in 1..Len(d), p + m <= Len(d), Leaves(d, p + m), Want(d, p) \in Beginning,
                    Inside(d, p) = Inside(d, p + m), d[Inside(d, p)] # Brace
             PROVE  ElementsAt(D, v, p, m)
    BY DEF ElementsRight
<1> DEFINE q == p + m
<1>1. p \in Nat /\ m \in Nat /\ q \in 1..Len(d) /\ p \in 1..q - 1
    OBVIOUS
<1>2. ElementsAt(D, v, p, m) <=>
         \/ ValueAt(D, v, p, m)
         \/ \E k \in 1..m - 2 : /\ ValueAt(D, v, p, k) /\ v[p + k] = Comma
                                /\ ElementsAt(D, v, p + k + 1, m - 1 - k)
    <2> HIDE DEF v, q
    <2> QED BY <1>1, ElementsAtIs
<1>3. PICK e \in p..q - 1 :
         /\ ValueEnds(d, p, e)
         /\ e + 1 = q \/ /\ e + 2 \in 1..q - 1 /\ d[e + 1] = Comma
                         /\ Want(d, e + 2) = "Value" /\ Inside(d, e + 2) = Inside(d, q)
    <2>1. Leaves(d, q) /\ Inside(d, p) = Inside(d, q) /\ d[Inside(d, q)] # Brace
        OBVIOUS
    <2> HIDE DEF q
    <2> QED BY <1>1, <2>1, ElementEnds
<1> DEFINE k == e - p + 1
<1>4. /\ k \in 1..m /\ p + k - 1 = e /\ p + k = e + 1 /\ p + k + 1 = e + 2 /\ e <= Len(d)
      /\ (e + 1 = q => k = m)
      /\ (k = m \/ k \in 1..m - 1)
      /\ e + 2 \in 1..q - 1 => /\ k \in 1..m - 2 /\ m - 1 - k \in 1..m - 1
                               /\ e + 1 \in 1..Len(d) /\ e + 2 \in 1..Len(d)
                               /\ e + 2 + (m - 1 - k) = q
    BY <1>1
<1> HIDE DEF v, k
<1>5. ValueAt(D, v, p, k)
    <2>1. ValuesRight(d, D, k)
        BY <1>4 DEF TextsRight
    <2> QED BY <1>3, <1>4, <2>1 DEF ValuesRight, v
<1>6. CASE e + 1 = q
    BY <1>2, <1>4, <1>5, <1>6
<1>7. CASE e + 2 \in 1..q - 1 /\ d[e + 1] = Comma /\ Want(d, e + 2) = "Value" /\ Inside(d, e + 2) = Inside(d, q)
    <2>1. v[p + k] = Comma
        BY <1>4, <1>7, ViewOfChar DEF v
    <2>2. ElementsRight(d, D, m - 1 - k)
        BY <1>4, <1>7 DEF TextsRight
    <2>3. ElementsAt(D, v, e + 2, m - 1 - k)
        BY <1>1, <1>4, <1>7, <2>2 DEF ElementsRight, Beginning, v
    <2> QED BY <1>2, <1>4, <1>5, <1>7, <2>1, <2>3
<1> QED BY <1>3, <1>6, <1>7

LEMMA MembersRightStep ==
    ASSUME NEW d \in Seq(Char), Sound(d, Len(d)), Uncut(d),
           NEW n \in Nat, NEW D, D = Derivations(n), NEW m \in 1..n,
           \A k \in 1..m - 1 : TextsRight(d, D, k)
    PROVE  MembersRight(d, D, m)
PROOF
<1> DEFINE v == GrammarView(d)
<1> SUFFICES ASSUME NEW p \in 1..Len(d), p + m <= Len(d), Leaves(d, p + m), Want(d, p) \in {"FirstKey", "Key"},
                    Inside(d, p) = Inside(d, p + m), d[Inside(d, p)] = Brace
             PROVE  MembersAt(D, v, p, m)
    BY DEF MembersRight
<1> DEFINE q == p + m
           c == Inside(d, q)
<1>1. /\ p \in Nat /\ m \in Nat /\ q \in 1..Len(d) /\ p \in 1..q - 1 /\ p \in 1..Len(d)
      /\ p + 1 \in Nat /\ p + 1 + 1 = p + 2
    OBVIOUS
<1>2. MembersAt(D, v, p, m) <=>
         \/ PairAt(D, v, p, m)
         \/ \E k \in 1..m - 2 : /\ PairAt(D, v, p, k) /\ v[p + k] = Comma
                                /\ MembersAt(D, v, p + k + 1, m - 1 - k)
    <2> HIDE DEF v, q
    <2> QED BY <1>1, MembersAtIs
<1>3. Leaves(d, q) /\ Inside(d, p) = c /\ d[c] = Brace /\ Want(d, q) \in First \union {"Behind"}
    BY DEF Leaves
<1> HIDE DEF v, q, c
<1>4. d[p] \in Quotes /\ Want(d, p + 1) = "Colon" /\ Inside(d, p + 1) = c
    <2>1. ~Leaves(d, p)
        BY <1>1, <1>3, ClosedFirst DEF c
    <2>2. ~Enters(d, p) /\ ~Advances(d, p)
        BY Zenon DEF Enters, Advances, Beginning
    <2>3. Stays(d, p)
        BY <1>1, <2>1, <2>2, MovesOn
    <2> QED BY <1>3, <2>3, Zenon DEF Stays, Beginning
<1>5. p + 1 # q
    BY <1>3, <1>4, Zenon DEF First
<1>6. p + 1 \in 1..q - 1 /\ p + 1 \in 1..Len(d)
    BY <1>1, <1>5
<1>7. d[p + 1] = Colon /\ Want(d, p + 2) = "Value" /\ Inside(d, p + 2) = c
    <2>1. ~Leaves(d, p + 1)
        BY <1>1, <1>3, <1>4, <1>6, ClosedFirst DEF c
    <2>2. ~Enters(d, p + 1) /\ ~Advances(d, p + 1)
        BY <1>4, Zenon DEF Enters, Advances, Beginning
    <2>3. Stays(d, p + 1)
        BY <1>6, <2>1, <2>2, MovesOn
    <2>4. d[p + 1] = Colon /\ Want(d, p + 1 + 1) = "Value" /\ Inside(d, p + 1 + 1) = c
        BY <1>4, <2>3, Zenon DEF Stays, Beginning, Colon
    <2> QED BY <1>1, <2>4
<1>8. p + 2 # q
    BY <1>3, <1>7, Zenon DEF First
<1>9. p + 2 \in 1..q - 1 /\ p + 2 \in 1..Len(d)
    BY <1>1, <1>6, <1>8
<1>10. PICK e \in p + 2..q - 1 :
         /\ ValueEnds(d, p + 2, e)
         /\ e + 1 = q \/ /\ e + 2 \in 1..q - 1 /\ d[e + 1] = Comma
                         /\ Want(d, e + 2) = "Key" /\ Inside(d, e + 2) = Inside(d, q)
    <2>1. d[Inside(d, q)] = Brace /\ Inside(d, p + 2) = Inside(d, q) /\ Want(d, p + 2) \in Beginning
        BY <1>3, <1>7 DEF c, Beginning
    <2> QED BY <1>1, <1>3, <1>9, <2>1, ElementEnds
<1> DEFINE k == e - p + 1
<1>11. /\ k \in 1..m /\ k - 2 \in 1..m - 1 /\ p + 2 + (k - 2) - 1 = e /\ p + k = e + 1 /\ p + k + 1 = e + 2
       /\ e <= Len(d)
       /\ (e + 1 = q => k = m)
       /\ e + 2 \in 1..q - 1 => /\ k \in 1..m - 2 /\ m - 1 - k \in 1..m - 1
                                /\ e + 1 \in 1..Len(d) /\ e + 2 \in 1..Len(d)
                                /\ e + 2 + (m - 1 - k) = q
    BY <1>1, <1>9 DEF q
<1> HIDE DEF k
<1>12. PairAt(D, v, p, k)
    <2>1. ValuesRight(d, D, k - 2)
        BY <1>11 DEF TextsRight
    <2>2. ValueAt(D, v, p + 2, k - 2)
        BY <1>9, <1>10, <1>11, <2>1 DEF ValuesRight, v
    <2>3. v[p] = Quoted /\ v[p + 1] = Colon
        BY <1>1, <1>4, <1>6, <1>7, ViewOfChar DEF v
    <2> QED BY <2>2, <2>3 DEF PairAt
<1>13. CASE e + 1 = q
    BY <1>2, <1>11, <1>12, <1>13
<1>14. CASE e + 2 \in 1..q - 1 /\ d[e + 1] = Comma /\ Want(d, e + 2) = "Key" /\ Inside(d, e + 2) = Inside(d, q)
    <2>1. v[p + k] = Comma
        BY <1>11, <1>14, ViewOfChar DEF v
    <2>2. MembersRight(d, D, m - 1 - k)
        BY <1>11, <1>14 DEF TextsRight
    <2>3. d[Inside(d, e + 2)] = Brace
        BY <1>3, <1>14 DEF c
    <2>4. MembersAt(D, v, e + 2, m - 1 - k)
        <3> DEFINE r == e + 2
                   j == m - 1 - k
        <3>1. r \in 1..Len(d) /\ r + j = q /\ r + j <= Len(d)
            BY <1>1, <1>11, <1>14
        <3>2. /\ Leaves(d, r + j) /\ Want(d, r) \in {"FirstKey", "Key"}
              /\ Inside(d, r) = Inside(d, r + j) /\ d[Inside(d, r)] = Brace
            BY <1>3, <1>14, <2>3, <3>1
        <3> HIDE DEF r, j
        <3> QED BY <2>2, <3>1, <3>2 DEF MembersRight, v, r, j
    <2> QED BY <1>2, <1>11, <1>12, <1>14, <2>1, <2>4
<1> QED BY <1>10, <1>13, <1>14

LEMMA AllTextsRight ==
    ASSUME NEW d \in Seq(Char), Sound(d, Len(d)), Uncut(d), NEW n \in Nat, NEW D, D = Derivations(n)
    PROVE  \A m \in 1..n : TextsRight(d, D, m)
PROOF
<1> DEFINE S == {q \in 0..n : \A k \in 1..q : TextsRight(d, D, k)}
<1>1. 0 \in S
    <2>1. \A k \in 1..0 : FALSE
        OBVIOUS
    <2> QED BY <2>1
<1>2. ASSUME NEW q \in 0..n - 1, q \in S PROVE q + 1 \in S
    <2> DEFINE m == q + 1
    <2>1. m \in 1..n /\ m \in 0..n /\ m - 1 = q /\ \A k \in 1..m : k \in 1..m - 1 \/ k = m
        OBVIOUS
    <2>2. \A k \in 1..m - 1 : TextsRight(d, D, k)
        BY <1>2, <2>1
    <2> HIDE DEF m
    <2>3. ValuesRight(d, D, m)
        BY <2>1, <2>2, ValuesRightStep
    <2>4. ElementsRight(d, D, m)
        BY <2>1, <2>2, <2>3, ElementsRightStep
    <2>5. MembersRight(d, D, m)
        BY <2>1, <2>2, MembersRightStep
    <2>6. TextsRight(d, D, m)
        BY <2>3, <2>4, <2>5 DEF TextsRight
    <2>7. m \in S
        BY <2>1, <2>2, <2>6
    <2> QED BY <2>7 DEF m
<1>3. 0..n \subseteq S
    <2> HIDE DEF S
    <2> QED BY <1>1, <1>2, Induction
<1>4. ASSUME NEW m \in 1..n PROVE TextsRight(d, D, m)
    <2>1. m \in 0..n /\ m \in 1..m
        OBVIOUS
    <2>2. m \in S
        BY <1>3, <2>1
    <2> QED BY <2>1, <2>2
<1> QED BY <1>4

---------------------------------------------------------------------------

\* Every character of d is where it is expected, and nothing is left open.
WellPlaced(d) ==
    /\ Sound(d, Len(d)) /\ Uncut(d)
    /\ Want(d, Len(d) + 1) = "Behind" /\ Inside(d, Len(d) + 1) = 0

\* Nothing may come behind the value of the document.
LEMMA RootBehind ==
    ASSUME NEW d \in Seq(Char), Sound(d, Len(d)), NEW k \in 1..Len(d) + 1,
           Want(d, k) = "Behind", Inside(d, k) = 0
    PROVE  k = Len(d) + 1
PROOF
<1>1. ASSUME k # Len(d) + 1 PROVE FALSE
    <2>1. k \in 1..Len(d) /\ 0 \notin 1..k - 1
        BY <1>1
    <2>2. Enters(d, k) \/ Stays(d, k) \/ Advances(d, k) \/ Leaves(d, k)
        BY <2>1, MovesOn
    <2> QED BY <2>1, <2>2, Zenon DEF Enters, Stays, Advances, Leaves, Beginning
<1> QED BY <1>1

LEMMA WholeDocument ==
    ASSUME NEW d \in Seq(Char), WellPlaced(d)
    PROVE  Len(d) >= 1 /\ ValueEnds(d, 1, Len(d))
PROOF
<1> DEFINE n == Len(d)
<1>1. n \in Nat /\ n \in 0..Len(d) /\ n + 1 \in 1..n + 1 /\ n + 1 \in 1..Len(d) + 1 /\ (n = 0 => n + 1 = 1)
    OBVIOUS
<1>2. Want(d, 1) = "Value" /\ Inside(d, 1) = 0 /\ Level(d, 1) = 0 /\ Want(d, 1) \in Beginning
    BY FirstPlace DEF Beginning
<1>3. Sound(d, n) /\ Want(d, n + 1) = "Behind" /\ Inside(d, n + 1) = 0
    BY DEF WellPlaced
<1>4. n # 0
    BY <1>1, <1>2, <1>3, Zenon
<1>5. 1 \in 1..n /\ 1 + 1 = 2 /\ 2 \in 1..n + 1
    BY <1>1, <1>4
<1>6. Enters(d, 1) \/ Stays(d, 1)
    <2>1. ~Advances(d, 1) /\ ~Leaves(d, 1)
        <3>1. 0 \notin 1..1 - 1
            OBVIOUS
        <3> QED BY <1>2, <3>1 DEF Advances, Leaves
    <2>2. 1 \in 1..Len(d)
        BY <1>5
    <2> QED BY <1>3, <2>1, <2>2, MovesOn
<1>7. CASE Stays(d, 1)
    <2>1. Want(d, 1 + 1) = "Behind" /\ Inside(d, 1 + 1) = 0
        BY <1>2, <1>7, Zenon DEF Stays, Beginning
    <2>2. 2 = n + 1
        BY <1>3, <1>5, <2>1, RootBehind
    <2>3. n = 1
        <3> HIDE DEF n
        <3> QED BY <1>1, <2>2
    <2>4. ValueEnds(d, 1, 1)
        BY <1>2, <1>7, <2>1 DEF ValueEnds
    <2> QED BY <2>3, <2>4
<1>8. CASE Enters(d, 1)
    <2>1. d[1] \in Openers
        BY <1>8 DEF Enters
    <2>2. Level(d, n + 1) <= Level(d, 1)
        <3>1. Placed(d, n + 1)
            BY <1>1, <1>3, AllPlaced
        <3>2. Level(d, n + 1) = 0
            BY <1>3, <3>1 DEF Placed, PlacedIn
        <3> QED BY <1>2, <3>2
    <2> HIDE DEF n
    <2>3. PICK q \in 1 + 1..n : Leaves(d, q) /\ Inside(d, q) = 1
        BY <1>1, <1>3, <1>5, <2>1, <2>2, Closed
    <2>4. Want(d, q + 1) = "Behind" /\ Inside(d, q + 1) = 0
        BY <1>2, <2>3 DEF Leaves
    <2>5. q + 1 \in 1..Len(d) + 1 /\ q \in 1 + 1..Len(d) /\ q \in Nat
        BY <1>1, <2>3 DEF n
    <2>6. q + 1 = Len(d) + 1
        BY <1>3, <2>4, <2>5, RootBehind DEF n
    <2>7. q = Len(d)
        BY <2>5, <2>6
    <2>8. ValueEnds(d, 1, q)
        BY <1>2, <1>8, <2>3, <2>4, <2>5 DEF ValueEnds
    <2> QED BY <1>1, <1>4, <2>7, <2>8 DEF n
<1> QED BY <1>6, <1>7, <1>8

\* A document all of whose characters are where they are expected is what the
\* JSON grammar derives, and nothing else is.
THEOREM WellPlacedIsJson ==
    ASSUME NEW d \in Seq(Char), Len(d) >= 1, NEW n \in Nat, Len(d) <= n
    PROVE  WellPlaced(d) <=> GrammarView(d) \in TextsUpTo(n)
PROOF
<1> DEFINE v == GrammarView(d)
           D == Derivations(n)
           L == Len(d)
<1>1. L \in 1..n /\ L \in Nat /\ 1 \in 1..L /\ 1 + L - 1 = L /\ 1 + L = L + 1 /\ L \in 1..L
    OBVIOUS
<1>2. Part(v, 1, L) = v
    <2>1. v = [k \in 1..L |-> v[k]]
        <3>1. DOMAIN d = 1..L
            OBVIOUS
        <3>2. v = [k \in DOMAIN d |-> v[k]]
            BY DEF GrammarView
        <3> QED BY <3>1, <3>2
    <2>2. \A k \in 1..L : 1 + k - 1 = k
        OBVIOUS
    <2> HIDE DEF v, L
    <2> QED BY <2>1, <2>2 DEF Part
<1>3. v \in TextsUpTo(n) <=> ValueAt(D, v, 1, L)
    <2>1. v \in TextsUpTo(n) <=> \E m \in 1..n : v \in D[m].values
        BY DEF TextsUpTo
    <2>2. ASSUME NEW m \in 1..n, v \in D[m].values PROVE m = L
        <3>1. TypedAt(D, m)
            <4> HIDE DEF v, L
            <4> QED BY TextLength
        <3>2. v \in TextOf(m)
            BY <2>2, <3>1 DEF TypedAt
        <3>3. Len(v) = m
            BY <3>2 DEF TextOf
        <3>4. Len(v) = L
            BY DEF GrammarView
        <3> QED BY <3>3, <3>4
    <2> HIDE DEF v, D, L
    <2>3. ValueAt(D, v, 1, L) <=> v \in D[L].values
        BY <1>1, <1>2 DEF ValueAt
    <2> QED BY <1>1, <2>1, <2>2, <2>3
<1>4. Want(d, 1) \in Beginning /\ Inside(d, 1) = 0
    BY FirstPlace DEF Beginning
<1>5. ASSUME ValueAt(D, v, 1, L) PROVE WellPlaced(d)
    <2>1. TextsSure(d, D, L)
        <3> HIDE DEF v, L
        <3> QED BY <1>1, AllTextsSure
    <2>2. Sure(d, 1, L)
        BY <1>1, <1>4, <1>5, <2>1 DEF TextsSure, ValuesSure
    <2>3. Want(d, L + 1) = "Behind" /\ Inside(d, L + 1) = 0
        BY <1>1, <1>4, <2>2 DEF Sure
    <2>4. Uncut(d)
        BY <1>1, <2>2 DEF Sure, Uncut
    <2>5. Sound(d, L)
        <3>1. ASSUME NEW k \in 1..L + 1 PROVE Want(d, k) # "Stray"
            <4>1. CASE k = 1
                BY <1>4, <4>1 DEF Beginning
            <4>2. CASE k # 1
                <5>1. k - 1 \in 1..1 + L - 1 /\ k - 1 + 1 = k
                    BY <4>2
                <5> QED BY <2>2, <5>1 DEF Sure
            <4> QED BY <4>1, <4>2
        <3> QED BY <3>1 DEF Sound
    <2> QED BY <2>3, <2>4, <2>5 DEF WellPlaced
<1>6. ASSUME WellPlaced(d) PROVE ValueAt(D, v, 1, L)
    <2>1. Sound(d, Len(d)) /\ Uncut(d)
        BY <1>6 DEF WellPlaced
    <2>2. TextsRight(d, D, L)
        <3> HIDE DEF v
        <3>1. \A m \in 1..n : TextsRight(d, D, m)
            BY <2>1, AllTextsRight
        <3> QED BY <1>1, <3>1
    <2>3. ValueEnds(d, 1, L)
        BY <1>6, WholeDocument
    <2> QED BY <1>1, <2>2, <2>3 DEF TextsRight, ValuesRight
<1> QED BY <1>3, <1>5, <1>6
=================================================================================
