---------------------------------- MODULE Json ----------------------------------
(***************************************************************************)
(* What a JSON text is, for the passes that work on structural characters. *)
(* A document is the sequence of the characters that stage 1 indexed: one  *)
(* entry per bracket, colon, comma and opening quote, and one for the      *)
(* first character of every number or atom.  This module is the reference  *)
(* the parser's passes are compared with: it is written from the JSON      *)
(* grammar and shares nothing with the automaton of stage2.rs.             *)
(*                                                                         *)
(* Classes of structural characters:                                       *)
(*   "{" "}" "[" "]" ":" ","  themselves                                   *)
(*   "str"      a quote that opens a string the string parser accepts      *)
(*   "name"     the same, and the string is the name of a struct's field   *)
(*   "badstr"   a quote that opens a string with an invalid escape         *)
(*   "num"      the first digit of an integer, one every type can hold     *)
(*   "large"    the first digit of an integer too large for a narrow type  *)
(*   "neg"      the sign of a negative integer                             *)
(*   "float"    the first character of a number with a fraction            *)
(*   "badnum"   '-' or a digit that starts text that is no number          *)
(*   "null"     the first character of a well-formed null                  *)
(*   "bool"     the first character of a well-formed true or false         *)
(*   "badatom"  t, f or n that starts anything else                        *)
(*   "cutatom"  t, f or n so near the end of the input that the check of   *)
(*              the atom reads bytes that are not the input's              *)
(*   "other"    any other character                                        *)
(***************************************************************************)
EXTENDS Integers, Sequences, FiniteSets

Openers  == {"{", "["}
Closers  == {"}", "]"}
Strings  == {"str", "name"}
Quotes   == Strings \union {"badstr"}
Numerals == {"num", "large", "neg", "float"}
Numbers  == Numerals \union {"badnum"}
Atoms    == {"null", "bool"}
BadAtoms == {"badatom", "cutatom"}
Char     == Openers \union Closers \union Quotes \union Numbers
              \union Atoms \union BadAtoms \union {":", ",", "other"}

---------------------------------------------------------------------------
(* Brackets and elements of a document, by counting.                       *)

Occurrences(doc, p, q, S) == Cardinality({k \in p..q : doc[k] \in S})

Height(doc, p, q) == Occurrences(doc, p, q, Openers) - Occurrences(doc, p, q, Closers)

\* The closing bracket of the bracket opened at p.
CloserOf(doc, p) ==
    CHOOSE q \in p + 1..Len(doc) :
        Height(doc, p, q) = 0 /\ \A r \in p..q - 1 : Height(doc, p, r) > 0

\* The commas that separate the elements of the container opened at p.
SeparatorsOf(doc, p) ==
    {k \in p + 1..CloserOf(doc, p) - 1 : doc[k] = "," /\ Height(doc, p, k) = 1}

ElementCount(doc, p) ==
    IF CloserOf(doc, p) = p + 1 THEN 0 ELSE 1 + Cardinality(SeparatorsOf(doc, p))

---------------------------------------------------------------------------
(* The grammar, as the set of the texts of each length.  Only what decides *)
(* well-formedness is kept of a scalar: "str" for a string, "val" for a    *)
(* number or an atom.                                                      *)

Joined(S, sep, T) == {s \o sep \o t : s \in S, t \in T}

\* What the grammar derives in m characters, from what it derives in fewer.
Derive(shorter, m) ==
    LET Get(n, f) == IF n \in 1..m - 1 THEN shorter[n][f] ELSE {}
        Pairs(n)  == {<<"str", ":">> \o v : v \in Get(n - 2, "values")}
        values ==
            CASE m = 1 -> {<<"str">>, <<"val">>}
              [] m = 2 -> {<<"[", "]">>, <<"{", "}">>}
              [] OTHER -> {<<"[">> \o e \o <<"]">> : e \in Get(m - 2, "elements")}
                            \union {<<"{">> \o e \o <<"}">> : e \in Get(m - 2, "members")}
    IN  [values   |-> values,
         elements |-> values \union
             UNION {Joined(Get(k, "values"), <<",">>, Get(m - 1 - k, "elements")) : k \in 1..m - 2},
         members  |-> Pairs(m) \union
             UNION {Joined(Pairs(k), <<",">>, Get(m - 1 - k, "members")) : k \in 1..m - 2}]

\* What the grammar derives in 1, 2, ... n characters.
Derivations(n) ==
    LET table[m \in 0..n] ==
            IF m = 0 THEN << >> ELSE Append(table[m - 1], Derive(table[m - 1], m))
    IN  table[n]

\* Every well-formed text of at most n characters.
TextsUpTo(n) ==
    LET derived == Derivations(n) IN UNION {derived[m].values : m \in 1..n}

\* The grammar's view of a document: a number or atom is checked for what it
\* is by others, a misspelt atom is not a value.
GrammarView(doc) ==
    [k \in DOMAIN doc |->
        CASE doc[k] \in Quotes            -> "str"
          [] doc[k] \in Numbers \union Atoms -> "val"
          [] OTHER                        -> doc[k]]

---------------------------------------------------------------------------
(* The tree a well-formed document denotes, by positions: a scalar is the  *)
(* position of its first character.                                        *)

Leaf(p)          == [kind |-> "leaf", at |-> p, items |-> << >>]
Array(items)     == [kind |-> "array", at |-> 0, items |-> items]
Object(items)    == [kind |-> "object", at |-> 0, items |-> items]
Member(p, value) == [kind |-> "member", at |-> p, items |-> <<value>>]

Ascending(S) ==
    [k \in 1..Cardinality(S) |->
        CHOOSE x \in S : Cardinality({y \in S : y < x}) = k - 1]

Tree(doc) ==
    LET Starts(p) == IF ElementCount(doc, p) = 0 THEN {}
                     ELSE {p + 1} \union {k + 1 : k \in SeparatorsOf(doc, p)}
        at[p \in 1..Len(doc)] ==
            LET first == Ascending(Starts(p)) IN
            CASE doc[p] = "[" -> Array([k \in DOMAIN first |-> at[first[k]]])
              [] doc[p] = "{" -> Object([k \in DOMAIN first |->
                                            Member(first[k], at[first[k] + 2])])
              [] OTHER        -> Leaf(p)
    IN  at[1]
=================================================================================
