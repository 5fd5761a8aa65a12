-------------------------------- MODULE MCWriteJson --------------------------------
(***************************************************************************)
(* Instances of WriteJson: a value of every shape whose text has up to     *)
(* LongLength characters, every kind of scalar by itself and in both       *)
(* containers; every string up to a length over characters of each kind    *)
(* ESCAPED knows, and every character alone, in a block and behind one.    *)
(***************************************************************************)
EXTENDS WriteJson

CONSTANTS
    LongLength,     \* the longest text of a value without whitespace
    Alphabet,       \* characters
    TextLength,     \* of the longest string over them
    LongText        \* of the longest over two of them

Texts == TextsUpTo(LongLength)

Over(characters, length) == UNION {[1..n -> characters] : n \in 0..length}

Fill(n) == [k \in 1..n |-> 97]

MCStrings == Over(Alphabet, TextLength) \union Over({97, 31}, LongText)
             \union UNION {{Fill(n) \o <<c>> \o Fill(n) : c \in Byte} : n \in {0, Wide - 1, Wide}}

Scalars == {Value(kind, <<48>>, << >>) : kind \in DOMAIN Written}
           \union {Value("str", s, << >>) : s \in MCStrings}

\* The value of the shape of a tree; what is at different places differs.
RECURSIVE Shaped(_, _)
Shaped(doc, tree) ==
    LET items == [n \in DOMAIN tree.items |-> Shaped(doc, tree.items[n])] IN
    CASE tree.kind # "leaf"       -> Value(tree.kind, <<96 + tree.at>>, items)
      [] doc[tree.at] = "str"     -> Value("str", <<96 + tree.at, 34>>, << >>)
      [] OTHER                    -> Value("int", <<48 + tree.at>>, << >>)

MCValues ==
    Scalars \union {Shaped(t, Tree(t)) : t \in Texts}
    \union {Value("array", << >>, <<Value(kind, <<48>>, << >>)>>) : kind \in DOMAIN Written}
    \union {Value("object", << >>, <<Value("member", <<97>>, <<Value(kind, <<48>>, << >>)>>)>>) :
                kind \in DOMAIN Written}

RECURSIVE PartsOf(_)
PartsOf(v) == {v} \union UNION {PartsOf(v.items[n]) : n \in DOMAIN v.items}

MCParts == {v : v \in UNION {PartsOf(w) : w \in MCValues}}

---------------------------------------------------------------------------
(* The reference: the text of a value, and what a text says.               *)

RECURSIVE Text(_)
Text(v) ==
    LET f[n \in 0..Len(v.items)] ==
            IF n = 0 THEN << >>
            ELSE f[n - 1] \o (IF n = 1 THEN << >> ELSE <<Token(",", << >>)>>) \o Text(v.items[n])
        items == f[Len(v.items)]
    IN  CASE v.kind \in Containers ->
                Bracket(v.kind, "[", "{") \o items \o Bracket(v.kind, "]", "}")
          [] v.kind = "member" -> <<Token("str", v.text), Token(":", << >>)>> \o items
          [] v.kind = "str"    -> <<Token("str", v.text)>>
          [] OTHER             -> <<Token("val", v.text)>>

\* What the ink says, strings and keys read back.
Said ==
    [k \in DOMAIN Ink |->
        CASE Ink[k].char = "str" -> Token("str", ReadBack(Ink[k].bytes).bytes)
          [] Ink[k].char \in UNION {Written[kind] : kind \in DOMAIN Written} ->
                Token("val", Ink[k].bytes)
          [] OTHER -> Ink[k]]

RECURSIVE KindsIn(_)
KindsIn(v) == {v.kind} \union UNION {KindsIn(v.items[n]) : n \in DOMAIN v.items}

RECURSIVE Denotes(_, _)
Denotes(tree, v) ==
    IF v.kind \in Containers \union {"member"}
    THEN /\ tree.kind = v.kind /\ Len(tree.items) = Len(v.items)
         /\ \A n \in DOMAIN v.items : Denotes(tree.items[n], v.items[n])
         /\ v.kind = "member" => Said[tree.at] = Token("str", v.text)
    ELSE tree.kind = "leaf" /\ Text(v) = <<Said[tree.at]>>

---------------------------------------------------------------------------
(* Properties.                                                             *)

\* The scalars whose text is not always read.
Unreadable == {kind \in DOMAIN Written : Written[kind] \intersect {"badnum", "other"} # {}}

\* What was written is a JSON text, whitespace or not, and the tree to_value
\* reads from it is the value.  prop_json_encode_decode of lib.rs tests this of
\* write, for values without floats and with any i64; here it is of all four
\* generators and of floats too, up to their rounding, but not of the least
\* integer, on whose text a build with overflow checks panics (the tests draw
\* it, too), nor of a float too small to be read or not finite.
RoundTrip ==
    LET document == Chars(Ink) IN
    at = "Ok" /\ KindsIn(given) \intersect Unreadable = {} =>
        GrammarView(document) \in Texts /\ Denotes(Tree(document), given)

\* At every moment, and when the writer has failed or the indentation has
\* overflowed, what was written is the beginning of the text of the value: an
\* error stops the calls under way where they are.
WrittenSoFar == IsPrefix(Said, Text(given))
=================================================================================
