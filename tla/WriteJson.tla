-------------------------------- MODULE WriteJson --------------------------------
(***************************************************************************)
(* to_string, to_string_pp, write and write_pp: write_json and             *)
(* write_object of value/borrowed/serialize.rs (value/owned/serialize.rs   *)
(* is the same text) over the four generators of value/generator.rs, with  *)
(* WriteString for the strings and keys.  Two of the generators write to a *)
(* writer of the caller's, which may fail at any time; every error leaves  *)
(* through all the calls under way.                                        *)
(*                                                                         *)
(* A value is a record: its kind, the items of an array or object (in the  *)
(* order of the iterator), and in `text` the bytes of a string, the key of *)
(* a member or what identifies a scalar.                                   *)
(***************************************************************************)
EXTENDS WriteString, Json

CONSTANTS
    Values,         \* the values to write
    Parts,          \* those and all the values in them
    Spaces,         \* spaces_per_indent
    Width           \* the width of dent and spaces_per_indent: 0..Width - 1

\* A set of values with all that is in them: bytes, values, members with a value.
Closed(S) ==
    \A v \in S :
        /\ v.text \in Seq(Byte) /\ v.items \in Seq(S)
        /\ v.kind = "object" => \A n \in DOMAIN v.items : Len(v.items[n].items) = 1
ASSUME PartsAssumption == Closed(Parts) /\ Values \subseteq Parts
ASSUME IndentAssumption == Spaces \in Nat /\ Width \in Nat \ {0}

Value(kind, text_, items) == [kind |-> kind, text |-> text_, items |-> items]

\* The texts of scalars, by what their reader takes them for; "badnum" is one it
\* gives no value for.  `least` is i64::MIN: on its text the reader panics in a
\* build with overflow checks.  `tiny` is a float whose exponent less the digits
\* of its fraction is below -308 (of 17 digits, from about 1e-292 down): its text
\* is refused.  Of the other finite floats only the rounding is left out.  ryu
\* does not say what it prints for one that is not finite.
Written == [null |-> {"null"}, bool |-> {"bool"}, int |-> {"num"}, least |-> {"num", "badnum"},
            float |-> {"num"}, tiny |-> {"badnum"}, nonfinite |-> {"num", "badnum", "other"}]

Containers == {"array", "object"}

VARIABLES
    given,      \* the value to write
    generator,  \* the generator in use
    json,       \* what write_json is called with
    at,         \* what it does next
    calls,      \* the containers being written, innermost last
    dent,
    sink        \* what was written: characters, with whitespace

jsonVars == <<text, pc, string, idx, out, given, generator, json, at, calls, dent, sink>>

Generators == {"Dump", "Pretty", "Writer", "PrettyWriter"}
Indents  == generator \in {"Pretty", "PrettyWriter"}
MayFail  == generator \in {"Writer", "PrettyWriter"}

call == Last(calls)

JsonInit ==
    /\ Init
    /\ generator \in Generators
    /\ given \in Values
    /\ json = given
    /\ at = "Json"
    /\ calls = << >>
    /\ dent = 0
    /\ sink = << >>

---------------------------------------------------------------------------
(* Writing.  `then` is what comes next when it succeeds.                   *)

Token(char, bytes) == [char |-> char, bytes |-> bytes, spaces |-> 0]

\* Mutant of Emit: what comes next is done after an error, too.
EmitAgain(tokens, then) ==
    \/ sink' = sink \o tokens /\ at' = then
    \/ MayFail /\ tokens # << >> /\ at' = then /\ UNCHANGED sink

\* Of tokens whose writing fails nothing is kept here, for WriteString is
\* where a part of one matters.
Emit(tokens, then) ==
    \/ sink' = sink \o tokens /\ at' = then
    \/ MayFail /\ tokens # << >> /\ at' = "Error" /\ UNCHANGED sink

\* new_line, at an indentation of d.  The product is of the width of its
\* factors; a build with overflow checks stops instead.
NewLine(d, then) ==
    LET line == [char |-> "newline", bytes |-> << >>, spaces |-> (d * Spaces) % Width] IN
    \/ Emit(IF Indents THEN <<line>> ELSE << >>, then)
    \/ Indents /\ d * Spaces >= Width /\ at' = "Panic" /\ UNCHANGED sink

---------------------------------------------------------------------------
(* write_json and write_object.                                            *)

Scalar ==
    /\ at = "Json" /\ json.kind \in DOMAIN Written
    /\ \E char \in Written[json.kind] : Emit(<<Token(char, json.text)>>, "Returned")
    /\ UNCHANGED <<vars, given, generator, json, calls, dent>>

JsonString ==
    /\ at = "Json" /\ json.kind = "str"
    /\ Start(json.text)
    /\ at' = "Text"
    /\ UNCHANGED <<given, generator, json, calls, dent, sink>>

\* write_string is at work on a string or a key.
StringStep ==
    /\ at \in {"Text", "Key"}
    /\ Step
    /\ pc' = "Error" => MayFail
    /\ at' = IF pc' = "Error" THEN "Error" ELSE at
    /\ UNCHANGED <<given, generator, json, calls, dent, sink>>

StringWritten ==
    /\ at \in {"Text", "Key"} /\ pc = "Ok"
    /\ sink' = Append(sink, Token("str", out))
    /\ at' = IF at = "Key" THEN "Colon" ELSE "Returned"
    /\ pc' = "Idle"
    /\ UNCHANGED <<text, string, idx, out, given, generator, json, calls, dent>>

Bracket(kind, array, object) == <<Token(IF kind = "array" THEN array ELSE object, << >>)>>

Open ==
    /\ at = "Json" /\ json.kind \in Containers
    /\ Emit(Bracket(json.kind, "[", "{"), IF json.items = << >> THEN "Close" ELSE "First line")
    /\ calls' = Append(calls, [kind |-> json.kind, left |-> json.items])
    /\ UNCHANGED <<vars, given, generator, json, dent>>

\* indent before the first item's line, dedent before the closing bracket's.
FirstLine ==
    /\ at = "First line"
    /\ dent' = (dent + 1) % Width
    /\ NewLine(dent', "Item")
    /\ UNCHANGED <<vars, given, generator, json, calls>>

NextLine ==
    /\ at = "Next line"
    /\ NewLine(dent, "Item")
    /\ UNCHANGED <<vars, given, generator, json, calls, dent>>

\* Mutant of LastLine: no dedent.
LastLineNoDedent ==
    /\ at = "Last line"
    /\ NewLine(dent, "Close")
    /\ UNCHANGED <<vars, given, generator, json, calls, dent>>

LastLine ==
    /\ at = "Last line"
    /\ dent' = (dent - 1) % Width
    /\ NewLine(dent', "Close")
    /\ UNCHANGED <<vars, given, generator, json, calls>>

\* An element of an array, or the key of a member of an object.
Item ==
    /\ at = "Item"
    /\ LET item == Head(call.left) IN
       \/ call.kind = "array" /\ at' = "Json" /\ json' = item /\ UNCHANGED vars
       \/ call.kind = "object" /\ at' = "Key" /\ Start(item.text) /\ UNCHANGED json
    /\ UNCHANGED <<given, generator, calls, dent, sink>>

\* write_min, and the value of the member.
Colon ==
    /\ at = "Colon"
    /\ Emit(<<Token(":", << >>)>> \o (IF Indents THEN <<Token("space", << >>)>> ELSE << >>), "Json")
    /\ json' = Head(call.left).items[1]
    /\ UNCHANGED <<vars, given, generator, calls, dent>>

\* Mutant of Returned: a comma after the last item, too.
ReturnedTrailingComma ==
    /\ at = "Returned" /\ calls # << >>
    /\ LET left == Tail(call.left) IN
       /\ calls' = [calls EXCEPT ![Len(calls)].left = left]
       /\ Emit(<<Token(",", << >>)>>, IF left # << >> THEN "Next line" ELSE "Last line")
    /\ UNCHANGED <<vars, given, generator, json, dent>>

\* A call of write_json returned to the loop over a container.
Returned ==
    /\ at = "Returned" /\ calls # << >>
    /\ LET left == Tail(call.left) IN
       /\ calls' = [calls EXCEPT ![Len(calls)].left = left]
       /\ IF left # << >> THEN Emit(<<Token(",", << >>)>>, "Next line")
          ELSE at' = "Last line" /\ UNCHANGED sink
    /\ UNCHANGED <<vars, given, generator, json, dent>>

Close ==
    /\ at = "Close"
    /\ Emit(Bracket(call.kind, "]", "}"), "Returned")
    /\ calls' = Front(calls)
    /\ UNCHANGED <<vars, given, generator, json, dent>>

\* The outermost call returned.
Finish ==
    /\ at = "Returned" /\ calls = << >>
    /\ at' = "Ok"
    /\ UNCHANGED <<vars, given, generator, json, calls, dent, sink>>

JsonStep ==
    \/ Scalar \/ JsonString \/ StringStep \/ StringWritten
    \/ Open \/ FirstLine \/ NextLine \/ LastLine \/ Item \/ Colon \/ Returned \/ Close
    \/ Finish

JsonReturned == at \in {"Ok", "Error", "Panic"} /\ UNCHANGED jsonVars

JsonNext == JsonStep \/ JsonReturned

JsonSpec == JsonInit /\ [][JsonNext]_jsonVars

---------------------------------------------------------------------------
(* Properties.                                                             *)

Whitespace == {"newline", "space"}
IsInk(token) == token.char \notin Whitespace

Ink == SelectSeq(sink, IsInk)
Chars(tokens) == [k \in DOMAIN tokens |-> tokens[k].char]

\* The brackets open around the line that begins at k.
DepthAt(k) ==
    Height(Chars(sink), 1, k) - (IF sink[k + 1].char \in Closers THEN 1 ELSE 0)

\* Pretty printing: a line begins with Spaces spaces for every bracket it is
\* in and its closing bracket is back at the depth of the opening one, however
\* the containers before it were nested, as long as the width allows it.
Indented ==
    /\ \A k \in 1..Len(sink) - 1 :
          sink[k].char = "newline" /\ Spaces * DepthAt(k) < Width =>
              sink[k].spaces = Spaces * DepthAt(k)
    /\ at = "Ok" => dent = 0
=================================================================================
