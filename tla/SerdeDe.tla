--------------------------------- MODULE SerdeDe ---------------------------------
(***************************************************************************)
(* serde::from_slice: validate (Stage2), then T::deserialize, which asks   *)
(* the Deserializer of serde/de.rs for what T is made of.  The sequence    *)
(* and map accesses (CommaSeparated) move the cursor over brackets, commas *)
(* and colons by counting, without a look at them, so one skip too few or  *)
(* too many shifts everything that is read afterwards.                     *)
(*                                                                         *)
(* A type is a record: its shape, and in `of` the types it is made of.     *)
(* The visitors are those of serde: one for a tuple asks for as many       *)
(* elements as the tuple has, the others ask until there are no more.  A   *)
(* struct has one field, called name, and reads the members it does not    *)
(* know as dynamic values it then drops; they stay in `items` here.  i8    *)
(* and u8 stand for the six types narrower than 64 bits, f64 for f32 too.  *)
(***************************************************************************)
EXTENDS Cursor, SequencesExt

CONSTANT Types      \* the types from_slice is asked for

\* The characters the values of a scalar type begin with: parse_signed takes
\* integers, parse_unsigned those without a sign, parse_double every number.
Signed   == {"num", "large", "neg"}
Unsigned == {"num", "large"}
Scalars  == [i8 |-> Signed, i64 |-> Signed, u8 |-> Unsigned, u64 |-> Unsigned,
             f64 |-> Numerals, str |-> Strings, unit |-> {"null"}, bool |-> {"bool"}]

Narrow  == {"i8", "u8"}
Numeric == {"i8", "i64", "u8", "u64", "f64"}
Tuples  == {"tuple", "tuple struct"}
Maps    == {"map", "struct"}
Shapes  == DOMAIN Scalars \union Tuples \union Maps
             \union {"any", "option", "newtype", "enum", "seq"}

ASSUME TypesAssumption == \A T \in Types : T.shape \in Shapes

VARIABLES
    type,       \* the type from_slice was asked for
    want        \* the type of the value to be read next

serdeVars == <<doc, pc, i, depth, last_start, cnt, stack, counts, result,
               at, idx, calls, value, failure, type, want>>

Dynamic == [shape |-> "any"]

SerdeInit == CursorInit /\ type = Dynamic /\ want = Dynamic

SerdeValidate == Step /\ UNCHANGED <<walk, type, want>>

Begin ==
    /\ FromSlice
    /\ type' \in Types
    /\ want' = type'

---------------------------------------------------------------------------

call == Last(calls)

\* An error met with the cursor at k leaves through every call under way.  On
\* its way out of a tuple, and out of the value of a map, there is a skip.
FailIn(under, e, k) ==
    /\ at' = "Done"
    /\ failure' = e
    /\ idx' = k + Cardinality({n \in DOMAIN under :
                     under[n].of = "map" \/ under[n].type.shape = "tuple"})
    /\ UNCHANGED <<calls, value, want>>

Fail(e, k) == FailIn(calls, e, k)

\* What the next character can be.  Of the Deserializer's methods only those
\* for numbers move on without a check; the others end with Syntax.
NextChars == IF want.shape \in Numeric THEN CharsAt(idx + 1)
             ELSE IF idx < Len(doc) THEN {doc[idx + 1]} ELSE {"end"}

\* A leaf at k whose first character is c.
Scalar(c, k) ==
    \/ c = "badstr" /\ Fail("InvalidEscape", k)
    \/ c = "badnum" /\ Fail("InvalidNumber", k)
    \/ c \notin {"badstr", "badnum"} /\ idx' = k /\ Answer(Leaf(k)) /\ UNCHANGED <<calls, want>>

\* The accesses of the elements of the container opened at k: its count is
\* what is left of it.
CommaSeparated(of, k) ==
    \E len \in CountsAt(k) :
        /\ calls' = Append(calls, [of |-> of, type |-> want, len |-> len, first |-> TRUE,
                                   items |-> << >>, key |-> 0])
        /\ idx' = k
        /\ Proceed("Visit")
        /\ UNCHANGED want

\* `v as i8` keeps the low bits of an integer that needs more.
Narrowed(p) == [Leaf(p) EXCEPT !.kind = "narrowed"]

\* deserialize_i64 and its like, deserialize_str, deserialize_unit and
\* deserialize_bool.  An atom is taken at its first letter.
DeserializeScalar ==
    /\ at = "Value" /\ want.shape \in DOMAIN Scalars
    /\ \E c \in NextChars :
          \/ /\ \/ c \in Scalars[want.shape]
                \/ c \in BadAtoms /\ want.shape \in {"unit", "bool"}
             /\ idx' = idx + 1
             /\ Answer(IF want.shape \in Narrow /\ c = "large" THEN Narrowed(idx + 1)
                       ELSE Leaf(idx + 1))
             /\ UNCHANGED <<calls, want>>
          \/ c \notin Scalars[want.shape] /\ Fail("ExpectedScalar", idx + 1)
    /\ UNCHANGED <<vars, type>>

DeserializeAny ==
    /\ at = "Value" /\ want.shape = "any"
    /\ \E c \in NextChars :
          \/ c = "[" /\ CommaSeparated("array", idx + 1)
          \/ c = "{" /\ CommaSeparated("map", idx + 1)
          \/ c \in Quotes \union Numbers \union Atoms \union BadAtoms /\ Scalar(c, idx + 1)
          \/ c \in Closers \union {":", ",", "other", "end"}
                /\ Fail("UnexpectedCharacter", idx + 1)
    /\ UNCHANGED <<vars, type>>

\* A look at the next character: null is consumed, anything else is left to
\* the type the option is made of.
DeserializeOption ==
    /\ at = "Value" /\ want.shape = "option"
    /\ \E c \in NextChars :
          \/ c = "end" /\ Fail("UnexpectedEnd", idx)
          \/ c \in BadAtoms \union {"null"} /\ Scalar(c, idx + 1)
          \/ /\ c \notin {"end", "null"}
             /\ want' = want.of
             /\ Proceed("Value")
             /\ UNCHANGED <<idx, calls>>
    /\ UNCHANGED <<vars, type>>

\* A newtype is what it wraps.
DeserializeNewtype ==
    /\ at = "Value" /\ want.shape = "newtype"
    /\ want' = want.of
    /\ Proceed("Value")
    /\ UNCHANGED <<vars, idx, calls, type>>

\* deserialize_enum is forwarded to deserialize_any, and no visitor of an enum
\* takes the string, the number or the map it is then given.
DeserializeEnum ==
    /\ at = "Value" /\ want.shape = "enum"
    /\ Fail("invalid type", idx + 1)
    /\ UNCHANGED <<vars, type>>

\* Mutant of DeserializeSeq: any bracket will do.
DeserializeSeqAnyBracket ==
    /\ at = "Value" /\ want.shape \in Tuples \union {"seq"}
    /\ \E c \in NextChars : c \in Openers /\ CommaSeparated("array", idx + 1)
    /\ UNCHANGED <<vars, type>>

\* deserialize_seq, and with it those of tuples and tuple structs.  The skip
\* of a tuple comes after an error too.
DeserializeSeq ==
    /\ at = "Value" /\ want.shape \in Tuples \union {"seq"}
    /\ \E c \in NextChars :
          IF c = "[" THEN CommaSeparated("array", idx + 1)
          ELSE Fail("ExpectedArray", IF want.shape = "tuple" THEN idx + 2 ELSE idx + 1)
    /\ UNCHANGED <<vars, type>>

\* deserialize_map, and with it that of structs.
DeserializeMap ==
    /\ at = "Value" /\ want.shape \in Maps
    /\ \E c \in NextChars :
          IF c = "{" THEN CommaSeparated("map", idx + 1) ELSE Fail("ExpectedMap", idx + 1)
    /\ UNCHANGED <<vars, type>>

---------------------------------------------------------------------------
(* The accesses, as the visitors use them.                                 *)

IsTuple(T) == T.shape \in Tuples

\* The members of an object that are the field of a struct.
FieldsAmong(items) == {n \in DOMAIN items : doc[items[n].at] = "name"}

\* The type of the next element of the container under way.
ElementType ==
    CASE call.type.shape = "any" -> Dynamic
      [] IsTuple(call.type)      -> call.type.of[Len(call.items) + 1]
      [] call.type.shape = "struct" /\ doc[call.key] # "name" -> Dynamic
      [] OTHER                   -> call.type.of

Complete == IsTuple(call.type) /\ Len(call.items) = Len(call.type.of)

Visited == IF call.of = "array" THEN Array(call.items) ELSE Object(call.items)

\* Mutant of Leave: no skip at the end of a tuple.
LeaveNoSkip(k) == calls' = Front(calls) /\ Answer(Visited) /\ idx' = k /\ UNCHANGED want

\* The visitor returns the container; deserialize_tuple, and no other, skips
\* one more character.
Leave(k) ==
    /\ calls' = Front(calls)
    /\ Answer(Visited)
    /\ idx' = IF call.type.shape = "tuple" THEN k + 1 ELSE k
    /\ UNCHANGED want

\* The visitor of a tuple has all its elements.
TupleComplete ==
    /\ at = "Visit" /\ call.of = "array" /\ Complete
    /\ Leave(idx)
    /\ UNCHANGED <<vars, type>>

\* next_element_seed: over the comma, unless the element is the first; over
\* the closing bracket when there is none left, which a tuple takes for an
\* error.
NextElement ==
    /\ at = "Visit" /\ call.of = "array" /\ ~Complete
    /\ \/ call.len = 0 /\ ~IsTuple(call.type) /\ Leave(idx + 1)
       \/ call.len = 0 /\ IsTuple(call.type) /\ Fail("invalid length", idx + 1)
       \/ /\ call.len > 0
          /\ idx' = IF call.first THEN idx ELSE idx + 1
          /\ calls' = [calls EXCEPT ![Len(calls)].first = FALSE,
                                    ![Len(calls)].len = call.len - 1]
          /\ want' = ElementType
          /\ Proceed("Value")
    /\ UNCHANGED <<vars, type>>

\* Mutant of AfterMap: the closing bracket is skipped in any case.
AfterMapAlways == idx + 1

\* Where the cursor leaves a map: next_value_seed has skipped the closing
\* bracket, unless the map is empty.
AfterMap == IF call.first THEN idx + 1 ELSE idx

\* A struct may go without a field of an optional type, and no other.
FieldMissing ==
    /\ call.type.shape = "struct" /\ FieldsAmong(call.items) = {}
    /\ call.type.of.shape # "option"

FieldRepeated(c) ==
    call.type.shape = "struct" /\ c = "name" /\ FieldsAmong(call.items) # {}

\* next_key_seed, and what the visitor makes of the key.
NextKey ==
    /\ at = "Visit" /\ call.of = "map"
    /\ \/ call.len = 0 /\ ~FieldMissing /\ Leave(AfterMap)
       \/ call.len = 0 /\ FieldMissing /\ FailIn(Front(calls), "missing field", AfterMap)
       \/ /\ call.len > 0
          /\ LET c == IF idx < Len(doc) THEN doc[idx + 1] ELSE "end" IN
             \/ /\ c \in Strings /\ ~FieldRepeated(c)
                /\ idx' = idx + 1
                /\ calls' = [calls EXCEPT ![Len(calls)].first = FALSE,
                                          ![Len(calls)].len = call.len - 1,
                                          ![Len(calls)].key = idx + 1]
                /\ Proceed("Key read")
                /\ UNCHANGED want
             \/ /\ c \notin Strings \/ FieldRepeated(c)
                /\ FailIn(Front(calls), "not a key", idx + 1)
    /\ UNCHANGED <<vars, type>>

\* next_value_seed: over the colon to the value.
NextValue ==
    /\ at = "Key read"
    /\ idx' = idx + 1
    /\ want' = ElementType
    /\ Proceed("Value")
    /\ UNCHANGED <<vars, type, calls>>

\* A value has been read: next_element_seed hands it to the visitor, and
\* next_value_seed skips the comma or the closing bracket first.
ValueRead ==
    /\ at = "Value returned" /\ calls # << >>
    /\ LET item == IF call.of = "array" THEN value ELSE Member(call.key, value) IN
       calls' = [calls EXCEPT ![Len(calls)].items = Append(call.items, item)]
    /\ idx' = IF call.of = "array" THEN idx ELSE idx + 1
    /\ Proceed("Visit")
    /\ UNCHANGED <<vars, type, want>>

Answered == Finish /\ UNCHANGED <<type, want>>

SerdeStep ==
    \/ SerdeValidate \/ Begin
    \/ DeserializeScalar \/ DeserializeAny \/ DeserializeOption
    \/ DeserializeNewtype \/ DeserializeEnum \/ DeserializeSeq \/ DeserializeMap
    \/ TupleComplete \/ NextElement \/ NextKey \/ NextValue \/ ValueRead
    \/ Answered

SerdeReturned == at = "Done" /\ UNCHANGED serdeVars

SerdeNext == SerdeStep \/ SerdeReturned

SerdeSpec == SerdeInit /\ [][SerdeNext]_serdeVars

---------------------------------------------------------------------------

\* Whatever the document and the type, and however far a tuple has led the
\* accesses astray, the cursor stays inside structural_indexes.  Only the
\* skip of a tuple on its way out with an error can take it one too far.
SerdeCursorInRange ==
    idx \in 0..(IF failure = "none" THEN Len(doc) ELSE Len(doc) + 1)
=================================================================================
