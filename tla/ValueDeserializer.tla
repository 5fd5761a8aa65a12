------------------------------ MODULE ValueDeserializer ------------------------------
(***************************************************************************)
(* from_owned_value and from_borrowed_value: T::deserialize on a Value,    *)
(* serde/value/owned/de.rs and serde/value/borrowed/de.rs.  All methods of *)
(* both Deserializers are forwarded to deserialize_any, so the Value alone *)
(* decides which method of T's visitor is called.  The two differ in their *)
(* strings, in their map keys and in what they do with elements that a     *)
(* visitor left unread.                                                    *)
(*                                                                         *)
(* A type is a record: its shape, the types it is made of and, for a       *)
(* struct, the names of its fields.  The visitors are those of serde and   *)
(* its derive; ValueVisitor is the one of this crate.                      *)
(***************************************************************************)
EXTENDS OwnedSerializer

CONSTANTS
    NarrowBits,     \* the width of i8 and u8
    Letters,        \* the strings of one character
    Digits          \* the integers that strings are the text of

ASSUME NarrowBitsAssumption == NarrowBits \in Nat \ {0} /\ NarrowBits < WideBits

VARIABLES
    flavour,    \* "owned"; "borrowed" from a parsed text; "converted" from an owned Value
    reading,    \* the Value to be read next
    want,       \* the type to read it as
    de,         \* what the deserializer does next
    visits,     \* the containers being visited, innermost last
    answer      \* what the last visitor returned

deVars == <<reading, want, de, visits, answer>>

Flavours == {"owned", "borrowed", "converted"}

Type(shape, of, names) == [shape |-> shape, of |-> of, names |-> names]
Simple(shape) == Type(shape, << >>, << >>)
Dynamic   == Simple("any")          \* the owned Value
DynamicRef == Simple("any_ref")      \* the borrowed Value
Text  == Simple("str")

Signed(bits)   == -(2 ^ (bits - 1))..2 ^ (bits - 1) - 1
Unsigned(bits) == 0..2 ^ bits - 1
Ranges == [i8 |-> Signed(NarrowBits), u8 |-> Unsigned(NarrowBits),
              i64 |-> Signed(WideBits), u64 |-> Unsigned(WideBits)]

Anys  == {"any", "any_ref"}
Fixed == {"tuple", "tuple_struct", "newtype", "struct"}

DeInit ==
    /\ reading = Null /\ want = Dynamic
    /\ de = "Idle"
    /\ visits = << >>
    /\ answer = Null

Answer(d) == de' = "Answered" /\ answer' = d
Refuse    == de' = "Error" /\ UNCHANGED answer

---------------------------------------------------------------------------
(* deserialize_any on what is no container.                                *)

\* ValueVisitor keeps v as it is: a Value is here the Rust value that its own
\* Serialize makes of it.
ValueVisitor(v) ==
    CASE v.kind = "null"  -> Datum("unit", "", 0, << >>)
      [] v.kind = "int"   -> [v EXCEPT !.kind = "i64"]
      [] v.kind = "float" -> [v EXCEPT !.kind = "f64"]
      [] OTHER            -> v

\* What the visitor of T makes of v; nothing if it has no method for it.
Visit(T, v) ==
    CASE T.shape \in Anys -> {ValueVisitor(v)}
      [] v.kind = "null" /\ T.shape \in {"unit", "unit_struct"} -> {Datum(T.shape, "", 0, << >>)}
      [] v.kind = "null" /\ T.shape = "option" -> {Datum("none", "", 0, << >>)}
      [] v.kind = "bool" /\ T.shape = "bool"   -> {v}
      [] v.kind = "int" /\ T.shape \in DOMAIN Ranges ->
            {Datum(T.shape, "", n, << >>) : n \in {v.num} \intersect Ranges[T.shape]}
      [] v.kind \in {"int", "float"} /\ T.shape = "f64" -> {[v EXCEPT !.kind = "f64"]}
      [] v.kind = "str" /\ T.shape = "str"     -> {v}
      [] v.kind = "str" /\ T.shape = "str_ref" /\ flavour = "borrowed" -> {v}
      [] v.kind = "str" /\ T.shape = "char" /\ v.name \in Letters -> {[v EXCEPT !.kind = "char"]}
      [] OTHER -> {}

\* Mutant of DeserializeScalar: null is visit_none, not visit_unit.
DeserializeScalarNone ==
    /\ de = "Value" /\ reading.kind \notin {"array", "object"}
    /\ IF Visit(want, reading) = {} \/ (reading.kind = "null" /\ want.shape \in {"unit", "unit_struct"})
       THEN Refuse
       ELSE \E d \in Visit(want, reading) : Answer(d)
    /\ UNCHANGED <<reading, want, visits>>

DeserializeScalar ==
    /\ de = "Value" /\ reading.kind \notin {"array", "object"}
    /\ IF Visit(want, reading) = {} THEN Refuse
       ELSE \E d \in Visit(want, reading) : Answer(d)
    /\ UNCHANGED <<reading, want, visits>>

\* visit_seq or visit_map, if the visitor has it.  `value` is the Value that
\* belongs to the key just read.
DeserializeContainer ==
    /\ de = "Value" /\ reading.kind \in {"array", "object"}
    /\ IF want.shape \in Anys \union (IF reading.kind = "array" THEN Fixed \union {"seq"}
                                      ELSE {"map", "struct"})
       THEN /\ visits' = Append(visits, [of |-> reading.kind, type |-> want, left |-> reading.items,
                                         items |-> << >>, value |-> << >>, wraps |-> << >>])
            /\ de' = "Visit"
            /\ UNCHANGED answer
       ELSE Refuse /\ UNCHANGED visits
    /\ UNCHANGED <<reading, want>>

visit == Last(visits)
UpdateVisit(v) == visits' = [visits EXCEPT ![Len(visits)] = v]

\* Mutant of Leave: no look at what is left.
LeaveUnchecked(d) == Answer(d) /\ visits' = Front(visits) /\ UNCHANGED <<reading, want>>

\* The visitor has returned d.  visit_array and visit_object of the owned
\* Value then refuse what still has elements, "fewer elements in array".
Leave(d) ==
    /\ IF flavour = "owned" /\ visit.left # << >> THEN Refuse ELSE Answer(d)
    /\ visits' = Front(visits)
    /\ UNCHANGED <<reading, want>>

---------------------------------------------------------------------------
(* SeqAccess.                                                              *)

Complete == visit.type.shape \in Fixed /\ Len(visit.items) = Len(visit.type.of)

ElementType ==
    CASE visit.type.shape \in Anys   -> visit.type
      [] visit.type.shape \in Fixed  -> visit.type.of[Len(visit.items) + 1]
      [] OTHER                       -> visit.type.of[1]

\* The fields of a struct, in their order.
Fields(T, items) == [n \in DOMAIN T.names |-> Datum("field", T.names[n], 0, <<items[n]>>)]

Sequence ==
    CASE visit.type.shape = "struct" -> Datum("struct", "", 0, Fields(visit.type, visit.items))
      [] visit.type.shape \in Fixed  -> Datum(visit.type.shape, "", 0, visit.items)
      [] OTHER                       -> Datum("seq", "", 0, visit.items)

VisitSeqEnd ==
    /\ de = "Visit" /\ visit.of = "array"
    /\ \/ Complete /\ Leave(Sequence)
       \/ ~Complete /\ visit.left = << >> /\ visit.type.shape \notin Fixed /\ Leave(Sequence)
       \/ /\ ~Complete /\ visit.left = << >> /\ visit.type.shape \in Fixed
          /\ Refuse
          /\ UNCHANGED <<reading, want, visits>>

\* Mutant of NextElement: the elements are popped off the end.
NextElementPopping ==
    /\ de = "Visit" /\ visit.of = "array" /\ ~Complete /\ visit.left # << >>
    /\ reading' = Last(visit.left)
    /\ want' = ElementType
    /\ UpdateVisit([visit EXCEPT !.left = Front(visit.left)])
    /\ de' = "Value"
    /\ UNCHANGED answer

NextElement ==
    /\ de = "Visit" /\ visit.of = "array" /\ ~Complete /\ visit.left # << >>
    /\ reading' = Head(visit.left)
    /\ want' = ElementType
    /\ UpdateVisit([visit EXCEPT !.left = Tail(visit.left)])
    /\ de' = "Value"
    /\ UNCHANGED answer

---------------------------------------------------------------------------
(* MapAccess.                                                              *)

KeyType ==
    CASE visit.type.shape = "any_ref" -> Simple("str_ref")
      [] visit.type.shape = "map"     -> visit.type.of[1]
      [] OTHER                        -> Text

\* next_key_seed: the Value of the entry is kept for next_value_seed.
NextKey ==
    /\ de = "Visit" /\ visit.of = "object" /\ visit.left # << >>
    /\ UpdateVisit([visit EXCEPT !.left = Tail(visit.left), !.value = Head(visit.left).items])
    /\ reading' = Str(Head(visit.left).name)
    /\ want' = KeyType
    /\ de' = "Key"
    /\ UNCHANGED answer

\* The types MapKeyDeserializer does more for than for a Value.
KeyTypes == DOMAIN Ranges \union {"option", "newtype", "enum"}

Wrapped(d) == FoldRight(LAMBDA kind, inner : Datum(kind, "", 0, <<inner>>), visit.wraps, d)

KeyRead(d) ==
    /\ UpdateVisit([visit EXCEPT !.items = Append(visit.items, Datum("key", "", 0, <<Wrapped(d)>>)),
                                 !.wraps = << >>])
    /\ de' = "Key read"
    /\ UNCHANGED <<reading, want, answer>>

KeyRefused == Refuse /\ UNCHANGED <<reading, want, visits>>

\* The key of a borrowed map is a Value, and so is that of an owned map for
\* most types.
KeyAsValue ==
    /\ de = "Key" /\ (flavour = "owned" => want.shape \notin KeyTypes)
    /\ IF Visit(want, reading) = {} THEN KeyRefused
       ELSE \E d \in Visit(want, reading) : KeyRead(d)

\* deserialize_integer_key: a key that is no number of the type goes to the
\* visitor as a string, and is refused there.
IntegerKey ==
    /\ de = "Key" /\ flavour = "owned" /\ want.shape \in DOMAIN Ranges
    /\ IF reading.name \in DOMAIN Digits /\ Digits[reading.name] \in Ranges[want.shape]
       THEN KeyRead(Datum(want.shape, "", Digits[reading.name], << >>))
       ELSE KeyRefused

\* visit_some and visit_newtype_struct, with the key itself.
WrappedKey ==
    /\ de = "Key" /\ flavour = "owned" /\ want.shape \in {"option", "newtype"}
    /\ UpdateVisit([visit EXCEPT !.wraps =
                       Append(visit.wraps, IF want.shape = "option" THEN "some" ELSE "newtype")])
    /\ want' = want.of[1]
    /\ UNCHANGED <<reading, de, answer>>

\* A unit variant is the only one a string can be.
EnumKey ==
    /\ de = "Key" /\ flavour = "owned" /\ want.shape = "enum"
    /\ IF \E n \in DOMAIN want.names : want.names[n] = reading.name /\ want.of[n] = Simple("unit")
       THEN KeyRead(Datum("unit_variant", reading.name, 0, << >>))
       ELSE KeyRefused

key == Last(visit.items).items[1].name

\* next_value_seed takes the Value.  A struct has a type for those of its
\* fields and reads the others as IgnoredAny, which takes anything.
NextValue ==
    /\ de = "Key read"
    /\ LET T == visit.type
           field == {n \in DOMAIN T.names : T.names[n] = key}
           kept  == [visit EXCEPT !.value = << >>]
       IN  IF T.shape = "struct" /\ field = {}
           THEN /\ UpdateVisit([kept EXCEPT !.items = Front(visit.items)])
                /\ de' = "Visit"
                /\ UNCHANGED <<reading, want>>
           ELSE /\ UpdateVisit(kept)
                /\ reading' = visit.value[1]
                /\ want' = IF T.shape = "struct" THEN T.of[CHOOSE n \in field : TRUE]
                           ELSE IF T.shape = "map" THEN T.of[2] ELSE T
                /\ de' = "Value"
    /\ UNCHANGED answer

\* The value of field n of a struct among the calls of a map; a missing
\* Option is None.
FieldOf(n) ==
    LET T    == visit.type
        keys == {k \in DOMAIN visit.items : visit.items[k].kind = "key"
                                              /\ visit.items[k].items[1].name = T.names[n]}
    IN  IF keys # {} THEN visit.items[(CHOOSE k \in keys : TRUE) + 1].items
        ELSE IF T.of[n].shape = "option" THEN <<Datum("none", "", 0, << >>)>> ELSE << >>

VisitMapEnd ==
    /\ de = "Visit" /\ visit.of = "object" /\ visit.left = << >>
    /\ LET T == visit.type
           fields == [n \in DOMAIN T.names |-> FieldOf(n)]
       IN  \/ T.shape # "struct" /\ Leave(Datum("map", "", 0, visit.items))
           \/ /\ T.shape = "struct" /\ \A n \in DOMAIN fields : fields[n] # << >>
              /\ Leave(Datum("struct", "", 0, Fields(T, [n \in DOMAIN fields |-> fields[n][1]])))
           \/ /\ T.shape = "struct" /\ \E n \in DOMAIN fields : fields[n] = << >>
              /\ Refuse
              /\ UNCHANGED <<reading, want, visits>>

\* An element, or the value of an entry, has been read.
Visited ==
    /\ de = "Answered" /\ visits # << >>
    /\ UpdateVisit([visit EXCEPT !.items = Append(visit.items,
                       IF visit.of = "array" THEN answer ELSE Datum("value", "", 0, <<answer>>))])
    /\ de' = "Visit"
    /\ UNCHANGED <<reading, want, answer>>

Deserialized ==
    /\ de = "Answered" /\ visits = << >>
    /\ de' = "Ok"
    /\ UNCHANGED <<reading, want, visits, answer>>

DeStep ==
    \/ DeserializeScalar \/ DeserializeContainer
    \/ NextElement \/ VisitSeqEnd
    \/ NextKey \/ KeyAsValue \/ IntegerKey \/ WrappedKey \/ EnumKey \/ NextValue \/ VisitMapEnd
    \/ Visited \/ Deserialized
=================================================================================
