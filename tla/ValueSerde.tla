--------------------------------- MODULE ValueSerde ---------------------------------
(***************************************************************************)
(* A Rust value becomes a Value by to_owned_value, is perhaps turned into  *)
(* a borrowed Value (From<owned::Value>, or to_borrowed_value of its       *)
(* text), and is read as some type by from_owned_value or                  *)
(* from_borrowed_value.                                                    *)
(***************************************************************************)
EXTENDS ValueDeserializer, FiniteSets

CONSTANTS
    Sources,        \* [type, data]: Rust values and their types
    Targets         \* the types to read them as

VARIABLES
    source,         \* what is serialized
    target          \* what it is then read as

valueVars == <<data, ser, compounds, value, flavour, reading, want, de, visits, answer,
               source, target>>

\* The values of T borrow from what they are read from: from_owned_value does
\* not have them (DeserializeOwned).
RECURSIVE Borrows(_)
Borrows(T) == T.shape \in {"any_ref", "str_ref"} \/ \E n \in DOMAIN T.of : Borrows(T.of[n])

Init ==
    /\ source \in Sources
    /\ target \in Targets \union {source.type}
    /\ flavour \in Flavours
    /\ flavour = "owned" => ~Borrows(target)
    /\ SerInit(source.data)
    /\ DeInit

\* The Value is read; its conversion to a borrowed one keeps all of it but
\* the ownership of its strings.
FromValue ==
    /\ ser = "Ok" /\ de = "Idle"
    /\ reading' = value
    /\ want' = target
    /\ de' = "Value"
    /\ UNCHANGED <<visits, answer, serVars, flavour, source, target>>

Serialize   == SerStep /\ UNCHANGED <<deVars, flavour, source, target>>
Deserialize == DeStep /\ UNCHANGED <<serVars, flavour, source, target>>

Returned == (ser \in {"Error", "Panic"} \/ de \in {"Ok", "Error"}) /\ UNCHANGED valueVars

Next == Serialize \/ FromValue \/ Deserialize \/ Returned

Spec == Init /\ [][Next]_valueVars

---------------------------------------------------------------------------
(* The reference.                                                          *)

\* The Value a Rust value stands for.  Each value of a map belongs to the
\* last key before it; of equal keys the last value counts.
RECURSIVE Plain(_), KeyText(_)
KeyText(d) == IF d.kind = "newtype" THEN KeyText(d.items[1]) ELSE d.name
Plain(d) ==
    LET items == [n \in DOMAIN d.items |-> Plain(d.items[n])]
        fields == Object([n \in DOMAIN d.items |-> Member(d.items[n].name, items[n])])
        values == {n \in DOMAIN d.items : d.items[n].kind = "value"}
        keyOf(n) == KeyText(d.items[n - 1].items[1])
        first  == {n \in values : \A m \in values : m < n => keyOf(m) # keyOf(n)}
        last(n) == CHOOSE m \in values : keyOf(m) = keyOf(n) /\ \A k \in values : keyOf(k) = keyOf(n) => k <= m
        Variant(v) == Object(<<Member(d.name, v)>>)
    IN  CASE d.kind \in {"some", "newtype", "field", "value"} -> items[1]
          [] d.kind \in {"unit", "unit_struct", "none"}       -> Null
          [] d.kind \in {"i8", "i64", "u8"}                   -> Integer(d.num)
          [] d.kind = "u64" -> Integer(((d.num + 2 ^ (WideBits - 1)) % (2 ^ WideBits)) - 2 ^ (WideBits - 1))
          [] d.kind = "f64"                                   -> [d EXCEPT !.kind = "float"]
          [] d.kind \in {"str", "char", "unit_variant"}       -> Str(d.name)
          [] d.kind \in {"seq", "tuple", "tuple_struct", "bytes"} -> Array(items)
          [] d.kind = "tuple_variant"                         -> Variant(Array(items))
          [] d.kind = "newtype_variant"                       -> Variant(items[1])
          [] d.kind = "struct"                                -> fields
          [] d.kind = "struct_variant"                        -> Variant(fields)
          [] d.kind = "map" ->
                Object([n \in 1..Cardinality(first) |->
                    LET at == SetToSortSeq(first, <)[n] IN Member(keyOf(at), items[last(at)])])
          [] OTHER -> d

\* What the calls on a map serializer can go wrong with.
IsTextKey(d) == d.kind \in {"str", "unit_variant"}
RECURSIVE KeyOf(_), Parts(_)
KeyOf(d) == IF d.kind = "newtype" THEN KeyOf(d.items[1]) ELSE d
Parts(d) == {d} \union UNION {Parts(d.items[n]) : n \in DOMAIN d.items}

Some(Is(_)) == \E d \in Parts(source.data) : Is(d)

HasOtherKey(d) == d.kind = "key" /\ ~IsTextKey(KeyOf(d.items[1]))
HasValueFirst(d) ==
    d.kind = "map" /\ \E n \in DOMAIN d.items :
        d.items[n].kind = "value" /\ (n = 1 \/ d.items[n - 1].kind # "key")

\* Calls that no type that is read back makes: those for bytes, a key without
\* a value, a key twice.
Irregular(d) ==
    \/ d.kind = "bytes"
    \/ d.kind = "map" /\ \E n \in DOMAIN d.items :
          /\ d.items[n].kind = "key"
          /\ \/ n = Len(d.items) \/ d.items[n + 1].kind = "key"
             \/ \E m \in 1..n - 1 : d.items[m] = d.items[n]

\* A number that its Value has lost.
Lost(d) == d.kind = "u64" /\ AsI64(d.num) # d.num

\* What its Value has kept, but read by a visitor with no method for a Value:
\* that of an Option knows visit_some, that of a newtype struct
\* visit_newtype_struct and that of an enum visit_enum, and deserialize_any, to
\* which all is forwarded, calls none of them.
Unserved(d) ==
    \/ d.kind \in {"newtype", "unit_variant", "newtype_variant", "tuple_variant", "struct_variant"}
    \/ d.kind = "some" /\ Plain(d) # Null

\* Where another one is: Some(()) reads back as None, and the visitor of a
\* newtype struct takes the array its content became for a list of its fields.
ReadBackWrong(d) ==
    \/ d.kind = "some" /\ Plain(d) = Null
    \/ d.kind = "newtype" /\ Plain(d).kind = "array"

\* Every element of every array of v is in d.
RECURSIVE Covers(_, _)
Covers(d, v) ==
    CASE d.kind \in {"field", "value"} -> Covers(d.items[1], v)
      [] v.kind = "array" ->
            /\ Len(d.items) = Len(v.items)
            /\ \A n \in DOMAIN v.items : Covers(d.items[n], v.items[n])
      [] v.kind = "object" /\ d.kind = "map" ->
            /\ Len(d.items) = 2 * Len(v.items)
            /\ \A n \in DOMAIN v.items : Covers(d.items[2 * n], v.items[n].items[1])
      [] v.kind = "object" /\ d.kind = "struct" ->
            \A n \in DOMAIN d.items : \A m \in DOMAIN v.items :
                v.items[m].name = d.items[n].name => Covers(d.items[n], v.items[m].items[1])
      [] OTHER -> v.items = << >>

---------------------------------------------------------------------------
(* Properties.                                                             *)

\* The Value is the one the Rust value stands for, whatever order a Serialize
\* makes its calls on a map serializer in: no value gets the key of another,
\* and the pending key of an outer map outlives the maps inside.  A u64 above
\* i64::MAX stands here for the negative number the code makes of it.
ValueDenotes == ser = "Ok" => value = Plain(source.data)

\* to_owned_value fails on a map key that is no string, and on nothing else;
\* it panics on a value without a key, and on nothing else.
FailsOnKeysOnly ==
    /\ ser = "Error" => Some(HasOtherKey)
    /\ ser = "Panic" => Some(HasValueFirst)
    /\ ser = "Ok"    => ~Some(HasOtherKey) /\ ~Some(HasValueFirst)

\* A Rust value that is read back as its own type is read back as it was, or
\* refused.  Not so where a Some is of what serializes as null ("the values
\* Some(()) and None both serialize as just null", serde/de.rs), nor where a
\* newtype is of what became an array: its visitor takes that for the list of
\* the newtype's own fields.
ReadsBackItself ==
    de = "Ok" /\ target = source.type /\ ~Some(ReadBackWrong) /\ ~Some(Irregular) =>
        answer = source.data

\* It is refused for nothing but a u64 that its Value has lost and, although
\* their Values have kept all of them, an Option that is there, a newtype and a
\* variant of an enum: deserialize_any does not serve the visitors of those
\* three.  No other type is refused, however they are nested.
ReadsBackUnless ==
    de = "Error" /\ target = source.type => Some(Lost) \/ Some(Unserved)

\* Whatever an owned Value is read as, no array in what is read has lost an
\* element, at any depth: "fewer elements in array".  What a struct does not
\* know it drops whole, and nothing looks at the arrays in that.
NothingUnread == de = "Ok" /\ flavour = "owned" => Covers(answer, value)
=================================================================================
