------------------------------- MODULE OwnedSerializer -------------------------------
(***************************************************************************)
(* to_owned_value: the Serializer of serde/value/owned/se.rs, which builds *)
(* an owned Value from the calls that a Rust value's Serialize makes.      *)
(*                                                                         *)
(* Rust values and Values are records of the same fields.  A Rust value    *)
(* has the serde data model's name for its kind; the items of a compound   *)
(* are the calls made on its compound serializer:                          *)
(*   "seq" "tuple" "tuple_struct" "tuple_variant"  the elements            *)
(*   "struct" "struct_variant"                     a "field" for each      *)
(*   "map"    a "key" for serialize_key, a "value" for serialize_value, in *)
(*            the order the hand-written or derived Serialize makes them   *)
(* Integers are scaled down: the 64-bit types have WideBits bits.          *)
(***************************************************************************)
EXTENDS Integers, Sequences, SequencesExt

CONSTANT WideBits

ASSUME WideBitsAssumption == WideBits \in Nat \ {0}

VARIABLES
    data,       \* what is to be serialized next
    ser,        \* what the serializer does next
    compounds,  \* the compound serializers under way, innermost last
    value       \* the Value the last call returned

serVars == <<data, ser, compounds, value>>

Datum(kind, name, num, items) == [kind |-> kind, name |-> name, num |-> num, items |-> items]

Null      == Datum("null", "", 0, << >>)
Integer(n)    == Datum("int", "", n, << >>)
Str(s)    == Datum("str", s, 0, << >>)
Array(s)  == Datum("array", "", 0, s)
Object(s) == Datum("object", "", 0, s)
Member(key, v) == Datum("member", key, 0, <<v>>)

\* value as i64, of a u64.
AsI64(n) == IF n < 2 ^ (WideBits - 1) THEN n ELSE n - 2 ^ WideBits

\* Map::insert: a key that is there keeps its place and takes the new value.
Insert(members, key, v) ==
    LET same == {k \in DOMAIN members : members[k].name = key} IN
    IF same = {} THEN Append(members, Member(key, v))
    ELSE [k \in DOMAIN members |-> IF k \in same THEN Member(key, v) ELSE members[k]]

SerInit(x) ==
    /\ data = x
    /\ ser = "Serialize"
    /\ compounds = << >>
    /\ value = Null

Return(v) == ser' = "Returned" /\ value' = v

---------------------------------------------------------------------------

\* A u64 above i64::MAX becomes a negative number.
SerializeU64 ==
    /\ ser = "Serialize" /\ data.kind = "u64"
    /\ Return(Integer(AsI64(data.num)))
    /\ UNCHANGED <<data, compounds>>

\* The methods for the other scalars; the narrow types go by way of the wide
\* ones, and a unit variant by way of serialize_str.
SerializeScalar ==
    /\ ser = "Serialize"
    /\ \/ data.kind \in {"i8", "i64", "u8"} /\ Return(Integer(data.num))
       \/ data.kind = "bool" /\ Return(data)
       \/ data.kind = "f64" /\ Return([data EXCEPT !.kind = "float"])
       \/ data.kind \in {"char", "str", "unit_variant"} /\ Return(Str(data.name))
       \/ data.kind \in {"unit", "unit_struct", "none"} /\ Return(Null)
       \/ data.kind = "bytes" /\ Return(Array([k \in DOMAIN data.items |-> Integer(data.items[k].num)]))
    /\ UNCHANGED <<data, compounds>>

\* serialize_some and serialize_newtype_struct leave no trace.
SerializeTransparent ==
    /\ ser = "Serialize" /\ data.kind \in {"some", "newtype"}
    /\ data' = data.items[1]
    /\ UNCHANGED <<ser, compounds, value>>

Sequential == {"seq", "tuple", "tuple_struct", "tuple_variant"}
Structs    == {"struct", "struct_variant"}

\* The methods that return a compound serializer, and serialize_newtype_variant.
Compound ==
    /\ ser = "Serialize" /\ data.kind \in Sequential \union Structs \union {"map", "newtype_variant"}
    /\ compounds' = Append(compounds, [kind |-> data.kind, name |-> data.name, left |-> data.items,
                                       items |-> << >>, next_key |-> << >>, key |-> ""])
    /\ ser' = "Compound"
    /\ UNCHANGED <<data, value>>

top == Last(compounds)
Update(compound) == compounds' = [compounds EXCEPT ![Len(compounds)] = compound]

\* The compound serializer is called with the next of its items.
SerializeElement ==
    /\ ser = "Compound" /\ top.left # << >>
    /\ top.kind \in Sequential \union {"newtype_variant"}
    /\ data' = Head(top.left)
    /\ ser' = "Serialize"
    /\ UNCHANGED <<compounds, value>>

\* serialize_field; that of a struct is serialize_key and serialize_value.
SerializeField ==
    /\ ser = "Compound" /\ top.left # << >> /\ top.kind \in Structs
    /\ Update([top EXCEPT !.key = Head(top.left).name])
    /\ data' = Head(top.left).items[1]
    /\ ser' = "Serialize"
    /\ UNCHANGED value

SerializeKey ==
    /\ ser = "Compound" /\ top.left # << >> /\ Head(top.left).kind = "key"
    /\ data' = Head(top.left).items[1]
    /\ ser' = "Key"
    /\ UNCHANGED <<compounds, value>>

\* Mutant of MapKey: what looks like a string is taken for a key.
MapKeyAnyText ==
    /\ ser = "Key"
    /\ IF data.kind \in {"str", "unit_variant", "char"}
       THEN /\ Update([top EXCEPT !.next_key = <<data.name>>, !.left = Tail(top.left)])
            /\ ser' = "Compound"
       ELSE ser' = "Error" /\ UNCHANGED compounds
    /\ UNCHANGED <<data, value>>

\* MapKeySerializer: strings and unit variants, newtypes of them, nothing else.
MapKey ==
    /\ ser = "Key"
    /\ \/ data.kind = "newtype" /\ data' = data.items[1] /\ UNCHANGED <<ser, compounds>>
       \/ /\ data.kind \in {"str", "unit_variant"}
          /\ Update([top EXCEPT !.next_key = <<data.name>>, !.left = Tail(top.left)])
          /\ ser' = "Compound"
          /\ UNCHANGED data
       \/ /\ data.kind \notin {"newtype", "str", "unit_variant"}
          /\ ser' = "Error"
          /\ UNCHANGED <<data, compounds>>
    /\ UNCHANGED value

\* Mutant of SerializeValue: the key is left for the next value.
SerializeValueKeepingKey ==
    /\ ser = "Compound" /\ top.left # << >> /\ Head(top.left).kind = "value"
    /\ \/ top.next_key = << >> /\ ser' = "Panic" /\ UNCHANGED <<data, compounds>>
       \/ /\ top.next_key # << >>
          /\ Update([top EXCEPT !.key = top.next_key[1]])
          /\ data' = Head(top.left).items[1]
          /\ ser' = "Serialize"
    /\ UNCHANGED value

\* next_key.take(): "serialize_value called before serialize_key" is a panic.
SerializeValue ==
    /\ ser = "Compound" /\ top.left # << >> /\ Head(top.left).kind = "value"
    /\ \/ top.next_key = << >> /\ ser' = "Panic" /\ UNCHANGED <<data, compounds>>
       \/ /\ top.next_key # << >>
          /\ Update([top EXCEPT !.key = top.next_key[1], !.next_key = << >>])
          /\ data' = Head(top.left).items[1]
          /\ ser' = "Serialize"
    /\ UNCHANGED value

\* The Value of an item is in.
Added ==
    /\ ser = "Returned" /\ compounds # << >>
    /\ Update([top EXCEPT !.left = Tail(top.left),
                          !.items = IF top.kind \in Structs \union {"map"} THEN Insert(top.items, top.key, value)
                                    ELSE Append(top.items, value)])
    /\ ser' = "Compound"
    /\ UNCHANGED <<data, value>>

\* end; a variant is an object of one member.  A key without a value is lost.
End ==
    /\ ser = "Compound" /\ top.left = << >>
    /\ LET named(v) == Object(<<Member(top.name, v)>>) IN
       Return(CASE top.kind \in {"map", "struct"}  -> Object(top.items)
                [] top.kind = "struct_variant"     -> named(Object(top.items))
                [] top.kind = "tuple_variant"      -> named(Array(top.items))
                [] top.kind = "newtype_variant"    -> named(top.items[1])
                [] OTHER                           -> Array(top.items))
    /\ compounds' = Front(compounds)
    /\ UNCHANGED data

Serialized ==
    /\ ser = "Returned" /\ compounds = << >>
    /\ ser' = "Ok"
    /\ UNCHANGED <<data, compounds, value>>

SerStep ==
    \/ SerializeU64 \/ SerializeScalar \/ SerializeTransparent
    \/ Compound \/ SerializeElement \/ SerializeField
    \/ SerializeKey \/ MapKey \/ SerializeValue
    \/ Added \/ End \/ Serialized
=================================================================================
