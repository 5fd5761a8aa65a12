-------------------------------- MODULE MCValueSerde --------------------------------
(***************************************************************************)
(* Instances of ValueSerde: types that nest the shapes of the serde data   *)
(* model in one another, some values of each, and the calls a hand-written *)
(* Serialize may make on a map serializer.                                 *)
(***************************************************************************)
EXTENDS ValueSerde, TLC

\* Integers of 2 and 3 bits; "1" and "3" are the texts of integers.
MCDigits == ("1" :> 1) @@ ("3" :> 3)

S(kind) == Datum(kind, "", 0, << >>)
D(kind, items) == Datum(kind, "", 0, items)
N(kind, n) == Datum(kind, "", n, << >>)
T(kind, s) == Datum(kind, s, 0, << >>)

Option(X)       == Type("option", <<X>>, << >>)
Newtype(X)      == Type("newtype", <<X>>, << >>)
Vec(X)          == Type("seq", <<X>>, << >>)
Tuple(Xs)       == Type("tuple", Xs, << >>)
TupleStruct(Xs) == Type("tuple_struct", Xs, << >>)
Map(K, X)       == Type("map", <<K, X>>, << >>)
Struct(names, Xs) == Type("struct", Xs, names)
Enum(names, Xs)   == Type("enum", Xs, names)

I8  == Simple("i8")
I64 == Simple("i64")
U64 == Simple("u64")
Unit == Simple("unit")

KeyEnum == Enum(<<"a">>, <<Unit>>)
AB(X, Y) == Struct(<<"a", "b">>, <<X, Y>>)

Entries(pairs) ==
    D("map", FlattenSeq([n \in DOMAIN pairs |-> <<D("key", <<pairs[n][1]>>), D("value", <<pairs[n][2]>>)>>]))

\* Some values of a type.
RECURSIVE SomeOf(_)
SomeOf(X) ==
    LET of == [n \in DOMAIN X.of |-> SomeOf(X.of[n])]
        lists(A) == {<< >>} \union {<<a>> : a \in A} \union {<<a, b>> : a \in A, b \in A}
        fields == {<<a, b>> : a \in of[1], b \in of[2]}
    IN  CASE X.shape = "i8"   -> {N("i8", -2), N("i8", 1)}
          [] X.shape = "u8"   -> {N("u8", 3)}
          [] X.shape = "i64"  -> {N("i64", 3), N("i64", -4)}
          [] X.shape = "u64"  -> {N("u64", 2), N("u64", 2 ^ WideBits - 1)}
          [] X.shape = "bool" -> {N("bool", 1)}
          [] X.shape = "f64"  -> {T("f64", "1.5")}
          [] X.shape \in {"str", "char"} -> {T(X.shape, "a")}
          [] X.shape \in {"unit", "unit_struct"} -> {S(X.shape)}
          [] X.shape = "option"  -> {S("none")} \union {D("some", <<a>>) : a \in of[1]}
          [] X.shape = "newtype" -> {D("newtype", <<a>>) : a \in of[1]}
          [] X.shape = "seq"     -> {D("seq", l) : l \in lists(of[1])}
          [] X.shape \in {"tuple", "tuple_struct"} ->
                {D(X.shape, l) : l \in IF Len(of) = 0 THEN {<< >>} ELSE IF Len(of) = 1 THEN {<<a>> : a \in of[1]} ELSE fields}
          [] X.shape = "struct"  ->
                {D("struct", <<Datum("field", "a", 0, <<l[1]>>), Datum("field", "b", 0, <<l[2]>>)>>) : l \in fields}
          [] X.shape = "map"     ->
                {Entries(l) : l \in lists({<<a, b>> : a \in of[1], b \in of[2]})}
          [] X.shape = "enum"    ->
                {CASE X.of[n].shape = "unit"  -> T("unit_variant", X.names[n])
                   [] X.of[n].shape = "tuple" -> Datum("tuple_variant", X.names[n], 0, (CHOOSE d \in of[n] : TRUE).items)
                   [] X.of[n].shape = "struct" -> Datum("struct_variant", X.names[n], 0, (CHOOSE d \in of[n] : TRUE).items)
                   [] OTHER -> Datum("newtype_variant", X.names[n], 0, <<CHOOSE d \in of[n] : TRUE>>) : n \in DOMAIN X.of}
          [] X.shape = "any"     ->
                {S("unit"), N("i64", 1), T("f64", "1.5"), T("str", "ab"), D("seq", << >>), D("seq", <<N("i64", 1)>>),
                 D("seq", <<D("seq", << >>)>>), Entries(<< <<T("str", "a"), N("i64", 1)>> >>)}
          [] OTHER -> {}

MCTypes ==
    {Dynamic, I8, I64, U64, Text, Simple("u8"), Simple("bool"), Simple("f64"), Simple("char"), Unit, Simple("unit_struct"),
     Option(I64), Option(Unit), Option(Option(I64)), Newtype(I64), Newtype(Vec(Dynamic)), Newtype(Dynamic),
     Vec(I64), Vec(Dynamic), Vec(Vec(I8)), Vec(Option(I8)),
     Tuple(<< >>), Tuple(<<Dynamic>>), Tuple(<<I64, Vec(I8)>>), TupleStruct(<<Tuple(<<I8>>), Dynamic>>),
     Map(Text, I64), Map(Text, Map(Text, U64)), Map(I8, I8), Map(Newtype(Text), I8), Map(KeyEnum, I64),
     Map(Option(Text), I8), Map(Simple("char"), I64), Map(Text, Dynamic),
     AB(I64, Option(I64)), AB(Vec(I8), Map(Text, I8)), Vec(AB(I8, Dynamic)),
     Enum(<<"a", "b", "c", "d">>, <<Unit, I64, Tuple(<<I64, I8>>), AB(I64, I8)>>)}

\* What only hand-written code asks for or does.
Calls(items) == [type |-> Map(Text, I64), data |-> D("map", items)]
Key(s) == D("key", <<T("str", s)>>)
Val(n) == D("value", <<N("i64", n)>>)

MCSources ==
    UNION {{[type |-> X, data |-> d] : d \in SomeOf(X)} : X \in MCTypes}
    \union {Calls(<<Val(1)>>), Calls(<<Key("a")>>), Calls(<<Key("a"), Key("b"), Val(1)>>),
            Calls(<<Key("a"), Val(1), Val(2)>>), Calls(<<Key("1"), Val(1), Key("3"), Val(2)>>)}
    \union {[type |-> Vec(Simple("u8")), data |-> D("bytes", <<N("u8", 1), N("u8", 3)>>)]}

MCTargets ==
    {Dynamic, DynamicRef, Simple("str_ref"), I8, Simple("f64"), Vec(I8), Tuple(<<Dynamic>>), Vec(Tuple(<<Dynamic>>)),
     Newtype(Dynamic), Map(I8, I8), Map(Option(I8), Dynamic), Map(Newtype(Simple("char")), Dynamic),
     Map(KeyEnum, Dynamic), Map(Text, Tuple(<< >>)), Map(Simple("str_ref"), Dynamic),
     AB(I64, Option(I64)), AB(Dynamic, Vec(Tuple(<<I8>>)))}
=================================================================================
