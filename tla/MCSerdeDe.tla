-------------------------------- MODULE MCSerdeDe --------------------------------
(***************************************************************************)
(* Instances of SerdeDe: well-formed texts with every choice of number or  *)
(* null for their scalars, and types that nest each shape in each other.   *)
(***************************************************************************)
EXTENDS SerdeReads

CONSTANTS
    LongLength,     \* the longest text
    MarkedLength    \* the longest text with a number of another kind or a
                    \* member called name

Texts == TextsUpTo(LongLength)

Values == {"num", "null"}

\* The texts that `text` stands for.
Readings(text) ==
    LET at_(c) == {k \in DOMAIN text : text[k] = c} IN
    {[k \in DOMAIN text |-> IF text[k] = "val" THEN choice[k] ELSE text[k]] :
        choice \in [at_("val") -> Values]}

\* The same with one number of another kind, and some of the keys the name of
\* a struct's field.
OtherKinds(d) ==
    {d} \union {[d EXCEPT ![k] = c] : k \in {j \in DOMAIN d : d[j] = "num"},
                                      c \in {"neg", "large", "float"}}

Named(d) ==
    {[k \in DOMAIN d |-> IF k \in names THEN "name" ELSE d[k]] :
        names \in SUBSET {j \in DOMAIN d : d[j] = "str" /\ j < Len(d) /\ d[j + 1] = ":"}}

Marked == UNION {UNION {Named(e) : e \in UNION {OtherKinds(d) : d \in Readings(t)}} :
                    t \in {u \in Texts : Len(u) <= MarkedLength}}

MCDocuments ==
    UNION {Readings(t) : t \in Texts} \union Marked \union
    {<<c>> : c \in {"badnum", "badstr", "bool"}} \union {<<"[", c, "]">> : c \in {"badnum", "badstr"}}

I8        == [shape |-> "i8"]
U8        == [shape |-> "u8"]
I64       == [shape |-> "i64"]
U64       == [shape |-> "u64"]
F64       == [shape |-> "f64"]
Enum      == [shape |-> "enum"]
Newtype(T) == [shape |-> "newtype", of |-> T]
Struct(T) == [shape |-> "struct", of |-> T]
Str       == [shape |-> "str"]
Unit      == [shape |-> "unit"]
Bool      == [shape |-> "bool"]
Option(T) == [shape |-> "option", of |-> T]
Vec(T)  == [shape |-> "seq", of |-> T]
Map(T)  == [shape |-> "map", of |-> T]
Tuple(Ts) == [shape |-> "tuple", of |-> Ts]
TupleStruct(Ts) == [shape |-> "tuple struct", of |-> Ts]
Pair(S, T) == Tuple(<<S, T>>)

MCTypes ==
    {Dynamic, I64, Unit, Bool, Str, Option(I64),
     Vec(Dynamic), Vec(Option(I64)), Vec(Vec(I64)), Vec(Pair(I64, I64)),
     Vec(Map(I64)), Vec(Tuple(<< >>)), Vec(Tuple(<<Dynamic>>)),
     Map(Option(I64)), Map(Vec(Dynamic)), Map(Map(Dynamic)), Map(Pair(I64, Dynamic)),
     Pair(Dynamic, Option(I64)), Pair(Vec(I64), I64), Pair(Pair(I64, I64), I64),
     Tuple(<<Tuple(<<I64>>)>>), Option(Pair(Map(I64), I64)),
     TupleStruct(<<I64, Vec(I64)>>),
     I8, U64, F64, Enum, Vec(Newtype(U8)), Map(Enum),
     Struct(I64), Struct(Option(U8)), Vec(Struct(F64)), Struct(Struct(Dynamic)),
     Newtype(Pair(I8, Struct(Option(I64))))}

\* Tuple structs as elements of sequences, maps and tuples.
NestedTupleStructs ==
    LET P == TupleStruct(<<I64, I64>>) IN {Vec(P), Map(P), Pair(P, I64)}
=================================================================================
