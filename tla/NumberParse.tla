------------------------------- MODULE NumberParse -------------------------------
(***************************************************************************)
(* The number parser of src/src/numberparse.rs: parse_number_int, which    *)
(* reads digits into a machine word that wraps, and the two it hands over  *)
(* to when the word may have been too small, parse_large_integer and       *)
(* parse_float.                                                            *)
(*                                                                         *)
(* A word has WordBits bits, in the code 64.  The code's decisions rest on *)
(* how many digits always fit a signed and an unsigned word, 18 and 19     *)
(* there; the assumption below keeps the two numbers one apart.  A float   *)
(* is the decimal it is computed from, an integer times a power of ten:    *)
(* the rounding of f64 is left out.                                        *)
(***************************************************************************)
EXTENDS Integers, Sequences

CONSTANTS
    NumberTexts,    \* texts that begin with a digit or a minus sign
    WordBits,       \* the bits of i
    SignedDigits,   \* 18: numbers of so many digits fit a signed word
    Eight,          \* 8: the digits the vectorised step reads at once
    MaxExponent     \* 308

Byte == 0..255

\* b to the power of n.
Raised(b, n) == LET r[k \in 0..n] == IF k = 0 THEN 1 ELSE r[k - 1] * b IN r[n]

Word == Raised(2, WordBits)
Half == Raised(2, WordBits - 1)

ASSUME NumberWordAssumption ==
    /\ WordBits \in Nat /\ WordBits > 1 /\ SignedDigits \in Nat
    /\ Raised(10, SignedDigits) <= Half /\ Half < Raised(10, SignedDigits + 1)
    /\ Raised(10, SignedDigits + 1) <= Word
ASSUME NumberTextsAssumption ==
    \A t \in NumberTexts : t \in Seq(Byte) /\ t # << >> /\ t[1] \in {45} \union 48..57
ASSUME NumberStepsAssumption == Eight \in Nat \ {0} /\ MaxExponent \in Nat

VARIABLES
    text,
    overflow_checks,    \* whether the build checks plain arithmetic
    pc,
    byte_count, ignore_count,
    i,
    firstafterperiod,
    exponent, expnumber,
    result

vars == <<text, overflow_checks, pc, byte_count, ignore_count, i, firstafterperiod,
          exponent, expnumber, result>>

---------------------------------------------------------------------------
(* Characters.                                                             *)

Minus == 45
Plus  == 43
Point == 46
Zero  == 48
E     == {69, 101}

\* The text is copied into zeros, or is followed by a character that ends it.
buf(k) == IF k < Len(text) THEN text[k + 1] ELSE 0

is_integer(c) == c \in 48..57
Digit(k) == buf(k) - 48

\* The byte 0 is one of them: it is what the copies are filled up with.
StructuralOrWhitespace == {0, 9, 10, 13, 32, 44, 58, 91, 93, 123, 125}
ExponentOrDecimal == E \union {Point}

negative == text[1] = Minus
start == IF negative THEN 1 ELSE 0

\* The first position from k on that holds no digit.
RunEnd(k) == CHOOSE e \in k..Len(text) : /\ ~is_integer(buf(e))
                                         /\ \A j \in k..e - 1 : is_integer(buf(j))

\* What the digits at a, ..., b - 1 append to n.
Appended(n, a, b) ==
    LET f[k \in a..b] == IF k = a THEN n ELSE f[k - 1] * 10 + Digit(k - 1) IN f[b]

\* The exponent after an e at p, of at most `most` digits.
ExponentAt(p, most) ==
    LET sign == IF buf(p + 1) \in {Minus, Plus} THEN 1 ELSE 0
        q    == p + 1 + sign
        end  == RunEnd(q)
        n    == Appended(0, q, end)
    IN  [ok |-> end - q \in 1..most, end |-> end,
         value |-> IF buf(p + 1) = Minus THEN -n ELSE n]

---------------------------------------------------------------------------
(* Results.                                                                *)

None == [kind |-> "none", value |-> 0, exponent |-> 0]
Error(e) == [kind |-> e, value |-> 0, exponent |-> 0]
I64(n) == [kind |-> "I64", value |-> n, exponent |-> 0]
F64(n, e) == IF n = 0 THEN [kind |-> "F64", value |-> 0, exponent |-> 0]
             ELSE [kind |-> "F64", value |-> IF negative THEN -n ELSE n, exponent |-> e]

Done(r) == pc' = "Done" /\ result' = r
Unchanged == UNCHANGED <<text, overflow_checks>>

\* A word read as a signed number.
Signed(w) == IF w >= Half THEN w - Word ELSE w

\* The result r if the number ends at k.
Ended(k, r, e) == IF buf(k) \in StructuralOrWhitespace THEN r ELSE Error(e)

---------------------------------------------------------------------------
(* parse_float: the number again, in floats from the start.                *)

parse_float ==
    LET whole == IF buf(start) = Zero THEN start + 1 ELSE RunEnd(start)
        end   == IF buf(whole) = Point THEN RunEnd(whole + 1) ELSE whole
        scale == IF buf(whole) = Point THEN end - whole - 1 ELSE 0
        n     == IF buf(whole) = Point
                 THEN Appended(Appended(0, start, whole), whole + 1, end)
                 ELSE Appended(0, start, whole)
        exp   == ExponentAt(end, 4)
    IN  IF buf(whole) = Point /\ scale = 0 THEN Error("Parser")
        ELSE IF buf(end) \notin E THEN Ended(end, F64(n, -scale), "Parser")
        ELSE IF ~exp.ok \/ exp.value \notin -MaxExponent..MaxExponent THEN Error("Parser")
        ELSE Ended(exp.end, F64(n, exp.value - scale), "Parser")

---------------------------------------------------------------------------
(* parse_number_int.  The character read last, d, is the one at            *)
(* byte_count.                                                             *)

d == buf(byte_count)

Init ==
    /\ text \in NumberTexts
    /\ overflow_checks \in BOOLEAN
    /\ pc = "Start"
    /\ byte_count = start
    /\ ignore_count = 0
    /\ i = 0
    /\ firstafterperiod = 0
    /\ exponent = 0
    /\ expnumber = 0
    /\ result = None

First ==
    /\ pc = "Start"
    /\ IF \/ ~is_integer(d)
          \/ d = Zero /\ buf(byte_count + 1) \notin StructuralOrWhitespace \union ExponentOrDecimal
       THEN Done(Error("InvalidNumber")) /\ UNCHANGED <<byte_count, i>>
       ELSE /\ i' = Digit(byte_count)
            /\ byte_count' = byte_count + 1
            /\ pc' = "Integer"
            /\ UNCHANGED result
    /\ UNCHANGED <<ignore_count, firstafterperiod, exponent, expnumber>> /\ Unchanged

\* The product wraps and the sum is checked.
IntegerDigit ==
    /\ pc = "Integer" /\ is_integer(d)
    /\ LET i1 == ((i * 10) % Word) + Digit(byte_count) IN
       IF i1 < Word
       THEN i' = i1 /\ byte_count' = byte_count + 1 /\ UNCHANGED <<pc, result>>
       ELSE Done(Error("Overflow")) /\ UNCHANGED <<byte_count, i>>
    /\ UNCHANGED <<ignore_count, firstafterperiod, exponent, expnumber>> /\ Unchanged

\* The first digit of the fraction, and the next eight at once if they are digits.
Fraction ==
    /\ pc = "Integer" /\ d = Point
    /\ ignore_count' = ignore_count + 1
    /\ firstafterperiod' = byte_count + 1
    /\ IF ~is_integer(buf(byte_count + 1))
       THEN Done(Error("InvalidNumber")) /\ byte_count' = byte_count + 1 /\ UNCHANGED i
       ELSE LET second == byte_count + 2
                next == IF RunEnd(second) - second >= Eight THEN second + Eight ELSE second
            IN  /\ i' = Appended(i, byte_count + 1, next) % Word
                /\ byte_count' = next
                /\ pc' = "Fraction"
                /\ UNCHANGED result
    /\ UNCHANGED <<exponent, expnumber>> /\ Unchanged

FractionDigit ==
    /\ pc = "Fraction" /\ is_integer(d)
    /\ i' = (i * 10 + Digit(byte_count)) % Word
    /\ byte_count' = byte_count + 1
    /\ UNCHANGED <<pc, ignore_count, firstafterperiod, exponent, expnumber, result>> /\ Unchanged

DigitsRead == pc \in {"Integer", "Fraction"} /\ ~is_integer(d) /\ (pc = "Integer" => d # Point)

FractionExponent == IF pc = "Fraction" THEN firstafterperiod - byte_count ELSE 0

NoExponent ==
    /\ DigitsRead /\ d \notin E
    /\ exponent' = FractionExponent
    /\ pc' = "Value"
    /\ UNCHANGED <<byte_count, ignore_count, i, firstafterperiod, expnumber, result>> /\ Unchanged

Exponent ==
    /\ DigitsRead /\ d \in E
    /\ LET exp == ExponentAt(byte_count, 3) IN
       IF ~exp.ok
       THEN /\ Done(Error("InvalidNumber"))
            /\ UNCHANGED <<byte_count, ignore_count, exponent, expnumber>>
       ELSE /\ expnumber' = exp.value
            /\ exponent' = FractionExponent + exp.value
            /\ ignore_count' = ignore_count + exp.end - byte_count
            /\ byte_count' = exp.end
            /\ pc' = "Value"
            /\ UNCHANGED result
    /\ UNCHANGED <<i, firstafterperiod>> /\ Unchanged

IsFloat == exponent # 0 \/ expnumber # 0

\* Mutant of FloatValue: a word is trusted with two digits more.
FloatValueOneMore ==
    /\ pc = "Value" /\ IsFloat
    /\ Done(IF byte_count - ignore_count > SignedDigits + 2 THEN parse_float
            ELSE IF i # 0 /\ exponent \notin -MaxExponent..MaxExponent THEN Error("InvalidExponent")
            ELSE Ended(byte_count, F64(i, exponent), "InvalidNumber"))
    /\ UNCHANGED <<byte_count, ignore_count, i, firstafterperiod, exponent, expnumber>> /\ Unchanged

FloatValue ==
    /\ pc = "Value" /\ IsFloat
    /\ Done(IF byte_count - ignore_count >= SignedDigits + 1 THEN parse_float
            ELSE IF i # 0 /\ exponent \notin -MaxExponent..MaxExponent THEN Error("InvalidExponent")
            ELSE Ended(byte_count, F64(i, exponent), "InvalidNumber"))
    /\ UNCHANGED <<byte_count, ignore_count, i, firstafterperiod, exponent, expnumber>> /\ Unchanged

IntegerValue ==
    /\ pc = "Value" /\ ~IsFloat /\ byte_count < SignedDigits
    /\ LET v == Signed(IF negative THEN (Word - i) % Word ELSE i) IN
       Done(Ended(byte_count, I64(v), "InvalidNumber"))
    /\ UNCHANGED <<byte_count, ignore_count, i, firstafterperiod, exponent, expnumber>> /\ Unchanged

---------------------------------------------------------------------------
(* parse_large_integer: the digits again, every operation checked.         *)

LargeInteger ==
    /\ pc = "Value" /\ ~IsFloat /\ byte_count >= SignedDigits
    /\ byte_count' = start + 1
    /\ i' = Digit(start)
    /\ pc' = "Large"
    /\ UNCHANGED <<ignore_count, firstafterperiod, exponent, expnumber, result>> /\ Unchanged

LargeDigit ==
    /\ pc = "Large" /\ is_integer(d)
    /\ IF i * 10 + Digit(byte_count) < Word
       THEN /\ i' = i * 10 + Digit(byte_count)
            /\ byte_count' = byte_count + 1
            /\ UNCHANGED <<pc, result>>
       ELSE Done(Error("Overflow")) /\ UNCHANGED <<byte_count, i>>
    /\ UNCHANGED <<ignore_count, firstafterperiod, exponent, expnumber>> /\ Unchanged

\* Mutant of LargeEnd: one bound for both signs.
LargeEndOneBound ==
    /\ pc = "Large" /\ ~is_integer(d)
    /\ Done(IF i >= Half THEN Error("Overflow")
            ELSE Ended(byte_count, I64(IF negative THEN -i ELSE i), "InvalidNumber"))
    /\ UNCHANGED <<byte_count, ignore_count, i, firstafterperiod, exponent, expnumber>> /\ Unchanged

\* The least number is negated as a signed word: a build that checks panics.
LargeEnd ==
    /\ pc = "Large" /\ ~is_integer(d)
    /\ Done(IF (IF negative THEN i > Half ELSE i >= Half) THEN Error("Overflow")
            ELSE Ended(byte_count,
                       IF i = Half /\ overflow_checks THEN Error("panic")
                       ELSE I64(IF negative THEN -i ELSE i), "InvalidNumber"))
    /\ UNCHANGED <<byte_count, ignore_count, i, firstafterperiod, exponent, expnumber>> /\ Unchanged

Step == \/ First \/ IntegerDigit \/ Fraction \/ FractionDigit \/ NoExponent \/ Exponent
        \/ FloatValue \/ IntegerValue \/ LargeInteger \/ LargeDigit \/ LargeEnd
Returned == pc = "Done" /\ UNCHANGED vars
Next == Step \/ Returned
Spec == Init /\ [][Next]_vars

---------------------------------------------------------------------------
(* The reference: a number of RFC 8259, part by part.                      *)

IntegerEnd   == RunEnd(start)
FractionEnd  == IF buf(IntegerEnd) = Point THEN RunEnd(IntegerEnd + 1) ELSE IntegerEnd
HasExponent  == buf(FractionEnd) \in E
ExponentFrom == IF ~HasExponent THEN FractionEnd
                ELSE IF buf(FractionEnd + 1) \in {Plus, Minus} THEN FractionEnd + 2
                ELSE FractionEnd + 1
NumberEnd    == RunEnd(ExponentFrom)
HasFraction  == FractionEnd # IntegerEnd

IsNumber ==
    /\ start < IntegerEnd
    /\ buf(start) = Zero => IntegerEnd = start + 1
    /\ HasFraction => IntegerEnd + 1 < FractionEnd
    /\ HasExponent => ExponentFrom < NumberEnd
    /\ buf(NumberEnd) \in StructuralOrWhitespace

\* Its digits as one integer, its exponent, and the power of ten the integer
\* is to be multiplied by.
Integer  == Appended(0, start, IntegerEnd)
Digits   == IF HasFraction THEN Appended(Integer, IntegerEnd + 1, FractionEnd) ELSE Integer
Power    == IF ~HasExponent THEN 0
            ELSE IF buf(FractionEnd + 1) = Minus THEN -Appended(0, ExponentFrom, NumberEnd)
            ELSE Appended(0, ExponentFrom, NumberEnd)
Scale    == IF HasFraction THEN Power - (FractionEnd - IntegerEnd - 1) ELSE Power
Value    == IF negative THEN -Digits ELSE Digits

---------------------------------------------------------------------------
(* Properties.                                                             *)

Accepted == pc = "Done" /\ result.kind \in {"I64", "F64"}
Refused  == pc = "Done" /\ result.kind \notin {"I64", "F64"}

\* Whatever the word wrapped to on the way, a result is the number that was
\* written, digit for digit, and nothing but a number has a result.
ValueRight ==
    Accepted =>
        /\ IsNumber
        /\ result.value = Value
        /\ result.kind = "I64" => ~HasFraction /\ Power = 0
        /\ result.kind = "F64" /\ Digits # 0 => result.exponent = Scale

\* A number is refused only if it is an integer that does not fit or has an
\* exponent of more than three digits or out of the table's range, and in
\* three cases more: the least integer, where the build checks its negation (a
\* panic of the code, which this states but does not excuse);
\* an exponent of zero in a number of SignedDigits bytes or more; and a float
\* with an integer part so long that it may have left the word.
RefusalsAreKnown ==
    Refused /\ IsNumber =>
        IF HasFraction \/ HasExponent
        THEN \/ NumberEnd - ExponentFrom > 3
             \/ Power \notin -MaxExponent..MaxExponent
             \/ Scale \notin -MaxExponent..MaxExponent
             \/ ~HasFraction /\ Power = 0 /\ NumberEnd >= SignedDigits
             \/ IntegerEnd - start > SignedDigits + 1
        ELSE \/ Value \notin -Half..Half - 1
             \/ overflow_checks /\ Value = -Half

\* "Called when we know that the output is a float, but where there might be
\* some integer overflow": only the size of an integer can be too much.
FloatsNeverOverflow ==
    Refused /\ IsNumber /\ (HasFraction \/ HasExponent) => result.kind # "Overflow"
=================================================================================
