------------------------------- MODULE WriteString -------------------------------
(***************************************************************************)
(* BaseGenerator::write_string of src/src/value/generator.rs: a string is  *)
(* written with its quotes, backslashes and control characters escaped.    *)
(* Two loops look at Wide and then Narrow bytes at once, in the code 32    *)
(* and 16, and what they leave goes through write_string_complex.  The     *)
(* writer may fail at any byte.                                            *)
(***************************************************************************)
EXTENDS Integers, Sequences, SequencesExt

CONSTANTS Wide, Narrow

Byte == 0..255
ASSUME WidthsAssumption == Wide \in Nat \ {0} /\ Narrow \in Nat \ {0} /\ Narrow < Wide

VARIABLES
    text,       \* the string as it was given
    pc,
    string,     \* the part of it not yet dealt with
    idx,        \* how much of that is known to need no escape
    out         \* what was written

vars == <<text, pc, string, idx, out>>

---------------------------------------------------------------------------

Quote == 34
Backslash == 92
LetterU == 117

ESCAPED(ch) ==
    CASE ch = 8 -> 98 [] ch = 9 -> 116 [] ch = 10 -> 110 [] ch = 12 -> 102 [] ch = 13 -> 114
      [] ch \in 0..31 \ {8, 9, 10, 12, 13} -> LetterU
      [] ch \in {Quote, Backslash} -> ch
      [] OTHER -> 0

HexDigit(n) == IF n < 10 THEN 48 + n ELSE 87 + n

\* What is written in place of a character that needs an escape.
Escape(ch) ==
    <<Backslash, ESCAPED(ch)>> \o
    (IF ESCAPED(ch) = LetterU THEN <<48, 48, HexDigit(ch \div 16), HexDigit(ch % 16)>> ELSE << >>)

First(n) == SubSeq(string, 1, n)
After(n) == SubSeq(string, n + 1, Len(string))

\* The distance from idx to the first of the next n bytes that needs an
\* escape, by the test of the vector loops; n if none does.
quote_dist(n) ==
    CHOOSE k \in 0..n :
        LET InRange(j) == string[idx + j + 1] \in {Quote, Backslash} \union 0..31 IN
        (k < n => InRange(k)) /\ \A j \in 0..k - 1 : ~InRange(j)

\* The loop of write_string_complex, given that the first `from` bytes need no
\* escape: what it has written before each byte, and where the rest starts.
ComplexLoop(from) ==
    LET f[k \in from..Len(string)] ==
            IF k = from THEN [bytes |-> First(from), start |-> from]
            ELSE IF ESCAPED(string[k]) = 0 THEN f[k - 1]
            ELSE [bytes |-> f[k - 1].bytes \o SubSeq(string, f[k - 1].start + 1, k - 1)
                              \o Escape(string[k]),
                  start |-> k]
    IN  f

Complex(from) ==
    LET last == ComplexLoop(from)[Len(string)] IN last.bytes \o After(last.start)

---------------------------------------------------------------------------

\* No string is being written.
Init == text = << >> /\ string = << >> /\ idx = 0 /\ pc = "Idle" /\ out = << >>

\* write_string is called with s.
Start(s) == text' = s /\ string' = s /\ idx' = 0 /\ pc' = "Begin" /\ out' = << >>

\* The bytes are written and the program goes on, or the writer fails before
\* the last of them and the error is returned.
Write(bytes, next) ==
    \/ out' = out \o bytes /\ pc' = next
    \/ \E n \in 0..Len(bytes) - 1 : out' = out \o SubSeq(bytes, 1, n) /\ pc' = "Error"

Begin ==
    /\ pc = "Begin"
    /\ Write(<<Quote>>, "Wide")
    /\ UNCHANGED <<text, string, idx>>

Left == Len(string) - idx

\* One round of a vector loop over n bytes.
Skip(n) ==
    /\ quote_dist(n) = n
    /\ idx' = idx + n
    /\ UNCHANGED <<text, pc, string, out>>

\* Mutant of Found: idx keeps its value in the new slice.
FoundKeepingIndex(n) ==
    LET k == idx + quote_dist(n) IN
    /\ quote_dist(n) < n
    /\ Write(First(k) \o Escape(string[k + 1]), pc)
    /\ string' = After(k + 1)
    /\ idx' = IF idx <= Len(string') THEN idx ELSE 0
    /\ UNCHANGED text

Found(n) ==
    LET k == idx + quote_dist(n) IN
    /\ quote_dist(n) < n
    /\ Write(First(k) \o Escape(string[k + 1]), pc)
    /\ string' = After(k + 1)
    /\ idx' = 0
    /\ UNCHANGED text

WideLoop ==
    /\ pc = "Wide"
    /\ \/ Left >= Wide /\ (Skip(Wide) \/ Found(Wide))
       \/ Left < Wide /\ pc' = "Narrow" /\ UNCHANGED <<text, string, idx, out>>

NarrowLoop == pc = "Narrow" /\ Left > Narrow /\ (Skip(Narrow) \/ Found(Narrow))

\* Mutant of NarrowEnd: the clean bytes stay in front of the rest.
NarrowEndKeepingRest ==
    /\ pc = "Narrow" /\ Left <= Narrow
    /\ Write(First(idx), "Rest")
    /\ UNCHANGED <<text, string, idx>>

NarrowEnd ==
    /\ pc = "Narrow" /\ Left <= Narrow
    /\ Write(First(idx), "Rest")
    /\ string' = After(idx)
    /\ UNCHANGED <<text, idx>>

NeedEscape == {k \in DOMAIN string : ESCAPED(string[k]) > 0}

Rest ==
    /\ pc = "Rest"
    /\ Write((IF NeedEscape = {} THEN string
              ELSE Complex((CHOOSE k \in NeedEscape : \A j \in NeedEscape : k <= j) - 1))
             \o <<Quote>>, "Ok")
    /\ UNCHANGED <<text, string, idx>>

Step == Begin \/ WideLoop \/ NarrowLoop \/ NarrowEnd \/ Rest

---------------------------------------------------------------------------
(* The reference: reading a string of RFC 8259 back.                       *)

HexValue(c) == IF c <= 57 THEN c - 48 ELSE c - 87

Unescaped == [c \in {98, 102, 110, 114, 116, Quote, Backslash} |->
                 CASE c = 98 -> 8 [] c = 102 -> 12 [] c = 110 -> 10 [] c = 114 -> 13
                   [] c = 116 -> 9 [] OTHER -> c]

None == [bytes |-> << >>, ended |-> FALSE]
Then(r, c) == [r EXCEPT !.bytes = <<c>> \o @]

\* What is read from each place on.
Reading(written) ==
    LET f[p \in 1..Len(written) + 1] ==
            CASE p > Len(written) -> None
              [] p <= Len(written) /\ written[p] < 32 -> None
              [] p <= Len(written) /\ written[p] = Quote ->
                    IF p = Len(written) THEN [bytes |-> << >>, ended |-> TRUE] ELSE None
              [] p + 1 <= Len(written) /\ written[p] = Backslash /\ written[p + 1] \in DOMAIN Unescaped ->
                    Then(f[p + 2], Unescaped[written[p + 1]])
              [] p + 5 <= Len(written) /\ written[p] = Backslash /\ written[p + 1] = LetterU ->
                    Then(f[p + 6], 16 * HexValue(written[p + 4]) + HexValue(written[p + 5]))
              [] OTHER -> IF written[p] = Backslash THEN None ELSE Then(f[p + 1], written[p])
    IN  f

\* The string that `written` is the text of; not ended if it is no string.
ReadBack(written) ==
    IF written = << >> \/ written[1] # Quote THEN None ELSE Reading(written)[2]

\* The quote and the first n characters of the text, each by itself.
encoded[n \in 0..Len(text)] ==
    IF n = 0 THEN <<Quote>>
    ELSE encoded[n - 1] \o (IF ESCAPED(text[n]) = 0 THEN <<text[n]>> ELSE Escape(text[n]))

Encoded == encoded[Len(text)] \o <<Quote>>

---------------------------------------------------------------------------
(* Properties.                                                             *)

\* What was written reads back as the string, wherever the escapes fall in
\* the blocks of the two loops and in what they leave over.
ReadsBack == pc = "Ok" => ReadBack(out) = [bytes |-> text, ended |-> TRUE]

\* At every moment, and when the writer has failed, what was written is the
\* beginning of the whole: nothing is written twice, left out or out of order.
WrittenInOrder == IsPrefix(out, Encoded)
=================================================================================
