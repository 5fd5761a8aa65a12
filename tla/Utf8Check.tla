-------------------------------- MODULE Utf8Check --------------------------------
(***************************************************************************)
(* The UTF-8 check of stage 1: check_utf8 of src/src/stage1.rs over the    *)
(* vector operations of utf8check.rs.  A block is two lanes of bytes, the  *)
(* code's lanes of 32; a lane knows of the one before it its bytes and how *)
(* many continuations it still owes.  A block of ASCII leaves that record  *)
(* as an earlier block left it.                                            *)
(***************************************************************************)
EXTENDS Integers, Sequences, FiniteSets

CONSTANTS
    InputTexts,     \* the texts to check
    Lane            \* the bytes in a lane

Byte == 0..255
ASSUME Utf8TextsAssumption == \A t \in InputTexts : t \in Seq(Byte)
\* A lane reaches beyond the two carries it takes from the lane before it.
ASSUME LaneAssumption == Lane \in Nat /\ Lane >= 3

VARIABLES
    text, pc, idx,
    rawbytes, carried_continuations,    \* of the last lane checked
    has_error,
    result

previous == <<rawbytes, carried_continuations>>
vars == <<text, pc, idx, rawbytes, carried_continuations, has_error, result>>

---------------------------------------------------------------------------
(* Lanes.  Comparisons are those of signed bytes where the code's are.     *)

Lanes == 0..Lane - 1
Width == 2 * Lane

Signed(b)      == IF b > 127 THEN b - 256 ELSE b
Nibble(b)      == b \div 16
Saturating(n)  == IF n < 0 THEN 0 ELSE n

push_last_byte_of_a_to_b(a, b)   == [k \in Lanes |-> IF k = 0 THEN a[Lane - 1] ELSE b[k - 1]]
push_last_2bytes_of_a_to_b(a, b) == [k \in Lanes |-> IF k < 2 THEN a[Lane - 2 + k] ELSE b[k - 2]]

\* The length of the sequence a byte leads, by its high nibble; 0 for a continuation.
continuation_lengths == <<1, 1, 1, 1, 1, 1, 1, 1, 0, 0, 0, 0, 2, 2, 3, 4>>
avxcontinuation_lengths(bytes) ==
    [k \in Lanes |-> continuation_lengths[Nibble(bytes[k]) + 1]]

\* How many bytes of a sequence are left, this one included.
avxcarry_continuations(lengths, carries) ==
    LET right1 == [k \in Lanes |->
                      Saturating(push_last_byte_of_a_to_b(carries, lengths)[k] - 1)]
        sum    == [k \in Lanes |-> lengths[k] + right1[k]]
        right2 == [k \in Lanes |->
                      Saturating(push_last_2bytes_of_a_to_b(carries, sum)[k] - 2)]
    IN  [k \in Lanes |-> sum[k] + right2[k]]

avxcheck_continuations(lengths, carries) ==
    \E k \in Lanes : (carries[k] > lengths[k]) = (lengths[k] > 0)

avxcheck_smaller_than_0xf4(bytes) == \E k \in Lanes : bytes[k] > 244

\* 0xED is followed by at most 0x9F, 0xF4 by at most 0x8F.
avxcheck_first_continuation_max(bytes, off1) ==
    \E k \in Lanes :
        \/ Signed(bytes[k]) > Signed(159) /\ off1[k] = 237
        \/ Signed(bytes[k]) > Signed(143) /\ off1[k] = 244

initial_mins == [n \in 0..15 |->
    CASE n = 12 -> Signed(194) [] n = 14 -> Signed(225) [] n = 15 -> Signed(241) [] OTHER -> -128]
second_mins == [n \in 0..15 |->
    CASE n \in {12, 13} -> 127 [] n = 14 -> Signed(160) [] n = 15 -> Signed(144) [] OTHER -> -128]

\* Mutant of avxcheck_overlong: it looks at the bytes of this lane only.
avxcheck_overlong_in_lane(bytes, off1) ==
    \E k \in Lanes \ {0} :
        /\ initial_mins[Nibble(off1[k])] > Signed(off1[k])
        /\ second_mins[Nibble(off1[k])] > Signed(bytes[k])

avxcheck_overlong(bytes, off1) ==
    \E k \in Lanes :
        /\ initial_mins[Nibble(off1[k])] > Signed(off1[k])
        /\ second_mins[Nibble(off1[k])] > Signed(bytes[k])

\* What a lane makes of the one before it: whether there is an error, and the
\* record for the lane after it.
avxcheck_utf8_bytes(bytes, before) ==
    LET lengths == avxcontinuation_lengths(bytes)
        carries == avxcarry_continuations(lengths, before.carries)
        off1    == push_last_byte_of_a_to_b(before.raw, bytes)
    IN  [raw |-> bytes, carries |-> carries,
         error |-> \/ before.error
                   \/ avxcheck_smaller_than_0xf4(bytes)
                   \/ avxcheck_continuations(lengths, carries)
                   \/ avxcheck_first_continuation_max(bytes, off1)
                   \/ avxcheck_overlong(bytes, off1)]

---------------------------------------------------------------------------

Init ==
    /\ text \in InputTexts
    /\ pc = "Scan"
    /\ idx = 0
    /\ rawbytes = [k \in Lanes |-> 0]
    /\ carried_continuations = [k \in Lanes |-> 0]
    /\ has_error = FALSE
    /\ result = "none"

\* The bytes of the block at idx; the last block is filled up with spaces.
input == [k \in 0..Width - 1 |-> IF idx + k < Len(text) THEN text[idx + k + 1] ELSE 32]

IsAscii(block) == \A k \in DOMAIN block : block[k] < 128

\* Mutant of Ascii: a block of ASCII asks nothing of the block before it.
AsciiUnchecked == UNCHANGED <<has_error, previous>>

\* A block of ASCII: only that the last lane checked owes nothing is checked.
Ascii ==
    /\ has_error' = (has_error \/ carried_continuations[Lane - 1] > 1)
    /\ UNCHANGED previous

NotAscii ==
    LET lo == [k \in Lanes |-> input[k]]
        hi == [k \in Lanes |-> input[Lane + k]]
        after == avxcheck_utf8_bytes(hi, avxcheck_utf8_bytes(lo,
                    [raw |-> rawbytes, carries |-> carried_continuations, error |-> has_error]))
    IN  /\ rawbytes' = after.raw
        /\ carried_continuations' = after.carries
        /\ has_error' = after.error

check_utf8 ==
    /\ pc = "Scan" /\ idx < Len(text)
    /\ IF IsAscii(input) THEN Ascii ELSE NotAscii
    /\ idx' = idx + Width
    /\ UNCHANGED <<text, pc, result>>

\* The last thing find_structural_bits looks at.
Finish ==
    /\ pc = "Scan" /\ idx >= Len(text)
    /\ pc' = "Done"
    /\ result' = IF has_error THEN "InvalidUTF8" ELSE "Ok"
    /\ UNCHANGED <<text, idx, previous, has_error>>

Step == check_utf8 \/ Finish
Returned == pc = "Done" /\ UNCHANGED vars
Next == Step \/ Returned
Spec == Init /\ [][Next]_vars

---------------------------------------------------------------------------
(* The reference: the table of legal byte sequences of the Unicode         *)
(* standard, which the head of utf8check.rs quotes.                        *)

Tail80 == 128..191

Legal ==
    {<<0..127>>, <<194..223, Tail80>>,
     <<{224}, 160..191, Tail80>>, <<225..236, Tail80, Tail80>>,
     <<{237}, 128..159, Tail80>>, <<238..239, Tail80, Tail80>>,
     <<{240}, 144..191, Tail80, Tail80>>, <<241..243, Tail80, Tail80, Tail80>>,
     <<{244}, 128..143, Tail80, Tail80>>}

\* The first m bytes of a sequence of the given row stand at p.
Stands(row, m, p) == \A k \in 1..m : text[p + k - 1] \in row[k]

\* Whether a character can begin at p, the text being well-formed up to there.
starts[p \in 1..Len(text) + 1] ==
    p = 1 \/ \E row \in Legal :
                /\ p - Len(row) >= 1
                /\ Stands(row, Len(row), p - Len(row))
                /\ starts[p - Len(row)]

Complete(n) == starts[n + 1]

\* The first n bytes end in the middle of a character.  Of a first byte alone
\* the check has no opinion yet, except that it is not beyond 0xF4.
Pending(n) ==
    \E p \in 1..n :
        /\ starts[p]
        /\ \/ p = n /\ text[p] \in 192..244
           \/ \E row \in Legal : n - p + 1 < Len(row) /\ Stands(row, n - p + 1, p)

---------------------------------------------------------------------------
(* Properties.                                                             *)

\* After every block the error flag is right about all the bytes so far: what
\* a lane hands to the next, over blocks of ASCII too, loses no error and
\* makes none.
ErrorSoFar ==
    pc = "Scan" /\ idx <= Len(text) => (has_error <=> ~(Complete(idx) \/ Pending(idx)))

\* The verdict on a text is right.  A text cut off in the middle of a
\* character is refused because of the spaces after it; one that fills its
\* last block has none, and is left to the passes that parse its tokens.
VerdictCorrect ==
    pc = "Done" =>
        (result = "Ok" <=> \/ Complete(Len(text))
                           \/ Len(text) % Width = 0 /\ Pending(Len(text)))
=================================================================================
