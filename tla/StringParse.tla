------------------------------- MODULE StringParse -------------------------------
(***************************************************************************)
(* Deserializer::parse_str_ of src/src/lib.rs with handle_unicode_codepoint*)
(* of stringparse.rs: the text of a string, unescaped in place.  Up to the *)
(* first backslash the string stays where it is; what follows is unescaped *)
(* into a buffer of the Deserializer, a chunk of bytes at a time, and      *)
(* written back over the input it was read from.                           *)
(*                                                                         *)
(* The code's chunk of 32 bytes is Chunk.  Every load and store moves a    *)
(* whole chunk, so what is beyond the end of the string, of the input or   *)
(* of what was just copied goes through the same registers.                *)
(***************************************************************************)
EXTENDS Integers, Sequences, FiniteSets

CONSTANTS
    Texts,      \* inputs that begin with a string, its opening quote first
    Chunk,      \* the bytes of a vector register
    Garbage     \* bytes that may follow the input in memory

Byte == 0..255
Quote == 34
Backslash == 92
LetterU == 117

\* A character behind an odd number of backslashes.
Escaped(t, p) == Cardinality({q \in 1..p - 1 : \A r \in q..p - 1 : t[r] = Backslash}) % 2 = 1

\* The string that begins t ends at p or before: a quote that is not escaped.
ClosedBy(t, p) == \E q \in 2..p : t[q] = Quote /\ ~Escaped(t, q)

\* Stage 1 refuses an input that ends inside a string.
Closed(t) == ClosedBy(t, Len(t))

ASSUME StringTextsAssumption ==
    \A t \in Texts : t \in Seq(Byte) /\ Len(t) >= 2 /\ t[1] = Quote /\ Closed(t)
ASSUME ChunkAssumption == Chunk \in Nat /\ Chunk > 0 /\ Garbage \subseteq Byte

VARIABLES
    text,       \* the input as it was given
    input,      \* the input as it is now
    beyond,     \* the bytes after it
    pc,
    src_i,      \* how far the string has been read
    len,        \* the length of the part before the first backslash
    dst_i,      \* the length of the part unescaped so far
    strings,    \* the buffer it is unescaped into
    padding,    \* the chunk that stands in for the last bytes of the input
    result

vars == <<text, input, beyond, pc, src_i, len, dst_i, strings, padding, result>>

---------------------------------------------------------------------------

\* The slice after the opening quote.
SrcLen == Len(input) - 1
Src(k) == IF k < SrcLen THEN input[k + 2] ELSE beyond

Lanes == 0..Chunk - 1

\* The padding with the rest of the input copied to its front.
Padded == [k \in Lanes |-> IF src_i + k < SrcLen THEN Src(src_i + k) ELSE padding[k]]

InFull == SrcLen >= src_i + Chunk

\* The chunk at src_i.
v == IF InFull THEN [k \in Lanes |-> Src(src_i + k)] ELSE Padded

KeepPadding == padding' = IF InFull THEN padding ELSE Padded

\* The distance to the first of a kind of byte in the chunk.
Distance(b) == CHOOSE k \in 0..Chunk : /\ k < Chunk => v[k] = b
                                       /\ \A j \in 0..k - 1 : v[j] # b

QuoteFirst     == Distance(Quote) < Distance(Backslash)
BackslashFirst == Distance(Backslash) < Distance(Quote)
Neither        == Distance(Quote) = Distance(Backslash)

\* The buffer after the bytes bs were written at k.
Stored(buffer, k, bs) ==
    [j \in DOMAIN buffer |-> IF j - k + 1 \in DOMAIN bs THEN bs[j - k + 1] ELSE buffer[j]]

ChunkStored == Stored(strings, dst_i, [k \in 1..Chunk |-> v[k - 1]])

---------------------------------------------------------------------------
(* Escapes.                                                                *)

ESCAPE_MAP(c) ==
    CASE c = 34 -> 34 [] c = 47 -> 47 [] c = 92 -> 92 [] c = 98 -> 8 [] c = 102 -> 12
      [] c = 110 -> 10 [] c = 114 -> 13 [] c = 116 -> 9 [] OTHER -> 0

DIGITTOVAL(c) ==
    CASE c \in 48..57 -> c - 48 [] c \in 65..70 -> c - 55 [] c \in 97..102 -> c - 87 [] OTHER -> -1

\* 2 ^ 30 stands for every u32 with one of its high 16 bits set.
HighBits == 1073741824

\* The four hex digits at k.
hex_to_u32_nocheck(k) ==
    LET d(n) == DIGITTOVAL(Src(k + n)) IN
    IF \E n \in 0..3 : d(n) = -1 THEN HighBits
    ELSE d(0) * 4096 + d(1) * 256 + d(2) * 16 + d(3)

codepoint_to_utf8(cp) ==
    IF cp <= 127 THEN <<cp>>
    ELSE IF cp <= 2047 THEN <<(cp \div 64) + 192, (cp % 64) + 128>>
    ELSE IF cp <= 65535 THEN <<(cp \div 4096) + 224, ((cp \div 64) % 64) + 128, (cp % 64) + 128>>
    ELSE IF cp <= 1114111 THEN <<(cp \div 262144) + 240, ((cp \div 4096) % 64) + 128,
                                 ((cp \div 64) % 64) + 128, (cp % 64) + 128>>
    ELSE << >>

\* x | y, for ten bits of x moved up by ten and fourteen bits of y.
BitOr(x, y) ==
    LET Bit(w) == IF (x \div w) % 2 = 1 \/ (y \div w) % 2 = 1 THEN w ELSE 0
    IN  (x - (x % 16384)) + Bit(8192) + Bit(4096) + Bit(2048) + Bit(1024) + (y % 1024)

\* Mutant of handle_unicode_codepoint: a pair moves the source over one escape.
handle_unicode_codepoint_one(k) ==
    LET first  == hex_to_u32_nocheck(k + 2)
        second == hex_to_u32_nocheck(k + 8)
    IN  IF first \in 55296..56319
        THEN IF \/ Src(k + 6) # Backslash \/ Src(k + 7) # LetterU
                \/ second = HighBits \/ second < 56320
             THEN [bytes |-> << >>, length |-> 6]
             ELSE [bytes |-> codepoint_to_utf8(
                                 BitOr((first - 55296) * 1024, second - 56320) + 65536),
                   length |-> 6]
        ELSE [bytes |-> codepoint_to_utf8(first), length |-> 6]

\* The bytes an escape at k stands for, none if it is invalid, and how far it
\* reaches in the source.
handle_unicode_codepoint(k) ==
    LET first  == hex_to_u32_nocheck(k + 2)
        second == hex_to_u32_nocheck(k + 8)
    IN  IF first \in 55296..56319
        THEN IF \/ Src(k + 6) # Backslash \/ Src(k + 7) # LetterU
                \/ second = HighBits \/ second < 56320
             THEN [bytes |-> << >>, length |-> 6]
             ELSE [bytes |-> codepoint_to_utf8(
                                 BitOr((first - 55296) * 1024, second - 56320) + 65536),
                   length |-> 12]
        ELSE [bytes |-> codepoint_to_utf8(first), length |-> 6]

\* The last byte that is loaded for an escape at k, each load behind the
\* comparisons before it: the digits, the start of a second escape, its digits.
LastLoaded(k) ==
    IF hex_to_u32_nocheck(k + 2) \notin 55296..56319 THEN k + 5
    ELSE IF Src(k + 6) # Backslash THEN k + 6
    ELSE IF Src(k + 7) # LetterU THEN k + 7
    ELSE k + 11

---------------------------------------------------------------------------

Init ==
    /\ text \in Texts
    /\ input = text
    /\ beyond \in Garbage
    /\ pc = "Scan"
    /\ src_i = 0
    /\ len = 0
    /\ dst_i = 0
    /\ strings = [k \in 0..Len(text) + Chunk - 1 |-> -1]
    /\ padding = [k \in Lanes |-> 0]
    /\ result = [status |-> "none", length |-> 0]

Ok(n)   == pc' = "Done" /\ result' = [status |-> "ok", length |-> n]
Fail(e) == pc' = "Done" /\ result' = [status |-> e, length |-> 0]

\* No backslash yet: the string stays in place.
ScanQuote ==
    /\ pc = "Scan" /\ QuoteFirst
    /\ len' = len + Distance(Quote)
    /\ Ok(len')
    /\ KeepPadding
    /\ UNCHANGED <<text, input, beyond, src_i, dst_i, strings>>

\* Mutant of ScanBackslash: the second loop reads the chunk again.
ScanBackslashAgain ==
    /\ pc = "Scan" /\ BackslashFirst
    /\ len' = len + Distance(Backslash)
    /\ pc' = "Copy"
    /\ KeepPadding
    /\ UNCHANGED <<text, input, beyond, src_i, dst_i, strings, result>>

ScanBackslash ==
    /\ pc = "Scan" /\ BackslashFirst
    /\ len' = len + Distance(Backslash)
    /\ src_i' = src_i + Distance(Backslash)
    /\ pc' = "Copy"
    /\ KeepPadding
    /\ UNCHANGED <<text, input, beyond, dst_i, strings, result>>

ScanOn ==
    /\ pc = "Scan" /\ Neither
    /\ len' = len + Chunk
    /\ src_i' = src_i + Chunk
    /\ KeepPadding
    /\ UNCHANGED <<text, input, beyond, pc, dst_i, strings, result>>

\* Mutant of CopyQuote: the whole chunk goes back, not only the string.
CopyQuoteChunk ==
    /\ pc = "Copy" /\ QuoteFirst
    /\ strings' = ChunkStored
    /\ dst_i' = dst_i + Distance(Quote)
    /\ input' = [p \in DOMAIN input |->
                    IF p - 2 - len \in 0..dst_i + Chunk - 1 THEN strings'[p - 2 - len] ELSE input[p]]
    /\ Ok(len + dst_i')
    /\ KeepPadding
    /\ UNCHANGED <<text, beyond, src_i, len>>

\* The end of the string: what was unescaped goes back into the input.
CopyQuote ==
    /\ pc = "Copy" /\ QuoteFirst
    /\ strings' = ChunkStored
    /\ dst_i' = dst_i + Distance(Quote)
    /\ input' = [p \in DOMAIN input |->
                    IF p - 2 - len \in 0..dst_i' - 1 THEN strings'[p - 2 - len] ELSE input[p]]
    /\ Ok(len + dst_i')
    /\ KeepPadding
    /\ UNCHANGED <<text, beyond, src_i, len>>

EscapeChar == Src(src_i + Distance(Backslash) + 1)

CopyUnicode ==
    /\ pc = "Copy" /\ BackslashFirst /\ EscapeChar = LetterU
    /\ LET dist == Distance(Backslash)
           r    == handle_unicode_codepoint(src_i + dist)
       IN  /\ strings' = Stored(ChunkStored, dst_i + dist, r.bytes)
           /\ IF r.bytes = << >>
              THEN /\ Fail("InvlaidUnicodeCodepoint")
                   /\ src_i' = src_i + dist /\ dst_i' = dst_i + dist
              ELSE /\ src_i' = src_i + dist + r.length
                   /\ dst_i' = dst_i + dist + Len(r.bytes)
                   /\ UNCHANGED <<pc, result>>
    /\ KeepPadding
    /\ UNCHANGED <<text, input, beyond, len>>

CopyEscape ==
    /\ pc = "Copy" /\ BackslashFirst /\ EscapeChar # LetterU
    /\ LET dist == Distance(Backslash)
           escape_result == ESCAPE_MAP(EscapeChar)
       IN  IF escape_result = 0
           THEN /\ Fail("InvalidEscape")
                /\ strings' = ChunkStored
                /\ UNCHANGED <<src_i, dst_i>>
           ELSE /\ strings' = Stored(ChunkStored, dst_i + dist, <<escape_result>>)
                /\ src_i' = src_i + dist + 2
                /\ dst_i' = dst_i + dist + 1
                /\ UNCHANGED <<pc, result>>
    /\ KeepPadding
    /\ UNCHANGED <<text, input, beyond, len>>

CopyOn ==
    /\ pc = "Copy" /\ Neither
    /\ strings' = ChunkStored
    /\ src_i' = src_i + Chunk
    /\ dst_i' = dst_i + Chunk
    /\ KeepPadding
    /\ UNCHANGED <<text, input, beyond, pc, len, result>>

Step == ScanQuote \/ ScanBackslash \/ ScanOn
          \/ CopyQuote \/ CopyUnicode \/ CopyEscape \/ CopyOn
Returned == pc = "Done" /\ UNCHANGED vars
Next == Step \/ Returned
Spec == Init /\ [][Next]_vars

---------------------------------------------------------------------------
(* The reference: the string of RFC 8259 that begins a text, read one      *)
(* character after the other.                                              *)

HexAt(t, p) ==
    IF \A n \in 0..3 : p + n <= Len(t) /\ DIGITTOVAL(t[p + n]) >= 0
    THEN DIGITTOVAL(t[p]) * 4096 + DIGITTOVAL(t[p + 1]) * 256
           + DIGITTOVAL(t[p + 2]) * 16 + DIGITTOVAL(t[p + 3])
    ELSE -1

UnicodeAt(t, p) == IF p + 1 <= Len(t) /\ t[p] = Backslash /\ t[p + 1] = LetterU
                   THEN HexAt(t, p + 2) ELSE -1

High == 55296..56319
Low  == 56320..57343

\* A reading: how far it has come, what it has read so far, as bytes of UTF-8,
\* and how it ended.
Take(r, n, bytes) == [r EXCEPT !.at = r.at + n, !.bytes = r.bytes \o bytes]
End(r, state)     == [r EXCEPT !.state = state]

\* Two errors are told from the others, as "unpaired": a low surrogate by
\* itself, and a high one with an escape beyond the low ones behind it.
TakeUnicode(r, unit, next) ==
    CASE unit = -1 -> End(r, "invalid")
      [] unit \in Low -> End(r, "unpaired")
      [] unit \in High /\ next \in Low ->
            Take(r, 12, codepoint_to_utf8((unit - 55296) * 1024 + next - 56320 + 65536))
      [] unit \in High /\ next < 56320 -> End(r, "invalid")
      [] unit \in High /\ next > 57343 -> End(r, "unpaired")
      [] OTHER -> Take(r, 6, codepoint_to_utf8(unit))

TakeEscape(r, c) == IF ESCAPE_MAP(c) = 0 THEN End(r, "invalid") ELSE Take(r, 2, <<ESCAPE_MAP(c)>>)

TakeCharacter(t, r) ==
    LET p == r.at IN
    IF r.state # "open" THEN r
    ELSE IF p > Len(t) THEN End(r, "invalid")
    ELSE IF t[p] = Quote THEN End(r, "closed")
    ELSE IF t[p] # Backslash THEN Take(r, 1, <<t[p]>>)
    ELSE IF t[p + 1] # LetterU THEN TakeEscape(r, t[p + 1])
    ELSE TakeUnicode(r, UnicodeAt(t, p), UnicodeAt(t, p + 6))

Unread == [at |-> 2, bytes |-> << >>, state |-> "open"]

\* The readings of the first characters of t.
Readings(t) ==
    LET read[n \in 0..Len(t)] == IF n = 0 THEN Unread ELSE TakeCharacter(t, read[n - 1])
    IN  read

Reference == Readings(text)[Len(text)]

StringReturned == SubSeq(input, 2, result.length + 1)

---------------------------------------------------------------------------
(* Properties.                                                             *)

\* Where parse_str_ loads and stores without a check.  A chunk is loaded from
\* inside the input, and its store ends inside the buffer; the character
\* behind a backslash is of the input.  The digits of a \u escape need not be:
\* they are loaded up to three bytes beyond the input ("\u" may be all of it),
\* and no further, the second escape of a pair included.
BuffersInRange ==
    /\ pc # "Done" => src_i < SrcLen
    /\ pc = "Copy" => dst_i + Chunk <= Len(text) + Chunk
    /\ pc = "Copy" => len + dst_i <= src_i
    /\ pc = "Copy" /\ BackslashFirst =>
          LET k == src_i + Distance(Backslash) IN
          /\ k + 1 < SrcLen
          /\ EscapeChar = LetterU => LastLoaded(k) < SrcLen + 3

\* The string returned is the one the text spells, or an error if it spells
\* none; bytes left over in the padding, and bytes behind the input, make no
\* difference.  Nothing is said of the two kinds of unpaired surrogate that
\* handle_unicode_codepoint lets pass.
UnescapedRight ==
    pc = "Done" /\ Reference.state # "unpaired" =>
        /\ result.status = "ok" <=> Reference.state = "closed"
        /\ result.status = "ok" => StringReturned = Reference.bytes

\* What is written over is behind the opening quote and before the closing
\* one, whether the string spells anything or not: the second pass has yet to
\* read what comes after it.
RestUntouched ==
    \A p \in DOMAIN text : input[p] # text[p] => p > 1 /\ ~ClosedBy(text, p)

\* "We assume that surrogates are treated separately": none is encoded.
NoSurrogateEncoded ==
    pc = "Done" /\ result.status = "ok" =>
        \A k \in 1..result.length - 1 :
            ~(StringReturned[k] = 237 /\ StringReturned[k + 1] >= 160)
=================================================================================
