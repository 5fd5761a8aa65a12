--------------------------------- MODULE Stage1 ---------------------------------
(***************************************************************************)
(* Deserializer::find_structural_bits of src/src/stage1.rs: the positions  *)
(* of the structural characters of a text, found a block of bytes at a     *)
(* time with operations on bit vectors.  What a block has to know of the   *)
(* blocks before it travels in three carries: whether they end in an odd   *)
(* run of backslashes, inside a string, or before a character that may     *)
(* begin a value.                                                          *)
(*                                                                         *)
(* A bit vector is the set of its one bits; bit k of a block is the byte   *)
(* at idx + k, and the code's 64 is Width.  Indexes are kept in 32 bits:   *)
(* IndexLimit is the code's 2^32, and nothing keeps a text below it.       *)
(* UTF-8 validity is a separate computation on the same blocks and not     *)
(* part of this module.                                                    *)
(***************************************************************************)
EXTENDS Integers, Sequences, FiniteSets

CONSTANTS
    InputTexts,     \* the texts to scan
    Width,          \* the bytes in a block
    IndexLimit      \* the first index that does not fit its type

Byte == 0..255
ASSUME TextsAssumption == \A t \in InputTexts : t \in Seq(Byte)
\* EVEN_BITS and ODD_BITS keep their meaning from block to block.
ASSUME WidthAssumption == Width \in Nat /\ Width > 0 /\ Width % 2 = 0

ASSUME IndexLimitAssumption == IndexLimit \in Nat /\ IndexLimit > 0

VARIABLES
    text, pc, idx,
    prev_iter_ends_odd_backslash, prev_iter_inside_quote, prev_iter_ends_pseudo_pred,
    structurals,            \* of the last block, not yet flattened
    error_mask,             \* whether a bit of it is set
    structural_indexes, result

carries == <<prev_iter_ends_odd_backslash, prev_iter_inside_quote, prev_iter_ends_pseudo_pred>>
vars == <<text, pc, idx, prev_iter_ends_odd_backslash, prev_iter_inside_quote,
          prev_iter_ends_pseudo_pred, structurals, error_mask, structural_indexes, result>>

---------------------------------------------------------------------------
(* Bit vectors.                                                            *)

Bits   == 0..Width - 1
Not(v) == Bits \ v
ShiftLeft(v, carry) ==
    {k + 1 : k \in v \ {Width - 1}} \union (IF carry THEN {0} ELSE {})

\* The addition of two vectors carries into bit k: bits of both make a carry,
\* and those of either pass it on.
CarriesInto(v, w, k) ==
    \E j \in v \intersect w : j < k /\ j + 1..k - 1 \subseteq v \union w

WrappingAdd(v, w) == {k \in Bits : (k \in v <=> k \in w) <=> CarriesInto(v, w, k)}
Overflows(v, w)   == CarriesInto(v, w, Width)

EVEN_BITS == {k \in Bits : k % 2 = 0}
ODD_BITS  == Not(EVEN_BITS)

---------------------------------------------------------------------------
(* The passes over one block, a function from Bits to bytes.               *)

Quote     == 34
Backslash == 92

cmp_mask_against_input(input, m)         == {k \in Bits : input[k] = m}
unsigned_lteq_against_input(input, maxval) == {k \in Bits : input[k] <= maxval}

\* Mutant of find_odd_backslash_sequences: the run a block begins with is
\* taken for one that begins there.
find_odd_backslash_sequences_no_carry(input) ==
    LET bs_bits  == cmp_mask_against_input(input, Backslash)
        start_edges == bs_bits \ ShiftLeft(bs_bits, FALSE)
        even_starts  == start_edges \intersect EVEN_BITS
        odd_starts   == start_edges \ EVEN_BITS
        even_carries == WrappingAdd(bs_bits, even_starts)
        odd_carries  == WrappingAdd(bs_bits, odd_starts)
    IN  [odd_ends |-> ((even_carries \ bs_bits) \intersect ODD_BITS)
                        \union ((odd_carries \ bs_bits) \intersect EVEN_BITS),
         carry    |-> Overflows(bs_bits, odd_starts)]

\* The characters after the odd runs of backslashes, and whether the block
\* ends in such a run.
find_odd_backslash_sequences(input) ==
    LET prev     == prev_iter_ends_odd_backslash
        bs_bits  == cmp_mask_against_input(input, Backslash)
        start_edges == bs_bits \ ShiftLeft(bs_bits, FALSE)
        even_start_mask == IF prev THEN EVEN_BITS \ {0} ELSE EVEN_BITS
        even_starts  == start_edges \intersect even_start_mask
        odd_starts   == start_edges \ even_start_mask
        even_carries == WrappingAdd(bs_bits, even_starts)
        odd_carries  == WrappingAdd(bs_bits, odd_starts) \union (IF prev THEN {0} ELSE {})
    IN  [odd_ends |-> ((even_carries \ bs_bits) \intersect ODD_BITS)
                        \union ((odd_carries \ bs_bits) \intersect EVEN_BITS),
         carry    |-> Overflows(bs_bits, odd_starts)]

\* The carry-less product with all ones: the parity of the bits up to each.
PrefixXor(v) == {k \in Bits : Cardinality({j \in v : j <= k}) % 2 = 1}

\* Mutant of find_quote_mask_and_bits: 0x1F passes for a printable character.
find_quote_mask_and_bits_lt(input, odd_ends) ==
    LET quote_bits == cmp_mask_against_input(input, Quote) \ odd_ends
        quote_mask == IF prev_iter_inside_quote THEN Not(PrefixXor(quote_bits))
                      ELSE PrefixXor(quote_bits)
    IN  [quote_bits |-> quote_bits,
         quote_mask |-> quote_mask,
         error      |-> quote_mask \intersect unsigned_lteq_against_input(input, 30) # {},
         carry      |-> Width - 1 \in quote_mask]

find_quote_mask_and_bits(input, odd_ends) ==
    LET quote_bits == cmp_mask_against_input(input, Quote) \ odd_ends
        quote_mask == IF prev_iter_inside_quote THEN Not(PrefixXor(quote_bits))
                      ELSE PrefixXor(quote_bits)
    IN  [quote_bits |-> quote_bits,
         quote_mask |-> quote_mask,
         error      |-> quote_mask \intersect unsigned_lteq_against_input(input, 31) # {},
         carry      |-> Width - 1 \in quote_mask]

low_nibble_mask ==
    <<{4}, {}, {}, {}, {}, {}, {}, {}, {}, {3}, {2, 3}, {0}, {1}, {0, 3}, {}, {}>>
high_nibble_mask ==
    <<{3}, {}, {1, 4}, {2}, {}, {0}, {}, {0}, {}, {}, {}, {0, 1}, {1}, {0}, {}, {}>>

\* The bits the two tables agree on for a byte: 0 to 2 for the structural
\* characters, 3 and 4 for whitespace.  From 0x80 on the first lookup gives 0.
Shufti == [b \in Byte |->
    IF b < 128 THEN low_nibble_mask[(b % 16) + 1] \intersect high_nibble_mask[(b \div 16) + 1]
    ELSE {}]

find_whitespace_and_structurals(input) ==
    [structurals |-> {k \in Bits : Shufti[input[k]] \intersect 0..2 # {}},
     whitespace  |-> {k \in Bits : Shufti[input[k]] \intersect 3..4 # {}}]

\* Mutant of finalize_structurals: closing quotes are not taken out.
finalize_structurals_all_quotes(structural, whitespace, quote_mask, quote_bits) ==
    LET real == (structural \ quote_mask) \union quote_bits
        pseudo_pred == real \union whitespace
        pseudo_structurals ==
            (ShiftLeft(pseudo_pred, prev_iter_ends_pseudo_pred) \ whitespace) \ quote_mask
    IN  [structurals |-> real \union pseudo_structurals,
         carry       |-> Width - 1 \in pseudo_pred]

finalize_structurals(structural, whitespace, quote_mask, quote_bits) ==
    LET real == (structural \ quote_mask) \union quote_bits
        pseudo_pred == real \union whitespace
        pseudo_structurals ==
            (ShiftLeft(pseudo_pred, prev_iter_ends_pseudo_pred) \ whitespace) \ quote_mask
    IN  [structurals |-> (real \union pseudo_structurals) \ (quote_bits \ quote_mask),
         carry       |-> Width - 1 \in pseudo_pred]

\* `as u32`.
Wrapped(n) == n % IndexLimit

\* The n-th of the numbers of a set, counted from 1.
Nth(S, n) == CHOOSE k \in S : Cardinality({j \in S : j < k}) = n - 1

\* Mutant of flatten_bits: idx taken for the start of the block.
flatten_bits_ahead(base, at, bits) ==
    base \o [n \in 1..Cardinality(bits) |-> Wrapped(at + Nth(bits, n))]

\* The bits of a block, as indexes into the text, after those found so far.
flatten_bits(base, at, bits) ==
    base \o [n \in 1..Cardinality(bits) |-> Wrapped(at - Width + Nth(bits, n))]

---------------------------------------------------------------------------

Init ==
    /\ text \in InputTexts
    /\ pc = "Scan"
    /\ idx = 0
    /\ prev_iter_ends_odd_backslash = FALSE
    /\ prev_iter_inside_quote = FALSE
    /\ prev_iter_ends_pseudo_pred = TRUE
    /\ structurals = {}
    /\ error_mask = FALSE
    /\ structural_indexes = <<0>>
    /\ result = "none"

\* The body of the loop and of its copy for the last block: scan the block,
\* flattening the bits of the one before it.
Scan(input) ==
    LET backslashes == find_odd_backslash_sequences(input)
        quotes      == find_quote_mask_and_bits(input, backslashes.odd_ends)
        chars       == find_whitespace_and_structurals(input)
        final       == finalize_structurals(chars.structurals, chars.whitespace,
                                            quotes.quote_mask, quotes.quote_bits)
    IN  /\ prev_iter_ends_odd_backslash' = backslashes.carry
        /\ prev_iter_inside_quote' = quotes.carry
        /\ prev_iter_ends_pseudo_pred' = final.carry
        /\ error_mask' = (error_mask \/ quotes.error)
        /\ structural_indexes' = flatten_bits(structural_indexes, idx, structurals)
        /\ structurals' = final.structurals
        /\ idx' = idx + Width

lenminus64 == IF Len(text) < Width THEN 0 ELSE Len(text) - Width

ScanBlock ==
    /\ pc = "Scan" /\ idx < lenminus64
    /\ Scan([k \in Bits |-> text[idx + k + 1]])
    /\ UNCHANGED <<text, pc, result>>

\* The rest of the text, filled up with spaces.
tmpbuf == [k \in Bits |-> IF idx + k < Len(text) THEN text[idx + k + 1] ELSE 32]

ScanTail ==
    /\ pc = "Scan" /\ idx >= lenminus64 /\ idx < Len(text)
    /\ Scan(tmpbuf)
    /\ pc' = "Finish"
    /\ UNCHANGED <<text, result>>

SkipTail ==
    /\ pc = "Scan" /\ idx >= lenminus64 /\ idx >= Len(text)
    /\ pc' = "Finish"
    /\ UNCHANGED <<text, idx, carries, structurals, error_mask, structural_indexes, result>>

Finish ==
    /\ pc = "Finish"
    /\ pc' = "Done"
    /\ IF prev_iter_inside_quote
       THEN result' = "Syntax" /\ UNCHANGED structural_indexes
       ELSE LET indexes == flatten_bits(structural_indexes, idx, structurals) IN
            /\ structural_indexes' = indexes
            /\ result' = IF Len(indexes) = 1 THEN "EOF"
                         ELSE IF indexes[Len(indexes)] > Wrapped(Len(text)) THEN "InternalError"
                         ELSE IF error_mask THEN "Syntax" ELSE "Ok"
    /\ UNCHANGED <<text, idx, carries, structurals, error_mask>>

Step == ScanBlock \/ ScanTail \/ SkipTail \/ Finish

Returned == pc = "Done" /\ UNCHANGED vars

Next == Step \/ Returned
Spec == Init /\ [][Next]_vars

---------------------------------------------------------------------------
(* The reference: a text byte by byte, positions counted from 1.           *)

Whitespace == {9, 10, 13, 32}
Structural == {44, 58, 91, 93, 123, 125}        \* , : [ ] { }

Escaped(p)   == Cardinality({q \in 1..p - 1 : \A r \in q..p - 1 : text[r] = Backslash}) % 2 = 1
RealQuote(p) == text[p] = Quote /\ ~Escaped(p)
InString(p)  == Cardinality({q \in 1..p : RealQuote(q)}) % 2 = 1

\* A scalar can begin after p.
Separates(p) == \/ RealQuote(p)
                \/ text[p] \in Whitespace
                \/ text[p] \in Structural /\ ~InString(p)

Indexed(p) ==
    \/ RealQuote(p) /\ InString(p)
    \/ text[p] \in Structural /\ ~InString(p)
    \/ /\ text[p] \notin Structural \union Whitespace /\ ~RealQuote(p) /\ ~InString(p)
       /\ p = 1 \/ Separates(p - 1)

ReferenceResult ==
    IF InString(Len(text)) THEN "Syntax"
    ELSE IF \A p \in DOMAIN text : ~Indexed(p) THEN "EOF"
    ELSE IF \E p \in DOMAIN text : InString(p) /\ text[p] <= 31 THEN "Syntax"
    ELSE "Ok"

---------------------------------------------------------------------------
(* Properties.                                                             *)

\* The variables have their types, and every index stage 1 returns is that of
\* a byte of the text, even when the text is too long for its indexes: stage 2
\* reads the input at them unchecked.
TypeOK ==
    /\ pc \in {"Scan", "Finish", "Done"}
    /\ idx \in Nat
    /\ carries \in BOOLEAN \X BOOLEAN \X BOOLEAN
    /\ error_mask \in BOOLEAN
    /\ structurals \subseteq Bits
    /\ \A n \in DOMAIN structural_indexes : structural_indexes[n] \in 0..Len(text)
    /\ result = "Ok" =>
          \A n \in DOMAIN structural_indexes : structural_indexes[n] < Len(text)
    /\ result \in {"none", "Ok", "Syntax", "EOF", "InternalError"}

\* Between two blocks the carries hold what a scan byte by byte would carry:
\* no run of backslashes, string or separator is lost at a block boundary.
CarriesMatch ==
    pc = "Scan" =>
        /\ prev_iter_ends_odd_backslash = Escaped(idx + 1)
        /\ prev_iter_inside_quote = (idx > 0 /\ InString(idx))
        /\ prev_iter_ends_pseudo_pred = (idx = 0 \/ Separates(idx))

\* The characters indexed so far, with those of the block whose bits wait for
\* the next round, are those of the reference, in order and each once; beyond
\* IndexLimit only the low bits of their positions are left.
IndexesMatch ==
    result = "none" =>
        LET seen == {p \in DOMAIN text : p <= idx /\ Indexed(p)}
            all  == flatten_bits(structural_indexes, idx, structurals)
        IN  all = <<0>> \o [n \in 1..Cardinality(seen) |-> Wrapped(Nth(seen, n) - 1)]

\* The scan ends with the indexes of every structural character of the text,
\* or with the error the text deserves.  A text too long for its indexes is not
\* refused for that: it may meet an internal error, when the wrapped length is
\* below the last index, and passes with wrapped indexes otherwise.
ScanCorrect ==
    pc = "Done" =>
        /\ result = ReferenceResult \/ (result = "InternalError" /\ Len(text) >= IndexLimit)
        /\ result = "Ok" =>
              /\ Len(structural_indexes) = 1 + Cardinality({p \in DOMAIN text : Indexed(p)})
              /\ \A n \in 2..Len(structural_indexes) :
                    \E p \in DOMAIN text : Indexed(p) /\ Wrapped(p - 1) = structural_indexes[n]
=================================================================================
