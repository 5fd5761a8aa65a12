------------------------------- MODULE Stage1Proofs -------------------------------
(***************************************************************************)
(* The block scan of stage 1 finds what a scan byte by byte finds, for     *)
(* every text, every even Width and every IndexLimit: the carries hold     *)
(* what a block has to know of the blocks before it, the indexes are those *)
(* of the reference in their order, and the result is the one the text     *)
(* deserves.                                                               *)
(*                                                                         *)
(* A block is proved right in three passes, each a lemma about one block   *)
(* and the carry it begins with; the reference definitions count over the  *)
(* whole text and are turned into recurrences from one byte to the next.   *)
(***************************************************************************)
EXTENDS Stage1, NaturalLemmas, SequenceTheorems

Odd(n) == n % 2 = 1

LEMMA OddNext ==
    ASSUME NEW n \in Nat
    PROVE  Odd(n + 1) <=> ~Odd(n)
PROOF BY DEF Odd

---------------------------------------------------------------------------
(* The addition that finds the ends of runs.                               *)

\* A carry into the next bit, when one vector is part of the other: a start
\* makes it, and a bit of the run passes it on.
LEMMA CarryNext ==
    ASSUME NEW run, NEW starts, starts \subseteq run, run \subseteq Bits, NEW k \in Bits
    PROVE  CarriesInto(run, starts, k + 1)
             <=> k \in starts \/ (k \in run /\ CarriesInto(run, starts, k))
PROOF
<1> USE WidthAssumption DEF Bits
<1>1. ASSUME CarriesInto(run, starts, k + 1), k \notin starts
      PROVE  k \in run /\ CarriesInto(run, starts, k)
    <2>1. PICK j \in run \intersect starts :
              j < k + 1 /\ j + 1..(k + 1) - 1 \subseteq run \union starts
        BY <1>1 DEF CarriesInto
    <2>2. j \in Nat /\ j < k
        BY <1>1, <2>1
    <2>3. k \in j + 1..(k + 1) - 1
        BY <2>2
    <2>4. k \in run
        BY <2>1, <2>3
    <2>5. j + 1..k - 1 \subseteq run \union starts
        BY <2>1, <2>2
    <2> QED BY <2>1, <2>2, <2>4, <2>5 DEF CarriesInto
<1>2. ASSUME k \in starts PROVE CarriesInto(run, starts, k + 1)
    <2>1. k + 1..(k + 1) - 1 \subseteq run \union starts
        OBVIOUS
    <2> QED BY <1>2, <2>1 DEF CarriesInto
<1>3. ASSUME k \in run, CarriesInto(run, starts, k) PROVE CarriesInto(run, starts, k + 1)
    <2>1. PICK j \in run \intersect starts :
              j < k /\ j + 1..k - 1 \subseteq run \union starts
        BY <1>3 DEF CarriesInto
    <2>2. \A m \in j + 1..(k + 1) - 1 : m = k \/ m \in j + 1..k - 1
        BY <2>1
    <2>3. j + 1..(k + 1) - 1 \subseteq run \union starts
        BY <1>3, <2>1, <2>2
    <2>4. j < k + 1
        BY <2>1
    <2> QED BY <2>1, <2>3, <2>4 DEF CarriesInto
<1> QED BY <1>1, <1>2, <1>3

\* No carry comes into the first bit.
LEMMA CarryFirst ==
    ASSUME NEW run, NEW starts, run \subseteq Bits
    PROVE  ~CarriesInto(run, starts, 0)
PROOF BY WidthAssumption DEF CarriesInto, Bits

\* find_odd_backslash_sequences: given that the carry tells whether the block's
\* first character is escaped, odd_ends are the other characters after an odd
\* run, and the new carry tells it of the next block's.
LEMMA Backslashes ==
    ASSUME NEW input \in [Bits -> Byte], NEW esc \in [0..Width -> BOOLEAN],
           esc[0] <=> prev_iter_ends_odd_backslash,
           \A k \in Bits : esc[k + 1] <=> input[k] = Backslash /\ ~esc[k]
    PROVE  /\ find_odd_backslash_sequences(input).odd_ends
                = {k \in Bits : esc[k] /\ input[k] # Backslash}
           /\ find_odd_backslash_sequences(input).carry <=> esc[Width]
           /\ find_odd_backslash_sequences(input).carry \in BOOLEAN
PROOF
<1> USE WidthAssumption
<1> DEFINE prev == prev_iter_ends_odd_backslash
           bs == cmp_mask_against_input(input, Backslash)
           start_edges == bs \ ShiftLeft(bs, FALSE)
           mask == IF prev THEN EVEN_BITS \ {0} ELSE EVEN_BITS
           evens == start_edges \intersect mask
           odds == start_edges \ mask
           Even(k) == CarriesInto(bs, evens, k)
           Odds(k) == CarriesInto(bs, odds, k)
           \* Inside a run one of the two sums carries, the one that fits the run's start.
           Fits(k) == IF k # 0 /\ k - 1 \in bs
                      THEN /\ Even(k) <=> ~Odds(k)
                           /\ esc[k] <=> (Even(k) <=> k % 2 = 1)
                      ELSE ~Even(k) /\ ~Odds(k) /\ (esc[k] <=> k = 0 /\ prev)
<1>1. /\ bs \subseteq Bits /\ evens \subseteq bs /\ odds \subseteq bs
      /\ \A k \in Bits : k \in bs <=> input[k] = Backslash
    BY DEF cmp_mask_against_input
<1>2. \A k \in Bits : k \in start_edges <=> k \in bs /\ (k = 0 \/ k - 1 \notin bs)
    BY <1>1 DEF ShiftLeft, Bits
<1>3. \A k \in Bits : k \in mask <=> k % 2 = 0 /\ ~(k = 0 /\ prev)
    BY DEF EVEN_BITS
<1>4. Fits(0)
    BY <1>1, CarryFirst
<1>5. ASSUME NEW k \in 0..Width - 1, Fits(k) PROVE Fits(k + 1)
    <2>1. /\ Even(k + 1) <=> k \in evens \/ (k \in bs /\ Even(k))
          /\ Odds(k + 1) <=> k \in odds \/ (k \in bs /\ Odds(k))
        <3>1. k \in Bits
            BY DEF Bits
        <3> HIDE DEF bs, evens, odds
        <3> QED BY <1>1, <3>1, CarryNext
    <2>2. k \in Bits /\ (esc[k + 1] <=> k \in bs /\ ~esc[k])
        BY <1>1 DEF Bits
    <2>3. k + 1 # 0 /\ (k + 1) - 1 = k /\ ((k + 1) % 2 = 1 <=> k % 2 = 0)
             /\ (k % 2 = 0 <=> ~(k % 2 = 1))
        OBVIOUS
    <2>4. /\ k \in evens <=> k \in bs /\ (k = 0 \/ k - 1 \notin bs) /\ k % 2 = 0 /\ ~(k = 0 /\ prev)
          /\ k \in odds <=> k \in bs /\ (k = 0 \/ k - 1 \notin bs) /\ ~(k % 2 = 0 /\ ~(k = 0 /\ prev))
        BY <1>2, <1>3, <2>2
    <2> HIDE DEF bs, evens, odds, Even, Odds, prev
    <2>5. CASE k \notin bs
        <3>1. k \notin evens /\ k \notin odds
            BY <2>4, <2>5
        <3> QED BY <2>1, <2>2, <2>3, <2>5, <3>1
    <2>6. CASE k \in bs /\ k # 0 /\ k - 1 \in bs
        BY <1>5, <2>1, <2>2, <2>3, <2>4, <2>6
    <2>7. CASE k \in bs /\ ~(k # 0 /\ k - 1 \in bs)
        BY <1>5, <2>1, <2>2, <2>3, <2>4, <2>7
    <2> QED BY <2>5, <2>6, <2>7
<1>6. \A k \in 0..Width : Fits(k)
    <2> DEFINE S == {k \in 0..Width : Fits(k)}
    <2> HIDE DEF Fits
    <2>1. 0 \in S /\ \A k \in 0..Width - 1 : k \in S => k + 1 \in S
        BY <1>4, <1>5
    <2> HIDE DEF S
    <2>2. 0..Width \subseteq S
        BY <2>1, Induction
    <2> QED BY <2>2 DEF S
<1> DEFINE even_carries == WrappingAdd(bs, evens)
           odd_carries == WrappingAdd(bs, odds) \union (IF prev THEN {0} ELSE {})
           ends == ((even_carries \ bs) \intersect ODD_BITS)
                        \union ((odd_carries \ bs) \intersect EVEN_BITS)
<1>7. ASSUME NEW k \in Bits, k \notin bs
      PROVE  /\ k \in even_carries <=> Even(k)
             /\ k \in odd_carries <=> Odds(k) \/ (k = 0 /\ prev)
    BY <1>1, <1>7 DEF WrappingAdd
<1>8. ASSUME NEW k \in Bits PROVE k \in ends <=> k \notin bs /\ esc[k]
    <2>1. (k \in ODD_BITS <=> ~(k % 2 = 0)) /\ (k \in EVEN_BITS <=> k % 2 = 0)
              /\ (k % 2 = 0 <=> ~(k % 2 = 1)) /\ k \in 0..Width /\ 0 % 2 = 0
        BY DEF ODD_BITS, Not, EVEN_BITS, Bits
    <2>2. Fits(k)
        BY <1>6, <2>1
    <2>3. k \in ends <=> /\ k \notin bs
                         /\ \/ Even(k) /\ k % 2 = 1
                            \/ (Odds(k) \/ (k = 0 /\ prev)) /\ k % 2 = 0
        <3> HIDE DEF even_carries, odd_carries, bs, Even, Odds
        <3> QED BY <1>7, <2>1
    <2> HIDE DEF bs, Even, Odds, ends, prev
    <2> QED BY <2>1, <2>2, <2>3
<1>9. ends \subseteq Bits
    BY DEF ODD_BITS, EVEN_BITS, Not
<1>10. Odds(Width) <=> esc[Width]
    <2>1. Width \in 0..Width /\ Width # 0 /\ ~(Width % 2 = 1)
        OBVIOUS
    <2>2. Fits(Width)
        BY <1>6, <2>1
    <2> HIDE DEF bs, Even, Odds, prev
    <2> QED BY <2>1, <2>2
<1>11. /\ find_odd_backslash_sequences(input).odd_ends = ends
       /\ find_odd_backslash_sequences(input).carry <=> Odds(Width)
    BY DEF find_odd_backslash_sequences, Overflows
<1>13. find_odd_backslash_sequences(input).carry \in BOOLEAN
    BY DEF find_odd_backslash_sequences, Overflows, CarriesInto
<1>12. ends = {k \in Bits : esc[k] /\ input[k] # Backslash}
    <2> HIDE DEF bs, ends
    <2> QED BY <1>1, <1>8, <1>9
<1> HIDE DEF ends, Odds
<1> QED BY <1>10, <1>11, <1>12, <1>13

---------------------------------------------------------------------------
(* The quotes and the string mask.                                         *)

\* The carry-less product: a parity carried from bit to bit.
LEMMA Parities ==
    ASSUME NEW v, v \subseteq Bits, NEW par \in [0..Width -> BOOLEAN],
           ~par[0],
           \A k \in Bits : par[k + 1] <=> (par[k] <=> k \notin v)
    PROVE  PrefixXor(v) = {k \in Bits : par[k + 1]}
PROOF
<1> USE WidthAssumption
<1> DEFINE Below(k) == {j \in v : j < k}
           Right(k) == /\ IsFiniteSet(Below(k)) /\ Cardinality(Below(k)) \in Nat
                       /\ par[k] <=> Odd(Cardinality(Below(k)))
<1>0. \A j \in v : j \in Nat /\ j < Width
    BY DEF Bits
<1>1. Right(0)
    <2>1. Below(0) = {}
        BY <1>0
    <2> HIDE DEF Below
    <2> QED BY <2>1, FS_EmptySet DEF Odd
<1>2. ASSUME NEW k \in 0..Width - 1, Right(k) PROVE Right(k + 1)
    <2>1. \A j \in v : j < k + 1 <=> j < k \/ j = k
        BY <1>0
    <2>2. /\ k \in v => Below(k + 1) = Below(k) \union {k}
          /\ k \notin v => Below(k + 1) = Below(k)
          /\ k \notin Below(k)
        BY <2>1
    <2>3. k \in Bits
        BY DEF Bits
    <2> HIDE DEF Below
    <2>4. CASE k \in v
        <3>1. /\ IsFiniteSet(Below(k + 1))
              /\ Cardinality(Below(k + 1)) = Cardinality(Below(k)) + 1
            BY <1>2, <2>2, <2>4, FS_AddElement
        <3>2. Odd(Cardinality(Below(k)) + 1) <=> ~Odd(Cardinality(Below(k)))
            BY <1>2, OddNext
        <3>3. par[k + 1] <=> ~par[k]
            BY <2>3, <2>4
        <3> QED BY <1>2, <3>1, <3>2, <3>3
    <2>5. CASE k \notin v
        <3>1. par[k + 1] <=> par[k]
            BY <2>3, <2>5
        <3> QED BY <1>2, <2>2, <2>5, <3>1
    <2> QED BY <2>4, <2>5
<1>3. \A k \in 0..Width : Right(k)
    <2> DEFINE S == {k \in 0..Width : Right(k)}
    <2> HIDE DEF Right
    <2>1. 0 \in S /\ \A k \in 0..Width - 1 : k \in S => k + 1 \in S
        BY <1>1, <1>2
    <2> HIDE DEF S
    <2>2. 0..Width \subseteq S
        BY <2>1, Induction
    <2> QED BY <2>2 DEF S
<1>4. ASSUME NEW k \in Bits PROVE k \in PrefixXor(v) <=> par[k + 1]
    <2>1. {j \in v : j <= k} = Below(k + 1)
        <3>1. k \in Nat
            BY DEF Bits
        <3>2. \A j \in v : j <= k <=> j < k + 1
            BY <1>0, <3>1
        <3> QED BY <3>2
    <2>2. k + 1 \in 0..Width
        BY DEF Bits
    <2> HIDE DEF Below
    <2>3. Right(k + 1)
        BY <1>3, <2>2
    <2> QED BY <2>1, <2>3 DEF PrefixXor, Odd
<1> QED BY <1>4 DEF PrefixXor

\* find_quote_mask_and_bits: given that the carry tells whether the block begins
\* inside a string, the mask is the characters inside strings with the quotes
\* that open them, and the new carry tells it of the next block.
LEMMA Quotes ==
    ASSUME NEW input \in [Bits -> Byte], NEW odd_ends,
           NEW inside \in [0..Width -> BOOLEAN],
           inside[0] <=> prev_iter_inside_quote,
           \A k \in Bits : inside[k + 1] <=> (inside[k] <=> ~(input[k] = Quote /\ k \notin odd_ends))
    PROVE  /\ find_quote_mask_and_bits(input, odd_ends).quote_bits
                = {k \in Bits : input[k] = Quote /\ k \notin odd_ends}
           /\ find_quote_mask_and_bits(input, odd_ends).quote_mask = {k \in Bits : inside[k + 1]}
           /\ find_quote_mask_and_bits(input, odd_ends).carry <=> inside[Width]
           /\ find_quote_mask_and_bits(input, odd_ends).carry \in BOOLEAN
           /\ find_quote_mask_and_bits(input, odd_ends).error \in BOOLEAN
           /\ find_quote_mask_and_bits(input, odd_ends).error
                <=> \E k \in Bits : inside[k + 1] /\ input[k] <= 31
PROOF
<1> USE WidthAssumption
<1> DEFINE quote_bits == cmp_mask_against_input(input, Quote) \ odd_ends
           par == [k \in 0..Width |-> inside[k] <=> ~inside[0]]
           mask == IF prev_iter_inside_quote THEN Not(PrefixXor(quote_bits)) ELSE PrefixXor(quote_bits)
<1>1. quote_bits = {k \in Bits : input[k] = Quote /\ k \notin odd_ends}
    BY DEF cmp_mask_against_input
<1>2. PrefixXor(quote_bits) = {k \in Bits : par[k + 1]}
    <2>1. par \in [0..Width -> BOOLEAN]
        OBVIOUS
    <2>2. ~par[0]
        <3>1. 0 \in 0..Width
            OBVIOUS
        <3> QED BY <3>1
    <2>3. quote_bits \subseteq Bits
        BY <1>1
    <2>4. ASSUME NEW k \in Bits PROVE par[k + 1] <=> (par[k] <=> k \notin quote_bits)
        <3>1. /\ k \in 0..Width /\ k + 1 \in 0..Width
              /\ k \in quote_bits <=> input[k] = Quote /\ k \notin odd_ends
            BY <1>1 DEF Bits
        <3>2. /\ par[k] <=> (inside[k] <=> ~inside[0])
              /\ par[k + 1] <=> (inside[k + 1] <=> ~inside[0])
            BY <3>1
        <3> HIDE DEF par, quote_bits
        <3> QED BY <3>1, <3>2
    <2> HIDE DEF par, quote_bits
    <2> QED BY <2>1, <2>2, <2>3, <2>4, Parities
<1>3. mask = {k \in Bits : inside[k + 1]}
    <2>1. ASSUME NEW k \in Bits PROVE k + 1 \in 0..Width /\ 0 \in 0..Width
        BY DEF Bits
    <2>2. ASSUME NEW k \in Bits PROVE par[k + 1] <=> (inside[k + 1] <=> ~inside[0])
        BY <2>1
    <2> HIDE DEF par, quote_bits
    <2> QED BY <1>2, <2>2 DEF Not
<1>4. /\ find_quote_mask_and_bits(input, odd_ends).quote_bits = quote_bits
      /\ find_quote_mask_and_bits(input, odd_ends).quote_mask = mask
      /\ find_quote_mask_and_bits(input, odd_ends).carry <=> Width - 1 \in mask
      /\ find_quote_mask_and_bits(input, odd_ends).error
           <=> mask \intersect unsigned_lteq_against_input(input, 31) # {}
    BY DEF find_quote_mask_and_bits
<1>7. /\ find_quote_mask_and_bits(input, odd_ends).carry \in BOOLEAN
      /\ find_quote_mask_and_bits(input, odd_ends).error \in BOOLEAN
    BY DEF find_quote_mask_and_bits
<1> HIDE DEF mask, quote_bits
<1>5. Width - 1 \in mask <=> inside[Width]
    BY <1>3 DEF Bits
<1>6. mask \intersect unsigned_lteq_against_input(input, 31) # {}
        <=> \E k \in Bits : inside[k + 1] /\ input[k] <= 31
    BY <1>3 DEF unsigned_lteq_against_input
<1> QED BY <1>1, <1>3, <1>4, <1>5, <1>6, <1>7

---------------------------------------------------------------------------
(* The structural characters.                                              *)

\* The nibble tables pick the structural characters and whitespace, of all bytes.
LEMMA Tables ==
    ASSUME NEW b \in Byte
    PROVE  /\ Shufti[b] \intersect 0..2 # {} <=> b \in Structural
           /\ Shufti[b] \intersect 3..4 # {} <=> b \in Whitespace
PROOF
<1>1. \A c \in 0..127 :
          low_nibble_mask[(c % 16) + 1] \intersect high_nibble_mask[(c \div 16) + 1]
            \intersect 0..2 # {} <=> c \in Structural
    BY SMTT(60) DEF low_nibble_mask, high_nibble_mask, Structural
<1>2. \A c \in 0..127 :
          low_nibble_mask[(c % 16) + 1] \intersect high_nibble_mask[(c \div 16) + 1]
            \intersect 3..4 # {} <=> c \in Whitespace
    BY SMTT(60) DEF low_nibble_mask, high_nibble_mask, Whitespace
<1>3. CASE b < 128
    <2>1. b \in 0..127
        BY <1>3 DEF Byte
    <2>2. Shufti[b] = low_nibble_mask[(b % 16) + 1] \intersect high_nibble_mask[(b \div 16) + 1]
        BY <1>3 DEF Shufti
    <2> QED BY <1>1, <1>2, <2>1, <2>2
<1>4. CASE ~(b < 128)
    <2>1. Shufti[b] = {}
        BY <1>4 DEF Shufti
    <2>2. b \notin Structural /\ b \notin Whitespace
        BY <1>4 DEF Structural, Whitespace
    <2> QED BY <2>1, <2>2
<1> QED BY <1>3, <1>4

\* Whether a scalar can begin at k, after what is at k - 1.
Separated(sep, k) == IF k = 0 THEN prev_iter_ends_pseudo_pred ELSE k - 1 \in sep

\* finalize_structurals: the opening quotes, the structural characters outside
\* strings and the first characters of scalars; the carry tells whether the next
\* block can begin with a scalar.
LEMMA Finalized ==
    ASSUME NEW structural, structural \subseteq Bits, NEW whitespace, whitespace \subseteq Bits,
           NEW mask, mask \subseteq Bits, NEW quotes, quotes \subseteq Bits
    PROVE  LET sep == (structural \ mask) \union quotes \union whitespace
               final == finalize_structurals(structural, whitespace, mask, quotes)
           IN  /\ final.structurals = {k \in Bits :
                      \/ k \in quotes /\ k \in mask
                      \/ k \notin quotes /\ k \in structural /\ k \notin mask
                      \/ k \notin quotes /\ k \notin whitespace /\ k \notin mask /\ Separated(sep, k)}
               /\ final.carry <=> Width - 1 \in sep
               /\ final.carry \in BOOLEAN
PROOF
<1> USE WidthAssumption
<1> DEFINE real == (structural \ mask) \union quotes
           sep == real \union whitespace
           pseudo == (ShiftLeft(sep, prev_iter_ends_pseudo_pred) \ whitespace) \ mask
<1>1. /\ finalize_structurals(structural, whitespace, mask, quotes).structurals
           = (real \union pseudo) \ (quotes \ mask)
      /\ finalize_structurals(structural, whitespace, mask, quotes).carry <=> Width - 1 \in sep
    BY DEF finalize_structurals
<1>6. finalize_structurals(structural, whitespace, mask, quotes).carry \in BOOLEAN
    BY DEF finalize_structurals
<1>2. sep \subseteq Bits
    OBVIOUS
<1>3. \A k : k \in ShiftLeft(sep, prev_iter_ends_pseudo_pred) <=> k \in Bits /\ Separated(sep, k)
    <2> HIDE DEF sep
    <2> QED BY <1>2 DEF ShiftLeft, Separated, Bits
<1>4. ASSUME NEW k
      PROVE  k \in (real \union pseudo) \ (quotes \ mask)
               <=> /\ k \in Bits
                   /\ \/ k \in quotes /\ k \in mask
                      \/ k \notin quotes /\ k \in structural /\ k \notin mask
                      \/ k \notin quotes /\ k \notin whitespace /\ k \notin mask /\ Separated(sep, k)
    BY <1>3
<1>5. (real \union pseudo) \ (quotes \ mask) = {k \in Bits :
          \/ k \in quotes /\ k \in mask
          \/ k \notin quotes /\ k \in structural /\ k \notin mask
          \/ k \notin quotes /\ k \notin whitespace /\ k \notin mask /\ Separated(sep, k)}
    <2> HIDE DEF real, sep, pseudo
    <2> QED BY <1>4
<1> QED BY <1>1, <1>5, <1>6

---------------------------------------------------------------------------
(* The numbers of a set in their order.                                    *)

LEMMA NthMember ==
    ASSUME NEW S, S \subseteq Nat, IsFiniteSet(S), NEW n \in 1..Cardinality(S)
    PROVE  /\ Nth(S, n) \in S
           /\ Cardinality({j \in S : j < Nth(S, n)}) = n - 1
PROOF
<1>1. Cardinality(S) \in Nat
    BY FS_CardinalityType
<1>2. n - 1 \in 0..Cardinality(S) - 1
    BY <1>1
<1>3. \E k \in S : Cardinality({j \in S : j < k}) = n - 1
    BY <1>2, RankExists
<1> QED BY <1>3 DEF Nth

LEMMA NthUnique ==
    ASSUME NEW S, S \subseteq Nat, IsFiniteSet(S), NEW n \in 1..Cardinality(S),
           NEW k \in S, Cardinality({j \in S : j < k}) = n - 1
    PROVE  Nth(S, n) = k
PROOF
<1> DEFINE m == Nth(S, n)
           rank(l) == Cardinality({j \in S : j < l})
<1>1. m \in S /\ rank(m) = n - 1 /\ rank(k) = n - 1
    BY NthMember
<1>2. m \in Nat /\ k \in Nat
    BY <1>1
<1>3. \A a, b \in S : a < b => rank(a) < rank(b)
    BY RankStrict
<1> HIDE DEF m, rank
<1>4. \A a, b \in S : a < b => rank(a) < rank(b)
    BY <1>3
<1>5. ~(m < k) /\ ~(k < m)
    BY <1>1, <1>4
<1>6. m = k
    BY <1>2, <1>5
<1> QED BY <1>6 DEF m

\* A shifted set has its numbers in the same order.
LEMMA NthShifted ==
    ASSUME NEW S, S \subseteq Nat, IsFiniteSet(S), NEW c \in Nat,
           NEW T, T \subseteq Nat, \A k \in S : k + c \in T,
           \A t \in T : \E k \in S : t = k + c
    PROVE  /\ IsFiniteSet(T) /\ Cardinality(T) = Cardinality(S)
           /\ \A n \in 1..Cardinality(S) : Nth(T, n) = Nth(S, n) + c
PROOF
<1>1. IsFiniteSet(T) /\ Cardinality(T) = Cardinality(S)
    BY ShiftedSize
<1>2. ASSUME NEW n \in 1..Cardinality(S) PROVE Nth(T, n) = Nth(S, n) + c
    <2> DEFINE k == Nth(S, n)
               U == {j \in S : j < k}
               V == {t \in T : t < k + c}
    <2>1. k \in S /\ Cardinality(U) = n - 1
        BY NthMember
    <2> HIDE DEF k
    <2>2. IsFiniteSet(U) /\ U \subseteq Nat /\ V \subseteq Nat
        <3>1. U \subseteq S
            OBVIOUS
        <3> HIDE DEF U
        <3>2. IsFiniteSet(U) /\ U \subseteq Nat
            BY <3>1, FS_Subset
        <3> QED BY <3>2
    <2>3. \A j \in U : j + c \in V
        BY <2>1
    <2>4. \A t \in V : \E j \in U : t = j + c
        <3> SUFFICES ASSUME NEW t \in T, t < k + c PROVE \E j \in U : t = j + c
            OBVIOUS
        <3>1. PICK j \in S : t = j + c
            OBVIOUS
        <3>2. j < k
            BY <2>1, <3>1
        <3> QED BY <3>1, <3>2
    <2>5. Cardinality(V) = Cardinality(U)
        <3> HIDE DEF U, V
        <3> QED BY <2>2, <2>3, <2>4, ShiftedSize
    <2>6. k + c \in T
        BY <2>1
    <2>7. Nth(T, n) = k + c
        BY <1>1, <2>1, <2>5, <2>6, NthUnique
    <2> QED BY <2>7 DEF k
<1> QED BY <1>1, <1>2

\* When the numbers of S are all below those of T, the ones of S come first.
LEMMA UnionSize ==
    ASSUME NEW S, S \subseteq Nat, IsFiniteSet(S),
           NEW T, T \subseteq Nat, IsFiniteSet(T),
           \A a \in S, b \in T : a < b
    PROVE  /\ IsFiniteSet(S \union T) /\ S \union T \subseteq Nat
           /\ S \intersect T = {}
           /\ Cardinality(S \union T) = Cardinality(S) + Cardinality(T)
           /\ Cardinality(S) \in Nat /\ Cardinality(T) \in Nat
PROOF
<1>1. S \intersect T = {}
    <2> SUFFICES ASSUME NEW a \in S, a \in T PROVE FALSE
        OBVIOUS
    <2> QED OBVIOUS
<1>2. S \union T \subseteq Nat
    OBVIOUS
<1>3. /\ IsFiniteSet(S \union T)
      /\ Cardinality(S \union T) = Cardinality(S) + Cardinality(T)
      /\ Cardinality(S) \in Nat /\ Cardinality(T) \in Nat
    BY ONLY <1>1, IsFiniteSet(S), IsFiniteSet(T), DisjointUnion
<1> QED BY <1>1, <1>2, <1>3

LEMMA NthOfLower ==
    ASSUME NEW S, S \subseteq Nat, IsFiniteSet(S),
           NEW T, T \subseteq Nat, IsFiniteSet(T),
           \A a \in S, b \in T : a < b,
           NEW n \in 1..Cardinality(S)
    PROVE  Nth(S \union T, n) = Nth(S, n)
PROOF
<1> DEFINE W == S \union T
           k == Nth(S, n)
<1>1. k \in S /\ Cardinality({j \in S : j < k}) = n - 1
    BY NthMember
<1> HIDE DEF k
<1>2. \A b \in T : ~(b < k)
    BY <1>1
<1>3. {j \in W : j < k} = {j \in S : j < k}
    BY <1>2
<1>4. /\ IsFiniteSet(W) /\ W \subseteq Nat
      /\ Cardinality(W) = Cardinality(S) + Cardinality(T)
      /\ Cardinality(S) \in Nat /\ Cardinality(T) \in Nat
    BY UnionSize
<1>5. k \in W /\ n \in 1..Cardinality(W) /\ Cardinality({j \in W : j < k}) = n - 1
    <2>1. k \in W
        BY <1>1
    <2>2. n \in 1..Cardinality(W)
        BY <1>4
    <2> QED BY <1>1, <1>3, <2>1, <2>2
<1> HIDE DEF W
<1>6. Nth(W, n) = k
    BY <1>4, <1>5, NthUnique
<1> QED BY <1>6 DEF k, W

LEMMA NthOfUpper ==
    ASSUME NEW S, S \subseteq Nat, IsFiniteSet(S),
           NEW T, T \subseteq Nat, IsFiniteSet(T),
           \A a \in S, b \in T : a < b,
           NEW m \in 1..Cardinality(S \union T), m > Cardinality(S)
    PROVE  Nth(S \union T, m) = Nth(T, m - Cardinality(S))
PROOF
<1> DEFINE W == S \union T
           n == m - Cardinality(S)
           k == Nth(T, n)
           V == {j \in T : j < k}
           X == {j \in W : j < k}
<1>1. /\ IsFiniteSet(W) /\ W \subseteq Nat /\ S \intersect T = {}
      /\ Cardinality(W) = Cardinality(S) + Cardinality(T)
      /\ Cardinality(S) \in Nat /\ Cardinality(T) \in Nat
    BY UnionSize
<1>2. n \in 1..Cardinality(T) /\ m = Cardinality(S) + n /\ m \in 1..Cardinality(W)
    BY <1>1
<1> HIDE DEF n
<1>3. k \in T /\ Cardinality(V) = n - 1
    BY <1>2, NthMember
<1> HIDE DEF k
<1>4. X = S \union V
    BY <1>3
<1>5. V \subseteq T /\ S \intersect V = {}
    BY <1>1
<1> HIDE DEF V, X
<1>6. IsFiniteSet(V)
    BY <1>5, FS_Subset
<1>7. Cardinality(S \union V) = Cardinality(S) + Cardinality(V)
    BY ONLY <1>5, <1>6, IsFiniteSet(S), DisjointUnion
<1>8. Cardinality(X) = m - 1
    BY <1>1, <1>2, <1>3, <1>4, <1>7
<1>9. k \in W
    BY <1>3
<1> HIDE DEF W
<1>10. Nth(W, m) = k
    BY <1>1, <1>2, <1>8, <1>9, NthUnique DEF X
<1> QED BY <1>10 DEF k, n, W

\* The indexes of a set of positions, counted from 1, as stage 1 keeps them.
Indexes(S) == [n \in 1..Cardinality(S) |-> Wrapped(Nth(S, n) - 1)]

LEMMA IndexesType ==
    ASSUME NEW S, S \subseteq Nat \ {0}, IsFiniteSet(S)
    PROVE  /\ Indexes(S) \in Seq(Nat)
           /\ Len(Indexes(S)) = Cardinality(S)
           /\ \A n \in 1..Cardinality(S) :
                 Nth(S, n) \in S /\ Indexes(S)[n] = Wrapped(Nth(S, n) - 1)
                    /\ Indexes(S)[n] \in 0..Nth(S, n) - 1
PROOF
<1>1. Cardinality(S) \in Nat
    BY FS_CardinalityType
<1>2. ASSUME NEW n \in 1..Cardinality(S)
      PROVE  Nth(S, n) \in S /\ Wrapped(Nth(S, n) - 1) \in 0..Nth(S, n) - 1
    <2> DEFINE k == Nth(S, n)
    <2>1. k \in S
        BY NthMember
    <2> HIDE DEF k
    <2>2. k - 1 \in Nat
        BY <2>1
    <2>3. Wrapped(k - 1) \in 0..k - 1
        BY <2>2, IndexLimitAssumption DEF Wrapped
    <2> QED BY <2>1, <2>3 DEF k
<1>3. \A n \in 1..Cardinality(S) : Wrapped(Nth(S, n) - 1) \in Nat
    BY <1>2
<1> QED BY <1>1, <1>2, <1>3 DEF Indexes

LEMMA IndexesUnion ==
    ASSUME NEW S, S \subseteq Nat \ {0}, IsFiniteSet(S),
           NEW T, T \subseteq Nat \ {0}, IsFiniteSet(T),
           \A a \in S, b \in T : a < b
    PROVE  Indexes(S \union T) = Indexes(S) \o Indexes(T)
PROOF
<1> DEFINE W == S \union T
           s == Cardinality(S)
           t == Cardinality(T)
<1>1. /\ Cardinality(W) = s + t /\ s \in Nat /\ t \in Nat
      /\ \A n \in 1..s : Nth(W, n) = Nth(S, n)
      /\ \A n \in 1..s + t : n > s => Nth(W, n) = Nth(T, n - s)
    <2>1. S \subseteq Nat /\ T \subseteq Nat
        OBVIOUS
    <2>2. Cardinality(W) = s + t /\ s \in Nat /\ t \in Nat
        BY <2>1, UnionSize
    <2>3. ASSUME NEW n \in 1..s PROVE Nth(W, n) = Nth(S, n)
        BY <2>1, NthOfLower
    <2>4. ASSUME NEW n \in 1..s + t, n > s PROVE Nth(W, n) = Nth(T, n - s)
        BY <2>1, <2>2, <2>4, NthOfUpper
    <2> QED BY <2>2, <2>3, <2>4
<1>2. /\ Indexes(S) \in Seq(Nat) /\ Len(Indexes(S)) = s
      /\ Indexes(T) \in Seq(Nat) /\ Len(Indexes(T)) = t
      /\ \A n \in 1..s : Indexes(S)[n] = Wrapped(Nth(S, n) - 1)
      /\ \A n \in 1..t : Indexes(T)[n] = Wrapped(Nth(T, n) - 1)
    BY IndexesType
<1>3. /\ Indexes(W) \in Seq(Nat) /\ Len(Indexes(W)) = s + t
      /\ \A n \in 1..s + t : Indexes(W)[n] = Wrapped(Nth(W, n) - 1)
    <2>1. IsFiniteSet(W) /\ W \subseteq Nat \ {0}
        BY FS_Union
    <2> HIDE DEF W
    <2> QED BY <1>1, <2>1, IndexesType
<1> HIDE DEF W, s, t
<1> DEFINE both == Indexes(S) \o Indexes(T)
<1>4. /\ both \in Seq(Nat) /\ Len(both) = s + t
      /\ \A n \in 1..s + t :
            both[n] = IF n <= s THEN Indexes(S)[n] ELSE Indexes(T)[n - s]
    BY <1>2, ConcatProperties
<1> HIDE DEF both
<1>5. ASSUME NEW n \in 1..s + t PROVE Indexes(W)[n] = both[n]
    <2>1. CASE n <= s
        <3>1. n \in 1..s
            BY <1>1, <2>1
        <3> QED BY <1>1, <1>2, <1>3, <1>4, <2>1, <3>1
    <2>2. CASE ~(n <= s)
        <3>1. n - s \in 1..t /\ n > s
            BY <1>1, <2>2
        <3> QED BY <1>1, <1>2, <1>3, <1>4, <2>2, <3>1
    <2> QED BY <2>1, <2>2
<1>6. Indexes(W) = both
    BY <1>3, <1>4, <1>5, SeqEqual
<1> QED BY <1>6 DEF W, both

---------------------------------------------------------------------------
(* The reference, from one byte to the next.                               *)

LEMMA EscapedNext ==
    ASSUME text \in Seq(Byte)
    PROVE  /\ ~Escaped(1)
           /\ \A p \in 1..Len(text) : Escaped(p + 1) <=> text[p] = Backslash /\ ~Escaped(p)
PROOF
<1> DEFINE Run(p) == {q \in 1..p - 1 : \A r \in q..p - 1 : text[r] = Backslash}
<1>0. Len(text) \in Nat
    OBVIOUS
<1>1. ~Escaped(1)
    <2>1. Run(1) = {}
        OBVIOUS
    <2> HIDE DEF Run
    <2>2. Cardinality(Run(1)) = 0
        BY <2>1, FS_EmptySet
    <2> QED BY <2>2 DEF Escaped, Run
<1>2. ASSUME NEW p \in 1..Len(text)
      PROVE  Escaped(p + 1) <=> text[p] = Backslash /\ ~Escaped(p)
    <2>1. IsFiniteSet(Run(p)) /\ Cardinality(Run(p)) \in Nat
        <3>1. p - 1 \in Int /\ Run(p) \subseteq 1..p - 1
            BY <1>0
        <3> HIDE DEF Run
        <3> QED BY <3>1, PartOfInterval
    <2>3. CASE text[p] = Backslash
        <3>1. Run(p + 1) = Run(p) \union {p}
            <4>1. \A q \in 1..p : q \in Run(p + 1) <=> q = p \/ q \in Run(p)
                BY <1>0, <2>3
            <4>2. Run(p + 1) \subseteq 1..p /\ Run(p) \subseteq 1..p
                BY <1>0
            <4> HIDE DEF Run
            <4> QED BY <4>1, <4>2
        <3>2. p \notin Run(p)
            BY <1>0
        <3> HIDE DEF Run
        <3>3. Cardinality(Run(p + 1)) = Cardinality(Run(p)) + 1
            BY <2>1, <3>1, <3>2, FS_AddElement
        <3>4. Odd(Cardinality(Run(p + 1))) <=> ~Odd(Cardinality(Run(p)))
            BY <2>1, <3>3, OddNext
        <3> QED BY <2>3, <3>4 DEF Escaped, Odd, Run
    <2>4. CASE text[p] # Backslash
        <3>1. Run(p + 1) = {}
            BY <1>0, <2>4
        <3> HIDE DEF Run
        <3>2. Cardinality(Run(p + 1)) = 0
            BY <3>1, FS_EmptySet
        <3> QED BY <2>4, <3>2 DEF Escaped, Run
    <2> QED BY <2>3, <2>4
<1> QED BY <1>1, <1>2

LEMMA InStringNext ==
    /\ ~InString(0)
    /\ \A p \in Nat : InString(p + 1) <=> (InString(p) <=> ~RealQuote(p + 1))
PROOF
<1> DEFINE S == {q \in Nat : RealQuote(q)}
           Count(p) == Cardinality({q \in 1..p : q \in S})
<1>1. ASSUME NEW p \in Nat PROVE InString(p) <=> Odd(Count(p))
    <2>1. {q \in 1..p : RealQuote(q)} = {q \in 1..p : q \in S}
        OBVIOUS
    <2> QED BY <2>1 DEF InString, Odd
<1>2. ~Odd(Count(0))
    <2>1. {q \in 1..0 : q \in S} = {}
        OBVIOUS
    <2>2. Count(0) = 0
        BY <2>1, FS_EmptySet
    <2> QED BY <2>2 DEF Odd
<1>3. ASSUME NEW p \in Nat
      PROVE  InString(p + 1) <=> (InString(p) <=> ~RealQuote(p + 1))
    <2>1. p + 1 \in Nat /\ (p + 1 \in S <=> RealQuote(p + 1))
        OBVIOUS
    <2> HIDE DEF S
    <2>2. Count(p) \in Nat /\ Count(p + 1) = Count(p) + (IF p + 1 \in S THEN 1 ELSE 0)
        BY CountNext
    <2> HIDE DEF Count
    <2>3. Odd(Count(p) + 1) <=> ~Odd(Count(p))
        BY <2>2, OddNext
    <2>4. CASE p + 1 \in S
        BY <1>1, <2>1, <2>2, <2>3, <2>4
    <2>5. CASE p + 1 \notin S
        <3>1. Count(p + 1) = Count(p)
            BY <2>2, <2>5
        <3> QED BY <1>1, <2>1, <2>5, <3>1
    <2> QED BY <2>4, <2>5
<1> HIDE DEF Count
<1> QED BY <1>1, <1>2, <1>3

---------------------------------------------------------------------------
(* One block.                                                              *)

Last(p) == IF p < Len(text) THEN p ELSE Len(text)

\* What the carries say of the bytes before the block.
CarriesRight ==
    /\ prev_iter_ends_odd_backslash <=> Escaped(idx + 1)
    /\ prev_iter_inside_quote <=> InString(idx)
    /\ prev_iter_ends_pseudo_pred <=> idx = 0 \/ Separates(idx)

\* The block at idx, filled up with spaces past the end of the text.
IsBlock(input) ==
    /\ input \in [Bits -> Byte]
    /\ \A k \in Bits : input[k] = IF idx + k < Len(text) THEN text[idx + k + 1] ELSE 32

\* A block scanned with the right carries yields the characters of the reference
\* and the right carries for the next one.
LEMMA BlockBackslashes ==
    ASSUME text \in Seq(Byte), idx \in Nat, idx <= Len(text), CarriesRight,
           NEW input, IsBlock(input)
    PROVE  LET bs == find_odd_backslash_sequences(input) IN
           /\ bs.carry \in BOOLEAN
           /\ idx + Width <= Len(text) => (bs.carry <=> Escaped(idx + Width + 1))
           /\ \A k \in Bits : input[k] = Quote /\ k \notin bs.odd_ends
                                 <=> idx + k < Len(text) /\ RealQuote(idx + k + 1)
PROOF
<1> USE WidthAssumption
<1> DEFINE n == Len(text)
           esc == [k \in 0..Width |-> idx + k <= n /\ Escaped(idx + k + 1)]
<1>0. n \in Nat
    OBVIOUS
<1>1. esc \in [0..Width -> BOOLEAN]
    OBVIOUS
<1>2. \A k \in 0..Width : esc[k] <=> idx + k <= n /\ Escaped(idx + k + 1)
    OBVIOUS
<1>3. esc[0] <=> prev_iter_ends_odd_backslash
    <2>1. 0 \in 0..Width /\ idx + 0 = idx
        OBVIOUS
    <2> HIDE DEF esc
    <2> QED BY <1>2, <2>1 DEF CarriesRight
<1> HIDE DEF esc
<1>4. ASSUME NEW k \in Bits PROVE esc[k + 1] <=> input[k] = Backslash /\ ~esc[k]
    <2>1. /\ k \in 0..Width /\ k + 1 \in 0..Width /\ k \in Nat
          /\ idx + (k + 1) + 1 = (idx + k + 1) + 1
        BY DEF Bits
    <2>2. CASE idx + k < n
        <3>1. idx + k + 1 \in 1..n
            BY <1>0, <2>1, <2>2
        <3>2. Escaped((idx + k + 1) + 1)
                <=> text[idx + k + 1] = Backslash /\ ~Escaped(idx + k + 1)
            BY <3>1, EscapedNext
        <3> QED BY <1>0, <1>2, <2>1, <2>2, <3>2 DEF IsBlock
    <2>3. CASE ~(idx + k < n)
        <3>1. input[k] = 32 /\ ~(idx + (k + 1) <= n)
            BY <1>0, <2>1, <2>3 DEF IsBlock
        <3> QED BY <1>2, <2>1, <3>1 DEF Backslash
    <2> QED BY <2>2, <2>3
<1>5. /\ find_odd_backslash_sequences(input).odd_ends
            = {k \in Bits : esc[k] /\ input[k] # Backslash}
      /\ find_odd_backslash_sequences(input).carry <=> esc[Width]
      /\ find_odd_backslash_sequences(input).carry \in BOOLEAN
    BY <1>1, <1>3, <1>4, Backslashes DEF IsBlock
<1>6. Width \in 0..Width
    OBVIOUS
<1>7. ASSUME NEW k \in Bits
      PROVE  input[k] = Quote /\ k \notin find_odd_backslash_sequences(input).odd_ends
               <=> idx + k < n /\ RealQuote(idx + k + 1)
    <2>1. k \in 0..Width /\ k \in Nat
        BY DEF Bits
    <2>2. CASE idx + k < n
        <3>1. input[k] = text[idx + k + 1] /\ (esc[k] <=> Escaped(idx + k + 1))
            BY <1>0, <1>2, <2>1, <2>2 DEF IsBlock
        <3> QED BY <1>5, <2>2, <3>1 DEF RealQuote, Quote, Backslash
    <2>3. CASE ~(idx + k < n)
        <3>1. input[k] = 32
            BY <2>3 DEF IsBlock
        <3> QED BY <2>3, <3>1 DEF Quote
    <2> QED BY <2>2, <2>3
<1> QED BY <1>2, <1>5, <1>6, <1>7

LEMMA BlockQuotes ==
    ASSUME text \in Seq(Byte), idx \in Nat, idx <= Len(text), CarriesRight,
           NEW input, IsBlock(input), NEW odd_ends,
           \A k \in Bits : input[k] = Quote /\ k \notin odd_ends
                              <=> idx + k < Len(text) /\ RealQuote(idx + k + 1)
    PROVE  LET quotes == find_quote_mask_and_bits(input, odd_ends) IN
           /\ quotes.carry \in BOOLEAN /\ quotes.error \in BOOLEAN
           /\ quotes.carry <=> InString(Last(idx + Width))
           /\ quotes.error <=> \E p \in idx + 1..Last(idx + Width) : InString(p) /\ text[p] <= 31
           /\ quotes.quote_bits \subseteq Bits /\ quotes.quote_mask \subseteq Bits
           /\ \A k \in Bits :
                 /\ k \in quotes.quote_bits <=> idx + k < Len(text) /\ RealQuote(idx + k + 1)
                 /\ k \in quotes.quote_mask <=> InString(Last(idx + k + 1))
PROOF
<1> USE WidthAssumption
<1> DEFINE n == Len(text)
           inside == [k \in 0..Width |-> InString(Last(idx + k))]
           quotes == find_quote_mask_and_bits(input, odd_ends)
<1>0. n \in Nat
    OBVIOUS
<1>1. inside \in [0..Width -> BOOLEAN]
    BY DEF InString
<1>2. \A k \in 0..Width : inside[k] <=> InString(Last(idx + k))
    OBVIOUS
<1>3. inside[0] <=> prev_iter_inside_quote
    <2>1. 0 \in 0..Width /\ Last(idx + 0) = idx
        BY <1>0 DEF Last
    <2> HIDE DEF inside
    <2> QED BY <1>2, <2>1 DEF CarriesRight
<1> HIDE DEF inside
<1>4. ASSUME NEW k \in Bits
      PROVE  inside[k + 1] <=> (inside[k] <=> ~(input[k] = Quote /\ k \notin odd_ends))
    <2>1. k \in 0..Width /\ k + 1 \in 0..Width /\ k \in Nat
        BY DEF Bits
    <2>2. CASE idx + k < n
        <3>1. Last(idx + k) = idx + k /\ Last(idx + (k + 1)) = (idx + k) + 1
            BY <1>0, <2>1, <2>2 DEF Last
        <3>2. InString((idx + k) + 1) <=> (InString(idx + k) <=> ~RealQuote((idx + k) + 1))
            <4>1. idx + k \in Nat
                BY <2>1
            <4> QED BY <4>1, InStringNext
        <3> QED BY <1>2, <2>1, <2>2, <3>1, <3>2
    <2>3. CASE ~(idx + k < n)
        <3>1. Last(idx + k) = n /\ Last(idx + (k + 1)) = n
            BY <1>0, <2>1, <2>3 DEF Last
        <3> QED BY <1>2, <2>1, <2>3, <3>1
    <2> QED BY <2>2, <2>3
<1>5. /\ quotes.quote_bits = {k \in Bits : input[k] = Quote /\ k \notin odd_ends}
      /\ quotes.quote_mask = {k \in Bits : inside[k + 1]}
      /\ quotes.carry <=> inside[Width]
      /\ quotes.carry \in BOOLEAN
      /\ quotes.error \in BOOLEAN
      /\ quotes.error <=> \E k \in Bits : inside[k + 1] /\ input[k] <= 31
    BY <1>1, <1>3, <1>4, Quotes DEF IsBlock
<1> HIDE DEF quotes
<1>6. Width \in 0..Width /\ \A k \in Bits : k + 1 \in 0..Width /\ idx + (k + 1) = idx + k + 1
    BY DEF Bits
<1>7. \A k \in Bits : inside[k + 1] <=> InString(Last(idx + k + 1))
    BY <1>2, <1>6
<1>8. quotes.error <=> \E p \in idx + 1..Last(idx + Width) : InString(p) /\ text[p] <= 31
    <2>1. ASSUME NEW k \in Bits, inside[k + 1], input[k] <= 31
          PROVE  \E p \in idx + 1..Last(idx + Width) : InString(p) /\ text[p] <= 31
        <3>1. k \in Nat /\ k < Width
            BY DEF Bits
        <3>2. idx + k < n /\ input[k] = text[idx + k + 1]
            BY <2>1 DEF IsBlock
        <3>3. Last(idx + k + 1) = idx + k + 1 /\ idx + k + 1 \in idx + 1..Last(idx + Width)
            BY <1>0, <3>1, <3>2 DEF Last
        <3> QED BY <1>7, <2>1, <3>2, <3>3
    <2>2. ASSUME NEW p \in idx + 1..Last(idx + Width), InString(p), text[p] <= 31
          PROVE  \E k \in Bits : inside[k + 1] /\ input[k] <= 31
        <3> DEFINE k == p - idx - 1
        <3>1. k \in Bits /\ idx + k + 1 = p /\ idx + k < n /\ Last(p) = p
            BY <1>0 DEF Bits, Last
        <3> HIDE DEF k
        <3>2. inside[k + 1] /\ input[k] = text[p]
            BY <1>7, <2>2, <3>1 DEF IsBlock
        <3> QED BY <2>2, <3>1, <3>2
    <2> QED BY <1>5, <2>1, <2>2
<1>9. quotes.carry <=> InString(Last(idx + Width))
    BY <1>2, <1>5, <1>6
<1>10. /\ quotes.quote_bits \subseteq Bits /\ quotes.quote_mask \subseteq Bits
       /\ \A k \in Bits :
             /\ k \in quotes.quote_bits <=> idx + k < Len(text) /\ RealQuote(idx + k + 1)
             /\ k \in quotes.quote_mask <=> InString(Last(idx + k + 1))
    BY <1>5, <1>7
<1> QED BY <1>5, <1>8, <1>9, <1>10 DEF quotes

LEMMA BlockFinal ==
    ASSUME text \in Seq(Byte), idx \in Nat, idx <= Len(text), CarriesRight,
           NEW input, IsBlock(input),
           NEW quotes, quotes \subseteq Bits, NEW mask, mask \subseteq Bits,
           \A k \in Bits :
                 /\ k \in quotes <=> idx + k < Len(text) /\ RealQuote(idx + k + 1)
                 /\ k \in mask <=> InString(Last(idx + k + 1))
    PROVE  LET chars == find_whitespace_and_structurals(input)
               final == finalize_structurals(chars.structurals, chars.whitespace, mask, quotes)
           IN  /\ final.carry \in BOOLEAN
               /\ idx + Width <= Len(text) => (final.carry <=> Separates(idx + Width))
               /\ final.structurals = {k \in Bits : idx + k < Len(text) /\ Indexed(idx + k + 1)}
PROOF
<1> USE WidthAssumption
<1> DEFINE n == Len(text)
           chars == find_whitespace_and_structurals(input)
           str == chars.structurals
           ws == chars.whitespace
           final == finalize_structurals(str, ws, mask, quotes)
           sep == (str \ mask) \union quotes \union ws
<1>0. n \in Nat
    OBVIOUS
<1>1. /\ str \subseteq Bits /\ ws \subseteq Bits
      /\ \A k \in Bits : (k \in str <=> input[k] \in Structural)
                            /\ (k \in ws <=> input[k] \in Whitespace)
    <2>1. /\ str = {k \in Bits : Shufti[input[k]] \intersect 0..2 # {}}
          /\ ws = {k \in Bits : Shufti[input[k]] \intersect 3..4 # {}}
        BY DEF find_whitespace_and_structurals
    <2>2. \A k \in Bits : input[k] \in Byte
        BY DEF IsBlock
    <2> HIDE DEF str, ws
    <2> QED BY <2>1, <2>2, Tables
<1> HIDE DEF str, ws
<1>2. /\ final.structurals = {k \in Bits :
            \/ k \in quotes /\ k \in mask
            \/ k \notin quotes /\ k \in str /\ k \notin mask
            \/ k \notin quotes /\ k \notin ws /\ k \notin mask /\ Separated(sep, k)}
      /\ final.carry <=> Width - 1 \in sep
      /\ final.carry \in BOOLEAN
    BY <1>1, Finalized
<1> HIDE DEF final
<1>3. ASSUME NEW k \in Bits, idx + k < n
      PROVE  /\ k \in Nat /\ k < Width
             /\ k \in quotes <=> RealQuote(idx + k + 1)
             /\ k \in mask <=> InString(idx + k + 1)
             /\ k \in str <=> text[idx + k + 1] \in Structural
             /\ k \in ws <=> text[idx + k + 1] \in Whitespace
             /\ k \in sep <=> Separates(idx + k + 1)
    <2>1. k \in Nat /\ k < Width /\ Last(idx + k + 1) = idx + k + 1
        BY <1>0, <1>3 DEF Bits, Last
    <2>2. input[k] = text[idx + k + 1]
        BY <1>3 DEF IsBlock
    <2> QED BY <1>1, <1>3, <2>1, <2>2 DEF Separates
<1>4. ASSUME NEW k \in Bits, ~(idx + k < n) PROVE k \in ws /\ k \notin quotes /\ k \notin str
    <2>1. input[k] = 32
        BY <1>4 DEF IsBlock
    <2> QED BY <1>1, <1>4, <2>1 DEF Whitespace, Structural
<1>5. ASSUME NEW k \in Bits, idx + k < n
      PROVE  Separated(sep, k) <=> idx + k + 1 = 1 \/ Separates((idx + k + 1) - 1)
    <2>1. k \in Nat /\ k < Width
        BY <1>3, <1>5
    <2> HIDE DEF sep
    <2>2. CASE k = 0
        <3>1. (idx + k + 1) - 1 = idx /\ (idx + k + 1 = 1 <=> idx = 0)
            BY <2>2
        <3> QED BY <2>2, <3>1 DEF Separated, CarriesRight
    <2>3. CASE k # 0
        <3>1. k - 1 \in Bits /\ idx + (k - 1) < n /\ idx + (k - 1) + 1 = (idx + k + 1) - 1
              /\ idx + k + 1 # 1
            BY <1>0, <1>5, <2>1, <2>3 DEF Bits
        <3>2. k - 1 \in sep <=> Separates(idx + (k - 1) + 1)
            BY <1>3, <3>1 DEF sep
        <3> QED BY <2>3, <3>1, <3>2 DEF Separated
    <2> QED BY <2>2, <2>3
<1>6. ASSUME NEW k \in Bits
      PROVE  k \in final.structurals <=> idx + k < n /\ Indexed(idx + k + 1)
    <2>1. CASE idx + k < n
        <3> DEFINE p == idx + k + 1
        <3>1. RealQuote(p) => text[p] \notin Structural
            BY DEF RealQuote, Quote, Structural
        <3>2. Separated(sep, k) <=> p = 1 \/ Separates(p - 1)
            BY <1>5, <2>1
        <3>3. /\ k \in quotes <=> RealQuote(p)
              /\ k \in mask <=> InString(p)
              /\ k \in str <=> text[p] \in Structural
              /\ k \in ws <=> text[p] \in Whitespace
            BY <1>3, <2>1
        <3> HIDE DEF p, sep
        <3>4. k \in final.structurals <=> Indexed(p)
            BY <1>2, <3>1, <3>2, <3>3 DEF Indexed
        <3> QED BY <2>1, <3>4 DEF p
    <2>2. CASE ~(idx + k < n)
        BY <1>2, <1>4, <2>2
    <2> QED BY <2>1, <2>2
<1>7. final.structurals = {k \in Bits : idx + k < n /\ Indexed(idx + k + 1)}
    BY <1>2, <1>6
<1>8. ASSUME idx + Width <= n PROVE final.carry <=> Separates(idx + Width)
    <2>1. Width - 1 \in Bits /\ idx + (Width - 1) < n /\ idx + (Width - 1) + 1 = idx + Width
        BY <1>0, <1>8 DEF Bits
    <2>2. Width - 1 \in sep <=> Separates(idx + (Width - 1) + 1)
        BY <1>3, <2>1
    <2> QED BY <1>2, <2>1, <2>2
<1> QED BY <1>2, <1>7, <1>8 DEF final, str, ws

---------------------------------------------------------------------------
(* The invariant.                                                          *)

\* The characters of the reference up to position p.
Seen(p) == {q \in 1..Len(text) : q <= p /\ Indexed(q)}

Shape ==
    /\ text \in Seq(Byte)
    /\ idx \in Nat
    /\ idx = 0 \/ idx >= Width
    /\ pc \in {"Scan", "Finish", "Done"}
    /\ pc = "Scan" => idx <= Len(text)
    /\ pc = "Finish" => idx >= Len(text)
    /\ pc # "Done" <=> result = "none"
    /\ prev_iter_ends_odd_backslash \in BOOLEAN
    /\ prev_iter_inside_quote \in BOOLEAN
    /\ prev_iter_ends_pseudo_pred \in BOOLEAN
    /\ error_mask \in BOOLEAN
    /\ structurals \subseteq Bits

CarriesInv ==
    /\ pc = "Scan" => CarriesRight
    /\ pc = "Finish" => (prev_iter_inside_quote <=> InString(Len(text)))
    /\ pc # "Done" => (error_mask <=> \E p \in 1..Last(idx) : InString(p) /\ text[p] <= 31)

\* The last block's characters wait as bits, those before it are flattened.
FlatteningInv ==
    pc # "Done" =>
        /\ structurals = {k \in Bits : idx >= Width /\ idx - Width + k < Len(text)
                                          /\ Indexed(idx - Width + k + 1)}
        /\ structural_indexes = << 0 >> \o Indexes(Seen(idx - Width))

DoneInv == pc = "Done" => TypeOK /\ ScanCorrect

IInv == Shape /\ CarriesInv /\ FlatteningInv /\ DoneInv

LEMMA SeenType ==
    ASSUME text \in Seq(Byte), NEW p
    PROVE  Seen(p) \subseteq Nat \ {0} /\ IsFiniteSet(Seen(p)) /\ Cardinality(Seen(p)) \in Nat
PROOF
<1>1. Seen(p) \subseteq 1..Len(text) /\ 1 \in Int /\ Len(text) \in Int
    BY DEF Seen
<1>2. IsFiniteSet(Seen(p)) /\ Cardinality(Seen(p)) \in Nat
    BY <1>1, PartOfInterval
<1> QED BY <1>1, <1>2

\* Flattening the bits that wait completes the indexes up to idx.
LEMMA FlattenRight ==
    ASSUME Shape, FlatteningInv, pc # "Done"
    PROVE  flatten_bits(structural_indexes, idx, structurals) = << 0 >> \o Indexes(Seen(idx))
PROOF
<1> USE WidthAssumption
<1> DEFINE n == Len(text)
           c == idx - Width + 1
           T == {q \in 1..n : idx - Width < q /\ q <= idx /\ Indexed(q)}
           new == [m \in 1..Cardinality(structurals) |-> Wrapped(idx - Width + Nth(structurals, m))]
<1>0. n \in Nat /\ text \in Seq(Byte) /\ idx \in Nat
    BY DEF Shape
<1>1. flatten_bits(structural_indexes, idx, structurals) = structural_indexes \o new
    BY DEF flatten_bits
<1>2. structural_indexes = << 0 >> \o Indexes(Seen(idx - Width))
    BY DEF FlatteningInv
<1>3. /\ structurals \subseteq Nat /\ IsFiniteSet(structurals) /\ Cardinality(structurals) \in Nat
      /\ T \subseteq Nat \ {0} /\ IsFiniteSet(T)
    <2>1. structurals \subseteq 0..Width - 1 /\ 0 \in Int /\ Width - 1 \in Int
        BY DEF Shape, Bits
    <2>2. T \subseteq 1..n /\ 1 \in Int /\ n \in Int
        BY <1>0
    <2> HIDE DEF T, n
    <2>3. IsFiniteSet(structurals) /\ Cardinality(structurals) \in Nat
        BY <2>1, PartOfInterval
    <2>4. IsFiniteSet(T)
        BY <2>2, PartOfInterval
    <2> QED BY <2>1, <2>2, <2>3, <2>4
<1>4. /\ Seen(idx) = Seen(idx - Width) \union T
      /\ \A a \in Seen(idx - Width), b \in T : a < b
    BY <1>0 DEF Seen
<1>5. new = Indexes(T)
    <2>1. CASE idx = 0
        <3>1. structurals = {} /\ T = {}
            BY <1>0, <2>1 DEF FlatteningInv
        <3> HIDE DEF T
        <3> QED BY <3>1, FS_EmptySet DEF Indexes
    <2>2. CASE idx >= Width
        <3>1. c \in Nat
            BY <1>0, <2>2
        <3>2. \A k \in structurals : k + c \in T
            <4>1. ASSUME NEW k \in structurals PROVE k + c \in T
                <5>1. k \in Bits /\ idx - Width + k < n /\ Indexed(idx - Width + k + 1)
                    BY DEF FlatteningInv
                <5>2. k + c = idx - Width + k + 1 /\ k \in Nat /\ k < Width
                    BY <1>0, <5>1 DEF Bits
                <5> HIDE DEF c
                <5> QED BY <1>0, <2>2, <5>1, <5>2
            <4> QED BY <4>1
        <3>3. \A t \in T : \E k \in structurals : t = k + c
            <4>1. ASSUME NEW t \in T PROVE t - c \in structurals /\ t = (t - c) + c
                <5>1. t \in 1..n /\ idx - Width < t /\ t <= idx /\ Indexed(t)
                    OBVIOUS
                <5>2. t - c \in Bits /\ idx - Width + (t - c) < n /\ idx - Width + (t - c) + 1 = t
                          /\ t = (t - c) + c
                    BY <1>0, <2>2, <5>1 DEF Bits
                <5> QED BY <2>2, <5>1, <5>2 DEF FlatteningInv
            <4> QED BY <4>1
        <3> HIDE DEF T, c
        <3>4. /\ Cardinality(T) = Cardinality(structurals)
              /\ \A m \in 1..Cardinality(structurals) : Nth(T, m) = Nth(structurals, m) + c
            <4>1. T \subseteq Nat
                BY <1>3
            <4> QED BY <1>3, <3>1, <3>2, <3>3, <4>1, NthShifted
        <3>5. ASSUME NEW m \in 1..Cardinality(structurals)
              PROVE  Wrapped(idx - Width + Nth(structurals, m)) = Wrapped(Nth(T, m) - 1)
            <4>1. Nth(structurals, m) \in structurals
                BY <1>3, NthMember
            <4> DEFINE k == Nth(structurals, m)
            <4>2. k \in Nat /\ Nth(T, m) = k + c
                BY <1>3, <3>4, <4>1
            <4> HIDE DEF k
            <4>3. (k + c) - 1 = idx - Width + k
                BY <1>0, <4>2 DEF c
            <4>4. Wrapped(idx - Width + k) = Wrapped(Nth(T, m) - 1)
                BY <4>2, <4>3
            <4> QED BY <4>4 DEF k
        <3> QED BY <3>4, <3>5 DEF Indexes
    <2> QED BY <2>1, <2>2 DEF Shape
<1>6. /\ Indexes(Seen(idx - Width)) \in Seq(Nat)
      /\ Indexes(T) \in Seq(Nat)
    BY <1>0, <1>3, SeenType, IndexesType
<1>7. Indexes(Seen(idx)) = Indexes(Seen(idx - Width)) \o Indexes(T)
    BY <1>0, <1>3, <1>4, SeenType, IndexesUnion
<1> HIDE DEF T, new
<1>8. (<< 0 >> \o Indexes(Seen(idx - Width))) \o Indexes(T)
        = << 0 >> \o (Indexes(Seen(idx - Width)) \o Indexes(T))
    <2>1. << 0 >> \in Seq(Nat)
        OBVIOUS
    <2> QED BY <1>6, <2>1, ConcatAssociative
<1> QED BY <1>1, <1>2, <1>5, <1>7, <1>8

\* The reference depends on the text alone, which no step changes.
LEMMA TextOnly ==
    ASSUME text' = text, NEW p
    PROVE  /\ Escaped(p)' = Escaped(p)
           /\ RealQuote(p)' = RealQuote(p)
           /\ InString(p)' = InString(p)
           /\ Separates(p)' = Separates(p)
           /\ Indexed(p)' = Indexed(p)
           /\ Seen(p)' = Seen(p)
           /\ Last(p)' = Last(p)
PROOF BY DEF Escaped, RealQuote, InString, Separates, Indexed, Seen, Last

LEMMA InitInv == Init => IInv
PROOF
<1> SUFFICES ASSUME Init PROVE IInv
    OBVIOUS
<1> USE WidthAssumption, TextsAssumption DEF Init
<1>0. text \in Seq(Byte) /\ Len(text) \in Nat
    OBVIOUS
<1>1. Shape
    <2>1. /\ prev_iter_ends_odd_backslash \in BOOLEAN
          /\ prev_iter_inside_quote \in BOOLEAN
          /\ prev_iter_ends_pseudo_pred \in BOOLEAN
          /\ error_mask \in BOOLEAN
        BY Zenon
    <2> QED BY <1>0, <2>1 DEF Shape
<1>2. CarriesInv
    <2>1. ~Escaped(1) /\ ~InString(0)
        BY <1>0, EscapedNext, InStringNext
    <2>2. CarriesRight
        BY <2>1 DEF CarriesRight
    <2>3. 1..Last(idx) = {}
        BY <1>0 DEF Last
    <2> QED BY <2>2, <2>3 DEF CarriesInv
<1>3. FlatteningInv
    <2>1. Seen(idx - Width) = {}
        BY <1>0 DEF Seen
    <2>2. Indexes({}) = << >>
        <3>1. Cardinality({}) = 0
            BY FS_EmptySet
        <3> QED BY <3>1 DEF Indexes
    <2>3. structural_indexes = << 0 >> \o Indexes(Seen(idx - Width))
        <3>1. << 0 >> \o << >> = <<0>>
            OBVIOUS
        <3> QED BY <2>1, <2>2, <3>1
    <2>4. structurals = {k \in Bits : idx >= Width /\ idx - Width + k < Len(text)
                                          /\ Indexed(idx - Width + k + 1)}
        BY <1>0
    <2> QED BY <2>3, <2>4 DEF FlatteningInv
<1> QED BY <1>1, <1>2, <1>3 DEF IInv, DoneInv

\* Scanning a block takes all that the invariant says of idx a block further.
LEMMA ScanStep ==
    ASSUME IInv, pc = "Scan", text' = text, result' = result, pc' \in {"Scan", "Finish"},
           pc' = "Scan" => idx + Width <= Len(text),
           pc' = "Finish" => idx + Width >= Len(text),
           NEW input, IsBlock(input), Scan(input)
    PROVE  IInv'
PROOF
<1> USE WidthAssumption
<1> DEFINE n == Len(text)
           bs == find_odd_backslash_sequences(input)
           quotes == find_quote_mask_and_bits(input, bs.odd_ends)
           chars == find_whitespace_and_structurals(input)
           final == finalize_structurals(chars.structurals, chars.whitespace,
                                         quotes.quote_mask, quotes.quote_bits)
<1>0. /\ text \in Seq(Byte) /\ n \in Nat /\ idx \in Nat /\ idx <= n /\ CarriesRight
      /\ result = "none"
    BY DEF IInv, Shape, CarriesInv
<1>1. /\ prev_iter_ends_odd_backslash' = bs.carry
      /\ prev_iter_inside_quote' = quotes.carry
      /\ prev_iter_ends_pseudo_pred' = final.carry
      /\ error_mask' = (error_mask \/ quotes.error)
      /\ structural_indexes' = flatten_bits(structural_indexes, idx, structurals)
      /\ structurals' = final.structurals
      /\ idx' = idx + Width
    BY DEF Scan
<1>2. /\ bs.carry \in BOOLEAN
      /\ idx + Width <= n => (bs.carry <=> Escaped(idx + Width + 1))
      /\ \A k \in Bits : input[k] = Quote /\ k \notin bs.odd_ends
                            <=> idx + k < n /\ RealQuote(idx + k + 1)
    BY <1>0, BlockBackslashes
<1> HIDE DEF bs
<1>3. /\ quotes.carry \in BOOLEAN /\ quotes.error \in BOOLEAN
      /\ quotes.carry <=> InString(Last(idx + Width))
      /\ quotes.error <=> \E p \in idx + 1..Last(idx + Width) : InString(p) /\ text[p] <= 31
      /\ quotes.quote_bits \subseteq Bits /\ quotes.quote_mask \subseteq Bits
      /\ \A k \in Bits :
            /\ k \in quotes.quote_bits <=> idx + k < n /\ RealQuote(idx + k + 1)
            /\ k \in quotes.quote_mask <=> InString(Last(idx + k + 1))
    BY <1>0, <1>2, BlockQuotes
<1> HIDE DEF quotes
<1>4. /\ final.carry \in BOOLEAN
      /\ idx + Width <= n => (final.carry <=> Separates(idx + Width))
      /\ final.structurals = {k \in Bits : idx + k < n /\ Indexed(idx + k + 1)}
    BY <1>0, <1>3, BlockFinal
<1> HIDE DEF final
<1>5. Shape'
    <2>1. structurals' \subseteq Bits /\ idx' >= Width /\ idx' \in Nat
        BY <1>0, <1>1, <1>4
    <2> QED BY <1>0, <1>1, <1>2, <1>3, <1>4, <2>1 DEF IInv, Shape, Bits
<1>6. CarriesInv'
    <2>1. ASSUME pc' = "Scan" PROVE CarriesRight'
        <3>1. /\ idx + Width <= n /\ Last(idx + Width) = idx + Width /\ idx' # 0
              /\ idx' = idx + Width
            BY <1>0, <1>1, <2>1 DEF Last
        <3>2. /\ prev_iter_ends_odd_backslash' <=> Escaped(idx' + 1)
              /\ prev_iter_inside_quote' <=> InString(idx')
              /\ prev_iter_ends_pseudo_pred' <=> Separates(idx')
            BY <1>1, <1>2, <1>3, <1>4, <3>1
        <3>3. /\ Escaped(idx + 1)' = Escaped(idx' + 1)
              /\ InString(idx)' = InString(idx')
              /\ Separates(idx)' = Separates(idx')
            BY DEF Escaped, RealQuote, InString, Separates
        <3> QED BY <3>1, <3>2, <3>3 DEF CarriesRight
    <2>2. ASSUME pc' = "Finish" PROVE prev_iter_inside_quote' <=> InString(Len(text))'
        <3>1. Last(idx + Width) = n
            BY <1>0, <2>2 DEF Last
        <3>2. InString(Len(text))' = InString(Len(text))
            BY DEF RealQuote, InString, Escaped
        <3> QED BY <1>1, <1>3, <3>1, <3>2
    <2>3. error_mask' <=> \E p \in 1..Last(idx)' : InString(p)' /\ text'[p] <= 31
        <3>1. Last(idx)' = Last(idx + Width) /\ Last(idx) = idx
            BY <1>0, <1>1 DEF Last
        <3>2. error_mask <=> \E p \in 1..idx : InString(p) /\ text[p] <= 31
            BY <1>0, <3>1 DEF IInv, CarriesInv
        <3>3. \A p : p \in 1..Last(idx + Width) <=> p \in 1..idx \/ p \in idx + 1..Last(idx + Width)
            BY <1>0 DEF Last
        <3>4. \A p : InString(p)' = InString(p)
            BY TextOnly
        <3>5. error_mask' <=> \E p \in 1..Last(idx + Width) : InString(p) /\ text[p] <= 31
            BY <1>1, <1>3, <3>2, <3>3
        <3> QED BY <3>1, <3>4, <3>5
    <2> QED BY <2>1, <2>2, <2>3 DEF CarriesInv
<1>7. FlatteningInv'
    <2>1. idx' - Width = idx /\ idx' >= Width
        BY <1>0, <1>1
    <2>2. structurals' = {k \in Bits : idx' >= Width /\ idx' - Width + k < Len(text')
                                          /\ Indexed(idx - Width + k + 1)'}
        <3>1. ASSUME NEW k \in Bits PROVE Indexed(idx - Width + k + 1)' = Indexed(idx + k + 1)
            <4>1. Indexed(idx - Width + k + 1)' = Indexed(idx' - Width + k + 1)
                BY DEF Indexed, Escaped, RealQuote, InString, Separates
            <4> QED BY <2>1, <4>1
        <3> QED BY <1>1, <1>4, <2>1, <3>1
    <2>3. structural_indexes' = << 0 >> \o Indexes(Seen(idx))
        BY <1>0, <1>1, FlattenRight DEF IInv
    <2>4. Indexes(Seen(idx - Width))' = Indexes(Seen(idx))
        <3>1. Seen(idx - Width)' = Seen(idx)
            <4>1. Seen(idx - Width)' = Seen(idx' - Width)
                BY DEF Seen, Indexed, Escaped, RealQuote, InString, Separates
            <4> QED BY <2>1, <4>1
        <3> QED BY <3>1 DEF Indexes
    <2> QED BY <2>2, <2>3, <2>4 DEF FlatteningInv, Bits
<1>8. DoneInv'
    BY DEF DoneInv
<1> QED BY <1>5, <1>6, <1>7, <1>8 DEF IInv

LEMMA SkipTailStep ==
    ASSUME IInv, SkipTail
    PROVE IInv'
PROOF
<1> USE WidthAssumption DEF SkipTail
<1>0. /\ text \in Seq(Byte) /\ Len(text) \in Nat /\ idx \in Nat /\ idx = Len(text) /\ CarriesRight
      /\ text' = text /\ idx' = idx /\ prev_iter_inside_quote' = prev_iter_inside_quote
      /\ structurals' = structurals /\ structural_indexes' = structural_indexes
      /\ error_mask' = error_mask /\ pc' = "Finish" /\ result' = result
    BY DEF IInv, Shape, CarriesInv, carries
<1>1. Shape'
    BY <1>0 DEF IInv, Shape, Bits, carries
<1>2. CarriesInv'
    <2>1. prev_iter_inside_quote <=> InString(Len(text))
        BY <1>0 DEF CarriesRight
    <2>2. InString(Len(text))' = InString(Len(text))
        BY <1>0 DEF RealQuote, InString, Escaped
    <2>3. Last(idx)' = Last(idx)
        BY <1>0 DEF Last
    <2>4. \A p : InString(p)' = InString(p)
        BY <1>0, TextOnly
    <2> QED BY <1>0, <2>1, <2>2, <2>3, <2>4 DEF IInv, CarriesInv
<1>3. FlatteningInv'
    <2>1. Seen(idx - Width)' = Seen(idx - Width)
        BY <1>0 DEF Seen, Indexed, Escaped, RealQuote, InString, Separates
    <2>2. Indexes(Seen(idx - Width))' = Indexes(Seen(idx - Width))
        BY <2>1 DEF Indexes
    <2>3. \A p : Indexed(p)' = Indexed(p)
        BY <1>0, TextOnly
    <2>4. FlatteningInv /\ pc # "Done"
        BY DEF IInv
    <2>5. structurals' = {k \in Bits : idx' >= Width /\ idx' - Width + k < Len(text')
                                          /\ Indexed(idx - Width + k + 1)'}
        <3>1. \A k : Indexed(idx - Width + k + 1)' = Indexed(idx - Width + k + 1)
            BY <1>0 DEF Indexed, Escaped, RealQuote, InString, Separates
        <3> QED BY <1>0, <2>4, <3>1 DEF FlatteningInv
    <2> QED BY <1>0, <2>2, <2>4, <2>5 DEF FlatteningInv, Bits
<1>4. DoneInv'
    BY DEF DoneInv
<1> QED BY <1>1, <1>2, <1>3, <1>4 DEF IInv

LEMMA WrappedBelow ==
    ASSUME NEW p \in Nat, p < IndexLimit
    PROVE  Wrapped(p) = p
PROOF BY IndexLimitAssumption DEF Wrapped

\* No index leaves the text.
LEMMA IndexesInText ==
    ASSUME text \in Seq(Byte), NEW p, NEW indexes, indexes = << 0 >> \o Indexes(Seen(p))
    PROVE  \A m \in DOMAIN indexes : indexes[m] \in 0..Len(text)
PROOF
<1> DEFINE seen == Seen(p)
<1>1. seen \subseteq 1..Len(text) /\ seen \subseteq Nat \ {0} /\ IsFiniteSet(seen)
      /\ Cardinality(seen) \in Nat /\ Len(text) \in Nat
    BY SeenType DEF Seen
<1> HIDE DEF seen
<1>2. /\ Indexes(seen) \in Seq(Nat) /\ Len(Indexes(seen)) = Cardinality(seen)
      /\ \A m \in 1..Cardinality(seen) :
            Nth(seen, m) \in seen /\ Indexes(seen)[m] \in 0..Nth(seen, m) - 1
    BY <1>1, IndexesType
<1>3. ASSUME NEW m \in 1..Len(Indexes(seen)) PROVE Indexes(seen)[m] \in 0..Len(text)
    <2>1. PICK q \in seen : Indexes(seen)[m] \in 0..q - 1
        BY <1>2
    <2> QED BY <1>1, <2>1
<1>4. indexes = << 0 >> \o Indexes(seen)
    BY DEF seen
<1> QED BY <1>1, <1>2, <1>3, <1>4

LEMMA FinishStep ==
    ASSUME IInv, Finish
    PROVE IInv'
PROOF
<1> DEFINE n == Len(text)
           indexes == flatten_bits(structural_indexes, idx, structurals)
           seen == {p \in DOMAIN text : Indexed(p)}
<1>0. /\ text \in Seq(Byte) /\ n \in Nat /\ idx \in Nat /\ idx >= n /\ pc = "Finish"
      /\ DOMAIN text = 1..n
      /\ text' = text /\ idx' = idx /\ error_mask' = error_mask /\ pc' = "Done"
      /\ structurals' = structurals /\ structurals \subseteq Bits
      /\ prev_iter_inside_quote <=> InString(n)
      /\ error_mask <=> \E p \in 1..n : InString(p) /\ text[p] <= 31
    BY DEF Finish, IInv, Shape, CarriesInv, Last
<1>1. Seen(idx) = seen
    BY <1>0 DEF Seen
<1>2. indexes = << 0 >> \o Indexes(seen)
    BY <1>0, <1>1, FlattenRight DEF IInv
<1>3. /\ seen \subseteq Nat \ {0} /\ seen \subseteq 1..n /\ IsFiniteSet(seen)
      /\ Cardinality(seen) \in Nat
    BY <1>0, <1>1, SeenType
<1> HIDE DEF seen
<1>4. /\ Indexes(seen) \in Seq(Nat)
      /\ Len(Indexes(seen)) = Cardinality(seen)
      /\ \A m \in 1..Cardinality(seen) :
            Nth(seen, m) \in seen /\ Indexes(seen)[m] = Wrapped(Nth(seen, m) - 1)
               /\ Indexes(seen)[m] \in 0..Nth(seen, m) - 1
    BY <1>3, IndexesType
<1>5. /\ indexes \in Seq(Nat)
      /\ Len(indexes) = 1 + Cardinality(seen)
      /\ indexes[1] = 0
      /\ \A m \in 2..Len(indexes) : \E p \in seen : indexes[m] = Wrapped(p - 1) /\ indexes[m] \in 0..p - 1
    <2>1. << 0 >> \in Seq(Nat) /\ Len(<<0>>) = 1 /\ <<0>>[1] = 0
        OBVIOUS
    <2> DEFINE ind == Indexes(seen)
               zero == << 0 >>
    <2> HIDE DEF ind, zero
    <2>2. /\ zero \o ind \in Seq(Nat)
          /\ Len(zero \o ind) = Len(zero) + Len(ind)
          /\ \A m \in 1..Len(zero) + Len(ind) :
                (zero \o ind)[m] = IF m <= Len(zero) THEN zero[m] ELSE ind[m - Len(zero)]
        BY <1>4, <2>1, ConcatProperties DEF ind, zero
    <2>3. Len(zero) = 1 /\ zero[1] = 0 /\ indexes = zero \o ind /\ Len(ind) = Cardinality(seen)
        BY <1>2, <1>4, <2>1 DEF ind, zero
    <2> HIDE DEF indexes
    <2>4. ASSUME NEW m \in 2..Len(indexes)
          PROVE  \E p \in seen : indexes[m] = Wrapped(p - 1) /\ indexes[m] \in 0..p - 1
        <3>1. indexes[m] = ind[m - 1] /\ m - 1 \in 1..Cardinality(seen)
            BY <1>3, <2>2, <2>3
        <3>2. Nth(seen, m - 1) \in seen /\ ind[m - 1] = Wrapped(Nth(seen, m - 1) - 1)
               /\ ind[m - 1] \in 0..Nth(seen, m - 1) - 1
            BY <1>4, <3>1 DEF ind
        <3> QED BY <3>1, <3>2
    <2>5. indexes \in Seq(Nat) /\ Len(indexes) = 1 + Cardinality(seen)
        BY <2>2, <2>3
    <2>6. indexes[1] = 0
        BY <1>3, <2>2, <2>3
    <2> QED BY <2>4, <2>5, <2>6
<1>6. /\ prev_iter_inside_quote => result' = "Syntax" /\ structural_indexes' = structural_indexes
      /\ ~prev_iter_inside_quote =>
            /\ structural_indexes' = indexes
            /\ result' = IF Len(indexes) = 1 THEN "EOF"
                         ELSE IF indexes[Len(indexes)] > Wrapped(n) THEN "InternalError"
                         ELSE IF error_mask THEN "Syntax" ELSE "Ok"
    BY DEF Finish
<1> HIDE DEF indexes
<1>7. \A m \in DOMAIN indexes : indexes[m] \in 0..n /\ (Len(indexes) # 1 => indexes[m] < n)
    <2>1. ASSUME NEW m \in 1..Len(indexes)
          PROVE  indexes[m] \in 0..n /\ (Len(indexes) # 1 => indexes[m] < n)
        <3>1. CASE m = 1
            <4>1. Len(indexes) # 1 => seen # {}
                BY <1>3, <1>5, FS_EmptySet
            <4> QED BY <1>0, <1>3, <1>5, <3>1, <4>1
        <3>2. CASE m # 1
            <4>1. m \in 2..Len(indexes)
                BY <1>5, <3>2
            <4>2. PICK p \in seen : indexes[m] \in 0..p - 1
                BY <1>5, <4>1
            <4> QED BY <1>0, <1>3, <4>2
        <3> QED BY <3>1, <3>2
    <2> QED BY <1>5, <2>1
<1>8. Len(indexes) = 1 <=> \A p \in DOMAIN text : ~Indexed(p)
    <2>1. Len(indexes) = 1 <=> seen = {}
        BY <1>3, <1>5, FS_EmptySet
    <2> QED BY <2>1 DEF seen
<1>9. n < IndexLimit /\ Len(indexes) # 1 => ~(indexes[Len(indexes)] > Wrapped(n))
    <2> SUFFICES ASSUME n < IndexLimit, Len(indexes) # 1
                 PROVE  ~(indexes[Len(indexes)] > Wrapped(n))
        OBVIOUS
    <2>1. Wrapped(n) = n
        BY <1>0, WrappedBelow
    <2>2. Len(indexes) \in DOMAIN indexes
        BY <1>3, <1>5
    <2> QED BY <1>0, <1>7, <2>1, <2>2
<1>10. ReferenceResult' = ReferenceResult
    <2>1. \A p : InString(p)' = InString(p) /\ Indexed(p)' = Indexed(p)
        BY <1>0, TextOnly
    <2>2. InString(Len(text))' = InString(Len(text))
        BY <1>0 DEF RealQuote, InString, Escaped
    <2> QED BY <1>0, <2>1, <2>2 DEF ReferenceResult
<1>11. \/ result' = ReferenceResult
       \/ result' = "InternalError" /\ n >= IndexLimit
    <2>1. CASE prev_iter_inside_quote
        BY <1>0, <1>6, <2>1 DEF ReferenceResult
    <2>2. CASE ~prev_iter_inside_quote
        BY <1>0, <1>6, <1>8, <1>9, <2>2, IndexLimitAssumption DEF ReferenceResult
    <2> QED BY <2>1, <2>2
<1>12. \A m \in DOMAIN structural_indexes : structural_indexes[m] \in 0..n
    BY <1>0, IndexesInText DEF IInv, FlatteningInv
<1>13. Shape'
    BY <1>0, <1>6 DEF IInv, Shape, Finish, carries, Bits
<1>14. TypeOK'
    <2>1. \A m \in DOMAIN structural_indexes' : structural_indexes'[m] \in 0..n
        BY <1>6, <1>7, <1>12
    <2>2. result' = "Ok" => \A m \in DOMAIN structural_indexes' : structural_indexes'[m] < n
        BY <1>6, <1>7
    <2>3. result' \in {"none", "Ok", "Syntax", "EOF", "InternalError"}
        BY <1>6
    <2> QED BY <1>0, <1>13, <2>1, <2>2, <2>3 DEF TypeOK, Shape, carries
<1>15. ScanCorrect'
    <2>1. result' = "Ok" =>
              /\ Len(structural_indexes') = 1 + Cardinality(seen)
              /\ \A m \in 2..Len(structural_indexes') :
                    \E p \in seen : Wrapped(p - 1) = structural_indexes'[m]
        BY <1>5, <1>6
    <2>2. {p \in DOMAIN text : Indexed(p)}' = seen
        <3>1. \A p : Indexed(p)' = Indexed(p)
            BY <1>0, TextOnly
        <3> QED BY <1>0, <3>1 DEF seen
    <2>3. \A m : (\E p \in seen : Wrapped(p - 1) = m) =>
                    \E p \in DOMAIN text' : Indexed(p)' /\ Wrapped(p - 1) = m
        <3>1. \A p : Indexed(p)' = Indexed(p)
            BY <1>0, TextOnly
        <3> QED BY <1>0, <3>1 DEF seen
    <2> QED BY <1>0, <1>10, <1>11, <2>1, <2>2, <2>3 DEF ScanCorrect, Wrapped
<1>16. CarriesInv' /\ FlatteningInv'
    BY <1>0 DEF CarriesInv, FlatteningInv
<1> QED BY <1>13, <1>14, <1>15, <1>16 DEF IInv, DoneInv

LEMMA Stutter ==
    ASSUME IInv, UNCHANGED vars
    PROVE IInv'
PROOF
<1>0. /\ text' = text /\ pc' = pc /\ idx' = idx
      /\ prev_iter_ends_odd_backslash' = prev_iter_ends_odd_backslash
      /\ prev_iter_inside_quote' = prev_iter_inside_quote
      /\ prev_iter_ends_pseudo_pred' = prev_iter_ends_pseudo_pred
      /\ structurals' = structurals /\ error_mask' = error_mask
      /\ structural_indexes' = structural_indexes /\ result' = result
    BY DEF vars, carries
<1>1. Shape'
    BY <1>0 DEF IInv, Shape, Bits
<1>2. CarriesInv'
    <2>1. CarriesRight' <=> CarriesRight
        BY <1>0 DEF CarriesRight, Escaped, RealQuote, InString, Separates
    <2>2. InString(Len(text))' = InString(Len(text)) /\ Last(idx)' = Last(idx)
        BY <1>0 DEF RealQuote, InString, Escaped, Last
    <2>3. \A p : InString(p)' = InString(p)
        BY <1>0, TextOnly
    <2> QED BY <1>0, <2>1, <2>2, <2>3 DEF IInv, CarriesInv
<1>3. FlatteningInv'
    <2>1. Indexes(Seen(idx - Width))' = Indexes(Seen(idx - Width))
        BY <1>0 DEF Indexes, Seen, Indexed, Escaped, RealQuote, InString, Separates
    <2>2. \A k : Indexed(idx - Width + k + 1)' = Indexed(idx - Width + k + 1)
        BY <1>0 DEF Indexed, Escaped, RealQuote, InString, Separates
    <2> QED BY <1>0, <2>1, <2>2 DEF IInv, FlatteningInv, Bits
<1>4. DoneInv'
    <2>1. TypeOK => TypeOK'
        BY <1>0 DEF TypeOK, carries, Bits
    <2>2. ScanCorrect => ScanCorrect'
        <3>1. \A p : InString(p)' = InString(p) /\ Indexed(p)' = Indexed(p)
            BY <1>0, TextOnly
        <3>2. InString(Len(text))' = InString(Len(text))
            BY <1>0 DEF RealQuote, InString, Escaped
        <3>3. ReferenceResult' = ReferenceResult
            BY <1>0, <3>1, <3>2 DEF ReferenceResult
        <3> QED BY <1>0, <3>1, <3>3 DEF ScanCorrect, Wrapped
    <2> QED BY <1>0, <2>1, <2>2 DEF IInv, DoneInv
<1> QED BY <1>1, <1>2, <1>3, <1>4 DEF IInv

LEMMA NextInv == IInv /\ [Next]_vars => IInv'
PROOF
<1> SUFFICES ASSUME IInv, [Next]_vars PROVE IInv'
    OBVIOUS
<1> USE WidthAssumption
<1>0. text \in Seq(Byte) /\ Len(text) \in Nat /\ idx \in Nat /\ \A k \in Bits : k \in Nat /\ k < Width
    BY DEF IInv, Shape, Bits
<1>1. CASE ScanBlock
    <2> DEFINE input == [k \in Bits |-> text[idx + k + 1]]
    <2>1. idx + Width < Len(text)
        BY <1>0, <1>1 DEF ScanBlock, lenminus64
    <2>2. \A k \in Bits : idx + k < Len(text) /\ text[idx + k + 1] \in Byte
        <3>1. ASSUME NEW k \in Bits PROVE idx + k + 1 \in 1..Len(text)
            BY <1>0, <2>1
        <3> QED BY <1>0, <2>1, <3>1
    <2>3. IsBlock(input)
        BY <2>2 DEF IsBlock
    <2>4. Scan(input) /\ pc = "Scan" /\ pc' = "Scan" /\ text' = text /\ result' = result
        BY <1>1 DEF ScanBlock
    <2> HIDE DEF input
    <2> QED BY <1>0, <2>1, <2>3, <2>4, ScanStep
<1>2. CASE ScanTail
    <2>1. idx + Width >= Len(text) /\ idx < Len(text)
        BY <1>0, <1>2 DEF ScanTail, lenminus64
    <2>2. \A k \in Bits : idx + k < Len(text) => text[idx + k + 1] \in Byte
        <3>1. ASSUME NEW k \in Bits, idx + k < Len(text) PROVE idx + k + 1 \in 1..Len(text)
            BY <1>0, <3>1
        <3> QED BY <1>0, <3>1
    <2>3. IsBlock(tmpbuf)
        BY <2>2 DEF IsBlock, tmpbuf, Byte
    <2>4. Scan(tmpbuf) /\ pc = "Scan" /\ pc' = "Finish" /\ text' = text /\ result' = result
        BY <1>2 DEF ScanTail
    <2> QED BY <1>0, <2>1, <2>3, <2>4, ScanStep
<1>3. CASE SkipTail
    BY <1>3, SkipTailStep
<1>4. CASE Finish
    BY <1>4, FinishStep
<1>5. CASE UNCHANGED vars
    BY <1>5, Stutter
<1> QED BY <1>1, <1>2, <1>3, <1>4, <1>5 DEF Next, Step, Returned

LEMMA SpecInv == Spec => []IInv
PROOF BY InitInv, NextInv, PTL DEF Spec

---------------------------------------------------------------------------

\* The variables have their types, and every index is that of a byte of the text,
\* however long the text: find_structural_bits' index vector.
THEOREM TypeCorrect == Spec => []TypeOK
PROOF
<1>1. IInv => TypeOK
    <2> SUFFICES ASSUME IInv, pc # "Done" PROVE TypeOK
        BY DEF IInv, DoneInv
    <2>1. text \in Seq(Byte) /\ Shape /\ result = "none"
        BY DEF IInv, Shape
    <2>2. \A m \in DOMAIN structural_indexes : structural_indexes[m] \in 0..Len(text)
        BY <2>1, IndexesInText DEF IInv, FlatteningInv
    <2>3. carries \in BOOLEAN \X BOOLEAN \X BOOLEAN
        BY <2>1 DEF Shape, carries
    <2> QED BY <2>1, <2>2, <2>3 DEF TypeOK, Shape
<1> QED BY <1>1, SpecInv, PTL

\* The carries hold what a scan byte by byte would carry, at every block boundary
\* and for every width of a block.
THEOREM CarriesCorrect == Spec => []CarriesMatch
PROOF
<1>1. IInv => CarriesMatch
    <2> SUFFICES ASSUME IInv, pc = "Scan" PROVE CarriesMatch
        BY DEF CarriesMatch
    <2>1. CarriesRight /\ Shape /\ idx \in Nat
        BY DEF IInv, CarriesInv, Shape
    <2>2. prev_iter_ends_odd_backslash = Escaped(idx + 1)
        BY <2>1 DEF CarriesRight, Shape, Escaped
    <2>3. prev_iter_inside_quote = (idx > 0 /\ InString(idx))
        <3>1. ~InString(0)
            BY InStringNext
        <3>2. prev_iter_inside_quote <=> (idx > 0 /\ InString(idx))
            BY <2>1, <3>1 DEF CarriesRight
        <3> QED BY <2>1, <3>2 DEF Shape
    <2>4. prev_iter_ends_pseudo_pred = (idx = 0 \/ Separates(idx))
        BY <2>1 DEF CarriesRight, Shape
    <2> QED BY <2>2, <2>3, <2>4 DEF CarriesMatch
<1> QED BY <1>1, SpecInv, PTL

\* The characters indexed so far are those of the byte-by-byte reference, in order
\* and each once, whatever the blocks cut in two.
THEOREM IndexesCorrect == Spec => []IndexesMatch
PROOF
<1>1. IInv => IndexesMatch
    <2> SUFFICES ASSUME IInv, result = "none" PROVE IndexesMatch
        BY DEF IndexesMatch
    <2>1. Shape /\ FlatteningInv /\ pc # "Done" /\ text \in Seq(Byte)
        BY DEF IInv, Shape
    <2>2. flatten_bits(structural_indexes, idx, structurals) = << 0 >> \o Indexes(Seen(idx))
        BY <2>1, FlattenRight
    <2>3. {p \in DOMAIN text : p <= idx /\ Indexed(p)} = Seen(idx)
        BY <2>1 DEF Seen
    <2> QED BY <2>2, <2>3 DEF IndexesMatch, Indexes
<1> QED BY <1>1, SpecInv, PTL

\* The scan ends with the index of every structural character, or with the error
\* the text deserves; only a text of IndexLimit bytes can meet the internal error.
THEOREM ScanRight == Spec => []ScanCorrect
PROOF
<1>1. IInv => ScanCorrect
    BY DEF IInv, DoneInv, ScanCorrect
<1> QED BY <1>1, SpecInv, PTL
=================================================================================
