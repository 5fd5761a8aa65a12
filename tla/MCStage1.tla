-------------------------------- MODULE MCStage1 --------------------------------
(***************************************************************************)
(* Instances of Stage1.  One byte stands for each way the scan treats      *)
(* bytes; the nibble tables are tried on every byte.                       *)
(***************************************************************************)
EXTENDS Stage1, FiniteSetsExt

CONSTANTS
    AllLength,      \* texts of every kind of byte up to this length
    RunLength,      \* texts of backslashes, quotes and letters up to this one
    GapLength       \* texts of quotes, brackets, spaces and letters up to this one

Letter == 97
Space == 32
Newline == 10
Control == 31
Comma == 44
Bracket == 123

\* The carries add: checked against numbers for every pair of vectors.
NumberOf(v) == FoldSet(LAMBDA k, sum : sum + 2 ^ k, 0, v)
ASSUME AdditionAssumption ==
    \A v, w \in SUBSET Bits :
        NumberOf(WrappingAdd(v, w)) + (IF Overflows(v, w) THEN 2 ^ Width ELSE 0)
            = NumberOf(v) + NumberOf(w)

Sequences(S, n) == UNION {[1..m -> S] : m \in 0..n}

\* Texts that reach beyond IndexLimit: a long word and what follows it.
LongTexts ==
    {[k \in 1..IndexLimit - 2 |-> Letter] \o tail :
        tail \in Sequences({Quote, Bracket, Space}, 5)}

MCTexts ==
    Sequences({Backslash, Quote, Letter, Space, Newline, Control, Comma}, AllLength)
      \union Sequences({Backslash, Quote, Letter}, RunLength)
      \union Sequences({Quote, Bracket, Space, Letter}, GapLength)
      \union LongTexts
      \union [1..1 -> Byte]
      \union {<<b, Letter>> : b \in Byte}
=================================================================================
