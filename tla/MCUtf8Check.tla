------------------------------- MODULE MCUtf8Check -------------------------------
(***************************************************************************)
(* Instances of Utf8Check: a few bytes on either side of every boundary of *)
(* the table of legal sequences, behind every number of letters up to a    *)
(* block, and with blocks of ASCII between them.                           *)
(***************************************************************************)
EXTENDS Utf8Check

CONSTANTS
    EdgeLength,     \* sequences of the edge bytes up to this length
    KindLength      \* sequences of one byte of each kind up to this length

Letter == 97

\* The bytes on either side of every boundary of the table.
Edges == {127, 128, 143, 144, 159, 160, 191, 193, 194, 224, 225, 236, 237, 238,
          240, 241, 243, 244, 245}

Kinds == {Letter, 128, 191, 194, 225, 240, 244}

Sequences(S, n) == UNION {[1..m -> S] : m \in 0..n}

Letters(n) == [k \in 1..n |-> Letter]

Shifted(S, N) == {Letters(n) \o s : n \in N, s \in S}

\* A block of letters between two blocks that may be broken at its borders.
Split == {Letters(Width - 2) \o s \o Letters(Width) \o t :
             s \in [1..2 -> Kinds], t \in Sequences(Kinds, 2)}

MCTexts == Shifted(Sequences(Edges, EdgeLength), Lane..Width - 1)
             \union Shifted(Sequences(Kinds, KindLength), 0..Width - 1)
             \union Split
=================================================================================
