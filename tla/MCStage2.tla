-------------------------------- MODULE MCStage2 --------------------------------
(***************************************************************************)
(* Instances of Stage2: the documents TLC gives to validate.               *)
(***************************************************************************)
EXTENDS Stage2, SequencesExt

CONSTANTS
    ShortLength,    \* every sequence of characters up to this length
    LongLength      \* every well-formed text up to this length, and every
                    \* document one character away from it

AtEnd(d) == \A k \in 1..Len(d) - 1 : d[k] # "cutatom"

Short == UNION {[1..n -> Char] : n \in 1..ShortLength}

\* A text of the grammar, its values numbers.
Plain(text) == [k \in DOMAIN text |-> IF text[k] = "val" THEN "num" ELSE text[k]]

Edits(d) ==
    {[d EXCEPT ![k] = c] : k \in DOMAIN d, c \in Char}
      \union {RemoveAt(d, k) : k \in DOMAIN d}
      \union {InsertAt(d, k, c) : k \in 1..Len(d) + 1, c \in Char}

Long == UNION {Edits(Plain(t)) : t \in TextsUpTo(LongLength)}

MCDocuments == {d \in Short \union Long : Len(d) >= 1 /\ AtEnd(d)}
=================================================================================
