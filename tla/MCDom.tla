--------------------------------- MODULE MCDom ---------------------------------
(***************************************************************************)
(* Instances of Dom: well-formed texts, the same with one scalar replaced, *)
(* and the same cut short by one character.                                *)
(***************************************************************************)
EXTENDS Dom, SequencesExt

CONSTANT LongLength     \* the longest well-formed text

Texts == TextsUpTo(LongLength)

Plain(text) == [k \in DOMAIN text |-> IF text[k] = "val" THEN "num" ELSE text[k]]

Variants(d) ==
    {[d EXCEPT ![k] = c] : k \in {j \in DOMAIN d : d[j] = "num"},
                           c \in {"badnum", "null", "badatom"}}
      \union {[d EXCEPT ![k] = "badstr"] : k \in {j \in DOMAIN d : d[j] = "str"}}
      \union {Front(d)}

MCDocuments ==
    {d \in UNION {{Plain(t)} \union Variants(Plain(t)) : t \in Texts} : Len(d) >= 1}

\* to_value implements its promise: one answer, the right one, and always.
Promise == INSTANCE ToValue WITH answer <- DomAnswer
KeepsPromise == Promise!Spec
=================================================================================
