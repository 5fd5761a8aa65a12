-------------------------------- MODULE ToValue --------------------------------
(***************************************************************************)
(* What to_value promises: one call that answers with the tree of the      *)
(* document when it is a JSON text all of whose strings and numbers are    *)
(* well formed, and with an error otherwise.                               *)
(***************************************************************************)
EXTENDS Json

CONSTANT Texts          \* the well-formed texts, as GrammarView sees them

VARIABLES doc, answer

NoAnswer  == [status |-> "none", tree |-> Leaf(0)]
Failure   == [status |-> "error", tree |-> Leaf(0)]
Success(t) == [status |-> "ok", tree |-> t]

WellFormed == GrammarView(doc) \in Texts
LeavesGood == \A k \in DOMAIN doc : doc[k] \notin {"badstr", "badnum"}

Init == doc \in Seq(Char) /\ answer = NoAnswer

Reply ==
    /\ answer = NoAnswer
    /\ answer' = IF WellFormed /\ LeavesGood THEN Success(Tree(doc)) ELSE Failure
    /\ UNCHANGED doc

Safety == Init /\ [][Reply]_<<doc, answer>>

Spec == Safety /\ WF_<<doc, answer>>(Reply)
=================================================================================
