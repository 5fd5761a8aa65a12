----------------------------------- MODULE Cursor -----------------------------------
(***************************************************************************)
(* Deserializer of src/src/lib.rs after from_slice: the cursor that both   *)
(* second passes (Dom, SerdeDe) move over the validated characters.  Its   *)
(* reads of structural_indexes and counts are unchecked, and only the      *)
(* counts tell where a container ends.                                     *)
(***************************************************************************)
EXTENDS Stage2

CONSTANT GarbageCount   \* the counts read from unwritten memory are 0..GarbageCount

ASSUME GarbageCountAssumption == GarbageCount \in Nat

VARIABLES
    at,         \* what the pass does next
    idx,        \* the cursor: index of the current structural character
    calls,      \* the containers being read, innermost last
    value,      \* the value the last call returned
    failure     \* the error the pass ends with

walk == <<at, idx, calls, value, failure>>

CursorInit ==
    /\ Init
    /\ at = "Idle"
    /\ idx = 0
    /\ calls = << >>
    /\ value = Leaf(0)
    /\ failure = "none"

\* from_slice has returned: its error is the answer, or the pass begins.
FromSlice ==
    /\ at = "Idle" /\ pc = "Done"
    /\ at' = IF result = "Ok" THEN "Value" ELSE "Done"
    /\ failure' = IF result = "Ok" THEN failure ELSE result
    /\ UNCHANGED <<vars, idx, calls, value>>

\* What an unchecked read at k can find.
CharsAt(k)  == IF k \in 1..Len(doc) THEN {doc[k]} ELSE Char
CountsAt(k) == IF k \in 1..Len(doc) /\ counts[k] # Uninit
               THEN {counts[k]} ELSE 0..GarbageCount

Answer(v)   == at' = "Value returned" /\ value' = v /\ UNCHANGED failure
Proceed(to) == at' = to /\ UNCHANGED <<value, failure>>

\* The outermost call returned its value.
Finish ==
    /\ at = "Value returned" /\ calls = << >>
    /\ at' = "Done"
    /\ UNCHANGED <<vars, idx, calls, value, failure>>
=================================================================================
