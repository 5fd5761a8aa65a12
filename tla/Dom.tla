----------------------------------- MODULE Dom -----------------------------------
(***************************************************************************)
(* to_value: validate (Stage2), then the walk of BorrowDeserializer over   *)
(* the validated characters (value/borrowed.rs; OwnedDeserializer of       *)
(* value/owned.rs is the same walk).  The walk moves a cursor with         *)
(* unchecked reads and knows where a container ends only from the counts   *)
(* validate returned; it never looks at a comma, a colon or a closing      *)
(* bracket.                                                                *)
(***************************************************************************)
EXTENDS Cursor

domVars == <<doc, pc, i, depth, last_start, cnt, stack, counts, result,
             at, idx, calls, value, failure>>

Validate == Step /\ UNCHANGED walk

\* Mutant of Abort: the error is dropped and the walk goes on.
AbortIgnored(e) == at' = "Value returned" /\ value' = Leaf(0) /\ UNCHANGED failure

Abort(e) == at' = "Done" /\ failure' = e /\ UNCHANGED value

\* Mutant of Container: an empty container does not skip its closing bracket.
ContainerNoSkip(of, k) ==
    \E es \in CountsAt(k) :
        /\ idx' = k
        /\ \/ es = 0 /\ Answer(Array(<< >>)) /\ UNCHANGED calls
           \/ /\ es > 0
              /\ calls' = Append(calls, [of |-> of, left |-> es, items |-> << >>, key |-> 0])
              /\ Proceed(IF of = "array" THEN "Value" ELSE "Key")

\* A call of parse_array or parse_map (of) that begins at the bracket at k.
Container(of, k) ==
    \E es \in CountsAt(k) :
        \/ /\ es = 0
           /\ Answer(IF of = "array" THEN Array(<< >>) ELSE Object(<< >>))
           /\ idx' = k + 1
           /\ UNCHANGED calls
        \/ /\ es > 0
           /\ calls' = Append(calls, [of |-> of, left |-> es, items |-> << >>, key |-> 0])
           /\ idx' = k
           /\ Proceed(IF of = "array" THEN "Value" ELSE "Key")

\* parse and parse_value: move to the next character and dispatch on it.
ParseValue ==
    /\ at = "Value"
    /\ \E c \in CharsAt(idx + 1) :
        \/ c = "[" /\ Container("array", idx + 1)
        \/ c = "{" /\ Container("map", idx + 1)
        \/ /\ c \notin Openers
           /\ idx' = idx + 1
           /\ UNCHANGED calls
           /\ \/ c \in Strings \union Numerals \union Atoms \union BadAtoms /\ Answer(Leaf(idx + 1))
              \/ c = "badstr" /\ Abort("InvalidEscape")
              \/ c = "badnum" /\ Abort("InvalidNumber")
              \/ c \in Closers \union {":", ",", "other"} /\ Abort("UnexpectedCharacter")
    /\ UNCHANGED vars

\* The head of parse_map's loop: over the bracket or the comma to the key,
\* over the key to the colon.  parse_str_ takes any character for a quote.
ParseKey ==
    /\ at = "Key"
    /\ \E c \in CharsAt(idx + 1) :
        \/ /\ c = "badstr"
           /\ idx' = idx + 1
           /\ Abort("InvalidEscape")
           /\ UNCHANGED calls
        \/ /\ c # "badstr"
           /\ idx' = idx + 2
           /\ calls' = [calls EXCEPT ![Len(calls)].key = idx + 1]
           /\ Proceed("Value")
    /\ UNCHANGED vars

\* The foot of both loops: the value becomes an element, the cursor skips the
\* comma or the closing bracket, and after the last element the call returns.
Element ==
    /\ at = "Value returned" /\ calls # << >>
    /\ LET call  == calls[Len(calls)]
           items == Append(call.items, IF call.of = "array" THEN value
                                       ELSE Member(call.key, value))
       IN  IF call.left > 1
           THEN /\ calls' = [calls EXCEPT ![Len(calls)].items = items,
                                          ![Len(calls)].left = call.left - 1]
                /\ Proceed(IF call.of = "array" THEN "Value" ELSE "Key")
           ELSE /\ calls' = SubSeq(calls, 1, Len(calls) - 1)
                /\ Answer(IF call.of = "array" THEN Array(items) ELSE Object(items))
    /\ idx' = idx + 1
    /\ UNCHANGED vars

DomStep == Validate \/ FromSlice \/ ParseValue \/ ParseKey \/ Element \/ Finish

DomReturned == at = "Done" /\ UNCHANGED domVars

DomNext == DomStep \/ DomReturned

DomSpec == CursorInit /\ [][DomNext]_domVars /\ WF_domVars(DomStep)

---------------------------------------------------------------------------
(* Properties.                                                             *)

\* The cursor stays inside structural_indexes, whatever the document: next_,
\* skip and c read it with get_unchecked.
CursorInRange == idx \in 0..Len(doc)

\* Every step of the walk finds what it takes for granted: a key is a quote
\* followed by a colon, an element ends at a comma or the closing bracket of
\* its kind, and the count of a container it enters was written.
WalkOnTrack ==
    LET call == calls[Len(calls)] IN
    /\ at = "Value" /\ idx < Len(doc) /\ doc[idx + 1] \in Openers =>
          counts[idx + 1] # Uninit
    /\ at = "Key" => doc[idx + 1] \in Quotes /\ doc[idx + 2] = ":"
    /\ at = "Value returned" /\ calls # << >> =>
          doc[idx + 1] = IF call.left > 1 THEN ","
                         ELSE IF call.of = "array" THEN "]" ELSE "}"

\* What validate accepts holds no surprise for the walk: it fails on the text
\* of a string or a number, and on nothing else.
OnlyLeavesFail ==
    result = "Ok" => failure \in {"none", "InvalidEscape", "InvalidNumber"}

\* to_value returns: validate reads on in every state of its loop, and the
\* walk ends the loops that the counts drive.
Termination == <>(at = "Done")

\* The answer of to_value, as its callers see it.
DomAnswer ==
    [status |-> CASE at # "Done" -> "none"
                  [] at = "Done" /\ failure = "none" -> "ok"
                  [] OTHER -> "error",
     tree   |-> IF at = "Done" /\ failure = "none" THEN value ELSE Leaf(0)]
=================================================================================
