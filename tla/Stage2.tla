--------------------------------- MODULE Stage2 ---------------------------------
(***************************************************************************)
(* Deserializer::validate of src/src/stage2.rs: one pass over the          *)
(* structural characters that decides whether they are a JSON text and     *)
(* counts the elements of every container.  The second pass (Dom, Serde)   *)
(* trusts both answers without a check of its own.                         *)
(*                                                                         *)
(* The document is a sequence of structural characters (see Json);         *)
(* structural_indexes[0] is the root entry stage 1 puts first, so the      *)
(* character at structural_indexes[k] is doc[k].  counts and stack are     *)
(* allocated by set_len and start uninitialised.                           *)
(***************************************************************************)
EXTENDS Json

CONSTANTS
    Documents,      \* the documents given to validate
    Uninit          \* the content of memory that was never written

\* Stage 1 returns an error for a text with no structural character, and an
\* atom can only touch the end of the input when it is the last of them.
ASSUME DocumentsAssumption ==
    \A d \in Documents :
        d \in Seq(Char) /\ Len(d) >= 1 /\ \A k \in 1..Len(d) - 1 : d[k] # "cutatom"

ASSUME UninitAssumption == Uninit \notin Nat

VARIABLES
    doc,            \* the structural characters
    pc,             \* the state of the automaton, update_char! by update_char!
    i,              \* index of the last structural character read
    depth,          \* number of frames on the stack
    last_start,     \* index of the innermost open bracket
    cnt,            \* its elements so far
    stack,
    counts,         \* the elements of the container opened at each index
    result

scope == <<depth, last_start, cnt, stack>>
vars  == <<doc, pc, i, depth, last_start, cnt, stack, counts, result>>

ReadingStates ==
    {"Start", "ObjectBegin", "ArrayBegin", "ObjectKey", "ObjectValue",
     "ObjectContinue", "ObjectNextKey", "ArrayContinue", "ArrayNext"}

States == ReadingStates \union {"RootEnd", "MainArraySwitch", "ScopeEnd", "Done"}

\* ExpectedAtom stands for ExpectedBoolean and ExpectedNull.
Errors == {"Syntax", "TrailingCharacters", "InternalError", "ExpectedAtom",
           "ExpectedObjectKey", "ExpectedObjectColon", "ExpectedObjectContent",
           "ExpectedArrayContent"}

StackStates == {"Start", "Object", "Array"}

---------------------------------------------------------------------------

Init ==
    /\ doc \in Documents
    /\ pc = "Start"
    /\ i = 0
    /\ depth = 0
    /\ last_start = 1
    /\ cnt = 0
    /\ stack = [k \in 0..Len(doc) |-> Uninit]
    /\ counts = [k \in 0..Len(doc) |-> Uninit]
    /\ result = "none"

Goto(state) == pc' = state /\ UNCHANGED result
Return(r)   == pc' = "Done" /\ result' = r

\* update_char!: the next structural character, or the end of the input.
Read(state) == pc = state /\ i < Len(doc) /\ i' = i + 1
next == doc[i + 1]

\* Mutant of EndOfInput: the end of the input is not seen after an array element.
EndOfInputUnseen ==
    /\ pc \in ReadingStates \ {"ArrayContinue"}
    /\ i = Len(doc)
    /\ Return("Syntax")
    /\ UNCHANGED <<doc, i, scope, counts>>

EndOfInput ==
    /\ pc \in ReadingStates
    /\ i = Len(doc)
    /\ Return("Syntax")
    /\ UNCHANGED <<doc, i, scope, counts>>

\* Mutant of Open: the depth is not incremented.
OpenWithoutPush(kind, k) ==
    /\ stack' = [stack EXCEPT ![depth] =
                    [state |-> kind, last_start |-> last_start, cnt |-> cnt]]
    /\ last_start' = k
    /\ cnt' = 1
    /\ Goto(IF doc[k] = "{" THEN "ObjectBegin" ELSE "ArrayBegin")
    /\ UNCHANGED depth

\* Mutant of Open: the frame is written after last_start was updated.
OpenUpdatingFirst(kind, k) ==
    /\ stack' = [stack EXCEPT ![depth] =
                    [state |-> kind, last_start |-> k, cnt |-> cnt]]
    /\ depth' = depth + 1
    /\ last_start' = k
    /\ cnt' = 1
    /\ Goto(IF doc[k] = "{" THEN "ObjectBegin" ELSE "ArrayBegin")

\* A bracket at index k opens a scope inside a scope of the given kind.
Open(kind, k) ==
    /\ stack' = [stack EXCEPT ![depth] =
                    [state |-> kind, last_start |-> last_start, cnt |-> cnt]]
    /\ depth' = depth + 1
    /\ last_start' = k
    /\ cnt' = 1
    /\ Goto(IF doc[k] = "{" THEN "ObjectBegin" ELSE "ArrayBegin")

\* What the check of an atom at index k can answer.  In a container it loads
\* eight bytes from the input itself, so at the very end of the input the
\* answer depends on what follows it in memory; at the root it loads them
\* from a padded copy.
AtomAnswers(kind, k) ==
    IF doc[k] = "cutatom" /\ kind # "Start" THEN BOOLEAN ELSE {doc[k] \in Atoms}

\* The character at index k starts a value in a scope of the given kind;
\* after a scalar the automaton goes to `after`.
Value(kind, k, after) ==
    \/ doc[k] \in Openers /\ Open(kind, k)
    \/ /\ doc[k] \in Quotes \union Numbers
       /\ Goto(after) /\ UNCHANGED scope
    \/ /\ doc[k] \in Atoms \union BadAtoms
       /\ \E valid \in AtomAnswers(kind, k) :
              IF valid THEN Goto(after) ELSE Return("ExpectedAtom")
       /\ UNCHANGED scope
    \/ /\ doc[k] \in Closers \union {":", ",", "other"}
       /\ Return("InternalError") /\ UNCHANGED scope

Start ==
    /\ Read("Start")
    /\ Value("Start", i + 1, "RootEnd")
    /\ UNCHANGED <<doc, counts>>

\* A scalar at the root must be all there is.
RootEnd ==
    /\ pc = "RootEnd"
    /\ Return(IF i = Len(doc) THEN "Ok" ELSE "TrailingCharacters")
    /\ UNCHANGED <<doc, i, scope, counts>>

\* Mutant of Empty: the count of the container stays at one.
EmptyCountingOne == Goto("ScopeEnd") /\ UNCHANGED scope

\* The bracket just read closes at once: an empty container.
Empty ==
    /\ cnt' = 0
    /\ Goto("ScopeEnd")
    /\ UNCHANGED <<depth, last_start, stack>>

ObjectBegin ==
    /\ Read("ObjectBegin")
    /\ \/ next \in Quotes /\ Goto("ObjectKey") /\ UNCHANGED scope
       \/ next = "}" /\ Empty
       \/ /\ next \notin Quotes \union {"}"}
          /\ Return("ExpectedObjectContent") /\ UNCHANGED scope
    /\ UNCHANGED <<doc, counts>>

ArrayBegin ==
    /\ Read("ArrayBegin")
    /\ \/ next = "]" /\ Empty
       \/ next # "]" /\ Goto("MainArraySwitch") /\ UNCHANGED scope
    /\ UNCHANGED <<doc, counts>>

ObjectKey ==
    /\ Read("ObjectKey")
    /\ IF next = ":" THEN Goto("ObjectValue") ELSE Return("ExpectedObjectColon")
    /\ UNCHANGED <<doc, scope, counts>>

ObjectValue ==
    /\ Read("ObjectValue")
    /\ Value("Object", i + 1, "ObjectContinue")
    /\ UNCHANGED <<doc, counts>>

\* After an element: a comma counts the next one, the closer ends the scope.
Continue(closer, then, error) ==
    /\ \/ next = ","    /\ cnt' = cnt + 1 /\ Goto(then)
       \/ next = closer /\ Goto("ScopeEnd") /\ UNCHANGED cnt
       \/ next \notin {",", closer} /\ Return(error) /\ UNCHANGED cnt
    /\ UNCHANGED <<doc, depth, last_start, stack, counts>>

ObjectContinue ==
    /\ Read("ObjectContinue")
    /\ Continue("}", "ObjectNextKey", "ExpectedObjectContent")

ObjectNextKey ==
    /\ Read("ObjectNextKey")
    /\ IF next \in Quotes THEN Goto("ObjectKey") ELSE Return("ExpectedObjectKey")
    /\ UNCHANGED <<doc, scope, counts>>

MainArraySwitch ==
    /\ pc = "MainArraySwitch"
    /\ Value("Array", i, "ArrayContinue")
    /\ UNCHANGED <<doc, i, counts>>

ArrayContinue ==
    /\ Read("ArrayContinue")
    /\ Continue("]", "ArrayNext", "ExpectedArrayContent")

\* Mutant of ArrayNext: it reads on at the end of the input.
ArrayNextUnbounded ==
    /\ pc = "ArrayNext" /\ i' = i + 1
    /\ Goto("MainArraySwitch")
    /\ UNCHANGED <<doc, scope, counts>>

\* Mutant of ArrayNext: an array may end with a comma.
ArrayNextOrEnd ==
    /\ Read("ArrayNext")
    /\ Goto(IF next = "]" THEN "ScopeEnd" ELSE "MainArraySwitch")
    /\ UNCHANGED <<doc, scope, counts>>

ArrayNext ==
    /\ Read("ArrayNext")
    /\ Goto("MainArraySwitch")
    /\ UNCHANGED <<doc, scope, counts>>

\* Where the parser goes on after a scope that was opened in the given state.
AfterScope(state) ==
    \/ state = "Object" /\ Goto("ObjectContinue")
    \/ state = "Array"  /\ Goto("ArrayContinue")
    \/ state = "Start"  /\ Return(IF i = Len(doc) THEN "Ok" ELSE "InternalError")

ScopeEnd ==
    /\ pc = "ScopeEnd"
    /\ IF depth = 0
       THEN Return("Syntax") /\ UNCHANGED <<scope, counts>>
       ELSE LET frame == stack[depth - 1] IN
            /\ depth' = depth - 1
            /\ counts' = [counts EXCEPT ![last_start] = cnt]
            /\ last_start' = frame.last_start
            /\ cnt' = frame.cnt
            /\ AfterScope(frame.state)
            /\ UNCHANGED stack
    /\ UNCHANGED <<doc, i>>

Step ==
    \/ EndOfInput \/ Start \/ RootEnd
    \/ ObjectBegin \/ ObjectKey \/ ObjectValue \/ ObjectContinue \/ ObjectNextKey
    \/ ArrayBegin \/ MainArraySwitch \/ ArrayContinue \/ ArrayNext
    \/ ScopeEnd

Returned == pc = "Done" /\ UNCHANGED vars

Next == Step \/ Returned

Spec == Init /\ [][Next]_vars

---------------------------------------------------------------------------
(* Properties.                                                             *)

Frame == [state : StackStates, last_start : Nat, cnt : Nat]

\* The variables have their types, and each index the range of what it
\* indexes: in every state i and last_start are of the document, also when
\* last_start comes out of a frame, and depth is of the stack.  What the
\* accesses at these places find there is UncheckedAccessesGood.
TypeOK ==
    /\ doc \in Seq(Char)
    /\ pc \in States
    /\ i \in 0..Len(doc)
    /\ depth \in 0..Len(doc)
    /\ last_start \in 1..Len(doc)
    /\ cnt \in Nat
    /\ stack \in [0..Len(doc) -> Frame \union {Uninit}]
    /\ counts \in [0..Len(doc) -> Nat \union {Uninit}]
    /\ result \in Errors \union {"none", "Ok"}

\* The unchecked accesses of validate are good: the frame a bracket pushes
\* fits in the stack, the frame a closing bracket pops was written, and the
\* count it stores belongs to an opening bracket already read.
UncheckedAccessesGood ==
    /\ pc \in {"Start", "ObjectValue"} /\ i < Len(doc) => depth \in DOMAIN stack
    /\ pc = "MainArraySwitch" => depth \in DOMAIN stack
    /\ pc = "ScopeEnd" =>
          /\ depth > 0
          /\ stack[depth - 1] \in Frame
          /\ last_start \in 1..i /\ doc[last_start] \in Openers

\* When validate accepts, the count of every container was written: the
\* vector it returns was allocated by set_len, and the second pass reads the
\* entry of every opening bracket.
CountsInitialised ==
    result = "Ok" => \A p \in 1..Len(doc) : doc[p] \in Openers => counts[p] # Uninit

\* The counts of an accepted document are the numbers of elements of its
\* containers: the second pass has nothing else to find their ends by.
CountsMatchElements ==
    result = "Ok" =>
        \A p \in 1..Len(doc) : doc[p] \in Openers => counts[p] = ElementCount(doc, p)

\* validate accepts the documents the JSON grammar derives and no other,
\* whatever the memory behind the input makes of an atom cut off by its end.
AcceptsExactlyJson ==
    pc = "Done" => (result = "Ok" <=> GrammarView(doc) \in TextsUpTo(Len(doc)))
=================================================================================
