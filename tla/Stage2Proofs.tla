------------------------------- MODULE Stage2Proofs -------------------------------
(***************************************************************************)
(* What holds of the two passes over a document, for every document.       *)
(*                                                                         *)
(* Of validate: the types of its variables, the goodness of its unchecked  *)
(* accesses, that it leaves no count of an accepted document unwritten,    *)
(* that every count is right, and that it accepts exactly the texts of the *)
(* JSON grammar.  The first invariant accounts for every opening bracket   *)
(* read so far: its count is written, or it is the innermost open one, or  *)
(* it is the last_start of a frame of the stack.  The second says that the *)
(* state is the place of the next character (see Grammar).  The third says *)
(* that the document of an error has a character out of place.             *)
(*                                                                         *)
(* Of the walk of to_value, in the second part: its cursor stays on the    *)
(* structural characters, every skip is over the character it takes for    *)
(* granted, and it fails on nothing but the text of a string or a number.  *)
(* The document is sound and its counts right, by the first part; the      *)
(* invariant of the walk says that the calls under way are the brackets    *)
(* open at the cursor, and that what is left of each is its count without  *)
(* the elements before the cursor.                                         *)
(*                                                                         *)
(* Of the answer of to_value, in the third part: it is the one that        *)
(* ToValue promises.  The invariant says that the elements a call has read *)
(* are the first of its container's tree, as many as the ordinal of the    *)
(* cursor's place says, and that the value just read is the tree of the    *)
(* element before the cursor.                                              *)
(*                                                                         *)
(* Of the accesses of serde::from_slice, in the fourth part: their cursor  *)
(* stays on the structural characters, too.  A tuple that is too short or  *)
(* too long leads them away from the brackets, so the invariant counts:    *)
(* what is left to be read of the containers under way, by their counts,   *)
(* is never more than the characters ahead that no bracket ahead encloses. *)
(***************************************************************************)
EXTENDS Dom, SerdeDe, Grammar, SequenceTheorems

ScopeStates == States \ {"Start", "RootEnd", "Done"}

\* Where the automaton is tells whether a scope is open.
Shape ==
    /\ pc = "Start" => i = 0
    /\ pc \in {"Start", "RootEnd"} => depth = 0
    /\ pc \in ScopeStates => depth >= 1
    /\ pc # "Done" => result = "none"
    /\ result = "Ok" => depth = 0 /\ i = Len(doc)

\* Every frame was pushed by a character of its own, the one that
\* MainArraySwitch looks at not among them.
DepthBounded ==
    /\ depth <= i
    /\ pc = "MainArraySwitch" => depth < i

\* The frames below depth were written, each with an index of the document to
\* go back to; the outermost is the only Start.
FramesWritten ==
    /\ \A d \in 0..depth - 1 : stack[d] \in Frame
    /\ \A d \in 0..depth - 1 : stack[d].last_start \in 1..Len(doc)
    /\ \A d \in 0..depth - 1 : stack[d].state = "Start" <=> d = 0

IsOpener(p) == p \in 1..i /\ doc[p] \in Openers

\* The open scopes are those of brackets already read.
ScopesOpened ==
    /\ depth >= 1 => IsOpener(last_start)
    /\ \A d \in 1..depth - 1 : IsOpener(stack[d].last_start)

Accounted(p) ==
    \/ counts[p] # Uninit
    \/ depth >= 1 /\ p = last_start
    \/ \E d \in 1..depth - 1 : stack[d].last_start = p

OpenersAccounted ==
    result \in {"none", "Ok"} =>
        \A p \in 1..i :
            doc[p] \in Openers => Accounted(p) \/ (pc = "MainArraySwitch" /\ p = i)

IInv ==
    /\ TypeOK
    /\ Shape
    /\ DepthBounded
    /\ FramesWritten
    /\ ScopesOpened
    /\ OpenersAccounted

---------------------------------------------------------------------------

\* A character that starts a value keeps the invariant, wherever it stands:
\* at the root, after a colon or in an array.
LEMMA ValueStep ==
    ASSUME IInv,
           NEW kind \in StackStates, NEW k \in 1..Len(doc),
           NEW after \in {"RootEnd", "ObjectContinue", "ArrayContinue"},
           Value(kind, k, after), i' = k, doc' = doc, counts' = counts,
           pc # "Done", i <= k, depth < k,
           kind = "Start" <=> depth = 0,
           kind = "Start" <=> after = "RootEnd",
           \A p \in 1..k - 1 : doc[p] \in Openers => Accounted(p)
    PROVE  IInv'
PROOF
<1> USE DEF IInv
<1>0. result = "none" /\ i \in Nat /\ k \in Nat /\ depth \in Nat /\ doc[k] \in Char
    BY DEF TypeOK, Shape
<1>1. CASE doc[k] \in Openers /\ Open(kind, k)
    <2> DEFINE frame == [state |-> kind, last_start |-> last_start, cnt |-> cnt]
    <2>1. /\ stack' = [stack EXCEPT ![depth] = frame]
          /\ depth' = depth + 1 /\ last_start' = k /\ cnt' = 1
          /\ pc' \in {"ObjectBegin", "ArrayBegin"} /\ result' = result
        BY <1>1 DEF Open, Goto
    <2>2. frame \in Frame
        BY DEF TypeOK, Frame
    <2>3. depth \in 0..Len(doc)
        BY <1>0 DEF TypeOK
    <2>4. stack'[depth] = frame /\ \A d \in 0..depth - 1 : stack'[d] = stack[d]
        BY <2>1, <2>3 DEF TypeOK
    <2> HIDE DEF frame
    <2>5. TypeOK'
        BY <1>0, <2>1, <2>2, <2>3 DEF TypeOK, States, ReadingStates
    <2>6. Shape'
        BY <1>0, <2>1 DEF Shape, ScopeStates, States, ReadingStates
    <2>7. DepthBounded'
        BY <1>0, <2>1 DEF DepthBounded
    <2>8. FramesWritten'
        <3>1. \A d \in 0..depth' - 1 : stack'[d] \in Frame
            BY <1>0, <2>1, <2>2, <2>4 DEF FramesWritten
        <3>2. ASSUME NEW d \in 0..depth' - 1
              PROVE  stack'[d].state = "Start" <=> d = 0
            <4>1. CASE d = depth
                BY <2>4, <4>1 DEF frame
            <4>2. CASE d # depth
                BY <1>0, <2>1, <2>4, <4>2 DEF FramesWritten
            <4> QED BY <4>1, <4>2
        <3>3. ASSUME NEW d \in 0..depth' - 1
              PROVE  stack'[d].last_start \in 1..Len(doc)
            <4>1. CASE d = depth
                BY <2>4, <4>1 DEF frame, TypeOK
            <4>2. CASE d # depth
                BY <1>0, <2>1, <2>4, <4>2 DEF FramesWritten
            <4> QED BY <4>1, <4>2
        <3> QED BY <3>1, <3>2, <3>3 DEF FramesWritten
    <2>9. ScopesOpened'
        <3>1. IsOpener(last_start)'
            BY <1>0, <1>1, <2>1 DEF IsOpener
        <3>2. ASSUME NEW d \in 1..depth' - 1 PROVE IsOpener(stack[d].last_start)'
            <4>1. CASE d = depth
                BY <1>0, <2>4, <4>1 DEF ScopesOpened, IsOpener, frame
            <4>2. CASE d # depth
                BY <1>0, <2>1, <2>4, <4>2 DEF ScopesOpened, IsOpener
            <4> QED BY <4>1, <4>2
        <3> QED BY <3>1, <3>2 DEF ScopesOpened
    <2>10. OpenersAccounted'
        <3>1. SUFFICES ASSUME NEW p \in 1..k, doc[p] \in Openers PROVE Accounted(p)'
            BY <2>1 DEF OpenersAccounted
        <3>2. CASE p = k
            BY <1>0, <2>1, <3>2 DEF Accounted
        <3>3. CASE p # k
            <4>1. Accounted(p)
                BY <1>0, <3>1, <3>3
            <4>2. CASE counts[p] # Uninit
                BY <4>2 DEF Accounted
            <4>3. CASE depth >= 1 /\ p = last_start
                <5>1. depth \in 1..depth' - 1 /\ stack'[depth].last_start = p
                    BY <1>0, <2>1, <2>4, <4>3 DEF frame
                <5> QED BY <5>1 DEF Accounted
            <4>4. CASE \E d \in 1..depth - 1 : stack[d].last_start = p
                <5>1. PICK d \in 1..depth - 1 : stack[d].last_start = p
                    BY <4>4
                <5>2. d \in 1..depth' - 1 /\ stack'[d].last_start = p
                    BY <1>0, <2>1, <2>4, <5>1
                <5> QED BY <5>2 DEF Accounted
            <4> QED BY <4>1, <4>2, <4>3, <4>4 DEF Accounted
        <3> QED BY <3>2, <3>3
    <2> QED BY <2>5, <2>6, <2>7, <2>8, <2>9, <2>10
<1>2. CASE /\ doc[k] \notin Openers
           /\ UNCHANGED scope
           /\ \/ pc' = after /\ result' = result
              \/ pc' = "Done" /\ result' \in {"ExpectedAtom", "InternalError"}
    <2>1. depth' = depth /\ last_start' = last_start /\ cnt' = cnt /\ stack' = stack
        BY <1>2 DEF scope
    <2>2. TypeOK'
        BY <1>0, <1>2, <2>1 DEF TypeOK, States, ReadingStates, Errors
    <2>3. Shape'
        BY <1>0, <1>2, <2>1 DEF Shape, ScopeStates, States, ReadingStates
    <2>4. DepthBounded' /\ FramesWritten'
        BY <1>0, <1>2, <2>1 DEF DepthBounded, FramesWritten
    <2>5. ScopesOpened'
        BY <1>0, <1>2, <2>1 DEF ScopesOpened, IsOpener
    <2>6. OpenersAccounted'
        BY <1>0, <1>2, <2>1 DEF OpenersAccounted, Accounted
    <2> QED BY <2>2, <2>3, <2>4, <2>5, <2>6
<1>3. \/ doc[k] \in Openers /\ Open(kind, k)
      \/ /\ doc[k] \notin Openers
         /\ UNCHANGED scope
         /\ \/ pc' = after /\ result' = result
            \/ pc' = "Done" /\ result' \in {"ExpectedAtom", "InternalError"}
    BY DEF Value, Goto, Return, Openers, Closers, Strings, Quotes, Numerals, Numbers, Atoms, BadAtoms
<1> QED BY <1>1, <1>2, <1>3

---------------------------------------------------------------------------

\* validate starts with nothing read and no scope open.
LEMMA InitInv == Init => IInv
PROOF
<1> SUFFICES ASSUME Init PROVE IInv
    OBVIOUS
<1>1. doc \in Seq(Char) /\ Len(doc) \in Nat
    BY DocumentsAssumption DEF Init
<1>2. TypeOK
    BY <1>1 DEF Init, TypeOK, States, ReadingStates
<1>3. Shape /\ DepthBounded /\ FramesWritten /\ ScopesOpened /\ OpenersAccounted
    BY <1>1 DEF Init, Shape, ScopeStates, States, ReadingStates, DepthBounded,
                FramesWritten, ScopesOpened, OpenersAccounted
<1> QED BY <1>2, <1>3 DEF IInv

\* A step that reads a character other than an opening bracket, or none,
\* without touching the stack.
LEMMA QuietStep ==
    ASSUME IInv,
           pc \in States \ {"MainArraySwitch", "ScopeEnd", "Done"},
           doc' = doc, depth' = depth, last_start' = last_start,
           stack' = stack, counts' = counts, cnt' \in Nat,
           i' \in i..Len(doc),
           \/ pc' = "Done" /\ result' \in Errors
           \/ /\ pc' \in ScopeStates /\ result' = result /\ depth >= 1
              /\ i' = i + 1
              /\ doc[i + 1] \in Openers => pc' = "MainArraySwitch"
    PROVE  IInv'
PROOF
<1> USE DEF IInv
<1>1. i \in Nat /\ depth \in Nat /\ Len(doc) \in Nat /\ result = "none"
    BY DEF TypeOK, Shape
<1>2. TypeOK'
    BY <1>1 DEF TypeOK, States, ReadingStates, ScopeStates
<1>3. Shape'
    BY <1>1 DEF Shape, ScopeStates, States, ReadingStates, Errors
<1>4. DepthBounded' /\ FramesWritten'
    BY <1>1 DEF DepthBounded, FramesWritten
<1>5. ScopesOpened'
    BY <1>1 DEF ScopesOpened, IsOpener
<1>6. OpenersAccounted'
    <2>1. CASE pc' = "Done"
        BY <2>1 DEF OpenersAccounted, Errors, ScopeStates
    <2>2. CASE pc' # "Done"
        <3>1. SUFFICES ASSUME NEW p \in 1..i', doc[p] \in Openers,
                              ~(pc' = "MainArraySwitch" /\ p = i')
                       PROVE  Accounted(p)'
            BY <2>2 DEF OpenersAccounted
        <3>2. p \in 1..i
            BY <1>1, <2>2, <3>1
        <3>3. Accounted(p)
            BY <1>1, <3>1, <3>2 DEF OpenersAccounted
        <3> QED BY <3>3 DEF Accounted
    <2> QED BY <2>1, <2>2
<1> QED BY <1>2, <1>3, <1>4, <1>5, <1>6

\* The check that a scalar at the root is all there is closes no scope.
LEMMA RootEndStep == IInv /\ RootEnd => IInv'
PROOF
<1> SUFFICES ASSUME IInv, RootEnd PROVE IInv'
    OBVIOUS
<1> USE DEF IInv
<1>1. /\ doc' = doc /\ i' = i /\ counts' = counts /\ depth' = depth
      /\ last_start' = last_start /\ cnt' = cnt /\ stack' = stack
      /\ pc = "RootEnd" /\ pc' = "Done" /\ depth = 0 /\ result = "none"
      /\ result' = IF i = Len(doc) THEN "Ok" ELSE "TrailingCharacters"
    BY DEF RootEnd, Return, scope, Shape
<1>2. TypeOK'
    BY <1>1 DEF TypeOK, States, Errors
<1>3. Shape'
    BY <1>1 DEF Shape, ScopeStates
<1>4. DepthBounded' /\ FramesWritten'
    BY <1>1 DEF DepthBounded, FramesWritten
<1>5. ScopesOpened'
    BY <1>1 DEF ScopesOpened, IsOpener
<1>6. OpenersAccounted'
    BY <1>1 DEF OpenersAccounted, Accounted
<1> QED BY <1>2, <1>3, <1>4, <1>5, <1>6

\* The end of a scope writes the count of its bracket and makes the bracket
\* of the frame below the innermost one.
LEMMA ScopeEndStep == IInv /\ ScopeEnd => IInv'
PROOF
<1> SUFFICES ASSUME IInv, ScopeEnd PROVE IInv'
    OBVIOUS
<1> USE DEF IInv
<1> DEFINE frame == stack[depth - 1]
<1>1. /\ pc = "ScopeEnd" /\ depth >= 1 /\ result = "none"
      /\ depth \in Nat /\ i \in 0..Len(doc) /\ Len(doc) \in Nat /\ depth <= i
    BY DEF ScopeEnd, Shape, ScopeStates, States, ReadingStates, TypeOK, DepthBounded
<1>2. /\ doc' = doc /\ i' = i /\ stack' = stack /\ depth' = depth - 1
      /\ counts' = [counts EXCEPT ![last_start] = cnt]
      /\ last_start' = frame.last_start /\ cnt' = frame.cnt
      /\ AfterScope(frame.state)
    BY <1>1 DEF ScopeEnd
<1>3. /\ frame \in Frame
      /\ frame.last_start \in 1..Len(doc)
      /\ frame.state = "Start" <=> depth = 1
    BY <1>1 DEF FramesWritten
<1>4. frame.last_start \in Nat /\ frame.cnt \in Nat /\ frame.state \in StackStates
    BY <1>3 DEF Frame
<1>5. last_start \in 1..i /\ cnt \in Nat /\ cnt # Uninit
    BY <1>1, UninitAssumption DEF ScopesOpened, IsOpener, TypeOK
<1>6. /\ counts'[last_start] = cnt
      /\ \A p \in 0..Len(doc) : p # last_start => counts'[p] = counts[p]
    BY <1>1, <1>2, <1>5 DEF TypeOK
<1>7. \/ pc' = "ObjectContinue" /\ result' = result /\ depth' >= 1
      \/ pc' = "ArrayContinue" /\ result' = result /\ depth' >= 1
      \/ pc' = "Done" /\ result' = "Ok" /\ i = Len(doc) /\ frame.state = "Start"
      \/ pc' = "Done" /\ result' = "InternalError"
    <2> HIDE DEF frame
    <2> QED BY <1>1, <1>2, <1>3, <1>4 DEF AfterScope, Goto, Return, StackStates
<1>8. TypeOK'
    <2> HIDE DEF frame
    <2> QED BY <1>1, <1>2, <1>3, <1>4, <1>5, <1>7 DEF TypeOK, States, ReadingStates, Errors
<1>9. Shape' /\ DepthBounded'
    <2> HIDE DEF frame
    <2> QED BY <1>1, <1>2, <1>3, <1>7 DEF Shape, ScopeStates, States, ReadingStates, DepthBounded
<1>10. FramesWritten'
    BY <1>1, <1>2 DEF FramesWritten
<1>11. ScopesOpened'
    BY <1>1, <1>2 DEF ScopesOpened, IsOpener
<1>12. OpenersAccounted'
    <2>1. CASE pc' = "Done" /\ result' = "InternalError"
        BY <2>1 DEF OpenersAccounted
    <2>2. CASE result' \in {"none", "Ok"}
        <3>1. SUFFICES ASSUME NEW p \in 1..i, doc[p] \in Openers PROVE Accounted(p)'
            BY <1>2 DEF OpenersAccounted
        <3>2. Accounted(p)
            BY <1>1, <3>1 DEF OpenersAccounted
        <3>3. CASE counts[p] # Uninit \/ p = last_start
            BY <1>1, <1>5, <1>6, <3>3 DEF Accounted
        <3>4. CASE \E d \in 1..depth - 1 : stack[d].last_start = p
            <4>1. PICK d \in 1..depth - 1 : stack[d].last_start = p
                BY <3>4
            <4>2. CASE d = depth - 1
                BY <1>1, <1>2, <4>1, <4>2 DEF Accounted
            <4>3. CASE d # depth - 1
                <5>1. d \in 1..depth' - 1 /\ stack'[d].last_start = p
                    BY <1>1, <1>2, <4>1, <4>3
                <5> QED BY <5>1 DEF Accounted
            <4> QED BY <4>2, <4>3
        <3> QED BY <3>2, <3>3, <3>4 DEF Accounted
    <2> QED BY <1>1, <1>7, <2>1, <2>2
<1> QED BY <1>8, <1>9, <1>10, <1>11, <1>12

\* Every step of validate keeps the invariant: the steps that open a scope by
\* ValueStep, the one that closes it by ScopeEndStep, the rest by QuietStep.
LEMMA NextInv == IInv /\ [Next]_vars => IInv'
PROOF
<1> SUFFICES ASSUME IInv, [Next]_vars PROVE IInv'
    OBVIOUS
<1>0. i \in 0..Len(doc) /\ Len(doc) \in Nat /\ cnt \in Nat /\ depth \in Nat
    BY DEF IInv, TypeOK
<1>1. CASE UNCHANGED vars
    BY <1>1 DEF vars, IInv, TypeOK, Shape, DepthBounded, FramesWritten,
                ScopesOpened, IsOpener, OpenersAccounted, Accounted
<1>2. CASE EndOfInput
    BY <1>0, <1>2, QuietStep DEF EndOfInput, Return, scope, States, ReadingStates, Errors
<1>3. CASE Start
    <2>1. i = 0 /\ depth = 0 /\ result = "none"
        BY <1>3 DEF Start, Read, IInv, Shape
    <2>2. 1 \in 1..Len(doc) /\ i' = 1 /\ Value("Start", 1, "RootEnd")
        BY <1>0, <1>3, <2>1 DEF Start, Read
    <2> QED BY <1>0, <1>3, <2>1, <2>2, ValueStep DEF Start, Read, StackStates
<1>4. CASE RootEnd
    BY <1>4, RootEndStep
<1>5. CASE ObjectBegin
    <2>1. /\ pc \in ReadingStates \ {"Start"} /\ depth >= 1
          /\ i' = i + 1 /\ i' \in i..Len(doc)
        <3>1. pc = "ObjectBegin" /\ i < Len(doc) /\ i' = i + 1
            BY <1>5, Zenon DEF ObjectBegin, Read
        <3> QED BY <1>0, <3>1 DEF IInv, Shape, ScopeStates, States, ReadingStates
    <2>2. /\ doc' = doc /\ depth' = depth /\ last_start' = last_start
          /\ stack' = stack /\ counts' = counts /\ cnt' \in Nat
        <3>1. /\ doc' = doc /\ depth' = depth /\ last_start' = last_start
              /\ stack' = stack /\ counts' = counts /\ (cnt' = 0 \/ cnt' = cnt)
            BY <1>5, Zenon DEF ObjectBegin, Empty, scope
        <3> QED BY <1>0, <3>1
    <2>3. \/ pc' = "Done" /\ result' \in Errors
          \/ /\ pc' \in ScopeStates /\ result' = result
             /\ doc[i + 1] \in Openers => pc' = "MainArraySwitch"
        BY <1>5 DEF ObjectBegin, Empty, next, Goto, Return, Quotes, Strings, Openers, Errors,
                    ScopeStates, States, ReadingStates
    <2> QED BY <2>1, <2>2, <2>3, QuietStep DEF States, ReadingStates
<1>6. CASE ObjectKey
    <2>1. /\ pc \in ReadingStates \ {"Start"} /\ depth >= 1
          /\ i' = i + 1 /\ i' \in i..Len(doc)
        BY <1>0, <1>6 DEF ObjectKey, Read, IInv, Shape, ScopeStates, States, ReadingStates
    <2>2. /\ doc' = doc /\ depth' = depth /\ last_start' = last_start
          /\ stack' = stack /\ counts' = counts /\ cnt' \in Nat
        BY <1>0, <1>6 DEF ObjectKey, Goto, Return, scope
    <2>3. \/ pc' = "Done" /\ result' \in Errors
          \/ /\ pc' \in ScopeStates /\ result' = result
             /\ doc[i + 1] \in Openers => pc' = "MainArraySwitch"
        BY <1>6 DEF ObjectKey, next, Goto, Return, Quotes, Strings, Openers, Errors,
                    ScopeStates, States, ReadingStates
    <2> QED BY <2>1, <2>2, <2>3, QuietStep DEF States, ReadingStates
<1>7. CASE ObjectValue
    <2>1. depth >= 1 /\ depth <= i /\ result = "none"
        BY <1>7 DEF ObjectValue, Read, IInv, Shape, DepthBounded, States, ReadingStates, ScopeStates
    <2>2. \A p \in 1..i : doc[p] \in Openers => Accounted(p)
        BY <1>7, <2>1 DEF ObjectValue, Read, IInv, OpenersAccounted
    <2>3. i + 1 \in 1..Len(doc)
        BY <1>0, <1>7 DEF ObjectValue, Read
    <2> QED BY <1>0, <1>7, <2>1, <2>2, <2>3, ValueStep DEF ObjectValue, Read, StackStates
<1>8. CASE ObjectContinue
    <2>1. /\ pc \in ReadingStates \ {"Start"} /\ depth >= 1
          /\ i' = i + 1 /\ i' \in i..Len(doc)
        <3>1. pc = "ObjectContinue" /\ i < Len(doc) /\ i' = i + 1
            BY <1>8, Zenon DEF ObjectContinue, Read
        <3> QED BY <1>0, <3>1 DEF IInv, Shape, ScopeStates, States, ReadingStates
    <2>2. /\ doc' = doc /\ depth' = depth /\ last_start' = last_start
          /\ stack' = stack /\ counts' = counts /\ cnt' \in Nat
        <3>1. /\ doc' = doc /\ depth' = depth /\ last_start' = last_start
              /\ stack' = stack /\ counts' = counts /\ (cnt' = cnt + 1 \/ cnt' = cnt)
            BY <1>8, Zenon DEF ObjectContinue, Continue, scope
        <3> QED BY <1>0, <3>1
    <2>3. \/ pc' = "Done" /\ result' \in Errors
          \/ /\ pc' \in ScopeStates /\ result' = result
             /\ doc[i + 1] \in Openers => pc' = "MainArraySwitch"
        BY <1>8 DEF ObjectContinue, Continue, next, Goto, Return, Quotes, Strings, Openers, Errors,
                    ScopeStates, States, ReadingStates
    <2> QED BY <2>1, <2>2, <2>3, QuietStep DEF States, ReadingStates
<1>9. CASE ObjectNextKey
    <2>1. /\ pc \in ReadingStates \ {"Start"} /\ depth >= 1
          /\ i' = i + 1 /\ i' \in i..Len(doc)
        BY <1>0, <1>9 DEF ObjectNextKey, Read, IInv, Shape, ScopeStates, States, ReadingStates
    <2>2. /\ doc' = doc /\ depth' = depth /\ last_start' = last_start
          /\ stack' = stack /\ counts' = counts /\ cnt' \in Nat
        BY <1>0, <1>9 DEF ObjectNextKey, Goto, Return, scope
    <2>3. \/ pc' = "Done" /\ result' \in Errors
          \/ /\ pc' \in ScopeStates /\ result' = result
             /\ doc[i + 1] \in Openers => pc' = "MainArraySwitch"
        BY <1>9 DEF ObjectNextKey, next, Goto, Return, Quotes, Strings, Openers, Errors,
                    ScopeStates, States, ReadingStates
    <2> QED BY <2>1, <2>2, <2>3, QuietStep DEF States, ReadingStates
<1>10. CASE ArrayBegin
    <2>1. /\ pc \in ReadingStates \ {"Start"} /\ depth >= 1
          /\ i' = i + 1 /\ i' \in i..Len(doc)
        <3>1. pc = "ArrayBegin" /\ i < Len(doc) /\ i' = i + 1
            BY <1>10, Zenon DEF ArrayBegin, Read
        <3> QED BY <1>0, <3>1 DEF IInv, Shape, ScopeStates, States, ReadingStates
    <2>2. /\ doc' = doc /\ depth' = depth /\ last_start' = last_start
          /\ stack' = stack /\ counts' = counts /\ cnt' \in Nat
        <3>1. /\ doc' = doc /\ depth' = depth /\ last_start' = last_start
              /\ stack' = stack /\ counts' = counts /\ (cnt' = 0 \/ cnt' = cnt)
            BY <1>10, Zenon DEF ArrayBegin, Empty, scope
        <3> QED BY <1>0, <3>1
    <2>3. \/ pc' = "Done" /\ result' \in Errors
          \/ /\ pc' \in ScopeStates /\ result' = result
             /\ doc[i + 1] \in Openers => pc' = "MainArraySwitch"
        BY <1>10 DEF ArrayBegin, Empty, next, Goto, Return, Quotes, Strings, Openers, Errors,
                    ScopeStates, States, ReadingStates
    <2> QED BY <2>1, <2>2, <2>3, QuietStep DEF States, ReadingStates
<1>11. CASE MainArraySwitch
    <2>1. depth >= 1 /\ depth < i /\ result = "none" /\ i \in 1..Len(doc)
        BY <1>0, <1>11 DEF MainArraySwitch, IInv, Shape, DepthBounded, States, ReadingStates, ScopeStates
    <2>2. \A p \in 1..i - 1 : doc[p] \in Openers => Accounted(p)
        BY <1>0, <1>11, <2>1 DEF MainArraySwitch, IInv, OpenersAccounted
    <2> QED BY <1>0, <1>11, <2>1, <2>2, ValueStep DEF MainArraySwitch, StackStates
<1>12. CASE ArrayContinue
    <2>1. /\ pc \in ReadingStates \ {"Start"} /\ depth >= 1
          /\ i' = i + 1 /\ i' \in i..Len(doc)
        <3>1. pc = "ArrayContinue" /\ i < Len(doc) /\ i' = i + 1
            BY <1>12, Zenon DEF ArrayContinue, Read
        <3> QED BY <1>0, <3>1 DEF IInv, Shape, ScopeStates, States, ReadingStates
    <2>2. /\ doc' = doc /\ depth' = depth /\ last_start' = last_start
          /\ stack' = stack /\ counts' = counts /\ cnt' \in Nat
        <3>1. /\ doc' = doc /\ depth' = depth /\ last_start' = last_start
              /\ stack' = stack /\ counts' = counts /\ (cnt' = cnt + 1 \/ cnt' = cnt)
            BY <1>12, Zenon DEF ArrayContinue, Continue, scope
        <3> QED BY <1>0, <3>1
    <2>3. \/ pc' = "Done" /\ result' \in Errors
          \/ /\ pc' \in ScopeStates /\ result' = result
             /\ doc[i + 1] \in Openers => pc' = "MainArraySwitch"
        BY <1>12 DEF ArrayContinue, Continue, next, Goto, Return, Quotes, Strings, Openers, Errors,
                    ScopeStates, States, ReadingStates
    <2> QED BY <2>1, <2>2, <2>3, QuietStep DEF States, ReadingStates
<1>13. CASE ArrayNext
    <2>1. /\ pc \in ReadingStates \ {"Start"} /\ depth >= 1
          /\ i' = i + 1 /\ i' \in i..Len(doc)
        BY <1>0, <1>13 DEF ArrayNext, Read, IInv, Shape, ScopeStates, States, ReadingStates
    <2>2. /\ doc' = doc /\ depth' = depth /\ last_start' = last_start
          /\ stack' = stack /\ counts' = counts /\ cnt' \in Nat
        BY <1>0, <1>13 DEF ArrayNext, Goto, Return, scope
    <2>3. \/ pc' = "Done" /\ result' \in Errors
          \/ /\ pc' \in ScopeStates /\ result' = result
             /\ doc[i + 1] \in Openers => pc' = "MainArraySwitch"
        BY <1>13 DEF ArrayNext, next, Goto, Return, Quotes, Strings, Openers, Errors,
                    ScopeStates, States, ReadingStates
    <2> QED BY <2>1, <2>2, <2>3, QuietStep DEF States, ReadingStates
<1>14. CASE ScopeEnd
    BY <1>14, ScopeEndStep
<1>15. CASE Returned
    BY <1>1, <1>15 DEF Returned
<1> QED
    BY <1>1, <1>2, <1>3, <1>4, <1>5, <1>6, <1>7, <1>8, <1>9, <1>10, <1>11,
       <1>12, <1>13, <1>14, <1>15 DEF Next, Step

\* The invariant holds in every state validate reaches.
LEMMA SpecInv == Spec => []IInv
PROOF
<1> QED BY InitInv, NextInv, PTL DEF Spec

---------------------------------------------------------------------------

(* What validate computes are the places of the document (see Grammar).    *)

\* The characters that have taken effect.
Processed == IF pc \in {"MainArraySwitch", "ScopeEnd"} THEN i - 1 ELSE i

ObjectStates == {"ObjectBegin", "ObjectKey", "ObjectValue", "ObjectContinue", "ObjectNextKey"}
ArrayStates  == {"ArrayBegin", "MainArraySwitch", "ArrayContinue", "ArrayNext"}

\* The automaton expects what the place says.
Expected ==
    /\ pc \in {"Start", "ObjectValue", "ArrayNext"} => Want(doc, i + 1) = "Value"
    /\ pc = "ObjectBegin" => Want(doc, i + 1) = "FirstKey"
    /\ pc = "ArrayBegin" => Want(doc, i + 1) = "FirstElement"
    /\ pc = "ObjectKey" => Want(doc, i + 1) = "Colon"
    /\ pc = "ObjectNextKey" => Want(doc, i + 1) = "Key"
    /\ pc \in {"RootEnd", "ObjectContinue", "ArrayContinue"} => Want(doc, i + 1) = "Behind"
    /\ pc = "MainArraySwitch" => Want(doc, i) \in Beginning
    /\ pc \in ObjectStates => doc[last_start] = Brace
    /\ pc \in ArrayStates => doc[last_start] # Brace
    /\ result = "Ok" => Want(doc, i + 1) = "Behind"

\* A scope ends at a bracket of its kind, where it may end.
Ending ==
    pc = "ScopeEnd" =>
        /\ Want(doc, i) \in First \union {"Behind"}
        /\ doc[i] = CloserFor(doc[last_start])
        /\ cnt = IF Want(doc, i) \in First THEN 0 ELSE Ordinal(doc, i)

\* The scope is that of the place.
Scoped ==
    /\ Sound(doc, Processed)
    /\ depth = Level(doc, Processed + 1)
    /\ depth >= 1 => last_start = Inside(doc, Processed + 1)
    /\ depth >= 1 /\ pc # "ScopeEnd" => cnt = Ordinal(doc, Processed + 1)

\* The bracket of the scope at depth e, and the frame it pushed.
OpenedAt(e) == IF e = depth THEN last_start ELSE stack[e].last_start

FrameOf(e, p) ==
    /\ p \in 1..Processed /\ doc[p] \in Openers /\ Level(doc, p) = e - 1
    /\ e >= 2 => /\ stack[e - 1].last_start = Inside(doc, p)
                 /\ stack[e - 1].cnt = Ordinal(doc, p)
                 /\ stack[e - 1].state = IF doc[Inside(doc, p)] = Brace THEN "Object" ELSE "Array"

FramesRight == \A e \in 1..depth : FrameOf(e, OpenedAt(e))

\* The counts of the scopes that have ended are written.
CountAt(k) == IF Want(doc, k) \in First THEN 0 ELSE Ordinal(doc, k)
CountsRight == \A k \in 1..Processed : doc[k] \in Closers => counts[Inside(doc, k)] = CountAt(k)

PlaceInv ==
    result \in {"none", "Ok"} => Expected /\ Ending /\ Scoped /\ FramesRight /\ CountsRight

LEMMA DocType == IInv => doc \in Seq(Char) /\ Len(doc) \in Nat
PROOF BY DEF IInv, TypeOK

LEMMA ProcessedType ==
    ASSUME IInv
    PROVE  /\ Processed \in 0..Len(doc) /\ Processed \in Nat
           /\ pc \in {"MainArraySwitch", "ScopeEnd"} => Processed + 1 = i
PROOF
<1>1. i \in 0..Len(doc) /\ Len(doc) \in Nat /\ depth \in Nat /\ depth <= i
    BY DEF IInv, TypeOK, DepthBounded
<1>2. pc \in {"MainArraySwitch", "ScopeEnd"} => depth >= 1
    BY DEF IInv, Shape, ScopeStates, States, ReadingStates
<1> QED BY <1>1, <1>2 DEF Processed

\* A character that neither opens a scope nor ends one.
LEMMA WithinStep ==
    ASSUME IInv, PlaceInv, result = "none",
           NEW k, k = Processed + 1, k \in 1..Len(doc), Processed' = k,
           doc' = doc, counts' = counts, stack' = stack, depth' = depth, last_start' = last_start,
           result' = "none", pc' # "ScopeEnd",
           Stays(doc, k) \/ Advances(doc, k),
           depth >= 1 => cnt' = Ordinal(doc, k + 1), Want(doc, k + 1) # "Stray",
           Expected'
    PROVE  PlaceInv'
PROOF
<1>1. doc \in Seq(Char) /\ Len(doc) \in Nat /\ k \in Nat /\ k - 1 \in Nat /\ Processed = k - 1
    BY DocType, ProcessedType
<1>2. Scoped /\ FramesRight /\ CountsRight
    BY DEF PlaceInv
<1>3. /\ \A m \in 1..k + 1 : m \in 1..k \/ m = k + 1
      /\ \A m \in 1..k : m \in 1..k - 1 \/ m = k
      /\ \A m \in 1..k - 1 : m \in 1..k
      /\ k - 1 + 1 = k
    BY <1>1
<1>4. Sound(doc, k)
    BY <1>1, <1>2, <1>3 DEF Scoped, Sound
<1>5. Level(doc, k + 1) = depth /\ (depth >= 1 => last_start = Inside(doc, k + 1))
    BY <1>1, <1>2, <1>3 DEF Scoped, Stays, Advances
<1>6. Scoped'
    BY <1>4, <1>5 DEF Scoped
<1>7. FramesRight'
    BY <1>1, <1>2, <1>3 DEF FramesRight, FrameOf, OpenedAt
<1>8. doc[k] \notin Closers
    BY DEF Stays, Advances, Closers, Comma, ScalarChars, Quotes, Strings, Numbers, Numerals, Atoms
<1>9. CountsRight'
    BY <1>1, <1>2, <1>3, <1>8 DEF CountsRight, CountAt
<1>10. Ending'
    BY DEF Ending
<1> QED BY <1>6, <1>7, <1>9, <1>10 DEF PlaceInv

\* A character that takes effect only with the next step.
LEMMA WaitStep ==
    ASSUME IInv, PlaceInv, result = "none", Processed' = Processed,
           doc' = doc, counts' = counts, stack' = stack, depth' = depth, last_start' = last_start,
           result' = "none",
           cnt' = cnt \/ pc' = "ScopeEnd", pc # "ScopeEnd", Expected', Ending'
    PROVE  PlaceInv'
PROOF
<1>1. Scoped /\ FramesRight /\ CountsRight
    BY DEF PlaceInv
<1>2. Scoped'
    BY <1>1 DEF Scoped
<1>3. FramesRight'
    BY <1>1 DEF FramesRight, FrameOf, OpenedAt
<1>4. CountsRight'
    BY <1>1 DEF CountsRight, CountAt
<1> QED BY <1>2, <1>3, <1>4 DEF PlaceInv

LEMMA OpenStep ==
    ASSUME IInv, PlaceInv, result = "none",
           NEW kind, NEW k, k = Processed + 1, k \in 1..Len(doc), i' = k,
           doc[k] \in Openers, Want(doc, k) \in Beginning, Open(kind, k),
           doc' = doc, counts' = counts,
           depth >= 1 => /\ cnt = Ordinal(doc, k)
                         /\ kind = IF doc[last_start] = Brace THEN "Object" ELSE "Array"
    PROVE  PlaceInv'
PROOF
<1> DEFINE frame == [state |-> kind, last_start |-> last_start, cnt |-> cnt]
<1>1. /\ doc \in Seq(Char) /\ Len(doc) \in Nat /\ k \in Nat /\ k - 1 \in Nat /\ Processed = k - 1
      /\ depth \in Nat /\ depth \in 0..Len(doc)
    <2>1. depth \in Nat /\ depth <= i /\ i \in 0..Len(doc)
        BY DEF IInv, TypeOK, DepthBounded
    <2> QED BY <2>1, DocType, ProcessedType
<1>2. Scoped /\ FramesRight /\ CountsRight
    BY DEF PlaceInv
<1>3. /\ \A m \in 1..k + 1 : m \in 1..k \/ m = k + 1
      /\ \A m \in 1..k : m \in 1..k - 1 \/ m = k
      /\ \A m \in 1..k - 1 : m \in 1..k
      /\ k - 1 + 1 = k
    BY <1>1
<1>4. /\ stack' = [stack EXCEPT ![depth] = frame]
      /\ depth' = depth + 1 /\ last_start' = k /\ cnt' = 1 /\ result' = "none"
    BY DEF Open, Goto
<1>14. pc' = IF doc[k] = Brace THEN "ObjectBegin" ELSE "ArrayBegin"
    BY DEF Open, Goto, Brace
<1>5. stack'[depth] = frame /\ \A e \in 0..depth - 1 : stack'[e] = stack[e]
    <2> HIDE DEF frame
    <2>1. stack \in [0..Len(doc) -> Frame \union {Uninit}]
        BY DEF IInv, TypeOK
    <2> QED BY <1>1, <1>4, <2>1
<1>6. Enters(doc, k)
    BY Moves, DocType
<1>7. Processed' = k
    <2>1. pc' \notin {"MainArraySwitch", "ScopeEnd"}
        BY <1>14
    <2> QED BY <2>1 DEF Processed
<1>8. /\ Want(doc, k + 1) = IF doc[k] = Brace THEN "FirstKey" ELSE "FirstElement"
      /\ Inside(doc, k + 1) = k /\ Ordinal(doc, k + 1) = 1 /\ Level(doc, k + 1) = Level(doc, k) + 1
    BY <1>6 DEF Enters
<1>9. Expected'
    <2>1. doc'[last_start'] = doc[k] /\ Want(doc', i' + 1) = Want(doc, k + 1)
        BY <1>4
    <2> QED BY <1>4, <1>8, <1>14, <2>1 DEF Expected, ObjectStates, ArrayStates
<1>10. Ending'
    BY <1>14 DEF Ending
<1>11. Scoped'
    <2>1. Want(doc, k + 1) # "Stray"
        BY <1>8
    <2>2. Sound(doc, k)
        BY <1>1, <1>2, <1>3, <2>1 DEF Scoped, Sound
    <2>3. Level(doc, k) = depth
        BY <1>1, <1>2, <1>3 DEF Scoped
    <2>4. pc' # "ScopeEnd"
        BY <1>14
    <2> QED BY <1>4, <1>7, <1>8, <2>2, <2>3, <2>4 DEF Scoped
<1>12. FramesRight'
    <2> SUFFICES ASSUME NEW e \in 1..depth + 1 PROVE FrameOf(e, OpenedAt(e))'
        BY <1>4 DEF FramesRight
    <2>0. e \in Nat /\ (e # depth + 1 => e \in 1..depth)
        BY <1>1
    <2>1. CASE e = depth + 1
        <3>1. OpenedAt(e)' = k
            BY <1>4, <2>1 DEF OpenedAt
        <3>2. Level(doc, k) = depth /\ (depth >= 1 => last_start = Inside(doc, k))
            BY <1>1, <1>2, <1>3 DEF Scoped
        <3>3. e - 1 = depth /\ (e >= 2 => depth >= 1) /\ k \in 1..k
            BY <1>1, <2>1
        <3>4. frame.last_start = last_start /\ frame.cnt = cnt /\ frame.state = kind
            OBVIOUS
        <3> HIDE DEF frame
        <3> QED BY <1>5, <1>7, <3>1, <3>2, <3>3, <3>4 DEF FrameOf
    <2>2. CASE e # depth + 1
        <3>1. FrameOf(e, OpenedAt(e))
            BY <1>2, <2>0, <2>2 DEF FramesRight
        <3>2. OpenedAt(e)' = OpenedAt(e)
            <4>1. CASE e = depth
                <5>1. stack'[e].last_start = last_start
                    BY <1>5, <4>1
                <5> QED BY <1>1, <1>4, <2>2, <4>1, <5>1 DEF OpenedAt
            <4>2. CASE e # depth
                <5>1. e \in 0..depth - 1
                    BY <1>1, <2>0, <2>2, <4>2
                <5>2. stack'[e] = stack[e]
                    BY <1>5, <5>1
                <5> QED BY <1>4, <2>2, <4>2, <5>2 DEF OpenedAt
            <4> QED BY <4>1, <4>2
        <3>3. e >= 2 => stack'[e - 1] = stack[e - 1]
            <4>1. e >= 2 => e - 1 \in 0..depth - 1
                BY <1>1, <2>0, <2>2
            <4> QED BY <1>5, <4>1
        <3> QED BY <1>1, <1>3, <1>7, <3>1, <3>2, <3>3 DEF FrameOf
    <2> QED BY <2>1, <2>2
<1>13. CountsRight'
    <2>1. doc[k] \notin Closers
        BY DEF Openers, Closers
    <2> QED BY <1>1, <1>2, <1>3, <1>7, <2>1 DEF CountsRight, CountAt
<1> QED BY <1>9, <1>10, <1>11, <1>12, <1>13 DEF PlaceInv

LEMMA EndStep == IInv /\ PlaceInv /\ ScopeEnd => PlaceInv'
PROOF
<1> SUFFICES ASSUME IInv, PlaceInv, ScopeEnd, result' \in {"none", "Ok"} PROVE PlaceInv'
    BY DEF PlaceInv
<1> DEFINE frame == stack[depth - 1]
           p == last_start
<1>1. /\ pc = "ScopeEnd" /\ result = "none" /\ depth >= 1 /\ depth \in Nat
      /\ doc \in Seq(Char) /\ Len(doc) \in Nat /\ i \in 0..Len(doc) /\ depth <= i
    BY DocType DEF ScopeEnd, IInv, TypeOK, DepthBounded, Shape, ScopeStates, States, ReadingStates
<1>2. Processed = i - 1 /\ Processed + 1 = i /\ i \in 1..Len(doc) /\ i - 1 \in 0..Len(doc) /\ i \in Nat
    BY <1>1 DEF Processed
<1>3. Ending /\ Scoped /\ FramesRight /\ CountsRight
    BY <1>1 DEF PlaceInv
<1>4. /\ doc' = doc /\ i' = i /\ stack' = stack /\ depth' = depth - 1
      /\ counts' = [counts EXCEPT ![p] = cnt]
      /\ last_start' = frame.last_start /\ cnt' = frame.cnt
      /\ AfterScope(frame.state)
    BY <1>1 DEF ScopeEnd
<1>5. frame \in Frame /\ (frame.state = "Start" <=> depth = 1)
    BY <1>1 DEF IInv, FramesWritten
<1>6. frame.state \in StackStates /\ frame.last_start \in Nat
    BY <1>5 DEF Frame
<1> HIDE DEF frame
<1>7. \/ pc' = "ObjectContinue" /\ result' = "none" /\ depth' >= 1 /\ frame.state = "Object"
      \/ pc' = "ArrayContinue" /\ result' = "none" /\ depth' >= 1 /\ frame.state = "Array"
      \/ pc' = "Done" /\ result' = "Ok" /\ depth' = 0
    BY <1>1, <1>4, <1>5, <1>6 DEF AfterScope, Goto, Return, StackStates
<1>8. Processed' = i
    BY <1>4, <1>7 DEF Processed
<1>9. p = Inside(doc, i) /\ p \in 1..i - 1 /\ doc[p] \in Openers /\ Level(doc, p) = depth - 1 /\ Level(doc, i) = depth
    <2>1. p = Inside(doc, i) /\ Level(doc, i) = depth
        BY <1>1, <1>2, <1>3 DEF Scoped
    <2>2. OpenedAt(depth) = p /\ depth \in 1..depth
        BY <1>1 DEF OpenedAt
    <2>3. FrameOf(depth, p)
        BY <1>3, <2>2 DEF FramesRight
    <2> QED BY <1>2, <2>1, <2>3 DEF FrameOf
<1>10. Leaves(doc, i)
    <2>1. /\ Want(doc, i) \in First \union {"Behind"} /\ Inside(doc, i) \in 1..i - 1
          /\ doc[i] = CloserFor(doc[Inside(doc, i)])
        BY <1>1, <1>3, <1>9 DEF Ending
    <2> QED BY <1>1, <1>2, <2>1, Moves
<1>11. /\ Want(doc, i + 1) = "Behind" /\ Level(doc, i + 1) = depth - 1
       /\ Inside(doc, i + 1) = Inside(doc, p) /\ Ordinal(doc, i + 1) = Ordinal(doc, p)
    BY <1>9, <1>10 DEF Leaves
<1>12. depth' >= 1 => /\ frame.last_start = Inside(doc, p) /\ frame.cnt = Ordinal(doc, p)
                      /\ frame.state = IF doc[Inside(doc, p)] = Brace THEN "Object" ELSE "Array"
    <2>1. OpenedAt(depth) = p /\ depth \in 1..depth /\ (depth' >= 1 => depth >= 2)
        BY <1>1, <1>4 DEF OpenedAt
    <2>2. FrameOf(depth, p)
        BY <1>3, <2>1 DEF FramesRight
    <2> QED BY <2>1, <2>2 DEF FrameOf, frame
<1>13. Expected'
    <2>1. Want(doc', i' + 1) = "Behind"
        BY <1>4, <1>11
    <2>2. depth' >= 1 => doc'[last_start'] = doc[Inside(doc, p)]
        BY <1>4, <1>12
    <2> QED BY <1>7, <1>12, <2>1, <2>2 DEF Expected, ObjectStates, ArrayStates
<1>14. Ending'
    BY <1>7 DEF Ending
<1>15. Scoped'
    <2>1. Sound(doc, i - 1) /\ \A m \in 1..i + 1 : m \in 1..i - 1 + 1 \/ m = i + 1
        BY <1>2, <1>3 DEF Scoped
    <2>2. Sound(doc, i)
        BY <1>11, <2>1 DEF Sound
    <2> QED BY <1>4, <1>8, <1>11, <1>12, <2>2 DEF Scoped
<1>16. FramesRight'
    <2> SUFFICES ASSUME NEW e \in 1..depth - 1 PROVE FrameOf(e, OpenedAt(e))'
        BY <1>4 DEF FramesRight
    <2>1. e \in 1..depth /\ e # depth /\ e \in Nat
        BY <1>1
    <2>2. FrameOf(e, OpenedAt(e))
        BY <1>3, <2>1 DEF FramesRight
    <2>3. OpenedAt(e)' = OpenedAt(e)
        <3>1. OpenedAt(e) = stack[e].last_start
            BY <2>1 DEF OpenedAt
        <3>2. e = depth - 1 => last_start' = stack[e].last_start
            BY <1>4 DEF frame
        <3> QED BY <1>4, <3>1, <3>2 DEF OpenedAt
    <2>4. \A m \in 1..i - 1 : m \in 1..i
        BY <1>2
    <2> QED BY <1>2, <1>4, <1>8, <2>2, <2>3, <2>4 DEF FrameOf
<1>17. CountsRight'
    <2> SUFFICES ASSUME NEW k \in 1..i, doc[k] \in Closers PROVE counts'[Inside(doc, k)] = CountAt(k)
        BY <1>4, <1>8 DEF CountsRight, CountAt
    <2>0. p \in DOMAIN counts
        BY <1>1, <1>2, <1>9 DEF IInv, TypeOK
    <2>1. CASE k = i
        <3>1. counts'[p] = cnt
            BY <1>4, <2>0
        <3>2. cnt = CountAt(i)
            BY <1>1, <1>3 DEF Ending, CountAt
        <3> QED BY <1>9, <2>1, <3>1, <3>2
    <2>2. CASE k # i
        <3>1. /\ k \in 1..i - 1 /\ k \in 1..Len(doc) /\ i \in k + 1..i - 1 + 1
              /\ k + 1 \in 1..i - 1 + 1
            BY <1>2, <2>2
        <3>2. counts[Inside(doc, k)] = CountAt(k)
            BY <1>2, <1>3, <3>1 DEF CountsRight
        <3>3. Sound(doc, i - 1)
            BY <1>2, <1>3 DEF Scoped
        <3>4. Leaves(doc, k)
            <4>1. Want(doc, k + 1) # "Stray"
                BY <3>1, <3>3 DEF Sound
            <4> QED BY <1>1, <3>1, <4>1, ByKind
        <3> DEFINE n == i - 1
        <3>5. n \in 0..Len(doc) /\ Sound(doc, n) /\ k \in 1..n /\ i \in k + 1..n + 1
            BY <1>2, <3>1, <3>3
        <3> HIDE DEF n
        <3>6. Inside(doc, i) # Inside(doc, k)
            BY <1>1, <3>4, <3>5, ClosedOnce
        <3> QED BY <1>4, <1>9, <3>2, <3>6 DEF IInv, TypeOK
    <2> QED BY <2>1, <2>2
<1> QED BY <1>13, <1>14, <1>15, <1>16, <1>17 DEF PlaceInv

LEMMA InitPlace == Init => PlaceInv
PROOF
<1> SUFFICES ASSUME Init PROVE PlaceInv
    OBVIOUS
<1>1. /\ pc = "Start" /\ i = 0 /\ depth = 0 /\ result = "none" /\ doc \in Seq(Char) /\ Len(doc) \in Nat
    BY DocumentsAssumption DEF Init
<1>2. Want(doc, 1) = "Value" /\ Level(doc, 1) = 0
    BY <1>1, FirstPlace
<1>3. Processed = 0
    BY <1>1 DEF Processed
<1>4. /\ \A m \in 1..0 + 1 : m = 1
      /\ \A m \in 1..0 : FALSE
    OBVIOUS
<1>5. Expected
    BY <1>1, <1>2 DEF Expected, ObjectStates, ArrayStates
<1>6. Ending
    BY <1>1 DEF Ending
<1>7. Scoped
    <2>1. Sound(doc, 0)
        BY <1>2, <1>4 DEF Sound
    <2> QED BY <1>1, <1>2, <1>3, <2>1 DEF Scoped
<1>8. FramesRight
    BY <1>1, <1>4 DEF FramesRight
<1>9. CountsRight
    BY <1>3, <1>4 DEF CountsRight
<1> QED BY <1>5, <1>6, <1>7, <1>8, <1>9 DEF PlaceInv

\* A character that starts a value, wherever it stands.
LEMMA ValuePlace ==
    ASSUME IInv, PlaceInv, result = "none",
           NEW kind, NEW k, k = Processed + 1, k \in 1..Len(doc), i' = k,
           NEW after, after \in {"RootEnd", "ObjectContinue", "ArrayContinue"},
           Value(kind, k, after), Want(doc, k) \in Beginning, doc' = doc, counts' = counts,
           depth >= 1 => /\ cnt = Ordinal(doc, k)
                         /\ kind = IF doc[last_start] = Brace THEN "Object" ELSE "Array",
           after = "ObjectContinue" => doc[last_start] = Brace,
           after = "ArrayContinue" => doc[last_start] # Brace
    PROVE  PlaceInv'
PROOF
<1>0. doc \in Seq(Char) /\ Len(doc) \in Nat
    BY DocType
<1>1. CASE doc[k] \in Openers /\ Open(kind, k)
    BY <1>1, OpenStep
<1>2. CASE doc[k] \in ScalarChars /\ Goto(after) /\ UNCHANGED scope
    <2>1. Stays(doc, k)
        BY <1>0, <1>2, Moves
    <2>2. /\ Want(doc, k + 1) = "Behind" /\ Ordinal(doc, k + 1) = Ordinal(doc, k)
        BY <2>1 DEF Stays, Beginning
    <2>3. /\ stack' = stack /\ depth' = depth /\ last_start' = last_start /\ cnt' = cnt
          /\ pc' = after /\ result' = "none"
        BY <1>2 DEF Goto, scope
    <2>4. Processed' = k
        BY <2>3 DEF Processed
    <2>5. Expected'
        BY <2>2, <2>3 DEF Expected, ObjectStates, ArrayStates
    <2>6. pc' # "ScopeEnd" /\ Want(doc, k + 1) # "Stray"
        BY <2>2, <2>3
    <2>7. depth >= 1 => cnt' = Ordinal(doc, k + 1)
        BY <2>2, <2>3
    <2> QED BY <2>1, <2>3, <2>4, <2>5, <2>6, <2>7, WithinStep
<1>3. CASE result' \in Errors
    BY <1>3 DEF PlaceInv, Errors
<1>4. doc[k] \in Quotes \union Numbers /\ Goto(after) /\ UNCHANGED scope
      => doc[k] \in ScalarChars /\ Goto(after) /\ UNCHANGED scope
    BY DEF ScalarChars
<1>5. ASSUME doc[k] \in Atoms \union BadAtoms, UNCHANGED scope,
             \E valid \in AtomAnswers(kind, k) : IF valid THEN Goto(after) ELSE Return("ExpectedAtom")
      PROVE  PlaceInv'
    <2>1. PICK valid \in AtomAnswers(kind, k) : IF valid THEN Goto(after) ELSE Return("ExpectedAtom")
        BY <1>5
    <2>2. CASE valid
        <3>1. doc[k] \in ScalarChars
            BY <1>5, <2>2 DEF AtomAnswers, BadAtoms, ScalarChars
        <3> QED BY <1>2, <1>5, <2>1, <2>2, <3>1
    <2>3. CASE ~valid
        BY <1>3, <2>1, <2>3 DEF Return, Errors
    <2> QED BY <2>2, <2>3
<1>6. CASE Return("InternalError")
    BY <1>3, <1>6 DEF Return, Errors
<1>7. \/ doc[k] \in Openers /\ Open(kind, k)
      \/ doc[k] \in Quotes \union Numbers /\ Goto(after) /\ UNCHANGED scope
      \/ /\ doc[k] \in Atoms \union BadAtoms /\ UNCHANGED scope
         /\ \E valid \in AtomAnswers(kind, k) : IF valid THEN Goto(after) ELSE Return("ExpectedAtom")
      \/ Return("InternalError")
    BY Zenon DEF Value
<1> QED BY <1>1, <1>2, <1>4, <1>5, <1>6, <1>7

\* An element read to its end, or a key: the characters between the elements.
LEMMA BetweenPlace ==
    ASSUME IInv, PlaceInv, result = "none", i < Len(doc), i' = i + 1,
           doc' = doc, counts' = counts, stack' = stack, depth' = depth, last_start' = last_start,
           depth >= 1, pc \in ReadingStates, result' = "none",
           \/ /\ pc = "ObjectBegin" /\ next \in Quotes /\ cnt' = cnt /\ pc' = "ObjectKey"
           \/ /\ pc = "ObjectKey" /\ next = ":" /\ cnt' = cnt /\ pc' = "ObjectValue"
           \/ /\ pc = "ObjectNextKey" /\ next \in Quotes /\ cnt' = cnt /\ pc' = "ObjectKey"
           \/ /\ pc = "ObjectContinue" /\ next = Comma /\ cnt' = cnt + 1 /\ pc' = "ObjectNextKey"
           \/ /\ pc = "ArrayContinue" /\ next = Comma /\ cnt' = cnt + 1 /\ pc' = "ArrayNext"
    PROVE  PlaceInv'
PROOF
<1> DEFINE k == i + 1
<1>1. doc \in Seq(Char) /\ Len(doc) \in Nat /\ i \in Nat /\ k \in 1..Len(doc) /\ k - 1 = i /\ depth \in Nat
    BY DocType DEF IInv, TypeOK
<1>2. Processed = i /\ next = doc[k]
    BY DEF Processed, next, ReadingStates
<1>3. Expected /\ Scoped /\ FramesRight
    BY DEF PlaceInv
<1>4. /\ last_start = Inside(doc, k) /\ cnt = Ordinal(doc, k)
      /\ Inside(doc, k) \in 1..k - 1
    <2>1. last_start = Inside(doc, k) /\ cnt = Ordinal(doc, k)
        BY <1>2, <1>3 DEF Scoped, ReadingStates
    <2>2. last_start \in 1..i
        BY DEF IInv, ScopesOpened, IsOpener
    <2> QED BY <1>1, <2>1, <2>2
<1>5. Processed' = k /\ pc' # "ScopeEnd" /\ result' # "Ok"
    BY DEF Processed
<1> HIDE DEF k
<1>6. /\ pc = "ObjectBegin" => Want(doc, k) = "FirstKey" /\ doc[last_start] = Brace
      /\ pc = "ObjectKey" => Want(doc, k) = "Colon" /\ doc[last_start] = Brace
      /\ pc = "ObjectNextKey" => Want(doc, k) = "Key" /\ doc[last_start] = Brace
      /\ pc = "ObjectContinue" => Want(doc, k) = "Behind" /\ doc[last_start] = Brace
      /\ pc = "ArrayContinue" => Want(doc, k) = "Behind" /\ doc[last_start] # Brace
    BY <1>3 DEF Expected, ObjectStates, ArrayStates, k
<1>7. CASE \/ pc = "ObjectBegin" /\ next \in Quotes /\ cnt' = cnt /\ pc' = "ObjectKey"
           \/ pc = "ObjectNextKey" /\ next \in Quotes /\ cnt' = cnt /\ pc' = "ObjectKey"
    <2>1. Stays(doc, k)
        BY <1>1, <1>2, <1>6, <1>7, Moves
    <2>2. Want(doc, k + 1) = "Colon" /\ Ordinal(doc, k + 1) = Ordinal(doc, k)
        BY <1>6, <1>7, <2>1 DEF Stays, Beginning
    <2>3. Expected'
        BY <1>5, <1>6, <1>7, <2>2 DEF Expected, ObjectStates, ArrayStates, k
    <2> QED BY <1>1, <1>2, <1>4, <1>5, <1>7, <2>1, <2>2, <2>3, WithinStep
<1>8. CASE pc = "ObjectKey" /\ next = ":" /\ cnt' = cnt /\ pc' = "ObjectValue"
    <2>1. Stays(doc, k)
        BY <1>1, <1>2, <1>6, <1>8, Moves
    <2>2. Want(doc, k + 1) = "Value" /\ Ordinal(doc, k + 1) = Ordinal(doc, k)
        BY <1>6, <1>8, <2>1 DEF Stays, Beginning
    <2>3. Expected'
        BY <1>5, <1>6, <1>8, <2>2 DEF Expected, ObjectStates, ArrayStates, k
    <2> QED BY <1>1, <1>2, <1>4, <1>5, <1>8, <2>1, <2>2, <2>3, WithinStep
<1>9. CASE \/ pc = "ObjectContinue" /\ next = Comma /\ cnt' = cnt + 1 /\ pc' = "ObjectNextKey"
           \/ pc = "ArrayContinue" /\ next = Comma /\ cnt' = cnt + 1 /\ pc' = "ArrayNext"
    <2>1. Advances(doc, k)
        BY <1>1, <1>2, <1>4, <1>6, <1>9, Moves
    <2>2. /\ Want(doc, k + 1) = IF doc[last_start] = Brace THEN "Key" ELSE "Value"
          /\ Ordinal(doc, k + 1) = Ordinal(doc, k) + 1
        BY <1>4, <2>1 DEF Advances
    <2>3. Expected'
        BY <1>5, <1>6, <1>9, <2>2 DEF Expected, ObjectStates, ArrayStates, k
    <2>4. cnt' = Ordinal(doc, k + 1) /\ Want(doc, k + 1) # "Stray"
        BY <1>4, <1>9, <2>2
    <2> QED BY <1>1, <1>2, <1>5, <2>1, <2>3, <2>4, WithinStep
<1> QED BY <1>7, <1>8, <1>9

\* The bracket that ends a scope, and the character that starts an element of
\* an array, wait for the next step.
LEMMA WaitPlace ==
    ASSUME IInv, PlaceInv, result = "none", i < Len(doc), i' = i + 1,
           doc' = doc, counts' = counts, stack' = stack, depth' = depth, last_start' = last_start,
           depth >= 1, pc \in ReadingStates, result' = "none",
           \/ /\ pc = "ObjectBegin" /\ next = CloserFor(Brace) /\ cnt' = 0 /\ pc' = "ScopeEnd"
           \/ /\ pc = "ArrayBegin" /\ next = CloserFor("[") /\ cnt' = 0 /\ pc' = "ScopeEnd"
           \/ /\ pc = "ArrayBegin" /\ cnt' = cnt /\ pc' = "MainArraySwitch"
           \/ /\ pc = "ArrayNext" /\ cnt' = cnt /\ pc' = "MainArraySwitch"
           \/ /\ pc = "ObjectContinue" /\ next = CloserFor(Brace) /\ cnt' = cnt /\ pc' = "ScopeEnd"
           \/ /\ pc = "ArrayContinue" /\ next = CloserFor("[") /\ cnt' = cnt /\ pc' = "ScopeEnd"
    PROVE  PlaceInv'
PROOF
<1> DEFINE k == i + 1
<1>1. doc \in Seq(Char) /\ Len(doc) \in Nat /\ i \in Nat /\ k \in 1..Len(doc) /\ k - 1 = i /\ depth \in Nat
    BY DocType DEF IInv, TypeOK
<1>2. Processed = i /\ next = doc[k] /\ Processed' = i
    BY <1>1 DEF Processed, next, ReadingStates
<1>3. Expected /\ Scoped
    BY DEF PlaceInv
<1>4. cnt = Ordinal(doc, k)
    BY <1>2, <1>3 DEF Scoped, ReadingStates
<1>5. i' = k
    OBVIOUS
<1> HIDE DEF k
<1>6. /\ pc = "ObjectBegin" => Want(doc, k) = "FirstKey" /\ doc[last_start] = Brace
      /\ pc = "ObjectContinue" => Want(doc, k) = "Behind" /\ doc[last_start] = Brace
      /\ pc = "ArrayBegin" => Want(doc, k) = "FirstElement" /\ doc[last_start] # Brace
      /\ pc = "ArrayContinue" => Want(doc, k) = "Behind" /\ doc[last_start] # Brace
      /\ pc = "ArrayNext" => Want(doc, k) = "Value" /\ doc[last_start] # Brace
    BY <1>3 DEF Expected, ObjectStates, ArrayStates, k
<1>7. CloserFor("[") = CloserFor(doc[last_start]) \/ doc[last_start] = Brace
    BY DEF CloserFor, Brace
<1>8. Ending'
    BY <1>2, <1>4, <1>5, <1>6, <1>7 DEF Ending, First
<1>9. Expected'
    BY <1>5, <1>6 DEF Expected, ObjectStates, ArrayStates, Beginning
<1>10. pc # "ScopeEnd" /\ (cnt' = cnt \/ pc' = "ScopeEnd")
    BY DEF ReadingStates
<1> QED BY <1>2, <1>8, <1>9, <1>10, WaitStep

\* A step that returns an error leaves nothing to show.
LEMMA ErrorPlace == result' \in Errors => PlaceInv'
PROOF BY DEF PlaceInv, Errors

\* Every step of validate computes the place of the next character.
LEMMA NextPlace == IInv /\ PlaceInv /\ [Next]_vars => PlaceInv'
PROOF
<1> SUFFICES ASSUME IInv, PlaceInv, [Next]_vars PROVE PlaceInv'
    OBVIOUS
<1>0. /\ doc \in Seq(Char) /\ Len(doc) \in Nat /\ i \in 0..Len(doc) /\ depth \in Nat
      /\ (pc # "Done" => result = "none") /\ (pc \in {"Start", "RootEnd"} => depth = 0)
      /\ (pc \in ScopeStates => depth >= 1) /\ (pc = "Start" => i = 0)
    BY DocType DEF IInv, TypeOK, Shape
<1>1. ASSUME UNCHANGED vars PROVE PlaceInv'
    BY <1>1 DEF vars, PlaceInv, Expected, Ending, Scoped, FramesRight, CountsRight, Processed,
                FrameOf, OpenedAt, CountAt
<1>2. CASE EndOfInput
    BY <1>2, ErrorPlace DEF EndOfInput, Return, Errors
<1>a. pc # "Done" => Expected /\ Scoped
    BY <1>0 DEF PlaceInv
<1>3. CASE Start
    <2>1. pc = "Start" /\ i < Len(doc) /\ i' = i + 1 /\ Value("Start", i + 1, "RootEnd") /\ doc' = doc /\ counts' = counts
        BY <1>3 DEF Start, Read
    <2>2. Processed = i /\ i + 1 \in 1..Len(doc) /\ ~(depth >= 1) /\ result = "none"
        BY <1>0, <2>1 DEF Processed
    <2>3. Want(doc, i + 1) \in Beginning
        BY <1>a, <2>1 DEF Expected, Beginning
    <2> DEFINE k == i + 1
    <2>4. k = Processed + 1 /\ k \in 1..Len(doc) /\ i' = k /\ Value("Start", k, "RootEnd") /\ Want(doc, k) \in Beginning
        BY <2>1, <2>2, <2>3
    <2> HIDE DEF k
    <2> QED BY <2>1, <2>2, <2>4, ValuePlace
<1>4. CASE RootEnd
    <2>1. /\ pc = "RootEnd" /\ doc' = doc /\ i' = i /\ scope' = scope /\ counts' = counts
          /\ pc' = "Done" /\ result' = IF i = Len(doc) THEN "Ok" ELSE "TrailingCharacters"
        BY <1>4 DEF RootEnd, Return
    <2>2. CASE i = Len(doc)
        <3>1. Processed = i /\ Processed' = i /\ ~(depth >= 1) /\ depth = 0 /\ result = "none"
            BY <1>0, <2>1 DEF Processed
        <3>2. Want(doc, i + 1) = "Behind"
            BY <1>a, <2>1 DEF Expected
        <3>3. Expected'
            BY <2>1, <3>2 DEF Expected, ObjectStates, ArrayStates
        <3>4. Ending'
            BY <2>1 DEF Ending
        <3>5. Scoped /\ FramesRight /\ CountsRight
            BY <3>1 DEF PlaceInv
        <3>6. depth' = depth /\ last_start' = last_start /\ stack' = stack /\ cnt' = cnt
            BY <2>1 DEF scope
        <3>7. Scoped'
            BY <2>1, <3>1, <3>5, <3>6 DEF Scoped
        <3>8. FramesRight' /\ CountsRight'
            BY <2>1, <3>1, <3>5, <3>6 DEF FramesRight, CountsRight, FrameOf, OpenedAt, CountAt
        <3> QED BY <3>3, <3>4, <3>7, <3>8 DEF PlaceInv
    <2>3. CASE i # Len(doc)
        BY <2>1, <2>3, ErrorPlace DEF Errors
    <2> QED BY <2>2, <2>3
<1>5. CASE ObjectBegin
    <2>1. /\ pc = "ObjectBegin" /\ i < Len(doc) /\ i' = i + 1 /\ doc' = doc /\ counts' = counts
          /\ pc \in ReadingStates /\ pc \in ScopeStates
        BY <1>5 DEF ObjectBegin, Read, ReadingStates, ScopeStates, States
    <2>2. \/ next \in Quotes /\ Goto("ObjectKey") /\ UNCHANGED scope
          \/ next = CloserFor(Brace) /\ Empty
          \/ Return("ExpectedObjectContent")
        BY <1>5 DEF ObjectBegin, CloserFor
    <2>3. CASE next \in Quotes /\ Goto("ObjectKey") /\ UNCHANGED scope
        BY <1>0, <2>1, <2>3, BetweenPlace DEF Goto, scope
    <2>4. CASE next = CloserFor(Brace) /\ Empty
        BY <1>0, <2>1, <2>4, WaitPlace DEF Goto, Empty
    <2>5. CASE Return("ExpectedObjectContent")
        BY <2>5, ErrorPlace DEF Return, Errors
    <2> QED BY <2>2, <2>3, <2>4, <2>5
<1>6. CASE ObjectKey
    <2>1. /\ pc = "ObjectKey" /\ i < Len(doc) /\ i' = i + 1 /\ doc' = doc /\ counts' = counts /\ UNCHANGED scope
          /\ pc \in ReadingStates /\ pc \in ScopeStates
        BY <1>6 DEF ObjectKey, Read, ReadingStates, ScopeStates, States
    <2>2. (next = ":" /\ Goto("ObjectValue")) \/ Return("ExpectedObjectColon")
        BY <1>6 DEF ObjectKey
    <2>3. CASE next = ":" /\ Goto("ObjectValue")
        BY <1>0, <2>1, <2>3, BetweenPlace DEF Goto, scope
    <2>4. CASE Return("ExpectedObjectColon")
        BY <2>4, ErrorPlace DEF Return, Errors
    <2> QED BY <2>2, <2>3, <2>4
<1>7. CASE ObjectValue
    <2>1. /\ pc = "ObjectValue" /\ i < Len(doc) /\ i' = i + 1 /\ doc' = doc /\ counts' = counts
          /\ Value("Object", i + 1, "ObjectContinue") /\ pc \in ReadingStates /\ pc \in ScopeStates
        BY <1>7 DEF ObjectValue, Read, ReadingStates, ScopeStates, States
    <2>2. Processed = i /\ i + 1 \in 1..Len(doc) /\ result = "none"
        BY <1>0, <2>1 DEF Processed
    <2>3. Want(doc, i + 1) \in Beginning /\ doc[last_start] = Brace /\ cnt = Ordinal(doc, i + 1)
        BY <1>0, <1>a, <2>1, <2>2 DEF Expected, Scoped, Beginning, ObjectStates
    <2> DEFINE k == i + 1
    <2>4. /\ k = Processed + 1 /\ k \in 1..Len(doc) /\ i' = k /\ Value("Object", k, "ObjectContinue")
          /\ Want(doc, k) \in Beginning /\ cnt = Ordinal(doc, k)
        BY <2>1, <2>2, <2>3
    <2> HIDE DEF k
    <2> QED BY <2>1, <2>2, <2>3, <2>4, ValuePlace
<1>8. CASE ObjectContinue
    <2>1. /\ pc = "ObjectContinue" /\ i < Len(doc) /\ i' = i + 1 /\ doc' = doc /\ counts' = counts
          /\ stack' = stack /\ depth' = depth /\ last_start' = last_start
          /\ pc \in ReadingStates /\ pc \in ScopeStates
        BY <1>8 DEF ObjectContinue, Continue, Read, ReadingStates, ScopeStates, States
    <2>2. \/ next = Comma /\ cnt' = cnt + 1 /\ Goto("ObjectNextKey")
          \/ next = CloserFor(Brace) /\ Goto("ScopeEnd") /\ UNCHANGED cnt
          \/ Return("ExpectedObjectContent")
        BY <1>8, Zenon DEF ObjectContinue, Continue, Comma, CloserFor
    <2>3. CASE next = Comma /\ cnt' = cnt + 1 /\ Goto("ObjectNextKey")
        BY <1>0, <2>1, <2>3, BetweenPlace DEF Goto
    <2>4. CASE next = CloserFor(Brace) /\ Goto("ScopeEnd") /\ UNCHANGED cnt
        BY <1>0, <2>1, <2>4, WaitPlace DEF Goto
    <2>5. CASE Return("ExpectedObjectContent")
        BY <2>5, ErrorPlace DEF Return, Errors
    <2> QED BY <2>2, <2>3, <2>4, <2>5
<1>9. CASE ObjectNextKey
    <2>1. /\ pc = "ObjectNextKey" /\ i < Len(doc) /\ i' = i + 1 /\ doc' = doc /\ counts' = counts /\ UNCHANGED scope
          /\ pc \in ReadingStates /\ pc \in ScopeStates
        BY <1>9 DEF ObjectNextKey, Read, ReadingStates, ScopeStates, States
    <2>2. (next \in Quotes /\ Goto("ObjectKey")) \/ Return("ExpectedObjectKey")
        BY <1>9 DEF ObjectNextKey
    <2>3. CASE next \in Quotes /\ Goto("ObjectKey")
        BY <1>0, <2>1, <2>3, BetweenPlace DEF Goto, scope
    <2>4. CASE Return("ExpectedObjectKey")
        BY <2>4, ErrorPlace DEF Return, Errors
    <2> QED BY <2>2, <2>3, <2>4
<1>10. CASE ArrayBegin
    <2>1. /\ pc = "ArrayBegin" /\ i < Len(doc) /\ i' = i + 1 /\ doc' = doc /\ counts' = counts
          /\ pc \in ReadingStates /\ pc \in ScopeStates
        BY <1>10 DEF ArrayBegin, Read, ReadingStates, ScopeStates, States
    <2>2. \/ next = CloserFor("[") /\ Empty
          \/ Goto("MainArraySwitch") /\ UNCHANGED scope
        BY <1>10, Zenon DEF ArrayBegin, CloserFor, Brace
    <2>3. CASE next = CloserFor("[") /\ Empty
        BY <1>0, <2>1, <2>3, WaitPlace DEF Goto, Empty
    <2>4. CASE Goto("MainArraySwitch") /\ UNCHANGED scope
        BY <1>0, <2>1, <2>4, WaitPlace DEF Goto, scope
    <2> QED BY <2>2, <2>3, <2>4
<1>11. CASE MainArraySwitch
    <2>1. /\ pc = "MainArraySwitch" /\ i' = i /\ doc' = doc /\ counts' = counts
          /\ Value("Array", i, "ArrayContinue") /\ pc \in ScopeStates
        BY <1>11 DEF MainArraySwitch, ReadingStates, ScopeStates, States
    <2>2. Processed + 1 = i /\ i \in 1..Len(doc) /\ result = "none"
        BY <1>0, <2>1, ProcessedType
    <2>3. Want(doc, i) \in Beginning /\ doc[last_start] # Brace /\ cnt = Ordinal(doc, i)
        BY <1>0, <1>a, <2>1, <2>2 DEF Expected, Scoped, Beginning, ArrayStates
    <2> QED BY <2>1, <2>2, <2>3, ValuePlace
<1>12. CASE ArrayContinue
    <2>1. /\ pc = "ArrayContinue" /\ i < Len(doc) /\ i' = i + 1 /\ doc' = doc /\ counts' = counts
          /\ stack' = stack /\ depth' = depth /\ last_start' = last_start
          /\ pc \in ReadingStates /\ pc \in ScopeStates
        BY <1>12 DEF ArrayContinue, Continue, Read, ReadingStates, ScopeStates, States
    <2>2. \/ next = Comma /\ cnt' = cnt + 1 /\ Goto("ArrayNext")
          \/ next = CloserFor("[") /\ Goto("ScopeEnd") /\ UNCHANGED cnt
          \/ Return("ExpectedArrayContent")
        BY <1>12, Zenon DEF ArrayContinue, Continue, Comma, CloserFor, Brace
    <2>3. CASE next = Comma /\ cnt' = cnt + 1 /\ Goto("ArrayNext")
        BY <1>0, <2>1, <2>3, BetweenPlace DEF Goto
    <2>4. CASE next = CloserFor("[") /\ Goto("ScopeEnd") /\ UNCHANGED cnt
        BY <1>0, <2>1, <2>4, WaitPlace DEF Goto
    <2>5. CASE Return("ExpectedArrayContent")
        BY <2>5, ErrorPlace DEF Return, Errors
    <2> QED BY <2>2, <2>3, <2>4, <2>5
<1>13. CASE ArrayNext
    <2>1. /\ pc = "ArrayNext" /\ i < Len(doc) /\ i' = i + 1 /\ doc' = doc /\ counts' = counts
          /\ UNCHANGED scope /\ Goto("MainArraySwitch")
          /\ pc \in ReadingStates /\ pc \in ScopeStates
        BY <1>13 DEF ArrayNext, Read, ReadingStates, ScopeStates, States
    <2> QED BY <1>0, <2>1, WaitPlace DEF Goto, scope
<1>14. CASE ScopeEnd
    BY <1>14, EndStep
<1>15. CASE Returned
    BY <1>1, <1>15 DEF Returned
<1> QED
    BY <1>1, <1>2, <1>3, <1>4, <1>5, <1>6, <1>7, <1>8, <1>9, <1>10, <1>11,
       <1>12, <1>13, <1>14, <1>15 DEF Next, Step

LEMMA SpecPlace == Spec => [](IInv /\ PlaceInv)
PROOF
<1>1. Init => IInv /\ PlaceInv
    BY InitInv, InitPlace
<1>2. IInv /\ PlaceInv /\ [Next]_vars => (IInv /\ PlaceInv)'
    BY NextInv, NextPlace
<1> QED BY <1>1, <1>2, PTL DEF Spec

\* What the walk over an accepted document can rely on.
AcceptedRight(d, c) ==
    /\ Sound(d, Len(d)) /\ Want(d, Len(d) + 1) = "Behind" /\ Level(d, Len(d) + 1) = 0
    /\ \A k \in 1..Len(d) :
          d[k] \in Closers => c[Inside(d, k)] = IF Want(d, k) \in First THEN 0 ELSE Ordinal(d, k)

LEMMA AcceptedIs ==
    ASSUME IInv, PlaceInv, result = "Ok"
    PROVE  AcceptedRight(doc, counts)
PROOF
<1>1. pc = "Done" /\ depth = 0 /\ i = Len(doc) /\ Processed = i
    BY DEF IInv, Shape, Processed
<1>2. Expected /\ Scoped /\ CountsRight
    BY DEF PlaceInv
<1>3. Sound(doc, Len(doc)) /\ Level(doc, Len(doc) + 1) = 0 /\ Want(doc, Len(doc) + 1) = "Behind"
    BY <1>1, <1>2 DEF Scoped, Expected
<1>4. \A k \in 1..Len(doc) : doc[k] \in Closers => counts[Inside(doc, k)] = CountAt(k)
    BY <1>1, <1>2 DEF CountsRight
<1> QED BY <1>3, <1>4 DEF AcceptedRight, CountAt

---------------------------------------------------------------------------

\* The variables of validate keep their types for every set of documents: in
\* every state depth is an index of stack and last_start one of counts,
\* although the code compares neither with the length of the vectors.
THEOREM TypeCorrect == Spec => []TypeOK
PROOF
<1>1. IInv => TypeOK
    BY DEF IInv
<1> QED BY <1>1, SpecInv, PTL

\* For every document, the frames validate reads were written, and its
\* unchecked indexes are inside the vectors.
THEOREM UncheckedAccesses == Spec => []UncheckedAccessesGood
PROOF
<1>1. IInv => UncheckedAccessesGood
    BY DEF IInv, UncheckedAccessesGood, TypeOK, Shape, ScopeStates, States, ReadingStates,
           DepthBounded, FramesWritten, ScopesOpened, IsOpener
<1> QED BY <1>1, SpecInv, PTL

\* validate returns no uninitialised count to the second pass, whatever the
\* document it accepts.
THEOREM CountsWritten == Spec => []CountsInitialised
PROOF
<1>1. IInv => CountsInitialised
    BY DEF IInv, CountsInitialised, TypeOK, Shape, OpenersAccounted, Accounted
<1> QED BY <1>1, SpecInv, PTL
\* For every document validate accepts, the count it leaves for a bracket is
\* the number of elements the JSON text has between the bracket and its
\* closing one, counted with no stack at all.
THEOREM CountsMatch == Spec => []CountsMatchElements
PROOF
<1>1. IInv /\ PlaceInv => CountsMatchElements
    <2> SUFFICES ASSUME IInv, PlaceInv, result = "Ok", NEW p \in 1..Len(doc), doc[p] \in Openers
                 PROVE  counts[p] = ElementCount(doc, p)
        BY DEF CountsMatchElements
    <2> DEFINE n == Len(doc)
    <2>1. doc \in Seq(Char) /\ n \in Nat /\ n \in 0..Len(doc) /\ p \in 1..n /\ p \in 1..n + 1
        BY DocType
    <2>2. AcceptedRight(doc, counts)
        BY AcceptedIs
    <2>3. Sound(doc, n) /\ Level(doc, n + 1) = 0
        BY <2>2 DEF AcceptedRight
    <2>4. Level(doc, n + 1) <= Level(doc, p)
        <3> HIDE DEF n
        <3>1. Placed(doc, p)
            BY <2>1, <2>3, AllPlaced
        <3>2. Level(doc, p) \in Nat
            BY <3>1 DEF Placed, PlacedIn
        <3> QED BY <2>3, <3>2
    <2> HIDE DEF n
    <2>5. PICK q \in p + 1..n : /\ Leaves(doc, q) /\ Inside(doc, q) = p
                                /\ \A m \in p + 1..q : Level(doc, m) > Level(doc, p)
        BY <2>1, <2>3, <2>4, Closed
    <2>6. q \in 1..n /\ doc[q] \in Closers
        <3>1. q \in 1..n
            BY <2>1
        <3> QED BY <2>5, <3>1 DEF Leaves
    <2>7. counts[p] = IF Want(doc, q) \in First THEN 0 ELSE Ordinal(doc, q)
        BY <2>2, <2>5, <2>6 DEF AcceptedRight, n
    <2>8. ElementCount(doc, p) = IF Want(doc, q) \in First THEN 0 ELSE Ordinal(doc, q)
        BY <2>1, <2>3, <2>5, CountIs DEF n
    <2> QED BY <2>7, <2>8
<1> QED BY <1>1, SpecPlace, PTL

---------------------------------------------------------------------------
(* The errors of validate, by what the places say of the character.        *)

\* At the end of the input something is still expected, or still open.
LEMMA CutShort ==
    ASSUME NEW d \in Seq(Char), Want(d, Len(d) + 1) # "Behind" \/ Level(d, Len(d) + 1) # 0
    PROVE  ~WellPlaced(d)
PROOF
<1> SUFFICES ASSUME WellPlaced(d) PROVE FALSE
    OBVIOUS
<1>1. Want(d, Len(d) + 1) = "Behind" /\ Inside(d, Len(d) + 1) = 0 /\ Sound(d, Len(d))
    BY DEF WellPlaced
<1>2. Placed(d, Len(d) + 1)
    <2> DEFINE n == Len(d)
    <2>1. n \in 0..Len(d) /\ n + 1 \in 1..n + 1 /\ Sound(d, n)
        BY <1>1
    <2> HIDE DEF n
    <2>2. Placed(d, n + 1)
        BY <2>1, AllPlaced
    <2> QED BY <2>2 DEF n
<1>3. Level(d, Len(d) + 1) = 0
    BY <1>1, <1>2 DEF Placed, PlacedIn
<1> QED BY <1>1, <1>3

\* Behind the value of the document there is another character.
LEMMA Trailing ==
    ASSUME NEW d \in Seq(Char), NEW k \in 1..Len(d), Want(d, k) = "Behind", Level(d, k) = 0
    PROVE  ~WellPlaced(d)
PROOF
<1> SUFFICES ASSUME WellPlaced(d) PROVE FALSE
    OBVIOUS
<1> DEFINE n == Len(d)
<1>1. Sound(d, n) /\ n \in 0..Len(d) /\ k \in 1..n + 1 /\ k # n + 1
    BY DEF WellPlaced
<1>2. \A r \in 1..n + 1 : Placed(d, r)
    <2> HIDE DEF n
    <2> QED BY <1>1, AllPlaced
<1>3. Level(d, k) \in Nat /\ Inside(d, k) \in 0..k - 1
      /\ (Inside(d, k) # 0 => Level(d, k) = Level(d, Inside(d, k)) + 1)
    BY <1>1, <1>2 DEF Placed, PlacedIn
<1>4. Inside(d, k) = 0
    <2>1. CASE Inside(d, k) # 0
        <3>1. Inside(d, k) \in 1..n + 1
            BY <1>3, <2>1
        <3>2. Level(d, Inside(d, k)) \in Nat
            BY <1>2, <3>1 DEF Placed, PlacedIn
        <3> QED BY <1>3, <2>1, <3>2
    <2> QED BY <2>1
<1> QED BY <1>1, <1>4, RootBehind

\* A character that does nothing that is expected where it stands.
LEMMA Unexpected ==
    ASSUME NEW d \in Seq(Char), NEW k \in 1..Len(d), WellPlaced(d)
    PROVE  \/ Want(d, k) \in Beginning /\ d[k] \in Openers
           \/ Want(d, k) \in Beginning /\ d[k] \in Quotes \union Numbers \union Atoms
           \/ Want(d, k) \in {"FirstKey", "Key"} /\ d[k] \in Quotes
           \/ Want(d, k) = "Colon" /\ d[k] = Colon
           \/ Want(d, k) = "Behind" /\ d[k] = Comma
           \/ Want(d, k) \in First \union {"Behind"} /\ d[k] = CloserFor(d[Inside(d, k)])
PROOF
<1>1. Sound(d, Len(d)) /\ d[k] # CutAtom
    BY DEF WellPlaced, Uncut
<1>2. Enters(d, k) \/ Stays(d, k) \/ Advances(d, k) \/ Leaves(d, k)
    BY <1>1, MovesOn
<1>3. d[k] \in ScalarChars => d[k] \in Quotes \union Numbers \union Atoms
    BY <1>1, Classes
<1>4. Stays(d, k) => \/ Want(d, k) \in Beginning /\ d[k] \in ScalarChars
                     \/ Want(d, k) \in {"FirstKey", "Key"} /\ d[k] \in Quotes
                     \/ Want(d, k) = "Colon" /\ d[k] = Colon
    BY Zenon DEF Stays, Colon
<1> QED BY <1>2, <1>3, <1>4, Zenon DEF Enters, Advances, Leaves

StartsNoValue == BadAtoms \union Closers \union {Colon, Comma, "other"}

LEMMA NoValue ==
    ASSUME NEW d \in Seq(Char), NEW k \in 1..Len(d), Want(d, k) \in Beginning, d[k] \in StartsNoValue,
           Want(d, k) = "FirstElement" => d[k] # Closing /\ d[Inside(d, k)] # Brace
    PROVE  ~WellPlaced(d)
PROOF
<1> SUFFICES ASSUME WellPlaced(d) PROVE FALSE
    OBVIOUS
<1>1. d[k] \notin Openers /\ d[k] \notin Quotes \union Numbers \union Atoms
    BY Zenon DEF StartsNoValue, BadAtoms, Closers, Colon, Comma, Openers, Quotes, Strings, Numbers, Numerals, Atoms
<1>2. Want(d, k) \notin {"FirstKey", "Key"} /\ Want(d, k) # "Colon" /\ Want(d, k) # "Behind"
      /\ (Want(d, k) \in First \union {"Behind"} => Want(d, k) = "FirstElement")
    BY Zenon DEF Beginning, First
<1>3. Want(d, k) = "FirstElement" => d[k] # CloserFor(d[Inside(d, k)])
    BY DEF CloserFor, Closing
<1> QED BY <1>1, <1>2, <1>3, Unexpected

---------------------------------------------------------------------------
(* The verdict of validate.                                                *)

VerdictInv ==
    /\ doc \in Documents
    /\ pc = "MainArraySwitch" /\ Want(doc, i) = "FirstElement" => doc[i] # Closing
    /\ pc = "RootEnd" => doc[i] # CutAtom
    /\ pc = "Done" => result # "none"
    /\ result = "Ok" => Uncut(doc)
    /\ result \in Errors => ~WellPlaced(doc)

LEMMA ErrorVerdict ==
    ASSUME VerdictInv, doc' = doc, pc' = "Done", result' \in Errors, ~WellPlaced(doc)
    PROVE  VerdictInv'
PROOF
<1>1. result' # "none" /\ result' # "Ok"
    BY DEF Errors
<1> QED BY <1>1 DEF VerdictInv

LEMMA QuietVerdict ==
    ASSUME VerdictInv, doc' = doc, result' = "none", pc' \notin {"MainArraySwitch", "RootEnd", "Done"}
    PROVE  VerdictInv'
PROOF BY DEF VerdictInv, Errors

LEMMA ValueVerdict ==
    ASSUME IInv, VerdictInv, result = "none", NEW kind, NEW k \in 1..Len(doc), i' = k, doc' = doc,
           NEW after \in {"RootEnd", "ObjectContinue", "ArrayContinue"},
           after = "RootEnd" => kind = "Start",
           Value(kind, k, after), Want(doc, k) \in Beginning,
           Want(doc, k) = "FirstElement" => doc[k] # Closing /\ doc[Inside(doc, k)] # Brace
    PROVE  VerdictInv'
PROOF
<1>1. doc \in Seq(Char)
    BY DocType
<1>2. CASE Open(kind, k)
    <2>1. pc' \in {"ObjectBegin", "ArrayBegin"} /\ result' = "none"
        BY <1>2 DEF Open, Goto
    <2> QED BY <2>1, QuietVerdict
<1>3. ASSUME Goto(after), after = "RootEnd" => doc[k] # CutAtom PROVE VerdictInv'
    BY <1>3 DEF VerdictInv, Goto, Errors
<1>4. ASSUME doc[k] \in StartsNoValue, NEW r \in {"ExpectedAtom", "InternalError"}, Return(r) PROVE VerdictInv'
    <2>1. ~WellPlaced(doc)
        BY <1>1, <1>4, NoValue
    <2>2. r \in Errors
        BY DEF Errors
    <2> QED BY <1>4, <2>1, <2>2, ErrorVerdict DEF Return
<1>5. CASE doc[k] \in Quotes \union Numbers /\ Goto(after)
    <2>1. doc[k] # CutAtom
        BY <1>5, Classes
    <2> QED BY <1>3, <1>5, <2>1
<1>6. ASSUME doc[k] \in Atoms \union BadAtoms, NEW valid \in AtomAnswers(kind, k),
             IF valid THEN Goto(after) ELSE Return("ExpectedAtom")
      PROVE  VerdictInv'
    <2>1. CutAtom \notin Atoms
        BY Zenon DEF CutAtom, Atoms
    <2>2. (doc[k] = CutAtom /\ kind # "Start") \/ valid = (doc[k] \in Atoms)
        BY <1>6 DEF AtomAnswers, CutAtom
    <2>3. CASE valid
        <3>1. after = "RootEnd" => doc[k] # CutAtom
            BY <2>1, <2>2, <2>3
        <3> QED BY <1>3, <1>6, <2>3, <3>1
    <2>4. CASE ~valid
        <3>1. doc[k] \in BadAtoms
            BY <1>6, <2>2, <2>4 DEF BadAtoms, CutAtom
        <3>2. doc[k] \in StartsNoValue
            BY <3>1 DEF StartsNoValue
        <3> QED BY <1>4, <1>6, <2>4, <3>2
    <2> QED BY <2>3, <2>4
<1>7. CASE doc[k] \in Closers \union {":", ",", "other"} /\ Return("InternalError")
    <2>1. doc[k] \in StartsNoValue
        BY <1>7, Zenon DEF StartsNoValue, Colon, Comma
    <2> QED BY <1>4, <1>7, <2>1
<1>8. \/ Open(kind, k)
      \/ doc[k] \in Quotes \union Numbers /\ Goto(after)
      \/ /\ doc[k] \in Atoms \union BadAtoms
         /\ \E valid \in AtomAnswers(kind, k) : IF valid THEN Goto(after) ELSE Return("ExpectedAtom")
      \/ doc[k] \in Closers \union {":", ",", "other"} /\ Return("InternalError")
    BY Zenon DEF Value
<1> QED BY <1>2, <1>5, <1>6, <1>7, <1>8

LEMMA InitVerdict == Init => VerdictInv
PROOF BY DEF Init, VerdictInv, Errors

\* At the end of the input the automaton was still expecting something.
LEMMA EndVerdict == IInv /\ PlaceInv /\ VerdictInv /\ EndOfInput => VerdictInv'
PROOF
<1> SUFFICES ASSUME IInv, PlaceInv, VerdictInv, EndOfInput PROVE VerdictInv'
    OBVIOUS
<1>1. pc \in ReadingStates /\ i = Len(doc) /\ pc' = "Done" /\ result' = "Syntax" /\ doc' = doc
    BY DEF EndOfInput, Return
<1>2. doc \in Seq(Char) /\ result = "none" /\ Processed = i /\ depth \in Nat
      /\ (pc \in ScopeStates => depth >= 1)
    BY <1>1, DocType DEF IInv, Shape, TypeOK, Processed, ReadingStates
<1>3. Expected /\ Scoped
    BY <1>2 DEF PlaceInv
<1>4. Want(doc, Len(doc) + 1) # "Behind" \/ Level(doc, Len(doc) + 1) # 0
    <2>1. CASE pc \in {"ObjectContinue", "ArrayContinue"}
        <3>1. depth = Level(doc, Len(doc) + 1) /\ depth >= 1
            BY <1>1, <1>2, <1>3, <2>1 DEF Scoped, ScopeStates, States
        <3> QED BY <1>2, <3>1
    <2>2. CASE pc \notin {"ObjectContinue", "ArrayContinue"}
        BY <1>1, <1>3, <2>2 DEF Expected, ReadingStates
    <2> QED BY <2>1, <2>2
<1>5. ~WellPlaced(doc)
    BY <1>2, <1>4, CutShort
<1> QED BY <1>1, <1>5, ErrorVerdict DEF Errors

LEMMA RootVerdict == IInv /\ PlaceInv /\ VerdictInv /\ RootEnd => VerdictInv'
PROOF
<1> SUFFICES ASSUME IInv, PlaceInv, VerdictInv, RootEnd PROVE VerdictInv'
    OBVIOUS
<1>1. /\ pc = "RootEnd" /\ pc' = "Done" /\ doc' = doc
      /\ result' = IF i = Len(doc) THEN "Ok" ELSE "TrailingCharacters"
    BY DEF RootEnd, Return
<1>2. doc \in Seq(Char) /\ result = "none" /\ Processed = i /\ depth = 0 /\ i \in 0..Len(doc) /\ Len(doc) \in Nat
    BY <1>1, DocType DEF IInv, Shape, TypeOK, Processed
<1>3. Expected /\ Scoped
    BY <1>2 DEF PlaceInv
<1>4. CASE i = Len(doc)
    <2>1. Uncut(doc)
        <3>1. \A k \in 1..Len(doc) : k \in 1..Len(doc) - 1 \/ k = i
            BY <1>2, <1>4
        <3>2. \A k \in 1..Len(doc) - 1 : doc[k] # CutAtom
            BY DocumentsAssumption DEF VerdictInv, CutAtom
        <3>3. doc[i] # CutAtom
            BY <1>1 DEF VerdictInv
        <3> QED BY <3>1, <3>2, <3>3 DEF Uncut
    <2> QED BY <1>1, <1>4, <2>1 DEF VerdictInv, Errors
<1>5. CASE i # Len(doc)
    <2> DEFINE k == i + 1
    <2>1. k \in 1..Len(doc)
        BY <1>2, <1>5
    <2>2. Want(doc, k) = "Behind" /\ Level(doc, k) = 0
        BY <1>1, <1>2, <1>3 DEF Expected, Scoped
    <2> HIDE DEF k
    <2>3. ~WellPlaced(doc)
        BY <1>2, <2>1, <2>2, Trailing
    <2> QED BY <1>1, <1>5, <2>3, ErrorVerdict DEF Errors
<1> QED BY <1>4, <1>5

LEMMA ScopeVerdict == IInv /\ PlaceInv /\ VerdictInv /\ ScopeEnd => VerdictInv'
PROOF
<1> SUFFICES ASSUME IInv, PlaceInv, VerdictInv, ScopeEnd PROVE VerdictInv'
    OBVIOUS
<1> DEFINE frame == stack[depth - 1]
           p == last_start
<1>1. /\ pc = "ScopeEnd" /\ result = "none" /\ depth >= 1 /\ depth \in Nat
      /\ doc \in Seq(Char) /\ Len(doc) \in Nat /\ i \in 0..Len(doc) /\ depth <= i /\ doc' = doc
    BY DocType DEF ScopeEnd, IInv, TypeOK, DepthBounded, Shape, ScopeStates, States, ReadingStates
<1>2. Processed = i - 1 /\ Processed + 1 = i /\ i \in 1..Len(doc) /\ i \in Nat
    BY <1>1 DEF Processed
<1>3. Ending /\ Scoped /\ FramesRight
    BY <1>1 DEF PlaceInv
<1>4. AfterScope(frame.state)
    BY <1>1 DEF ScopeEnd
<1>5. frame \in Frame /\ (frame.state = "Start" <=> depth = 1)
    BY <1>1 DEF IInv, FramesWritten
<1>6. frame.state \in StackStates
    BY <1>5 DEF Frame
<1> HIDE DEF frame
<1>7. \/ pc' \in {"ObjectContinue", "ArrayContinue"} /\ result' = "none"
      \/ /\ pc' = "Done" /\ depth = 1
         /\ result' = IF i = Len(doc) THEN "Ok" ELSE "InternalError"
    BY <1>1, <1>4, <1>5, <1>6 DEF AfterScope, Goto, Return, StackStates
<1>8. CASE pc' \in {"ObjectContinue", "ArrayContinue"} /\ result' = "none"
    BY <1>1, <1>8, QuietVerdict
<1>9. p = Inside(doc, i) /\ p \in 1..i - 1 /\ Level(doc, p) = depth - 1 /\ Level(doc, i) = depth
    <2>1. p = Inside(doc, i) /\ Level(doc, i) = depth
        BY <1>1, <1>2, <1>3 DEF Scoped
    <2>2. OpenedAt(depth) = p /\ depth \in 1..depth
        BY <1>1 DEF OpenedAt
    <2>3. FrameOf(depth, p)
        BY <1>3, <2>2 DEF FramesRight
    <2> QED BY <1>2, <2>1, <2>3 DEF FrameOf
<1>10. Leaves(doc, i)
    <2>1. /\ Want(doc, i) \in First \union {"Behind"} /\ Inside(doc, i) \in 1..i - 1
          /\ doc[i] = CloserFor(doc[Inside(doc, i)])
        BY <1>1, <1>3, <1>9 DEF Ending
    <2> QED BY <1>1, <1>2, <2>1, Moves
<1>11. CASE /\ pc' = "Done" /\ depth = 1 /\ i = Len(doc) /\ result' = "Ok"
    <2>1. \A k \in 1..Len(doc) : k \in 1..Len(doc) - 1 \/ k = i
        BY <1>1, <1>11
    <2>2. \A k \in 1..Len(doc) - 1 : doc[k] # CutAtom
        BY DocumentsAssumption DEF VerdictInv, CutAtom
    <2>3. doc[i] # CutAtom
        BY <1>10, Classes DEF Leaves
    <2>4. Uncut(doc)
        BY <2>1, <2>2, <2>3 DEF Uncut
    <2> QED BY <1>1, <1>11, <2>4 DEF VerdictInv, Errors
<1>12. CASE /\ pc' = "Done" /\ depth = 1 /\ i # Len(doc) /\ result' = "InternalError"
    <2> DEFINE k == i + 1
    <2>1. k \in 1..Len(doc)
        BY <1>1, <1>12
    <2>2. Want(doc, k) = "Behind" /\ Level(doc, k) = 0
        BY <1>9, <1>10, <1>12 DEF Leaves
    <2> HIDE DEF k
    <2>3. ~WellPlaced(doc)
        BY <1>1, <2>1, <2>2, Trailing
    <2> QED BY <1>1, <1>12, <2>3, ErrorVerdict DEF Errors
<1> QED BY <1>7, <1>8, <1>11, <1>12

\* A character inside a scope that is not expected is an error of the grammar.
LEMMA WithinVerdict ==
    ASSUME IInv, PlaceInv, VerdictInv, i < Len(doc), doc' = doc, pc' = "Done", result' \in Errors,
           \/ pc = "ObjectBegin" /\ next \notin Quotes \union {Unbrace}
           \/ pc = "ObjectKey" /\ next # Colon
           \/ pc = "ObjectNextKey" /\ next \notin Quotes
           \/ pc = "ObjectContinue" /\ next \notin {Comma, Unbrace}
           \/ pc = "ArrayContinue" /\ next \notin {Comma, Closing}
    PROVE  VerdictInv'
PROOF
<1> DEFINE k == i + 1
           c == doc[Inside(doc, k)]
<1>1. /\ doc \in Seq(Char) /\ k \in 1..Len(doc) /\ Processed = i /\ result = "none" /\ depth >= 1
      /\ next = doc[k]
    BY DocType DEF IInv, TypeOK, Shape, Processed, ScopeStates, States, ReadingStates, next
<1>2. Expected /\ Scoped
    BY <1>1 DEF PlaceInv
<1>3. last_start = Inside(doc, k)
    BY <1>1, <1>2 DEF Scoped
<1>4. /\ pc = "ObjectBegin" => Want(doc, k) = "FirstKey" /\ c = Brace
      /\ pc = "ObjectKey" => Want(doc, k) = "Colon"
      /\ pc = "ObjectNextKey" => Want(doc, k) = "Key"
      /\ pc = "ObjectContinue" => Want(doc, k) = "Behind" /\ c = Brace
      /\ pc = "ArrayContinue" => Want(doc, k) = "Behind" /\ c # Brace
    BY <1>2, <1>3 DEF Expected, ObjectStates, ArrayStates
<1>5. (c = Brace => CloserFor(c) = Unbrace) /\ (c # Brace => CloserFor(c) = Closing)
    BY Zenon DEF CloserFor, Unbrace, Closing
<1> HIDE DEF k, c
<1>6. ~WellPlaced(doc)
    <2> SUFFICES ASSUME WellPlaced(doc) PROVE FALSE
        OBVIOUS
    <2>1. \/ Want(doc, k) \in Beginning /\ doc[k] \in Openers
          \/ Want(doc, k) \in Beginning /\ doc[k] \in Quotes \union Numbers \union Atoms
          \/ Want(doc, k) \in {"FirstKey", "Key"} /\ doc[k] \in Quotes
          \/ Want(doc, k) = "Colon" /\ doc[k] = Colon
          \/ Want(doc, k) = "Behind" /\ doc[k] = Comma
          \/ Want(doc, k) \in First \union {"Behind"} /\ doc[k] = CloserFor(c)
        BY <1>1, Unexpected DEF c
    <2>2. CASE pc = "ObjectBegin" /\ next \notin Quotes \union {Unbrace}
        BY <1>1, <1>4, <1>5, <2>1, <2>2 DEF Beginning, First
    <2>3. CASE pc = "ObjectKey" /\ next # Colon
        BY <1>1, <1>4, <2>1, <2>3 DEF Beginning, First
    <2>4. CASE pc = "ObjectNextKey" /\ next \notin Quotes
        BY <1>1, <1>4, <2>1, <2>4 DEF Beginning, First
    <2>5. CASE pc = "ObjectContinue" /\ next \notin {Comma, Unbrace}
        BY <1>1, <1>4, <1>5, <2>1, <2>5 DEF Beginning, First
    <2>6. CASE pc = "ArrayContinue" /\ next \notin {Comma, Closing}
        BY <1>1, <1>4, <1>5, <2>1, <2>6 DEF Beginning, First
    <2> QED BY <2>2, <2>3, <2>4, <2>5, <2>6
<1> QED BY <1>6, ErrorVerdict

LEMMA NextVerdict == IInv /\ PlaceInv /\ VerdictInv /\ [Next]_vars => VerdictInv'
PROOF
<1> SUFFICES ASSUME IInv, PlaceInv, VerdictInv, [Next]_vars PROVE VerdictInv'
    OBVIOUS
<1>0. /\ doc \in Seq(Char) /\ Len(doc) \in Nat /\ i \in 0..Len(doc) /\ depth \in Nat
      /\ (pc # "Done" => result = "none") /\ (pc \in ScopeStates => depth >= 1)
    BY DocType DEF IInv, TypeOK, Shape
<1>a. pc # "Done" => Expected /\ Scoped
    BY <1>0 DEF PlaceInv
<1>1. ASSUME UNCHANGED vars PROVE VerdictInv'
    BY <1>1 DEF vars, VerdictInv
<1>2. CASE EndOfInput
    BY <1>2, EndVerdict
<1>3. CASE Start
    <2>1. pc = "Start" /\ i < Len(doc) /\ i' = i + 1 /\ Value("Start", i + 1, "RootEnd") /\ doc' = doc
        BY <1>3 DEF Start, Read
    <2> DEFINE k == i + 1
    <2>2. /\ k \in 1..Len(doc) /\ result = "none" /\ i' = k /\ Value("Start", k, "RootEnd")
          /\ Want(doc, k) = "Value"
        BY <1>0, <1>a, <2>1 DEF Expected
    <2> HIDE DEF k
    <2>3. Want(doc, k) \in Beginning /\ Want(doc, k) # "FirstElement"
        BY <2>2 DEF Beginning
    <2> QED BY <2>1, <2>2, <2>3, ValueVerdict
<1>4. CASE RootEnd
    BY <1>4, RootVerdict
<1>5. CASE ObjectBegin
    <2>1. pc = "ObjectBegin" /\ i < Len(doc) /\ doc' = doc
        BY <1>5 DEF ObjectBegin, Read
    <2>2. \/ pc' \in {"ObjectKey", "ScopeEnd"} /\ result' = "none"
          \/ /\ next \notin Quotes \union {Unbrace}
             /\ pc' = "Done" /\ result' = "ExpectedObjectContent"
        BY <1>0, <1>5, <2>1, Zenon DEF ObjectBegin, Goto, Return, Empty, Unbrace
    <2> QED BY <2>1, <2>2, QuietVerdict, WithinVerdict DEF Errors
<1>6. CASE ObjectKey
    <2>1. pc = "ObjectKey" /\ i < Len(doc) /\ doc' = doc
        BY <1>6 DEF ObjectKey, Read
    <2>2. \/ pc' = "ObjectValue" /\ result' = "none"
          \/ next # Colon /\ pc' = "Done" /\ result' = "ExpectedObjectColon"
        BY <1>0, <1>6, <2>1, Zenon DEF ObjectKey, Goto, Return, Colon
    <2> QED BY <2>1, <2>2, QuietVerdict, WithinVerdict DEF Errors
<1>7. CASE ObjectValue
    <2>1. pc = "ObjectValue" /\ i < Len(doc) /\ i' = i + 1 /\ Value("Object", i + 1, "ObjectContinue") /\ doc' = doc
        BY <1>7 DEF ObjectValue, Read
    <2> DEFINE k == i + 1
    <2>2. /\ k \in 1..Len(doc) /\ result = "none" /\ i' = k /\ Value("Object", k, "ObjectContinue")
          /\ Want(doc, k) = "Value"
        BY <1>0, <1>a, <2>1 DEF Expected
    <2> HIDE DEF k
    <2>3. Want(doc, k) \in Beginning /\ Want(doc, k) # "FirstElement"
        BY <2>2 DEF Beginning
    <2> QED BY <2>1, <2>2, <2>3, ValueVerdict
<1>8. CASE ObjectContinue
    <2>1. pc = "ObjectContinue" /\ i < Len(doc) /\ doc' = doc
        BY <1>8 DEF ObjectContinue, Continue, Read
    <2>2. \/ pc' \in {"ObjectNextKey", "ScopeEnd"} /\ result' = "none"
          \/ next \notin {Comma, Unbrace} /\ pc' = "Done" /\ result' = "ExpectedObjectContent"
        BY <1>0, <1>8, <2>1, Zenon DEF ObjectContinue, Continue, Goto, Return, Unbrace, Comma
    <2> QED BY <2>1, <2>2, QuietVerdict, WithinVerdict DEF Errors
<1>9. CASE ObjectNextKey
    <2>1. pc = "ObjectNextKey" /\ i < Len(doc) /\ doc' = doc
        BY <1>9 DEF ObjectNextKey, Read
    <2>2. \/ pc' = "ObjectKey" /\ result' = "none"
          \/ next \notin Quotes /\ pc' = "Done" /\ result' = "ExpectedObjectKey"
        BY <1>0, <1>9, <2>1, Zenon DEF ObjectNextKey, Goto, Return
    <2> QED BY <2>1, <2>2, QuietVerdict, WithinVerdict DEF Errors
<1>10. CASE ArrayBegin
    <2>1. pc = "ArrayBegin" /\ i < Len(doc) /\ i' = i + 1 /\ doc' = doc
        BY <1>10 DEF ArrayBegin, Read
    <2>2. \/ pc' = "ScopeEnd" /\ result' = "none"
          \/ next # Closing /\ pc' = "MainArraySwitch" /\ result' = "none"
        BY <1>0, <1>10, <2>1, Zenon DEF ArrayBegin, Goto, Empty, Closing
    <2>3. next = doc[i']
        BY <2>1 DEF next
    <2> QED BY <2>1, <2>2, <2>3, QuietVerdict DEF VerdictInv, Errors
<1>11. CASE MainArraySwitch
    <2>1. /\ pc = "MainArraySwitch" /\ i' = i /\ doc' = doc
          /\ Value("Array", i, "ArrayContinue") /\ pc \in ScopeStates
        BY <1>11 DEF MainArraySwitch, ReadingStates, ScopeStates, States
    <2>2. Processed + 1 = i /\ i \in 1..Len(doc) /\ result = "none"
        BY <1>0, <2>1, ProcessedType
    <2>3. /\ Want(doc, i) \in Beginning
          /\ Want(doc, i) = "FirstElement" => doc[i] # Closing /\ doc[Inside(doc, i)] # Brace
        BY <1>0, <1>a, <2>1, <2>2 DEF Expected, Scoped, ArrayStates, VerdictInv
    <2> QED BY <2>1, <2>2, <2>3, ValueVerdict
<1>12. CASE ArrayContinue
    <2>1. pc = "ArrayContinue" /\ i < Len(doc) /\ doc' = doc
        BY <1>12 DEF ArrayContinue, Continue, Read
    <2>2. \/ pc' \in {"ArrayNext", "ScopeEnd"} /\ result' = "none"
          \/ next \notin {Comma, Closing} /\ pc' = "Done" /\ result' = "ExpectedArrayContent"
        BY <1>0, <1>12, <2>1, Zenon DEF ArrayContinue, Continue, Goto, Return, Closing, Comma
    <2> QED BY <2>1, <2>2, QuietVerdict, WithinVerdict DEF Errors
<1>13. CASE ArrayNext
    <2>1. /\ pc = "ArrayNext" /\ i < Len(doc) /\ i' = i + 1 /\ doc' = doc
          /\ pc' = "MainArraySwitch" /\ result' = "none"
        BY <1>0, <1>13 DEF ArrayNext, Read, Goto
    <2>2. Want(doc, i') # "FirstElement"
        BY <1>a, <2>1 DEF Expected
    <2> QED BY <2>1, <2>2 DEF VerdictInv, Errors
<1>14. CASE ScopeEnd
    BY <1>14, ScopeVerdict
<1>15. CASE Returned
    BY <1>1, <1>15 DEF Returned
<1> QED
    BY <1>1, <1>2, <1>3, <1>4, <1>5, <1>6, <1>7, <1>8, <1>9, <1>10, <1>11,
       <1>12, <1>13, <1>14, <1>15 DEF Next, Step

LEMMA VerdictIs ==
    ASSUME IInv, PlaceInv, VerdictInv, pc = "Done"
    PROVE  result = "Ok" <=> WellPlaced(doc)
PROOF
<1>1. doc \in Seq(Char)
    BY DocType
<1>2. ASSUME result = "Ok" PROVE WellPlaced(doc)
    <2>1. Sound(doc, Len(doc)) /\ Want(doc, Len(doc) + 1) = "Behind" /\ Level(doc, Len(doc) + 1) = 0
        BY <1>2, AcceptedIs DEF AcceptedRight
    <2>2. Inside(doc, Len(doc) + 1) = 0
        <3> DEFINE n == Len(doc)
        <3>1. n \in 0..Len(doc) /\ n \in Nat /\ n + 1 \in 1..n + 1
            BY <1>1
        <3>2. \A r \in 1..n + 1 : Placed(doc, r)
            <4>1. Sound(doc, n)
                BY <2>1
            <4> HIDE DEF n
            <4> QED BY <1>1, <3>1, <4>1, AllPlaced
        <3> DEFINE o == Inside(doc, n + 1)
        <3>3. o \in 0..n + 1 - 1 /\ (o # 0 => Level(doc, n + 1) = Level(doc, o) + 1)
            BY <3>1, <3>2 DEF Placed, PlacedIn
        <3> HIDE DEF o
        <3>4. CASE o # 0
            <4>1. o \in 1..n + 1
                <5> HIDE DEF n
                <5> QED BY <3>1, <3>3, <3>4
            <4>2. Level(doc, o) \in Nat
                BY <3>2, <4>1 DEF Placed, PlacedIn
            <4>3. Level(doc, n + 1) # 0
                BY <3>3, <3>4, <4>2
            <4> QED BY <2>1, <4>3
        <3> QED BY <3>4 DEF o
    <2>3. Uncut(doc)
        BY <1>2 DEF VerdictInv
    <2> QED BY <2>1, <2>2, <2>3 DEF WellPlaced
<1>3. ASSUME result # "Ok" PROVE ~WellPlaced(doc)
    <2>1. result \in Errors
        BY <1>3 DEF IInv, TypeOK, VerdictInv
    <2> QED BY <2>1 DEF VerdictInv
<1> QED BY <1>2, <1>3

\* For every document, validate accepts exactly what the JSON grammar derives.
THEOREM AcceptsJson == Spec => []AcceptsExactlyJson
PROOF
<1>1. IInv /\ PlaceInv /\ VerdictInv => AcceptsExactlyJson
    <2> SUFFICES ASSUME IInv, PlaceInv, VerdictInv, pc = "Done"
                 PROVE  result = "Ok" <=> GrammarView(doc) \in TextsUpTo(Len(doc))
        BY DEF AcceptsExactlyJson
    <2> DEFINE v == GrammarView(doc)
    <2>1. doc \in Documents /\ doc \in Seq(Char) /\ Len(doc) >= 1
        BY DocumentsAssumption, DocType DEF VerdictInv
    <2>2. WellPlaced(doc) <=> v \in TextsUpTo(Len(doc))
        BY <2>1, WellPlacedIsJson
    <2> QED BY <2>2, VerdictIs
<1>2. Init => IInv /\ PlaceInv /\ VerdictInv
    BY InitInv, InitPlace, InitVerdict
<1>3. IInv /\ PlaceInv /\ VerdictInv /\ [Next]_vars => (IInv /\ PlaceInv /\ VerdictInv)'
    BY NextInv, NextPlace, NextVerdict
<1> QED BY <1>1, <1>2, <1>3, PTL DEF Spec

---------------------------------------------------------------------------
(* The walk.                                                               *)

---------------------------------------------------------------------------
(* An accepted document d with the counts c.                               *)

\* A value or a key is expected at k, and begins there.
AtValue(d, k) == k \in 1..Len(d) /\ Want(d, k) \in Beginning /\ (Enters(d, k) \/ Stays(d, k))
AtKey(d, k)   == k \in 1..Len(d) /\ Want(d, k) \in {"FirstKey", "Key"} /\ Stays(d, k)

\* Only behind a bracket is a first element expected.
LEMMA FirstBehindBracket ==
    ASSUME NEW d, d \in Seq(Char), NEW k \in 1..Len(d), Want(d, k + 1) \in First
    PROVE  Enters(d, k)
PROOF
<1>1. Want(d, k + 1) # "Stray" /\ Want(d, k + 1) # "Behind"
    BY DEF First
<1>2. ~Leaves(d, k)
    BY <1>1 DEF Leaves
<1>3. ~Stays(d, k)
    BY DEF Stays, First
<1>4. ~Advances(d, k)
    BY DEF Advances, First
<1> QED BY <1>1, <1>2, <1>3, <1>4, Moves

\* The bracket at p is closed once, and its count is that of its elements.
LEMMA ClosedAt ==
    ASSUME NEW d, NEW c, d \in Seq(Char), AcceptedRight(d, c), NEW p \in 1..Len(d), d[p] \in Openers
    PROVE  \E q \in p + 1..Len(d) :
              /\ Leaves(d, q) /\ Inside(d, q) = p
              /\ \A r \in q + 1..Len(d) + 1 : Inside(d, r) # p
              /\ c[p] = IF q = p + 1 THEN 0 ELSE Ordinal(d, q)
              /\ \A r \in p + 1..q : Inside(d, r) = p =>
                    /\ Ordinal(d, r) <= Ordinal(d, q) /\ Ordinal(d, r) \in Nat \ {0}
                    /\ (r < q /\ d[r] = Comma) => Ordinal(d, r) < Ordinal(d, q)
PROOF
<1> DEFINE n == Len(d)
<1>1. n \in Nat /\ n \in 0..Len(d) /\ p \in 1..n /\ p \in 1..n + 1 /\ p \in Nat
    OBVIOUS
<1>2. Sound(d, n) /\ Level(d, n + 1) = 0
    BY DEF AcceptedRight
<1>3. \A k \in 1..n : d[k] \in Closers => c[Inside(d, k)] = IF Want(d, k) \in First THEN 0 ELSE Ordinal(d, k)
    BY DEF AcceptedRight
<1> HIDE DEF n
<1>4. \A r \in 1..n + 1 : Placed(d, r)
    BY <1>1, <1>2, AllPlaced
<1>5. Level(d, n + 1) <= Level(d, p)
    <2>1. Level(d, p) \in Nat
        BY <1>1, <1>4 DEF Placed, PlacedIn
    <2> QED BY <1>2, <2>1
<1>6. PICK q \in p + 1..n : Leaves(d, q) /\ Inside(d, q) = p
    BY <1>1, <1>2, <1>5, Closed
<1>7. q \in 1..n /\ q \in 1..n + 1 /\ q \in Nat /\ q - 1 \in 1..n /\ q - 1 + 1 = q
    BY <1>1
<1>8. \A r \in q + 1..n + 1 : Inside(d, r) # p
    BY <1>1, <1>2, <1>6, <1>7, ClosedOnce
<1>9. Want(d, q) \in First <=> q = p + 1
    <2>1. ASSUME Want(d, q) \in First PROVE q = p + 1
        <3> DEFINE k == q - 1
        <3>1. k \in 1..Len(d) /\ Want(d, k + 1) \in First /\ k + 1 = q
            BY <1>7, <2>1 DEF n
        <3> HIDE DEF k
        <3>2. Enters(d, k)
            BY <3>1, FirstBehindBracket
        <3>3. k = p
            BY <1>6, <3>1, <3>2 DEF Enters
        <3> QED BY <3>1, <3>3
    <2>2. ASSUME q = p + 1 PROVE Want(d, q) \in First
        <3>1. Want(d, p + 1) # "Stray"
            BY <1>2, <1>7, <2>2 DEF Sound
        <3>2. Enters(d, p)
            BY <1>1, <3>1, ByKind DEF n
        <3> QED BY <2>2, <3>2 DEF Enters, First
    <2> QED BY <2>1, <2>2
<1>10. c[p] = IF q = p + 1 THEN 0 ELSE Ordinal(d, q)
    <2>1. d[q] \in Closers
        BY <1>6 DEF Leaves
    <2> QED BY <1>3, <1>6, <1>7, <1>9, <2>1
<1>11. Placed(d, q)
    BY <1>4, <1>7
<1>12. ASSUME NEW r \in p + 1..q, Inside(d, r) = p
       PROVE  /\ Ordinal(d, r) <= Ordinal(d, q) /\ Ordinal(d, r) \in Nat \ {0}
              /\ (r < q /\ d[r] = Comma) => Ordinal(d, r) < Ordinal(d, q)
    <2>1. r \in 1..n + 1 /\ p # 0
        BY <1>1, <1>7
    <2>2. Placed(d, r)
        BY <1>4, <2>1
    <2>3. Ordinal(d, r) \in Nat \ {0}
        <3>1. IsFiniteSet(CommasOf(d, p, r)) /\ Ordinal(d, r) = 1 + Cardinality(CommasOf(d, p, r))
            BY <1>12, <2>1, <2>2 DEF Placed, PlacedIn
        <3>2. Cardinality(CommasOf(d, p, r)) \in Nat
            BY <3>1, FS_CardinalityType
        <3> QED BY <3>1, <3>2
    <2> QED BY <1>6, <1>11, <1>12, <2>3 DEF Placed, PlacedIn
<1> QED BY <1>6, <1>8, <1>10, <1>12 DEF n

\* Where a value or a key is expected there is one.
LEMMA Begins ==
    ASSUME NEW d, NEW c, d \in Seq(Char), AcceptedRight(d, c), NEW k \in 1..Len(d) + 1
    PROVE  /\ Want(d, k) = "Value" => AtValue(d, k)
           /\ Want(d, k) = "Key" => AtKey(d, k)
           /\ Want(d, k) = "Colon" => k \in 1..Len(d) /\ Stays(d, k) /\ d[k] = ":"
PROOF
<1>1. Sound(d, Len(d)) /\ Want(d, Len(d) + 1) = "Behind"
    BY DEF AcceptedRight
<1>2. SUFFICES ASSUME Want(d, k) \in {"Value", "Key", "Colon"}
               PROVE  /\ Want(d, k) = "Value" => AtValue(d, k)
                      /\ Want(d, k) = "Key" => AtKey(d, k)
                      /\ Want(d, k) = "Colon" => k \in 1..Len(d) /\ Stays(d, k) /\ d[k] = ":"
    OBVIOUS
<1>3. k # Len(d) + 1
    BY <1>1, <1>2
<1>4. k \in 1..Len(d) /\ k + 1 \in 1..Len(d) + 1
    BY <1>3
<1>5. Want(d, k + 1) # "Stray"
    BY <1>1, <1>4 DEF Sound
<1>6. Enters(d, k) \/ Stays(d, k) \/ Advances(d, k) \/ Leaves(d, k)
    BY <1>4, <1>5, Moves
<1>7. ~Advances(d, k) /\ ~Leaves(d, k)
    BY <1>2 DEF Advances, Leaves, First
<1>8. Want(d, k) = "Value" => AtValue(d, k)
    BY <1>4, <1>6, <1>7 DEF AtValue, Beginning
<1>9. Want(d, k) \in {"Key", "Colon"} => Stays(d, k)
    BY <1>6, <1>7 DEF Enters, Beginning
<1>10. Want(d, k) = "Colon" /\ Stays(d, k) => d[k] = ":"
    BY DEF Stays, Beginning
<1> QED BY <1>4, <1>8, <1>9, <1>10 DEF AtKey

\* At a bracket that opens a container: its count tells whether it is empty.
LEMMA AtOpening ==
    ASSUME NEW d, NEW c, d \in Seq(Char), AcceptedRight(d, c), NEW k \in 1..Len(d), Enters(d, k)
    PROVE  /\ c[k] \in Nat /\ k + 1 \in 1..Len(d)
           /\ c[k] = 0 => Leaves(d, k + 1) /\ Inside(d, k + 1) = k
           /\ c[k] > 0 => IF d[k] = Brace THEN AtKey(d, k + 1) ELSE AtValue(d, k + 1)
PROOF
<1>0. d[k] \in Openers /\ Inside(d, k + 1) = k
    BY DEF Enters
<1>1. PICK q \in k + 1..Len(d) :
              /\ Leaves(d, q) /\ Inside(d, q) = k
              /\ c[k] = IF q = k + 1 THEN 0 ELSE Ordinal(d, q)
              /\ \A r \in k + 1..q : Inside(d, r) = k =>
                    /\ Ordinal(d, r) <= Ordinal(d, q) /\ Ordinal(d, r) \in Nat \ {0}
                    /\ (r < q /\ d[r] = Comma) => Ordinal(d, r) < Ordinal(d, q)
    BY <1>0, ClosedAt
<1>2. q \in k + 1..q /\ k + 1 \in 1..Len(d) /\ k + 1 + 1 \in 1..Len(d) + 1
    OBVIOUS
<1>3. Ordinal(d, q) \in Nat \ {0}
    BY <1>1, <1>2
<1>4. c[k] \in Nat /\ (c[k] = 0 <=> q = k + 1)
    BY <1>1, <1>3
<1>5. Want(d, k + 1) = IF d[k] = Brace THEN "FirstKey" ELSE "FirstElement"
    BY DEF Enters
<1>6. ASSUME c[k] > 0 PROVE IF d[k] = Brace THEN AtKey(d, k + 1) ELSE AtValue(d, k + 1)
    <2>1. q # k + 1
        BY <1>4, <1>6
    <2>2. Want(d, k + 1 + 1) # "Stray"
        BY <1>2 DEF AcceptedRight, Sound
    <2>3. Enters(d, k + 1) \/ Stays(d, k + 1) \/ Advances(d, k + 1) \/ Leaves(d, k + 1)
        BY <1>2, <2>2, Moves
    <2>4. ~Advances(d, k + 1)
        BY <1>5 DEF Advances
    <2>5. ~Leaves(d, k + 1)
        <3> DEFINE m == k + 1
        <3>1. m \in 1..Len(d) /\ Want(d, m) \in First /\ Inside(d, m) = k
            BY <1>0, <1>2, <1>5 DEF First
        <3> HIDE DEF m
        <3>2. SUFFICES ASSUME Leaves(d, m) PROVE FALSE
            BY DEF m
        <3>3. c[k] = 0
            BY <3>1, <3>2 DEF AcceptedRight, Leaves
        <3> QED BY <1>6, <3>3
    <2>6. d[k] = Brace => Stays(d, k + 1)
        BY <1>5, <2>3, <2>4, <2>5 DEF Enters, Beginning
    <2> QED BY <1>2, <1>5, <2>3, <2>4, <2>5, <2>6 DEF AtKey, AtValue, Beginning
<1> QED BY <1>0, <1>1, <1>2, <1>4, <1>6

\* Behind an element: its number tells whether it is the last one.
LEMMA BehindElement ==
    ASSUME NEW d, NEW c, d \in Seq(Char), AcceptedRight(d, c), NEW k \in 1..Len(d) + 1,
           Want(d, k) = "Behind", Level(d, k) # 0
    PROVE  /\ k \in 1..Len(d) /\ Inside(d, k) \in 1..k - 1 /\ d[Inside(d, k)] \in Openers
           /\ c[Inside(d, k)] \in Nat
           /\ \/ Advances(d, k) /\ Ordinal(d, k) < c[Inside(d, k)]
              \/ Leaves(d, k) /\ Ordinal(d, k) = c[Inside(d, k)]
PROOF
<1> DEFINE p == Inside(d, k)
           n == Len(d)
<1>1. n \in Nat /\ n \in 0..Len(d) /\ Sound(d, n) /\ Level(d, n + 1) = 0
    BY DEF AcceptedRight
<1>2. k # n + 1
    BY <1>1
<1>3. k \in 1..n /\ k + 1 \in 1..n + 1 /\ k \in 1..n + 1 /\ k \in Nat
    BY <1>1, <1>2
<1> HIDE DEF n
<1>4. Placed(d, k)
    BY <1>1, <1>3, AllPlaced
<1>5. p \in 1..k - 1 /\ d[p] \in Openers /\ p \in 1..Len(d)
    <2>1. p \in 0..k - 1 /\ p # 0 /\ d[p] \in Openers
        BY <1>4 DEF Placed, PlacedIn
    <2> QED BY <1>3, <2>1 DEF n
<1>6. PICK q \in p + 1..Len(d) :
              /\ Leaves(d, q) /\ Inside(d, q) = p
              /\ \A r \in q + 1..Len(d) + 1 : Inside(d, r) # p
              /\ c[p] = IF q = p + 1 THEN 0 ELSE Ordinal(d, q)
              /\ \A r \in p + 1..q : Inside(d, r) = p =>
                    /\ Ordinal(d, r) <= Ordinal(d, q) /\ Ordinal(d, r) \in Nat \ {0}
                    /\ (r < q /\ d[r] = Comma) => Ordinal(d, r) < Ordinal(d, q)
    <2> HIDE DEF p
    <2> QED BY <1>5, ClosedAt
<1>7. k \in p + 1..q
    <2>1. k \notin q + 1..Len(d) + 1
        BY <1>6
    <2> HIDE DEF p
    <2> QED BY <1>3, <1>5, <2>1 DEF n
<1>8. Want(d, k + 1) # "Stray"
    BY <1>1, <1>3 DEF Sound
<1>9. Advances(d, k) \/ Leaves(d, k)
    <2>1. ~Enters(d, k)
        BY DEF Enters, Beginning
    <2>2. ~Stays(d, k)
        BY DEF Stays, Beginning
    <2> QED BY <1>3, <1>8, <2>1, <2>2, Moves DEF n
<1>10. q \in p + 1..q /\ Ordinal(d, q) \in Nat \ {0}
    BY <1>5, <1>6
<1>11. c[p] \in Nat
    BY <1>6, <1>10
<1>12. ASSUME Advances(d, k) PROVE Ordinal(d, k) < c[p]
    <2>1. d[k] = Comma /\ d[q] # Comma
        BY <1>6, <1>12 DEF Advances, Leaves, Closers, Comma
    <2>2. k < q /\ q # p + 1
        <3> HIDE DEF p
        <3> QED BY <1>5, <1>7, <2>1
    <2> QED BY <1>6, <1>7, <2>1, <2>2
<1>13. ASSUME Leaves(d, k) PROVE Ordinal(d, k) = c[p]
    <2>1. Want(d, k) \notin First /\ d[k] \in Closers
        BY <1>13 DEF First, Leaves
    <2> QED BY <1>3, <2>1 DEF AcceptedRight, n
<1> QED BY <1>3, <1>5, <1>9, <1>11, <1>12, <1>13 DEF n

---------------------------------------------------------------------------
(* The calls under way.                                                    *)

IsCall(v) ==
    /\ v = [of |-> v.of, left |-> v.left, items |-> v.items, key |-> v.key]
    /\ v.of \in {"array", "map"} /\ v.left \in Nat

AreCalls(cs) ==
    /\ cs \in Seq({cs[j] : j \in 1..Len(cs)})
    /\ \A j \in 1..Len(cs) : IsCall(cs[j])

NoCalls(cs) == Len(cs) = 0

\* Where the element of call j under way begins, or the cursor in the innermost.
PlaceOf(cs, op, k, j) == IF j = Len(cs) THEN k ELSE op[j + 1]

\* With the cursor at k, call j reads the container that op[j] opens, and what
\* is left of it is its count without the elements already read.
Opened(d, c, cs, k, op) ==
    /\ Len(cs) = Level(d, k)
    /\ \A j \in 1..Len(cs) :
          /\ d[op[j]] = IF cs[j].of = "map" THEN Brace ELSE "["
          /\ Inside(d, PlaceOf(cs, op, k, j)) = op[j]
          /\ cs[j].left + Ordinal(d, PlaceOf(cs, op, k, j)) = c[op[j]] + 1

OnPath(d, c, cs, k) == \E op \in [1..Len(cs) -> 1..Len(d)] : Opened(d, c, cs, k, op)

AfterValue == "Value returned"

LEMMA AfterValueIs == AfterValue \notin {"Idle", "Value", "Key", "Done"}
PROOF BY Zenon DEF AfterValue

Walking == at \in {"Value", "Key", AfterValue}

WalkInv ==
    /\ idx \in 0..Len(doc)
    /\ at \in {"Idle", "Value", "Key", AfterValue, "Done"}
    /\ at = "Idle" => idx = 0 /\ NoCalls(calls) /\ AreCalls(calls) /\ failure = "none"
    /\ at # "Idle" => pc = "Done"
    /\ result = "Ok" => failure \in {"none", "InvalidEscape", "InvalidNumber"}
    /\ Walking => result = "Ok" /\ failure = "none" /\ AreCalls(calls) /\ OnPath(doc, counts, calls, idx + 1)
    /\ at = "Value" => AtValue(doc, idx + 1)
    /\ at = "Key" => AtKey(doc, idx + 1) /\ ~NoCalls(calls)
    /\ at = AfterValue => Want(doc, idx + 1) = "Behind"

\* A step within the innermost container.
LEMMA PathWithin ==
    ASSUME NEW d, NEW c, NEW cs, NEW ds, NEW k, NEW m, OnPath(d, c, cs, k),
           Len(cs) \in Nat, Len(ds) = Len(cs), Level(d, m) = Level(d, k), Inside(d, m) = Inside(d, k),
           \A j \in 1..Len(cs) : ds[j].of = cs[j].of /\ (j # Len(cs) => ds[j].left = cs[j].left),
           Len(cs) # 0 => ds[Len(cs)].left + Ordinal(d, m) = cs[Len(cs)].left + Ordinal(d, k)
    PROVE  OnPath(d, c, ds, m)
PROOF
<1>1. PICK op \in [1..Len(cs) -> 1..Len(d)] : Opened(d, c, cs, k, op)
    BY DEF OnPath
<1>2. ASSUME NEW j \in 1..Len(cs)
      PROVE  /\ d[op[j]] = IF ds[j].of = "map" THEN Brace ELSE "["
             /\ Inside(d, PlaceOf(ds, op, m, j)) = op[j]
             /\ ds[j].left + Ordinal(d, PlaceOf(ds, op, m, j)) = c[op[j]] + 1
    <2>1. /\ d[op[j]] = IF cs[j].of = "map" THEN Brace ELSE "["
          /\ Inside(d, PlaceOf(cs, op, k, j)) = op[j]
          /\ cs[j].left + Ordinal(d, PlaceOf(cs, op, k, j)) = c[op[j]] + 1
        BY <1>1 DEF Opened
    <2>2. CASE j = Len(cs)
        <3>1. PlaceOf(cs, op, k, j) = k /\ PlaceOf(ds, op, m, j) = m
            BY <2>2 DEF PlaceOf
        <3>2. Len(cs) # 0
            BY <2>2
        <3> QED BY <2>1, <2>2, <3>1, <3>2
    <2>3. CASE j # Len(cs)
        <3>1. PlaceOf(ds, op, m, j) = PlaceOf(cs, op, k, j)
            BY <2>3 DEF PlaceOf
        <3> QED BY <2>1, <2>3, <3>1
    <2> QED BY <2>2, <2>3
<1>3. Len(ds) = Level(d, m)
    BY <1>1 DEF Opened
<1>4. Opened(d, c, ds, m, op)
    BY <1>2, <1>3 DEF Opened
<1> QED BY <1>4 DEF OnPath

\* A call begins behind the bracket at k.
LEMMA PathEnters ==
    ASSUME NEW d, NEW c, NEW cs, NEW ds, NEW k \in 1..Len(d), OnPath(d, c, cs, k),
           Len(cs) \in Nat, Len(ds) = Len(cs) + 1, Enters(d, k), c[k] \in Nat,
           \A j \in 1..Len(cs) : ds[j] = cs[j],
           ds[Len(ds)].left = c[k],
           d[k] = IF ds[Len(ds)].of = "map" THEN Brace ELSE "["
    PROVE  OnPath(d, c, ds, k + 1)
PROOF
<1>1. PICK op \in [1..Len(cs) -> 1..Len(d)] : Opened(d, c, cs, k, op)
    BY DEF OnPath
<1> DEFINE n == Len(cs)
           up == [j \in 1..n + 1 |-> IF j = n + 1 THEN k ELSE op[j]]
<1>2. up \in [1..Len(ds) -> 1..Len(d)]
    BY <1>1
<1>3. up[n + 1] = k /\ \A j \in 1..n : up[j] = op[j]
    OBVIOUS
<1> HIDE DEF up
<1>4. /\ Inside(d, k + 1) = k /\ Ordinal(d, k + 1) = 1 /\ Level(d, k + 1) = Level(d, k) + 1
    BY DEF Enters
<1>5. ASSUME NEW j \in 1..n + 1
      PROVE  /\ d[up[j]] = IF ds[j].of = "map" THEN Brace ELSE "["
             /\ Inside(d, PlaceOf(ds, up, k + 1, j)) = up[j]
             /\ ds[j].left + Ordinal(d, PlaceOf(ds, up, k + 1, j)) = c[up[j]] + 1
    <2>1. CASE j = n + 1
        <3>1. PlaceOf(ds, up, k + 1, j) = k + 1
            BY <2>1 DEF PlaceOf
        <3>2. up[j] = k /\ ds[j].left = c[k]
            BY <1>3, <2>1
        <3>3. d[k] = IF ds[j].of = "map" THEN Brace ELSE "["
            BY <2>1
        <3> QED BY <1>4, <3>1, <3>2, <3>3
    <2>2. CASE j # n + 1
        <3>1. j \in 1..n /\ ds[j] = cs[j] /\ up[j] = op[j] /\ j # Len(ds)
            BY <1>3, <2>2
        <3>2. PlaceOf(ds, up, k + 1, j) = PlaceOf(cs, op, k, j)
            <4>1. j # n => j + 1 \in 1..n
                BY <3>1
            <4> QED BY <1>3, <3>1, <4>1 DEF PlaceOf
        <3> QED BY <1>1, <3>1, <3>2 DEF Opened
    <2> QED BY <2>1, <2>2
<1>6. Len(ds) = Level(d, k + 1)
    BY <1>1, <1>4 DEF Opened
<1>7. Opened(d, c, ds, k + 1, up)
    BY <1>5, <1>6 DEF Opened
<1> QED BY <1>2, <1>7 DEF OnPath

\* The innermost call returns behind its closing bracket.
LEMMA PathLeaves ==
    ASSUME NEW d, NEW c, NEW cs, NEW ds, NEW k \in 1..Len(d), OnPath(d, c, cs, k),
           Len(cs) \in Nat, Len(cs) # 0, Len(ds) = Len(cs) - 1, Leaves(d, k),
           \A j \in 1..Len(ds) : ds[j] = cs[j]
    PROVE  OnPath(d, c, ds, k + 1)
PROOF
<1>1. PICK op \in [1..Len(cs) -> 1..Len(d)] : Opened(d, c, cs, k, op)
    BY DEF OnPath
<1> DEFINE n == Len(cs)
           down == [j \in 1..n - 1 |-> op[j]]
<1>2. down \in [1..Len(ds) -> 1..Len(d)]
    BY <1>1
<1>3. \A j \in 1..n - 1 : down[j] = op[j]
    OBVIOUS
<1> HIDE DEF down
<1>4. Inside(d, k) = op[n]
    <2>1. n \in 1..n /\ PlaceOf(cs, op, k, n) = k
        BY DEF PlaceOf
    <2> QED BY <1>1, <2>1 DEF Opened
<1>5. /\ Inside(d, k + 1) = Inside(d, op[n]) /\ Ordinal(d, k + 1) = Ordinal(d, op[n])
      /\ Level(d, k + 1) = Level(d, k) - 1
    BY <1>4 DEF Leaves
<1>6. ASSUME NEW j \in 1..n - 1
      PROVE  /\ d[down[j]] = IF ds[j].of = "map" THEN Brace ELSE "["
             /\ Inside(d, PlaceOf(ds, down, k + 1, j)) = down[j]
             /\ ds[j].left + Ordinal(d, PlaceOf(ds, down, k + 1, j)) = c[down[j]] + 1
    <2>1. /\ j \in 1..n /\ ds[j] = cs[j] /\ down[j] = op[j]
        BY <1>3
    <2>2. /\ d[op[j]] = IF cs[j].of = "map" THEN Brace ELSE "["
          /\ Inside(d, PlaceOf(cs, op, k, j)) = op[j]
          /\ cs[j].left + Ordinal(d, PlaceOf(cs, op, k, j)) = c[op[j]] + 1
        BY <1>1, <2>1 DEF Opened
    <2>3. PlaceOf(cs, op, k, j) = op[j + 1]
        BY DEF PlaceOf
    <2>4. CASE j = n - 1
        <3>1. PlaceOf(ds, down, k + 1, j) = k + 1 /\ j + 1 = n
            BY <2>4 DEF PlaceOf
        <3> QED BY <1>5, <2>1, <2>2, <2>3, <3>1
    <2>5. CASE j # n - 1
        <3>1. j + 1 \in 1..n - 1 /\ j # Len(ds)
            BY <2>5
        <3>2. PlaceOf(ds, down, k + 1, j) = op[j + 1]
            BY <1>3, <3>1 DEF PlaceOf
        <3> QED BY <2>1, <2>2, <2>3, <3>2
    <2> QED BY <2>4, <2>5
<1>7. Len(ds) = Level(d, k + 1)
    BY <1>1, <1>5 DEF Opened
<1>8. Opened(d, c, ds, k + 1, down)
    BY <1>6, <1>7 DEF Opened
<1> QED BY <1>2, <1>8 DEF OnPath

LEMMA Tight ==
    ASSUME NEW S, NEW cs, cs \in Seq(S)
    PROVE  cs \in Seq({cs[j] : j \in 1..Len(cs)})
PROOF
<1> DEFINE T == {cs[j] : j \in 1..Len(cs)}
<1>1. Len(cs) \in Nat /\ cs \in [1..Len(cs) -> S]
    BY LenProperties
<1>2. cs \in [1..Len(cs) -> T]
    BY <1>1, SMTT(60)
<1> HIDE DEF T
<1>3. cs \in UNION {[1..n -> T] : n \in Nat}
    BY <1>1, <1>2
<1> QED BY <1>3, SeqDef DEF T

Enumerated(cs) == cs \in Seq({cs[j] : j \in 1..Len(cs)})

LEMMA ListAppended ==
    ASSUME NEW cs, Enumerated(cs), NEW e
    PROVE  /\ Len(cs) \in Nat /\ Enumerated(Append(cs, e)) /\ Len(Append(cs, e)) = Len(cs) + 1
           /\ Append(cs, e)[Len(cs) + 1] = e
           /\ \A j \in 1..Len(cs) : Append(cs, e)[j] = cs[j]
PROOF
<1> DEFINE n == Len(cs)
           S == {cs[j] : j \in 1..n} \union {e}
           ds == Append(cs, e)
<1>1. cs \in Seq({cs[j] : j \in 1..n})
    BY DEF Enumerated
<1>2. cs \in Seq(S)
    BY <1>1, SeqMonotonic
<1>3. n \in Nat
    BY <1>2, LenProperties
<1>4. /\ ds \in Seq(S) /\ Len(ds) = n + 1 /\ ds[n + 1] = e
      /\ \A j \in 1..n : ds[j] = cs[j]
    <2>1. e \in S
        OBVIOUS
    <2> HIDE DEF S
    <2> QED BY <1>2, <2>1, AppendProperties
<1> HIDE DEF S, ds
<1>5. Enumerated(ds)
    <2>1. ds \in Seq(S)
        BY <1>4
    <2> QED BY <2>1, Tight DEF Enumerated
<1> QED BY <1>3, <1>4, <1>5 DEF ds

LEMMA ListReplaced ==
    ASSUME NEW cs, Enumerated(cs), Len(cs) # 0, NEW e
    PROVE  LET ds == [cs EXCEPT ![Len(cs)] = e] IN
           /\ Len(cs) \in Nat \ {0} /\ Enumerated(ds) /\ Len(ds) = Len(cs)
           /\ ds[Len(cs)] = e
           /\ \A j \in 1..Len(cs) - 1 : ds[j] = cs[j]
PROOF
<1> DEFINE n == Len(cs)
           S == {cs[j] : j \in 1..n} \union {e}
           ds == [cs EXCEPT ![n] = e]
<1>1. cs \in Seq({cs[j] : j \in 1..n})
    BY DEF Enumerated
<1>2. cs \in Seq(S)
    BY <1>1, SeqMonotonic
<1>3. n \in Nat \ {0}
    BY <1>2, LenProperties, SMTT(60)
<1>4. /\ ds \in Seq(S) /\ Len(ds) = n /\ ds[n] = e
      /\ \A j \in 1..n - 1 : ds[j] = cs[j]
    <2>1. e \in S /\ n \in 1..n
        BY <1>3
    <2>2. /\ ds \in Seq(S) /\ Len(ds) = n
          /\ \A j \in 1..n : ds[j] = IF j = n THEN e ELSE cs[j]
        <3> HIDE DEF S
        <3> QED BY <1>2, <2>1, ExceptSeq
    <2>3. \A j \in 1..n - 1 : j \in 1..n /\ j # n
        BY <1>3
    <2> QED BY <2>1, <2>2, <2>3
<1> HIDE DEF S, ds
<1>5. Enumerated(ds)
    <2>1. ds \in Seq(S)
        BY <1>4
    <2> QED BY <2>1, Tight DEF Enumerated
<1> QED BY <1>3, <1>4, <1>5 DEF ds

LEMMA ListDropped ==
    ASSUME NEW cs, Enumerated(cs), Len(cs) # 0
    PROVE  /\ Len(cs) \in Nat \ {0} /\ Enumerated(SubSeq(cs, 1, Len(cs) - 1))
           /\ Len(SubSeq(cs, 1, Len(cs) - 1)) = Len(cs) - 1
           /\ \A j \in 1..Len(cs) - 1 : SubSeq(cs, 1, Len(cs) - 1)[j] = cs[j]
PROOF
<1> DEFINE n == Len(cs)
           S == {cs[j] : j \in 1..n}
           ds == SubSeq(cs, 1, n - 1)
<1>1. cs \in Seq(S)
    BY DEF Enumerated
<1>3. n \in Nat \ {0}
    BY <1>1, LenProperties
<1>4. /\ Len(ds) = n - 1
      /\ \A j \in 1..n - 1 : ds[j] = cs[j]
      /\ ds \in Seq(S)
    <2>1. \A j \in 1..n - 1 : cs[j] \in S
        BY <1>3
    <2>2. /\ ds \in Seq(S)
          /\ Len(ds) = IF 1 <= n - 1 THEN n - 1 - 1 + 1 ELSE 0
          /\ \A j \in 1..n - 1 - 1 + 1 : ds[j] = cs[1 + j - 1]
        <3> HIDE DEF S
        <3>1. 1 \in Int /\ n - 1 \in Int
            BY <1>3
        <3> QED BY <2>1, <3>1, SubSeqProperties
    <2> HIDE DEF S, ds, n
    <2>3. n - 1 - 1 + 1 = n - 1 /\ (~(1 <= n - 1) => n - 1 = 0) /\ \A j \in 1..n - 1 : 1 + j - 1 = j
        BY <1>3
    <2> QED BY <2>2, <2>3
<1> HIDE DEF S, ds
<1>5. Enumerated(ds)
    <2>1. ds \in Seq(S)
        BY <1>4
    <2> QED BY <2>1, Tight DEF Enumerated
<1> QED BY <1>3, <1>4, <1>5 DEF ds

LEMMA CallAppended ==
    ASSUME NEW cs, AreCalls(cs), NEW e, IsCall(e)
    PROVE  /\ Len(cs) \in Nat /\ AreCalls(Append(cs, e)) /\ Len(Append(cs, e)) = Len(cs) + 1
           /\ Append(cs, e)[Len(cs) + 1] = e
           /\ \A j \in 1..Len(cs) : Append(cs, e)[j] = cs[j]
PROOF
<1> DEFINE n == Len(cs)
           ds == Append(cs, e)
<1>1. Enumerated(cs)
    BY DEF AreCalls, Enumerated
<1>2. n \in Nat /\ Enumerated(ds) /\ Len(ds) = n + 1 /\ ds[n + 1] = e /\ \A j \in 1..n : ds[j] = cs[j]
    BY <1>1, ListAppended
<1> HIDE DEF ds
<1>3. \A j \in 1..n + 1 : j \in 1..n \/ j = n + 1
    BY <1>2
<1>4. \A j \in 1..Len(ds) : IsCall(ds[j])
    BY <1>2, <1>3 DEF AreCalls
<1> QED BY <1>2, <1>4 DEF AreCalls, Enumerated, ds

LEMMA CallReplaced ==
    ASSUME NEW cs, AreCalls(cs), ~NoCalls(cs), NEW e, IsCall(e)
    PROVE  LET ds == [cs EXCEPT ![Len(cs)] = e] IN
           /\ Len(cs) \in Nat \ {0} /\ AreCalls(ds) /\ Len(ds) = Len(cs)
           /\ ds[Len(cs)] = e
           /\ \A j \in 1..Len(cs) - 1 : ds[j] = cs[j]
PROOF
<1> DEFINE n == Len(cs)
           ds == [cs EXCEPT ![n] = e]
<1>1. Enumerated(cs) /\ n # 0
    BY DEF AreCalls, Enumerated, NoCalls
<1>2. n \in Nat \ {0} /\ Enumerated(ds) /\ Len(ds) = n /\ ds[n] = e /\ \A j \in 1..n - 1 : ds[j] = cs[j]
    BY <1>1, ListReplaced
<1> HIDE DEF ds
<1>3. \A j \in 1..n : j \in 1..n - 1 \/ j = n
    BY <1>2
<1>4. \A j \in 1..n : IsCall(ds[j])
    <2>1. \A j \in 1..n - 1 : j \in 1..n
        BY <1>2
    <2> QED BY <1>2, <1>3, <2>1 DEF AreCalls
<1> QED BY <1>2, <1>4 DEF AreCalls, Enumerated, ds

LEMMA CallDropped ==
    ASSUME NEW cs, AreCalls(cs), ~NoCalls(cs)
    PROVE  /\ Len(cs) \in Nat \ {0} /\ AreCalls(SubSeq(cs, 1, Len(cs) - 1))
           /\ Len(SubSeq(cs, 1, Len(cs) - 1)) = Len(cs) - 1
           /\ \A j \in 1..Len(cs) - 1 : SubSeq(cs, 1, Len(cs) - 1)[j] = cs[j]
PROOF
<1> DEFINE n == Len(cs)
           ds == SubSeq(cs, 1, n - 1)
<1>1. Enumerated(cs) /\ n # 0
    BY DEF AreCalls, Enumerated, NoCalls
<1>2. n \in Nat \ {0} /\ Enumerated(ds) /\ Len(ds) = n - 1 /\ \A j \in 1..n - 1 : ds[j] = cs[j]
    BY <1>1, ListDropped
<1> HIDE DEF ds
<1>3. \A j \in 1..Len(ds) : IsCall(ds[j])
    <2>1. \A j \in 1..n - 1 : j \in 1..n
        BY <1>2
    <2> QED BY <1>2, <2>1 DEF AreCalls
<1> QED BY <1>2, <1>3 DEF AreCalls, Enumerated, ds

---------------------------------------------------------------------------
(* The steps of to_value.                                                  *)

LEMMA WalkInit == CursorInit => WalkInv
PROOF
<1> SUFFICES ASSUME CursorInit PROVE WalkInv
    OBVIOUS
<1>1. /\ idx = 0 /\ at = "Idle" /\ failure = "none" /\ result = "none"
      /\ doc \in Seq(Char)
    BY DocumentsAssumption DEF CursorInit, Init
<1>a. NoCalls(calls) /\ AreCalls(calls)
    BY DEF CursorInit, AreCalls, NoCalls
<1>2. 0 \in 0..Len(doc)
    BY <1>1
<1> QED BY <1>1, <1>a, <1>2, AfterValueIs DEF WalkInv, Walking

\* A step of validate is one of its loop, and keeps the document.
LEMMA StepReads == Step => doc' = doc /\ pc # "Done"
PROOF
<1>1. CASE EndOfInput \/ Start \/ RootEnd
    BY <1>1 DEF EndOfInput, Start, RootEnd, Read, ReadingStates
<1>2. CASE ObjectBegin \/ ObjectKey \/ ObjectValue \/ ObjectContinue \/ ObjectNextKey
    BY <1>2 DEF ObjectBegin, ObjectKey, ObjectValue, ObjectContinue, ObjectNextKey, Continue, Read
<1>3. CASE ArrayBegin \/ MainArraySwitch \/ ArrayContinue \/ ArrayNext
    BY <1>3 DEF ArrayBegin, MainArraySwitch, ArrayContinue, ArrayNext, Continue, Read
<1>4. CASE ScopeEnd
    BY <1>4 DEF ScopeEnd
<1> QED BY <1>1, <1>2, <1>3, <1>4 DEF Step

LEMMA WalkValidate == WalkInv /\ Validate => WalkInv'
PROOF
<1> SUFFICES ASSUME WalkInv, Step, UNCHANGED walk PROVE WalkInv'
    BY DEF Validate
<1>1. doc' = doc /\ pc # "Done"
    BY StepReads
<1>2. /\ at = "Idle" /\ idx \in 0..Len(doc) /\ idx = 0 /\ failure = "none"
      /\ NoCalls(calls) /\ AreCalls(calls)
    BY <1>1 DEF WalkInv
<1>3. at' = "Idle" /\ idx' = idx /\ calls' = calls /\ failure' = failure
    BY <1>2 DEF walk
<1> QED BY <1>1, <1>2, <1>3, AfterValueIs DEF WalkInv, Walking

LEMMA WalkBegins == IInv /\ PlaceInv /\ WalkInv /\ FromSlice => WalkInv'
PROOF
<1> SUFFICES ASSUME IInv, PlaceInv, WalkInv, FromSlice PROVE WalkInv'
    OBVIOUS
<1>1. /\ at = "Idle" /\ pc = "Done" /\ pc' = pc /\ doc' = doc /\ result' = result /\ counts' = counts
      /\ idx' = idx /\ calls' = calls
      /\ at' = IF result = "Ok" THEN "Value" ELSE "Done"
      /\ failure' = IF result = "Ok" THEN failure ELSE result
    BY DEF FromSlice, vars
<1>2. /\ idx = 0 /\ failure = "none" /\ idx \in 0..Len(doc)
      /\ NoCalls(calls) /\ AreCalls(calls)
    BY <1>1 DEF WalkInv
<1>3. CASE result # "Ok"
    BY <1>1, <1>2, <1>3, AfterValueIs DEF WalkInv, Walking
<1>4. CASE result = "Ok"
    <2>1. AcceptedRight(doc, counts) /\ doc \in Seq(Char) /\ 1 \in 1..Len(doc) + 1
        BY <1>4, AcceptedIs, DocType
    <2>2. Want(doc, 1) = "Value" /\ Level(doc, 1) = 0
        BY <2>1, FirstPlace
    <2>3. AtValue(doc, 1)
        BY <2>1, <2>2, Begins
    <2>5. OnPath(doc, counts, calls, 1)
        <3> DEFINE op == [j \in 1..0 |-> 1]
        <3>a. Len(calls) = 0
            BY <1>2 DEF NoCalls
        <3>1. op \in [1..Len(calls) -> 1..Len(doc)] /\ \A j \in 1..0 : FALSE
            BY <3>a
        <3> HIDE DEF op
        <3>2. Opened(doc, counts, calls, 1, op)
            BY <2>2, <3>1, <3>a DEF Opened
        <3> QED BY <3>1, <3>2 DEF OnPath
    <2>6. idx' + 1 = 1
        BY <1>1, <1>2
    <2> QED BY <1>1, <1>2, <1>4, <2>3, <2>5, <2>6, AfterValueIs DEF WalkInv, Walking
<1> QED BY <1>3, <1>4

\* The walk ends with the error of a string or a number.
LEMMA WalkAborts ==
    ASSUME WalkInv, UNCHANGED vars, at # "Idle", idx' \in 0..Len(doc),
           at' = "Done", failure' \in {"none", "InvalidEscape", "InvalidNumber"}
    PROVE  WalkInv'
PROOF
<1>1. doc' = doc /\ pc' = pc
    BY DEF vars
<1> QED BY <1>1, AfterValueIs DEF WalkInv, Walking

\* A value has been read: nothing but the place of the cursor has changed.
LEMMA WalkValue ==
    ASSUME WalkInv, UNCHANGED vars, at = "Value", AcceptedRight(doc, counts), doc \in Seq(Char),
           NEW k \in 1..Len(doc), k \in 0..Len(doc), k = idx + 1, Stays(doc, k), idx' = k, calls' = calls,
           at' = AfterValue, failure' = failure
    PROVE  WalkInv'
PROOF
<1>1. doc' = doc /\ pc' = pc /\ counts' = counts /\ result' = result
    BY DEF vars
<1>2. AtValue(doc, k)
    BY DEF WalkInv
<1>3. /\ Want(doc, k + 1) = "Behind" /\ Inside(doc, k + 1) = Inside(doc, k)
      /\ Ordinal(doc, k + 1) = Ordinal(doc, k) /\ Level(doc, k + 1) = Level(doc, k)
    BY <1>2 DEF AtValue, Beginning, Stays
<1>4. result = "Ok" /\ failure = "none" /\ AreCalls(calls) /\ OnPath(doc, counts, calls, k)
    BY AfterValueIs DEF WalkInv, Walking
<1>5. Len(calls) \in Nat
    BY <1>4, LenProperties DEF AreCalls
<1>6. OnPath(doc, counts, calls, k + 1)
    BY <1>3, <1>4, <1>5, PathWithin
<1> QED BY <1>1, <1>2, <1>3, <1>4, <1>6, AfterValueIs DEF WalkInv, Walking

\* What a call returns that has read these elements.
Whole(of, items) == IF of = "array" THEN Array(items) ELSE Object(items)

\* Where a string or a number begins that is none.
BadLeaves == {"badstr", "badnum"}

Misplaced == Closers \union {":", ",", "other"}

LEMMA ScalarsPlaced == \A c \in ScalarChars : c \notin Misplaced
PROOF BY Zenon DEF Misplaced, Closers, ScalarChars, Quotes, Strings, Numbers, Numerals, Atoms

\* What the step that reads a value does with the character behind the cursor:
\* an empty container, the first element of another, a scalar, or an error.
LEMMA ParseValueIs ==
    ASSUME IInv, PlaceInv, WalkInv, ParseValue, NEW k, k = idx + 1
    PROVE  /\ at = "Value" /\ UNCHANGED vars /\ k \in 1..Len(doc) /\ AtValue(doc, k)
           /\ \/ /\ Enters(doc, k) /\ counts[k] = 0
                 /\ idx' = k + 1 /\ calls' = calls /\ at' = AfterValue /\ failure' = failure
                 /\ \E of \in {"array", "map"} :
                       /\ doc[k] = IF of = "map" THEN Brace ELSE "["
                       /\ value' = Whole(of, << >>)
              \/ /\ Enters(doc, k) /\ counts[k] \in Nat \ {0} /\ idx' = k /\ failure' = failure
                 /\ \E of \in {"array", "map"} :
                       /\ doc[k] = IF of = "map" THEN Brace ELSE "["
                       /\ calls' = Append(calls, [of |-> of, left |-> counts[k], items |-> << >>, key |-> 0])
                       /\ at' = IF of = "array" THEN "Value" ELSE "Key"
              \/ /\ Stays(doc, k) /\ doc[k] \notin BadLeaves /\ doc[k] \notin Openers
                 /\ idx' = k /\ calls' = calls /\ at' = AfterValue /\ failure' = failure
                 /\ value' = Leaf(k)
              \/ /\ Stays(doc, k) /\ doc[k] \in BadLeaves /\ idx' = k
                 /\ at' = "Done" /\ failure' \in {"InvalidEscape", "InvalidNumber"}
PROOF
<1>1. at = "Value" /\ UNCHANGED vars
    BY DEF ParseValue
<1>2. result = "Ok" /\ AtValue(doc, k)
    BY <1>1, AfterValueIs DEF WalkInv, Walking
<1>3. doc \in Seq(Char) /\ AcceptedRight(doc, counts)
    BY <1>2, AcceptedIs, DocType
<1>4. k \in 1..Len(doc)
    BY <1>2 DEF AtValue
<1>5. CharsAt(idx + 1) = {doc[k]}
    BY <1>4 DEF CharsAt
<1>6. CASE doc[k] \in Openers
    <2>1. Enters(doc, k)
        BY <1>2, <1>3, <1>4, <1>6, Moves DEF AtValue
    <2>2. counts[k] \in Nat
        BY <1>3, <1>4, <2>1, AtOpening
    <2>3. CountsAt(k) = {counts[k]}
        BY <1>4, <2>2, UninitAssumption DEF CountsAt
    <2>4. PICK of \in {"array", "map"} : Container(of, k) /\ doc[k] = IF of = "map" THEN Brace ELSE "["
        BY <1>4, <1>5, <1>6 DEF ParseValue, Openers, Brace
    <2>5. PICK es \in {counts[k]} :
             \/ es = 0 /\ at' = AfterValue /\ failure' = failure /\ idx' = k + 1 /\ calls' = calls
                /\ value' = Whole(of, << >>)
             \/ /\ es > 0 /\ idx' = k /\ failure' = failure
                /\ calls' = Append(calls, [of |-> of, left |-> es, items |-> << >>, key |-> 0])
                /\ at' = IF of = "array" THEN "Value" ELSE "Key"
        BY <2>3, <2>4, Zenon DEF Container, Answer, Proceed, AfterValue, Whole
    <2>6. es = counts[k]
        BY <2>5
    <2>7. counts[k] > 0 => counts[k] \in Nat \ {0}
        BY <2>2
    <2>8. CASE /\ es = 0 /\ at' = AfterValue /\ failure' = failure /\ idx' = k + 1 /\ calls' = calls
               /\ value' = Whole(of, << >>)
        BY <1>1, <1>2, <1>4, <2>1, <2>4, <2>6, <2>8, Zenon
    <2>9. CASE /\ es > 0 /\ idx' = k /\ failure' = failure
               /\ calls' = Append(calls, [of |-> of, left |-> es, items |-> << >>, key |-> 0])
               /\ at' = IF of = "array" THEN "Value" ELSE "Key"
        BY <1>1, <1>2, <1>4, <2>1, <2>4, <2>6, <2>7, <2>9, Zenon
    <2> QED BY <2>5, <2>8, <2>9, Zenon
<1>7. CASE doc[k] \notin Openers
    <2>1. Stays(doc, k) /\ doc[k] \in ScalarChars
        <3>1. ~Enters(doc, k)
            BY <1>7 DEF Enters
        <3> QED BY <1>2, <3>1 DEF AtValue, Stays, Beginning
    <2>2. /\ idx' = k
          /\ \/ /\ calls' = calls /\ at' = AfterValue /\ failure' = failure /\ value' = Leaf(k)
                /\ doc[k] \notin BadLeaves
             \/ at' = "Done" /\ failure' = "InvalidEscape" /\ doc[k] \in BadLeaves
             \/ at' = "Done" /\ failure' = "InvalidNumber" /\ doc[k] \in BadLeaves
        <3>1. \E c \in CharsAt(k) :
                \/ c \in Openers
                \/ /\ idx' = k
                   /\ \/ /\ calls' = calls /\ at' = AfterValue /\ failure' = failure /\ value' = Leaf(k)
                         /\ c \in Strings \union Numerals \union Atoms \union BadAtoms
                      \/ at' = "Done" /\ failure' = "InvalidEscape" /\ c = "badstr"
                      \/ at' = "Done" /\ failure' = "InvalidNumber" /\ c = "badnum"
                      \/ c \in Misplaced
            BY Zenon DEF ParseValue, Answer, Abort, AfterValue, Misplaced, Openers
        <3>2. doc[k] \notin Misplaced
            BY <2>1, ScalarsPlaced
        <3>3. \A c \in Strings \union Numerals \union Atoms \union BadAtoms : c \notin BadLeaves
            BY Zenon DEF Strings, Numerals, Atoms, BadAtoms, BadLeaves
        <3>4. "badstr" \in BadLeaves /\ "badnum" \in BadLeaves
            BY DEF BadLeaves
        <3> QED BY <1>5, <1>7, <3>1, <3>2, <3>3, <3>4, Zenon
    <2> QED BY <1>1, <1>2, <1>4, <1>7, <2>1, <2>2, Zenon
<1> QED BY <1>6, <1>7

LEMMA WalkParsesValue == IInv /\ PlaceInv /\ WalkInv /\ ParseValue => WalkInv'
PROOF
<1> SUFFICES ASSUME IInv, PlaceInv, WalkInv, ParseValue PROVE WalkInv'
    OBVIOUS
<1> DEFINE k == idx + 1
<1>1. at = "Value" /\ UNCHANGED vars
    BY DEF ParseValue
<1>2. result = "Ok" /\ failure = "none" /\ AreCalls(calls) /\ OnPath(doc, counts, calls, k) /\ AtValue(doc, k)
    BY <1>1, AfterValueIs DEF WalkInv, Walking
<1>3. doc \in Seq(Char) /\ AcceptedRight(doc, counts)
    BY <1>2, AcceptedIs, DocType
<1>4. k \in 1..Len(doc) /\ k \in 0..Len(doc) /\ k \in Nat /\ k = idx + 1
    BY <1>2 DEF AtValue
<1> HIDE DEF k
<1>5. doc' = doc /\ pc' = pc /\ counts' = counts /\ result' = result
    BY <1>1 DEF vars
<1>6. \/ /\ Enters(doc, k) /\ counts[k] = 0
         /\ idx' = k + 1 /\ calls' = calls /\ at' = AfterValue /\ failure' = failure
      \/ /\ Enters(doc, k) /\ counts[k] \in Nat \ {0} /\ idx' = k /\ failure' = failure
         /\ \E of \in {"array", "map"} :
               /\ doc[k] = IF of = "map" THEN Brace ELSE "["
               /\ calls' = Append(calls, [of |-> of, left |-> counts[k], items |-> << >>, key |-> 0])
               /\ at' = IF of = "array" THEN "Value" ELSE "Key"
      \/ /\ Stays(doc, k) /\ idx' = k /\ calls' = calls /\ at' = AfterValue /\ failure' = failure
      \/ idx' = k /\ at' = "Done" /\ failure' \in {"InvalidEscape", "InvalidNumber"}
    BY <1>4, ParseValueIs, Zenon
<1>7. Enters(doc, k) =>
         /\ counts[k] = 0 => k + 1 \in 1..Len(doc) /\ Leaves(doc, k + 1) /\ Inside(doc, k + 1) = k
         /\ counts[k] > 0 => IF doc[k] = Brace THEN AtKey(doc, k + 1) ELSE AtValue(doc, k + 1)
    BY <1>3, <1>4, AtOpening
<1>8. CASE /\ Enters(doc, k) /\ counts[k] = 0
           /\ idx' = k + 1 /\ calls' = calls /\ at' = AfterValue /\ failure' = failure
    <2> DEFINE m == k + 1
    <2>1. m \in 0..Len(doc) /\ m \in 1..Len(doc) /\ m \in Nat /\ Leaves(doc, m) /\ Inside(doc, m) = k
        BY <1>7, <1>8
    <2>2. Level(doc, m) = Level(doc, k) + 1
        BY <1>8 DEF Enters
    <2>3. Level(doc, k) \in Nat
        <3>1. Placed(doc, k)
            <4>1. Sound(doc, Len(doc)) /\ Len(doc) \in 0..Len(doc) /\ k \in 1..Len(doc) + 1
                BY <1>3, <1>4 DEF AcceptedRight
            <4> QED BY <1>3, <4>1, AllPlaced
        <3> QED BY <3>1 DEF Placed, PlacedIn
    <2> HIDE DEF m
    <2>4. /\ Want(doc, m + 1) = "Behind" /\ Inside(doc, m + 1) = Inside(doc, k)
          /\ Ordinal(doc, m + 1) = Ordinal(doc, k) /\ Level(doc, m + 1) = Level(doc, k)
        BY <2>1, <2>2, <2>3 DEF Leaves
    <2>5. Len(calls) \in Nat
        BY <1>2, LenProperties DEF AreCalls
    <2>6. OnPath(doc, counts, calls, m + 1)
        BY <1>2, <2>4, <2>5, PathWithin
    <2>7. idx' = m
        BY <1>8 DEF m
    <2> QED BY <1>1, <1>2, <1>5, <1>8, <2>1, <2>4, <2>6, <2>7, AfterValueIs DEF WalkInv, Walking
<1>9. ASSUME NEW of \in {"array", "map"}, Enters(doc, k), counts[k] \in Nat \ {0}, idx' = k, failure' = failure,
             doc[k] = IF of = "map" THEN Brace ELSE "[",
             calls' = Append(calls, [of |-> of, left |-> counts[k], items |-> << >>, key |-> 0]),
             at' = IF of = "array" THEN "Value" ELSE "Key"
      PROVE  WalkInv'
    <2> DEFINE e == [of |-> of, left |-> counts[k], items |-> << >>, key |-> 0]
    <2>1. IsCall(e)
        BY <1>9 DEF IsCall
    <2>2. e.left = counts[k] /\ e.of = of /\ calls' = Append(calls, e)
        BY <1>9
    <2> HIDE DEF e
    <2>3. /\ Len(calls) \in Nat /\ AreCalls(calls') /\ Len(calls') = Len(calls) + 1
          /\ calls'[Len(calls) + 1] = e
          /\ \A j \in 1..Len(calls) : calls'[j] = calls[j]
        BY <1>2, <2>1, <2>2, CallAppended
    <2>4. OnPath(doc, counts, calls', k + 1)
        BY <1>2, <1>4, <1>9, <2>2, <2>3, PathEnters
    <2>5. of = "map" <=> doc[k] = Brace
        BY <1>9 DEF Brace
    <2>6. (at' = "Value" => AtValue(doc, k + 1)) /\ (at' = "Key" => AtKey(doc, k + 1))
        BY <1>7, <1>9, <2>5
    <2>7. ~NoCalls(calls')
        BY <2>3 DEF NoCalls
    <2>8. at' \in {"Value", "Key"}
        BY <1>9
    <2> QED BY <1>1, <1>2, <1>4, <1>5, <1>9, <2>3, <2>4, <2>6, <2>7, <2>8, AfterValueIs DEF WalkInv, Walking
<1>10. CASE Stays(doc, k) /\ idx' = k /\ calls' = calls /\ at' = AfterValue /\ failure' = failure
    BY <1>1, <1>3, <1>4, <1>10, WalkValue
<1>11. CASE idx' = k /\ at' = "Done" /\ failure' \in {"InvalidEscape", "InvalidNumber"}
    BY <1>1, <1>4, <1>11, WalkAborts
<1> QED BY <1>6, <1>8, <1>9, <1>10, <1>11

\* The calls when the innermost one has read a key, or an element.
WithKey(cs, ds, x) == ds = [cs EXCEPT ![Len(cs)].key = x]
WithItems(cs, ds, x) == ds = [cs EXCEPT ![Len(cs)].items = x, ![Len(cs)].left = cs[Len(cs)].left - 1]

LEMMA CallChanged ==
    ASSUME NEW cs, AreCalls(cs), ~NoCalls(cs), NEW x, NEW ds, WithKey(cs, ds, x)
    PROVE  /\ Len(cs) \in Nat \ {0} /\ AreCalls(ds) /\ Len(ds) = Len(cs)
           /\ ds[Len(cs)].of = cs[Len(cs)].of /\ ds[Len(cs)].left = cs[Len(cs)].left
           /\ ds[Len(cs)].items = cs[Len(cs)].items /\ ds[Len(cs)].key = x
           /\ \A j \in 1..Len(cs) - 1 : ds[j] = cs[j]
PROOF
<1> DEFINE n == Len(cs)
           e == [cs[n] EXCEPT !.key = x]
<1>1. n \in Nat \ {0}
    BY LenProperties DEF AreCalls, NoCalls
<1>2. n \in 1..n
    BY <1>1
<1>3. IsCall(cs[n])
    BY <1>2 DEF AreCalls
<1>4. e = [of |-> cs[n].of, left |-> cs[n].left, items |-> cs[n].items, key |-> x]
    BY <1>3 DEF IsCall
<1>5. IsCall(e) /\ e.of = cs[n].of /\ e.left = cs[n].left /\ e.items = cs[n].items /\ e.key = x
    BY <1>3, <1>4 DEF IsCall
<1>6. ds = [cs EXCEPT ![n] = e]
    BY DEF WithKey
<1> DEFINE f == [cs EXCEPT ![n] = e]
<1> HIDE DEF e
<1>7. /\ n \in Nat \ {0} /\ AreCalls(f) /\ Len(f) = n /\ f[n] = e
      /\ \A j \in 1..n - 1 : f[j] = cs[j]
    BY <1>5, CallReplaced
<1>8. ds = f
    BY <1>6
<1> HIDE DEF f
<1> QED BY <1>5, <1>7, <1>8

\* In ds the innermost call of cs has one element less left, and has read x.
Advanced(cs, ds, x) ==
    /\ Len(cs) \in Nat \ {0} /\ AreCalls(ds) /\ Len(ds) = Len(cs)
    /\ ds[Len(cs)].of = cs[Len(cs)].of /\ ds[Len(cs)].left = cs[Len(cs)].left - 1
    /\ ds[Len(cs)].items = x
    /\ \A j \in 1..Len(cs) - 1 : ds[j] = cs[j]

LEMMA CallAdvanced ==
    ASSUME NEW cs, AreCalls(cs), ~NoCalls(cs), NEW x, cs[Len(cs)].left > 1, NEW ds, WithItems(cs, ds, x)
    PROVE  Advanced(cs, ds, x)
PROOF
<1> DEFINE n == Len(cs)
           e == [of |-> cs[n].of, left |-> cs[n].left - 1, items |-> x, key |-> cs[n].key]
<1>1. n \in Nat \ {0}
    BY LenProperties DEF AreCalls, NoCalls
<1>2. n \in 1..n /\ DOMAIN cs = 1..n
    BY <1>1, LenProperties DEF AreCalls, NoCalls
<1>3. IsCall(cs[n])
    BY <1>2 DEF AreCalls
<1>4. IsCall(e) /\ e.of = cs[n].of /\ e.left = cs[n].left - 1 /\ e.items = x
    BY <1>3 DEF IsCall
<1>5. [cs EXCEPT ![n].items = x, ![n].left = cs[n].left - 1] = [cs EXCEPT ![n] = e]
    <2> DEFINE f == [cs EXCEPT ![n] = [cs[n] EXCEPT !.items = x]]
               g == [[cs[n] EXCEPT !.items = x] EXCEPT !.left = cs[n].left - 1]
    <2>1. g = e
        <3>1. cs[n] = [of |-> cs[n].of, left |-> cs[n].left, items |-> cs[n].items, key |-> cs[n].key]
            BY <1>3 DEF IsCall
        <3>2. [cs[n] EXCEPT !.items = x] = [of |-> cs[n].of, left |-> cs[n].left, items |-> x, key |-> cs[n].key]
            BY <3>1
        <3> DEFINE r == [of |-> cs[n].of, left |-> cs[n].left, items |-> x, key |-> cs[n].key]
        <3>3. [r EXCEPT !.left = cs[n].left - 1] = e
            OBVIOUS
        <3> QED BY <3>2, <3>3
    <2>2. f[n] = [cs[n] EXCEPT !.items = x]
        BY <1>2
    <2>3. [f EXCEPT ![n] = [f[n] EXCEPT !.left = cs[n].left - 1]] = [f EXCEPT ![n] = g]
        BY <2>2
    <2>4. [f EXCEPT ![n] = g] = [cs EXCEPT ![n] = g]
        <3> HIDE DEF g
        <3> QED OBVIOUS
    <2> HIDE DEF f
    <2> QED BY <2>1, <2>3, <2>4 DEF f
<1>6. ds = [cs EXCEPT ![n] = e]
    BY <1>5 DEF WithItems
<1> DEFINE f == [cs EXCEPT ![n] = e]
<1> HIDE DEF e
<1>7. /\ n \in Nat \ {0} /\ AreCalls(f) /\ Len(f) = n /\ f[n] = e
      /\ \A j \in 1..n - 1 : f[j] = cs[j]
    BY <1>4, CallReplaced
<1>8. ds = f
    BY <1>6
<1> HIDE DEF f
<1>9. /\ n \in Nat \ {0} /\ AreCalls(ds) /\ Len(ds) = n
      /\ ds[n].of = cs[n].of /\ ds[n].left = cs[n].left - 1
      /\ ds[n].items = x
      /\ \A j \in 1..n - 1 : ds[j] = cs[j]
    BY <1>4, <1>7, <1>8
<1> QED BY <1>9, Zenon DEF Advanced

LEMMA WalkParsesKey == IInv /\ PlaceInv /\ WalkInv /\ ParseKey => WalkInv'
PROOF
<1> SUFFICES ASSUME IInv, PlaceInv, WalkInv, ParseKey PROVE WalkInv'
    OBVIOUS
<1> DEFINE k == idx + 1
<1>1. at = "Key" /\ UNCHANGED vars
    BY DEF ParseKey
<1>2. /\ result = "Ok" /\ failure = "none" /\ AreCalls(calls) /\ OnPath(doc, counts, calls, k)
      /\ AtKey(doc, k) /\ ~NoCalls(calls)
    BY <1>1, AfterValueIs DEF WalkInv, Walking
<1>3. doc \in Seq(Char) /\ AcceptedRight(doc, counts)
    BY <1>2, AcceptedIs, DocType
<1>4. k \in 1..Len(doc) /\ k \in 0..Len(doc) /\ k \in Nat /\ k = idx + 1 /\ idx + 2 = k + 1
      /\ k + 1 \in 1..Len(doc) + 1
    <2>1. k \in 1..Len(doc)
        BY <1>2, Zenon DEF AtKey
    <2>2. Len(doc) \in Nat
        BY <1>3
    <2>3. idx \in 0..Len(doc)
        BY DEF WalkInv
    <2> QED BY <2>1, <2>2, <2>3
<1>5. CharsAt(k) = {doc[k]}
    BY <1>4 DEF CharsAt
<1> HIDE DEF k
<1>6. /\ doc' = doc /\ pc' = pc /\ counts' = counts /\ result' = result
    BY <1>1 DEF vars
<1>7. \/ idx' = k /\ at' = "Done" /\ failure' = "InvalidEscape"
      \/ /\ idx' = k + 1 /\ at' = "Value" /\ failure' = failure
         /\ calls' = [calls EXCEPT ![Len(calls)].key = k]
    BY <1>4, <1>5 DEF ParseKey, Abort, Proceed
<1>8. CASE idx' = k /\ at' = "Done" /\ failure' = "InvalidEscape"
    BY <1>1, <1>4, <1>8, WalkAborts
<1>9. CASE /\ idx' = k + 1 /\ at' = "Value" /\ failure' = failure
           /\ calls' = [calls EXCEPT ![Len(calls)].key = k]
    <2> DEFINE m == k + 1
    <2>1. /\ Want(doc, m) = "Colon" /\ Inside(doc, m) = Inside(doc, k)
          /\ Ordinal(doc, m) = Ordinal(doc, k) /\ Level(doc, m) = Level(doc, k)
        BY <1>2 DEF AtKey, Beginning, Stays
    <2>2. m \in 1..Len(doc) + 1
        BY <1>4
    <2> HIDE DEF m
    <2>3. m \in 1..Len(doc) /\ Stays(doc, m) /\ doc[m] = ":"
        BY <1>3, <2>1, <2>2, Begins
    <2>4. /\ Want(doc, m + 1) = "Value" /\ Inside(doc, m + 1) = Inside(doc, k)
          /\ Ordinal(doc, m + 1) = Ordinal(doc, k) /\ Level(doc, m + 1) = Level(doc, k)
        BY <2>1, <2>3 DEF Stays, Beginning
    <2>5. m + 1 \in 1..Len(doc) + 1 /\ m \in 0..Len(doc)
        BY <1>3, <2>3
    <2>6. AtValue(doc, m + 1)
        BY <1>3, <2>4, <2>5, Begins
    <2>7. /\ Len(calls) \in Nat \ {0} /\ AreCalls(calls') /\ Len(calls') = Len(calls)
          /\ calls'[Len(calls)].of = calls[Len(calls)].of
          /\ calls'[Len(calls)].left = calls[Len(calls)].left
          /\ \A j \in 1..Len(calls) - 1 : calls'[j] = calls[j]
        <3> HIDE DEF m
        <3>1. calls' = [calls EXCEPT ![Len(calls)].key = k]
            BY <1>9
        <3>2. AreCalls(calls) /\ ~NoCalls(calls)
            BY <1>2
        <3> DEFINE ds == calls'
        <3>a. WithKey(calls, ds, k)
            BY <3>1 DEF WithKey
        <3> HIDE DEF ds
        <3>3. /\ Len(calls) \in Nat \ {0} /\ AreCalls(ds) /\ Len(ds) = Len(calls)
              /\ ds[Len(calls)].of = calls[Len(calls)].of
              /\ ds[Len(calls)].left = calls[Len(calls)].left
              /\ \A j \in 1..Len(calls) - 1 : ds[j] = calls[j]
            BY <3>2, <3>a, CallChanged
        <3> QED BY <3>3 DEF ds
    <2>8. \A j \in 1..Len(calls) : /\ calls'[j].of = calls[j].of
                                   /\ j # Len(calls) => calls'[j].left = calls[j].left
        <3>1. \A j \in 1..Len(calls) : j # Len(calls) => j \in 1..Len(calls) - 1
            BY <2>7
        <3> QED BY <2>7, <3>1
    <2>9. OnPath(doc, counts, calls', m + 1)
        BY <1>2, <2>4, <2>7, <2>8, PathWithin
    <2>10. idx' = m
        BY <1>9 DEF m
    <2> QED BY <1>1, <1>2, <1>6, <1>9, <2>5, <2>6, <2>7, <2>9, <2>10, AfterValueIs DEF WalkInv, Walking
<1> QED BY <1>7, <1>8, <1>9

\* Behind an element, where the innermost call ends it.
LEMMA AtElementEnd ==
    ASSUME IInv, PlaceInv, WalkInv, at = AfterValue, ~NoCalls(calls)
    PROVE  LET n == Len(calls)
               k == idx + 1 IN
           /\ k \in 1..Len(doc) /\ n \in Nat \ {0} /\ IsCall(calls[n])
           /\ Inside(doc, k) \in 1..k - 1
           /\ doc[Inside(doc, k)] = IF calls[n].of = "map" THEN Brace ELSE "["
           /\ \/ Advances(doc, k) /\ calls[n].left > 1
              \/ Leaves(doc, k) /\ calls[n].left = 1
PROOF
<1> DEFINE n == Len(calls)
           k == idx + 1
<1>1. /\ result = "Ok" /\ failure = "none" /\ AreCalls(calls) /\ OnPath(doc, counts, calls, k)
      /\ Want(doc, k) = "Behind" /\ idx \in 0..Len(doc)
    BY AfterValueIs DEF WalkInv, Walking
<1>2. doc \in Seq(Char) /\ AcceptedRight(doc, counts)
    BY <1>1, AcceptedIs, DocType
<1>3. k \in 1..Len(doc) + 1
    <2>1. idx \in 0..Len(doc)
        BY <1>1
    <2>2. Len(doc) \in Nat
        BY <1>2
    <2> QED BY <2>1, <2>2
<1> HIDE DEF k
<1>4. n \in Nat \ {0} /\ n \in 1..n
    <2>1. AreCalls(calls)
        BY <1>1
    <2>2. n \in Nat
        BY <2>1, LenProperties DEF AreCalls
    <2>3. n # 0
        BY DEF NoCalls
    <2> QED BY <2>2, <2>3
<1>5. PICK op \in [1..n -> 1..Len(doc)] : Opened(doc, counts, calls, k, op)
    BY <1>1 DEF OnPath
<1>6. /\ n = Level(doc, k) /\ Inside(doc, k) = op[n]
      /\ doc[op[n]] = IF calls[n].of = "map" THEN Brace ELSE "["
      /\ calls[n].left + Ordinal(doc, k) = counts[op[n]] + 1
    BY <1>4, <1>5 DEF Opened, PlaceOf
<1>7. /\ k \in 1..Len(doc) /\ Inside(doc, k) \in 1..k - 1 /\ doc[Inside(doc, k)] \in Openers
      /\ counts[Inside(doc, k)] \in Nat
      /\ \/ Advances(doc, k) /\ Ordinal(doc, k) < counts[Inside(doc, k)]
         \/ Leaves(doc, k) /\ Ordinal(doc, k) = counts[Inside(doc, k)]
    BY <1>1, <1>2, <1>3, <1>4, <1>6, BehindElement
<1>8. IsCall(calls[n]) /\ calls[n].left \in Nat
    BY <1>1, <1>4 DEF AreCalls, IsCall
<1>9. Ordinal(doc, k) \in Nat
    <2>a. Len(doc) \in Nat
        BY <1>2
    <2>b. Len(doc) \in 0..Len(doc)
        BY <2>a
    <2>1. Sound(doc, Len(doc)) /\ Len(doc) \in 0..Len(doc)
        BY <1>2, <2>b DEF AcceptedRight
    <2>2. Placed(doc, k)
        BY <1>2, <1>3, <2>1, AllPlaced
    <2> QED BY <2>2 DEF Placed, PlacedIn
<1> DEFINE l == calls[n].left
           o == Ordinal(doc, k)
           c == counts[op[n]]
<1>10. l \in Nat /\ o \in Nat /\ c \in Nat /\ l + o = c + 1
    BY <1>6, <1>7, <1>8, <1>9
<1>11. (Advances(doc, k) /\ o < c) \/ (Leaves(doc, k) /\ o = c)
    BY <1>6, <1>7
<1> HIDE DEF l, o, c
<1>12. (Advances(doc, k) /\ l > 1) \/ (Leaves(doc, k) /\ l = 1)
    BY <1>10, <1>11
<1> QED BY <1>4, <1>6, <1>7, <1>8, <1>12 DEF l, k

\* What the foot of a loop does, with the innermost call and the element it
\* has read.
LEMMA ElementIs ==
    ASSUME Element, NEW n, n = Len(calls), NEW k, k = idx + 1
    PROVE  /\ at = AfterValue /\ calls # << >> /\ UNCHANGED vars /\ idx' = k /\ failure' = failure
           /\ \E items :
                 /\ items = Append(calls[n].items, IF calls[n].of = "array" THEN value
                                                   ELSE Member(calls[n].key, value))
                 /\ IF calls[n].left > 1
                    THEN /\ calls' = [calls EXCEPT ![n].items = items, ![n].left = calls[n].left - 1]
                         /\ at' = IF calls[n].of = "array" THEN "Value" ELSE "Key"
                    ELSE /\ calls' = SubSeq(calls, 1, n - 1) /\ at' = AfterValue
                         /\ value' = Whole(calls[n].of, items)
PROOF BY Zenon DEF Element, Answer, Proceed, AfterValue, Whole

LEMMA WalkEndsElement == IInv /\ PlaceInv /\ WalkInv /\ Element => WalkInv'
PROOF
<1> SUFFICES ASSUME IInv, PlaceInv, WalkInv, Element PROVE WalkInv'
    OBVIOUS
<1> DEFINE n == Len(calls)
           k == idx + 1
<1>1. at = AfterValue /\ UNCHANGED vars /\ idx' = k /\ failure' = failure
    BY ElementIs
<1>2. result = "Ok" /\ failure = "none" /\ AreCalls(calls) /\ OnPath(doc, counts, calls, k)
    BY <1>1, AfterValueIs DEF WalkInv, Walking
<1>3. ~NoCalls(calls)
    <2>1. calls # << >>
        BY ElementIs
    <2> QED BY <1>2, <2>1, EmptySeq DEF AreCalls, NoCalls
<1>4. doc \in Seq(Char) /\ AcceptedRight(doc, counts)
    BY <1>2, AcceptedIs, DocType
<1>5. /\ k \in 1..Len(doc) /\ n \in Nat \ {0} /\ IsCall(calls[n]) /\ Inside(doc, k) \in 1..k - 1
      /\ doc[Inside(doc, k)] = IF calls[n].of = "map" THEN Brace ELSE "["
      /\ \/ Advances(doc, k) /\ calls[n].left > 1
         \/ Leaves(doc, k) /\ calls[n].left = 1
    BY <1>1, <1>3, AtElementEnd
<1>6. PICK items :
         IF calls[n].left > 1
         THEN /\ calls' = [calls EXCEPT ![n].items = items, ![n].left = calls[n].left - 1]
              /\ at' = IF calls[n].of = "array" THEN "Value" ELSE "Key"
         ELSE calls' = SubSeq(calls, 1, n - 1) /\ at' = AfterValue
    BY ElementIs
<1>7. doc' = doc /\ pc' = pc /\ counts' = counts /\ result' = result
    BY <1>1 DEF vars
<1>8. k \in 0..Len(doc) /\ k + 1 \in 1..Len(doc) + 1 /\ k \in Nat
    BY <1>4, <1>5
<1> HIDE DEF k
<1>9. CASE Advances(doc, k) /\ calls[n].left > 1
    <2>1. /\ calls' = [calls EXCEPT ![n].items = items, ![n].left = calls[n].left - 1]
          /\ at' = IF calls[n].of = "array" THEN "Value" ELSE "Key"
        BY <1>6, <1>9, Zenon
    <2> DEFINE ds == [calls EXCEPT ![n].items = items, ![n].left = calls[n].left - 1]
    <2>a. WithItems(calls, ds, items)
        BY DEF WithItems
    <2> HIDE DEF ds
    <2>2. /\ n \in Nat \ {0} /\ AreCalls(ds) /\ Len(ds) = n
          /\ ds[n].of = calls[n].of /\ ds[n].left = calls[n].left - 1
          /\ \A j \in 1..n - 1 : ds[j] = calls[j]
        <3>1. AreCalls(calls) /\ ~NoCalls(calls) /\ calls[Len(calls)].left > 1
            BY <1>2, <1>3, <1>9
        <3>2. Advanced(calls, ds, items)
            BY <2>a, <3>1, CallAdvanced, Zenon
        <3>3. /\ Len(calls) \in Nat \ {0} /\ AreCalls(ds) /\ Len(ds) = Len(calls)
              /\ ds[Len(calls)].of = calls[Len(calls)].of
              /\ ds[Len(calls)].left = calls[Len(calls)].left - 1
              /\ ds[Len(calls)].items = items
              /\ \A j \in 1..Len(calls) - 1 : ds[j] = calls[j]
            BY <3>2, Zenon DEF Advanced
        <3> QED BY <3>3
    <2>3. calls' = ds
        BY <2>1 DEF ds
    <2>4. /\ Want(doc, k + 1) = IF doc[Inside(doc, k)] = Brace THEN "Key" ELSE "Value"
          /\ Inside(doc, k + 1) = Inside(doc, k) /\ Ordinal(doc, k + 1) = Ordinal(doc, k) + 1
          /\ Level(doc, k + 1) = Level(doc, k)
        BY <1>9 DEF Advances
    <2>5. \A j \in 1..n : ds[j].of = calls[j].of /\ (j # n => ds[j].left = calls[j].left)
        <3>1. \A j \in 1..n : j # n => j \in 1..n - 1
            BY <2>2
        <3> QED BY <2>2, <3>1
    <2>6. Ordinal(doc, k) \in Nat /\ calls[n].left \in Nat
        <3>1. Sound(doc, Len(doc)) /\ Len(doc) \in 0..Len(doc) /\ k \in 1..Len(doc) + 1
            BY <1>4, <1>5 DEF AcceptedRight
        <3>2. Placed(doc, k)
            BY <1>4, <3>1, AllPlaced
        <3> QED BY <1>5, <3>2 DEF Placed, PlacedIn, IsCall
    <2>7. ds[n].left + Ordinal(doc, k + 1) = calls[n].left + Ordinal(doc, k)
        BY <2>2, <2>4, <2>6
    <2>8. OnPath(doc, counts, ds, k + 1)
        BY <1>2, <2>2, <2>4, <2>5, <2>7, PathWithin
    <2>9. calls[n].of = "array" \/ (calls[n].of = "map" /\ doc[Inside(doc, k)] = Brace)
        BY <1>5 DEF IsCall
    <2>10. calls[n].of = "array" => doc[Inside(doc, k)] # Brace
        BY <1>5, Zenon DEF Brace
    <2>11. (at' = "Value" => AtValue(doc, k + 1)) /\ (at' = "Key" => AtKey(doc, k + 1)) /\ at' \in {"Value", "Key"}
        <3>1. at' = "Value" => Want(doc, k + 1) = "Value"
            BY <2>1, <2>4, <2>9, <2>10
        <3>2. at' = "Key" => Want(doc, k + 1) = "Key"
            BY <2>1, <2>4, <2>9, <2>10
        <3>3. at' \in {"Value", "Key"}
            BY <2>1
        <3> QED BY <1>4, <1>8, <3>1, <3>2, <3>3, Begins
    <2>12. ~NoCalls(ds)
        BY <2>2 DEF NoCalls
    <2> QED BY <1>1, <1>2, <1>7, <1>8, <2>2, <2>3, <2>8, <2>11, <2>12, AfterValueIs DEF WalkInv, Walking
<1>10. CASE Leaves(doc, k) /\ calls[n].left = 1
    <2>1. ~(calls[n].left > 1)
        BY <1>10
    <2>2. calls' = SubSeq(calls, 1, n - 1) /\ at' = AfterValue
        BY <1>6, <2>1, Zenon
    <2> DEFINE ds == SubSeq(calls, 1, n - 1)
    <2>3. /\ n \in Nat \ {0} /\ AreCalls(ds) /\ Len(ds) = n - 1
          /\ \A j \in 1..n - 1 : ds[j] = calls[j]
        BY <1>2, <1>3, CallDropped
    <2> HIDE DEF ds
    <2>4. calls' = ds
        BY <2>2 DEF ds
    <2>5. OnPath(doc, counts, ds, k + 1)
        BY <1>2, <1>5, <1>10, <2>3, PathLeaves
    <2>6. Want(doc, k + 1) = "Behind"
        BY <1>10 DEF Leaves
    <2> QED BY <1>1, <1>2, <1>7, <1>8, <2>2, <2>3, <2>4, <2>5, <2>6, AfterValueIs DEF WalkInv, Walking
<1> QED BY <1>5, <1>9, <1>10

\* validate goes on below the walk: a step of to_value is one of validate, or
\* leaves its variables alone.
LEMMA DomRefinesValidate == DomNext => [Next]_vars
PROOF BY Zenon DEF DomNext, DomStep, Validate, FromSlice, ParseValue, ParseKey, Element, Finish,
         DomReturned, domVars, vars, Next

LEMMA WalkNext == IInv /\ PlaceInv /\ WalkInv /\ [DomNext]_domVars => WalkInv'
PROOF
<1> SUFFICES ASSUME IInv, PlaceInv, WalkInv, [DomNext]_domVars PROVE WalkInv'
    OBVIOUS
<1>1. ASSUME UNCHANGED domVars PROVE WalkInv'
    BY <1>1 DEF domVars, WalkInv, Walking
<1>2. ASSUME Finish PROVE WalkInv'
    <2>1. UNCHANGED vars /\ idx' = idx /\ failure' = failure /\ at' = "Done" /\ at = AfterValue
        BY <1>2, Zenon DEF Finish, AfterValue
    <2>2. idx \in 0..Len(doc) /\ failure = "none"
        BY <2>1, AfterValueIs DEF WalkInv, Walking
    <2>3. at # "Idle" /\ doc' = doc
        BY <2>1, AfterValueIs DEF vars
    <2> QED BY <2>1, <2>2, <2>3, WalkAborts
<1> QED BY <1>1, <1>2, WalkValidate, WalkBegins, WalkParsesValue, WalkParsesKey, WalkEndsElement
        DEF DomNext, DomStep, DomReturned

LEMMA WalkSpec == DomSpec => [](IInv /\ PlaceInv /\ WalkInv)
PROOF
<1>1. CursorInit => IInv /\ PlaceInv /\ WalkInv
    BY InitInv, InitPlace, WalkInit DEF CursorInit
<1>2. IInv /\ PlaceInv /\ WalkInv /\ [DomNext]_domVars => (IInv /\ PlaceInv /\ WalkInv)'
    <2> SUFFICES ASSUME IInv, PlaceInv, WalkInv, [DomNext]_domVars
                 PROVE  IInv' /\ PlaceInv' /\ WalkInv'
        OBVIOUS
    <2>1. [Next]_vars
        <3>1. CASE UNCHANGED domVars
            BY <3>1 DEF domVars, vars
        <3> QED BY <3>1, DomRefinesValidate
    <2> QED BY <2>1, NextInv, NextPlace, WalkNext
<1> QED BY <1>1, <1>2, PTL DEF DomSpec

---------------------------------------------------------------------------

\* The cursor of the walk stays on the structural characters, whatever the
\* document: no unchecked read of next_, skip or c leaves the vector.
THEOREM CursorStays == DomSpec => []CursorInRange
PROOF
<1>1. WalkInv => CursorInRange
    BY DEF WalkInv, CursorInRange
<1> QED BY <1>1, WalkSpec, PTL

\* What validate accepts makes the walk fail on the text of a string or a
\* number and on nothing else, whatever the document.
THEOREM LeavesOnly == DomSpec => []OnlyLeavesFail
PROOF
<1>1. WalkInv => OnlyLeavesFail
    BY DEF WalkInv, OnlyLeavesFail
<1> QED BY <1>1, WalkSpec, PTL

\* The walk skips nothing but what it takes for granted: whatever the
\* document, the counts lead it to a quote and a colon at every member, to a
\* comma behind every element but the last, and to the closing bracket of its
\* kind behind that one.
THEOREM StaysOnTrack == DomSpec => []WalkOnTrack
PROOF
<1>1. IInv /\ PlaceInv /\ WalkInv => WalkOnTrack
    <2> SUFFICES ASSUME IInv, PlaceInv, WalkInv PROVE WalkOnTrack
        OBVIOUS
    <2> DEFINE n == Len(calls)
               k == idx + 1
    <2>1. ASSUME at = "Value", idx < Len(doc), doc[k] \in Openers PROVE counts[k] # Uninit
        <3>1. result = "Ok" /\ AtValue(doc, k)
            BY <2>1 DEF WalkInv, Walking
        <3>2. doc \in Seq(Char) /\ AcceptedRight(doc, counts)
            BY <3>1, AcceptedIs, DocType
        <3>3. k \in 1..Len(doc)
            BY <3>1, Zenon DEF AtValue
        <3> HIDE DEF k
        <3>4. Enters(doc, k)
            BY <2>1, <3>1, <3>2, <3>3, Moves DEF AtValue
        <3>5. counts[k] \in Nat
            BY <3>2, <3>3, <3>4, AtOpening
        <3> QED BY <3>5, UninitAssumption
    <2>2. ASSUME at = "Key" PROVE doc[k] \in Quotes /\ doc[k + 1] = ":"
        <3>1. result = "Ok" /\ AtKey(doc, k)
            BY <2>2 DEF WalkInv, Walking
        <3>2. doc \in Seq(Char) /\ AcceptedRight(doc, counts)
            BY <3>1, AcceptedIs, DocType
        <3>3. k \in 1..Len(doc)
            BY <3>1, Zenon DEF AtKey
        <3>4. k + 1 \in 1..Len(doc) + 1
            BY <3>2, <3>3
        <3> HIDE DEF k
        <3>5. Want(doc, k + 1) = "Colon" /\ doc[k] \in Quotes
            BY <3>1 DEF AtKey, Stays, Beginning
        <3> DEFINE m == k + 1
        <3>6. Want(doc, m) = "Colon" /\ m \in 1..Len(doc) + 1
            BY <3>4, <3>5
        <3> HIDE DEF m
        <3>7. doc[m] = ":"
            BY <3>2, <3>6, Begins
        <3> QED BY <3>5, <3>7 DEF m
    <2>3. ASSUME at = AfterValue, calls # << >>
          PROVE  doc[k] = IF calls[n].left > 1 THEN Comma ELSE IF calls[n].of = "array" THEN "]" ELSE "}"
        <3>1. AreCalls(calls)
            BY <2>3, AfterValueIs DEF WalkInv, Walking
        <3>2. ~NoCalls(calls)
            BY <2>3, <3>1, EmptySeq DEF AreCalls, NoCalls
        <3>3. /\ IsCall(calls[n]) /\ doc[Inside(doc, k)] = IF calls[n].of = "map" THEN Brace ELSE "["
              /\ \/ Advances(doc, k) /\ calls[n].left > 1
                 \/ Leaves(doc, k) /\ calls[n].left = 1
            BY <2>3, <3>2, AtElementEnd
        <3>4. CASE Advances(doc, k) /\ calls[n].left > 1
            BY <3>4, Zenon DEF Advances
        <3>5. CASE Leaves(doc, k) /\ calls[n].left = 1
            <4>1. ~(calls[n].left > 1)
                BY <3>5
            <4>2. doc[k] = CloserFor(doc[Inside(doc, k)])
                BY <3>5, Zenon DEF Leaves
            <4>3. calls[n].of = "map" \/ calls[n].of = "array"
                BY <3>3, Zenon DEF IsCall
            <4>4. doc[k] = IF calls[n].of = "array" THEN "]" ELSE "}"
                BY <3>3, <4>2, <4>3, Zenon DEF CloserFor, Brace
            <4> QED BY <4>1, <4>4, Zenon
        <3> QED BY <3>3, <3>4, <3>5
    <2>4. k + 1 = idx + 2
        <3>1. idx \in 0..Len(doc)
            BY DEF WalkInv
        <3>2. idx \in Int
            BY <3>1
        <3> QED BY <3>2
    <2> QED BY <2>1, <2>2, <2>3, <2>4, Zenon DEF WalkOnTrack, AfterValue, Comma
<1> QED BY <1>1, WalkSpec, PTL

---------------------------------------------------------------------------
(* The tree of an accepted document, by places.                            *)

\* Where the elements of the container opened at p begin.
Starts(d, p) ==
    IF ElementCount(d, p) = 0 THEN {} ELSE {p + 1} \union {k + 1 : k \in SeparatorsOf(d, p)}

\* The tree of the value that begins at p, from those of the values behind it.
Node(f, d, p) ==
    LET first == Ascending(Starts(d, p)) IN
    CASE d[p] = "[" -> Array([k \in DOMAIN first |-> f[first[k]]])
      [] d[p] = "{" -> Object([k \in DOMAIN first |-> Member(first[k], f[first[k] + 2])])
      [] OTHER      -> Leaf(p)

\* The tree of the value at each position, where one begins.
Trees(d) == LET tree[p \in 1..Len(d)] == Node(tree, d, p) IN tree

LEMMA TreeIs ==
    ASSUME NEW d
    PROVE  Tree(d) = Trees(d)[1]
PROOF BY DEF Tree, Trees, Node, Starts

\* An element of the container opened at p begins at s.
ElementAt(d, s, p) ==
    /\ s \in p + 1..Len(d) /\ Inside(d, s) = p /\ d[s] \notin Closers
    /\ s = p + 1 \/ (s - 1 \in p + 1..Len(d) /\ Advances(d, s - 1))

LEMMA PlacesIn ==
    ASSUME NEW d, NEW c, d \in Seq(Char), AcceptedRight(d, c)
    PROVE  /\ Len(d) \in Nat /\ \A k \in 1..Len(d) + 1 : Placed(d, k)
           /\ \A k \in 1..Len(d) : Enters(d, k) \/ Stays(d, k) \/ Advances(d, k) \/ Leaves(d, k)
           /\ \A k \in 1..Len(d) : /\ d[k] \in Openers => Enters(d, k)
                                   /\ d[k] \in Closers => Leaves(d, k)
                                   /\ d[k] = Comma => Advances(d, k)
PROOF
<1>1. Len(d) \in Nat /\ Len(d) \in 0..Len(d) /\ Sound(d, Len(d))
    BY DEF AcceptedRight
<1>2. \A k \in 1..Len(d) + 1 : Placed(d, k)
    BY <1>1, AllPlaced
<1>3. \A k \in 1..Len(d) : Want(d, k + 1) # "Stray"
    BY <1>1 DEF Sound
<1> QED BY <1>1, <1>2, <1>3, ByKind, Moves

\* The bracket that closes the one at p, the elements between them.
LEMMA ContainerIs ==
    ASSUME NEW d, NEW c, d \in Seq(Char), AcceptedRight(d, c), NEW p \in 1..Len(d), d[p] \in Openers
    PROVE  \E q \in p + 1..Len(d) :
              /\ Leaves(d, q) /\ Inside(d, q) = p
              /\ \A r \in q + 1..Len(d) + 1 : Inside(d, r) # p
              /\ c[p] = IF q = p + 1 THEN 0 ELSE Ordinal(d, q)
              /\ Starts(d, p) = IF q = p + 1 THEN {} ELSE {p + 1} \union {k + 1 : k \in CommasOf(d, p, q)}
PROOF
<1> DEFINE n == Len(d)
<1>1. n \in Nat /\ n \in 0..Len(d) /\ p \in 1..n /\ p \in 1..n + 1 /\ p \in Nat
    OBVIOUS
<1>2. Sound(d, n) /\ Level(d, n + 1) = 0
    BY DEF AcceptedRight
<1> HIDE DEF n
<1>3. \A r \in 1..n + 1 : Placed(d, r)
    BY <1>1, <1>2, AllPlaced
<1>4. Level(d, n + 1) <= Level(d, p)
    <2>1. Level(d, p) \in Nat
        BY <1>1, <1>3 DEF Placed, PlacedIn
    <2> QED BY <1>2, <2>1
<1>5. PICK q \in p + 1..n : /\ Leaves(d, q) /\ Inside(d, q) = p
                            /\ \A m \in p + 1..q : Level(d, m) > Level(d, p)
    BY <1>1, <1>2, <1>4, Closed
<1>6. q \in 1..n /\ q \in 1..n + 1 /\ q \in Nat /\ d[q] \in Closers
    <2>1. q \in 1..n /\ q \in 1..n + 1 /\ q \in Nat
        BY <1>1
    <2> QED BY <1>5, <2>1 DEF Leaves
<1>7. /\ ElementCount(d, p) = IF Want(d, q) \in First THEN 0 ELSE Ordinal(d, q)
      /\ CloserOf(d, p) = q /\ SeparatorsOf(d, p) = CommasOf(d, p, q)
    BY <1>1, <1>2, <1>5, CountIs DEF n
<1>8. c[p] = ElementCount(d, p)
    BY <1>5, <1>6, <1>7 DEF AcceptedRight, n
<1>9. \A r \in q + 1..n + 1 : Inside(d, r) # p
    BY <1>1, <1>2, <1>5, <1>6, ClosedOnce
<1>10. ElementCount(d, p) = 0 <=> q = p + 1
    <2>1. ElementCount(d, p) = IF q = p + 1 THEN 0 ELSE 1 + Cardinality(CommasOf(d, p, q))
        BY <1>7 DEF ElementCount
    <2>2. IsFiniteSet(CommasOf(d, p, q))
        BY <1>1, <1>3, <1>5, <1>6 DEF Placed, PlacedIn
    <2>3. Cardinality(CommasOf(d, p, q)) \in Nat
        BY <2>2, FS_CardinalityType
    <2> QED BY <2>1, <2>3
<1>11. q # p + 1 => ElementCount(d, p) = Ordinal(d, q)
    <2>1. ASSUME q # p + 1 PROVE Want(d, q) \notin First
        <3>1. ElementCount(d, p) # 0
            BY <1>10, <2>1
        <3> QED BY <1>7, <3>1
    <2> QED BY <1>7, <2>1
<1> QED BY <1>5, <1>7, <1>8, <1>9, <1>10, <1>11 DEF Starts, n

\* The elements of a container, in order: an element begins behind the bracket
\* or behind a comma, and the ordinal of its place is its number.
LEMMA StartsAre ==
    ASSUME NEW d, NEW c, d \in Seq(Char), AcceptedRight(d, c), NEW p \in 1..Len(d), d[p] \in Openers
    PROVE  /\ Starts(d, p) \subseteq Nat /\ IsFiniteSet(Starts(d, p)) /\ Cardinality(Starts(d, p)) = c[p]
           /\ \A s : s \in Starts(d, p) <=> ElementAt(d, s, p)
           /\ \A s \in Starts(d, p) :
                 /\ Ordinal(d, s) \in Nat \ {0}
                 /\ Cardinality({y \in Starts(d, p) : y < s}) = Ordinal(d, s) - 1
PROOF
<1> DEFINE n == Len(d)
           S == Starts(d, p)
<1>1. /\ n \in Nat /\ p \in 1..n /\ p \in 1..n + 1 /\ p \in Nat
      /\ \A k \in 1..n + 1 : Placed(d, k)
      /\ \A k \in 1..n : /\ Enters(d, k) \/ Stays(d, k) \/ Advances(d, k) \/ Leaves(d, k)
                         /\ d[k] \in Openers => Enters(d, k)
                         /\ d[k] \in Closers => Leaves(d, k)
                         /\ d[k] = Comma => Advances(d, k)
    BY PlacesIn
<1>2. PICK q \in p + 1..n :
         /\ Leaves(d, q) /\ Inside(d, q) = p
         /\ \A r \in q + 1..n + 1 : Inside(d, r) # p
         /\ c[p] = IF q = p + 1 THEN 0 ELSE Ordinal(d, q)
         /\ S = IF q = p + 1 THEN {} ELSE {p + 1} \union {k + 1 : k \in CommasOf(d, p, q)}
    BY ContainerIs
<1> HIDE DEF n, S
<1>3. q \in 1..n /\ q \in 1..n + 1 /\ q \in Nat /\ q \in Int
    BY <1>1
<1>4. Enters(d, p) /\ Inside(d, p + 1) = p /\ Ordinal(d, p + 1) = 1 /\ Want(d, p + 1) \in First
    <2>1. Enters(d, p)
        BY <1>1
    <2> QED BY <2>1 DEF Enters, First
\* A position of a comma of the container.
<1>5. ASSUME NEW k \in p + 1..n, Advances(d, k), Inside(d, k) = p
      PROVE  /\ k \in 1..n /\ k \in 1..n + 1 /\ k + 1 \in 1..n + 1 /\ k < q /\ k \in CommasOf(d, p, q)
             /\ Inside(d, k + 1) = p /\ k + 1 \in p + 1..n /\ k + 1 - 1 = k /\ d[k + 1] \notin Closers
             /\ p + 1 \in 1..n /\ q # p + 1
             /\ IsFiniteSet(CommasOf(d, p, k)) /\ Cardinality(CommasOf(d, p, k)) \in Nat
             /\ Ordinal(d, k + 1) = 1 + Cardinality(CommasOf(d, p, k)) + 1
    <2>1. k \in 1..n /\ k \in 1..n + 1 /\ k + 1 \in 1..n + 1 /\ k \in Nat /\ k + 1 - 1 = k
        BY <1>1
    <2>2. k # q
        BY <1>2, <1>5 DEF Leaves, Advances, First
    <2>3. k \notin q + 1..n + 1
        BY <1>2, <1>5
    <2>4. k < q /\ k + 1 \in p + 1..n
        BY <1>1, <1>3, <2>1, <2>2, <2>3
    <2>5. k \in CommasOf(d, p, q)
        BY <1>3, <1>5, <2>1, <2>4 DEF CommasOf, Advances
    <2>6. /\ Inside(d, k + 1) = p /\ Want(d, k + 1) \in {"Key", "Value"}
          /\ Ordinal(d, k + 1) = Ordinal(d, k) + 1
        BY <1>5 DEF Advances
    <2>7. d[k + 1] \notin Closers
        <3>1. k + 1 \in 1..n
            BY <1>1, <2>4
        <3>2. ~Leaves(d, k + 1)
            BY <2>6 DEF Leaves, First
        <3> QED BY <1>1, <3>1, <3>2
    <2>8. IsFiniteSet(CommasOf(d, p, k)) /\ Ordinal(d, k) = 1 + Cardinality(CommasOf(d, p, k))
        BY <1>1, <1>5, <2>1 DEF Placed, PlacedIn
    <2>9. Cardinality(CommasOf(d, p, k)) \in Nat
        BY <2>8, FS_CardinalityType
    <2>10. p + 1 \in 1..n /\ q # p + 1
        BY <1>1, <2>1, <2>4
    <2> QED BY <2>1, <2>4, <2>5, <2>6, <2>7, <2>8, <2>9, <2>10
<1>6. ASSUME NEW k \in CommasOf(d, p, q)
      PROVE  k \in p + 1..n /\ Advances(d, k) /\ Inside(d, k) = p
    <2>1. k \in p + 1..q - 1 /\ d[k] = Comma /\ Inside(d, k) = p
        BY DEF CommasOf
    <2>2. k \in p + 1..n /\ k \in 1..n
        BY <1>1, <1>3, <2>1
    <2> QED BY <1>1, <2>1, <2>2
<1>7. q # p + 1 => d[p + 1] \notin Closers /\ p + 1 \in 1..n /\ p + 1 \in p + 1..n
    <2> SUFFICES ASSUME q # p + 1 PROVE d[p + 1] \notin Closers /\ p + 1 \in 1..n /\ p + 1 \in p + 1..n
        OBVIOUS
    <2>1. p + 1 \in 1..n /\ p + 1 \in p + 1..n /\ q \in p + 1 + 1..n + 1
        BY <1>1, <1>3
    <2>2. ASSUME d[p + 1] \in Closers PROVE FALSE
        <3>1. Leaves(d, p + 1)
            BY <1>1, <2>1, <2>2
        <3> DEFINE k == p + 1
        <3>2. k \in 1..n /\ Leaves(d, k) /\ q \in k + 1..n + 1 /\ Inside(d, k) = p
            BY <1>4, <2>1, <3>1
        <3> HIDE DEF k
        <3>3. n \in 0..Len(d) /\ Sound(d, n)
            BY <1>1 DEF AcceptedRight, n
        <3>4. Inside(d, q) # Inside(d, k)
            BY <3>2, <3>3, ClosedOnce
        <3> QED BY <1>2, <3>2, <3>4
    <2> QED BY <2>1, <2>2
<1>8. ASSUME NEW s PROVE s \in S <=> ElementAt(d, s, p)
    <2>1. ASSUME s \in S PROVE ElementAt(d, s, p)
        <3>1. q # p + 1 /\ (s = p + 1 \/ \E k \in CommasOf(d, p, q) : s = k + 1)
            BY <1>2, <2>1
        <3>2. CASE s = p + 1
            BY <1>4, <1>7, <3>1, <3>2 DEF ElementAt, n
        <3>3. CASE \E k \in CommasOf(d, p, q) : s = k + 1
            <4>1. PICK k \in CommasOf(d, p, q) : s = k + 1
                BY <3>3
            <4>2. k \in p + 1..n /\ Advances(d, k) /\ Inside(d, k) = p
                BY <1>6
            <4>3. Inside(d, k + 1) = p /\ k + 1 \in p + 1..n /\ k + 1 - 1 = k /\ d[k + 1] \notin Closers
                BY <1>5, <4>2
            <4> QED BY <4>1, <4>2, <4>3 DEF ElementAt, n
        <3> QED BY <3>1, <3>2, <3>3
    <2>2. ASSUME ElementAt(d, s, p) PROVE s \in S
        <3>1. s \in p + 1..n /\ Inside(d, s) = p /\ d[s] \notin Closers
            BY <2>2 DEF ElementAt, n
        <3>2. CASE s = p + 1
            <4>1. d[q] \in Closers
                BY <1>2 DEF Leaves
            <4>2. q # p + 1
                BY <3>1, <3>2, <4>1
            <4> QED BY <1>2, <3>2, <4>2
        <3>3. CASE s - 1 \in p + 1..n /\ Advances(d, s - 1)
            <4> DEFINE k == s - 1
            <4>1. k \in p + 1..n /\ Advances(d, k) /\ s = k + 1
                BY <1>1, <3>1, <3>3
            <4> HIDE DEF k
            <4>2. Inside(d, k) = p
                BY <3>1, <4>1 DEF Advances
            <4>3. k \in CommasOf(d, p, q) /\ q # p + 1
                BY <1>5, <4>1, <4>2
            <4> QED BY <1>2, <4>1, <4>3
        <3> QED BY <2>2, <3>2, <3>3 DEF ElementAt, n
    <2> QED BY <2>1, <2>2
\* The elements that begin up to some position r of the container, but the first.
<1>9. ASSUME NEW r \in p + 1..q, IsFiniteSet(CommasOf(d, p, r)),
             NEW T, T = {k + 1 : k \in CommasOf(d, p, r)}
      PROVE  IsFiniteSet(T) /\ Cardinality(T) = Cardinality(CommasOf(d, p, r)) /\ T \subseteq Nat /\ p + 1 \notin T
    <2>1. CommasOf(d, p, r) \subseteq Nat /\ \A k \in CommasOf(d, p, r) : k >= p + 1
        BY <1>1 DEF CommasOf
    <2> DEFINE C == CommasOf(d, p, r)
    <2> HIDE DEF C
    <2>2. C \subseteq Nat /\ IsFiniteSet(C) /\ T \subseteq Nat /\ 1 \in Nat
          /\ (\A k \in C : k + 1 \in T) /\ \A t \in T : \E k \in C : t = k + 1
        BY <1>9, <2>1 DEF C
    <2>3. IsFiniteSet(T) /\ Cardinality(T) = Cardinality(C)
        BY <2>2, ShiftedSize
    <2>4. p + 1 \notin T
        BY <1>1, <1>9, <2>1
    <2> QED BY <2>2, <2>3, <2>4 DEF C
<1>10. S \subseteq Nat /\ IsFiniteSet(S) /\ Cardinality(S) = c[p]
    <2>1. CASE q = p + 1
        BY <1>2, <2>1, FS_EmptySet
    <2>2. CASE q # p + 1
        <3> DEFINE T == {k + 1 : k \in CommasOf(d, p, q)}
        <3>1. q \in p + 1..q /\ p + 1 \in Nat
            BY <1>1, <1>3
        <3>2. IsFiniteSet(CommasOf(d, p, q)) /\ Ordinal(d, q) = 1 + Cardinality(CommasOf(d, p, q))
            BY <1>1, <1>2, <1>3 DEF Placed, PlacedIn
        <3>3. IsFiniteSet(T) /\ Cardinality(T) = Cardinality(CommasOf(d, p, q)) /\ T \subseteq Nat /\ p + 1 \notin T
            BY <1>9, <3>1, <3>2
        <3>4. S = T \union {p + 1} /\ c[p] = Ordinal(d, q)
            BY <1>2, <2>2
        <3> HIDE DEF T
        <3>5. IsFiniteSet(T \union {p + 1}) /\ Cardinality(T \union {p + 1}) = Cardinality(T) + 1
            BY <3>3, FS_AddElement
        <3>6. Cardinality(T) \in Nat
            BY <3>3, FS_CardinalityType
        <3> QED BY <3>1, <3>2, <3>3, <3>4, <3>5, <3>6
    <2> QED BY <2>1, <2>2
<1>11. ASSUME NEW s \in S
       PROVE  Ordinal(d, s) \in Nat \ {0} /\ Cardinality({y \in S : y < s}) = Ordinal(d, s) - 1
    <2>1. q # p + 1 /\ (s = p + 1 \/ \E k \in CommasOf(d, p, q) : s = k + 1)
        BY <1>2
    <2>2. CASE s = p + 1
        <3>1. \A y \in S : ~(y < p + 1)
            BY <1>1, <1>2, <1>6
        <3>2. {y \in S : y < s} = {}
            BY <2>2, <3>1
        <3>3. Cardinality({y \in S : y < s}) = 0
            BY <3>2, FS_EmptySet
        <3>4. Ordinal(d, s) = 1
            BY <1>4, <2>2
        <3> QED BY <3>3, <3>4
    <2>3. CASE \E k \in CommasOf(d, p, q) : s = k + 1
        <3>1. PICK k \in CommasOf(d, p, q) : s = k + 1
            BY <2>3
        <3>2. /\ k \in p + 1..n /\ k < q /\ k \in Nat
              /\ IsFiniteSet(CommasOf(d, p, k)) /\ Cardinality(CommasOf(d, p, k)) \in Nat
              /\ Ordinal(d, k + 1) = 1 + Cardinality(CommasOf(d, p, k)) + 1
            <4>1. k \in p + 1..n /\ Advances(d, k) /\ Inside(d, k) = p
                BY <1>6
            <4> QED BY <1>1, <1>5, <4>1
        <3> DEFINE T == {j + 1 : j \in CommasOf(d, p, k)}
        <3>3. k \in p + 1..q
            BY <1>3, <3>2
        <3>4. IsFiniteSet(T) /\ Cardinality(T) = Cardinality(CommasOf(d, p, k)) /\ T \subseteq Nat /\ p + 1 \notin T
            BY <1>9, <3>2, <3>3
        <3>5. {y \in S : y < s} = T \union {p + 1}
            <4>1. ASSUME NEW j PROVE j \in CommasOf(d, p, k) <=> j \in CommasOf(d, p, q) /\ j < k
                BY <1>1, <1>3, <3>2 DEF CommasOf
            <4>2. S = {p + 1} \union {j + 1 : j \in CommasOf(d, p, q)}
                BY <1>2, <2>1
            <4>3. p + 1 < k + 1 /\ \A j \in CommasOf(d, p, q) : j \in Nat /\ (j + 1 < k + 1 <=> j < k)
                BY <1>1, <1>6, <3>2
            <4> QED BY <3>1, <4>1, <4>2, <4>3
        <3> HIDE DEF T
        <3>6. Cardinality(T \union {p + 1}) = Cardinality(T) + 1
            BY <3>4, FS_AddElement
        <3>7. Cardinality({y \in S : y < s}) = Cardinality(CommasOf(d, p, k)) + 1
            BY <3>4, <3>5, <3>6
        <3>8. Ordinal(d, s) = 1 + Cardinality(CommasOf(d, p, k)) + 1
            BY <3>1, <3>2
        <3> DEFINE x == Cardinality(CommasOf(d, p, k))
                   y == Cardinality({t \in S : t < s})
                   o == Ordinal(d, s)
        <3>9. x \in Nat /\ y = x + 1 /\ o = 1 + x + 1
            BY <3>2, <3>7, <3>8
        <3> HIDE DEF x, y, o
        <3>10. o \in Nat \ {0} /\ y = o - 1
            BY <3>9
        <3> QED BY <3>10 DEF y, o
    <2> QED BY <2>1, <2>2, <2>3
<1> QED BY <1>8, <1>10, <1>11 DEF S

\* The members of a set in order, each at its rank.
LEMMA AscendingIs ==
    ASSUME NEW S, S \subseteq Nat, IsFiniteSet(S)
    PROVE  /\ DOMAIN Ascending(S) = 1..Cardinality(S)
           /\ \A k \in 1..Cardinality(S) : Ascending(S)[k] \in S
           /\ \A s \in S, k \in Nat \ {0} :
                 Cardinality({y \in S : y < s}) = k - 1
                    => k \in 1..Cardinality(S) /\ Ascending(S)[k] = s
PROOF
<1> DEFINE n == Cardinality(S)
           Rank(x) == Cardinality({y \in S : y < x})
<1>1. n \in Nat
    BY FS_CardinalityType
<1>2. /\ DOMAIN Ascending(S) = 1..n
      /\ \A k \in 1..n : Ascending(S)[k] = CHOOSE x \in S : Rank(x) = k - 1
    BY DEF Ascending
<1> HIDE DEF n, Rank
<1>3. \A x, y \in S : Rank(x) = Rank(y) => x = y
    <2> SUFFICES ASSUME NEW x \in S, NEW y \in S, Rank(x) = Rank(y), x # y PROVE FALSE
        OBVIOUS
    <2>1. x < y \/ y < x
        OBVIOUS
    <2>2. Rank(x) < Rank(y) \/ Rank(y) < Rank(x)
        BY <2>1, RankStrict DEF Rank
    <2>3. Rank(x) \in Nat
        <3>1. IsFiniteSet({z \in S : z < x})
            BY FS_Subset
        <3> QED BY <3>1, FS_CardinalityType DEF Rank
    <2> QED BY <2>2, <2>3
<1>4. ASSUME NEW k \in 1..n PROVE Ascending(S)[k] \in S
    <2>1. k - 1 \in 0..n - 1
        BY <1>1
    <2>2. \E x \in S : Rank(x) = k - 1
        BY <2>1, RankExists DEF n, Rank
    <2> QED BY <1>2, <2>2
<1>5. ASSUME NEW s \in S, NEW k \in Nat \ {0}, Rank(s) = k - 1
      PROVE  k \in 1..n /\ Ascending(S)[k] = s
    <2> DEFINE T == {y \in S : y < s}
    <2>1. T \subseteq S /\ s \notin T
        OBVIOUS
    <2> HIDE DEF T
    <2>2. IsFiniteSet(T) /\ Cardinality(T) <= n /\ Cardinality(T) # n
        BY <2>1, FS_Subset DEF n
    <2>3. Cardinality(T) = k - 1
        BY <1>5 DEF Rank, T
    <2>4. k \in 1..n
        BY <1>1, <2>2, <2>3
    <2>5. Ascending(S)[k] = CHOOSE x \in S : Rank(x) = k - 1
        BY <1>2, <2>4
    <2> QED BY <1>3, <1>5, <2>4, <2>5
<1> QED BY <1>2, <1>4, <1>5 DEF n, Rank

\* The element at s is the one that its ordinal says.
LEMMA FirstIs ==
    ASSUME NEW d, NEW c, d \in Seq(Char), AcceptedRight(d, c), NEW p \in 1..Len(d), d[p] \in Openers
    PROVE  /\ DOMAIN Ascending(Starts(d, p)) = 1..c[p]
           /\ \A k \in 1..c[p] : ElementAt(d, Ascending(Starts(d, p))[k], p)
           /\ \A s : ElementAt(d, s, p) =>
                 /\ Ordinal(d, s) \in Nat \ {0} /\ Ordinal(d, s) \in 1..c[p]
                 /\ Ascending(Starts(d, p))[Ordinal(d, s)] = s
PROOF
<1> DEFINE S == Starts(d, p)
<1>1. /\ S \subseteq Nat /\ IsFiniteSet(S) /\ Cardinality(S) = c[p]
      /\ \A s : s \in S <=> ElementAt(d, s, p)
      /\ \A s \in S : Ordinal(d, s) \in Nat \ {0} /\ Cardinality({y \in S : y < s}) = Ordinal(d, s) - 1
    BY StartsAre
<1> HIDE DEF S
<1>2. /\ DOMAIN Ascending(S) = 1..Cardinality(S)
      /\ \A k \in 1..Cardinality(S) : Ascending(S)[k] \in S
      /\ \A s \in S, k \in Nat \ {0} :
            Cardinality({y \in S : y < s}) = k - 1 => k \in 1..Cardinality(S) /\ Ascending(S)[k] = s
    BY <1>1, AscendingIs
<1> QED BY <1>1, <1>2 DEF S

\* A member of an object is a key, a colon and a value.
LEMMA MemberAt ==
    ASSUME NEW d, NEW c, d \in Seq(Char), AcceptedRight(d, c), NEW p \in 1..Len(d), d[p] = Brace,
           NEW s, ElementAt(d, s, p)
    PROVE  AtKey(d, s) /\ s + 1 \in 1..Len(d) /\ Stays(d, s + 1) /\ s + 2 \in p + 1..Len(d)
PROOF
<1>1. s \in p + 1..Len(d) /\ Inside(d, s) = p /\ d[s] \notin Closers
    BY DEF ElementAt
<1>2. /\ Len(d) \in Nat /\ s \in 1..Len(d) /\ s + 1 \in 1..Len(d) + 1 /\ p \in Nat /\ s \in Nat
      /\ s + 1 + 1 = s + 2
    BY <1>1
<1>3. /\ Enters(d, s) \/ Stays(d, s) \/ Advances(d, s) \/ Leaves(d, s)
      /\ d[p] \in Openers => Enters(d, p)
    BY <1>2, PlacesIn
<1>4. Want(d, s) \in {"FirstKey", "Key"}
    <2>1. CASE s = p + 1
        <3>1. Enters(d, p)
            BY <1>3 DEF Openers, Brace
        <3> QED BY <2>1, <3>1 DEF Enters
    <2>2. CASE s - 1 \in p + 1..Len(d) /\ Advances(d, s - 1)
        <3> DEFINE k == s - 1
        <3>1. Advances(d, k) /\ s = k + 1
            BY <1>2, <2>2
        <3> HIDE DEF k
        <3>2. Inside(d, k) = p
            BY <1>1, <3>1 DEF Advances
        <3> QED BY <3>1, <3>2 DEF Advances
    <2> QED BY <2>1, <2>2 DEF ElementAt
<1>5. Stays(d, s)
    BY <1>1, <1>3, <1>4 DEF Enters, Advances, Leaves, Beginning
<1>6. Want(d, s + 1) = "Colon"
    BY <1>4, <1>5 DEF Stays, Beginning
<1>7. s + 1 \in 1..Len(d) /\ Stays(d, s + 1)
    <2> DEFINE m == s + 1
    <2>1. m \in 1..Len(d) + 1 /\ Want(d, m) = "Colon"
        BY <1>2, <1>6
    <2> HIDE DEF m
    <2>2. m \in 1..Len(d) /\ Stays(d, m)
        BY <2>1, Begins
    <2> QED BY <2>2 DEF m
<1>8. Want(d, s + 2) = "Value"
    BY <1>2, <1>6, <1>7, Zenon DEF Stays, Beginning
<1>9. s + 2 \in 1..Len(d)
    <2> DEFINE m == s + 2
    <2>1. m \in 1..Len(d) + 1 /\ Want(d, m) = "Value"
        BY <1>2, <1>7, <1>8
    <2> HIDE DEF m
    <2>2. AtValue(d, m)
        BY <2>1, Begins
    <2>3. m \in 1..Len(d)
        BY <2>2 DEF AtValue
    <2> QED BY <2>3 DEF m
<1> QED BY <1>1, <1>2, <1>4, <1>5, <1>7, <1>9 DEF AtKey

\* The tree of a value is made of those of its elements, which begin behind it.
LEMMA NodeAgrees ==
    ASSUME NEW d, NEW c, d \in Seq(Char), AcceptedRight(d, c), NEW p \in 1..Len(d),
           NEW f, NEW g, \A q \in p + 1..Len(d) : f[q] = g[q]
    PROVE  Node(f, d, p) = Node(g, d, p)
PROOF
<1> DEFINE first == Ascending(Starts(d, p))
<1>1. CASE d[p] \in Openers
    <2>1. /\ DOMAIN first = 1..c[p]
          /\ \A k \in 1..c[p] : ElementAt(d, first[k], p)
        BY <1>1, FirstIs
    <2> HIDE DEF first
    <2>2. ASSUME NEW k \in DOMAIN first
          PROVE  /\ f[first[k]] = g[first[k]]
                 /\ d[p] = Brace => f[first[k] + 2] = g[first[k] + 2]
        <3>1. ElementAt(d, first[k], p)
            BY <2>1
        <3>2. first[k] \in p + 1..Len(d)
            BY <3>1 DEF ElementAt
        <3>3. d[p] = Brace => first[k] + 2 \in p + 1..Len(d)
            BY <3>1, MemberAt
        <3> QED BY <3>2, <3>3
    <2>3. [k \in DOMAIN first |-> f[first[k]]] = [k \in DOMAIN first |-> g[first[k]]]
        BY <2>2
    <2>4. d[p] = "{" => [k \in DOMAIN first |-> Member(first[k], f[first[k] + 2])]
                          = [k \in DOMAIN first |-> Member(first[k], g[first[k] + 2])]
        BY <2>2 DEF Brace
    <2> QED BY <2>3, <2>4 DEF Node, first
<1>2. CASE d[p] \notin Openers
    BY <1>2 DEF Node, Openers
<1> QED BY <1>1, <1>2

LEMMA TreesDef ==
    ASSUME NEW d, NEW c, d \in Seq(Char), AcceptedRight(d, c)
    PROVE  \A p \in 1..Len(d) : Trees(d)[p] = Node(Trees(d), d, p)
PROOF
<1> DEFINE n == Len(d)
           S == {m \in Nat : \E f : f = [p \in n - m + 1..n |-> Node(f, d, p)]}
<1>1. n \in Nat
    OBVIOUS
<1>2. 0 \in S
    <2> DEFINE f == [p \in n - 0 + 1..n |-> TRUE]
    <2>1. \A p \in n - 0 + 1..n : FALSE
        BY <1>1
    <2>2. f = [p \in n - 0 + 1..n |-> Node(f, d, p)]
        BY <2>1
    <2> QED BY <2>2
<1>3. ASSUME NEW m \in 0..n - 1, m \in S PROVE m + 1 \in S
    <2>1. PICK f : f = [p \in n - m + 1..n |-> Node(f, d, p)]
        BY <1>3
    <2> DEFINE a == n - m
               g == [p \in a..n |-> IF p = a THEN Node(f, d, p) ELSE f[p]]
    <2>2. a \in 1..n /\ n - (m + 1) + 1 = a /\ n - m + 1 = a + 1 /\ m + 1 \in Nat
        BY <1>1
    <2>3. f = [p \in a + 1..n |-> Node(f, d, p)]
        BY <2>1, <2>2
    <2> HIDE DEF a
    <2>4. \A p \in a + 1..n : p \in a..n /\ p # a
        BY <2>2
    <2>5. \A p \in a + 1..n : f[p] = g[p] /\ f[p] = Node(f, d, p)
        BY <2>3, <2>4
    <2>6. \A p \in a..n : g[p] = Node(f, d, p)
        <3>1. \A p \in a..n : p # a => p \in a + 1..n
            BY <2>2
        <3> QED BY <2>5, <3>1
    <2>7. \A p \in a..n : Node(f, d, p) = Node(g, d, p)
        <3> SUFFICES ASSUME NEW p \in a..n PROVE Node(f, d, p) = Node(g, d, p)
            OBVIOUS
        <3>1. p \in 1..n /\ \A q \in p + 1..n : q \in a + 1..n
            BY <2>2
        <3>2. \A q \in p + 1..n : f[q] = g[q]
            BY <2>5, <3>1
        <3> HIDE DEF g
        <3> QED BY <3>1, <3>2, NodeAgrees
    <2>8. g = [p \in a..n |-> g[p]]
        OBVIOUS
    <2>9. g = [p \in a..n |-> Node(g, d, p)]
        <3> HIDE DEF g
        <3> QED BY <2>6, <2>7, <2>8
    <2> HIDE DEF g
    <2> QED BY <2>2, <2>9
<1> HIDE DEF S
<1>4. 0..n \subseteq S
    <2> HIDE DEF n
    <2> QED BY <1>1, <1>2, <1>3, Induction
<1>5. n \in S /\ n - n + 1 = 1
    BY <1>1, <1>4
<1>6. \E f : f = [p \in 1..n |-> Node(f, d, p)]
    BY <1>5 DEF S
<1>7. Trees(d) = CHOOSE f : f = [p \in 1..n |-> Node(f, d, p)]
    BY DEF Trees
<1>8. Trees(d) = [p \in 1..n |-> Node(Trees(d), d, p)]
    BY <1>6, <1>7
<1> QED BY <1>8

---------------------------------------------------------------------------
(* The elements a call has read are the first of its container's tree.     *)

\* The element of the container opened at p that begins at s.
ItemAt(d, p, s) == IF d[p] = Brace THEN Member(s, Trees(d)[s + 2]) ELSE Trees(d)[s]

\* The first n elements of that container.
Items(d, p, n) == [k \in 1..n |-> ItemAt(d, p, Ascending(Starts(d, p))[k])]

Kind(d, p) == IF d[p] = Brace THEN "map" ELSE "array"

LEMMA NoItems ==
    ASSUME NEW d, NEW p
    PROVE  Items(d, p, 0) = << >>
PROOF
<1> DEFINE f == Items(d, p, 0)
<1>1. f = [k \in 1..0 |-> f[k]]
    BY DEF Items
<1> HIDE DEF f
<1>2. f \in Seq({}) /\ Len(f) = 0
    BY <1>1
<1> QED BY <1>2, EmptySeq DEF f

LEMMA OneMore ==
    ASSUME NEW d, NEW p, NEW n \in Nat \ {0}
    PROVE  Append(Items(d, p, n - 1), ItemAt(d, p, Ascending(Starts(d, p))[n])) = Items(d, p, n)
PROOF
<1> DEFINE I(k) == ItemAt(d, p, Ascending(Starts(d, p))[k])
           V == {I(k) : k \in 1..n}
           s == [k \in 1..n - 1 |-> I(k)]
           t == [k \in 1..n |-> I(k)]
<1>1. n - 1 \in Nat /\ n - 1 + 1 = n /\ \A k \in 1..n : k \in 1..n - 1 \/ k = n
    OBVIOUS
<1>2. \A k \in 1..n - 1 : k \in 1..n /\ k # n
    OBVIOUS
<1> HIDE DEF I
<1>3. s \in Seq(V) /\ Len(s) = n - 1 /\ I(n) \in V
    BY <1>1, <1>2
<1>4. t \in Seq(V) /\ Len(t) = n
    BY <1>1
<1>5. \A k \in 1..n - 1 : s[k] = I(k)
    OBVIOUS
<1>6. \A k \in 1..n : t[k] = I(k)
    OBVIOUS
<1> HIDE DEF V, s, t
<1>7. /\ Append(s, I(n)) \in Seq(V) /\ Len(Append(s, I(n))) = n /\ Append(s, I(n))[n] = I(n)
      /\ \A k \in 1..n - 1 : Append(s, I(n))[k] = s[k]
    BY <1>1, <1>3, AppendProperties
<1>8. Append(s, I(n)) = t
    <2>1. \A k \in 1..n : Append(s, I(n))[k] = t[k]
        BY <1>1, <1>2, <1>5, <1>6, <1>7
    <2> QED BY <1>4, <1>7, <2>1, SeqEqual
<1> QED BY <1>8 DEF s, t, I, Items

\* The tree of a container is what its call returns with all of its elements.
LEMMA TreeAtIs ==
    ASSUME NEW d, NEW c, d \in Seq(Char), AcceptedRight(d, c), NEW p \in 1..Len(d)
    PROVE  Trees(d)[p] = IF d[p] \in Openers THEN Whole(Kind(d, p), Items(d, p, c[p])) ELSE Leaf(p)
PROOF
<1> DEFINE first == Ascending(Starts(d, p))
<1>1. Trees(d)[p] = Node(Trees(d), d, p)
    BY TreesDef
<1>2. CASE d[p] \in Openers
    <2>1. DOMAIN first = 1..c[p]
        BY <1>2, FirstIs
    <2> HIDE DEF first
    <2>2. CASE d[p] = Brace
        <3>1. Items(d, p, c[p]) = [k \in DOMAIN first |-> Member(first[k], Trees(d)[first[k] + 2])]
            BY <2>1, <2>2 DEF Items, ItemAt, first
        <3>2. Node(Trees(d), d, p) = Object([k \in DOMAIN first |-> Member(first[k], Trees(d)[first[k] + 2])])
            BY <2>2 DEF Node, Brace, first
        <3> QED BY <1>1, <1>2, <2>2, <3>1, <3>2 DEF Whole, Kind
    <2>3. CASE d[p] # Brace
        <3>1. Items(d, p, c[p]) = [k \in DOMAIN first |-> Trees(d)[first[k]]]
            BY <2>1, <2>3 DEF Items, ItemAt, first
        <3>2. d[p] = "["
            BY <1>2, <2>3 DEF Openers, Brace
        <3>3. Node(Trees(d), d, p) = Array([k \in DOMAIN first |-> Trees(d)[first[k]]])
            BY <3>2 DEF Node, first
        <3> QED BY <1>1, <1>2, <2>3, <3>1, <3>3 DEF Whole, Kind
    <2> QED BY <2>2, <2>3
<1>3. CASE d[p] \notin Openers
    BY <1>1, <1>3 DEF Node, Openers
<1> QED BY <1>2, <1>3

---------------------------------------------------------------------------
(* The values read so far.                                                 *)

\* The value that call j reads, or the whole one if there is none, begins at v.
Under(d, cs, op, j, v) ==
    IF j = 0 THEN v = 1
    ELSE IF cs[j].of = "map"
    THEN /\ ElementAt(d, cs[j].key, op[j]) /\ Ordinal(d, cs[j].key) = Ordinal(d, v)
         /\ v = cs[j].key + 2
    ELSE ElementAt(d, v, op[j])

Built(d, cs, op, k) ==
    /\ \A j \in 1..Len(cs) : cs[j].items = Items(d, op[j], Ordinal(d, PlaceOf(cs, op, k, j)) - 1)
    /\ \A j \in 0..Len(cs) - 1 : Under(d, cs, op, j, op[j + 1])

\* Two paths that meet are the same up to there.
AgreeTo(op, up, n) == \A j \in 1..n : op[j] = up[j]

LEMMA PathsAgree ==
    ASSUME NEW d, NEW c, NEW cs, NEW op, NEW k, Opened(d, c, cs, k, op), Len(cs) \in Nat,
           NEW ds, NEW up, NEW m, Opened(d, c, ds, m, up), Len(ds) \in Nat,
           NEW n \in Nat, n <= Len(cs), n <= Len(ds), n # 0 => op[n] = up[n]
    PROVE  AgreeTo(op, up, n)
PROOF
<1> SUFFICES \A j \in 1..n : op[j] = up[j]
    BY DEF AgreeTo
<1> DEFINE S == {q \in Nat : \A j \in 1..n : j > n - q - 1 => op[j] = up[j]}
<1>1. 0 \in S
    <2>1. \A j \in 1..n : j > n - 0 - 1 => j = n /\ n # 0
        OBVIOUS
    <2> QED BY <2>1
<1>2. ASSUME NEW q \in 0..n - 1, q \in S PROVE q + 1 \in S
    <2>1. ASSUME NEW j \in 1..n, j > n - (q + 1) - 1 PROVE op[j] = up[j]
        <3>1. CASE j > n - q - 1
            BY <1>2, <3>1
        <3>2. CASE j = n - q - 1
            <4>1. j + 1 \in 1..n /\ j + 1 > n - q - 1 /\ j # Len(cs) /\ j # Len(ds)
                  /\ j \in 1..Len(cs) /\ j \in 1..Len(ds)
                BY <3>2
            <4>2. op[j + 1] = up[j + 1]
                BY <1>2, <4>1
            <4>3. PlaceOf(cs, op, k, j) = op[j + 1] /\ PlaceOf(ds, up, m, j) = up[j + 1]
                BY <4>1 DEF PlaceOf
            <4>4. op[j] = Inside(d, op[j + 1]) /\ up[j] = Inside(d, up[j + 1])
                BY <4>1, <4>3 DEF Opened
            <4> QED BY <4>2, <4>4
        <3> QED BY <2>1, <3>1, <3>2
    <2>2. q + 1 \in Nat
        OBVIOUS
    <2> QED BY <2>1, <2>2
<1> HIDE DEF S
<1>3. n \in S
    <2>1. 0..n \subseteq S
        BY <1>1, <1>2, Induction
    <2> QED BY <2>1
<1>4. \A j \in 1..n : j > n - n - 1
    OBVIOUS
<1> QED BY <1>3, <1>4 DEF S

\* A step within the innermost container keeps what the calls have read.
LEMMA BuiltWithin ==
    ASSUME NEW d, NEW c, NEW cs, NEW ds, NEW k, NEW m,
           NEW op \in [1..Len(cs) -> 1..Len(d)], Opened(d, c, cs, k, op), Built(d, cs, op, k),
           OnPath(d, c, ds, m), Len(cs) \in Nat, Len(ds) = Len(cs),
           Inside(d, m) = Inside(d, k), Ordinal(d, m) = Ordinal(d, k),
           \A j \in 1..Len(cs) : ds[j].items = cs[j].items,
           \A j \in 1..Len(cs) - 1 : ds[j] = cs[j]
    PROVE  Opened(d, c, ds, m, op) /\ Built(d, ds, op, m)
PROOF
<1> DEFINE n == Len(cs)
<1>1. PICK up \in [1..n -> 1..Len(d)] : Opened(d, c, ds, m, up)
    BY DEF OnPath
<1>2. n # 0 => op[n] = up[n]
    <2>1. n # 0 => n \in 1..n /\ PlaceOf(cs, op, k, n) = k /\ PlaceOf(ds, up, m, n) = m
        BY DEF PlaceOf
    <2> QED BY <1>1, <2>1 DEF Opened
<1>3. \A j \in 1..n : op[j] = up[j]
    <2>1. AgreeTo(op, up, n)
        BY <1>1, <1>2, PathsAgree
    <2> QED BY <2>1 DEF AgreeTo
<1>4. op = up
    BY <1>1, <1>3
<1>5. ASSUME NEW j \in 1..n PROVE ds[j].items = Items(d, op[j], Ordinal(d, PlaceOf(ds, op, m, j)) - 1)
    <2>1. cs[j].items = Items(d, op[j], Ordinal(d, PlaceOf(cs, op, k, j)) - 1)
        BY DEF Built
    <2>2. Ordinal(d, PlaceOf(ds, op, m, j)) = Ordinal(d, PlaceOf(cs, op, k, j))
        BY DEF PlaceOf
    <2> QED BY <2>1, <2>2
<1>6. ASSUME NEW j \in 0..n - 1 PROVE Under(d, ds, op, j, op[j + 1])
    <2>1. Under(d, cs, op, j, op[j + 1])
        BY DEF Built
    <2>2. j # 0 => ds[j] = cs[j]
        OBVIOUS
    <2> QED BY <2>1, <2>2 DEF Under
<1> QED BY <1>1, <1>4, <1>5, <1>6 DEF Built

\* A call begins: it has read nothing, and its container is the value that the
\* call around it reads.
LEMMA BuiltEnters ==
    ASSUME NEW d, NEW c, NEW cs, NEW ds, NEW k \in 1..Len(d),
           NEW op \in [1..Len(cs) -> 1..Len(d)], Opened(d, c, cs, k, op), Built(d, cs, op, k),
           Under(d, cs, op, Len(cs), k), Enters(d, k),
           OnPath(d, c, ds, k + 1), Len(cs) \in Nat, Len(ds) = Len(cs) + 1,
           \A j \in 1..Len(cs) : ds[j] = cs[j], ds[Len(ds)].items = << >>
    PROVE  \E up \in [1..Len(ds) -> 1..Len(d)] :
              Opened(d, c, ds, k + 1, up) /\ Built(d, ds, up, k + 1) /\ up[Len(ds)] = k
PROOF
<1> DEFINE n == Len(cs)
<1>1. PICK up \in [1..n + 1 -> 1..Len(d)] : Opened(d, c, ds, k + 1, up)
    BY DEF OnPath
<1>2. n + 1 \in 1..n + 1 /\ (n # 0 => n \in 1..n /\ n \in 1..n + 1 /\ n # n + 1)
    OBVIOUS
<1>3. up[n + 1] = k
    <2>1. PlaceOf(ds, up, k + 1, n + 1) = k + 1
        BY DEF PlaceOf
    <2>2. Inside(d, k + 1) = k
        BY DEF Enters
    <2> QED BY <1>1, <1>2, <2>1, <2>2 DEF Opened
<1>4. n # 0 => op[n] = up[n]
    <2>1. n # 0 => PlaceOf(ds, up, k + 1, n) = up[n + 1] /\ PlaceOf(cs, op, k, n) = k
        BY <1>2 DEF PlaceOf
    <2>2. n # 0 => up[n] = Inside(d, k)
        BY <1>1, <1>2, <1>3, <2>1 DEF Opened
    <2>3. n # 0 => op[n] = Inside(d, k)
        BY <1>2, <2>1 DEF Opened
    <2> QED BY <2>2, <2>3
<1>5. \A j \in 1..n : op[j] = up[j]
    <2>1. n <= Len(cs) /\ n <= Len(ds) /\ Len(ds) \in Nat /\ n \in Nat
        OBVIOUS
    <2>2. AgreeTo(op, up, n)
        BY <1>1, <1>4, <2>1, PathsAgree
    <2> QED BY <2>2 DEF AgreeTo
<1>6. ASSUME NEW j \in 1..n + 1
      PROVE  ds[j].items = Items(d, up[j], Ordinal(d, PlaceOf(ds, up, k + 1, j)) - 1)
    <2>1. CASE j = n + 1
        <3>1. PlaceOf(ds, up, k + 1, j) = k + 1
            BY <2>1 DEF PlaceOf
        <3>2. Ordinal(d, k + 1) - 1 = 0
            BY DEF Enters
        <3> QED BY <2>1, <3>1, <3>2, NoItems
    <2>2. CASE j # n + 1
        <3>1. j \in 1..n /\ j # Len(ds)
            BY <2>2
        <3>2. cs[j].items = Items(d, op[j], Ordinal(d, PlaceOf(cs, op, k, j)) - 1)
            BY <3>1 DEF Built
        <3>3. PlaceOf(ds, up, k + 1, j) = PlaceOf(cs, op, k, j)
            <4>1. j # n => j + 1 \in 1..n
                BY <3>1
            <4> QED BY <1>3, <1>5, <3>1, <4>1 DEF PlaceOf
        <3> QED BY <1>5, <3>1, <3>2, <3>3
    <2> QED BY <2>1, <2>2
<1>7. ASSUME NEW j \in 0..n PROVE Under(d, ds, up, j, up[j + 1])
    <2>1. j # 0 => j \in 1..n /\ ds[j] = cs[j] /\ up[j] = op[j]
        BY <1>5
    <2>2. CASE j = n
        BY <1>3, <2>1, <2>2 DEF Under
    <2>3. CASE j # n
        <3>1. j \in 0..n - 1 /\ j + 1 \in 1..n
            BY <2>3
        <3>2. Under(d, cs, op, j, op[j + 1]) /\ up[j + 1] = op[j + 1]
            BY <1>5, <3>1 DEF Built
        <3> QED BY <2>1, <3>2 DEF Under
    <2> QED BY <2>2, <2>3
<1>8. Built(d, ds, up, k + 1)
    <2>1. \A j \in 0..Len(ds) - 1 : j \in 0..n
        OBVIOUS
    <2> QED BY <1>6, <1>7, <2>1 DEF Built
<1> QED BY <1>1, <1>3, <1>8

\* What the innermost call appends is the element that its number says.
LEMMA ElementRead ==
    ASSUME NEW d, NEW c, d \in Seq(Char), AcceptedRight(d, c), NEW cs, NEW n \in Nat \ {0}, NEW k,
           NEW op, op[n] \in 1..Len(d), cs[n].of \in {"array", "map"},
           d[op[n]] = IF cs[n].of = "map" THEN Brace ELSE "[",
           NEW v, Under(d, cs, op, n, v), Ordinal(d, v) = Ordinal(d, k)
    PROVE  /\ Ordinal(d, k) \in Nat \ {0}
           /\ (IF cs[n].of = "array" THEN Trees(d)[v] ELSE Member(cs[n].key, Trees(d)[v]))
                 = ItemAt(d, op[n], Ascending(Starts(d, op[n]))[Ordinal(d, k)])
PROOF
<1> DEFINE p == op[n]
<1>1. p \in 1..Len(d) /\ d[p] \in Openers
    BY DEF Openers, Brace
<1>2. \A s : ElementAt(d, s, p) => Ordinal(d, s) \in Nat \ {0} /\ Ascending(Starts(d, p))[Ordinal(d, s)] = s
    <2> HIDE DEF p
    <2> QED BY <1>1, FirstIs
<1>3. CASE cs[n].of = "array"
    <2>1. cs[n].of # "map"
        BY <1>3
    <2>2. ElementAt(d, v, p)
        BY <2>1 DEF Under
    <2>3. d[p] # Brace
        BY <2>1 DEF Brace
    <2> QED BY <1>2, <1>3, <2>2, <2>3 DEF ItemAt
<1>4. CASE cs[n].of = "map"
    <2>1. ElementAt(d, cs[n].key, p) /\ Ordinal(d, cs[n].key) = Ordinal(d, v) /\ v = cs[n].key + 2
        BY <1>4 DEF Under
    <2>2. d[p] = Brace /\ cs[n].of # "array"
        BY <1>4
    <2> QED BY <1>2, <2>1, <2>2 DEF ItemAt
<1> QED BY <1>3, <1>4

\* The innermost call appends an element and goes on behind the comma.
LEMMA BuiltAdvances ==
    ASSUME NEW d, NEW c, NEW cs, NEW ds, NEW k,
           NEW op \in [1..Len(cs) -> 1..Len(d)], Opened(d, c, cs, k, op), Built(d, cs, op, k),
           OnPath(d, c, ds, k + 1), Len(cs) \in Nat \ {0}, Len(ds) = Len(cs),
           Advances(d, k), Ordinal(d, k) \in Nat \ {0},
           ds[Len(cs)].items = Append(cs[Len(cs)].items,
                                      ItemAt(d, op[Len(cs)], Ascending(Starts(d, op[Len(cs)]))[Ordinal(d, k)])),
           \A j \in 1..Len(cs) - 1 : ds[j] = cs[j]
    PROVE  Opened(d, c, ds, k + 1, op) /\ Built(d, ds, op, k + 1)
PROOF
<1> DEFINE n == Len(cs)
           o == Ordinal(d, k)
<1>1. PICK up \in [1..n -> 1..Len(d)] : Opened(d, c, ds, k + 1, up)
    BY DEF OnPath
<1>2. n \in 1..n /\ n - 1 \in Nat
    OBVIOUS
<1>3. Inside(d, k + 1) = Inside(d, k) /\ Ordinal(d, k + 1) = o + 1
    BY DEF Advances
<1>4. op[n] = up[n]
    <2>1. PlaceOf(cs, op, k, n) = k /\ PlaceOf(ds, up, k + 1, n) = k + 1
        BY DEF PlaceOf
    <2> QED BY <1>1, <1>2, <1>3, <2>1 DEF Opened
<1>5. \A j \in 1..n : op[j] = up[j]
    <2>1. AgreeTo(op, up, n)
        BY <1>1, <1>4, PathsAgree
    <2> QED BY <2>1 DEF AgreeTo
<1>6. op = up
    BY <1>1, <1>5
<1>7. ASSUME NEW j \in 1..n PROVE ds[j].items = Items(d, op[j], Ordinal(d, PlaceOf(ds, op, k + 1, j)) - 1)
    <2>1. cs[j].items = Items(d, op[j], Ordinal(d, PlaceOf(cs, op, k, j)) - 1)
        BY DEF Built
    <2>2. CASE j = n
        <3>1. cs[j].items = Items(d, op[j], o - 1)
            BY <2>1, <2>2 DEF PlaceOf
        <3>2. ds[j].items = Items(d, op[j], o)
            <4>1. o \in Nat \ {0}
                OBVIOUS
            <4> HIDE DEF o
            <4>2. Append(Items(d, op[n], o - 1), ItemAt(d, op[n], Ascending(Starts(d, op[n]))[o])) = Items(d, op[n], o)
                BY <4>1, OneMore
            <4> QED BY <2>2, <3>1, <4>2 DEF o
        <3>3. Ordinal(d, PlaceOf(ds, op, k + 1, j)) - 1 = o
            BY <1>3, <2>2 DEF PlaceOf
        <3> QED BY <3>2, <3>3
    <2>3. CASE j # n
        <3>1. j \in 1..n - 1
            BY <2>3
        <3> QED BY <2>1, <2>3, <3>1 DEF PlaceOf
    <2> QED BY <2>2, <2>3
<1>8. ASSUME NEW j \in 0..n - 1 PROVE Under(d, ds, op, j, op[j + 1])
    <2>1. Under(d, cs, op, j, op[j + 1])
        BY DEF Built
    <2>2. j # 0 => ds[j] = cs[j]
        OBVIOUS
    <2> QED BY <2>1, <2>2 DEF Under
<1> QED BY <1>1, <1>6, <1>7, <1>8 DEF Built

\* The innermost call returns: its container is the value that the call around
\* it has read.
LeftFor(d, c, ds, k, p) ==
    \E up \in [1..Len(ds) -> 1..Len(d)] :
       /\ Opened(d, c, ds, k, up) /\ Built(d, ds, up, k)
       /\ Under(d, ds, up, Len(ds), p) /\ Ordinal(d, k) = Ordinal(d, p)

LEMMA BuiltLeaves ==
    ASSUME NEW d, NEW c, NEW cs, NEW ds, NEW k,
           NEW op \in [1..Len(cs) -> 1..Len(d)], Opened(d, c, cs, k, op), Built(d, cs, op, k),
           OnPath(d, c, ds, k + 1), Len(cs) \in Nat \ {0}, Len(ds) = Len(cs) - 1, Leaves(d, k),
           \A j \in 1..Len(ds) : ds[j] = cs[j]
    PROVE  LeftFor(d, c, ds, k + 1, op[Len(cs)])
PROOF
<1> SUFFICES \E up \in [1..Len(ds) -> 1..Len(d)] :
                /\ Opened(d, c, ds, k + 1, up) /\ Built(d, ds, up, k + 1)
                /\ Under(d, ds, up, Len(ds), op[Len(cs)])
                /\ Ordinal(d, k + 1) = Ordinal(d, op[Len(cs)])
    BY DEF LeftFor
<1> DEFINE n == Len(cs)
           m == n - 1
<1>1. PICK up \in [1..m -> 1..Len(d)] : Opened(d, c, ds, k + 1, up)
    BY DEF OnPath
<1>2. n \in 1..n /\ m \in Nat /\ m + 1 = n /\ (m # 0 => m \in 1..n /\ m \in 1..m /\ m # n)
    OBVIOUS
<1>3. Inside(d, k) = op[n]
    <2>1. PlaceOf(cs, op, k, n) = k
        BY DEF PlaceOf
    <2> QED BY <1>2, <2>1 DEF Opened
<1>4. Inside(d, k + 1) = Inside(d, op[n]) /\ Ordinal(d, k + 1) = Ordinal(d, op[n])
    BY <1>3 DEF Leaves
<1>5. m # 0 => op[m] = up[m]
    <2>1. m # 0 => PlaceOf(cs, op, k, m) = op[n] /\ PlaceOf(ds, up, k + 1, m) = k + 1
        BY <1>2 DEF PlaceOf
    <2>2. m # 0 => op[m] = Inside(d, op[n])
        BY <1>2, <2>1 DEF Opened
    <2>3. m # 0 => up[m] = Inside(d, k + 1)
        BY <1>1, <1>2, <2>1 DEF Opened
    <2> QED BY <1>4, <2>2, <2>3
<1>6. \A j \in 1..m : op[j] = up[j]
    <2>1. m <= Len(cs) /\ m <= Len(ds) /\ Len(ds) \in Nat /\ Len(cs) \in Nat
        OBVIOUS
    <2>2. AgreeTo(op, up, m)
        BY <1>1, <1>2, <1>5, <2>1, PathsAgree
    <2> QED BY <2>2 DEF AgreeTo
<1>7. ASSUME NEW j \in 1..m PROVE ds[j].items = Items(d, up[j], Ordinal(d, PlaceOf(ds, up, k + 1, j)) - 1)
    <2>1. j \in 1..n /\ j # n
        OBVIOUS
    <2>2. cs[j].items = Items(d, op[j], Ordinal(d, op[j + 1]) - 1)
        BY <2>1 DEF Built, PlaceOf
    <2>3. Ordinal(d, PlaceOf(ds, up, k + 1, j)) = Ordinal(d, op[j + 1])
        <3>1. CASE j = m
            BY <1>4, <3>1 DEF PlaceOf
        <3>2. CASE j # m
            <4>1. j + 1 \in 1..m
                BY <3>2
            <4> QED BY <1>6, <3>2, <4>1 DEF PlaceOf
        <3> QED BY <3>1, <3>2
    <2> QED BY <1>6, <2>2, <2>3
<1>8. ASSUME NEW j \in 0..m PROVE Under(d, ds, up, j, op[j + 1])
    <2>1. Under(d, cs, op, j, op[j + 1])
        BY DEF Built
    <2>2. j # 0 => ds[j] = cs[j] /\ up[j] = op[j]
        BY <1>6
    <2> QED BY <2>1, <2>2 DEF Under
<1>9. \A j \in 0..m - 1 : Under(d, ds, up, j, up[j + 1])
    <2>1. \A j \in 0..m - 1 : j \in 0..m /\ j + 1 \in 1..m
        BY <1>2
    <2> QED BY <1>6, <1>8, <2>1
<1>10. Under(d, ds, up, m, op[n])
    <2>1. m \in 0..m
        BY <1>2
    <2> QED BY <1>2, <1>8, <2>1
<1> QED BY <1>1, <1>4, <1>7, <1>9, <1>10 DEF Built

---------------------------------------------------------------------------
(* The steps of to_value, once more.                                       *)

\* x is the tree of the value that the innermost call has read up to k.
HasRead(d, cs, op, k, x) ==
    \E v \in 1..Len(d) : /\ x = Trees(d)[v] /\ Under(d, cs, op, Len(cs), v)
                         /\ Ordinal(d, v) = Ordinal(d, k)

\* The walk stands at k of the tree, and does w next.
OnTree(d, c, cs, k, w, x, op) ==
    /\ Opened(d, c, cs, k, op) /\ Built(d, cs, op, k)
    /\ w = "Value" => Under(d, cs, op, Len(cs), k)
    /\ w = "Key" => ElementAt(d, k, op[Len(cs)]) /\ cs[Len(cs)].of = "map"
    /\ w = AfterValue => HasRead(d, cs, op, k, x)

ReadsTree(d, c, cs, k, w, x) == \E op \in [1..Len(cs) -> 1..Len(d)] : OnTree(d, c, cs, k, w, x, op)

FineTo(d, n) == \A p \in 1..n : d[p] \notin BadLeaves

TreeInv ==
    /\ Walking => ReadsTree(doc, counts, calls, idx + 1, at, value) /\ FineTo(doc, idx)
    /\ at = "Done" => IF failure = "none" THEN result = "Ok" /\ FineTo(doc, Len(doc)) /\ value = Tree(doc)
                      ELSE result # "Ok" \/ ~FineTo(doc, Len(doc))

LEMMA OneFiner ==
    ASSUME NEW d, NEW n \in Nat, FineTo(d, n), d[n + 1] \notin BadLeaves
    PROVE  FineTo(d, n + 1)
PROOF
<1>1. \A p \in 1..n + 1 : p \in 1..n \/ p = n + 1
    OBVIOUS
<1> QED BY <1>1 DEF FineTo

LEMMA PunctuationFine == \A x \in Openers \union Closers \union {Colon, Comma} : x \notin BadLeaves
PROOF BY Zenon DEF Openers, Closers, Colon, Comma, BadLeaves

\* Where a value or a key begins there is no closing bracket.
LEMMA NoCloser ==
    ASSUME NEW d, NEW k, AtValue(d, k) \/ AtKey(d, k)
    PROVE  d[k] \notin Closers
PROOF
<1>1. ASSUME Enters(d, k) PROVE d[k] \notin Closers
    BY <1>1, Zenon DEF Enters, Openers, Closers
<1>2. ASSUME Stays(d, k), Want(d, k) # "Colon" PROVE d[k] \notin Closers
    <2>1. d[k] \in ScalarChars \/ d[k] \in Quotes
        BY <1>2, Zenon DEF Stays
    <2>2. Quotes \subseteq ScalarChars
        BY Zenon DEF ScalarChars
    <2>3. \A x \in ScalarChars : x \notin Closers
        BY ScalarsPlaced, Zenon DEF Misplaced
    <2> QED BY <2>1, <2>2, <2>3
<1> QED BY <1>1, <1>2 DEF AtValue, AtKey, Beginning

LEMMA TreeInit == CursorInit => TreeInv
PROOF
<1> SUFFICES ASSUME CursorInit PROVE TreeInv
    OBVIOUS
<1>1. at = "Idle"
    BY DEF CursorInit
<1> QED BY <1>1, AfterValueIs DEF TreeInv, Walking

LEMMA TreeBegins ==
    IInv /\ PlaceInv /\ VerdictInv /\ WalkInv /\ TreeInv /\ FromSlice /\ WalkInv' => TreeInv'
PROOF
<1> SUFFICES ASSUME IInv, PlaceInv, VerdictInv, WalkInv, FromSlice, WalkInv' PROVE TreeInv'
    OBVIOUS
<1>1. /\ at = "Idle" /\ pc = "Done" /\ UNCHANGED vars /\ idx' = idx /\ calls' = calls /\ value' = value
      /\ at' = (IF result = "Ok" THEN "Value" ELSE "Done")
      /\ failure' = IF result = "Ok" THEN failure ELSE result
    BY DEF FromSlice
<1>2. idx = 0 /\ NoCalls(calls) /\ failure = "none"
    BY <1>1 DEF WalkInv
<1>3. doc' = doc /\ counts' = counts /\ result' = result
    BY <1>1 DEF vars
<1>4. result # "none"
    BY <1>1 DEF VerdictInv
<1>5. CASE result # "Ok"
    BY <1>1, <1>3, <1>4, <1>5, AfterValueIs DEF TreeInv, Walking
<1>6. CASE result = "Ok"
    <2>1. at' = "Value" /\ idx + 1 = 1
        BY <1>1, <1>2, <1>6
    <2>2. OnPath(doc, counts, calls, 1)
        BY <1>1, <1>2, <1>3, <2>1 DEF WalkInv, Walking
    <2>3. PICK op \in [1..Len(calls) -> 1..Len(doc)] : Opened(doc, counts, calls, 1, op)
        BY <2>2 DEF OnPath
    <2>4. Built(doc, calls, op, 1)
        <3>1. Len(calls) = 0
            BY <1>2 DEF NoCalls
        <3> QED BY <3>1 DEF Built
    <2>5. Under(doc, calls, op, Len(calls), 1)
        BY <1>2 DEF NoCalls, Under
    <2>6. OnTree(doc, counts, calls, 1, "Value", value, op)
        BY <2>3, <2>4, <2>5, AfterValueIs DEF OnTree
    <2>7. ReadsTree(doc, counts, calls, 1, "Value", value)
        BY <2>6 DEF ReadsTree
    <2>8. FineTo(doc, 0)
        BY DEF FineTo
    <2> QED BY <1>1, <1>2, <1>3, <2>1, <2>7, <2>8 DEF TreeInv
<1> QED BY <1>5, <1>6

\* The value that begins at k has been read, and the cursor moved on to m.
LEMMA TreeAfter ==
    ASSUME NEW d, NEW c, NEW cs, NEW k \in 1..Len(d), NEW m, NEW x, NEW y,
           ReadsTree(d, c, cs, k, "Value", y), OnPath(d, c, cs, m), Len(cs) \in Nat,
           Inside(d, m) = Inside(d, k), Ordinal(d, m) = Ordinal(d, k), x = Trees(d)[k]
    PROVE  ReadsTree(d, c, cs, m, AfterValue, x)
PROOF
<1>1. PICK op \in [1..Len(cs) -> 1..Len(d)] : OnTree(d, c, cs, k, "Value", y, op)
    BY DEF ReadsTree
<1>2. Opened(d, c, cs, k, op) /\ Built(d, cs, op, k) /\ Under(d, cs, op, Len(cs), k)
    BY <1>1 DEF OnTree
<1>3. Opened(d, c, cs, m, op) /\ Built(d, cs, op, m)
    BY <1>2, BuiltWithin
<1>4. HasRead(d, cs, op, m, x)
    BY <1>2 DEF HasRead
<1>5. OnTree(d, c, cs, m, AfterValue, x, op)
    BY <1>3, <1>4, AfterValueIs DEF OnTree
<1> QED BY <1>5 DEF ReadsTree

\* A call begins at k, and its first element behind it.
LEMMA TreeEnters ==
    ASSUME NEW d, NEW c, d \in Seq(Char), NEW cs, NEW ds, NEW k \in 1..Len(d), NEW x, NEW y,
           ReadsTree(d, c, cs, k, "Value", y), OnPath(d, c, ds, k + 1), Enters(d, k),
           Len(cs) \in Nat, Len(ds) = Len(cs) + 1,
           \A j \in 1..Len(cs) : ds[j] = cs[j], ds[Len(ds)].items = << >>,
           ds[Len(ds)].of \in {"array", "map"},
           NEW w, w = (IF ds[Len(ds)].of = "array" THEN "Value" ELSE "Key"),
           w = "Value" => AtValue(d, k + 1), w = "Key" => AtKey(d, k + 1)
    PROVE  ReadsTree(d, c, ds, k + 1, w, x)
PROOF
<1> DEFINE n == Len(ds)
<1>1. PICK op \in [1..Len(cs) -> 1..Len(d)] : OnTree(d, c, cs, k, "Value", y, op)
    BY DEF ReadsTree
<1>2. Opened(d, c, cs, k, op) /\ Built(d, cs, op, k) /\ Under(d, cs, op, Len(cs), k)
    BY <1>1 DEF OnTree
<1>3. PICK up \in [1..n -> 1..Len(d)] :
         Opened(d, c, ds, k + 1, up) /\ Built(d, ds, up, k + 1) /\ up[n] = k
    BY <1>2, BuiltEnters
<1>4. ElementAt(d, k + 1, k)
    <2>1. k + 1 \in k + 1..Len(d)
        <3>1. k + 1 \in 1..Len(d)
            BY DEF AtValue, AtKey
        <3> QED BY <3>1
    <2>2. Inside(d, k + 1) = k
        BY DEF Enters
    <2>3. d[k + 1] \notin Closers
        BY NoCloser
    <2> QED BY <2>1, <2>2, <2>3 DEF ElementAt
<1>5. n # 0 /\ w # AfterValue
    BY AfterValueIs
<1>6. w = "Value" => Under(d, ds, up, n, k + 1)
    BY <1>3, <1>4, <1>5 DEF Under
<1>7. w = "Key" => ElementAt(d, k + 1, up[n]) /\ ds[n].of = "map"
    BY <1>3, <1>4
<1>8. OnTree(d, c, ds, k + 1, w, x, up)
    BY <1>3, <1>5, <1>6, <1>7 DEF OnTree
<1> QED BY <1>8 DEF ReadsTree

LEMMA TreeParsesValue ==
    IInv /\ PlaceInv /\ WalkInv /\ TreeInv /\ ParseValue /\ WalkInv' => TreeInv'
PROOF
<1> SUFFICES ASSUME IInv, PlaceInv, WalkInv, TreeInv, ParseValue, WalkInv' PROVE TreeInv'
    OBVIOUS
<1> DEFINE k == idx + 1
<1>1. at = "Value" /\ UNCHANGED vars
    BY DEF ParseValue
<1>2. result = "Ok" /\ failure = "none" /\ AreCalls(calls) /\ AtValue(doc, k)
    BY <1>1, AfterValueIs DEF WalkInv, Walking
<1>3. doc \in Seq(Char) /\ AcceptedRight(doc, counts)
    BY <1>2, AcceptedIs, DocType
<1>4. k \in 1..Len(doc) /\ k = idx + 1 /\ idx \in Nat /\ k \in Nat /\ Len(calls) \in Nat
    <2>1. k \in 1..Len(doc)
        BY <1>2 DEF AtValue
    <2>2. idx \in Nat
        BY <1>3 DEF WalkInv
    <2>3. Len(calls) \in Nat
        BY <1>2, LenProperties DEF AreCalls
    <2> QED BY <2>1, <2>2, <2>3
<1>5. ReadsTree(doc, counts, calls, k, "Value", value) /\ FineTo(doc, idx)
    BY <1>1 DEF TreeInv, Walking
<1>6. doc' = doc /\ counts' = counts /\ result' = result
    BY <1>1 DEF vars
<1>7. at' \in {"Value", "Key", AfterValue} =>
         /\ AreCalls(calls') /\ OnPath(doc, counts, calls', idx' + 1)
         /\ at' = "Value" => AtValue(doc, idx' + 1)
         /\ at' = "Key" => AtKey(doc, idx' + 1)
    BY <1>6 DEF WalkInv, Walking
<1> HIDE DEF k
<1>8. Enters(doc, k) =>
         /\ doc[k] \in Openers /\ FineTo(doc, k)
         /\ counts[k] = 0 => k + 1 \in 1..Len(doc) /\ Leaves(doc, k + 1) /\ Inside(doc, k + 1) = k
    <2>1. Enters(doc, k) => doc[k] \in Openers /\ doc[k] \notin BadLeaves
        BY PunctuationFine, Zenon DEF Enters
    <2>2. Enters(doc, k) => FineTo(doc, k)
        BY <1>4, <1>5, <2>1, OneFiner
    <2> QED BY <1>3, <1>4, <2>1, <2>2, AtOpening
<1>9. \/ /\ Enters(doc, k) /\ counts[k] = 0
         /\ idx' = k + 1 /\ calls' = calls /\ at' = AfterValue /\ failure' = failure
         /\ \E of \in {"array", "map"} :
               /\ doc[k] = IF of = "map" THEN Brace ELSE "["
               /\ value' = Whole(of, << >>)
      \/ /\ Enters(doc, k) /\ counts[k] \in Nat \ {0} /\ idx' = k /\ failure' = failure
         /\ \E of \in {"array", "map"} :
               /\ doc[k] = IF of = "map" THEN Brace ELSE "["
               /\ calls' = Append(calls, [of |-> of, left |-> counts[k], items |-> << >>, key |-> 0])
               /\ at' = IF of = "array" THEN "Value" ELSE "Key"
      \/ /\ Stays(doc, k) /\ doc[k] \notin BadLeaves /\ doc[k] \notin Openers
         /\ idx' = k /\ calls' = calls /\ at' = AfterValue /\ failure' = failure
         /\ value' = Leaf(k)
      \/ /\ Stays(doc, k) /\ doc[k] \in BadLeaves /\ idx' = k
         /\ at' = "Done" /\ failure' \in {"InvalidEscape", "InvalidNumber"}
    BY <1>4, ParseValueIs, ZenonT(60)
<1>10. ASSUME NEW of \in {"array", "map"}, doc[k] = (IF of = "map" THEN Brace ELSE "["),
              Enters(doc, k), counts[k] = 0,
              idx' = k + 1, calls' = calls, at' = AfterValue, failure' = failure,
              value' = Whole(of, << >>)
       PROVE  TreeInv'
    <2> DEFINE m == k + 1
    <2>1. m \in 1..Len(doc) /\ Leaves(doc, m) /\ Inside(doc, m) = k /\ m \in Nat
        BY <1>4, <1>8, <1>10
    <2>2. idx' = m /\ FineTo(doc, k)
        BY <1>8, <1>10
    <2>3. FineTo(doc, m)
        <3>1. doc[m] \notin BadLeaves
            BY <2>1, PunctuationFine, Zenon DEF Leaves
        <3> QED BY <1>4, <2>2, <3>1, OneFiner
    <2> HIDE DEF m
    <2>4. Inside(doc, m + 1) = Inside(doc, k) /\ Ordinal(doc, m + 1) = Ordinal(doc, k)
        BY <2>1 DEF Leaves
    <2>5. OnPath(doc, counts, calls, m + 1)
        BY <1>7, <1>10, <2>2
    <2>6. value' = Trees(doc)[k]
        <3>1. Kind(doc, k) = of
            BY <1>10 DEF Kind, Brace
        <3>2. Trees(doc)[k] = Whole(of, Items(doc, k, 0))
            BY <1>3, <1>4, <1>8, <1>10, <3>1, TreeAtIs
        <3> QED BY <1>10, <3>2, NoItems
    <2>7. ReadsTree(doc, counts, calls, m + 1, AfterValue, value')
        BY <1>4, <1>5, <2>4, <2>5, <2>6, TreeAfter
    <2> QED BY <1>6, <1>10, <2>2, <2>3, <2>7, AfterValueIs DEF TreeInv, Walking
<1>11. ASSUME NEW of \in {"array", "map"}, doc[k] = (IF of = "map" THEN Brace ELSE "["),
              Enters(doc, k), counts[k] \in Nat \ {0}, idx' = k, failure' = failure,
              calls' = Append(calls, [of |-> of, left |-> counts[k], items |-> << >>, key |-> 0]),
              at' = (IF of = "array" THEN "Value" ELSE "Key")
       PROVE  TreeInv'
    <2> DEFINE e == [of |-> of, left |-> counts[k], items |-> << >>, key |-> 0]
    <2>1. IsCall(e)
        BY <1>11 DEF IsCall
    <2>2. e.items = << >> /\ e.of = of /\ calls' = Append(calls, e)
        BY <1>11
    <2> HIDE DEF e
    <2>3. /\ Len(calls') = Len(calls) + 1 /\ calls'[Len(calls) + 1] = e
          /\ \A j \in 1..Len(calls) : calls'[j] = calls[j]
        BY <1>2, <2>1, <2>2, CallAppended
    <2>4. at' \in {"Value", "Key"} /\ at' # "Done"
        BY <1>11
    <2>5. /\ OnPath(doc, counts, calls', k + 1)
          /\ at' = "Value" => AtValue(doc, k + 1)
          /\ at' = "Key" => AtKey(doc, k + 1)
        BY <1>7, <1>11, <2>4
    <2>6. ReadsTree(doc, counts, calls', k + 1, at', value')
        BY <1>3, <1>4, <1>5, <1>11, <2>2, <2>3, <2>5, TreeEnters
    <2>7. FineTo(doc, k)
        BY <1>8, <1>11
    <2> QED BY <1>6, <1>11, <2>4, <2>6, <2>7 DEF TreeInv
<1>12. CASE /\ Stays(doc, k) /\ doc[k] \notin BadLeaves /\ doc[k] \notin Openers
            /\ idx' = k /\ calls' = calls /\ at' = AfterValue /\ failure' = failure
            /\ value' = Leaf(k)
    <2>1. FineTo(doc, k)
        BY <1>4, <1>5, <1>12, OneFiner
    <2>2. Inside(doc, k + 1) = Inside(doc, k) /\ Ordinal(doc, k + 1) = Ordinal(doc, k)
        BY <1>12 DEF Stays
    <2>3. OnPath(doc, counts, calls, k + 1)
        BY <1>7, <1>12
    <2>4. value' = Trees(doc)[k]
        BY <1>3, <1>4, <1>12, TreeAtIs
    <2>5. ReadsTree(doc, counts, calls, k + 1, AfterValue, value')
        BY <1>4, <1>5, <2>2, <2>3, <2>4, TreeAfter
    <2> QED BY <1>6, <1>12, <2>1, <2>5, AfterValueIs DEF TreeInv, Walking
<1>13. CASE /\ Stays(doc, k) /\ doc[k] \in BadLeaves /\ idx' = k
            /\ at' = "Done" /\ failure' \in {"InvalidEscape", "InvalidNumber"}
    <2>1. ~FineTo(doc, Len(doc))
        BY <1>4, <1>13 DEF FineTo
    <2> QED BY <1>6, <1>13, <2>1, AfterValueIs DEF TreeInv, Walking
<1> QED BY <1>9, <1>10, <1>11, <1>12, <1>13, Zenon

\* The key at k has been read, and the cursor moved on over the colon.
LEMMA TreeKeyed ==
    ASSUME NEW d, NEW c, NEW cs, NEW ds, NEW k, NEW x, NEW y,
           ReadsTree(d, c, cs, k, "Key", y), OnPath(d, c, ds, k + 2),
           Len(cs) \in Nat \ {0}, Len(ds) = Len(cs),
           Inside(d, k + 2) = Inside(d, k), Ordinal(d, k + 2) = Ordinal(d, k),
           ds[Len(cs)].of = cs[Len(cs)].of, ds[Len(cs)].items = cs[Len(cs)].items,
           ds[Len(cs)].key = k, \A j \in 1..Len(cs) - 1 : ds[j] = cs[j]
    PROVE  ReadsTree(d, c, ds, k + 2, "Value", x)
PROOF
<1> DEFINE n == Len(cs)
           m == k + 2
<1>1. PICK op \in [1..n -> 1..Len(d)] : OnTree(d, c, cs, k, "Key", y, op)
    BY DEF ReadsTree
<1>2. Opened(d, c, cs, k, op) /\ Built(d, cs, op, k) /\ ElementAt(d, k, op[n]) /\ cs[n].of = "map"
    BY <1>1 DEF OnTree
<1>3. OnPath(d, c, ds, m) /\ Inside(d, m) = Inside(d, k) /\ Ordinal(d, m) = Ordinal(d, k)
    OBVIOUS
<1>4. \A j \in 1..n : ds[j].items = cs[j].items
    <2>1. \A j \in 1..n : j \in 1..n - 1 \/ j = n
        OBVIOUS
    <2> QED BY <2>1
<1>5. Under(d, ds, op, n, m)
    BY <1>2 DEF Under
<1> HIDE DEF m
<1>6. Opened(d, c, ds, m, op) /\ Built(d, ds, op, m)
    BY <1>2, <1>3, <1>4, BuiltWithin
<1>7. OnTree(d, c, ds, m, "Value", x, op)
    BY <1>5, <1>6, AfterValueIs DEF OnTree
<1>8. ReadsTree(d, c, ds, m, "Value", x)
    BY <1>7 DEF ReadsTree
<1> QED BY <1>8 DEF m

LEMMA TreeParsesKey ==
    IInv /\ PlaceInv /\ WalkInv /\ TreeInv /\ ParseKey /\ WalkInv' => TreeInv'
PROOF
<1> SUFFICES ASSUME IInv, PlaceInv, WalkInv, TreeInv, ParseKey, WalkInv' PROVE TreeInv'
    OBVIOUS
<1> DEFINE k == idx + 1
<1>1. at = "Key" /\ UNCHANGED vars
    BY DEF ParseKey
<1>2. result = "Ok" /\ failure = "none" /\ AreCalls(calls) /\ AtKey(doc, k) /\ ~NoCalls(calls)
    BY <1>1, AfterValueIs DEF WalkInv, Walking
<1>3. doc \in Seq(Char) /\ AcceptedRight(doc, counts)
    BY <1>2, AcceptedIs, DocType
<1>4. /\ k \in 1..Len(doc) /\ k = idx + 1 /\ idx \in Nat /\ k \in Nat /\ idx + 2 = k + 1
      /\ k + 1 \in 1..Len(doc) + 1 /\ k + 1 \in Nat /\ k + 1 + 1 = k + 2
    <2>1. k \in 1..Len(doc)
        BY <1>2, Zenon DEF AtKey
    <2>2. idx \in Nat
        BY <1>3 DEF WalkInv
    <2> QED BY <1>3, <2>1, <2>2
<1>5. ReadsTree(doc, counts, calls, k, "Key", value) /\ FineTo(doc, idx)
    BY <1>1 DEF TreeInv, Walking
<1>6. doc' = doc /\ counts' = counts /\ result' = result
    BY <1>1 DEF vars
<1>7. at' = "Value" => OnPath(doc, counts, calls', idx' + 1)
    BY <1>6 DEF WalkInv, Walking
<1>8. CharsAt(k) = {doc[k]}
    BY <1>4 DEF CharsAt
<1> HIDE DEF k
<1>9. \/ doc[k] = "badstr" /\ idx' = k /\ at' = "Done" /\ failure' = "InvalidEscape"
      \/ /\ doc[k] # "badstr" /\ idx' = k + 1 /\ at' = "Value" /\ failure' = failure
         /\ calls' = [calls EXCEPT ![Len(calls)].key = k]
    BY <1>4, <1>8 DEF ParseKey, Abort, Proceed
<1>10. CASE doc[k] = "badstr" /\ idx' = k /\ at' = "Done" /\ failure' = "InvalidEscape"
    <2>1. ~FineTo(doc, Len(doc))
        BY <1>4, <1>10 DEF FineTo, BadLeaves
    <2> QED BY <1>6, <1>10, <2>1, AfterValueIs DEF TreeInv, Walking
<1>11. CASE /\ doc[k] # "badstr" /\ idx' = k + 1 /\ at' = "Value" /\ failure' = failure
            /\ calls' = [calls EXCEPT ![Len(calls)].key = k]
    <2> DEFINE m == k + 1
    <2>1. /\ Want(doc, m) = "Colon" /\ Inside(doc, m) = Inside(doc, k)
          /\ Ordinal(doc, m) = Ordinal(doc, k) /\ doc[k] \in Quotes
        BY <1>2 DEF AtKey, Beginning, Stays
    <2>2. m \in 1..Len(doc) + 1 /\ m \in Nat /\ idx' = m
        BY <1>4, <1>11
    <2>3. FineTo(doc, k)
        <3>1. doc[k] \notin BadLeaves
            BY <1>11, <2>1 DEF BadLeaves, Quotes, Strings
        <3> QED BY <1>4, <1>5, <3>1, OneFiner
    <2>4. doc[m] \notin BadLeaves => FineTo(doc, m)
        BY <1>4, <2>3, OneFiner
    <2>5. m + 1 = k + 2
        BY <1>4
    <2> HIDE DEF m
    <2>6. m \in 1..Len(doc) /\ Stays(doc, m) /\ doc[m] = ":"
        BY <1>3, <2>1, <2>2, Begins
    <2>7. Inside(doc, m + 1) = Inside(doc, k) /\ Ordinal(doc, m + 1) = Ordinal(doc, k)
        BY <2>1, <2>6 DEF Stays
    <2>8. FineTo(doc, m)
        BY <2>4, <2>6, PunctuationFine DEF Colon
    <2> DEFINE n == Len(calls)
               ds == [calls EXCEPT ![n].key = k]
    <2>a. WithKey(calls, ds, k)
        BY DEF WithKey
    <2> HIDE DEF ds
    <2>9. /\ n \in Nat \ {0} /\ Len(ds) = n
          /\ ds[n].of = calls[n].of /\ ds[n].items = calls[n].items /\ ds[n].key = k
          /\ \A j \in 1..n - 1 : ds[j] = calls[j]
        BY <1>2, <2>a, CallChanged
    <2>10. calls' = ds
        BY <1>11 DEF ds
    <2>11. OnPath(doc, counts, ds, k + 2)
        BY <1>7, <1>11, <2>2, <2>5, <2>10
    <2>12. Inside(doc, k + 2) = Inside(doc, k) /\ Ordinal(doc, k + 2) = Ordinal(doc, k)
        BY <2>5, <2>7
    <2>13. ReadsTree(doc, counts, ds, k + 2, "Value", value')
        BY <1>5, <2>9, <2>11, <2>12, TreeKeyed
    <2>14. ReadsTree(doc, counts, calls', idx' + 1, "Value", value')
        BY <2>2, <2>5, <2>10, <2>13
    <2> QED BY <1>6, <1>11, <2>2, <2>8, <2>14 DEF TreeInv
<1> QED BY <1>9, <1>10, <1>11

\* The value x just read is, with its key, the element that its number says.
ReadInTurn(d, cs, op, k, x) ==
    /\ Ordinal(d, k) \in Nat \ {0}
    /\ (IF cs[Len(cs)].of = "array" THEN x ELSE Member(cs[Len(cs)].key, x))
          = ItemAt(d, op[Len(cs)], Ascending(Starts(d, op[Len(cs)]))[Ordinal(d, k)])

LEMMA InTurn ==
    ASSUME NEW d, NEW c, d \in Seq(Char), AcceptedRight(d, c), NEW cs, NEW k, NEW x,
           Len(cs) \in Nat \ {0}, IsCall(cs[Len(cs)]), NEW op \in [1..Len(cs) -> 1..Len(d)],
           Opened(d, c, cs, k, op), HasRead(d, cs, op, k, x)
    PROVE  ReadInTurn(d, cs, op, k, x)
PROOF
<1> DEFINE n == Len(cs)
<1>1. PICK v \in 1..Len(d) : x = Trees(d)[v] /\ Under(d, cs, op, n, v) /\ Ordinal(d, v) = Ordinal(d, k)
    BY DEF HasRead
<1>2. n \in 1..n /\ op[n] \in 1..Len(d) /\ cs[n].of \in {"array", "map"} /\ PlaceOf(cs, op, k, n) = k
    BY DEF IsCall, PlaceOf
<1>3. Inside(d, k) = op[n] /\ d[op[n]] = IF cs[n].of = "map" THEN Brace ELSE "["
    BY <1>2 DEF Opened
<1>4. /\ Ordinal(d, k) \in Nat \ {0}
      /\ (IF cs[n].of = "array" THEN Trees(d)[v] ELSE Member(cs[n].key, Trees(d)[v]))
            = ItemAt(d, op[n], Ascending(Starts(d, op[n]))[Ordinal(d, k)])
    BY <1>1, <1>2, <1>3, ElementRead
<1> QED BY <1>1, <1>4 DEF ReadInTurn

\* The innermost call has read an element, and the cursor moved on over the
\* comma.
LEMMA TreeAdvances ==
    ASSUME NEW d, NEW c, d \in Seq(Char), AcceptedRight(d, c), NEW cs, NEW ds, NEW k \in 1..Len(d),
           NEW x, NEW y, ReadsTree(d, c, cs, k, AfterValue, x), OnPath(d, c, ds, k + 1), Advances(d, k),
           Len(cs) \in Nat \ {0}, Len(ds) = Len(cs), IsCall(cs[Len(cs)]),
           ds[Len(cs)].of = cs[Len(cs)].of,
           ds[Len(cs)].items = Append(cs[Len(cs)].items,
                                      IF cs[Len(cs)].of = "array" THEN x ELSE Member(cs[Len(cs)].key, x)),
           \A j \in 1..Len(cs) - 1 : ds[j] = cs[j],
           NEW w, w = (IF cs[Len(cs)].of = "array" THEN "Value" ELSE "Key"),
           w = "Value" => AtValue(d, k + 1), w = "Key" => AtKey(d, k + 1)
    PROVE  ReadsTree(d, c, ds, k + 1, w, y)
PROOF
<1> DEFINE n == Len(cs)
<1>1. PICK op \in [1..n -> 1..Len(d)] : OnTree(d, c, cs, k, AfterValue, x, op)
    BY DEF ReadsTree
<1>2. Opened(d, c, cs, k, op) /\ Built(d, cs, op, k) /\ HasRead(d, cs, op, k, x)
    BY <1>1 DEF OnTree
<1>3. ReadInTurn(d, cs, op, k, x)
    BY <1>2, InTurn
<1>4. n \in 1..n /\ op[n] \in 1..Len(d) /\ cs[n].of \in {"array", "map"} /\ PlaceOf(cs, op, k, n) = k
    BY DEF IsCall, PlaceOf
<1>5. Inside(d, k) = op[n] /\ d[op[n]] = IF cs[n].of = "map" THEN Brace ELSE "["
    BY <1>2, <1>4 DEF Opened
<1>6. /\ Ordinal(d, k) \in Nat \ {0}
      /\ (IF cs[n].of = "array" THEN x ELSE Member(cs[n].key, x))
            = ItemAt(d, op[n], Ascending(Starts(d, op[n]))[Ordinal(d, k)])
    BY <1>3 DEF ReadInTurn
<1>7. Opened(d, c, ds, k + 1, op) /\ Built(d, ds, op, k + 1)
    BY <1>2, <1>6, BuiltAdvances
<1>8. ElementAt(d, k + 1, op[n])
    <2>1. k + 1 \in 1..Len(d)
        BY DEF AtValue, AtKey
    <2>2. op[n] \in 1..k - 1 /\ Inside(d, k + 1) = op[n]
        BY <1>5 DEF Advances
    <2>3. k + 1 \in op[n] + 1..Len(d) /\ k + 1 - 1 = k /\ k \in op[n] + 1..Len(d)
        BY <2>1, <2>2
    <2>4. d[k + 1] \notin Closers
        BY NoCloser
    <2> QED BY <2>2, <2>3, <2>4 DEF ElementAt
<1>9. n # 0 /\ w # AfterValue
    BY AfterValueIs
<1>10. w = "Value" => Under(d, ds, op, n, k + 1)
    BY <1>8, <1>9 DEF Under
<1>11. w = "Key" => ElementAt(d, k + 1, op[n]) /\ ds[n].of = "map"
    BY <1>4, <1>8
<1>12. OnTree(d, c, ds, k + 1, w, y, op)
    BY <1>7, <1>9, <1>10, <1>11 DEF OnTree
<1> QED BY <1>12 DEF ReadsTree

\* The innermost call has read its last element, and returned behind the
\* closing bracket.
LEMMA TreeLeaves ==
    ASSUME NEW d, NEW c, d \in Seq(Char), AcceptedRight(d, c), NEW cs, NEW ds, NEW k \in 1..Len(d),
           NEW x, ReadsTree(d, c, cs, k, AfterValue, x), OnPath(d, c, ds, k + 1), Leaves(d, k),
           Len(cs) \in Nat \ {0}, Len(ds) = Len(cs) - 1, IsCall(cs[Len(cs)]), cs[Len(cs)].left = 1,
           NEW items, items = Append(cs[Len(cs)].items,
                                     IF cs[Len(cs)].of = "array" THEN x ELSE Member(cs[Len(cs)].key, x)),
           \A j \in 1..Len(cs) - 1 : ds[j] = cs[j]
    PROVE  ReadsTree(d, c, ds, k + 1, AfterValue, Whole(cs[Len(cs)].of, items))
PROOF
<1> DEFINE n == Len(cs)
           y == Whole(cs[n].of, items)
<1>1. PICK op \in [1..n -> 1..Len(d)] : OnTree(d, c, cs, k, AfterValue, x, op)
    BY DEF ReadsTree
<1>2. Opened(d, c, cs, k, op) /\ Built(d, cs, op, k) /\ HasRead(d, cs, op, k, x)
    BY <1>1 DEF OnTree
<1>3. ReadInTurn(d, cs, op, k, x)
    BY <1>2, InTurn
<1>4. n \in 1..n /\ op[n] \in 1..Len(d) /\ cs[n].of \in {"array", "map"} /\ PlaceOf(cs, op, k, n) = k
    BY DEF IsCall, PlaceOf
<1>5. /\ Inside(d, k) = op[n] /\ d[op[n]] = (IF cs[n].of = "map" THEN Brace ELSE "[")
      /\ cs[n].left + Ordinal(d, k) = c[op[n]] + 1
      /\ cs[n].items = Items(d, op[n], Ordinal(d, k) - 1)
    BY <1>2, <1>4 DEF Opened, Built
<1>6. /\ Ordinal(d, k) \in Nat \ {0}
      /\ (IF cs[n].of = "array" THEN x ELSE Member(cs[n].key, x))
            = ItemAt(d, op[n], Ascending(Starts(d, op[n]))[Ordinal(d, k)])
    BY <1>3 DEF ReadInTurn
<1>7. items = Items(d, op[n], Ordinal(d, k))
    BY <1>5, <1>6, OneMore
<1>8. d[op[n]] \in Openers /\ Kind(d, op[n]) = cs[n].of
    BY <1>4, <1>5 DEF Openers, Kind, Brace
<1>9. Ordinal(d, k) = c[op[n]]
    <2>1. c[op[n]] \in Nat
        <3> DEFINE p == op[n]
        <3>1. p \in 1..Len(d) /\ d[p] \in Openers
            BY <1>4, <1>8
        <3> HIDE DEF p
        <3>2. Enters(d, p)
            BY <3>1, PlacesIn
        <3>3. c[p] \in Nat
            BY <3>1, <3>2, AtOpening
        <3> QED BY <3>3 DEF p
    <2> QED BY <1>5, <1>6, <2>1
<1>10. y = Trees(d)[op[n]]
    <2> DEFINE p == op[n]
    <2>1. p \in 1..Len(d) /\ d[p] \in Openers /\ y = Whole(Kind(d, p), Items(d, p, c[p]))
        BY <1>4, <1>7, <1>8, <1>9
    <2> HIDE DEF p, y
    <2>2. y = Trees(d)[p]
        BY <2>1, TreeAtIs
    <2> QED BY <2>2 DEF p
<1>a. \A j \in 1..Len(ds) : ds[j] = cs[j]
    OBVIOUS
<1>11. PICK up \in [1..Len(ds) -> 1..Len(d)] :
          /\ Opened(d, c, ds, k + 1, up) /\ Built(d, ds, up, k + 1)
          /\ Under(d, ds, up, Len(ds), op[n]) /\ Ordinal(d, k + 1) = Ordinal(d, op[n])
    <2>1. LeftFor(d, c, ds, k + 1, op[n])
        BY <1>2, <1>a, BuiltLeaves
    <2> QED BY <2>1 DEF LeftFor
<1> HIDE DEF y
<1>12. HasRead(d, ds, up, k + 1, y)
    BY <1>4, <1>10, <1>11 DEF HasRead
<1>13. OnTree(d, c, ds, k + 1, AfterValue, y, up)
    BY <1>11, <1>12, AfterValueIs DEF OnTree
<1>14. ReadsTree(d, c, ds, k + 1, AfterValue, y)
    BY <1>13 DEF ReadsTree
<1> QED BY <1>14 DEF y

LEMMA TreeEndsElement ==
    IInv /\ PlaceInv /\ WalkInv /\ TreeInv /\ Element /\ WalkInv' => TreeInv'
PROOF
<1> SUFFICES ASSUME IInv, PlaceInv, WalkInv, TreeInv, Element, WalkInv' PROVE TreeInv'
    OBVIOUS
<1> DEFINE n == Len(calls)
           k == idx + 1
<1>1. at = AfterValue /\ UNCHANGED vars /\ idx' = k /\ failure' = failure /\ calls # << >>
    BY ElementIs
<1>2. result = "Ok" /\ AreCalls(calls)
    BY <1>1, AfterValueIs DEF WalkInv, Walking
<1>3. ~NoCalls(calls)
    BY <1>1, <1>2, EmptySeq DEF AreCalls, NoCalls
<1>4. doc \in Seq(Char) /\ AcceptedRight(doc, counts)
    BY <1>2, AcceptedIs, DocType
<1>5. /\ k \in 1..Len(doc) /\ n \in Nat \ {0} /\ IsCall(calls[n])
      /\ \/ Advances(doc, k) /\ calls[n].left > 1
         \/ Leaves(doc, k) /\ calls[n].left = 1
    BY <1>1, <1>3, AtElementEnd
<1>6. ReadsTree(doc, counts, calls, k, AfterValue, value) /\ FineTo(doc, idx) /\ idx \in Nat
    <2>1. idx \in Nat
        BY <1>4 DEF WalkInv
    <2> QED BY <1>1, <2>1 DEF TreeInv, Walking
<1>7. doc' = doc /\ counts' = counts /\ result' = result
    BY <1>1 DEF vars
<1>8. at' \in {"Value", "Key", AfterValue} =>
         /\ OnPath(doc, counts, calls', k + 1)
         /\ at' = "Value" => AtValue(doc, k + 1)
         /\ at' = "Key" => AtKey(doc, k + 1)
    BY <1>1, <1>7 DEF WalkInv, Walking
<1>9. PICK items :
         /\ items = Append(calls[n].items, IF calls[n].of = "array" THEN value
                                           ELSE Member(calls[n].key, value))
         /\ IF calls[n].left > 1
            THEN /\ calls' = [calls EXCEPT ![n].items = items, ![n].left = calls[n].left - 1]
                 /\ at' = IF calls[n].of = "array" THEN "Value" ELSE "Key"
            ELSE /\ calls' = SubSeq(calls, 1, n - 1) /\ at' = AfterValue
                 /\ value' = Whole(calls[n].of, items)
    BY ElementIs
<1>10. FineTo(doc, k)
    <2>1. doc[k] \notin BadLeaves
        BY <1>5, PunctuationFine, Zenon DEF Advances, Leaves
    <2> QED BY <1>6, <2>1, OneFiner
<1> HIDE DEF k
<1>11. CASE Advances(doc, k) /\ calls[n].left > 1
    <2> DEFINE ds == [calls EXCEPT ![n].items = items, ![n].left = calls[n].left - 1]
    <2>1. calls' = ds /\ at' = IF calls[n].of = "array" THEN "Value" ELSE "Key"
        BY <1>9, <1>11, Zenon
    <2>a. WithItems(calls, ds, items)
        BY DEF WithItems
    <2> HIDE DEF ds
    <2>2. /\ Len(ds) = n /\ ds[n].of = calls[n].of /\ ds[n].items = items
          /\ \A j \in 1..n - 1 : ds[j] = calls[j]
        <3>1. AreCalls(calls) /\ ~NoCalls(calls) /\ calls[Len(calls)].left > 1
            BY <1>2, <1>3, <1>11
        <3>2. Advanced(calls, ds, items)
            BY <2>a, <3>1, CallAdvanced, Zenon
        <3> QED BY <3>2, Zenon DEF Advanced
    <2>3. at' \in {"Value", "Key"} /\ at' # "Done"
        BY <2>1
    <2>4. /\ OnPath(doc, counts, ds, k + 1)
          /\ at' = "Value" => AtValue(doc, k + 1)
          /\ at' = "Key" => AtKey(doc, k + 1)
        BY <1>8, <2>1, <2>3
    <2>5. ds[n].items = Append(calls[n].items, IF calls[n].of = "array" THEN value
                                               ELSE Member(calls[n].key, value))
        BY <1>9, <2>2
    <2>6. ReadsTree(doc, counts, ds, k + 1, at', value')
        BY <1>4, <1>5, <1>6, <1>11, <2>1, <2>2, <2>4, <2>5, TreeAdvances
    <2> QED BY <1>1, <1>7, <1>10, <2>1, <2>3, <2>6 DEF TreeInv
<1>12. CASE Leaves(doc, k) /\ calls[n].left = 1
    <2> DEFINE ds == SubSeq(calls, 1, n - 1)
    <2>1. ~(calls[n].left > 1)
        BY <1>12
    <2>2. calls' = ds /\ at' = AfterValue /\ value' = Whole(calls[n].of, items)
        BY <1>9, <2>1, Zenon
    <2>3. Len(ds) = n - 1 /\ \A j \in 1..n - 1 : ds[j] = calls[j]
        BY <1>2, <1>3, CallDropped
    <2> HIDE DEF ds
    <2>4. OnPath(doc, counts, ds, k + 1)
        BY <1>8, <2>2
    <2>5. items = Append(calls[n].items, IF calls[n].of = "array" THEN value
                                         ELSE Member(calls[n].key, value))
        BY <1>9
    <2>6. ReadsTree(doc, counts, ds, k + 1, AfterValue, Whole(calls[n].of, items))
        BY <1>4, <1>5, <1>6, <1>12, <2>3, <2>4, <2>5, TreeLeaves
    <2> QED BY <1>1, <1>7, <1>10, <2>2, <2>6, AfterValueIs DEF TreeInv, Walking
<1> QED BY <1>5, <1>11, <1>12

\* The outermost call has returned: its value is the whole tree, and nothing of
\* the document is behind it.
LEMMA TreeFinishes ==
    IInv /\ PlaceInv /\ WalkInv /\ TreeInv /\ Finish => TreeInv'
PROOF
<1> SUFFICES ASSUME IInv, PlaceInv, WalkInv, TreeInv, Finish PROVE TreeInv'
    OBVIOUS
<1> DEFINE k == idx + 1
<1>1. /\ UNCHANGED vars /\ at = AfterValue /\ calls = << >>
      /\ at' = "Done" /\ value' = value /\ failure' = failure
    BY Zenon DEF Finish, AfterValue
<1>2. /\ result = "Ok" /\ failure = "none" /\ OnPath(doc, counts, calls, k) /\ Want(doc, k) = "Behind"
    BY <1>1, AfterValueIs DEF WalkInv, Walking
<1>3. doc \in Seq(Char) /\ AcceptedRight(doc, counts)
    BY <1>2, AcceptedIs, DocType
<1>4. k \in 1..Len(doc) + 1 /\ idx \in Nat /\ k = idx + 1
    <2>1. idx \in 0..Len(doc) /\ Len(doc) \in Nat
        BY <1>3 DEF WalkInv
    <2> QED BY <2>1
<1>5. ReadsTree(doc, counts, calls, k, AfterValue, value) /\ FineTo(doc, idx)
    BY <1>1 DEF TreeInv, Walking
<1> HIDE DEF k
<1>6. Len(calls) = 0
    BY <1>1
<1>7. PICK op \in [1..Len(calls) -> 1..Len(doc)] : OnTree(doc, counts, calls, k, AfterValue, value, op)
    BY <1>5 DEF ReadsTree
<1>8. Level(doc, k) = 0 /\ HasRead(doc, calls, op, k, value)
    BY <1>6, <1>7 DEF OnTree, Opened
<1>9. value = Tree(doc)
    <2>1. PICK v \in 1..Len(doc) : value = Trees(doc)[v] /\ Under(doc, calls, op, 0, v)
        BY <1>6, <1>8 DEF HasRead
    <2>2. v = 1
        BY <2>1 DEF Under
    <2> QED BY <2>1, <2>2, TreeIs
<1>10. Inside(doc, k) = 0
    <2>1. Placed(doc, k) /\ \A r \in 1..Len(doc) + 1 : Placed(doc, r)
        BY <1>3, <1>4, PlacesIn
    <2> DEFINE p == Inside(doc, k)
    <2>2. p \in 0..k - 1 /\ (p # 0 => Level(doc, k) = Level(doc, p) + 1)
        BY <2>1 DEF Placed, PlacedIn
    <2> HIDE DEF p
    <2>3. p # 0 => p \in 1..Len(doc) + 1
        BY <1>4, <2>2
    <2>4. p # 0 => Level(doc, p) \in Nat
        BY <2>1, <2>3 DEF Placed, PlacedIn
    <2>5. p = 0
        BY <1>8, <2>2, <2>4
    <2> QED BY <2>5 DEF p
<1>11. k = Len(doc) + 1
    BY <1>2, <1>3, <1>4, <1>10, RootBehind DEF AcceptedRight
<1>12. idx = Len(doc)
    BY <1>3, <1>4, <1>11
<1>13. doc' = doc /\ result' = result
    BY <1>1 DEF vars
<1> QED BY <1>1, <1>2, <1>5, <1>9, <1>12, <1>13, AfterValueIs DEF TreeInv, Walking

LEMMA TreeNext ==
    IInv /\ PlaceInv /\ VerdictInv /\ WalkInv /\ TreeInv /\ [DomNext]_domVars /\ WalkInv' => TreeInv'
PROOF
<1> SUFFICES ASSUME IInv, PlaceInv, VerdictInv, WalkInv, TreeInv, [DomNext]_domVars, WalkInv' PROVE TreeInv'
    OBVIOUS
<1>1. ASSUME UNCHANGED domVars PROVE TreeInv'
    BY <1>1 DEF domVars, TreeInv, Walking
<1>2. ASSUME Validate PROVE TreeInv'
    <2>1. pc # "Done" /\ UNCHANGED walk
        BY <1>2, StepReads DEF Validate
    <2>2. at' = "Idle"
        BY <2>1 DEF WalkInv, walk
    <2> QED BY <2>2, AfterValueIs DEF TreeInv, Walking
<1> QED BY <1>1, <1>2, TreeBegins, TreeParsesValue, TreeParsesKey, TreeEndsElement, TreeFinishes
        DEF DomNext, DomStep, DomReturned

LEMMA DomInv == DomSpec => [](IInv /\ PlaceInv /\ VerdictInv /\ WalkInv /\ TreeInv)
PROOF
<1>1. CursorInit => VerdictInv /\ TreeInv
    BY InitVerdict, TreeInit DEF CursorInit
<1>2. /\ IInv /\ PlaceInv /\ WalkInv /\ (IInv /\ PlaceInv /\ WalkInv)'
      /\ VerdictInv /\ TreeInv /\ [DomNext]_domVars
      => (VerdictInv /\ TreeInv)'
    <2> SUFFICES ASSUME IInv, PlaceInv, WalkInv, WalkInv', VerdictInv, TreeInv, [DomNext]_domVars
                 PROVE  VerdictInv' /\ TreeInv'
        OBVIOUS
    <2>1. [Next]_vars
        <3>1. CASE UNCHANGED domVars
            BY <3>1 DEF domVars, vars
        <3> QED BY <3>1, DomRefinesValidate
    <2> QED BY <2>1, NextVerdict, TreeNext
<1> QED BY <1>1, <1>2, WalkSpec, PTL DEF DomSpec

---------------------------------------------------------------------------
(* What to_value promises.                                                 *)

\* The texts of the grammar, of whatever length.
Grammatical == UNION {TextsUpTo(n) : n \in Nat}

\* No text of the grammar is longer than it says.
LEMMA GrammaticalIs ==
    ASSUME NEW d \in Seq(Char), Len(d) >= 1
    PROVE  WellPlaced(d) <=> GrammarView(d) \in Grammatical
PROOF
<1> DEFINE v == GrammarView(d)
<1>1. Len(d) \in Nat /\ Len(d) <= Len(d)
    OBVIOUS
<1>2. ASSUME WellPlaced(d) PROVE v \in Grammatical
    BY <1>1, <1>2, WellPlacedIsJson DEF Grammatical
<1>3. ASSUME v \in Grammatical PROVE WellPlaced(d)
    <2>1. PICK n \in Nat : v \in TextsUpTo(n)
        BY <1>3 DEF Grammatical
    <2>2. PICK m \in 1..n : v \in Derivations(n)[m].values
        BY <2>1 DEF TextsUpTo
    <2>3. v \in TextOf(m)
        BY <2>2, TextLength DEF TypedAt
    <2>4. DOMAIN v = 1..Len(d) /\ DOMAIN v = 1..m /\ m \in Nat
        <3>1. DOMAIN v = 1..Len(d)
            BY DEF GrammarView
        <3> HIDE DEF v
        <3>2. v \in Seq(Symbols) /\ Len(v) = m
            BY <2>3 DEF TextOf
        <3> QED BY <3>1, <3>2
    <2>5. Len(d) <= n
        <3> DEFINE l == Len(d)
        <3>1. l \in Nat /\ l >= 1 /\ 1..l = 1..m
            BY <1>1, <2>4
        <3> HIDE DEF l
        <3>2. l \in 1..m
            BY <3>1
        <3>3. l <= n
            BY <2>4, <3>2
        <3> QED BY <3>3 DEF l
    <2> QED BY <2>1, <2>5, WellPlacedIsJson
<1> QED BY <1>2, <1>3

Promise == INSTANCE ToValue WITH answer <- DomAnswer, Texts <- Grammatical

\* The promise has its own copy of the operators that the tree is made of.
LEMMA SameTree == Promise!Tree(doc) = Tree(doc)
PROOF
<1>1. \A S : Promise!Cardinality(S) = Cardinality(S)
    BY Zenon DEF Promise!Cardinality, Cardinality
<1>2. \A d, p, q, S : Promise!Occurrences(d, p, q, S) = Occurrences(d, p, q, S)
    BY <1>1, Zenon DEF Promise!Occurrences, Occurrences
<1>3. Promise!Openers = Openers /\ Promise!Closers = Closers
    BY DEF Promise!Openers, Openers, Promise!Closers, Closers
<1>4. \A d, p, q : Promise!Height(d, p, q) = Height(d, p, q)
    BY <1>2, <1>3, Zenon DEF Promise!Height, Height
<1>5. \A d, p : Promise!CloserOf(d, p) = CloserOf(d, p)
    BY <1>4 DEF Promise!CloserOf, CloserOf
<1>6. \A d, p : Promise!SeparatorsOf(d, p) = SeparatorsOf(d, p)
    BY <1>4, <1>5 DEF Promise!SeparatorsOf, SeparatorsOf
<1>7. \A d, p : Promise!ElementCount(d, p) = ElementCount(d, p)
    BY <1>1, <1>5, <1>6, Zenon DEF Promise!ElementCount, ElementCount
<1>8. \A S : Promise!Ascending(S) = Ascending(S)
    <2> TAKE S
    <2> DEFINE Behind(x) == {y \in S : y < x}
    <2>1. \A x : Promise!Cardinality(Behind(x)) = Cardinality(Behind(x))
        BY <1>1
    <2>2. Promise!Ascending(S) = [k \in 1..Promise!Cardinality(S) |->
                                     CHOOSE x \in S : Promise!Cardinality(Behind(x)) = k - 1]
        BY Zenon DEF Promise!Ascending
    <2>3. Ascending(S) = [k \in 1..Cardinality(S) |->
                             CHOOSE x \in S : Cardinality(Behind(x)) = k - 1]
        BY Zenon DEF Ascending
    <2> HIDE DEF Behind
    <2>4. \A k : (CHOOSE x \in S : Promise!Cardinality(Behind(x)) = k - 1)
                    = (CHOOSE x \in S : Cardinality(Behind(x)) = k - 1)
        BY <2>1
    <2> QED BY <1>1, <2>2, <2>3, <2>4
<1>9. /\ \A p : Promise!Leaf(p) = Leaf(p)
      /\ \A items : Promise!Array(items) = Array(items) /\ Promise!Object(items) = Object(items)
      /\ \A p, v : Promise!Member(p, v) = Member(p, v)
    BY Zenon DEF Promise!Leaf, Leaf, Promise!Array, Array, Promise!Object, Object, Promise!Member, Member
<1> DEFINE Begun(p) == IF Promise!ElementCount(doc, p) = 0 THEN {}
                        ELSE {p + 1} \union {k + 1 : k \in Promise!SeparatorsOf(doc, p)}
           Grown(f, p) ==
               LET first == Promise!Ascending(Begun(p)) IN
               CASE doc[p] = "[" -> Promise!Array([k \in DOMAIN first |-> f[first[k]]])
                 [] doc[p] = "{" -> Promise!Object([k \in DOMAIN first |->
                                       Promise!Member(first[k], f[first[k] + 2])])
                 [] OTHER        -> Promise!Leaf(p)
           Tower == LET tree[p \in 1..Len(doc)] == Grown(tree, p) IN tree
<1>10. Promise!Tree(doc) = Tower[1]
    BY DEF Promise!Tree
<1>11. \A f, p : Grown(f, p) = Node(f, doc, p)
    <2>1. \A p : Promise!Ascending(Begun(p)) = Ascending(Starts(doc, p))
        <3>1. \A p : Begun(p) = Starts(doc, p)
            BY <1>6, <1>7, Zenon DEF Starts
        <3> HIDE DEF Begun
        <3> QED BY <1>8, <3>1
    <2> HIDE DEF Begun
    <2>2. \A p : Promise!Leaf(p) = Leaf(p)
        BY <1>9
    <2> TAKE f, p
    <2> DEFINE begun == Promise!Ascending(Begun(p))
               QA == [k \in DOMAIN begun |-> f[begun[k]]]
               QO == [k \in DOMAIN begun |-> Promise!Member(begun[k], f[begun[k] + 2])]
               first == Ascending(Starts(doc, p))
               PA == [k \in DOMAIN first |-> f[first[k]]]
               PO == [k \in DOMAIN first |-> Promise!Member(first[k], f[first[k] + 2])]
               O  == [k \in DOMAIN first |-> Member(first[k], f[first[k] + 2])]
    <2>3. Grown(f, p) = CASE doc[p] = "[" -> Promise!Array(PA)
                          [] doc[p] = "{" -> Promise!Object(PO)
                          [] OTHER        -> Promise!Leaf(p)
        <3>1. Grown(f, p) = CASE doc[p] = "[" -> Promise!Array(QA)
                              [] doc[p] = "{" -> Promise!Object(QO)
                              [] OTHER        -> Promise!Leaf(p)
            BY Zenon
        <3>2. begun = first
            BY <2>1
        <3> HIDE DEF begun, first
        <3>3. QA = PA /\ QO = PO
            BY <3>2
        <3> HIDE DEF QA, QO, PA, PO, Grown
        <3> QED BY <3>1, <3>3
    <2>4. Node(f, doc, p) = CASE doc[p] = "[" -> Array(PA)
                              [] doc[p] = "{" -> Object(O)
                              [] OTHER        -> Leaf(p)
        BY Zenon DEF Node
    <2>5. PO = O
        BY <1>9
    <2> HIDE DEF PA, PO, O, Grown
    <2> QED BY <1>9, <2>2, <2>3, <2>4, <2>5
<1> HIDE DEF Grown
<1>12. Tower = Trees(doc)
    BY <1>11 DEF Trees
<1> HIDE DEF Tower
<1> QED BY <1>10, <1>12, TreeIs

\* What the promise asks of a document, and what it promises for it.
LEMMA PromiseIs ==
    ASSUME doc \in Seq(Char), Len(doc) >= 1
    PROVE  /\ Promise!WellFormed <=> WellPlaced(doc)
           /\ Promise!LeavesGood <=> FineTo(doc, Len(doc))
PROOF
<1>1. Promise!GrammarView(doc) = GrammarView(doc)
    BY DEF Promise!GrammarView, GrammarView, Promise!Quotes, Quotes, Promise!Strings, Strings,
           Promise!Numbers, Numbers, Promise!Numerals, Numerals, Promise!Atoms, Atoms
<1>2. Promise!WellFormed <=> WellPlaced(doc)
    BY <1>1, GrammaticalIs DEF Promise!WellFormed
<1>3. DOMAIN doc = 1..Len(doc)
    OBVIOUS
<1>4. Promise!LeavesGood <=> FineTo(doc, Len(doc))
    BY <1>3 DEF Promise!LeavesGood, FineTo, BadLeaves
<1> QED BY <1>2, <1>4

LEMMA AnswerIs ==
    /\ at # "Done" => DomAnswer = Promise!NoAnswer
    /\ at = "Done" /\ failure = "none" => DomAnswer = Promise!Success(value)
    /\ at = "Done" /\ failure # "none" => DomAnswer = Promise!Failure
PROOF BY DEF DomAnswer, Promise!NoAnswer, Promise!Success, Promise!Failure, Promise!Leaf, Leaf

\* The answer of a walk that is done is the one promised.
LEMMA AnswerRight ==
    ASSUME IInv, PlaceInv, VerdictInv, WalkInv, TreeInv, at = "Done"
    PROVE  DomAnswer = IF Promise!WellFormed /\ Promise!LeavesGood THEN Promise!Success(Promise!Tree(doc))
                       ELSE Promise!Failure
PROOF
<1>1. doc \in Seq(Char) /\ Len(doc) >= 1
    BY DocType, DocumentsAssumption DEF VerdictInv
<1>2. result = "Ok" <=> WellPlaced(doc)
    <2>1. pc = "Done"
        BY DEF WalkInv
    <2> QED BY <2>1, VerdictIs
<1>3. /\ Promise!WellFormed <=> WellPlaced(doc)
      /\ Promise!LeavesGood <=> FineTo(doc, Len(doc))
    BY <1>1, PromiseIs
<1>4. CASE failure = "none"
    <2>1. result = "Ok" /\ FineTo(doc, Len(doc)) /\ value = Tree(doc)
        BY <1>4 DEF TreeInv
    <2>2. DomAnswer = Promise!Success(Promise!Tree(doc))
        BY <1>4, <2>1, AnswerIs, SameTree
    <2> QED BY <1>2, <1>3, <2>1, <2>2
<1>5. CASE failure # "none"
    <2>1. result # "Ok" \/ ~FineTo(doc, Len(doc))
        BY <1>5 DEF TreeInv
    <2>2. DomAnswer = Promise!Failure
        BY <1>5, AnswerIs
    <2> QED BY <1>2, <1>3, <2>1, <2>2
<1> QED BY <1>4, <1>5

\* A walk that is done does nothing more, and no step changes the document.
LEMMA DomKeeps ==
    ASSUME WalkInv, [DomNext]_domVars
    PROVE  doc' = doc /\ (at = "Done" => DomAnswer' = DomAnswer)
PROOF
<1>1. CASE UNCHANGED domVars
    BY <1>1 DEF domVars, DomAnswer
<1>2. CASE Validate
    <2>1. pc # "Done" /\ doc' = doc
        BY <1>2, StepReads DEF Validate
    <2>2. at # "Done"
        BY <2>1, AfterValueIs DEF WalkInv
    <2> QED BY <2>1, <2>2
<1>3. CASE FromSlice \/ ParseValue \/ ParseKey \/ Element \/ Finish
    <2>1. doc' = doc
        BY <1>3, Zenon DEF FromSlice, ParseValue, ParseKey, Element, Finish, vars
    <2>2. at \in {"Idle", "Value", "Key", AfterValue}
        BY <1>3, Zenon DEF FromSlice, ParseValue, ParseKey, Element, Finish, AfterValue
    <2>3. at # "Done"
        BY <2>2, AfterValueIs
    <2> QED BY <2>1, <2>3
<1> QED BY <1>1, <1>2, <1>3 DEF DomNext, DomStep, DomReturned

\* to_value keeps the safety half of its promise, whatever the document: it
\* answers at most once, with the document's tree when that is a JSON text of
\* sound strings and numbers, and with an error otherwise.
THEOREM AnswersAsPromised == DomSpec => Promise!Safety
PROOF
<1> DEFINE Inv == IInv /\ PlaceInv /\ VerdictInv /\ WalkInv /\ TreeInv
<1>1. CursorInit => Promise!Init
    <2> SUFFICES ASSUME CursorInit PROVE Promise!Init
        OBVIOUS
    <2>1. doc \in Seq(Char)
        BY InitInv, DocType DEF CursorInit
    <2>2. at # "Done"
        BY DEF CursorInit
    <2>3. doc \in Seq(Promise!Char)
        BY <2>1, Zenon DEF Promise!Char, Char, Promise!Openers, Openers, Promise!Closers, Closers,
                    Promise!Quotes, Quotes, Promise!Strings, Strings, Promise!Numbers, Numbers,
                    Promise!Numerals, Numerals, Promise!Atoms, Atoms, Promise!BadAtoms, BadAtoms
    <2> QED BY <2>2, <2>3, AnswerIs DEF Promise!Init
<1>2. (Inv /\ at = "Done" =>
          DomAnswer = IF Promise!WellFormed /\ Promise!LeavesGood
                      THEN Promise!Success(Promise!Tree(doc)) ELSE Promise!Failure)'
    <2>1. Inv /\ at = "Done" =>
            DomAnswer = IF Promise!WellFormed /\ Promise!LeavesGood
                        THEN Promise!Success(Promise!Tree(doc)) ELSE Promise!Failure
        BY AnswerRight
    <2> QED BY <2>1, PTL
<1>3. Inv /\ Inv' /\ [DomNext]_domVars => [Promise!Reply]_<<doc, DomAnswer>>
    <2> SUFFICES ASSUME Inv, Inv', [DomNext]_domVars
                 PROVE  Promise!Reply \/ UNCHANGED <<doc, DomAnswer>>
        OBVIOUS
    <2>1. doc' = doc /\ (at = "Done" => DomAnswer' = DomAnswer)
        BY DomKeeps
    <2>2. CASE at # "Done" /\ at' # "Done"
        <3>1. DomAnswer' = DomAnswer
            BY <2>2 DEF DomAnswer
        <3> QED BY <2>1, <3>1
    <2>3. CASE at # "Done" /\ at' = "Done"
        <3>1. DomAnswer = Promise!NoAnswer
            BY <2>3, AnswerIs
        <3>2. Inv' /\ at' = "Done"
            BY <2>3
        <3>3. DomAnswer' = IF Promise!WellFormed /\ Promise!LeavesGood
                           THEN Promise!Success(Promise!Tree(doc)) ELSE Promise!Failure
            BY <1>2, <2>1, <3>2 DEF Promise!WellFormed, Promise!LeavesGood
        <3> QED BY <2>1, <3>1, <3>3 DEF Promise!Reply
    <2> QED BY <2>1, <2>2, <2>3
<1>4. DomSpec => []Inv
    BY DomInv
<1> QED BY <1>1, <1>3, <1>4, PTL DEF DomSpec, Promise!Safety

---------------------------------------------------------------------------
(* Part four: the accesses of from_slice.                                  *)
(*                                                                         *)
(* The characters directly inside a bracket.                               *)

Direct(d, p, r) == {t \in p + 1..r - 1 : Inside(d, t) = p}

\* The least number of them before a place: four for every member of an
\* object, two for every element of an array, and those of the one under way.
Spent(d, p, r) ==
    IF d[p] = Brace
    THEN 4 * (Ordinal(d, r) - 1) + (IF Want(d, r) = "Colon" THEN 1 ELSE
                                    IF Want(d, r) = "Value" THEN 2 ELSE
                                    IF Want(d, r) = "Behind" THEN 3 ELSE 0)
    ELSE 2 * (Ordinal(d, r) - 1) + (IF Want(d, r) = "Behind" THEN 1 ELSE 0)

\* What can be expected directly inside a bracket.
WantsIn(d, p) ==
    IF d[p] = Brace THEN {"FirstKey", "Key", "Colon", "Value", "Behind"}
    ELSE {"FirstElement", "Value", "Behind"}

Passed(d, p, r) == Want(d, r) \in WantsIn(d, p) /\ Cardinality(Direct(d, p, r)) >= Spent(d, p, r)

\* How the place behind a character follows from the character's own, or from
\* that of the bracket it closes.
Follows(d, p, x, r) ==
    \/ Want(d, x) \in Beginning /\ Want(d, r) = "Behind" /\ Ordinal(d, r) = Ordinal(d, x)
    \/ Want(d, x) \in {"FirstKey", "Key"} /\ Want(d, r) = "Colon" /\ Ordinal(d, r) = Ordinal(d, x)
    \/ Want(d, x) = "Colon" /\ Want(d, r) = "Value" /\ Ordinal(d, r) = Ordinal(d, x)
    \/ /\ Want(d, x) = "Behind" /\ Want(d, r) = (IF d[p] = Brace THEN "Key" ELSE "Value")
       /\ Ordinal(d, r) = Ordinal(d, x) + 1

\* A part that leaves an element out is smaller.
LEMMA OneLarger ==
    ASSUME NEW a \in Int, NEW b \in Int, NEW T, T \subseteq a..b,
           NEW S, S \subseteq T, NEW x \in T, x \notin S
    PROVE  Cardinality(T) >= Cardinality(S) + 1 /\ Cardinality(S) \in Nat /\ Cardinality(T) \in Nat
PROOF
<1>1. IsFiniteSet(T) /\ Cardinality(T) \in Nat
    BY PartOfInterval
<1>2. IsFiniteSet(S) /\ Cardinality(S) \in Nat
    BY <1>1, FS_Subset, FS_CardinalityType
<1> DEFINE U == S \union {x}
<1>3. Cardinality(U) = Cardinality(S) + 1
    BY <1>2, FS_AddElement
<1>4. U \subseteq T
    OBVIOUS
<1> HIDE DEF U
<1>5. Cardinality(U) <= Cardinality(T)
    BY <1>1, <1>4, FS_Subset
<1> QED BY <1>1, <1>2, <1>3, <1>5

\* The place behind has one character more before it.
LEMMA SpentOn ==
    ASSUME NEW d, NEW p, NEW x, NEW r, Want(d, x) \in WantsIn(d, p), Follows(d, p, x, r),
           Ordinal(d, x) \in Nat
    PROVE  Want(d, r) \in WantsIn(d, p) /\ Spent(d, p, r) = Spent(d, p, x) + 1 /\ Spent(d, p, x) \in Int
PROOF
<1> DEFINE v == Want(d, x)
           w == Want(d, r)
           o == Ordinal(d, x)
           u == Ordinal(d, r)
<1>1. /\ v \in WantsIn(d, p) /\ o \in Nat
      /\ \/ v \in Beginning /\ w = "Behind" /\ u = o
         \/ v \in {"FirstKey", "Key"} /\ w = "Colon" /\ u = o
         \/ v = "Colon" /\ w = "Value" /\ u = o
         \/ v = "Behind" /\ w = (IF d[p] = Brace THEN "Key" ELSE "Value") /\ u = o + 1
    BY DEF Follows
<1>2. /\ Spent(d, p, r) = IF d[p] = Brace
                          THEN 4 * (u - 1) + (IF w = "Colon" THEN 1 ELSE IF w = "Value" THEN 2 ELSE
                                              IF w = "Behind" THEN 3 ELSE 0)
                          ELSE 2 * (u - 1) + (IF w = "Behind" THEN 1 ELSE 0)
      /\ Spent(d, p, x) = IF d[p] = Brace
                          THEN 4 * (o - 1) + (IF v = "Colon" THEN 1 ELSE IF v = "Value" THEN 2 ELSE
                                              IF v = "Behind" THEN 3 ELSE 0)
                          ELSE 2 * (o - 1) + (IF v = "Behind" THEN 1 ELSE 0)
    BY DEF Spent
<1> HIDE DEF v, w, o, u
<1>3. CASE d[p] = Brace
    <2>1. v \in {"FirstKey", "Key", "Colon", "Value", "Behind"}
        BY <1>1, <1>3 DEF WantsIn
    <2>2. \/ v = "Value" /\ w = "Behind" /\ u = o
          \/ v \in {"FirstKey", "Key"} /\ w = "Colon" /\ u = o
          \/ v = "Colon" /\ w = "Value" /\ u = o
          \/ v = "Behind" /\ w = "Key" /\ u = o + 1
        BY <1>1, <1>3, <2>1 DEF Beginning
    <2>3. w \in WantsIn(d, p)
        BY <1>3, <2>2 DEF WantsIn
    <2>4. Spent(d, p, r) = Spent(d, p, x) + 1 /\ Spent(d, p, x) \in Int
        BY <1>1, <1>2, <1>3, <2>2
    <2> QED BY <2>3, <2>4 DEF w
<1>4. CASE d[p] # Brace
    <2>1. v \in {"FirstElement", "Value", "Behind"}
        BY <1>1, <1>4 DEF WantsIn
    <2>2. \/ v \in {"FirstElement", "Value"} /\ w = "Behind" /\ u = o
          \/ v = "Behind" /\ w = "Value" /\ u = o + 1
        BY <1>1, <1>4, <2>1 DEF Beginning
    <2>3. w \in WantsIn(d, p)
        BY <1>4, <2>2 DEF WantsIn
    <2>4. Spent(d, p, r) = Spent(d, p, x) + 1 /\ Spent(d, p, x) \in Int
        BY <1>1, <1>2, <1>4, <2>2
    <2> QED BY <2>3, <2>4 DEF w
<1> QED BY <1>3, <1>4 DEF w

\* So the number stays a bound.
LEMMA PassedOn ==
    ASSUME NEW d, NEW p \in Nat, NEW r \in Nat, NEW x \in p + 1..r - 1, Inside(d, x) = p,
           Passed(d, p, x), Follows(d, p, x, r), Ordinal(d, x) \in Nat
    PROVE  Passed(d, p, r)
PROOF
<1>1. Want(d, r) \in WantsIn(d, p) /\ Spent(d, p, r) = Spent(d, p, x) + 1 /\ Spent(d, p, x) \in Int
    BY SpentOn DEF Passed
<1> DEFINE S == Direct(d, p, x)
           T == Direct(d, p, r)
<1>2. S \subseteq T /\ x \in T /\ x \notin S /\ T \subseteq p + 1..r - 1
    BY DEF Direct
<1> HIDE DEF S, T
<1>3. p + 1 \in Int /\ r - 1 \in Int
    OBVIOUS
<1>4. Cardinality(T) >= Cardinality(S) + 1 /\ Cardinality(S) \in Nat /\ Cardinality(T) \in Nat
    BY <1>2, <1>3, OneLarger
<1>5. Cardinality(S) >= Spent(d, p, x)
    BY DEF Passed, S
<1>6. Cardinality(T) >= Spent(d, p, r)
    BY <1>1, <1>4, <1>5
<1> QED BY <1>1, <1>6 DEF Passed, T

\* No place inside a bracket has fewer of them before it.
LEMMA PassedStep ==
    ASSUME NEW d, NEW c, d \in Seq(Char), AcceptedRight(d, c), NEW p \in 1..Len(d), d[p] \in Openers,
           NEW k \in p..Len(d), \A x \in p + 1..k : Inside(d, x) = p => Passed(d, p, x),
           Inside(d, k + 1) = p
    PROVE  Passed(d, p, k + 1)
PROOF
<1>0. /\ k \in 1..Len(d) /\ k + 1 \in 1..Len(d) + 1 /\ k \in Nat /\ p \in Nat /\ k + 1 \in Nat
      /\ Len(d) \in 0..Len(d) /\ \A x \in 1..k : x \in 1..Len(d) + 1 /\ x \in 1..Len(d) /\ x + 1 \in 1..Len(d) + 1
    OBVIOUS
<1>1. Sound(d, Len(d))
    BY DEF AcceptedRight
<1>2. \A x \in 1..Len(d) + 1 : Placed(d, x) /\ Want(d, x) # "Stray"
    BY <1>0, <1>1, AllPlaced DEF Sound
<1>3. Enters(d, k) \/ Stays(d, k) \/ Advances(d, k) \/ Leaves(d, k)
    BY <1>0, <1>2, Moves
<1>4. \A x \in 1..k : Ordinal(d, x) \in Nat
    BY <1>0, <1>2 DEF Placed, PlacedIn
<1>5. CASE Enters(d, k)
    <2>1. k = p /\ Ordinal(d, k + 1) = 1
        BY <1>5 DEF Enters
    <2>2. Want(d, k + 1) = IF d[p] = Brace THEN "FirstKey" ELSE "FirstElement"
        BY <1>5, <2>1 DEF Enters
    <2>3. Spent(d, p, k + 1) = 0 /\ Want(d, k + 1) \in WantsIn(d, p)
        BY <2>1, <2>2 DEF Spent, WantsIn
    <2>4. Direct(d, p, k + 1) = {}
        BY <1>0, <2>1 DEF Direct
    <2>5. Cardinality(Direct(d, p, k + 1)) = 0
        BY <2>4, FS_EmptySet
    <2> QED BY <2>3, <2>5 DEF Passed
<1>6. CASE Stays(d, k) \/ Advances(d, k)
    <2>1. Inside(d, k) = p /\ Follows(d, p, k, k + 1)
        BY <1>6 DEF Stays, Advances, Follows
    <2>2. k # p
        <3>1. Placed(d, k)
            BY <1>0, <1>2
        <3> QED BY <1>0, <2>1, <3>1 DEF Placed, PlacedIn
    <2>3. k \in p + 1..k /\ k \in p + 1..k + 1 - 1 /\ k \in 1..k
        BY <1>0, <2>2
    <2> QED BY <1>0, <1>4, <2>1, <2>3, PassedOn
<1>7. CASE Leaves(d, k)
    <2> DEFINE s == Inside(d, k)
    <2>1. /\ s \in 1..k - 1 /\ Inside(d, s) = p /\ Want(d, k + 1) = "Behind"
          /\ Ordinal(d, k + 1) = Ordinal(d, s)
        BY <1>7 DEF Leaves
    <2>2. Placed(d, k) /\ Level(d, k) \in Nat
        BY <1>0, <1>2 DEF Placed, PlacedIn
    <2> HIDE DEF s
    <2>3. s \in 1..k /\ s \in Nat /\ s # 0
        BY <1>0, <2>1
    <2>4. d[s] \in Openers
        BY <2>2, <2>3 DEF s, Placed, PlacedIn
    <2>5. Enters(d, s)
        BY <1>0, <1>2, <2>3, <2>4, ByKind
    <2>6. Follows(d, p, s, k + 1)
        BY <2>1, <2>5 DEF Enters, Follows
    <2>7. s # p /\ p < s
        <3>1. Placed(d, s)
            BY <1>0, <1>2, <2>3
        <3>2. p \in 0..s - 1
            BY <2>1, <3>1 DEF Placed, PlacedIn
        <3> QED BY <2>3, <3>2
    <2>8. s \in p + 1..k /\ s \in p + 1..k + 1 - 1
        BY <1>0, <2>1, <2>3, <2>7
    <2> QED BY <1>0, <1>4, <2>1, <2>3, <2>6, <2>8, PassedOn
<1> QED BY <1>3, <1>5, <1>6, <1>7

\* By induction over the places.
LEMMA AllPassed ==
    ASSUME NEW d, NEW c, d \in Seq(Char), AcceptedRight(d, c), NEW p \in 1..Len(d), d[p] \in Openers,
           NEW r \in p + 1..Len(d) + 1, Inside(d, r) = p
    PROVE  Passed(d, p, r)
PROOF
<1> DEFINE Good(k) == \A x \in p + 1..k : Inside(d, x) = p => Passed(d, p, x)
           S == {m \in Nat : Good(p + m)}
           n == Len(d) + 1 - p
<1>1. n \in Nat /\ p \in Nat /\ p + n = Len(d) + 1
    OBVIOUS
<1>2. 0 \in S
    <2>1. \A x \in p + 1..p + 0 : FALSE
        BY <1>1
    <2> QED BY <2>1
<1>3. ASSUME NEW m \in 0..n - 1, m \in S PROVE m + 1 \in S
    <2> DEFINE k == p + m
    <2>1. k \in p..Len(d) /\ Good(k) /\ p + (m + 1) = k + 1 /\ m + 1 \in Nat
        BY <1>1, <1>3
    <2> HIDE DEF k
    <2>2. Inside(d, k + 1) = p => Passed(d, p, k + 1)
        BY <2>1, PassedStep
    <2>3. \A x \in p + 1..k + 1 : x \in p + 1..k \/ x = k + 1
        BY <1>1, <2>1
    <2>4. Good(k + 1)
        BY <2>1, <2>2, <2>3
    <2> QED BY <2>1, <2>4
<1> HIDE DEF S, n
<1>4. 0..n \subseteq S
    BY <1>1, <1>2, <1>3, Induction
<1>5. n \in S
    <2>1. n \in 0..n
        BY <1>1
    <2> QED BY <1>4, <2>1
<1>6. Good(Len(d) + 1)
    BY <1>1, <1>5 DEF S
<1> QED BY <1>6
---------------------------------------------------------------------------
(* The characters ahead that no bracket to come accounts for.              *)

Within(d, p) == {t \in p + 1..Len(d) : Inside(d, t) = p}
Ahead(d, q)  == {t \in q..Len(d) : Inside(d, t) < q}
Room(d, q)   == Cardinality(Ahead(d, q))

\* What is read of a container with as many elements: an array has a comma
\* behind each or its closing bracket, an object a key and a colon as well.
Content(d, c, p) == IF c[p] = 0 THEN 1 ELSE IF d[p] = Brace THEN 4 * c[p] ELSE 2 * c[p]

LEMMA RoomIs ==
    ASSUME NEW d, d \in Seq(Char), NEW q \in 1..Len(d) + 1
    PROVE  IsFiniteSet(Ahead(d, q)) /\ Room(d, q) \in 0..Len(d) + 1 - q
PROOF
<1>1. q \in Int /\ Len(d) \in Int /\ Ahead(d, q) \subseteq q..Len(d)
    BY DEF Ahead
<1>2. IsFiniteSet(Ahead(d, q)) /\ Room(d, q) \in Nat
    BY <1>1, PartOfInterval DEF Room
<1>3. IsFiniteSet(q..Len(d)) /\ Cardinality(q..Len(d)) = IF q > Len(d) THEN 0 ELSE Len(d) - q + 1
    BY <1>1, FS_Interval
<1>4. Room(d, q) <= Cardinality(q..Len(d))
    BY <1>1, <1>3, FS_Subset DEF Room
<1> QED BY <1>1, <1>2, <1>3, <1>4

\* A character takes one off the room.
LEMMA RoomNext ==
    ASSUME NEW d, d \in Seq(Char), NEW q \in 1..Len(d), \A t \in 1..Len(d) : Inside(d, t) \in Int
    PROVE  Room(d, q + 1) >= Room(d, q) - 1
PROOF
<1> DEFINE S == Ahead(d, q)
           T == Ahead(d, q + 1)
<1>1. q + 1 \in 1..Len(d) + 1 /\ q \in 1..Len(d) + 1
    OBVIOUS
<1>2. /\ IsFiniteSet(S) /\ Cardinality(S) = Room(d, q) /\ Room(d, q) \in Nat
      /\ IsFiniteSet(T) /\ Cardinality(T) = Room(d, q + 1) /\ Room(d, q + 1) \in Nat
    BY <1>1, RoomIs DEF Room
<1>3. ASSUME NEW t \in S, t # q PROVE t \in T
    <2>1. t \in q + 1..Len(d) /\ t \in 1..Len(d) /\ Inside(d, t) < q
        BY <1>3 DEF Ahead
    <2>2. Inside(d, t) < q + 1
        BY <2>1
    <2> QED BY <2>1, <2>2 DEF Ahead
<1> HIDE DEF S, T
<1> DEFINE U == T \union {q}
<1>4. IsFiniteSet(U) /\ Cardinality(U) <= Cardinality(T) + 1
    <2>1. CASE q \in T
        <3>1. U = T
            BY <2>1
        <3> HIDE DEF U
        <3> QED BY <1>2, <3>1
    <2>2. CASE q \notin T
        <3>1. IsFiniteSet(U) /\ Cardinality(U) = Cardinality(T) + 1
            BY <1>2, <2>2, FS_AddElement
        <3> HIDE DEF U
        <3> QED BY <1>2, <3>1
    <2> QED BY <2>1, <2>2
<1>5. S \subseteq U
    BY <1>3
<1> HIDE DEF U
<1>6. Cardinality(S) <= Cardinality(U) /\ Cardinality(U) \in Nat
    BY <1>4, <1>5, FS_Subset, FS_CardinalityType
<1> QED BY <1>2, <1>4, <1>6

\* A bracket brings its own.
LEMMA RoomEnters ==
    ASSUME NEW d, d \in Seq(Char), NEW q \in 1..Len(d), \A t \in 1..Len(d) : Inside(d, t) \in Int
    PROVE  Room(d, q + 1) >= Room(d, q) - 1 + Cardinality(Within(d, q)) /\ Cardinality(Within(d, q)) \in Nat
PROOF
<1> DEFINE S == Ahead(d, q) \ {q}
           T == Ahead(d, q + 1)
           W == Within(d, q)
<1>1. q + 1 \in 1..Len(d) + 1 /\ q \in 1..Len(d) + 1 /\ q + 1 \in Int /\ Len(d) \in Int
    OBVIOUS
<1>2. /\ IsFiniteSet(Ahead(d, q)) /\ Cardinality(Ahead(d, q)) = Room(d, q) /\ Room(d, q) \in Nat
      /\ IsFiniteSet(T) /\ Cardinality(T) = Room(d, q + 1) /\ Room(d, q + 1) \in Nat
    BY <1>1, RoomIs DEF Room
<1>3. W \subseteq q + 1..Len(d)
    BY DEF Within
<1>4. IsFiniteSet(W) /\ Cardinality(W) \in Nat
    <2> HIDE DEF W
    <2> QED BY <1>1, <1>3, PartOfInterval
<1>5. S \subseteq T
    <2> SUFFICES ASSUME NEW t \in S PROVE t \in T
        OBVIOUS
    <2>1. t \in q + 1..Len(d) /\ t \in 1..Len(d) /\ Inside(d, t) < q
        BY DEF Ahead
    <2>2. Inside(d, t) < q + 1
        BY <2>1
    <2> QED BY <2>1, <2>2 DEF Ahead
<1>6. W \subseteq T
    BY DEF Within, Ahead
<1>7. S \intersect W = {}
    BY DEF Within, Ahead
<1>8. IsFiniteSet(S) /\ Cardinality(S) >= Room(d, q) - 1
    <2>1. CASE q \in Ahead(d, q)
        <3>1. IsFiniteSet(S) /\ Cardinality(S) = Cardinality(Ahead(d, q)) - 1
            BY <1>2, <2>1, FS_RemoveElement
        <3> QED BY <1>2, <3>1
    <2>2. CASE q \notin Ahead(d, q)
        <3>1. S = Ahead(d, q)
            BY <2>2
        <3> HIDE DEF S
        <3> QED BY <1>2, <3>1
    <2> QED BY <2>1, <2>2
<1> HIDE DEF S, T, W
<1>9. Cardinality(S \union W) = Cardinality(S) + Cardinality(W) /\ Cardinality(S) \in Nat
    BY <1>4, <1>7, <1>8, DisjointUnion
<1>10. Cardinality(S \union W) <= Cardinality(T)
    <2>1. S \union W \subseteq T
        BY <1>5, <1>6
    <2> QED BY <1>2, <2>1, FS_Subset
<1>11. Room(d, q + 1) >= Room(d, q) - 1 + Cardinality(W)
    BY <1>2, <1>4, <1>8, <1>9, <1>10
<1> QED BY <1>4, <1>11 DEF W

\* As many as the count promises.
LEMMA WithinSize ==
    ASSUME NEW d, NEW c, d \in Seq(Char), AcceptedRight(d, c), NEW p \in 1..Len(d), d[p] \in Openers
    PROVE  c[p] \in Nat /\ Cardinality(Within(d, p)) >= Content(d, c, p)
PROOF
<1>1. PICK q \in p + 1..Len(d) : Leaves(d, q) /\ Inside(d, q) = p
    BY ClosedAt
<1>2. q \in 1..Len(d) /\ q \in 1..Len(d) + 1 /\ q \in p + 1..Len(d) + 1 /\ p \in Nat /\ Len(d) \in 0..Len(d)
    OBVIOUS
<1>3. d[q] \in Closers /\ Want(d, q) \in First \union {"Behind"}
    BY <1>1 DEF Leaves
<1>4. c[p] = IF Want(d, q) \in First THEN 0 ELSE Ordinal(d, q)
    BY <1>1, <1>2, <1>3 DEF AcceptedRight
<1>5. Ordinal(d, q) \in Nat
    <2>1. Placed(d, q)
        BY <1>2, AllPlaced DEF AcceptedRight
    <2> QED BY <2>1 DEF Placed, PlacedIn
<1> DEFINE S == Direct(d, p, q)
           T == Within(d, p)
<1>6. S \subseteq T /\ q \in T /\ q \notin S /\ T \subseteq p + 1..Len(d)
    BY <1>1 DEF Direct, Within
<1> HIDE DEF S, T
<1>7. Cardinality(T) >= Cardinality(S) + 1 /\ Cardinality(S) \in Nat /\ Cardinality(T) \in Nat
    <2>1. p + 1 \in Int /\ Len(d) \in Int
        OBVIOUS
    <2> QED BY <1>6, <2>1, OneLarger
<1>8. CASE c[p] = 0
    BY <1>7, <1>8 DEF Content, T
<1>9. CASE c[p] # 0
    <2>1. Want(d, q) = "Behind" /\ c[p] = Ordinal(d, q)
        BY <1>3, <1>4, <1>9
    <2>2. Cardinality(S) >= Spent(d, p, q)
        BY <1>1, <1>2, AllPassed DEF Passed, S
    <2>3. Spent(d, p, q) + 1 = Content(d, c, p)
        BY <1>5, <1>9, <2>1 DEF Spent, Content
    <2>4. Spent(d, p, q) \in Int
        BY <1>5, <2>1 DEF Spent
    <2>5. Cardinality(T) >= Content(d, c, p)
        BY <1>7, <2>2, <2>3, <2>4
    <2> QED BY <1>5, <2>1, <2>5 DEF T
<1> QED BY <1>8, <1>9

---------------------------------------------------------------------------
(* What the accesses under way are still to read.                          *)

\* A container as CommaSeparated keeps it: deserialize_map is not a tuple's.
IsVisit(v) ==
    /\ v = [of |-> v.of, type |-> v.type, len |-> v.len, first |-> v.first, items |-> v.items,
            key |-> v.key]
    /\ v.of \in {"array", "map"} /\ v.len \in Nat /\ v.first \in BOOLEAN
    /\ v.of = "map" => v.type.shape # "tuple"

AreVisits(cs) == Enumerated(cs) /\ \A j \in 1..Len(cs) : IsVisit(cs[j])

\* Of a container whose element is being read, behind that element: its comma
\* and the other elements with theirs, or the closing bracket.
Rest(v) == IF v.of = "map" THEN 4 * v.len + 1 ELSE 2 * v.len + 1

\* Of the container that is asked for its next element.
Due(v) == IF v.first /\ v.len = 0 THEN 1
          ELSE IF v.of = "map" THEN 4 * v.len
          ELSE IF v.first THEN 2 * v.len ELSE 2 * v.len + 1

\* The containers cs, each with an element being read, are due x characters
\* at most behind that of the innermost one: b adds them up.
AddsUp(cs, b) ==
    /\ b \in [0..Len(cs) -> Nat]
    /\ \A j \in 1..Len(cs) : ~cs[j].first /\ b[j] >= b[j - 1] + Rest(cs[j])

Owed(cs, x) == x \in Int /\ \E b : AddsUp(cs, b) /\ b[Len(cs)] <= x

\* Both are counts, and an array is always due its closing bracket or a comma.
LEMMA RestIs ==
    ASSUME NEW v, IsVisit(v)
    PROVE  /\ Rest(v) \in Nat /\ Rest(v) >= 1 /\ Due(v) \in Nat
           /\ v.of = "array" => Due(v) >= 1
PROOF
<1> DEFINE l == v.len
<1>1. l \in Nat /\ v.first \in BOOLEAN /\ v.of \in {"array", "map"}
    BY DEF IsVisit
<1>2. Rest(v) = (IF v.of = "map" THEN 4 * l + 1 ELSE 2 * l + 1)
    BY DEF Rest
<1>3. Due(v) = (IF v.first /\ l = 0 THEN 1 ELSE IF v.of = "map" THEN 4 * l
                ELSE IF v.first THEN 2 * l ELSE 2 * l + 1)
    BY DEF Due
<1> HIDE DEF l
<1> QED BY <1>1, <1>2, <1>3

\* Each is due one at least.
LEMMA OwedAll ==
    ASSUME NEW cs, AreVisits(cs), NEW x, Owed(cs, x)
    PROVE  Len(cs) \in Nat /\ Len(cs) <= x /\ x \in Int
PROOF
<1> DEFINE n == Len(cs)
<1>1. n \in Nat
    BY LenProperties DEF AreVisits, Enumerated
<1>2. PICK b : AddsUp(cs, b) /\ b[n] <= x
    BY DEF Owed
<1> DEFINE S == {m \in Nat : m <= n => b[m] >= m}
<1>3. /\ \A j \in 0..n : b[j] \in Nat
      /\ \A j \in 1..n : b[j] >= b[j - 1] + Rest(cs[j])
    BY <1>2 DEF AddsUp
<1>4. \A j \in 1..n : Rest(cs[j]) \in Nat /\ Rest(cs[j]) >= 1
    BY RestIs DEF AreVisits
<1> HIDE DEF n
<1>5. 0 \in S
    BY <1>1, <1>3
<1>6. ASSUME NEW m \in 0..n - 1, m \in S PROVE m + 1 \in S
    <2> DEFINE j == m + 1
    <2>1. j \in 1..n /\ j - 1 = m /\ j \in 0..n /\ m \in 0..n /\ m \in Nat /\ j \in Nat
        BY <1>1
    <2> HIDE DEF j
    <2>2. b[m] >= m /\ b[m] \in Nat /\ b[j] \in Nat /\ b[j] >= b[m] + Rest(cs[j])
        BY <1>1, <1>3, <1>6, <2>1
    <2>3. Rest(cs[j]) \in Nat /\ Rest(cs[j]) >= 1
        BY <1>4, <2>1
    <2>4. b[j] >= j
        BY <2>1, <2>2, <2>3
    <2>5. j \in S
        BY <2>1, <2>4
    <2> QED BY <2>5 DEF j
<1>7. 0..n \subseteq S
    <2> HIDE DEF S
    <2> QED BY <1>1, <1>5, <1>6, Induction
<1>8. b[n] >= n /\ b[n] \in Nat
    <2>1. n \in 0..n
        BY <1>1
    <2> QED BY <1>1, <1>3, <1>7, <2>1
<1>9. x \in Int
    BY DEF Owed
<1> QED BY <1>1, <1>2, <1>8, <1>9 DEF n

LEMMA OwedMore ==
    ASSUME NEW cs, NEW x, Owed(cs, x), Len(cs) \in Nat, NEW y \in Int, x <= y
    PROVE  Owed(cs, y)
PROOF
<1>1. PICK b : AddsUp(cs, b) /\ b[Len(cs)] <= x
    BY DEF Owed
<1>2. b[Len(cs)] \in Nat /\ x \in Int
    <2>1. Len(cs) \in 0..Len(cs)
        OBVIOUS
    <2> QED BY <1>1, <2>1 DEF AddsUp, Owed
<1>3. b[Len(cs)] <= y
    BY <1>1, <1>2
<1> QED BY <1>1, <1>3 DEF Owed

\* Nothing is under way.
LEMMA OwedNone ==
    ASSUME NEW cs, Len(cs) = 0, NEW x \in Nat
    PROVE  Owed(cs, x)
PROOF
<1> DEFINE b == [j \in 0..0 |-> 0]
<1>1. b \in [0..0 -> Nat] /\ b[0] = 0
    OBVIOUS
<1>2. \A j \in 1..0 : FALSE
    OBVIOUS
<1> HIDE DEF b
<1>3. AddsUp(cs, b)
    BY <1>1, <1>2 DEF AddsUp
<1>4. b[Len(cs)] <= x
    BY <1>1
<1> QED BY <1>3, <1>4 DEF Owed

\* One more container.
LEMMA OwedInside ==
    ASSUME NEW cs, AreVisits(cs), NEW x, Owed(cs, x),
           NEW ds, Len(ds) = Len(cs) + 1, \A j \in 1..Len(cs) : ds[j] = cs[j],
           IsVisit(ds[Len(cs) + 1]), ~ds[Len(cs) + 1].first
    PROVE  Owed(ds, x + Rest(ds[Len(cs) + 1]))
PROOF
<1> DEFINE n == Len(cs)
           m == n + 1
           r == Rest(ds[m])
<1>1. n \in Nat
    BY LenProperties DEF AreVisits, Enumerated
<1>2. PICK b : AddsUp(cs, b) /\ b[n] <= x
    BY DEF Owed
<1>3. r \in Nat /\ x \in Int
    BY RestIs DEF Owed
<1>4. /\ b \in [0..n -> Nat] /\ Len(ds) = m /\ ~ds[m].first
      /\ \A j \in 1..n : ds[j] = cs[j] /\ ~cs[j].first /\ b[j] >= b[j - 1] + Rest(cs[j])
    BY <1>2 DEF AddsUp
<1> DEFINE u == [j \in 0..m |-> IF j = m THEN b[n] + r ELSE b[j]]
<1> HIDE DEF n, r
<1>5. /\ m \in Nat /\ n \in 0..n /\ m # n /\ m - 1 = n /\ \A j \in 0..m : j # m => j \in 0..n
      /\ \A j \in 1..m : j # m => j \in 1..n /\ j - 1 # m
    BY <1>1
<1>6. /\ u \in [0..m -> Nat] /\ u[m] = b[n] + r /\ u[n] = b[n]
      /\ \A j \in 1..n : u[j] = b[j] /\ u[j - 1] = b[j - 1]
    <2>1. \A j \in 0..m : (IF j = m THEN b[n] + r ELSE b[j]) \in Nat
        BY <1>3, <1>4, <1>5
    <2> QED BY <1>1, <2>1
<1> HIDE DEF u, m
<1>7. ASSUME NEW j \in 1..m PROVE ~ds[j].first /\ u[j] >= u[j - 1] + Rest(ds[j])
    <2>1. CASE j = m
        <3>1. u[j] = u[j - 1] + r /\ b[n] + r \in Nat
            BY <1>3, <1>4, <1>5, <1>6, <2>1
        <3> QED BY <1>4, <1>6, <2>1, <3>1 DEF r
    <2>2. CASE j # m
        BY <1>4, <1>5, <1>6, <2>2
    <2> QED BY <2>1, <2>2
<1>8. AddsUp(ds, u)
    BY <1>4, <1>6, <1>7 DEF AddsUp
<1>9. u[Len(ds)] <= x + r /\ x + r \in Int
    BY <1>2, <1>3, <1>4, <1>5, <1>6
<1> QED BY <1>8, <1>9 DEF Owed, r, m, n

\* Without the innermost.
LEMMA OwedOutside ==
    ASSUME NEW cs, AreVisits(cs), Len(cs) # 0, NEW x, Owed(cs, x),
           NEW ds, Len(ds) = Len(cs) - 1, \A j \in 1..Len(cs) - 1 : ds[j] = cs[j]
    PROVE  Owed(ds, x - Rest(cs[Len(cs)]))
PROOF
<1> DEFINE n == Len(cs)
           m == n - 1
           r == Rest(cs[n])
<1>1. n \in Nat \ {0} /\ n \in 1..n
    BY LenProperties DEF AreVisits, Enumerated
<1>2. PICK b : AddsUp(cs, b) /\ b[n] <= x
    BY DEF Owed
<1>3. r \in Nat /\ x \in Int
    BY <1>1, RestIs DEF Owed, AreVisits
<1>4. /\ b \in [0..n -> Nat] /\ Len(ds) = m
      /\ \A j \in 1..n : ~cs[j].first /\ b[j] >= b[j - 1] + Rest(cs[j])
      /\ \A j \in 1..m : ds[j] = cs[j]
    BY <1>2 DEF AddsUp
<1> DEFINE u == [j \in 0..m |-> b[j]]
<1>5. b[n] >= b[m] + r
    BY <1>1, <1>4
<1> HIDE DEF n, r
<1>6. /\ m \in Nat /\ m \in 0..m /\ \A j \in 0..m : j \in 0..n
      /\ \A j \in 1..m : j \in 1..n /\ j \in 0..m /\ j - 1 \in 0..m
    BY <1>1
<1>7. u \in [0..m -> Nat] /\ \A j \in 0..m : u[j] = b[j]
    <2>1. \A j \in 0..m : b[j] \in Nat
        BY <1>4, <1>6
    <2> QED BY <2>1
<1> HIDE DEF u, m
<1>8. AddsUp(ds, u)
    <2>1. ASSUME NEW j \in 1..m PROVE ~ds[j].first /\ u[j] >= u[j - 1] + Rest(ds[j])
        BY <1>4, <1>6, <1>7
    <2> QED BY <1>4, <1>7, <2>1 DEF AddsUp
<1>9. u[Len(ds)] <= x - r /\ x - r \in Int
    <2>1. u[m] = b[m] /\ b[m] \in Nat /\ b[n] \in Nat
        BY <1>1, <1>4, <1>6, <1>7
    <2> QED BY <1>2, <1>3, <1>4, <1>5, <2>1
<1> QED BY <1>8, <1>9 DEF Owed, r, n

\* The same containers again.
LEMMA OwedSame ==
    ASSUME NEW cs, NEW x, Owed(cs, x), NEW ds, Len(ds) = Len(cs), \A j \in 1..Len(cs) : ds[j] = cs[j]
    PROVE  Owed(ds, x)
PROOF
<1>1. PICK b : AddsUp(cs, b) /\ b[Len(cs)] <= x
    BY DEF Owed
<1>2. AddsUp(ds, b)
    BY <1>1 DEF AddsUp
<1> QED BY <1>1, <1>2 DEF Owed

\* A container in which an element is being read has had a first one.
LEMMA OwedNotFirst ==
    ASSUME NEW cs, AreVisits(cs), Len(cs) # 0, NEW x, Owed(cs, x)
    PROVE  ~cs[Len(cs)].first
PROOF
<1>1. Len(cs) \in 1..Len(cs)
    BY LenProperties DEF AreVisits, Enumerated
<1> QED BY <1>1 DEF Owed, AddsUp

---------------------------------------------------------------------------
(* How the calls change.                                                   *)

\* Only the innermost, to e.
Changed(cs, ds, e) ==
    /\ Len(cs) \in Nat \ {0} /\ AreVisits(ds) /\ Len(ds) = Len(cs) /\ ds[Len(cs)] = e
    /\ \A j \in 1..Len(cs) - 1 : ds[j] = cs[j]

\* It hands out an element, under a key if it has those, and gets an item.
Taken(cs, ds) == ds = [cs EXCEPT ![Len(cs)].first = FALSE, ![Len(cs)].len = cs[Len(cs)].len - 1]
Keyed(cs, ds, x) == ds = [cs EXCEPT ![Len(cs)].first = FALSE, ![Len(cs)].len = cs[Len(cs)].len - 1,
                                    ![Len(cs)].key = x]
Given(cs, ds, x) == ds = [cs EXCEPT ![Len(cs)].items = x]

\* ds are the accesses around the innermost of cs.
FrontOf(cs, ds) ==
    /\ Len(cs) \in Nat \ {0} /\ AreVisits(ds) /\ Len(ds) = Len(cs) - 1
    /\ \A j \in 1..Len(cs) - 1 : ds[j] = cs[j]

\* What the steps make of the calls is of one of these forms.
LEMMA VisitsFront ==
    ASSUME NEW cs, AreVisits(cs), Len(cs) # 0
    PROVE  FrontOf(cs, Front(cs)) /\ IsVisit(cs[Len(cs)]) /\ Last(cs) = cs[Len(cs)]
PROOF
<1> DEFINE n == Len(cs)
           ds == SubSeq(cs, 1, n - 1)
<1>1. Enumerated(cs)
    BY DEF AreVisits
<1>2. n \in Nat \ {0} /\ Enumerated(ds) /\ Len(ds) = n - 1 /\ \A j \in 1..n - 1 : ds[j] = cs[j]
    BY <1>1, ListDropped
<1>3. Front(cs) = ds /\ Last(cs) = cs[n]
    BY DEF Front, Last
<1> HIDE DEF ds, n
<1>4. \A j \in 1..n - 1 : j \in 1..n
    BY <1>2
<1>5. \A j \in 1..n : IsVisit(cs[j])
    BY DEF AreVisits, n
<1>6. \A j \in 1..Len(ds) : IsVisit(ds[j])
    BY <1>2, <1>4, <1>5
<1>7. n \in 1..n
    BY <1>2
<1> QED BY <1>2, <1>3, <1>5, <1>6, <1>7 DEF AreVisits, FrontOf, n

LEMMA VisitChanged ==
    ASSUME NEW cs, AreVisits(cs), Len(cs) # 0, NEW e, IsVisit(e)
    PROVE  Changed(cs, [cs EXCEPT ![Len(cs)] = e], e)
PROOF
<1> DEFINE n == Len(cs)
           ds == [cs EXCEPT ![n] = e]
<1>1. Enumerated(cs)
    BY DEF AreVisits
<1>2. n \in Nat \ {0} /\ Enumerated(ds) /\ Len(ds) = n /\ ds[n] = e /\ \A j \in 1..n - 1 : ds[j] = cs[j]
    BY <1>1, ListReplaced
<1> HIDE DEF ds, n
<1>3. \A j \in 1..n : j \in 1..n - 1 \/ j = n
    BY <1>2
<1>4. \A j \in 1..n - 1 : j \in 1..n
    BY <1>2
<1>5. \A j \in 1..n : IsVisit(cs[j])
    BY DEF AreVisits, n
<1>6. \A j \in 1..Len(ds) : IsVisit(ds[j])
    BY <1>2, <1>3, <1>4, <1>5
<1> QED BY <1>2, <1>6 DEF AreVisits, Changed, ds, n

LEMMA VisitTaken ==
    ASSUME NEW cs, AreVisits(cs), Len(cs) # 0, cs[Len(cs)].len > 0, NEW ds, Taken(cs, ds)
    PROVE  \E e : /\ Changed(cs, ds, e) /\ IsVisit(e) /\ ~e.first
                  /\ e.of = cs[Len(cs)].of /\ e.len = cs[Len(cs)].len - 1
PROOF
<1> DEFINE n == Len(cs)
           v == cs[n]
           e == [of |-> v.of, type |-> v.type, len |-> v.len - 1, first |-> FALSE, items |-> v.items,
                 key |-> v.key]
<1>1. n \in Nat \ {0} /\ n \in 1..n /\ DOMAIN cs = 1..n
    BY LenProperties DEF AreVisits, Enumerated
<1>2. IsVisit(v)
    BY <1>1 DEF AreVisits
<1>3. IsVisit(e) /\ ~e.first /\ e.of = v.of /\ e.len = v.len - 1
    BY <1>2 DEF IsVisit
<1>4. [cs EXCEPT ![n].first = FALSE, ![n].len = v.len - 1] = [cs EXCEPT ![n] = e]
    <2> DEFINE f == [cs EXCEPT ![n] = [v EXCEPT !.first = FALSE]]
               g == [[v EXCEPT !.first = FALSE] EXCEPT !.len = v.len - 1]
    <2>1. g = e
        <3>1. v = [of |-> v.of, type |-> v.type, len |-> v.len, first |-> v.first, items |-> v.items,
                   key |-> v.key]
            BY <1>2 DEF IsVisit
        <3> DEFINE no == FALSE
                   m == v.len - 1
                   r == [of |-> v.of, type |-> v.type, len |-> v.len, first |-> no,
                         items |-> v.items, key |-> v.key]
        <3> HIDE DEF no, m
        <3>2. [v EXCEPT !.first = no] = r
            BY <3>1
        <3>3. [r EXCEPT !.len = m] = [of |-> v.of, type |-> v.type, len |-> m, first |-> no,
                                      items |-> v.items, key |-> v.key]
            OBVIOUS
        <3> QED BY <3>2, <3>3 DEF no, m
    <2>2. f[n] = [v EXCEPT !.first = FALSE]
        BY <1>1
    <2>3. [f EXCEPT ![n] = [f[n] EXCEPT !.len = v.len - 1]] = [f EXCEPT ![n] = g]
        BY <2>2
    <2>4. [f EXCEPT ![n] = g] = [cs EXCEPT ![n] = g]
        <3> HIDE DEF g
        <3> QED OBVIOUS
    <2> HIDE DEF f
    <2> QED BY <2>1, <2>3, <2>4 DEF f
<1>5. ds = [cs EXCEPT ![n] = e]
    BY <1>4 DEF Taken
<1> HIDE DEF e
<1>6. Changed(cs, [cs EXCEPT ![n] = e], e)
    BY <1>3, VisitChanged
<1>7. Changed(cs, ds, e)
    BY <1>5, <1>6
<1> QED BY <1>3, <1>7

LEMMA VisitKeyed ==
    ASSUME NEW cs, AreVisits(cs), Len(cs) # 0, cs[Len(cs)].len > 0, NEW x, NEW ds, Keyed(cs, ds, x)
    PROVE  \E e : /\ Changed(cs, ds, e) /\ IsVisit(e) /\ ~e.first
                  /\ e.of = cs[Len(cs)].of /\ e.len = cs[Len(cs)].len - 1
PROOF
<1> DEFINE n == Len(cs)
           bs == [cs EXCEPT ![n].first = FALSE, ![n].len = cs[n].len - 1]
<1>1. ds = [bs EXCEPT ![n].key = x]
    BY DEF Keyed
<1>2. Taken(cs, bs)
    BY DEF Taken
<1> HIDE DEF bs
<1>3. PICK u : /\ Changed(cs, bs, u) /\ IsVisit(u) /\ ~u.first
               /\ u.of = cs[n].of /\ u.len = cs[n].len - 1
    BY <1>2, VisitTaken
<1> DEFINE e == [of |-> u.of, type |-> u.type, len |-> u.len, first |-> u.first, items |-> u.items,
                 key |-> x]
<1>4. IsVisit(e) /\ ~e.first /\ e.of = cs[n].of /\ e.len = cs[n].len - 1
    BY <1>3 DEF IsVisit
<1>5. [u EXCEPT !.key = x] = e
    <2>1. u = [of |-> u.of, type |-> u.type, len |-> u.len, first |-> u.first, items |-> u.items,
               key |-> u.key]
        BY <1>3 DEF IsVisit
    <2> QED BY <2>1
<1> HIDE DEF e
<1>6. ds = [bs EXCEPT ![n] = e]
    <2>1. bs[n] = u
        BY <1>3 DEF Changed
    <2> QED BY <1>1, <1>5, <2>1
<1>7. AreVisits(bs) /\ Len(bs) = n /\ n # 0 /\ \A j \in 1..n - 1 : bs[j] = cs[j]
    BY <1>3 DEF Changed
<1>8. Changed(bs, [bs EXCEPT ![Len(bs)] = e], e)
    BY <1>4, <1>7, VisitChanged
<1>9. Changed(bs, ds, e)
    BY <1>6, <1>7, <1>8
<1>10. Changed(cs, ds, e)
    <2> HIDE DEF n
    <2> QED BY <1>7, <1>9 DEF Changed, n
<1> QED BY <1>4, <1>10

LEMMA VisitGiven ==
    ASSUME NEW cs, AreVisits(cs), Len(cs) # 0, NEW x, NEW ds, Given(cs, ds, x)
    PROVE  \E e : /\ Changed(cs, ds, e) /\ IsVisit(e) /\ e.first = cs[Len(cs)].first
                  /\ e.of = cs[Len(cs)].of /\ e.len = cs[Len(cs)].len
PROOF
<1> DEFINE n == Len(cs)
           v == cs[n]
           e == [of |-> v.of, type |-> v.type, len |-> v.len, first |-> v.first, items |-> x,
                 key |-> v.key]
<1>1. n \in Nat \ {0} /\ n \in 1..n
    BY LenProperties DEF AreVisits, Enumerated
<1>2. IsVisit(v)
    BY <1>1 DEF AreVisits
<1>3. IsVisit(e) /\ e.first = v.first /\ e.of = v.of /\ e.len = v.len
    BY <1>2 DEF IsVisit
<1>4. [v EXCEPT !.items = x] = e
    <2>1. v = [of |-> v.of, type |-> v.type, len |-> v.len, first |-> v.first, items |-> v.items,
               key |-> v.key]
        BY <1>2 DEF IsVisit
    <2> QED BY <2>1
<1>5. ds = [cs EXCEPT ![n] = e]
    BY <1>4 DEF Given
<1> HIDE DEF e
<1>6. Changed(cs, [cs EXCEPT ![n] = e], e)
    BY <1>3, VisitChanged
<1>7. Changed(cs, ds, e)
    BY <1>5, <1>6
<1> QED BY <1>3, <1>7

---------------------------------------------------------------------------
(* The invariant of the accesses.                                          *)

\* The accesses under way have not ended in an answer or an error.
KeyRead == "Key read"

Midway == {"Value", "Visit", KeyRead, AfterValue}

\* Where the accesses cs of the next step w have room for r characters, they
\* have room for all that they are still to read.
Reading(cs, w, r) ==
    /\ AreVisits(cs)
    /\ w = "Value" => Owed(cs, r - 1)
    /\ w = AfterValue => Owed(cs, r)
    /\ w = KeyRead => Owed(cs, r - 2)
    /\ w = "Visit" => Len(cs) # 0 /\ Owed(Front(cs), r - Due(Last(cs)))

\* The cursor is at the start before the accesses begin, and then always where
\* the characters ahead are enough for the accesses under way.
SerdeInv ==
    /\ SerdeCursorInRange
    /\ at = "Idle" => idx = 0 /\ NoCalls(calls) /\ Enumerated(calls) /\ failure = "none"
    /\ at # "Idle" => pc = "Done"
    /\ at \in Midway => result = "Ok" /\ failure = "none" /\ Reading(calls, at, Room(doc, idx + 1))

LEMMA MidwayIs == "Idle" \notin Midway /\ "Done" \notin Midway /\ AfterValue \in Midway
PROOF BY AfterValueIs, Zenon DEF Midway, KeyRead

\* What a step can rely on.
InRoom(k, r) ==
    /\ doc \in Seq(Char) /\ AcceptedRight(doc, counts) /\ Len(doc) \in Nat
    /\ \A t \in 1..Len(doc) : Inside(doc, t) \in Int
    /\ k = idx + 1 /\ k \in 1..Len(doc) + 1 /\ idx = k - 1
    /\ r = Room(doc, k) /\ r \in 0..Len(doc) + 1 - k
    /\ result = "Ok" /\ failure = "none" /\ Reading(calls, at, r)

LEMMA HasRoom ==
    ASSUME IInv, PlaceInv, SerdeInv, at \in Midway
    PROVE  \E k, r : InRoom(k, r)
PROOF
<1>1. result = "Ok" /\ failure = "none" /\ Reading(calls, at, Room(doc, idx + 1))
    BY DEF SerdeInv
<1>2. doc \in Seq(Char) /\ AcceptedRight(doc, counts) /\ Len(doc) \in Nat
    BY <1>1, AcceptedIs, DocType
<1>3. idx \in 0..Len(doc)
    BY <1>1 DEF SerdeInv, SerdeCursorInRange
<1>4. PICK k : k = idx + 1
    OBVIOUS
<1>5. k \in 1..Len(doc) + 1 /\ idx = k - 1
    BY <1>2, <1>3, <1>4
<1>6. Room(doc, k) \in 0..Len(doc) + 1 - k
    BY <1>2, <1>5, RoomIs
<1>7. ASSUME NEW t \in 1..Len(doc) PROVE Inside(doc, t) \in Int
    <2>1. Sound(doc, Len(doc)) /\ Len(doc) \in 0..Len(doc) /\ t \in 1..Len(doc) + 1
        BY <1>2 DEF AcceptedRight
    <2>2. Placed(doc, t)
        BY <1>2, <2>1, AllPlaced
    <2> QED BY <2>2 DEF Placed, PlacedIn
<1>8. Reading(calls, at, Room(doc, k))
    BY <1>1, <1>4
<1>9. InRoom(k, Room(doc, k))
    BY <1>1, <1>2, <1>4, <1>5, <1>6, <1>7, <1>8 DEF InRoom
<1> QED BY <1>9

\* A step that goes on keeps the invariant if it keeps what is owed.
LEMMA SerdeGoesOn ==
    ASSUME SerdeInv, UNCHANGED vars, at \in Midway, at' \in Midway, failure' = failure,
           NEW k \in 0..Len(doc), idx' = k, Reading(calls', at', Room(doc, k + 1))
    PROVE  SerdeInv'
PROOF
<1>1. doc' = doc /\ pc' = pc /\ result' = result
    BY DEF vars
<1>2. result = "Ok" /\ failure = "none" /\ pc = "Done"
    BY MidwayIs DEF SerdeInv
<1>3. at' # "Idle"
    BY MidwayIs
<1>4. SerdeCursorInRange'
    BY <1>1, <1>2 DEF SerdeCursorInRange
<1>5. Reading(calls', at', Room(doc', idx' + 1))
    BY <1>1
<1> QED BY <1>1, <1>2, <1>3, <1>4, <1>5 DEF SerdeInv

\* The skips on the way out are one for each call at most.
LEMMA SkipsOut ==
    ASSUME NEW cs, Enumerated(cs)
    PROVE  /\ Len(cs) \in Nat
           /\ Cardinality({n \in DOMAIN cs : cs[n].of = "map" \/ cs[n].type.shape = "tuple"}) \in 0..Len(cs)
PROOF
<1> DEFINE S == {n \in DOMAIN cs : cs[n].of = "map" \/ cs[n].type.shape = "tuple"}
<1>1. Len(cs) \in Nat /\ DOMAIN cs = 1..Len(cs)
    BY LenProperties DEF Enumerated
<1>2. S \subseteq 1..Len(cs)
    BY <1>1
<1> HIDE DEF S
<1>3. IsFiniteSet(1..Len(cs)) /\ Cardinality(1..Len(cs)) = Len(cs)
    <2>1. 1 \in Int /\ Len(cs) \in Int
        BY <1>1
    <2>2. Cardinality(1..Len(cs)) = IF 1 > Len(cs) THEN 0 ELSE Len(cs) - 1 + 1
        BY <2>1, FS_Interval
    <2> QED BY <1>1, <2>1, <2>2, FS_Interval
<1>4. Cardinality(S) \in Nat
    <2>1. 1 \in Int /\ Len(cs) \in Int
        BY <1>1
    <2> QED BY <1>2, <2>1, PartOfInterval
<1>5. Cardinality(S) <= Len(cs)
    BY <1>2, <1>3, FS_Subset
<1> QED BY <1>1, <1>4, <1>5 DEF S

\* An error leaves through the calls: the room was enough for their skips.
LEMMA SerdeFails ==
    ASSUME SerdeInv, UNCHANGED vars, at \in Midway, NEW under, Enumerated(under), NEW e, e # "none",
           NEW k \in Nat, FailIn(under, e, k), k + Len(under) <= Len(doc) + 1, Len(doc) \in Nat
    PROVE  SerdeInv'
PROOF
<1>1. doc' = doc /\ pc' = pc /\ result' = result
    BY DEF vars
<1>2. pc = "Done"
    BY MidwayIs DEF SerdeInv
<1>3. PICK x : x = Cardinality({n \in DOMAIN under : under[n].of = "map" \/ under[n].type.shape = "tuple"})
    OBVIOUS
<1>4. x \in 0..Len(under) /\ Len(under) \in Nat
    BY <1>3, SkipsOut
<1>5. at' = "Done" /\ failure' = e /\ idx' = k + x
    BY <1>3 DEF FailIn
<1>6. k + x \in 0..Len(doc) + 1
    BY <1>4
<1>7. SerdeCursorInRange'
    BY <1>1, <1>5, <1>6 DEF SerdeCursorInRange
<1> QED BY <1>1, <1>2, <1>5, <1>7, MidwayIs DEF SerdeInv

---------------------------------------------------------------------------
(* Each step of them keeps it: those that read a value.                    *)

\* The character at the cursor is there, and takes one off the room.
LEMMA RoomStep ==
    ASSUME NEW k, NEW r, InRoom(k, r), r >= 1
    PROVE  /\ k \in 1..Len(doc) /\ k \in 0..Len(doc) /\ k \in Nat
           /\ Room(doc, k + 1) \in Nat /\ Room(doc, k + 1) >= r - 1
PROOF
<1>1. /\ doc \in Seq(Char) /\ Len(doc) \in Nat /\ k \in 1..Len(doc) + 1 /\ r = Room(doc, k)
      /\ r \in 0..Len(doc) + 1 - k
      /\ \A t \in 1..Len(doc) : Inside(doc, t) \in Int
    BY DEF InRoom
<1>2. k \in 1..Len(doc) /\ k \in 0..Len(doc) /\ k \in Nat /\ k + 1 \in 1..Len(doc) + 1
    BY <1>1
<1>3. Room(doc, k + 1) >= r - 1
    BY <1>1, <1>2, RoomNext
<1>4. Room(doc, k + 1) \in 0..Len(doc) + 1 - (k + 1)
    BY <1>1, <1>2, RoomIs
<1> QED BY <1>2, <1>3, <1>4

\* Room for what is owed, with one character more read.
LEMMA OwedBehind ==
    ASSUME NEW k, NEW r, InRoom(k, r), r >= 1, NEW cs, AreVisits(cs), NEW x, Owed(cs, x),
           NEW y \in Int, x <= r - 1 - y
    PROVE  Owed(cs, Room(doc, k + 1) - y)
PROOF
<1>1. Room(doc, k + 1) \in Nat /\ Room(doc, k + 1) >= r - 1 /\ r \in Int
    <2>1. r \in 0..Len(doc) + 1 - k /\ Len(doc) \in Nat /\ k \in 1..Len(doc) + 1
        BY DEF InRoom
    <2>2. r \in Int
        BY <2>1
    <2> QED BY <2>2, RoomStep
<1>2. Len(cs) \in Nat /\ x \in Int
    BY OwedAll
<1>3. Room(doc, k + 1) - y \in Int /\ x <= Room(doc, k + 1) - y
    BY <1>1, <1>2
<1> QED BY <1>2, <1>3, OwedMore

\* Where a value is read there is a character for it and for each call.
LEMMA AtValueRoom ==
    ASSUME NEW k, NEW r, InRoom(k, r), at = "Value"
    PROVE  /\ AreVisits(calls) /\ Enumerated(calls) /\ Owed(calls, r - 1) /\ Len(calls) \in Nat
           /\ r \in Nat /\ r >= 1 /\ k + Len(calls) <= Len(doc)
PROOF
<1>1. AreVisits(calls) /\ Owed(calls, r - 1)
    BY DEF InRoom, Reading
<1>2. Len(calls) \in Nat /\ Len(calls) <= r - 1
    BY <1>1, OwedAll
<1>3. r \in 0..Len(doc) + 1 - k /\ k \in 1..Len(doc) + 1 /\ Len(doc) \in Nat
    BY DEF InRoom
<1> QED BY <1>1, <1>2, <1>3 DEF AreVisits

\* A leaf is read.
LEMMA SerdeAnswers ==
    ASSUME SerdeInv, UNCHANGED vars, NEW k, NEW r, InRoom(k, r), at = "Value",
           idx' = k, at' = AfterValue, calls' = calls, failure' = failure
    PROVE  SerdeInv'
PROOF
<1>1. AreVisits(calls) /\ Owed(calls, r - 1) /\ r \in Nat /\ r >= 1
    BY AtValueRoom
<1>2. k \in 0..Len(doc)
    BY <1>1, RoomStep
<1>3. Owed(calls, Room(doc, k + 1))
    <2>1. PICK cs : cs = calls
        OBVIOUS
    <2>2. Owed(cs, Room(doc, k + 1) - 0)
        <3>1. r - 1 <= r - 1 - 0 /\ 0 \in Int
            BY <1>1
        <3> QED BY <1>1, <2>1, <3>1, OwedBehind
    <2>3. Room(doc, k + 1) - 0 = Room(doc, k + 1)
        BY <1>1, RoomStep
    <2> QED BY <2>1, <2>2, <2>3
<1>4. Reading(calls', at', Room(doc, k + 1))
    BY <1>1, <1>3, AfterValueIs, Zenon DEF Reading, AfterValue, KeyRead
<1>5. at \in Midway /\ at' \in Midway
    BY MidwayIs DEF Midway
<1> QED BY <1>2, <1>4, <1>5, SerdeGoesOn

\* A container is opened: what it is due is inside it.
LEMMA SerdeOpens ==
    ASSUME SerdeInv, UNCHANGED vars, NEW k, NEW r, InRoom(k, r), at = "Value",
           NEW of \in {"array", "map"}, doc[k] = (IF of = "map" THEN Brace ELSE "["),
           of = "map" => want.shape # "tuple", CommaSeparated(of, k)
    PROVE  SerdeInv'
PROOF
<1>1. AreVisits(calls) /\ Enumerated(calls) /\ Owed(calls, r - 1) /\ Len(calls) \in Nat /\ r \in Nat /\ r >= 1
    BY AtValueRoom
<1>2. k \in 1..Len(doc) /\ k \in 0..Len(doc) /\ Room(doc, k + 1) \in Nat
    BY <1>1, RoomStep
<1>3. doc \in Seq(Char) /\ AcceptedRight(doc, counts) /\ \A t \in 1..Len(doc) : Inside(doc, t) \in Int
    BY DEF InRoom
<1>4. doc[k] \in Openers /\ (doc[k] = Brace <=> of = "map")
    BY DEF Openers, Brace
<1>5. counts[k] \in Nat /\ Cardinality(Within(doc, k)) >= Content(doc, counts, k)
    BY <1>2, <1>3, <1>4, WithinSize
<1>6. Room(doc, k + 1) >= r - 1 + Cardinality(Within(doc, k)) /\ Cardinality(Within(doc, k)) \in Nat
    BY <1>2, <1>3, RoomEnters DEF InRoom
<1>7. CountsAt(k) = {counts[k]}
    BY <1>2, <1>5, UninitAssumption DEF CountsAt
<1>8. PICK cs : cs = calls
    OBVIOUS
<1>9. PICK v : v = [of |-> of, type |-> want, len |-> counts[k], first |-> TRUE, items |-> << >>, key |-> 0]
    OBVIOUS
<1>10. calls' = Append(cs, v) /\ idx' = k /\ at' = "Visit" /\ failure' = failure
    BY <1>7, <1>8, <1>9 DEF CommaSeparated, Proceed
<1>11. IsVisit(v) /\ Due(v) = Content(doc, counts, k)
    <2>1. /\ v.of = of /\ v.type = want /\ v.len = counts[k] /\ v.first = TRUE
        BY <1>9
    <2>2. v = [of |-> v.of, type |-> v.type, len |-> v.len, first |-> v.first, items |-> v.items,
               key |-> v.key]
        BY <1>9
    <2>3. IsVisit(v)
        BY <1>5, <2>1, <2>2 DEF IsVisit
    <2>4. Due(v) = Content(doc, counts, k)
        BY <1>4, <2>1 DEF Due, Content
    <2> QED BY <2>3, <2>4
<1> DEFINE ds == Append(cs, v)
           n == Len(cs)
<1>12. /\ n \in Nat /\ Enumerated(ds) /\ Len(ds) = n + 1 /\ ds[n + 1] = v
       /\ \A j \in 1..n : ds[j] = cs[j]
    BY <1>1, <1>8, ListAppended
<1> HIDE DEF ds
<1>13. AreVisits(ds) /\ Len(ds) # 0
    <2>1. \A j \in 1..Len(ds) : j \in 1..n \/ j = n + 1
        BY <1>12
    <2>2. \A j \in 1..n : IsVisit(cs[j])
        BY <1>1, <1>8 DEF AreVisits
    <2>3. Len(ds) # 0
        BY <1>12
    <2> QED BY <1>11, <1>12, <2>1, <2>2, <2>3 DEF AreVisits
<1>14. FrontOf(ds, Front(ds)) /\ Last(ds) = v
    <2>1. FrontOf(ds, Front(ds)) /\ Last(ds) = ds[Len(ds)]
        BY <1>13, VisitsFront
    <2> QED BY <1>12, <2>1
<1>15. Owed(Front(ds), r - 1)
    <2>1. PICK fs : fs = Front(ds)
        OBVIOUS
    <2>2. Len(fs) = n /\ \A j \in 1..n : fs[j] = cs[j]
        <3>1. Len(fs) = Len(ds) - 1 /\ \A j \in 1..Len(ds) - 1 : fs[j] = ds[j]
            BY <1>14, <2>1 DEF FrontOf
        <3>2. Len(ds) - 1 = n
            BY <1>12
        <3> QED BY <1>12, <3>1, <3>2
    <2>3. Owed(cs, r - 1)
        BY <1>1, <1>8
    <2>4. Owed(fs, r - 1)
        BY <2>2, <2>3, OwedSame
    <2> QED BY <2>1, <2>4
<1>16. Owed(Front(ds), Room(doc, k + 1) - Due(v))
    <2>1. Due(v) \in Nat
        BY <1>11, RestIs
    <2>2. r - 1 <= Room(doc, k + 1) - Due(v) /\ Room(doc, k + 1) - Due(v) \in Int
        BY <1>1, <1>2, <1>5, <1>6, <1>11, <2>1
    <2>3. Len(Front(ds)) \in Nat
        BY <1>14, LenProperties DEF FrontOf, AreVisits, Enumerated
    <2> QED BY <1>15, <2>2, <2>3, OwedMore
<1>17. Reading(ds, "Visit", Room(doc, k + 1))
    BY <1>13, <1>14, <1>16, Zenon DEF Reading, AfterValue, KeyRead
<1>18. Reading(calls', at', Room(doc, k + 1))
    BY <1>10, <1>17 DEF ds
<1>19. at \in Midway /\ at' \in Midway
    BY <1>10 DEF Midway
<1> QED BY <1>2, <1>10, <1>18, <1>19, SerdeGoesOn

\* What a method does with the next value: it reads it, opens its container,
\* fails, or asks for it as another type.
TakesLeaf(k) == idx' = k /\ at' = AfterValue /\ calls' = calls /\ failure' = failure

OpensContainer(k) ==
    \E of \in {"array", "map"} :
        /\ doc[k] = (IF of = "map" THEN Brace ELSE "[") /\ (of = "map" => want.shape # "tuple")
        /\ CommaSeparated(of, k)

BreaksOff(k) == \E e, m : e # "none" /\ m \in {k - 1, k, k + 1} /\ FailIn(calls, e, m)

AsksAgain == idx' = idx /\ at' = "Value" /\ calls' = calls /\ failure' = failure

ReadValue ==
    \/ DeserializeScalar \/ DeserializeAny \/ DeserializeOption \/ DeserializeNewtype
    \/ DeserializeEnum \/ DeserializeSeq \/ DeserializeMap

LEMMA ScalarIs ==
    ASSUME NEW c, NEW k \in Int, Scalar(c, k)
    PROVE  TakesLeaf(k) \/ BreaksOff(k)
PROOF
<1>1. CASE c = "badstr" \/ c = "badnum"
    <2>1. FailIn(calls, "InvalidEscape", k) \/ FailIn(calls, "InvalidNumber", k)
        BY <1>1 DEF Scalar, Fail
    <2>2. k \in {k - 1, k, k + 1} /\ "InvalidEscape" # "none" /\ "InvalidNumber" # "none"
        OBVIOUS
    <2> QED BY <2>1, <2>2, Zenon DEF BreaksOff
<1>2. CASE c \notin {"badstr", "badnum"}
    BY <1>2 DEF Scalar, Answer, TakesLeaf, AfterValue
<1> QED BY <1>1, <1>2

LEMMA ReadValueIs ==
    ASSUME NEW k, k = idx + 1, idx = k - 1, k \in 1..Len(doc), Len(doc) \in Nat, ReadValue
    PROVE  TakesLeaf(k) \/ OpensContainer(k) \/ BreaksOff(k) \/ AsksAgain
PROOF
<1>1. NextChars = {doc[k]}
    <2>1. CharsAt(k) = {doc[k]}
        BY DEF CharsAt
    <2>2. idx < Len(doc)
        OBVIOUS
    <2> QED BY <2>1, <2>2 DEF NextChars
<1>2. ASSUME NEW e, e # "none", NEW m \in {k - 1, k, k + 1}, Fail(e, m) PROVE BreaksOff(k)
    BY <1>2, Zenon DEF Fail, BreaksOff
<1>3. k \in Int /\ k \in {k - 1, k, k + 1} /\ k - 1 \in {k - 1, k, k + 1} /\ k + 1 \in {k - 1, k, k + 1}
      /\ idx = k - 1 /\ idx + 2 = k + 1
    OBVIOUS
<1>4. CASE DeserializeScalar
    <2>1. PICK c : \/ idx' = k /\ at' = AfterValue /\ failure' = failure /\ calls' = calls
                   \/ Fail("ExpectedScalar", k)
        BY <1>4 DEF DeserializeScalar, Answer, AfterValue
    <2> QED BY <1>2, <1>3, <2>1 DEF TakesLeaf
<1>5. CASE DeserializeAny
    <2>1. \/ doc[k] = "[" /\ CommaSeparated("array", k)
          \/ doc[k] = "{" /\ CommaSeparated("map", k)
          \/ Scalar(doc[k], k)
          \/ Fail("UnexpectedCharacter", k)
        BY <1>1, <1>5 DEF DeserializeAny
    <2>2. want.shape # "tuple"
        BY <1>5 DEF DeserializeAny
    <2>3. OpensContainer(k) \/ Scalar(doc[k], k) \/ Fail("UnexpectedCharacter", k)
        BY <2>1, <2>2 DEF OpensContainer, Brace
    <2> QED BY <1>2, <1>3, <2>3, ScalarIs
<1>6. CASE DeserializeOption
    <2>1. \/ Fail("UnexpectedEnd", k - 1)
          \/ Scalar(doc[k], k)
          \/ at' = "Value" /\ idx' = idx /\ calls' = calls /\ failure' = failure
        BY <1>1, <1>3, <1>6 DEF DeserializeOption, Proceed
    <2> QED BY <1>2, <1>3, <2>1, ScalarIs DEF AsksAgain
<1>7. CASE DeserializeNewtype
    BY <1>7 DEF DeserializeNewtype, Proceed, AsksAgain
<1>8. CASE DeserializeEnum
    <2>1. Fail("invalid type", k)
        BY <1>8 DEF DeserializeEnum
    <2> QED BY <1>2, <1>3, <2>1
<1>9. CASE DeserializeSeq
    <2>1. \/ doc[k] = "[" /\ CommaSeparated("array", k)
          \/ Fail("ExpectedArray", k + 1) \/ Fail("ExpectedArray", k)
        BY <1>1, <1>3, <1>9 DEF DeserializeSeq
    <2>2. OpensContainer(k) \/ Fail("ExpectedArray", k + 1) \/ Fail("ExpectedArray", k)
        BY <2>1 DEF OpensContainer
    <2> QED BY <1>2, <1>3, <2>2
<1>10. CASE DeserializeMap
    <2>1. \/ doc[k] = "{" /\ CommaSeparated("map", k)
          \/ Fail("ExpectedMap", k)
        BY <1>1, <1>10 DEF DeserializeMap
    <2>2. want.shape # "tuple"
        BY <1>10 DEF DeserializeMap, Maps
    <2>3. OpensContainer(k) \/ Fail("ExpectedMap", k)
        BY <2>1, <2>2 DEF OpensContainer, Brace
    <2> QED BY <1>2, <1>3, <2>3
<1> QED BY <1>4, <1>5, <1>6, <1>7, <1>8, <1>9, <1>10 DEF ReadValue

\* Whichever of the four it does.
LEMMA SerdeReadsValue == IInv /\ PlaceInv /\ SerdeInv /\ ReadValue => SerdeInv'
PROOF
<1> SUFFICES ASSUME IInv, PlaceInv, SerdeInv, ReadValue PROVE SerdeInv'
    OBVIOUS
<1>1. at = "Value" /\ UNCHANGED vars
    BY DEF ReadValue, DeserializeScalar, DeserializeAny, DeserializeOption, DeserializeNewtype,
           DeserializeEnum, DeserializeSeq, DeserializeMap
<1>2. at \in Midway
    BY <1>1 DEF Midway
<1>3. PICK k, r : InRoom(k, r)
    BY <1>2, HasRoom
<1>4. /\ AreVisits(calls) /\ Enumerated(calls) /\ Owed(calls, r - 1) /\ Len(calls) \in Nat
      /\ r \in Nat /\ r >= 1 /\ k + Len(calls) <= Len(doc)
    BY <1>1, <1>3, AtValueRoom
<1>5. k \in 1..Len(doc) /\ k \in Nat /\ k = idx + 1 /\ idx = k - 1 /\ Len(doc) \in Nat /\ r = Room(doc, k)
    BY <1>3, <1>4, RoomStep DEF InRoom
<1>6. TakesLeaf(k) \/ OpensContainer(k) \/ BreaksOff(k) \/ AsksAgain
    BY <1>5, ReadValueIs
<1>7. CASE TakesLeaf(k)
    BY <1>1, <1>3, <1>7, SerdeAnswers DEF TakesLeaf
<1>8. CASE OpensContainer(k)
    BY <1>1, <1>3, <1>8, SerdeOpens DEF OpensContainer
<1>9. CASE BreaksOff(k)
    <2>1. PICK e, m : e # "none" /\ m \in {k - 1, k, k + 1} /\ FailIn(calls, e, m)
        BY <1>9 DEF BreaksOff
    <2>2. PICK under : under = calls
        OBVIOUS
    <2>3. m \in Nat /\ m + Len(under) <= Len(doc) + 1
        BY <1>4, <1>5, <2>1, <2>2
    <2>4. FailIn(under, e, m) /\ Enumerated(under)
        BY <1>4, <2>1, <2>2
    <2> QED BY <1>1, <1>2, <1>5, <2>1, <2>3, <2>4, SerdeFails
<1>10. CASE AsksAgain
    <2>1. calls' = calls /\ at' = at /\ idx' = k - 1 /\ failure' = failure
        BY <1>1, <1>5, <1>10 DEF AsksAgain
    <2>2. k - 1 \in 0..Len(doc) /\ k - 1 + 1 = k
        BY <1>5
    <2>3. Reading(calls', at', Room(doc, k - 1 + 1))
        BY <1>3, <1>5, <2>1, <2>2 DEF InRoom
    <2> QED BY <1>1, <1>2, <2>1, <2>2, <2>3, SerdeGoesOn
<1> QED BY <1>6, <1>7, <1>8, <1>9, <1>10

---------------------------------------------------------------------------
(* Those that ask a container for the next element.                        *)

\* v is the container that is asked, fs are those around it.
Asked(v, fs, r) ==
    /\ AreVisits(calls) /\ Len(calls) \in Nat \ {0} /\ v = Last(calls) /\ v = calls[Len(calls)] /\ IsVisit(v)
    /\ fs = Front(calls) /\ FrontOf(calls, fs) /\ Owed(fs, r - Due(v))

LEMMA AtVisit ==
    ASSUME NEW k, NEW r, InRoom(k, r), at = "Visit"
    PROVE  \E v, fs : Asked(v, fs, r)
PROOF
<1>1. AreVisits(calls) /\ Len(calls) # 0 /\ Owed(Front(calls), r - Due(Last(calls)))
    BY DEF InRoom, Reading
<1>2. PICK cs : cs = calls
    OBVIOUS
<1>3. FrontOf(cs, Front(cs)) /\ IsVisit(cs[Len(cs)]) /\ Last(cs) = cs[Len(cs)]
    BY <1>1, <1>2, VisitsFront
<1>4. Len(cs) \in Nat \ {0}
    BY <1>3 DEF FrontOf
<1>5. Asked(Last(calls), Front(calls), r)
    BY <1>1, <1>2, <1>3, <1>4 DEF Asked
<1> QED BY <1>5

\* There is room for what it is due, and for a skip of each call around it.
LEMMA AskedRoom ==
    ASSUME NEW k, NEW r, InRoom(k, r), NEW v, NEW fs, Asked(v, fs, r)
    PROVE  /\ AreVisits(fs) /\ Enumerated(fs) /\ Enumerated(calls)
           /\ r \in Nat /\ Due(v) \in Nat /\ Due(v) <= r /\ Len(fs) \in Nat
           /\ Len(calls) = Len(fs) + 1 /\ k + Len(fs) + Due(v) <= Len(doc) + 1
PROOF
<1>1. AreVisits(fs) /\ Len(fs) = Len(calls) - 1 /\ Len(calls) \in Nat /\ Owed(fs, r - Due(v))
    BY DEF Asked, FrontOf
<1>2. Len(fs) \in Nat /\ Len(fs) <= r - Due(v)
    BY <1>1, OwedAll
<1>3. Due(v) \in Nat
    BY RestIs DEF Asked
<1>4. r \in 0..Len(doc) + 1 - k /\ k \in 1..Len(doc) + 1 /\ Len(doc) \in Nat
    BY DEF InRoom
<1>5. Enumerated(fs) /\ Enumerated(calls)
    BY <1>1 DEF AreVisits, Asked
<1> QED BY <1>1, <1>2, <1>3, <1>4, <1>5

\* It returns, and moves by m characters.
LEMMA SerdeLeaves ==
    ASSUME SerdeInv, UNCHANGED vars, NEW k, NEW r, InRoom(k, r), at = "Visit",
           NEW v, NEW fs, Asked(v, fs, r), NEW m \in {0, 1}, m <= Due(v),
           idx' = idx + m, at' = AfterValue, calls' = fs, failure' = failure
    PROVE  SerdeInv'
PROOF
<1>1. /\ AreVisits(fs) /\ r \in Nat /\ Due(v) \in Nat /\ Due(v) <= r /\ Len(fs) \in Nat
    BY AskedRoom
<1>2. Owed(fs, r - Due(v))
    BY DEF Asked
<1>3. /\ k \in 1..Len(doc) + 1 /\ idx = k - 1 /\ Len(doc) \in Nat /\ r = Room(doc, k)
    BY DEF InRoom
<1>4. \E p \in 0..Len(doc) : idx' = p /\ Owed(fs, Room(doc, p + 1))
    <2>1. CASE m = 0
        <3>1. k - 1 \in 0..Len(doc) /\ k - 1 + 1 = k /\ idx' = k - 1
            BY <1>3, <2>1
        <3>2. Owed(fs, r)
            <4>1. r - Due(v) <= r /\ r \in Int
                BY <1>1
            <4> QED BY <1>1, <1>2, <4>1, OwedMore
        <3>3. Owed(fs, Room(doc, k - 1 + 1))
            BY <1>3, <3>1, <3>2
        <3> QED BY <3>1, <3>3
    <2>2. CASE m = 1
        <3>1. r >= 1 /\ r - Due(v) <= r - 1 - 0 /\ 0 \in Int
            BY <1>1, <2>2
        <3>2. k \in 0..Len(doc) /\ Room(doc, k + 1) \in Nat
            BY <3>1, RoomStep
        <3>3. Owed(fs, Room(doc, k + 1) - 0)
            BY <1>1, <1>2, <3>1, OwedBehind
        <3>4. Room(doc, k + 1) - 0 = Room(doc, k + 1) /\ idx' = k
            BY <1>3, <2>2, <3>2
        <3> QED BY <3>2, <3>3, <3>4
    <2> QED BY <2>1, <2>2
<1>5. PICK p \in 0..Len(doc) : idx' = p /\ Owed(fs, Room(doc, p + 1))
    BY <1>4
<1>6. Reading(calls', at', Room(doc, p + 1))
    BY <1>1, <1>5, AfterValueIs, Zenon DEF Reading, AfterValue, KeyRead
<1>7. at \in Midway /\ at' \in Midway
    BY MidwayIs DEF Midway
<1> QED BY <1>5, <1>6, <1>7, SerdeGoesOn

\* What is owed while an element of it is being read.
LEMMA OwedTaken ==
    ASSUME NEW k, NEW r, InRoom(k, r), NEW v, NEW fs, Asked(v, fs, r),
           NEW ds, NEW e, Changed(calls, ds, e), IsVisit(e), ~e.first
    PROVE  AreVisits(ds) /\ Owed(ds, r - Due(v) + Rest(e))
PROOF
<1>1. PICK cs : cs = calls
    OBVIOUS
<1>2. Changed(cs, ds, e) /\ FrontOf(cs, fs) /\ Owed(fs, r - Due(v))
    BY <1>1 DEF Asked
<1> DEFINE n == Len(cs)
<1>3. /\ n \in Nat \ {0} /\ AreVisits(ds) /\ Len(ds) = n /\ ds[n] = e /\ AreVisits(fs) /\ Len(fs) = n - 1
      /\ \A j \in 1..n - 1 : ds[j] = cs[j] /\ fs[j] = cs[j]
    BY <1>2 DEF Changed, FrontOf
<1> HIDE DEF n
<1>4. Len(fs) + 1 = n
    BY <1>3
<1>5. /\ Len(ds) = Len(fs) + 1 /\ ds[Len(fs) + 1] = e
      /\ \A j \in 1..Len(fs) : ds[j] = fs[j]
    BY <1>3, <1>4
<1>6. Owed(ds, r - Due(v) + Rest(ds[Len(fs) + 1]))
    BY <1>2, <1>3, <1>5, OwedInside
<1> QED BY <1>3, <1>5, <1>6

LEMMA VisitKnown ==
    ASSUME IInv, PlaceInv, SerdeInv, at = "Visit"
    PROVE  \E k, r, v, fs : InRoom(k, r) /\ Asked(v, fs, r)
PROOF
<1>1. at \in Midway
    BY DEF Midway
<1>2. PICK k, r : InRoom(k, r)
    BY <1>1, HasRoom
<1>3. PICK v, fs : Asked(v, fs, r)
    BY <1>2, AtVisit
<1> QED BY <1>2, <1>3, Zenon

LEMMA SerdeCompletes == IInv /\ PlaceInv /\ SerdeInv /\ TupleComplete => SerdeInv'
PROOF
<1> SUFFICES ASSUME IInv, PlaceInv, SerdeInv, TupleComplete PROVE SerdeInv'
    OBVIOUS
<1>1. at = "Visit" /\ UNCHANGED vars /\ call.of = "array" /\ Leave(idx)
    BY DEF TupleComplete
<1>2. PICK k, r, v, fs : InRoom(k, r) /\ Asked(v, fs, r)
    BY <1>1, VisitKnown
<1>3. v = call /\ fs = Front(calls) /\ IsVisit(v)
    BY <1>2 DEF Asked, call
<1>4. idx = k - 1 /\ k \in 1..Len(doc) + 1 /\ Len(doc) \in Nat
    BY <1>2 DEF InRoom
<1>5. \E m \in {0, 1} : idx' = idx + m
    BY <1>1, <1>4 DEF Leave
<1>6. PICK m \in {0, 1} : idx' = idx + m
    BY <1>5
<1>7. m <= Due(v)
    BY <1>1, <1>3, RestIs
<1>8. at' = AfterValue /\ calls' = fs /\ failure' = failure
    BY <1>1, <1>3 DEF Leave, Answer, AfterValue
<1> QED BY <1>1, <1>2, <1>6, <1>7, <1>8, SerdeLeaves

\* An array hands out an element.
LEMMA SerdeTakes ==
    ASSUME SerdeInv, UNCHANGED vars, NEW k, NEW r, InRoom(k, r), at = "Visit",
           NEW v, NEW fs, Asked(v, fs, r), v.of = "array", v.len > 0, Taken(calls, calls'),
           idx' = (IF v.first THEN idx ELSE idx + 1), at' = "Value", failure' = failure
    PROVE  SerdeInv'
PROOF
<1>1. PICK cs : cs = calls
    OBVIOUS
<1>2. PICK ds : ds = calls'
    OBVIOUS
<1>3. AreVisits(cs) /\ Len(cs) # 0 /\ v = cs[Len(cs)] /\ IsVisit(v)
    BY <1>1 DEF Asked
<1>4. Taken(cs, ds)
    BY <1>1, <1>2
<1>5. PICK e : Changed(cs, ds, e) /\ IsVisit(e) /\ ~e.first /\ e.of = v.of /\ e.len = v.len - 1
    BY <1>3, <1>4, VisitTaken
<1>6. AreVisits(ds) /\ Owed(ds, r - Due(v) + Rest(e))
    <2>1. Changed(calls, ds, e)
        BY <1>1, <1>5
    <2> QED BY <1>5, <2>1, OwedTaken
<1>7. r \in Nat /\ Due(v) \in Nat /\ Due(v) <= r
    BY AskedRoom
<1>8. /\ Rest(e) = Due(v) - (IF v.first THEN 1 ELSE 2) /\ Rest(e) \in Nat /\ Due(v) >= 1
    <2>1. v.len \in Nat /\ v.first \in BOOLEAN
        BY <1>3 DEF IsVisit
    <2>2. Rest(e) = 2 * (v.len - 1) + 1
        BY <1>5 DEF Rest
    <2>3. Due(v) = IF v.first THEN 2 * v.len ELSE 2 * v.len + 1
        BY <2>1 DEF Due
    <2> QED BY <2>1, <2>2, <2>3
<1>9. /\ k \in 1..Len(doc) + 1 /\ idx = k - 1 /\ Len(doc) \in Nat /\ r = Room(doc, k)
    BY DEF InRoom
<1>10. \E p \in 0..Len(doc) : idx' = p /\ Owed(ds, Room(doc, p + 1) - 1)
    <2>1. CASE v.first
        <3>1. r - Due(v) + Rest(e) = r - 1
            BY <1>7, <1>8, <2>1
        <3>2. r <= Len(doc) + 1 - k /\ r >= 1
            BY <1>7, <1>8 DEF InRoom
        <3>3. k - 1 \in 0..Len(doc) /\ k - 1 + 1 = k /\ idx' = k - 1
            BY <1>9, <2>1
        <3>4. Owed(ds, Room(doc, k - 1 + 1) - 1)
            BY <1>6, <1>9, <3>1, <3>3
        <3> QED BY <3>3, <3>4
    <2>2. CASE ~v.first
        <3>1. r - Due(v) + Rest(e) <= r - 1 - 1 /\ 1 \in Int /\ r >= 1
            BY <1>7, <1>8, <2>2
        <3>2. k \in 0..Len(doc) /\ idx' = k
            BY <1>9, <2>2, <3>1, RoomStep
        <3>3. Owed(ds, Room(doc, k + 1) - 1)
            BY <1>6, <3>1, OwedBehind
        <3> QED BY <3>2, <3>3
    <2> QED BY <2>1, <2>2
<1>11. PICK p \in 0..Len(doc) : idx' = p /\ Owed(ds, Room(doc, p + 1) - 1)
    BY <1>10
<1>12. Reading(calls', at', Room(doc, p + 1))
    BY <1>2, <1>6, <1>11, AfterValueIs, Zenon DEF Reading, AfterValue, KeyRead
<1>13. at \in Midway /\ at' \in Midway
    BY DEF Midway
<1> QED BY <1>11, <1>12, <1>13, SerdeGoesOn

LEMMA SerdeElement == IInv /\ PlaceInv /\ SerdeInv /\ NextElement => SerdeInv'
PROOF
<1> SUFFICES ASSUME IInv, PlaceInv, SerdeInv, NextElement PROVE SerdeInv'
    OBVIOUS
<1>1. at = "Visit" /\ UNCHANGED vars /\ call.of = "array"
    BY DEF NextElement
<1>2. PICK k, r, v, fs : InRoom(k, r) /\ Asked(v, fs, r)
    BY <1>1, VisitKnown
<1>3. v = call /\ fs = Front(calls) /\ IsVisit(v) /\ v = calls[Len(calls)]
    BY <1>2 DEF Asked, call
<1>4. idx = k - 1 /\ k = idx + 1 /\ k \in 1..Len(doc) + 1 /\ Len(doc) \in Nat
    BY <1>2 DEF InRoom
<1>5. Due(v) >= 1 /\ Due(v) \in Nat
    BY <1>1, <1>3, RestIs
<1>6. CASE call.len = 0 /\ ~IsTuple(call.type) /\ Leave(idx + 1)
    <2>1. call.type.shape # "tuple"
        BY <1>6 DEF IsTuple, Tuples
    <2>2. idx' = idx + 1 /\ at' = AfterValue /\ calls' = fs /\ failure' = failure
        BY <1>3, <1>6, <2>1 DEF Leave, Answer, AfterValue
    <2>3. 1 \in {0, 1} /\ 1 <= Due(v)
        BY <1>5
    <2> QED BY <1>1, <1>2, <2>2, <2>3, SerdeLeaves
<1>7. CASE call.len = 0 /\ IsTuple(call.type) /\ Fail("invalid length", idx + 1)
    <2>1. PICK cs : cs = calls
        OBVIOUS
    <2>2. Enumerated(cs) /\ Len(cs) = Len(fs) + 1 /\ Len(fs) \in Nat /\ k + Len(fs) + Due(v) <= Len(doc) + 1
        BY <1>2, <2>1, AskedRoom
    <2>3. k \in Nat /\ k + Len(cs) <= Len(doc) + 1
        BY <1>4, <1>5, <2>2
    <2>4. FailIn(cs, "invalid length", k) /\ "invalid length" # "none"
        BY <1>4, <1>7, <2>1 DEF Fail
    <2>5. at \in Midway
        BY <1>1 DEF Midway
    <2> QED BY <1>1, <1>4, <2>2, <2>3, <2>4, <2>5, SerdeFails
<1>8. CASE /\ call.len > 0
           /\ idx' = IF call.first THEN idx ELSE idx + 1
           /\ calls' = [calls EXCEPT ![Len(calls)].first = FALSE,
                                     ![Len(calls)].len = call.len - 1]
           /\ Proceed("Value")
    <2>1. Taken(calls, calls')
        BY <1>3, <1>8 DEF Taken
    <2>2. at' = "Value" /\ failure' = failure /\ v.len > 0 /\ v.of = "array"
          /\ idx' = (IF v.first THEN idx ELSE idx + 1)
        BY <1>1, <1>3, <1>8 DEF Proceed
    <2> QED BY <1>1, <1>2, <2>1, <2>2, SerdeTakes
<1> QED BY <1>6, <1>7, <1>8 DEF NextElement

\* A map hands out a key.
LEMMA SerdeKeys ==
    ASSUME SerdeInv, UNCHANGED vars, NEW k, NEW r, InRoom(k, r), at = "Visit",
           NEW v, NEW fs, Asked(v, fs, r), v.of = "map", v.len > 0, NEW x, Keyed(calls, calls', x),
           idx' = k, at' = KeyRead, failure' = failure
    PROVE  SerdeInv'
PROOF
<1>1. PICK cs : cs = calls
    OBVIOUS
<1>2. PICK ds : ds = calls'
    OBVIOUS
<1>3. AreVisits(cs) /\ Len(cs) # 0 /\ v = cs[Len(cs)] /\ IsVisit(v)
    BY <1>1 DEF Asked
<1>4. Keyed(cs, ds, x)
    BY <1>1, <1>2
<1>5. PICK e : Changed(cs, ds, e) /\ IsVisit(e) /\ ~e.first /\ e.of = v.of /\ e.len = v.len - 1
    BY <1>3, <1>4, VisitKeyed
<1>6. AreVisits(ds) /\ Owed(ds, r - Due(v) + Rest(e))
    <2>1. Changed(calls, ds, e)
        BY <1>1, <1>5
    <2> QED BY <1>5, <2>1, OwedTaken
<1>7. r \in Nat /\ Due(v) \in Nat /\ Due(v) <= r
    BY AskedRoom
<1>8. Rest(e) = Due(v) - 3 /\ Rest(e) \in Nat
    <2>1. v.len \in Nat /\ v.first \in BOOLEAN
        BY <1>3 DEF IsVisit
    <2>2. Rest(e) = 4 * (v.len - 1) + 1
        BY <1>5 DEF Rest
    <2>3. Due(v) = 4 * v.len
        BY <2>1 DEF Due
    <2> QED BY <2>1, <2>2, <2>3
<1>9. r - Due(v) + Rest(e) <= r - 1 - 2 /\ 2 \in Int /\ r >= 1
    BY <1>7, <1>8
<1>10. k \in 0..Len(doc)
    BY <1>9, RoomStep
<1>11. Owed(ds, Room(doc, k + 1) - 2)
    BY <1>6, <1>9, OwedBehind
<1>12. Reading(calls', at', Room(doc, k + 1))
    BY <1>2, <1>6, <1>11, AfterValueIs, Zenon DEF Reading, AfterValue, KeyRead
<1>13. at \in Midway /\ at' \in Midway
    BY DEF Midway
<1> QED BY <1>10, <1>12, <1>13, SerdeGoesOn

LEMMA SerdeKey == IInv /\ PlaceInv /\ SerdeInv /\ NextKey => SerdeInv'
PROOF
<1> SUFFICES ASSUME IInv, PlaceInv, SerdeInv, NextKey PROVE SerdeInv'
    OBVIOUS
<1>1. at = "Visit" /\ UNCHANGED vars /\ call.of = "map"
    BY DEF NextKey
<1>2. PICK k, r, v, fs : InRoom(k, r) /\ Asked(v, fs, r)
    BY <1>1, VisitKnown
<1>3. v = call /\ fs = Front(calls) /\ IsVisit(v) /\ v = calls[Len(calls)]
    BY <1>2 DEF Asked, call
<1>4. idx = k - 1 /\ k = idx + 1 /\ k \in 1..Len(doc) + 1 /\ Len(doc) \in Nat
    BY <1>2 DEF InRoom
<1>5. at \in Midway
    BY <1>1 DEF Midway
<1>6. /\ Enumerated(fs) /\ Len(fs) \in Nat /\ Due(v) \in Nat /\ k + Len(fs) + Due(v) <= Len(doc) + 1
    BY <1>2, AskedRoom
<1>7. CASE call.len = 0 /\ Leave(AfterMap)
    <2>1. call.type.shape # "tuple"
        BY <1>1, <1>3 DEF IsVisit
    <2>2. idx' = AfterMap /\ at' = AfterValue /\ calls' = fs /\ failure' = failure
        BY <1>3, <1>7, <2>1 DEF Leave, Answer, AfterValue
    <2>3. CASE v.first
        <3>1. idx' = idx + 1
            BY <1>3, <2>2, <2>3 DEF AfterMap
        <3>2. Due(v) = 1
            BY <1>3, <1>7, <2>3 DEF Due
        <3>3. 1 \in {0, 1} /\ 1 <= Due(v)
            BY <3>2
        <3> QED BY <1>1, <1>2, <2>2, <3>1, <3>3, SerdeLeaves
    <2>4. CASE ~v.first
        <3>0. AfterMap = idx
            BY <1>3, <2>4 DEF AfterMap
        <3>1. idx' = idx + 0
            BY <1>4, <2>2, <3>0
        <3>2. 0 \in {0, 1} /\ 0 <= Due(v)
            BY <1>6
        <3> QED BY <1>1, <1>2, <2>2, <3>1, <3>2, SerdeLeaves
    <2> QED BY <2>3, <2>4
<1>8. CASE FailIn(Front(calls), "missing field", AfterMap)
    <2>1. PICK m : m = AfterMap
        OBVIOUS
    <2>2. m \in {k - 1, k}
        BY <1>4, <2>1 DEF AfterMap
    <2>3. m \in Nat /\ m + Len(fs) <= Len(doc) + 1
        BY <1>4, <1>6, <2>2
    <2>4. FailIn(fs, "missing field", m) /\ "missing field" # "none"
        BY <1>3, <1>8, <2>1
    <2> QED BY <1>1, <1>4, <1>5, <1>6, <2>3, <2>4, SerdeFails
<1>9. CASE FailIn(Front(calls), "not a key", idx + 1)
    <2>1. k \in Nat /\ k + Len(fs) <= Len(doc) + 1
        BY <1>4, <1>6
    <2>2. FailIn(fs, "not a key", k) /\ "not a key" # "none"
        BY <1>3, <1>4, <1>9
    <2> QED BY <1>1, <1>4, <1>5, <1>6, <2>1, <2>2, SerdeFails
<1>10. CASE /\ call.len > 0
            /\ idx' = idx + 1
            /\ calls' = [calls EXCEPT ![Len(calls)].first = FALSE,
                                      ![Len(calls)].len = call.len - 1,
                                      ![Len(calls)].key = idx + 1]
            /\ Proceed("Key read")
    <2>1. Keyed(calls, calls', k)
        BY <1>3, <1>4, <1>10 DEF Keyed
    <2>2. at' = KeyRead /\ failure' = failure /\ v.len > 0 /\ v.of = "map" /\ idx' = k
        BY <1>1, <1>3, <1>4, <1>10 DEF Proceed, KeyRead
    <2> QED BY <1>1, <1>2, <2>1, <2>2, SerdeKeys
<1> QED BY <1>7, <1>8, <1>9, <1>10 DEF NextKey

LEMMA SerdeValue == IInv /\ PlaceInv /\ SerdeInv /\ NextValue => SerdeInv'
PROOF
<1> SUFFICES ASSUME IInv, PlaceInv, SerdeInv, NextValue PROVE SerdeInv'
    OBVIOUS
<1>1. at = KeyRead /\ UNCHANGED vars /\ at' = "Value" /\ idx' = idx + 1 /\ failure' = failure /\ calls' = calls
    BY DEF NextValue, Proceed, KeyRead
<1>2. at \in Midway /\ at' \in Midway
    BY <1>1 DEF Midway
<1>3. PICK k, r : InRoom(k, r)
    BY <1>2, HasRoom
<1>4. PICK cs : cs = calls
    OBVIOUS
<1>5. AreVisits(cs) /\ Owed(cs, r - 2)
    BY <1>1, <1>3, <1>4 DEF InRoom, Reading
<1>6. r \in Nat /\ idx' = k
    <2>1. r \in 0..Len(doc) + 1 - k /\ Len(doc) \in Nat /\ k \in 1..Len(doc) + 1 /\ k = idx + 1
        BY <1>3 DEF InRoom
    <2> QED BY <1>1, <2>1
<1>7. r >= 2
    <2>1. Len(cs) \in Nat /\ Len(cs) <= r - 2
        BY <1>5, OwedAll
    <2> QED BY <1>6, <2>1
<1>8. r - 2 <= r - 1 - 1 /\ 1 \in Int /\ r >= 1
    BY <1>6, <1>7
<1>9. k \in 0..Len(doc)
    BY <1>3, <1>8, RoomStep
<1>10. Owed(cs, Room(doc, k + 1) - 1)
    BY <1>3, <1>5, <1>8, OwedBehind
<1>11. Reading(calls', at', Room(doc, k + 1))
    BY <1>1, <1>4, <1>5, <1>10, AfterValueIs, Zenon DEF Reading, AfterValue, KeyRead
<1> QED BY <1>1, <1>2, <1>6, <1>9, <1>11, SerdeGoesOn

---------------------------------------------------------------------------
(* The others, and the whole pass.                                         *)

\* The value goes to its container, which is due what it was due behind it.
LEMMA SerdeGives == IInv /\ PlaceInv /\ SerdeInv /\ ValueRead => SerdeInv'
PROOF
<1> SUFFICES ASSUME IInv, PlaceInv, SerdeInv, ValueRead PROVE SerdeInv'
    OBVIOUS
<1>1. /\ at = AfterValue /\ UNCHANGED vars /\ at' = "Visit" /\ failure' = failure /\ calls # << >>
      /\ idx' = IF call.of = "array" THEN idx ELSE idx + 1
    BY DEF ValueRead, Proceed, AfterValue
<1>2. at \in Midway /\ at' \in Midway
    BY <1>1, MidwayIs DEF Midway
<1>3. PICK k, r : InRoom(k, r)
    BY <1>2, HasRoom
<1>4. PICK cs : cs = calls
    OBVIOUS
<1>5. PICK ds : ds = calls'
    OBVIOUS
<1>6. \E x : Given(cs, ds, x)
    BY <1>4, <1>5, Zenon DEF ValueRead, Given
<1>7. PICK x : Given(cs, ds, x)
    BY <1>6
<1>8. AreVisits(cs) /\ Owed(cs, r)
    BY <1>1, <1>3, <1>4, AfterValueIs, Zenon DEF InRoom, Reading
<1>9. Len(cs) # 0 /\ Len(cs) \in Nat
    <2>1. cs \in Seq({cs[j] : j \in 1..Len(cs)}) /\ cs # << >>
        BY <1>1, <1>4, <1>8 DEF AreVisits, Enumerated
    <2> QED BY <2>1, EmptySeq, LenProperties
<1>10. PICK v : v = cs[Len(cs)]
    OBVIOUS
<1>11. IsVisit(v) /\ ~v.first /\ v = call
    <2>1. IsVisit(cs[Len(cs)]) /\ Last(cs) = cs[Len(cs)]
        BY <1>8, <1>9, VisitsFront
    <2>2. ~cs[Len(cs)].first
        BY <1>8, <1>9, OwedNotFirst
    <2> QED BY <1>4, <1>10, <2>1, <2>2 DEF call
<1>12. PICK e : Changed(cs, ds, e) /\ IsVisit(e) /\ e.first = v.first /\ e.of = v.of /\ e.len = v.len
    BY <1>7, <1>8, <1>9, <1>10, VisitGiven
<1>13. AreVisits(ds) /\ Len(ds) # 0 /\ Len(ds) = Len(cs) /\ ds[Len(ds)] = e
    BY <1>9, <1>12 DEF Changed
<1>14. PICK fs : fs = Front(ds)
    OBVIOUS
<1>15. FrontOf(ds, fs) /\ Last(ds) = e
    BY <1>13, <1>14, VisitsFront
<1>16. AreVisits(fs) /\ Owed(fs, r - Rest(v))
    <2>1. AreVisits(fs) /\ Len(fs) = Len(cs) - 1 /\ \A j \in 1..Len(cs) - 1 : fs[j] = cs[j]
        BY <1>12, <1>13, <1>15 DEF Changed, FrontOf
    <2> QED BY <1>8, <1>9, <1>10, <2>1, OwedOutside
<1>17. r - Rest(v) >= 0 /\ r \in Nat /\ Rest(v) \in Nat
    <2>1. Len(fs) \in Nat /\ Len(fs) <= r - Rest(v)
        BY <1>16, OwedAll
    <2>2. r \in 0..Len(doc) + 1 - k /\ Len(doc) \in Nat /\ k \in 1..Len(doc) + 1
        BY <1>3 DEF InRoom
    <2>3. Rest(v) \in Nat
        BY <1>11, RestIs
    <2> QED BY <2>1, <2>2, <2>3
<1>18. Rest(v) = Due(e) + (IF v.of = "map" THEN 1 ELSE 0) /\ Due(e) \in Nat /\ v.of \in {"array", "map"}
    BY <1>11, <1>12, RestIs DEF Rest, Due, IsVisit
<1>19. /\ k \in 1..Len(doc) + 1 /\ idx = k - 1 /\ Len(doc) \in Nat /\ r = Room(doc, k)
    BY <1>3 DEF InRoom
<1>20. \E p \in 0..Len(doc) : idx' = p /\ Owed(fs, Room(doc, p + 1) - Due(e))
    <2>1. CASE v.of = "array"
        <3>1. Rest(v) = Due(e)
            BY <1>18, <2>1
        <3>2. k - 1 \in 0..Len(doc) /\ k - 1 + 1 = k /\ idx' = k - 1
            BY <1>1, <1>11, <1>19, <2>1
        <3>3. Owed(fs, Room(doc, k - 1 + 1) - Due(e))
            BY <1>16, <1>19, <3>1, <3>2
        <3> QED BY <3>2, <3>3
    <2>2. CASE v.of = "map"
        <3>1. r - Rest(v) <= r - 1 - Due(e) /\ Due(e) \in Int /\ r >= 1
            BY <1>17, <1>18, <2>2
        <3>2. k \in 0..Len(doc)
            BY <1>3, <3>1, RoomStep
        <3>3. idx' = k
            BY <1>1, <1>11, <1>19, <2>2
        <3>4. Owed(fs, Room(doc, k + 1) - Due(e))
            BY <1>3, <1>16, <3>1, OwedBehind
        <3> QED BY <3>2, <3>3, <3>4
    <2> QED BY <1>18, <2>1, <2>2
<1>21. PICK p \in 0..Len(doc) : idx' = p /\ Owed(fs, Room(doc, p + 1) - Due(e))
    BY <1>20
<1>22. Reading(ds, "Visit", Room(doc, p + 1))
    BY <1>13, <1>14, <1>15, <1>21, Zenon DEF Reading, AfterValue, KeyRead
<1>23. Reading(calls', at', Room(doc, p + 1))
    BY <1>1, <1>5, <1>22
<1> QED BY <1>1, <1>2, <1>21, <1>23, SerdeGoesOn

LEMMA SerdeAnswered == SerdeInv /\ Answered => SerdeInv'
PROOF
<1> SUFFICES ASSUME SerdeInv, Answered PROVE SerdeInv'
    OBVIOUS
<1>1. UNCHANGED vars /\ idx' = idx /\ failure' = failure /\ at' = "Done" /\ at = AfterValue
    BY Zenon DEF Answered, Finish, AfterValue
<1>2. at # "Idle" /\ at' \notin Midway /\ at' # "Idle"
    BY <1>1, AfterValueIs, MidwayIs
<1>3. doc' = doc /\ pc' = pc
    BY <1>1 DEF vars
<1> QED BY <1>1, <1>2, <1>3 DEF SerdeInv, SerdeCursorInRange

LEMMA SerdeStarts == SerdeInit => SerdeInv
PROOF
<1> SUFFICES ASSUME SerdeInit PROVE SerdeInv
    OBVIOUS
<1>1. idx = 0 /\ at = "Idle" /\ failure = "none" /\ calls = << >> /\ doc \in Seq(Char)
    BY DocumentsAssumption DEF SerdeInit, CursorInit, Init
<1>2. NoCalls(calls) /\ Enumerated(calls)
    BY <1>1 DEF NoCalls, Enumerated
<1>3. Len(doc) \in Nat
    BY <1>1, LenProperties
<1>4. SerdeCursorInRange
    BY <1>1, <1>3 DEF SerdeCursorInRange
<1> QED BY <1>1, <1>2, <1>4, MidwayIs DEF SerdeInv

LEMMA SerdeValidates == SerdeInv /\ SerdeValidate => SerdeInv'
PROOF
<1> SUFFICES ASSUME SerdeInv, Step, UNCHANGED walk PROVE SerdeInv'
    BY DEF SerdeValidate
<1>1. doc' = doc /\ pc # "Done"
    BY StepReads
<1>2. at = "Idle"
    BY <1>1 DEF SerdeInv
<1>3. at' = at /\ idx' = idx /\ calls' = calls /\ failure' = failure
    BY DEF walk
<1> QED BY <1>1, <1>2, <1>3, MidwayIs DEF SerdeInv, SerdeCursorInRange

LEMMA SerdeBegins == IInv /\ PlaceInv /\ SerdeInv /\ Begin => SerdeInv'
PROOF
<1> SUFFICES ASSUME IInv, PlaceInv, SerdeInv, FromSlice PROVE SerdeInv'
    BY DEF Begin
<1>1. /\ at = "Idle" /\ pc = "Done" /\ pc' = pc /\ doc' = doc /\ result' = result
      /\ idx' = idx /\ calls' = calls
      /\ at' = IF result = "Ok" THEN "Value" ELSE "Done"
      /\ failure' = IF result = "Ok" THEN failure ELSE result
    BY DEF FromSlice, vars
<1>2. /\ idx = 0 /\ failure = "none" /\ Len(doc) \in Nat
      /\ NoCalls(calls) /\ Enumerated(calls)
    BY <1>1, DocType DEF SerdeInv
<1>3. SerdeCursorInRange'
    <2>1. 0 \in 0..Len(doc) /\ 0 \in 0..Len(doc) + 1
        BY <1>2
    <2> QED BY <1>1, <1>2, <2>1 DEF SerdeCursorInRange
<1>4. CASE result # "Ok"
    BY <1>1, <1>3, <1>4, MidwayIs DEF SerdeInv
<1>5. CASE result = "Ok"
    <2>1. AcceptedRight(doc, counts) /\ doc \in Seq(Char) /\ 1 \in 1..Len(doc) + 1
        BY <1>2, <1>5, AcceptedIs, DocType
    <2>2. Want(doc, 1) = "Value" /\ Inside(doc, 1) = 0
        BY <2>1, FirstPlace
    <2>3. 1 \in 1..Len(doc)
        BY <2>1, <2>2, Begins DEF AtValue
    <2>4. Room(doc, 1) - 1 \in Nat
        <3> DEFINE S == Ahead(doc, 1)
        <3>1. 1 \in S
            BY <2>2, <2>3 DEF Ahead
        <3>2. S \subseteq 1..Len(doc) /\ 1 \in Int /\ Len(doc) \in Int
            BY <1>2 DEF Ahead
        <3> HIDE DEF S
        <3> DEFINE z == {t \in S : FALSE}
        <3>3. z \subseteq S /\ 1 \notin z
            OBVIOUS
        <3> HIDE DEF z
        <3>4. Cardinality(S) >= Cardinality(z) + 1 /\ Cardinality(z) \in Nat /\ Cardinality(S) \in Nat
            BY <3>1, <3>2, <3>3, OneLarger
        <3>5. Room(doc, 1) = Cardinality(S)
            BY DEF Room, S
        <3> QED BY <3>4, <3>5
    <2>5. AreVisits(calls) /\ Owed(calls, Room(doc, 1) - 1)
        <3>1. PICK cs : cs = calls
            OBVIOUS
        <3>2. Len(cs) = 0 /\ Enumerated(cs)
            BY <1>2, <3>1 DEF NoCalls
        <3>3. AreVisits(cs)
            BY <3>2 DEF AreVisits
        <3>4. Owed(cs, Room(doc, 1) - 1)
            BY <2>4, <3>2, OwedNone
        <3> QED BY <3>1, <3>3, <3>4
    <2>6. Reading(calls', at', Room(doc', idx' + 1))
        <3>1. calls' = calls /\ at' = "Value" /\ Room(doc', idx' + 1) = Room(doc, 1)
            BY <1>1, <1>2, <1>5
        <3>2. Reading(calls, "Value", Room(doc, 1))
            BY <2>5, Zenon DEF Reading, AfterValue, KeyRead
        <3> QED BY <3>1, <3>2
    <2> QED BY <1>1, <1>2, <1>3, <1>5, <2>6 DEF SerdeInv
<1> QED BY <1>4, <1>5

LEMMA SerdeRefinesValidate == SerdeNext => [Next]_vars
PROOF
<1>1. ReadValue => UNCHANGED vars
    BY Zenon DEF ReadValue, DeserializeScalar, DeserializeAny, DeserializeOption, DeserializeNewtype,
           DeserializeEnum, DeserializeSeq, DeserializeMap
<1>2. TupleComplete \/ NextElement \/ NextKey \/ NextValue \/ ValueRead => UNCHANGED vars
    BY Zenon DEF TupleComplete, NextElement, NextKey, NextValue, ValueRead
<1>3. SerdeValidate \/ Begin \/ Answered \/ SerdeReturned => [Next]_vars
    BY Zenon DEF SerdeValidate, Begin, FromSlice, Answered, Finish, SerdeReturned, serdeVars, vars, Next
<1> QED BY <1>1, <1>2, <1>3 DEF SerdeNext, SerdeStep, ReadValue

LEMMA SerdeNextInv == IInv /\ PlaceInv /\ SerdeInv /\ [SerdeNext]_serdeVars => SerdeInv'
PROOF
<1> SUFFICES ASSUME IInv, PlaceInv, SerdeInv, [SerdeNext]_serdeVars PROVE SerdeInv'
    OBVIOUS
<1>1. ASSUME UNCHANGED serdeVars PROVE SerdeInv'
    BY <1>1 DEF serdeVars, SerdeInv, SerdeCursorInRange
<1>2. CASE ReadValue
    BY <1>2, SerdeReadsValue
<1> QED BY <1>1, <1>2, SerdeValidates, SerdeBegins, SerdeCompletes, SerdeElement, SerdeKey, SerdeValue,
           SerdeGives, SerdeAnswered
        DEF SerdeNext, SerdeStep, SerdeReturned, ReadValue

LEMMA SerdeSpecInv == SerdeSpec => [](IInv /\ PlaceInv /\ SerdeInv)
PROOF
<1>1. SerdeInit => IInv /\ PlaceInv /\ SerdeInv
    BY InitInv, InitPlace, SerdeStarts DEF SerdeInit, CursorInit
<1>2. IInv /\ PlaceInv /\ SerdeInv /\ [SerdeNext]_serdeVars => (IInv /\ PlaceInv /\ SerdeInv)'
    <2> SUFFICES ASSUME IInv, PlaceInv, SerdeInv, [SerdeNext]_serdeVars
                 PROVE  IInv' /\ PlaceInv' /\ SerdeInv'
        OBVIOUS
    <2>1. [Next]_vars
        <3>1. CASE UNCHANGED serdeVars
            BY <3>1 DEF serdeVars, vars
        <3> QED BY <3>1, SerdeRefinesValidate
    <2> QED BY <2>1, NextInv, NextPlace, SerdeNextInv
<1> QED BY <1>1, <1>2, PTL DEF SerdeSpec

\* The cursor of the accesses stays on the structural characters until an
\* error, and goes at most one beyond them on the way out of calls that met
\* one, whatever the document and the type it is read as.
THEOREM SerdeCursorStays == SerdeSpec => []SerdeCursorInRange
PROOF
<1>1. SerdeInv => SerdeCursorInRange
    BY DEF SerdeInv
<1> QED BY <1>1, SerdeSpecInv, PTL
===================================================================================
