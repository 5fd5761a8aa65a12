------------------------------- MODULE SerdeReads -------------------------------
(***************************************************************************)
(* What serde::from_slice (SerdeDe) reads: the values of a type, and which *)
(* documents hold one, both by the tree of the document.                   *)
(***************************************************************************)
EXTENDS SerdeDe

---------------------------------------------------------------------------
(* The reference: which trees are values of a type.                        *)

\* An enum has no values: the crate has no text for them.
RECURSIVE Fits(_, _)
Fits(T, tree) ==
    CASE T.shape = "any"    -> TRUE
      [] T.shape = "enum"   -> FALSE
      [] T.shape \in DOMAIN Scalars ->
            /\ tree.kind = "leaf" /\ doc[tree.at] \in Scalars[T.shape]
            /\ ~(T.shape \in Narrow /\ doc[tree.at] = "large")
      [] T.shape = "option" -> (tree.kind = "leaf" /\ doc[tree.at] = "null") \/ Fits(T.of, tree)
      [] T.shape = "newtype" -> Fits(T.of, tree)
      [] T.shape = "seq"    -> /\ tree.kind = "array"
                               /\ \A n \in DOMAIN tree.items : Fits(T.of, tree.items[n])
      [] T.shape = "map"    -> /\ tree.kind = "object"
                               /\ \A n \in DOMAIN tree.items : Fits(T.of, tree.items[n].items[1])
      [] T.shape = "struct" ->
            /\ tree.kind = "object"
            /\ LET fields == FieldsAmong(tree.items) IN
               /\ Cardinality(fields) = 1 \/ (fields = {} /\ T.of.shape = "option")
               /\ \A n \in fields : Fits(T.of, tree.items[n].items[1])
      [] IsTuple(T)         -> /\ tree.kind = "array" /\ Len(tree.items) = Len(T.of)
                               /\ \A n \in DOMAIN T.of : Fits(T.of[n], tree.items[n])

\* Somewhere an array is longer than the tuple to be read from it, or an
\* integer larger than its type.
RECURSIVE Misread(_, _)
Misread(T, tree) ==
    CASE T.shape \in Narrow /\ tree.kind = "leaf" -> doc[tree.at] = "large"
      [] T.shape \in {"option", "newtype"} -> Misread(T.of, tree)
      [] T.shape = "seq" /\ tree.kind = "array" ->
            \E n \in DOMAIN tree.items : Misread(T.of, tree.items[n])
      [] T.shape = "map" /\ tree.kind = "object" ->
            \E n \in DOMAIN tree.items : Misread(T.of, tree.items[n].items[1])
      [] T.shape = "struct" /\ tree.kind = "object" ->
            \E n \in FieldsAmong(tree.items) : Misread(T.of, tree.items[n].items[1])
      [] IsTuple(T) /\ tree.kind = "array" ->
            \/ Len(tree.items) > Len(T.of)
            \/ \E n \in DOMAIN tree.items : Misread(T.of[n], tree.items[n])
      [] OTHER -> FALSE

LeavesGood == \A k \in DOMAIN doc : doc[k] \notin {"badstr", "badnum"}

---------------------------------------------------------------------------
(* Properties.                                                             *)

\* "It can deserialize anything that implements the serde Deserialize trait":
\* a document that holds a value of the type asked for is read as that value;
\* no access leaves the cursor a bracket or a comma away from where the next
\* one takes it to be.
ReadsWhatFits ==
    at = "Done" /\ result = "Ok" /\ LeavesGood /\ Fits(type, Tree(doc)) =>
        failure = "none" /\ value = Tree(doc)

\* What is read is in the document, and of the type asked for, unless an array
\* is longer than its tuple, or an integer larger than its type: nothing looks
\* for what is left of either.  A struct has its field once, however many
\* members it does not know lie around it.
ReadsNothingElse ==
    at = "Done" /\ failure = "none" /\ ~Misread(type, Tree(doc)) =>
        Fits(type, Tree(doc)) /\ value = Tree(doc)
=================================================================================
