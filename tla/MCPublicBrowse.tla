--------------------------- MODULE MCPublicBrowse ---------------------------
(* Instances of PublicBrowse for TLC.                                      *)
EXTENDS PublicBrowse, FiniteSets

CONSTANTS class, semester, subject, unit, unit2, chapter, note, a, b

Parent ==
  (class :> Root) @@ (semester :> class) @@ (subject :> semester)
    @@ (unit :> subject) @@ (unit2 :> subject) @@ (chapter :> unit)
    @@ (note :> chapter)

Depth ==
  (class :> 1) @@ (semester :> 2) @@ (subject :> 3) @@ (unit :> 4)
    @@ (unit2 :> 4) @@ (chapter :> 5) @@ (note :> 6)

(* A chain of rows, each published or not, and a second unit to move the   *)
(* chapter to; the note may be yet to come.  Two rows are hidden at most:  *)
(* MaxEdits edits could not make a page of a chain with more.              *)
Chains ==
  {[x \in Item |-> IF x = note /\ new THEN Unborn
                   ELSE [parent |-> Parent[x],
                         slug |-> IF x = unit2 THEN b ELSE a,
                         open |-> x \notin hidden]]
     : hidden \in {h \in SUBSET Item : Cardinality(h) <= 2}, new \in BOOLEAN}

AllA == [l \in 1..5 |-> a]
=============================================================================
