-------------------------- MODULE MCHierarchyAdmin --------------------------
(* Instances of HierarchyAdmin for TLC.                                    *)
EXTENDS HierarchyAdmin

CONSTANTS class, semester, subject, unit, unit2, chapter,
          a, b, one, two, admin1, admin2

Depth ==
  (class :> 1) @@ (semester :> 2) @@ (subject :> 3) @@ (unit :> 4)
    @@ (unit2 :> 4) @@ (chapter :> 5)

Parent ==
  (class :> Root) @@ (semester :> class) @@ (subject :> semester)
    @@ (unit :> subject) @@ (chapter :> unit)

(* One row in each table; a second unit may be created.                    *)
Chain ==
  {[x \in Item |->
      IF x \notin DOMAIN Parent THEN Unborn
      ELSE [parent |-> Parent[x], name |-> a, slug |-> one, open |-> TRUE]]}

(* One admin works on all tables, another one on chapters.                 *)
Shared == (admin1 :> 1..5) @@ (admin2 :> {5})

Slugs == (a :> one) @@ (b :> two)
=============================================================================
