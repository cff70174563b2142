----------------------------- MODULE MCNoteForm -----------------------------
(* Instances of NoteForm for TLC.                                          *)
EXTENDS NoteForm, TLC

CONSTANTS c1, c2, s1, s2, u1, u2

(* Two rows per table.                                                     *)
Table == c1 :> 1 @@ c2 :> 1 @@ s1 :> 2 @@ s2 :> 2 @@ u1 :> 3 @@ u2 :> 3

(* A pair of columns below different rows, or below the same.              *)
Hierarchies ==
  {c1 :> Root @@ c2 :> Root @@ s1 :> c1 @@ s2 :> p @@ u1 :> s1 @@ u2 :> q :
     p \in {c1, c2}, q \in {s1, s2}}
=============================================================================
