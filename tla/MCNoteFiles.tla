----------------------------- MODULE MCNoteFiles -----------------------------
(* Instances of NoteFiles for TLC.                                         *)
EXTENDS NoteFiles, TLC

(* Any handler on any request.                                             *)
AnyHandler == [r \in Request |-> Op]

(* No handler tells the members of these sets apart.                       *)
Interchangeable ==
  Permutations(Request) \cup Permutations(Note) \cup Permutations(Key)
    \cup Permutations(Place)
=============================================================================
