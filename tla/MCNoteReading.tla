---------------------------- MODULE MCNoteReading ----------------------------
(* Instances of NoteReading for TLC.                                       *)
EXTENDS NoteReading, TLC

AnyHandler == [r \in Request |-> Op]

(* Every handler that works on a note there is.                            *)
Writers == [r \in Request |-> Op \ {"Store", "StoreZip"}]

Interchangeable ==
  Permutations(Note) \cup Permutations(Key) \cup Permutations(Place)
    \cup Permutations(Request) \cup Permutations(Viewer)
=============================================================================
