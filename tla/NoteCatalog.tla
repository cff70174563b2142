----------------------------- MODULE NoteCatalog -----------------------------
(***************************************************************************)
(* What the admin note pages promise (internal/handlers/admin_notes.go):   *)
(* a catalogue of notes, each with its place and its file, on which every  *)
(* operation is atomic.  A file belongs to one note at most and is never   *)
(* used again; a note leaves the catalogue only while archived, and with   *)
(* its file.                                                               *)
(***************************************************************************)
CONSTANTS Note, File, Place, Unborn, Gone

VARIABLES
  notes,  \* the entry of each note
  used    \* files that are or were in the catalogue, or were given up

vars == <<notes, used>>

Present == {n \in Note : notes[n] \notin {Unborn, Gone}}

Free(p, n) == \A m \in Present \ {n} : notes[m].place # p

Fresh(f) == f \in File \ used

Init ==
  /\ notes \in [Note -> [file : File, place : Place, published : BOOLEAN,
                         archived : BOOLEAN] \cup {Unborn}]
  /\ \A m, n \in Present : m # n => /\ notes[m].file # notes[n].file
                                  /\ notes[m].place # notes[n].place
  /\ used = {notes[n].file : n \in Present}

(* A note is uploaded.                                                     *)
Add(n, f, p) ==
  /\ notes[n] = Unborn
  /\ Fresh(f)
  /\ Free(p, n)
  /\ \E pub \in BOOLEAN :
       notes' = [notes EXCEPT ![n] = [file |-> f, place |-> p,
                                      published |-> pub, archived |-> FALSE]]
  /\ used' = used \cup {f}

(* Its file is replaced.                                                   *)
Replace(n, f) ==
  /\ n \in Present
  /\ Fresh(f)
  /\ notes' = [notes EXCEPT ![n].file = f]
  /\ used' = used \cup {f}

(* Its metadata are edited.                                                *)
Edit(n, p) ==
  /\ n \in Present
  /\ Free(p, n)
  /\ \E pub \in BOOLEAN :
       notes' = [notes EXCEPT ![n] = [@ EXCEPT !.place = p, !.published = pub]]
  /\ UNCHANGED used

Archive(n) ==
  /\ n \in Present
  /\ ~notes[n].archived
  /\ notes' = [notes EXCEPT ![n] = [@ EXCEPT !.archived = TRUE, !.published = FALSE]]
  /\ UNCHANGED used

Restore(n) ==
  /\ n \in Present
  /\ notes[n].archived
  /\ notes' = [notes EXCEPT ![n].archived = FALSE]
  /\ UNCHANGED used

Remove(n) ==
  /\ n \in Present
  /\ notes[n].archived
  /\ notes' = [notes EXCEPT ![n] = Gone]
  /\ UNCHANGED used

(* An upload came to nothing.                                              *)
GiveUp(f) ==
  /\ Fresh(f)
  /\ used' = used \cup {f}
  /\ UNCHANGED notes

Next ==
  \/ \E n \in Note, f \in File, p \in Place : Add(n, f, p)
  \/ \E n \in Note, f \in File : Replace(n, f)
  \/ \E n \in Note, p \in Place : Edit(n, p)
  \/ \E n \in Note : Archive(n) \/ Restore(n) \/ Remove(n)
  \/ \E f \in File : GiveUp(f)

Spec == Init /\ [][Next]_vars
=============================================================================
