------------------------------ MODULE NoteForm ------------------------------
(***************************************************************************)
(* The five selects of the form for a new note: class, semester, subject,  *)
(* unit, chapter (web/templates/pages/admin_notes.tmpl), and the look-ups  *)
(* of internal/handlers/admin_htmx.go that refresh them.                   *)
(*                                                                         *)
(* A change of select i asks for the options of select i + 1, and of that  *)
(* one only: what is below keeps its options and its choice.  htmx keeps   *)
(* one request per select under way and the last one that came meanwhile;  *)
(* an error reply is not swapped in.  Of the form, POST /admin/notes uses  *)
(* the chapter alone.                                                      *)
(***************************************************************************)
EXTENDS Naturals, FiniteSets

CONSTANTS
  Depth,     \* the number of selects
  Item,      \* rows of the hierarchy
  Level,     \* Level[x]: the table of x, 1 = classes
  Trees,     \* the parents the rows may have at first
  Fault,     \* "db": a query fails; "session": the session has ended
  MaxPicks,  \* bound on the choices made
  MaxMoves,  \* bound on the rows moved meanwhile
  Root,      \* the parent of a class
  Blank,     \* the option with the empty value
  Failed,    \* a reply with an error status
  Nothing

Select == 1..Depth
Asking == 1..(Depth - 1)   \* the selects with hx-get

Rows(i) == {x \in Item : Level[x] = i}

(* A foreign key always names a row of the table above.                    *)
Fits(x, p) == IF Level[x] = 1 THEN p = Root ELSE p \in Rows(Level[x] - 1)

ASSUME FormAssumption ==
  /\ Depth \in Nat \ {0, 1}
  /\ Level \in [Item -> Select]
  /\ Trees \subseteq [Item -> Item \cup {Root}]
  /\ \A t \in Trees : \A x \in Item : Fits(x, t[x])
  /\ Fault \subseteq {"db", "session"}
  /\ MaxPicks \in Nat
  /\ MaxMoves \in Nat
  /\ Root \notin Item
  /\ Blank \notin Item
  /\ Nothing \notin Item \cup {Blank}

VARIABLES
  parent,   \* the tables
  options,  \* of each select, without the empty one
  chosen,   \* the value of each select
  sent,     \* the value the look-up of a select was sent with
  reply,    \* what the server made of it
  queued,   \* whether htmx is to send another one
  under,    \* history: the parent for which the options were looked up
  failed,   \* history: the last look-up of this select failed
  moved,    \* history: the rows moved since the page was opened
  picks,
  moves

vars == <<parent, options, chosen, sent, reply, queued, under, failed, moved,
          picks, moves>>
formVars == <<options, chosen, sent, reply, queued, under, failed>>

TypeOK ==
  /\ parent \in [Item -> Item \cup {Root}]
  /\ \A x \in Item : Fits(x, parent[x])
  /\ options \in [Select -> SUBSET Item]
  /\ \A i \in Select : options[i] \subseteq Rows(i)
  /\ chosen \in [Select -> Item \cup {Blank}]
  /\ \A i \in Select : chosen[i] \in options[i] \cup {Blank}
  /\ sent \in [Asking -> Item \cup {Blank, Nothing}]
  /\ reply \in [Asking -> (SUBSET Item) \cup {Failed, Nothing}]
  /\ \A i \in Asking : reply[i] \in {Failed, Nothing} \/ reply[i] \subseteq Rows(i + 1)
  /\ queued \in [Asking -> BOOLEAN]
  /\ under \in [Select -> Item \cup {Root, Blank, Nothing}]
  /\ failed \in [Asking -> BOOLEAN]
  /\ moved \subseteq Item
  /\ picks \in 0..MaxPicks
  /\ moves \in 0..MaxMoves
  /\ \A i \in Asking :
       /\ sent[i] = Nothing => reply[i] = Nothing /\ ~queued[i]
       /\ sent[i] \in Item => Level[sent[i]] = i

-----------------------------------------------------------------------------
(* The page as GET /admin/notes renders it: the classes of that moment.    *)
Init ==
  /\ parent \in Trees
  /\ options = [i \in Select |-> IF i = 1 THEN Rows(1) ELSE {}]
  /\ chosen = [i \in Select |-> Blank]
  /\ sent = [i \in Asking |-> Nothing]
  /\ reply = [i \in Asking |-> Nothing]
  /\ queued = [i \in Asking |-> FALSE]
  /\ under = [i \in Select |-> IF i = 1 THEN Root ELSE Nothing]
  /\ failed = [i \in Asking |-> FALSE]
  /\ moved = {}
  /\ picks = 0
  /\ moves = 0

(* Mutant: hx-sync="this:drop", what comes meanwhile is dropped.           *)
Ask_Drop(i, value) ==
  /\ sent' = IF sent[i] = Nothing THEN [sent EXCEPT ![i] = value] ELSE sent
  /\ UNCHANGED queued

(* htmx, on a change of a select: send, or queue behind the request under  *)
(* way in the place of one that is queued.                                 *)
Ask(i, value) ==
  IF sent[i] = Nothing
  THEN sent' = [sent EXCEPT ![i] = value] /\ UNCHANGED queued
  ELSE queued' = [queued EXCEPT ![i] = TRUE] /\ UNCHANGED sent

(* The admin chooses another option of a select.                           *)
Pick(i) ==
  /\ picks < MaxPicks
  /\ picks' = picks + 1
  /\ \E value \in (options[i] \cup {Blank}) \ {chosen[i]} :
       /\ chosen' = [chosen EXCEPT ![i] = value]
       /\ IF i \in Asking THEN Ask(i, value) ELSE UNCHANGED <<sent, queued>>
  /\ UNCHANGED <<parent, options, reply, under, failed, moved, moves>>

(* SemestersByClassID and the three like it.                               *)
Children(value) == {x \in Item : parent[x] = value}

(* A look-up: an empty value is no uuid and gets the empty select, a       *)
(* session that has ended gets the login page in its place.                *)
LookUp(i) ==
  /\ sent[i] # Nothing
  /\ reply[i] = Nothing
  /\ \/ reply' = [reply EXCEPT ![i] = IF sent[i] = Blank THEN {} ELSE Children(sent[i])]
     \/ /\ "db" \in Fault /\ sent[i] # Blank
        /\ reply' = [reply EXCEPT ![i] = Failed]
  /\ UNCHANGED <<parent, options, chosen, sent, queued, under, failed, moved,
                 picks, moves>>

(* htmx: the request is over, the next one takes the value of now.         *)
Over(i, value) ==
  /\ sent' = [sent EXCEPT ![i] = IF queued[i] THEN value ELSE Nothing]
  /\ queued' = [queued EXCEPT ![i] = FALSE]
  /\ reply' = [reply EXCEPT ![i] = Nothing]

(* Mutant: the partials have no empty option, so the first one is chosen.  *)
FirstOption_Row(rows) == IF rows = {} THEN Blank ELSE CHOOSE x \in rows : TRUE

(* What a select shows when its options were replaced: the first one, in   *)
(* every partial the empty one.  No change event comes of it.              *)
FirstOption(rows) == Blank

(* Mutant: a select keeps its choice when its options are replaced.        *)
Swap_Keep(i, rows) ==
  /\ options' = [options EXCEPT ![i + 1] = rows]
  /\ under' = [under EXCEPT ![i + 1] = sent[i]]
  /\ UNCHANGED chosen

Swap(i, rows) ==
  /\ options' = [options EXCEPT ![i + 1] = rows]
  /\ under' = [under EXCEPT ![i + 1] = sent[i]]
  /\ chosen' = [chosen EXCEPT ![i + 1] = FirstOption(rows)]

(* The reply comes in.  A choice of select i made by the swap of a reply   *)
(* of select i - 1 is the value a queued request goes out with.            *)
Arrive(i) ==
  /\ reply[i] # Nothing
  /\ IF reply[i] = Failed
     THEN /\ failed' = [failed EXCEPT ![i] = TRUE]
          /\ UNCHANGED <<options, chosen, under>>
     ELSE /\ failed' = [failed EXCEPT ![i] = FALSE]
          /\ Swap(i, reply[i])
  /\ Over(i, chosen[i])
  /\ UNCHANGED <<parent, moved, picks, moves>>

(* RequireAdmin redirects to the login page, a reply like any other to     *)
(* htmx: it has no options.                                                *)
SignedOut(i) ==
  /\ "session" \in Fault
  /\ sent[i] # Nothing
  /\ reply[i] = Nothing
  /\ failed' = [failed EXCEPT ![i] = TRUE]
  /\ Swap(i, {})
  /\ Over(i, chosen[i])
  /\ UNCHANGED <<parent, moved, picks, moves>>

Complete == \A i \in Select : chosen[i] # Blank

(* POST /admin/notes with a form the browser finds complete; the page is   *)
(* loaded anew, after an error too.                                        *)
Submit ==
  /\ Complete
  /\ options' = [i \in Select |-> IF i = 1 THEN Rows(1) ELSE {}]
  /\ chosen' = [i \in Select |-> Blank]
  /\ sent' = [i \in Asking |-> Nothing]
  /\ reply' = [i \in Asking |-> Nothing]
  /\ queued' = [i \in Asking |-> FALSE]
  /\ under' = [i \in Select |-> IF i = 1 THEN Root ELSE Nothing]
  /\ failed' = [i \in Asking |-> FALSE]
  /\ moved' = {}
  /\ UNCHANGED <<parent, picks, moves>>

(* Another admin saves a row with another parent.                          *)
Move ==
  /\ moves < MaxMoves
  /\ moves' = moves + 1
  /\ \E x, p \in Item :
       /\ Fits(x, p) /\ p # parent[x]
       /\ parent' = [parent EXCEPT ![x] = p]
       /\ moved' = moved \cup {x}
  /\ UNCHANGED <<formVars, picks>>

Next ==
  \/ \E i \in Select : Pick(i)
  \/ \E i \in Asking : LookUp(i) \/ Arrive(i) \/ SignedOut(i)
  \/ Submit
  \/ Move

Spec == Init /\ [][Next]_vars

(* The server answers a look-up within the deadline of its request, and    *)
(* the browser handles the reply.  Nothing makes the admin act.            *)
FairSpec ==
  Spec /\ \A i \in Asking : WF_vars(LookUp(i)) /\ WF_vars(Arrive(i))

-----------------------------------------------------------------------------
Quiet == \A i \in Asking : sent[i] = Nothing /\ ~failed[i]

(* A form that is complete while no look-up is under way or failed shows a *)
(* path of the hierarchy, so the note goes where the admin sees it go:     *)
(* stale options further down are always guarded by an empty choice above  *)
(* them.  Rows moved since the page was opened are excepted.               *)
ShownPathExists ==
  Complete /\ Quiet =>
    \A i \in Asking : parent[chosen[i + 1]] = chosen[i] \/ chosen[i + 1] \in moved

Behind(i) == chosen[i] # Blank /\ under[i + 1] # chosen[i]

(* Options never stay behind the choice above them, however fast the admin *)
(* chooses, unless the look-up failed.                                     *)
OptionsFollow == \A i \in Asking : Behind(i) ~> (~Behind(i) \/ failed[i])
=============================================================================
