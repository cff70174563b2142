--------------------------- MODULE HierarchyAdmin ---------------------------
(***************************************************************************)
(* The administration of classes, semesters, subjects, units and chapters: *)
(* five handlers (internal/handlers/admin_classes.go ... admin_chapters.go) *)
(* that are one program on five tables (internal/academic), with the form  *)
(* an admin has on screen between two requests.                            *)
(*                                                                         *)
(* An edit page takes two queries, the parents to offer and then the row,  *)
(* without a transaction.  A save is one statement that writes all columns *)
(* of the row; its audit entry is a second one, whose error is only        *)
(* logged.  No handler deletes a row of these tables.                      *)
(***************************************************************************)
EXTENDS Integers, SequencesExt, FiniteSets

CONSTANTS
  Item,      \* primary keys, of all five tables
  Level,     \* Level[x]: the table of x, 1 = classes ... 5 = chapters
  Name,      \* what an admin types
  Slug,
  Slugify,   \* the slug of a name
  Tables,    \* the tables the server may start on
  Admin,
  Works,     \* Works[a]: the tables admin a works on
  Fault,     \* "db": a statement fails; "dbAck": it commits, its reply is lost
  MaxSaves,  \* bound on the saves
  MaxLost,   \* bound on the saves whose reply or audit entry is lost
  Root,      \* the parent of a class
  Unborn,    \* the row of an id not handed out yet
  Nothing

Row == [parent : Item \cup {Root}, name : Name, slug : Slug, open : BOOLEAN]

(* What one save wrote: the columns of row id after its n-th save.         *)
Version == [id : Item, n : 1..MaxSaves]

BornIn(rows) == {x \in Item : rows[x] # Unborn}

(* x may have the row new: a parent in the table above, and a slug no      *)
(* other row with this parent has.                                         *)
FitsIn(rows, x, new) ==
  /\ IF Level[x] = 1 THEN new.parent = Root
     ELSE new.parent \in {p \in BornIn(rows) : Level[p] = Level[x] - 1}
  /\ \A y \in BornIn(rows) \ {x} : Level[y] = Level[x] =>
       rows[y].parent # new.parent \/ rows[y].slug # new.slug

(* What the constraints of the schema keep, and the slug of every row is   *)
(* that of its name.                                                       *)
Sound(rows) ==
  \A x \in BornIn(rows) :
    FitsIn(rows, x, rows[x]) /\ rows[x].slug = Slugify[rows[x].name]

ASSUME AdminAssumption ==
  /\ Level \in [Item -> 1..5]
  /\ Slugify \in [Name -> Slug]
  /\ Tables \subseteq [Item -> Row \cup {Unborn}]
  /\ \A t \in Tables : Sound(t)
  /\ Works \in [Admin -> SUBSET (1..5)]
  /\ Fault \subseteq {"db", "dbAck"}
  /\ MaxSaves \in Nat
  /\ MaxLost \in Nat
  /\ Root \notin Item
  /\ Unborn \notin Row
  /\ Nothing \notin Item \cup Row \cup Version

VARIABLES
  row,      \* the five tables
  log,      \* the audit log: of each row, the versions it shows, in its order
  pc,       \* where each admin's request or form is
  editing,  \* the row of the edit page
  options,  \* the parents the page offers
  shown,    \* the form as the browser first shows it
  entry,    \* the version whose audit entry is due
  saves,    \* saves committed so far
  version,  \* history: how often each row was saved, the number of what it holds
  lost,     \* history: versions that will not be in the log
  older,    \* history: the rows there were when the page was asked for
  read,     \* history: the row as the page read it
  blurred   \* history: rows whose last log entry need not be the last save

forms == <<editing, options, shown, older, read>>
logs == <<log, entry, saves, version, lost, blurred>>
vars == <<row, log, pc, editing, options, shown, entry, saves, version, lost,
          older, read, blurred>>

Exists(x) == row[x] # Unborn

Born == BornIn(row)

Fits(x, new) == FitsIn(row, x, new)

TypeOK ==
  /\ row \in [Item -> Row \cup {Unborn}]
  /\ Sound(row)
  /\ log \in [Item -> Seq(1..MaxSaves)]
  /\ pc \in [Admin -> {"idle", "list", "find", "form", "audit"}]
  /\ editing \in [Admin -> Item \cup {Nothing}]
  /\ options \in [Admin -> SUBSET (Item \cup {Root})]
  /\ shown \in [Admin -> Row \cup {Nothing}]
  /\ entry \in [Admin -> Version \cup {Nothing}]
  /\ saves \in 0..MaxSaves
  /\ version \in [Item -> 0..saves]
  /\ lost \subseteq Version
  /\ older \in [Admin -> SUBSET Item]
  /\ read \in [Admin -> Row \cup {Nothing}]
  /\ blurred \subseteq Item

-----------------------------------------------------------------------------
Init ==
  /\ row \in Tables
  /\ log = [x \in Item |-> <<>>]
  /\ pc = [a \in Admin |-> "idle"]
  /\ editing = [a \in Admin |-> Nothing]
  /\ options = [a \in Admin |-> {}]
  /\ shown = [a \in Admin |-> Nothing]
  /\ entry = [a \in Admin |-> Nothing]
  /\ saves = 0
  /\ version = [x \in Item |-> 0]
  /\ lost = {}
  /\ older = [a \in Admin |-> {}]
  /\ read = [a \in Admin |-> Nothing]
  /\ blurred = {}

Goto(a, s) == pc' = [pc EXCEPT ![a] = s]

(* The page of row x is on its way to admin a: a class has no parents to   *)
(* offer, the other handlers list them first.                              *)
EditPage(a, x) ==
  /\ Goto(a, IF Level[x] = 1 THEN "find" ELSE "list")
  /\ editing' = [editing EXCEPT ![a] = x]
  /\ options' = [options EXCEPT ![a] = IF Level[x] = 1 THEN {Root} ELSE {}]
  /\ shown' = [shown EXCEPT ![a] = Nothing]
  /\ read' = [read EXCEPT ![a] = Nothing]
  /\ older' = [older EXCEPT ![a] = Born]

(* No page of a row is on screen any more.                                 *)
Clear(a, s) ==
  /\ Goto(a, s)
  /\ editing' = [editing EXCEPT ![a] = Nothing]
  /\ options' = [options EXCEPT ![a] = {}]
  /\ shown' = [shown EXCEPT ![a] = Nothing]
  /\ read' = [read EXCEPT ![a] = Nothing]
  /\ older' = [older EXCEPT ![a] = {}]

(* GET .../{id}/edit, of a row the admin saw in a list.                    *)
Edit(a, l) ==
  /\ pc[a] = "idle"
  /\ \E x \in Born : Level[x] = l /\ EditPage(a, x)
  /\ UNCHANGED <<row, logs>>

(* Mutant: only published parents are offered.                             *)
Parents_Published(l) == {p \in Born : Level[p] = l - 1 /\ row[p].open}

(* List, of the repository of the table above.                             *)
Parents(l) == {p \in Born : Level[p] = l - 1}

ListParents(a, l) ==
  /\ pc[a] = "list"
  /\ Level[editing[a]] = l
  /\ options' = [options EXCEPT ![a] = Parents(l)]
  /\ Goto(a, "find")
  /\ UNCHANGED <<row, logs, editing, shown, older, read>>

(* FindByID and the template: the option of the row's parent is selected,  *)
(* and a browser that finds none selected selects one by itself.           *)
FindRow(a, l) ==
  /\ pc[a] = "find"
  /\ Level[editing[a]] = l
  /\ LET found == row[editing[a]]
     IN /\ \E p \in options[a] :
             /\ found.parent \in options[a] => p = found.parent
             /\ shown' = [shown EXCEPT ![a] = [found EXCEPT !.parent = p]]
        /\ read' = [read EXCEPT ![a] = found]
  /\ Goto(a, "form")
  /\ UNCHANGED <<row, logs, editing, options, older>>

(* A query of the page fails: status 500.                                  *)
PageFails(a, l) ==
  /\ "db" \in Fault
  /\ pc[a] \in {"list", "find"}
  /\ Level[editing[a]] = l
  /\ Clear(a, "idle")
  /\ UNCHANGED <<row, logs>>

-----------------------------------------------------------------------------
(* Admins whose save of row x is not in the log yet.                       *)
Pending(x) == {a \in Admin : entry[a] # Nothing /\ entry[a].id = x}

(* Mutant: the slug a row was created with stays.                          *)
Typed_SameSlug(x, parent, name, open) ==
  [parent |-> parent, name |-> name, open |-> open,
   slug |-> IF Exists(x) THEN row[x].slug ELSE Slugify[name]]

(* The columns of a statement: the slug follows the name.                  *)
Typed(x, parent, name, open) ==
  [parent |-> parent, name |-> name, open |-> open, slug |-> Slugify[name]]

(* The statement commits.                                                  *)
Commit(x, new) ==
  /\ saves < MaxSaves
  /\ saves' = saves + 1
  /\ version' = [version EXCEPT ![x] = @ + 1]
  /\ row' = [row EXCEPT ![x] = new]

(* History: a version gets no entry, and the log of its row no good end.   *)
Lose(v) ==
  /\ Cardinality(lost) < MaxLost
  /\ lost' = lost \cup {v}
  /\ blurred' = blurred \cup {v.id}

(* Mutant: an edit is logged as the row was when the page was read.        *)
Returned_Old(a, v) == IF pc[a] = "form" /\ v.n > 1 THEN [v EXCEPT !.n = @ - 1] ELSE v

(* What RETURNING gives the handler for its audit entry.                   *)
Returned(a, v) == v

(* One save by admin a: it succeeds, or only seems to have failed, or the  *)
(* constraints refuse it.                                                  *)
Statement(a, x, new, errorPage) ==
  LET v == [id |-> x, n |-> version[x] + 1]
  IN \/ /\ Fits(x, new)
        /\ Commit(x, new)
        /\ \/ /\ entry' = [entry EXCEPT ![a] = Returned(a, v)]
              /\ blurred' = IF Pending(x) = {} THEN blurred \ {x}
                                               ELSE blurred \cup {x}
              /\ Clear(a, "audit")
              /\ UNCHANGED lost
           \/ /\ "dbAck" \in Fault
              /\ Lose(v)
              /\ errorPage
              /\ UNCHANGED entry
        /\ UNCHANGED log
     \/ /\ ~Fits(x, new)
        /\ errorPage
        /\ UNCHANGED <<row, logs>>

(* Input without a valid parent, sort order or name, or whose name leaves  *)
(* no slug, does not reach the statement; or the statement fails.          *)
Refused(errorPage) ==
  /\ errorPage
  /\ UNCHANGED <<row, logs>>

(* POST of the form above the list.  An error shows the list again.        *)
Store(a, l) ==
  /\ pc[a] = "idle"
  /\ LET list == Clear(a, "idle")
     IN \/ \E x \in Item \ Born, name \in Name, open \in BOOLEAN,
              parent \in IF l = 1 THEN {Root} ELSE Parents(l) :
             /\ Level[x] = l
             /\ Statement(a, x, Typed(x, parent, name, open), list)
        \/ Refused(list)

(* POST of the edit page: whatever the admin changed, all columns are      *)
(* written.  An error shows the page again, as the tables are then.        *)
Update(a, l) ==
  /\ pc[a] = "form"
  /\ LET x == editing[a]
     IN /\ Level[x] = l
        /\ \/ \E name \in Name, open \in BOOLEAN, parent \in options[a] :
                Statement(a, x, Typed(x, parent, name, open), EditPage(a, x))
           \/ Refused(EditPage(a, x))

Cancel(a, l) ==
  /\ pc[a] = "form"
  /\ Level[editing[a]] = l
  /\ Clear(a, "idle")
  /\ UNCHANGED <<row, logs>>

(* Mutant: the entry shows the row as it is when the entry is written.     *)
Logged_Reread(a) == [entry[a] EXCEPT !.n = version[entry[a].id]]

(* The metadata of the entry.                                              *)
Logged(a) == entry[a]

(* writeAuditLog and the redirect to the list.                             *)
Audit(a, l) ==
  /\ pc[a] = "audit"
  /\ Level[entry[a].id] = l
  /\ \/ /\ log' = [log EXCEPT ![entry[a].id] = Append(@, Logged(a).n)]
        /\ UNCHANGED <<lost, blurred>>
     \/ /\ "db" \in Fault
        /\ Lose(entry[a])
        /\ UNCHANGED log
  /\ entry' = [entry EXCEPT ![a] = Nothing]
  /\ Clear(a, "idle")
  /\ UNCHANGED <<row, saves, version>>

-----------------------------------------------------------------------------
(* The routes of one table.                                                *)
Handler(a, l) ==
  /\ l \in Works[a]
  /\ \/ Store(a, l)
     \/ Edit(a, l)
     \/ ListParents(a, l)
     \/ FindRow(a, l)
     \/ PageFails(a, l)
     \/ Update(a, l)
     \/ Cancel(a, l)
     \/ Audit(a, l)

AdminClassHandler(a) == Handler(a, 1)
AdminSemesterHandler(a) == Handler(a, 2)
AdminSubjectHandler(a) == Handler(a, 3)
AdminUnitHandler(a) == Handler(a, 4)
AdminChapterHandler(a) == Handler(a, 5)

Next ==
  \E a \in Admin :
    \/ AdminClassHandler(a)
    \/ AdminSemesterHandler(a)
    \/ AdminSubjectHandler(a)
    \/ AdminUnitHandler(a)
    \/ AdminChapterHandler(a)

Spec == Init /\ [][Next]_vars

-----------------------------------------------------------------------------
(* A save leaves alone what its admin left alone.  All columns are         *)
(* written, those the admin did not touch too, with what the page showed:  *)
(* that is what they hold already, unless somebody saved the row after the *)
(* page read it, or had moved it, while the page was being made, below a   *)
(* parent created in that time, which the page does not offer.             *)
KeepsUntouched ==
  [][\A a \in Admin :
       LET x == editing[a]
       IN /\ pc[a] = "form"
          /\ pc'[a] # "form"
          /\ row' # row
          /\ row[x] = read[a]
          /\ read[a].parent \in older[a] \cup {Root}
          => \A column \in {"parent", "name", "open"} :
               row'[x][column] = shown[a][column] =>
                 row'[x][column] = row[x][column]]_vars

(* Every version of a row that was ever saved is in the log exactly as it  *)
(* was saved, once, or is about to be, or its entry was lost with a failed *)
(* statement; and nothing else is in the log.                              *)
AuditMatchesSaves ==
  \A x \in Item :
    LET due == {entry[a].n : a \in Pending(x)}
        missing == {v.n : v \in {w \in lost : w.id = x}}
    IN /\ ToSet(log[x]) \cup due \cup missing = 1..version[x]
       /\ Len(log[x]) + Cardinality(due) + Cardinality(missing) = version[x]

(* The last entry of a row tells what it holds, once none is due, unless   *)
(* since its last undisturbed save two saves of it overlapped, or one got  *)
(* no entry.                                                               *)
LogEndsWithRow ==
  \A x \in Item :
    version[x] > 0 /\ x \notin blurred /\ Pending(x) = {} =>
      log[x] # <<>> /\ Last(log[x]) = version[x]
=============================================================================
