---------------------------- MODULE PublicBrowse ----------------------------
(***************************************************************************)
(* The public pages that walk down the hierarchy class, semester, subject, *)
(* unit, chapter, note (internal/academic/public_repository.go) while the  *)
(* admins edit it.                                                         *)
(*                                                                         *)
(* A page is made by several SELECTs on a connection pool, outside any     *)
(* transaction: each sees a snapshot of its own, and edits of the admins   *)
(* come in between.  A query that joins tables reads them in one snapshot. *)
(***************************************************************************)
EXTENDS Integers, SequencesExt

CONSTANTS
  Item,      \* primary keys, of all six tables
  Level,     \* Level[x]: the table of x, 1 = classes ... 6 = notes
  Slug,
  Tables,    \* the tables the server may start on
  Visitor,   \* one request for a public page each
  Path,      \* the slugs in the URL, one per level above the notes
  Root,      \* the parent of a class
  Unborn,    \* the row of an id not handed out yet
  MaxEdits   \* bound on the edits of the admins

Page == {"Semesters", "Subjects", "Units", "Chapters", "Notes", "GalleryChapter"}

Request == [page : Page, chapter : Item \cup {Root}]

Row == [parent : Item \cup {Root}, slug : Slug, open : BOOLEAN]

(* What is said below of tables t goes for every state they may be in.     *)
Born(t) == {x \in Item : t[x] # Unborn}

(* x may have the row new: a parent in the table above, and a slug no      *)
(* other row with this parent has.                                         *)
Fits(t, x, new) ==
  /\ IF Level[x] = 1 THEN new.parent = Root
     ELSE new.parent \in {p \in Born(t) : Level[p] = Level[x] - 1}
  /\ \A y \in Born(t) \ {x} : Level[y] = Level[x] =>
       t[y].parent # new.parent \/ t[y].slug # new.slug

(* What the foreign keys and the UNIQUE constraints keep.                  *)
Sound(t) == \A x \in Born(t) : Fits(t, x, t[x])

ASSUME HierarchyAssumption ==
  /\ Level \in [Item -> 1..6]
  /\ Path \in [1..5 -> Slug]
  /\ Tables \subseteq [Item -> Row \cup {Unborn}]
  /\ \A t \in Tables : Sound(t)
  /\ Root \notin Item \cup Request
  /\ Unborn \notin Row
  /\ MaxEdits \in Nat

(* The answer 404, which is not a set of items.                            *)
NotFound == {Root}

VARIABLES
  row,      \* the six tables; open: is_published, and of a note also that it
            \* is not archived and not deleted
  edits,    \* edits made so far
  request,  \* the page a visitor asked for; a gallery, by {chapterID}
  query,    \* the query its request runs next
  found,    \* the row the last query returned, as a set
  shown,    \* what the page lists
  answers,  \* history: what the page would have listed, at each instant of the
            \* request
  touched,  \* history: levels edited during the request
  kinds,    \* history: the kinds of these edits
  failed    \* history: one of the request's queries ended in an error

vars == <<row, edits, request, query, found, shown, answers, touched, kinds, failed>>

TypeOK ==
  /\ row \in [Item -> Row \cup {Unborn}]
  /\ Sound(row)
  /\ edits \in 0..MaxEdits
  /\ request \in [Visitor -> Request \cup {Root}]
  /\ query \in [Visitor -> 0..6]
  /\ found \in [Visitor -> SUBSET (Item \cup {Root})]
  /\ shown \in [Visitor -> (SUBSET Item) \cup {NotFound}]
  /\ answers \in [Visitor -> Seq((SUBSET Item) \cup {NotFound})]
  /\ touched \in [Visitor -> SUBSET (1..6)]
  /\ kinds \in [Visitor -> SUBSET {"hide", "show", "other"}]
  /\ failed \in [Visitor -> BOOLEAN]

-----------------------------------------------------------------------------
(* The queries.                                                            *)

(* The queries of a page, each the levels it joins.  The last one lists,   *)
(* the others find one row.                                                *)
PublishedSemestersByClassSlug == <<1..1, 2..2>>
findPublishedClassSemester == <<1..2>>
PublishedSubjects == findPublishedClassSemester \o <<3..3>>
PublishedUnits == PublishedSubjects \o <<4..4>>
PublishedChapters == PublishedUnits \o <<5..5>>
PublishedNotes == PublishedChapters \o <<6..6>>
PublishedImageGalleryNotesByChapterID == <<1..5, 6..6>>

Queries(p) ==
  CASE p = "Semesters" -> PublishedSemestersByClassSlug
    [] p = "Subjects"  -> PublishedSubjects
    [] p = "Units"     -> PublishedUnits
    [] p = "Chapters"  -> PublishedChapters
    [] p = "Notes"     -> PublishedNotes
    [] p = "GalleryChapter" -> PublishedImageGalleryNotesByChapterID

(* The ancestor of x in the table of level l.                              *)
Up(t, x, l) ==
  LET up[n \in 0..5] == IF n = 0 THEN x ELSE t[up[n - 1]].parent
  IN up[Level[x] - l]

(* Mutant: in a join, only the row itself is asked for is_published.       *)
OpenAlong_Last(t, x, levels) == t[x].open

(* AND is_published = TRUE, of every table of the query.                   *)
OpenAlong(t, x, levels) == \A l \in levels : t[Up(t, x, l)].open

(* Mutant: the children of any row are listed.                             *)
Below_Any(t, parents, levels) ==
  {x \in Born(t) : Level[x] = Max(levels) /\ OpenAlong(t, x, levels)}

(* The rows of a query, below what the query before it found.              *)
Below(t, parents, levels) ==
  {x \in Born(t) : /\ Level[x] = Max(levels)
                   /\ OpenAlong(t, x, levels)
                   /\ t[Up(t, x, Min(levels))].parent \in parents}

(* The row asked for, by the slugs of the URL or by the id of the chapter. *)
Asked(t, x, req, levels) ==
  IF req.page = "GalleryChapter"
    THEN x = req.chapter
    ELSE \A l \in levels : t[Up(t, x, l)].slug = Path[l]

(* A gallery without photos is a 404, like a row that is not found.        *)
Listing(req, xs) ==
  IF req.page = "GalleryChapter" /\ xs = {} THEN NotFound ELSE xs

(* What the page should list, the tables being as they are: the published  *)
(* rows below the row asked for, which has to be published with all the    *)
(* rows above it.                                                          *)
Answer(t, req) ==
  LET depth == Max(Last(Queries(req.page)))
      Public(x) == \A l \in 1..Level[x] : t[Up(t, x, l)].open
      above == {x \in Born(t) : /\ Level[x] = depth - 1
                                /\ Public(x)
                                /\ Asked(t, x, req, 1..Level[x])}
      below == {x \in Born(t) : Public(x) /\ t[x].parent \in above}
  IN IF above = {} THEN NotFound ELSE Listing(req, below)

-----------------------------------------------------------------------------
Init ==
  /\ row \in Tables
  /\ edits = 0
  /\ request = [v \in Visitor |-> Root]
  /\ query = [v \in Visitor |-> 0]
  /\ found = [v \in Visitor |-> {}]
  /\ shown = [v \in Visitor |-> {}]
  /\ answers = [v \in Visitor |-> <<>>]
  /\ touched = [v \in Visitor |-> {}]
  /\ kinds = [v \in Visitor |-> {}]
  /\ failed = [v \in Visitor |-> FALSE]

Underway(v) == query[v] # 0

Answered(v) == request[v] # Root /\ ~Underway(v)

(* A request for a page comes in.                                          *)
Ask(v) ==
  /\ request[v] = Root
  /\ \E p \in Page, c \in {x \in Item : Level[x] = 5} :
       LET req == [page |-> p, chapter |-> IF p = "GalleryChapter" THEN c ELSE Root]
       IN /\ request' = [request EXCEPT ![v] = req]
          /\ answers' = [answers EXCEPT ![v] = <<Answer(row, req)>>]
  /\ query' = [query EXCEPT ![v] = 1]
  /\ found' = [found EXCEPT ![v] = {Root}]
  /\ UNCHANGED <<row, edits, shown, touched, kinds, failed>>

Reply(v, page) ==
  /\ shown' = [shown EXCEPT ![v] = page]
  /\ query' = [query EXCEPT ![v] = 0]
  /\ found' = [found EXCEPT ![v] = {}]

(* Mutant: the error of a query is dropped, and the page lists nothing.    *)
Fail_Blank(v) ==
  /\ Reply(v, {})
  /\ failed' = [failed EXCEPT ![v] = TRUE]

(* Any query may end in an error of the database or at the deadline of the *)
(* request.  The handlers log it and answer as if the row were not there.  *)
Fail(v) ==
  /\ Reply(v, NotFound)
  /\ failed' = [failed EXCEPT ![v] = TRUE]

(* One row is looked up on the way down.                                   *)
FindRow(v) ==
  /\ Underway(v)
  /\ LET qs == Queries(request[v].page)
         levels == qs[query[v]]
         rows == {x \in Below(row, found[v], levels) :
                    Asked(row, x, request[v], levels)}
     IN /\ query[v] < Len(qs)
        /\ \/ Fail(v)
           \/ rows = {} /\ Reply(v, NotFound) /\ UNCHANGED failed
           \/ /\ rows # {}
              /\ found' = [found EXCEPT ![v] = rows]
              /\ query' = [query EXCEPT ![v] = @ + 1]
              /\ UNCHANGED <<shown, failed>>
  /\ UNCHANGED <<row, edits, request, answers, touched, kinds>>

(* The last query lists the rows below it.                                 *)
ListRows(v) ==
  /\ Underway(v)
  /\ LET qs == Queries(request[v].page)
     IN /\ query[v] = Len(qs)
        /\ \/ Fail(v)
           \/ /\ Reply(v, Listing(request[v], Below(row, found[v], Last(qs))))
              /\ UNCHANGED failed
  /\ UNCHANGED <<row, edits, request, answers, touched, kinds>>

-----------------------------------------------------------------------------
(* The admins' statements.                                                 *)

Kind(x, new) ==
  IF row[x] = Unborn THEN "show"
  ELSE IF new = [row[x] EXCEPT !.open = FALSE] THEN "hide"
  ELSE IF new = [row[x] EXCEPT !.open = TRUE] THEN "show" ELSE "other"

(* Mutant: no UNIQUE constraint, no foreign key.                           *)
Save_Unchecked(x, new) ==
  /\ edits < MaxEdits
  /\ new # row[x]
  /\ row' = [row EXCEPT ![x] = new]
  /\ edits' = edits + 1
  /\ UNCHANGED <<request, query, found, shown, answers, touched, kinds, failed>>

(* One statement writes one row.  History: what every request under way    *)
(* would list now.                                                         *)
Save(x, new) ==
  /\ edits < MaxEdits
  /\ new # row[x]
  /\ Fits(row, x, new)
  /\ row' = [row EXCEPT ![x] = new]
  /\ edits' = edits + 1
  /\ UNCHANGED <<request, query, found, shown, failed>>
  /\ answers' = [v \in Visitor |->
       IF Underway(v) THEN Append(answers[v], Answer(row', request[v])) ELSE answers[v]]
  /\ touched' = [v \in Visitor |->
       IF Underway(v) THEN touched[v] \cup {Level[x]} ELSE touched[v]]
  /\ kinds' = [v \in Visitor |->
       IF Underway(v) THEN kinds[v] \cup {Kind(x, new)} ELSE kinds[v]]

(* INSERT, of the Create functions of the repositories.                    *)
Create(x) ==
  /\ row[x] = Unborn
  /\ \E new \in Row : Save(x, new)

(* UPDATE, of the Update functions, and of the archiving and deletion of   *)
(* notes.  A row may move to another parent.                               *)
Update(x) ==
  /\ row[x] # Unborn
  /\ \E new \in Row : Save(x, new)

Next ==
  \/ \E v \in Visitor : Ask(v) \/ FindRow(v) \/ ListRows(v)
  \/ \E x \in Item : Create(x) \/ Update(x)

Spec == Init /\ [][Next]_vars

-----------------------------------------------------------------------------
Rows(answer) == IF answer = NotFound THEN {} ELSE answer

(* Edits during a request that all fall on tables of one query of the page *)
(* leave the page as it was at some instant of the request, although the   *)
(* queries see different snapshots: in particular a single edit does.  A   *)
(* request one of whose queries failed is told that the page is not there, *)
(* which need not be so; it is never shown part of it.                     *)
OneTableLooksAtomic ==
  \A v \in Visitor : Answered(v) =>
    LET qs == Queries(request[v].page)
        read == UNION Range(qs)
    IN (\E i \in 1..Len(qs) : touched[v] \cap read \subseteq qs[i])
         => \/ shown[v] \in Range(answers[v])
            \/ failed[v] /\ shown[v] = NotFound

(* However many tables are edited: while rows are only hidden, a page      *)
(* lists nothing that was hidden when it was asked for, and, unless one of *)
(* its queries failed, everything still public when it is answered; while  *)
(* rows are only published or added, the other way round.                  *)
HidingHidesShowingShows ==
  \A v \in Visitor : Answered(v) =>
    LET first == Rows(Head(answers[v]))
        last == Rows(Last(answers[v]))
    IN /\ kinds[v] \subseteq {"hide"} =>
            /\ Rows(shown[v]) \subseteq first
            /\ ~failed[v] => last \subseteq Rows(shown[v])
       /\ kinds[v] \subseteq {"show"} =>
            /\ Rows(shown[v]) \subseteq last
            /\ ~failed[v] => first \subseteq Rows(shown[v])
=============================================================================
