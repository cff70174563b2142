------------------------------- MODULE Paging -------------------------------
(***************************************************************************)
(* The lists shown page by page: the public search, the admins' list of    *)
(* notes, and the audit log.  The three handlers share one algorithm       *)
(* (internal/handlers/public_notes.go, admin_notes.go, admin_audit.go), as *)
(* do the three queries below them: a COUNT and a SELECT ... LIMIT OFFSET, *)
(* each with a snapshot of its own, while rows come and go.                *)
(*                                                                         *)
(* What matches is a set of rows; where a row stands in the order of the   *)
(* list is its number.  Page numbers are machine integers of Word values.  *)
(***************************************************************************)
EXTENDS Integers, FiniteSets

CONSTANTS
  Entry,    \* rows that may match, numbered in the order of the list
  Reader,   \* one browser each
  MaxRows,  \* the largest per_page
  Word,     \* 2^64 in the code
  MaxEdits  \* bound on the rows that come and go

MaxInt == Word \div 2 - 1

ASSUME PagingAssumption ==
  /\ Entry \subseteq Nat /\ IsFiniteSet(Entry)
  /\ MaxRows \in Nat \ {0}
  /\ Word \in Nat /\ Word % 2 = 0
  /\ Cardinality(Entry) + MaxRows <= MaxInt
  /\ MaxEdits \in Nat

VARIABLES
  present,  \* the rows that match
  edits,    \* how many came or went
  at,       \* the statement each request executes next
  page, perPage, offset,  \* locals of the handler
  pages,    \* totalPages
  total,    \* TotalCount, of the last COUNT
  shown,    \* the rows of the last SELECT
  asked,    \* history: the page number of the request
  came, went, \* history: rows that came and went during the request
  review    \* history of a reader that began on page 1 and follows Next:
            \* rows there all the time, rows seen, and how many went

request == <<page, perPage, offset, pages, total, shown, asked>>
vars == <<present, edits, at, request, came, went, review>>

TypeOK ==
  /\ present \subseteq Entry
  /\ edits \in 0..MaxEdits
  /\ at \in [Reader -> {"idle", "count", "list", "recount", "relist", "shown"}]
  /\ page \in [Reader -> 0..MaxInt]
  /\ perPage \in [Reader -> 0..MaxRows]
  /\ offset \in [Reader -> -(Word \div 2)..MaxInt]
  /\ pages \in [Reader -> 0..MaxInt]
  /\ total \in [Reader -> 0..Cardinality(Entry)]
  /\ shown \in [Reader -> SUBSET Entry]
  /\ asked \in [Reader -> 0..MaxInt]
  /\ came \in [Reader -> Nat]
  /\ went \in [Reader -> Nat]
  /\ review \in [Reader -> [on : BOOLEAN, stayed : SUBSET Entry,
                            seen : SUBSET Entry, went : Nat]]

-----------------------------------------------------------------------------
(* Arithmetic of the handlers.                                             *)

(* Two's complement.                                                       *)
Wrap(i) == ((i + Word \div 2) % Word) - Word \div 2

(* (page - 1) * perPage                                                    *)
Offset(p, n) == Wrap((p - 1) * n)

(* Mutant: no limit on the rows of a page.                                 *)
Capped_Not(n) == n

(* if perPage > 100 { perPage = 100 }                                      *)
Capped(n) == IF n > MaxRows THEN MaxRows ELSE n

(* Mutant: one page more when the last one is full.                        *)
Pages_Floor(count, n) == count \div n + 1

(* (TotalCount + perPage - 1) / perPage, and 0 for nothing.                *)
Pages(count, n) == IF count = 0 THEN 0 ELSE (count + n - 1) \div n

(* ORDER BY ... LIMIT n OFFSET from; the repository turns a negative       *)
(* offset into 0.                                                          *)
Slice(from, n) ==
  LET start == IF from < 0 THEN 0 ELSE from
      Before(e) == Cardinality({d \in present : d < e})
  IN {e \in present : start <= Before(e) /\ Before(e) < start + n}

-----------------------------------------------------------------------------
Init ==
  /\ present \in SUBSET Entry
  /\ edits = 0
  /\ at = [r \in Reader |-> "idle"]
  /\ page = [r \in Reader |-> 0]
  /\ perPage = [r \in Reader |-> 0]
  /\ offset = [r \in Reader |-> 0]
  /\ pages = [r \in Reader |-> 0]
  /\ total = [r \in Reader |-> 0]
  /\ shown = [r \in Reader |-> {}]
  /\ asked = [r \in Reader |-> 0]
  /\ came = [r \in Reader |-> 0]
  /\ went = [r \in Reader |-> 0]
  /\ review = [r \in Reader |->
                 [on |-> FALSE, stayed |-> {}, seen |-> {}, went |-> 0]]

(* A request for page p with n rows; pages starts at 0.                    *)
Request(r, p, n) ==
  /\ page' = [page EXCEPT ![r] = p]
  /\ asked' = [asked EXCEPT ![r] = p]
  /\ perPage' = [perPage EXCEPT ![r] = n]
  /\ offset' = [offset EXCEPT ![r] = Offset(p, n)]
  /\ pages' = [pages EXCEPT ![r] = 0]
  /\ at' = [at EXCEPT ![r] = "count"]
  /\ came' = [came EXCEPT ![r] = 0]
  /\ went' = [went EXCEPT ![r] = 0]
  /\ UNCHANGED <<present, edits, total, shown>>

(* Any URL.  parsePositiveInt turns everything else into the default.      *)
Open(r) ==
  /\ at[r] = "idle"
  /\ \E p \in 1..MaxInt, n \in 1..MaxInt :
       /\ Request(r, p, Capped(n))
       /\ review' = [review EXCEPT ![r] =
                       [on |-> p = 1, stayed |-> present, seen |-> {}, went |-> 0]]

(* Mutant: off by one.                                                     *)
HasNext_Short(r) == page[r] + 1 < pages[r]

HasNext(r) == page[r] < pages[r]

(* NextURL.                                                                *)
FollowNext(r) ==
  /\ at[r] = "shown"
  /\ HasNext(r)
  /\ Request(r, page[r] + 1, perPage[r])
  /\ UNCHANGED review

(* SELECT COUNT( * ).                                                      *)
Count(r) ==
  /\ \/ at[r] = "count" /\ at' = [at EXCEPT ![r] = "list"]
     \/ at[r] = "recount" /\ at' = [at EXCEPT ![r] = "relist"]
  /\ total' = [total EXCEPT ![r] = Cardinality(present)]
  /\ UNCHANGED <<present, edits, page, perPage, offset, pages, shown, asked,
                 came, went, review>>

Show(r) ==
  /\ at' = [at EXCEPT ![r] = "shown"]
  /\ shown' = [shown EXCEPT ![r] = Slice(offset[r], perPage[r])]
  /\ review' = [review EXCEPT ![r].seen = @ \cup shown'[r]]

(* Mutant: a page beyond the last one is shown as it is.                   *)
List_Uncorrected(r) ==
  /\ at[r] = "list"
  /\ pages' = [pages EXCEPT ![r] = Pages(total[r], perPage[r])]
  /\ Show(r)
  /\ UNCHANGED <<present, edits, perPage, total, asked, came, went, page, offset>>

(* The page; when it is beyond the last one, the last one is asked for.    *)
List(r) ==
  /\ at[r] = "list"
  /\ LET last == Pages(total[r], perPage[r])
     IN /\ pages' = [pages EXCEPT ![r] = last]
        /\ IF last > 0 /\ page[r] > last
             THEN /\ page' = [page EXCEPT ![r] = last]
                  /\ offset' = [offset EXCEPT ![r] = Offset(last, perPage[r])]
                  /\ at' = [at EXCEPT ![r] = "recount"]
                  /\ UNCHANGED <<shown, review>>
             ELSE Show(r) /\ UNCHANGED <<page, offset>>
  /\ UNCHANGED <<present, edits, perPage, total, asked, came, went>>

(* The corrected page: totalPages is not computed again.                   *)
Relist(r) ==
  /\ at[r] = "relist"
  /\ Show(r)
  /\ UNCHANGED <<present, edits, page, perPage, offset, pages, total, asked,
                 came, went>>

InRequest(r) == at[r] \notin {"idle", "shown"}

(* A row that matches is added, or a row comes to match.                   *)
Come(e) ==
  /\ edits < MaxEdits
  /\ e \notin present
  /\ present' = present \cup {e}
  /\ edits' = edits + 1
  /\ came' = [r \in Reader |-> IF InRequest(r) THEN came[r] + 1 ELSE came[r]]
  /\ UNCHANGED <<at, request, went, review>>

(* A row is deleted, or matches no more.                                   *)
Go(e) ==
  /\ edits < MaxEdits
  /\ e \in present
  /\ present' = present \ {e}
  /\ edits' = edits + 1
  /\ went' = [r \in Reader |-> IF InRequest(r) THEN went[r] + 1 ELSE went[r]]
  /\ review' = [r \in Reader |->
       [review[r] EXCEPT !.stayed = @ \ {e}, !.went = @ + 1]]
  /\ UNCHANGED <<at, request, came>>

Next ==
  \/ \E r \in Reader :
       Open(r) \/ FollowNext(r) \/ Count(r) \/ List(r) \/ Relist(r)
  \/ \E e \in Entry : Come(e) \/ Go(e)

Spec == Init /\ [][Next]_vars

-----------------------------------------------------------------------------
(* Whatever page number is asked for, the product that overflows included: *)
(* unless the list changes during the request, the answer is that page, or *)
(* the last one if there are fewer, and the reader is told so.             *)
PageAsAsked ==
  [][\A r \in Reader :
       at[r] # "shown" /\ at'[r] = "shown" /\ came[r] = 0 /\ went[r] = 0 =>
         LET PageOf(e) ==
               Cardinality({d \in present : d < e}) \div perPage[r] + 1
             last == Cardinality({PageOf(e) : e \in present})
         IN /\ pages'[r] = last
            /\ last > 0 => page'[r] = IF asked[r] < last THEN asked[r] ELSE last
            /\ shown'[r] = {e \in present : PageOf(e) = page'[r]}]_vars

(* A list that has rows never shows a page without rows, unless rows went  *)
(* during the request.                                                     *)
NoBlankPage ==
  \A r \in Reader :
    at[r] = "shown" /\ total[r] > 0 /\ went[r] = 0 => shown[r] # {}

(* Who begins on page 1 and follows Next to the end has seen every row     *)
(* that was there all the time, but for one at most per row that went      *)
(* meanwhile, and one per row that came between the queries of the last    *)
(* page.                                                                   *)
ReviewMissesLittle ==
  \A r \in Reader : at[r] = "shown" /\ review[r].on /\ ~HasNext(r) =>
    Cardinality(review[r].stayed \ review[r].seen) <= review[r].went + came[r]
=============================================================================
