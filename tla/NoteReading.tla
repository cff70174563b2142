----------------------------- MODULE NoteReading -----------------------------
(***************************************************************************)
(* Reading a note while the admins work: GET /notes/{noteID}/view and the  *)
(* pages that find notes by one query (internal/handlers/public_notes.go:  *)
(* home, search, gallery of a subject), the signer of file links           *)
(* (internal/fileproxy) and the Cloudflare worker that redeems them        *)
(* (workers/file-proxy), on top of the notes table, the bucket and the     *)
(* admin requests of NoteFiles.  Pages that walk down the hierarchy with a *)
(* query per level are the subject of PublicBrowse.                        *)
(*                                                                         *)
(* A link names a storage key and an expiry, nothing else: the worker      *)
(* knows the bucket but not the table.  The clocks of the server and the   *)
(* worker are one clock, in whole units as both count them.                *)
(***************************************************************************)
EXTENDS NoteFiles

CONSTANTS
  Viewer,        \* one visitor's request and the browser behind it
  LinkTTL,       \* FILE_PROXY_URL_TTL_SECONDS
  WriteTimeout,  \* http.Server's, counted from the request
  Horizon        \* bound on the clock

ASSUME ReadingAssumption ==
  /\ LinkTTL \in Nat \ {0}   \* NewSigner refuses ttl <= 0
  /\ WriteTimeout \in Nat
  /\ Horizon \in Nat
  /\ Nothing \notin Nat

VARIABLES
  clock,
  shown,    \* places whose chapter, unit, subject, semester and class are all
            \* published
  views,    \* view_count of each note
  vpc,      \* where each viewer is
  viewed,   \* noteItem: the note it looked up, its storage key, and when
  link,     \* the link it was given
  fetched,  \* what the worker last answered
  lastSeen  \* history: when each key was last the file of a visible note

readVars == <<views, vpc, viewed, link, fetched>>
allVars == <<vars, clock, shown, readVars, lastSeen>>

ReadingTypeOK ==
  /\ clock \in 0..Horizon
  /\ shown \subseteq Place
  /\ views \in [Note -> Nat]
  /\ vpc \in [Viewer -> {"idle", "count", "sign", "redirect", "browse", "done"}]
  /\ viewed \in [Viewer -> [note : Note, key : Key, at : 0..clock] \cup {Nothing}]
  /\ link \in [Viewer -> [key : Key, exp : Nat] \cup {Nothing}]
  /\ fetched \in [Viewer -> {"none", "expired", "missing", "served"}]
  /\ lastSeen \in [Key -> 0..clock \cup {Nothing}]

-----------------------------------------------------------------------------
(* The WHERE clause of PublishedNoteByID.                                  *)
Visible(n) ==
  Exists(n) /\ row[n].published /\ ~row[n].archived /\ row[n].place \in shown

OnDisplay(k) == \E n \in Note : Visible(n) /\ row[n].key = k

(* History, in every step: a key on display before or after it is seen.    *)
Notice ==
  lastSeen' = [k \in Key |-> IF OnDisplay(k) \/ OnDisplay(k)' THEN clock'
                                                            ELSE lastSeen[k]]

ReadingInit ==
  /\ Init
  /\ clock = 0
  /\ shown \in SUBSET Place
  /\ views = [n \in Note |-> 0]
  /\ vpc = [v \in Viewer |-> "idle"]
  /\ viewed = [v \in Viewer |-> Nothing]
  /\ link = [v \in Viewer |-> Nothing]
  /\ fetched = [v \in Viewer |-> "none"]
  /\ lastSeen = [k \in Key |-> IF OnDisplay(k) THEN 0 ELSE Nothing]

Turn(v, s) == vpc' = [vpc EXCEPT ![v] = s]

(* One query finds a visible note: ViewNote goes on to count the view, the *)
(* other pages sign the link at once.  Any other id is a 404.              *)
Look(v) ==
  /\ vpc[v] = "idle"
  /\ \E n \in Note :
       \/ /\ Visible(n)
          /\ viewed' = [viewed EXCEPT ![v] =
                          [note |-> n, key |-> row[n].key, at |-> clock]]
          /\ \E s \in {"count", "sign"} : Turn(v, s)
       \/ /\ ~Visible(n)
          /\ Turn(v, "done")
          /\ UNCHANGED viewed
  /\ UNCHANGED <<views, link, fetched>>

(* IncrementViewCount, one UPDATE; its error is only logged, be it that    *)
(* the note is gone by now.                                                *)
CountView(v) ==
  /\ vpc[v] = "count"
  /\ LET n == viewed[v].note
     IN \/ /\ Exists(n)
           /\ views' = [views EXCEPT ![n] = @ + 1]
        \/ /\ ~Exists(n) \/ "db" \in Fault
           /\ UNCHANGED views
  /\ Turn(v, "sign")
  /\ UNCHANGED <<viewed, link, fetched>>

(* Mutant: the key is missing from the columns of the query.               *)
Sign_NoKey(v) ==
  /\ vpc[v] = "sign"
  /\ link' = [link EXCEPT ![v] = [key |-> Nothing, exp |-> clock + LinkTTL]]
  /\ Turn(v, "redirect")
  /\ UNCHANGED <<views, viewed, fetched>>

(* SignedFileURL of the key that was looked up.                            *)
Sign(v) ==
  /\ vpc[v] = "sign"
  /\ link' = [link EXCEPT ![v] =
                [key |-> viewed[v].key, exp |-> clock + LinkTTL]]
  /\ Turn(v, "redirect")
  /\ UNCHANGED <<views, viewed, fetched>>

(* The answer reaches the browser unless the write deadline has passed.    *)
Respond(v) ==
  /\ vpc[v] = "redirect"
  /\ Turn(v, IF clock - viewed[v].at <= WriteTimeout THEN "browse" ELSE "done")
  /\ UNCHANGED <<views, viewed, link, fetched>>

(* Mutant: a link is good for as long as its object exists.                *)
Redeem_NoExpiry(l) == IF l.key \in bucket THEN "served" ELSE "missing"

(* Mutant: a link is no longer good in its last unit of time.              *)
Redeem_Early(l) ==
  IF l.exp <= clock THEN "expired"
  ELSE IF l.key \in bucket THEN "served" ELSE "missing"

(* The worker on a link of the signer: expiry first, then the bucket.      *)
Redeem(l) ==
  IF l.exp < clock THEN "expired"
  ELSE IF l.key \in bucket THEN "served" ELSE "missing"

(* The browser follows the link, or loads it again.                        *)
Fetch(v) ==
  /\ vpc[v] = "browse"
  /\ fetched' = [fetched EXCEPT ![v] = Redeem(link[v])]
  /\ UNCHANGED <<views, vpc, viewed, link>>

(* A class, semester, subject, unit or chapter is edited.                  *)
Curate ==
  /\ shown' \in SUBSET Place
  /\ UNCHANGED <<clock, readVars>>

Tick ==
  /\ clock < Horizon
  /\ clock' = clock + 1
  /\ UNCHANGED <<shown, readVars>>

Read(v) ==
  /\ \/ Look(v) \/ CountView(v) \/ Sign(v) \/ Respond(v) \/ Fetch(v)
  /\ UNCHANGED <<clock, shown>>

ReadingNext ==
  /\ \/ Next /\ UNCHANGED <<clock, shown, readVars>>
     \/ UNCHANGED vars /\ (Curate \/ Tick \/ \E v \in Viewer : Read(v))
  /\ Notice

ReadingSpec == ReadingInit /\ [][ReadingNext]_allVars

-----------------------------------------------------------------------------
(* Whatever the worker serves was the file of a visible note not long ago: *)
(* a link of such a page dies WriteTimeout + LinkTTL after the note was    *)
(* hidden, archived, deleted, or given another file, even if the page was  *)
(* under way then.                                                         *)
LinksDie ==
  [][\A v \in Viewer :
       fetched'[v] = "served" /\ Fetch(v) =>
         /\ lastSeen[link[v].key] # Nothing
         /\ clock <= lastSeen[link[v].key] + WriteTimeout + LinkTTL]_allVars

(* A request took the file k from its note, by deleting the note or by     *)
(* giving it another file; or a statement about it committed unseen.       *)
TakenAway(k) ==
  \/ \E r \in Request : oldKey[r] = k /\ wrote[r] # {}
  \/ "commitUnknown" \in mishap[k]

(* Until LinkTTL after the note was looked up, the link of the page works, *)
(* however long the page took: it has not expired, and the file is there   *)
(* unless an admin's request took it from its note since.  Archiving or    *)
(* hiding the note, edits, clean-ups of failed uploads and the deletions   *)
(* of other requests leave the file alone.                                 *)
LinksServe ==
  [][\A v \in Viewer :
       Fetch(v) /\ clock <= viewed[v].at + LinkTTL =>
         \/ fetched'[v] = "served"
         \/ fetched'[v] = "missing" /\ TakenAway(viewed[v].key)]_allVars
=============================================================================
