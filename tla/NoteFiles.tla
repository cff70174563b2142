------------------------------ MODULE NoteFiles ------------------------------
(***************************************************************************)
(* The admin note handlers (internal/handlers/admin_notes.go) working on   *)
(* two stores that share no transaction: the notes table of PostgreSQL     *)
(* (internal/academic/note_repository.go) and the R2 bucket that holds the *)
(* files (internal/storage/r2.go).                                         *)
(*                                                                         *)
(* A request is one goroutine running one handler once.  Every SQL         *)
(* statement and every R2 call is one step; anything may happen between    *)
(* two steps of a request.  A call may fail without effect, or take effect *)
(* and still return an error (connection lost after the commit, context    *)
(* cancelled while the reply was on its way).                              *)
(***************************************************************************)
EXTENDS Naturals, FiniteSets

CONSTANTS
  Request,    \* requests to the admin note handlers
  Note,       \* primary keys the database may hand out (gen_random_uuid)
  Key,        \* storage keys; each contains a fresh uuid
  Place,      \* pairs of chapter_id and slug, unique in the notes table
  Serves,     \* Serves[r]: the handlers request r may be routed to
  Fault,      \* what may go wrong, a subset of FaultKind
  MaxImages,  \* images in one ZIP (uploads.MaxZipImageFiles)
  Unborn,     \* the row of an id not handed out yet
  Gone,       \* the row of a deleted note
  Nothing     \* the zero value of a key or an id

Op == {"Store", "StoreZip", "Update", "Archive", "Unarchive",
       "DeleteArchived", "ReplaceFile"}

FaultKind == {"db", "dbAck", "r2", "r2Ack", "crash"}

Row == [key : Key, place : Place, published : BOOLEAN, archived : BOOLEAN]

ASSUME ServesAssumption == Serves \in [Request -> SUBSET Op]
ASSUME FaultAssumption == Fault \subseteq FaultKind
ASSUME MaxImagesAssumption == MaxImages \in Nat \ {0}
ASSUME NullAssumption ==
  /\ Unborn \notin Row
  /\ Gone \notin Row
  /\ Unborn # Gone
  /\ Nothing \notin Key
  /\ Nothing \notin Note
  /\ Nothing \notin Op

VARIABLES
  row,      \* the notes table
  audit,    \* admin_audit_logs: which request logged which action
  bucket,   \* keys of the objects in R2
  minted,   \* keys generated so far
  mishap,   \* history: what went wrong with each key
  pc,       \* the statement each request executes next
  op,       \* the handler it runs
  note,     \* {noteID} of its URL
  newKey,   \* storageKey
  oldKey,   \* existingNote.StorageKey, deletedNote.StorageKey
  wrote,    \* history: notes whose row the request changed
  reply     \* what the request told the admin

dbVars == <<row, audit>>
r2Vars == <<bucket, minted, mishap>>
jobVars == <<op, note>>
keyVars == <<newKey, oldKey>>
vars == <<row, audit, bucket, minted, mishap, pc, op, note, newKey, oldKey,
          wrote, reply>>

Mishap == {"putFailed", "deleteFailed", "commitUnknown", "overtaken"}

Step == {"idle", "upload", "insert", "insertCopy", "cleanup", "find",
         "updateFile", "deleteOld", "update", "archive", "unarchive",
         "deleteRow", "deleteObject", "audit", "done", "crashed"}

Reply == {"none", "invalid", "saved", "replaced", "deleted", "notFound",
          "titleTaken", "failed", "cleanedUp", "cleanupFailed"}

(* The answers that say the request was not carried out.                   *)
Errors == {"invalid", "notFound", "titleTaken", "failed", "cleanedUp"}

(* Shapes only.  The rows are what the table's columns and NOT NULL        *)
(* constraints allow; the rest is the Go types of the handlers' locals.    *)
TypeOK ==
  /\ row \in [Note -> Row \cup {Unborn, Gone}]
  /\ audit \subseteq Request \X Op
  /\ bucket \subseteq Key
  /\ minted \subseteq Key
  /\ mishap \in [Key -> SUBSET Mishap]
  /\ pc \in [Request -> Step]
  /\ op \in [Request -> Op \cup {Nothing}]
  /\ note \in [Request -> Note \cup {Nothing}]
  /\ newKey \in [Request -> Key \cup {Nothing}]
  /\ oldKey \in [Request -> Key \cup {Nothing}]
  /\ wrote \in [Request -> SUBSET Note]
  /\ reply \in [Request -> Reply]

-----------------------------------------------------------------------------
(* The tables.                                                             *)

Exists(n) == row[n] \notin {Unborn, Gone}

Rows == {n \in Note : Exists(n)}

Referenced(k) == \E n \in Rows : row[n].key = k

(* UNIQUE (chapter_id, slug): p is free for the row of n.                  *)
Free(p, n) == \A m \in Rows \ {n} : row[m].place # p

(* The server starts on any table a former run left without mishap.        *)
Init ==
  /\ row \in [Note -> Row \cup {Unborn}]
  /\ \A m, n \in Rows : m # n => /\ row[m].key # row[n].key
                                 /\ row[m].place # row[n].place
  /\ audit = {}
  /\ bucket = {row[n].key : n \in Rows}
  /\ minted = bucket
  /\ mishap = [k \in Key |-> {}]
  /\ pc = [r \in Request |-> "idle"]
  /\ op = [r \in Request |-> Nothing]
  /\ note = [r \in Request |-> Nothing]
  /\ newKey = [r \in Request |-> Nothing]
  /\ oldKey = [r \in Request |-> Nothing]
  /\ wrote = [r \in Request |-> {}]
  /\ reply = [r \in Request |-> "none"]

-----------------------------------------------------------------------------
(* Control flow shared by the handlers.                                    *)

Goto(r, s) == pc' = [pc EXCEPT ![r] = s]

Tell(r, msg) == reply' = [reply EXCEPT ![r] = msg]

Return(r, msg) == Goto(r, "done") /\ Tell(r, msg)

Wrote(r, n) == wrote' = [wrote EXCEPT ![r] = @ \cup {n}]

Blame(k, what) == mishap' = [mishap EXCEPT ![k] = @ \cup {what}]

FirstStep(o) ==
  CASE o \in {"Store", "StoreZip"} -> "upload"
    [] o = "Update"         -> "update"
    [] o = "Archive"        -> "archive"
    [] o = "Unarchive"      -> "unarchive"
    [] o = "DeleteArchived" -> "deleteRow"
    [] o = "ReplaceFile"    -> "find"

(* The router hands the request to a handler.  A {noteID} comes from a     *)
(* page the admin was shown, so the id was handed out once.                *)
Start(r) ==
  /\ pc[r] = "idle"
  /\ \E o \in Serves[r] :
       /\ op' = [op EXCEPT ![r] = o]
       /\ Goto(r, FirstStep(o))
       /\ IF o \in {"Store", "StoreZip"}
            THEN UNCHANGED note
            ELSE \E n \in Note : /\ row[n] # Unborn
                                 /\ note' = [note EXCEPT ![r] = n]
  /\ UNCHANGED <<dbVars, r2Vars, keyVars, wrote, reply>>

(* Every early return before the handler's next upload: form, file or ZIP  *)
(* rejected, session without admin_id, PDF that cannot be watermarked.     *)
Reject(r) ==
  /\ pc[r] \in {"upload", "update"}
  /\ wrote[r] = {}
  /\ Return(r, "invalid")
  /\ UNCHANGED <<dbVars, r2Vars, jobVars, keyVars, wrote>>

-----------------------------------------------------------------------------
(* The R2 calls.                                                           *)

(* UploadObject under a key minted just before.  On error the handler      *)
(* returns at once: it deletes nothing and logs no key.                    *)
Upload(r) ==
  /\ pc[r] = "upload"
  /\ \E k \in Key \ minted :
       /\ minted' = minted \cup {k}
       /\ newKey' = [newKey EXCEPT ![r] = k]
       /\ \/ /\ bucket' = bucket \cup {k}
             /\ Goto(r, IF op[r] = "ReplaceFile" THEN "updateFile" ELSE "insert")
             /\ UNCHANGED <<mishap, reply>>
          \/ /\ "r2" \in Fault
             /\ Return(r, "failed")
             /\ UNCHANGED <<bucket, mishap>>
          \/ /\ "r2Ack" \in Fault
             /\ bucket' = bucket \cup {k}
             /\ Blame(k, "putFailed")
             /\ Return(r, "failed")
  /\ UNCHANGED <<dbVars, jobVars, oldKey, wrote>>

(* DeleteObject: idempotent, and its error is logged with the key.         *)
DeleteObject(k, erred) ==
  \/ /\ ~erred
     /\ bucket' = bucket \ {k}
     /\ UNCHANGED <<minted, mishap>>
  \/ /\ erred
     /\ \/ "r2" \in Fault /\ UNCHANGED bucket
        \/ "r2Ack" \in Fault /\ bucket' = bucket \ {k}
     /\ Blame(k, "deleteFailed")
     /\ UNCHANGED minted

(* Mutant: the error path returns without deleting the new object.         *)
Cleanup_Skipped(r) ==
  /\ pc[r] = "cleanup"
  /\ Goto(r, "done")
  /\ UNCHANGED <<dbVars, r2Vars, jobVars, keyVars, wrote, reply>>

(* After a metadata error the new object is deleted; what the admin is     *)
(* told was decided by the metadata error, not by the outcome here.        *)
Cleanup(r) ==
  /\ pc[r] = "cleanup"
  /\ \E erred \in BOOLEAN : DeleteObject(newKey[r], erred)
  /\ Goto(r, "done")
  /\ UNCHANGED <<dbVars, jobVars, keyVars, wrote, reply>>

(* Mutant: updatedNote.StorageKey in place of existingNote.StorageKey.     *)
ReplacedKey_Updated(r) == newKey[r]

(* ReplaceFile deletes the file it found at its start.                     *)
ReplacedKey(r) == oldKey[r]

(* When the deletion fails the handler redirects with a flash and writes   *)
(* no audit log.                                                           *)
DeleteOld(r) ==
  /\ pc[r] = "deleteOld"
  /\ \E erred \in BOOLEAN :
       /\ DeleteObject(ReplacedKey(r), erred)
       /\ IF erred THEN Return(r, "cleanupFailed")
                   ELSE Goto(r, "audit") /\ Tell(r, "replaced")
  /\ UNCHANGED <<dbVars, jobVars, keyVars, wrote>>

(* Mutant: the error of the deletion is not looked at.                     *)
DeleteFile_NoCheck(r) ==
  /\ pc[r] = "deleteObject"
  /\ \E erred \in BOOLEAN : DeleteObject(oldKey[r], erred)
  /\ Tell(r, "deleted")
  /\ Goto(r, "audit")
  /\ UNCHANGED <<dbVars, jobVars, keyVars, wrote>>

(* DeleteArchived deletes the file of the row it deleted, and audits       *)
(* whatever the outcome.                                                   *)
DeleteFile(r) ==
  /\ pc[r] = "deleteObject"
  /\ \E erred \in BOOLEAN :
       /\ DeleteObject(oldKey[r], erred)
       /\ Tell(r, IF erred THEN "cleanupFailed" ELSE "deleted")
  /\ Goto(r, "audit")
  /\ UNCHANGED <<dbVars, jobVars, keyVars, wrote>>

-----------------------------------------------------------------------------
(* The SQL statements.                                                     *)

(* The statement fails without effect.                                     *)
DbError(r, next, msg) ==
  /\ "db" \in Fault
  /\ Goto(r, next)
  /\ Tell(r, msg)
  /\ UNCHANGED <<dbVars, r2Vars, jobVars, keyVars, wrote>>

(* Mutant: no return after http.NotFound.                                  *)
NoRow_FallsThrough(r, next) ==
  /\ Goto(r, "audit")
  /\ Tell(r, "notFound")
  /\ UNCHANGED <<dbVars, r2Vars, jobVars, keyVars, wrote>>

(* An UPDATE or DELETE that matches no row.                                *)
NoRow(r, next) ==
  /\ Goto(r, next)
  /\ Tell(r, "notFound")
  /\ UNCHANGED <<dbVars, r2Vars, jobVars, keyVars, wrote>>

(* After an image of a ZIP is stored the loop may have another one.        *)
MoreImages(r) ==
  op[r] = "StoreZip" /\ Cardinality(wrote[r]) + 1 < MaxImages

(* Mutant: CreateNoteParams built without its StorageKey.                  *)
InsertRow_NoKey(r, n, p) ==
  /\ row[n] = Unborn
  /\ Free(p, n)
  /\ \E pub \in BOOLEAN :
       row' = [row EXCEPT ![n] = [key |-> Nothing, place |-> p,
                                  published |-> pub, archived |-> FALSE]]
  /\ Wrote(r, n)
  /\ UNCHANGED audit

(* INSERT INTO notes.                                                      *)
InsertRow(r, n, p) ==
  /\ row[n] = Unborn
  /\ Free(p, n)
  /\ \E pub \in BOOLEAN :
       row' = [row EXCEPT ![n] = [key |-> newKey[r], place |-> p,
                                  published |-> pub, archived |-> FALSE]]
  /\ Wrote(r, n)
  /\ UNCHANGED audit

(* Mutant: try again until the title is free.                              *)
TitleTaken_Again(r) ==
  IF op[r] = "StoreZip"
    THEN Goto(r, IF pc[r] = "insert" THEN "insertCopy" ELSE "insert")
         /\ UNCHANGED reply
    ELSE Goto(r, "cleanup") /\ Tell(r, "titleTaken")

(* A ZIP image whose title is taken is tried once more, with a suffix.     *)
TitleTaken(r) ==
  IF op[r] = "StoreZip" /\ pc[r] = "insert"
    THEN Goto(r, "insertCopy") /\ UNCHANGED reply
    ELSE Goto(r, "cleanup") /\ Tell(r, "titleTaken")

(* NoteRepository.Create.  The suffixed title may have any slug.  Create   *)
(* also fails without fault: a title without slug, an unknown chapter, a   *)
(* sort order beyond INTEGER.                                              *)
Insert(r) ==
  /\ pc[r] \in {"insert", "insertCopy"}
  /\ \/ \E n \in Note, p \in Place :
          /\ InsertRow(r, n, p)
          /\ \/ Goto(r, "audit") /\ Tell(r, "saved") /\ UNCHANGED mishap
             \/ /\ MoreImages(r)
                /\ Goto(r, "upload")
                /\ UNCHANGED <<mishap, reply>>
             \/ /\ "dbAck" \in Fault
                /\ Goto(r, "cleanup")
                /\ Tell(r, "cleanedUp")
                /\ Blame(newKey[r], "commitUnknown")
     \/ /\ \E n \in Note, p \in Place : row[n] = Unborn /\ ~Free(p, n)
        /\ TitleTaken(r)
        /\ UNCHANGED <<dbVars, mishap, wrote>>
     \/ /\ Goto(r, "cleanup")
        /\ Tell(r, "cleanedUp")
        /\ UNCHANGED <<dbVars, mishap, wrote>>
  /\ UNCHANGED <<bucket, minted, jobVars, keyVars>>

(* FindByID at the start of ReplaceFile.                                   *)
Find(r) ==
  /\ pc[r] = "find"
  /\ \/ /\ Exists(note[r])
        /\ oldKey' = [oldKey EXCEPT ![r] = row[note[r]].key]
        /\ Goto(r, "upload")
        /\ UNCHANGED <<dbVars, r2Vars, jobVars, newKey, wrote, reply>>
     \/ ~Exists(note[r]) /\ NoRow(r, "done")
     \/ DbError(r, "done", "failed")

(* UpdateFile: the row takes the new key whatever key it holds by now.     *)
(* History: a key displaced unseen, here or by a commit whose reply is     *)
(* lost, is nobody's to delete.                                            *)
UpdateFile(r) ==
  /\ pc[r] = "updateFile"
  /\ LET n == note[r]
         displaced == row[n].key
     IN \/ /\ Exists(n)
           /\ row' = [row EXCEPT ![n].key = newKey[r]]
           /\ Wrote(r, n)
           /\ \/ /\ Goto(r, "deleteOld")
                 /\ IF displaced = oldKey[r]
                      THEN UNCHANGED mishap
                      ELSE Blame(displaced, "overtaken")
                 /\ UNCHANGED reply
              \/ /\ "dbAck" \in Fault
                 /\ Goto(r, "cleanup")
                 /\ Tell(r, "failed")
                 /\ mishap' = [k \in Key |->
                      IF k \in {newKey[r], displaced}
                        THEN mishap[k] \cup {"commitUnknown"} ELSE mishap[k]]
           /\ UNCHANGED <<audit, bucket, minted, jobVars, keyVars>>
        \/ ~Exists(n) /\ NoRow(r, "cleanup")
        \/ DbError(r, "cleanup", "failed")

(* UpdateMetadata: also of an archived note.  It fails without fault too:  *)
(* the title is taken or has no slug, the sort order is beyond INTEGER.    *)
Update(r) ==
  /\ pc[r] = "update"
  /\ \/ /\ Exists(note[r])
        /\ \E p \in Place, pub \in BOOLEAN :
             /\ Free(p, note[r])
             /\ row' = [row EXCEPT ![note[r]] =
                          [@ EXCEPT !.place = p, !.published = pub]]
        /\ Wrote(r, note[r])
        /\ \/ Goto(r, "audit") /\ Tell(r, "saved")
           \/ "dbAck" \in Fault /\ Return(r, "failed")
        /\ UNCHANGED <<audit, r2Vars, jobVars, keyVars>>
     \/ /\ Exists(note[r])
        /\ \E p \in Place : ~Free(p, note[r])
        /\ Return(r, "titleTaken")
        /\ UNCHANGED <<dbVars, r2Vars, jobVars, keyVars, wrote>>
     \/ ~Exists(note[r]) /\ NoRow(r, "done")
     \/ /\ Return(r, "failed")
        /\ UNCHANGED <<dbVars, r2Vars, jobVars, keyVars, wrote>>

(* Archive unpublishes, Unarchive does not publish again.                  *)
SetArchived(r, s, from, new) ==
  /\ pc[r] = s
  /\ LET n == note[r]
         hit == Exists(n) /\ row[n].archived = from
     IN \/ /\ hit
           /\ row' = [row EXCEPT ![n] = new]
           /\ Wrote(r, n)
           /\ \/ Goto(r, "audit") /\ Tell(r, "saved")
              \/ "dbAck" \in Fault /\ Return(r, "failed")
           /\ UNCHANGED <<audit, r2Vars, jobVars, keyVars>>
        \/ ~hit /\ NoRow(r, "done")
        \/ DbError(r, "done", "failed")

Archive(r) ==
  SetArchived(r, "archive", FALSE,
              [row[note[r]] EXCEPT !.archived = TRUE, !.published = FALSE])

Unarchive(r) ==
  SetArchived(r, "unarchive", TRUE,
              [row[note[r]] EXCEPT !.archived = FALSE])

(* Mutant: the WHERE clause names the id alone.                            *)
Deletable_Any(n) == Exists(n)

(* WHERE id = $1 AND archived_at IS NOT NULL.                              *)
Deletable(n) == Exists(n) /\ row[n].archived

(* DELETE FROM notes ... RETURNING storage_key.                            *)
DeleteRow(r) ==
  /\ pc[r] = "deleteRow"
  /\ LET n == note[r]
     IN \/ /\ Deletable(n)
           /\ row' = [row EXCEPT ![n] = Gone]
           /\ Wrote(r, n)
           /\ \/ /\ oldKey' = [oldKey EXCEPT ![r] = row[n].key]
                 /\ Goto(r, "deleteObject")
                 /\ UNCHANGED <<mishap, reply>>
              \/ /\ "dbAck" \in Fault
                 /\ Return(r, "failed")
                 /\ Blame(row[n].key, "commitUnknown")
                 /\ UNCHANGED oldKey
           /\ UNCHANGED <<audit, bucket, minted, jobVars, newKey>>
        \/ ~Deletable(n) /\ NoRow(r, "done")
        \/ DbError(r, "done", "failed")

(* writeAuditLog: its error is only logged.                                *)
WriteAudit(r) ==
  /\ pc[r] = "audit"
  /\ \/ audit' = audit \cup {<<r, op[r]>>}
     \/ "db" \in Fault /\ UNCHANGED audit
  /\ Goto(r, "done")
  /\ UNCHANGED <<row, r2Vars, jobVars, keyVars, wrote, reply>>

-----------------------------------------------------------------------------
Handle(r) ==
  \/ Reject(r) \/ Upload(r) \/ Cleanup(r) \/ DeleteOld(r) \/ DeleteFile(r)
  \/ Insert(r) \/ Find(r) \/ UpdateFile(r) \/ Update(r) \/ Archive(r)
  \/ Unarchive(r) \/ DeleteRow(r) \/ WriteAudit(r)

(* The instance that serves r stops: a deploy, os.Exit after the graceful  *)
(* shutdown ran out, a lost container.                                     *)
Crash(r) ==
  /\ "crash" \in Fault
  /\ pc[r] \notin {"idle", "done", "crashed"}
  /\ Goto(r, "crashed")
  /\ Tell(r, "none")
  /\ UNCHANGED <<dbVars, r2Vars, jobVars, keyVars, wrote>>

(* No request is under way.                                                *)
Quiet == \A r \in Request : pc[r] \in {"idle", "done", "crashed"}

Terminated ==
  /\ Quiet
  /\ UNCHANGED vars

Next ==
  \/ \E r \in Request : Start(r) \/ Handle(r) \/ Crash(r)
  \/ Terminated

Spec == Init /\ [][Next]_vars

(* Every started request goes on: a goroutine is scheduled, and each call  *)
(* returns because its context has a deadline of 60 s (middleware.Timeout).*)
FairSpec == Spec /\ \A r \in Request : WF_vars(Handle(r))

-----------------------------------------------------------------------------
(* Properties.                                                             *)

(* Every note of the table has its file in R2, whatever requests overlap   *)
(* and wherever they fail; the one way to lose a file is a statement that  *)
(* committed while its caller saw an error.                                *)
EveryNoteHasItsFile ==
  \A n \in Rows : \/ row[n].key \in bucket
                  \/ "commitUnknown" \in mishap[row[n].key]

(* k is in the hands of request r, which will (or, crashed, would) either  *)
(* give it to a row or delete it.                                          *)
Holds(r, k) ==
  \/ /\ pc[r] \in {"insert", "insertCopy", "updateFile", "cleanup", "crashed"}
     /\ newKey[r] = k
  \/ /\ pc[r] \in {"deleteOld", "deleteObject", "crashed"}
     /\ oldKey[r] = k

(* An object no row refers to is still in the hands of a request, or one   *)
(* of the named mishaps happened to it: nothing else leaks storage.        *)
OrphansExplained ==
  \A k \in bucket : \/ Referenced(k)
                    \/ mishap[k] # {}
                    \/ \E r \in Request : Holds(r, k)

(* "The old file will be deleted from R2 only after the new file is saved  *)
(* successfully": once every request is answered, and no call failed,      *)
(* nothing is left in R2 but the files of the notes.  By OrphansExplained  *)
(* only overlapping replacements of one note can break this, and they do.  *)
OnlyNoteFilesRemain ==
  Quiet => \A k \in bucket : Referenced(k)

(* What is said to be gone is gone: the row of a deleted note, the file of *)
(* a deleted note, a replaced file, and a file that is not was reported.   *)
GoneAsTold(r) ==
  /\ reply[r] \in {"replaced", "deleted"} => oldKey[r] \notin bucket
  /\ op[r] = "DeleteArchived" /\ reply[r] \in {"deleted", "cleanupFailed"} =>
       row[note[r]] = Gone
  /\ reply[r] = "cleanupFailed" => "deleteFailed" \in mishap[oldKey[r]]

(* A request answered with an error changed no note, but for the images of *)
(* a ZIP before the one it stopped at and for a statement that committed   *)
(* unseen; and it leaves neither a note with its new file nor the file     *)
(* itself, but for such a commit and for calls of R2 that returned errors. *)
FailedAsTold(r) ==
  reply[r] \in Errors =>
    /\ wrote[r] # {} =>
         \/ op[r] = "StoreZip"
         \/ /\ op[r] \in {"Update", "Archive", "Unarchive", "DeleteArchived"}
            /\ reply[r] = "failed" /\ "dbAck" \in Fault
         \/ newKey[r] \in Key /\ "commitUnknown" \in mishap[newKey[r]]
    /\ newKey[r] \in bucket =>
         mishap[newKey[r]] \cap {"putFailed", "deleteFailed"} # {}
    /\ Referenced(newKey[r]) => "commitUnknown" \in mishap[newKey[r]]

(* Whoever was told that a file is saved can count on it, as long as it is *)
(* the file of the note: a note that lost its file to a commit nobody saw  *)
(* is one whose file was reported as not saved.                            *)
SavedAsTold(r) ==
  reply[r] \in {"saved", "replaced", "cleanupFailed"} =>
    (Referenced(newKey[r]) => newKey[r] \in bucket)

(* What the admin was told is so, and stays so whatever others do.         *)
AnswersHonest ==
  \A r \in Request :
    pc[r] = "done" => GoneAsTold(r) /\ FailedAsTold(r) /\ SavedAsTold(r)

(* The audit log never claims what did not happen.                         *)
AuditTruthful ==
  \A r \in Request, o \in Op : <<r, o>> \in audit =>
    /\ o = op[r]
    /\ wrote[r] # {}
    /\ o = "DeleteArchived" => row[note[r]] = Gone
    /\ o = "ReplaceFile" => oldKey[r] \notin bucket

(* A started request is answered, unless its instance crashes.             *)
Answered ==
  \A r \in Request : pc[r] # "idle" ~> pc[r] \in {"done", "crashed"}

(* An object no note refers to is deleted in the end, or becomes the file  *)
(* of a note, or met a mishap, or was left by a request that crashed.      *)
UnusedFilesGo ==
  \A k \in Key :
    (k \in bucket /\ ~Referenced(k)) ~>
      \/ k \notin bucket \/ Referenced(k) \/ mishap[k] # {}
      \/ \E r \in Request : pc[r] = "crashed" /\ Holds(r, k)

-----------------------------------------------------------------------------
(* The promise of NoteCatalog: the file of a note is the object in R2, but *)
(* for a commit nobody saw, and a file is used once it is in a row or      *)
(* given up.                                                               *)
FileOf(n) ==
  LET k == row[n].key
  IN IF k \in bucket \/ "commitUnknown" \in mishap[k] THEN k ELSE Nothing

Entry(n) ==
  IF Exists(n)
    THEN [file |-> FileOf(n),
          place |-> row[n].place,
          published |-> row[n].published,
          archived |-> row[n].archived]
    ELSE row[n]

Entries == [n \in Note |-> Entry(n)]

(* Request r is about to give its new key to a row.                        *)
Giving(r) == pc[r] \in {"insert", "insertCopy", "updateFile"}

Used == {k \in minted : \A r \in Request : Giving(r) => newKey[r] # k}

(* Ids without a note are no entries.                                      *)
ASSUME EntryAssumption ==
  {Unborn, Gone} \cap [file : Key, place : Place, published : BOOLEAN,
                       archived : BOOLEAN] = {}

Catalog ==
  INSTANCE NoteCatalog WITH notes <- Entries, used <- Used, File <- Key

(* The two stores together behave as one catalogue in which each operation *)
(* is atomic and a note comes with its file.                               *)
ImplementsCatalog == Catalog!Spec

=============================================================================
