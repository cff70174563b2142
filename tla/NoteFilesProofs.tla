--------------------------- MODULE NoteFilesProofs ---------------------------
(***************************************************************************)
(* Proofs about NoteFiles, for any sets of requests, notes, keys and       *)
(* places, any routing and any combination of faults.                      *)
(*                                                                         *)
(* EveryNoteHasItsFile is not inductive: it needs to know that no request  *)
(* still holds, with the intent to delete it, a key some row refers to.    *)
(* KeysOwned says who may hold which key.                                  *)
(*                                                                         *)
(* The sections at the end prove that NoteFiles implements NoteCatalog,    *)
(* and what NoteReading, which adds the readers, says of the links.        *)
(***************************************************************************)
EXTENDS NoteReading, TLAPS

(* Two notes never share a file, and a row's key was minted.               *)
RowKeys ==
  /\ \A m, n \in Rows : row[m].key = row[n].key => m = n
  /\ \A n \in Rows : row[n].key \in minted
  /\ bucket \subseteq minted

(* What a request remembers was minted.                                    *)
LocalKeys ==
  \A r \in Request : /\ newKey[r] \in minted \cup {Nothing}
                     /\ oldKey[r] \in minted \cup {Nothing}

(* A key about to be given to a row is in R2, in no row and in no other    *)
(* request's hands.                                                        *)
GivenKeys ==
  \A r \in Request : Giving(r) =>
    /\ newKey[r] \in bucket
    /\ ~Referenced(newKey[r])
    /\ \A s \in Request : /\ s # r => newKey[s] # newKey[r]
                          /\ oldKey[s] # newKey[r]

(* A key to be cleaned up is in no row, but for a lost commit.             *)
CleanedKeys ==
  \A r \in Request : pc[r] = "cleanup" =>
    /\ newKey[r] \in Key
    /\ Referenced(newKey[r]) => "commitUnknown" \in mishap[newKey[r]]

(* ReplaceFile holds the key its note had, and no other note's.            *)
ReplacedKeys ==
  \A r \in Request :
    pc[r] \in {"upload", "updateFile"} /\ op[r] = "ReplaceFile" =>
      /\ oldKey[r] \in Key
      /\ \A n \in Rows : row[n].key = oldKey[r] => n = note[r]

(* A key to be deleted is in no row.                                       *)
DeletedKeys ==
  \A r \in Request : pc[r] \in {"deleteOld", "deleteObject"} =>
    oldKey[r] \in Key /\ ~Referenced(oldKey[r])

(* Which handler is at which statement, and with what it got there.        *)
Targets(r) == pc[r] \in {"update", "archive", "unarchive", "deleteRow"}

Routed ==
  \A r \in Request :
    /\ pc[r] # "idle" => op[r] \in Op
    /\ pc[r] \in {"find", "updateFile", "deleteOld"} => op[r] = "ReplaceFile"
    /\ (op[r] = "ReplaceFile" \/ Targets(r)) => note[r] \in Note
    /\ Giving(r) => newKey[r] \in Key

KeysOwned ==
  /\ RowKeys
  /\ LocalKeys
  /\ GivenKeys
  /\ CleanedKeys
  /\ ReplacedKeys
  /\ DeletedKeys

TypeInv == TypeOK /\ Routed

IInv == TypeInv /\ KeysOwned /\ EveryNoteHasItsFile
-----------------------------------------------------------------------------
(* Types and routing are inductive together.                               *)
LEMMA InitTypeInv == Init => TypeInv
<1> SUFFICES ASSUME Init PROVE TypeInv
  OBVIOUS
<1>1. bucket \subseteq Key
  BY DEF Init, Rows, Exists, Row
<1>2. row \in [Note -> Row \cup {Unborn, Gone}]
  BY DEF Init
<1>3. Routed
  BY NullAssumption DEF Init, Routed, Targets, Giving, Op
<1>4. TypeOK
  BY <1>1, <1>2 DEF Init, TypeOK, Step, Reply
<1> QED
  BY <1>3, <1>4 DEF TypeInv

(* A row that exists is a row.                                             *)
LEMMA ExistsRow ==
  ASSUME TypeOK, NEW n \in Note, Exists(n)
  PROVE  /\ row[n] \in Row
         /\ row[n].key \in Key
BY DEF TypeOK, Exists, Row

(* Start routes to the first statement of a handler.                       *)
LEMMA StartTypeInv ==
  ASSUME TypeInv, NEW r \in Request, Start(r)
  PROVE  TypeInv'
<1> PICK o \in Serves[r] :
      /\ op' = [op EXCEPT ![r] = o]
      /\ pc' = [pc EXCEPT ![r] = FirstStep(o)]
      /\ IF o \in {"Store", "StoreZip"}
           THEN UNCHANGED note
           ELSE \E n \in Note : /\ row[n] # Unborn
                                /\ note' = [note EXCEPT ![r] = n]
  BY DEF Start, Goto
<1>1. o \in Op
  BY ServesAssumption
<1>2. /\ FirstStep(o) \in {"upload", "update", "archive", "unarchive",
                            "deleteRow", "find"}
      /\ FirstStep(o) = "upload" <=> o \in {"Store", "StoreZip"}
      /\ FirstStep(o) = "find" <=> o = "ReplaceFile"
  BY <1>1 DEF FirstStep, Op
<1> QED
  BY <1>1, <1>2 DEF Start, TypeInv, TypeOK, Routed, Targets, Giving, dbVars, r2Vars, keyVars, Step

LEMMA RejectTypeInv ==
  ASSUME TypeInv, NEW r \in Request, Reject(r)
  PROVE  TypeInv'
BY ExistsRow DEF TypeInv, TypeOK, Routed, Targets, Giving, Step, Reply, Mishap, Op, dbVars, r2Vars, jobVars,
   keyVars, Reject, Return, Goto, Tell

LEMMA UploadTypeInv ==
  ASSUME TypeInv, NEW r \in Request, Upload(r)
  PROVE  TypeInv'
<1> PICK k \in Key \ minted :
      /\ minted' = minted \cup {k}
      /\ newKey' = [newKey EXCEPT ![r] = k]
      /\ bucket' \in {bucket, bucket \cup {k}}
      /\ mishap' \in {mishap, [mishap EXCEPT ![k] = @ \cup {"putFailed"}]}
      /\ reply' \in {reply, [reply EXCEPT ![r] = "failed"]}
      /\ \/ pc' = [pc EXCEPT ![r] = "done"]
         \/ pc' = [pc EXCEPT ![r] = IF op[r] = "ReplaceFile" THEN "updateFile"
                                                            ELSE "insert"]
  BY DEF Upload, Return, Goto, Tell, Blame
<1>1. /\ minted' \subseteq Key
      /\ bucket' \subseteq Key
      /\ newKey' \in [Request -> Key \cup {Nothing}]
  BY DEF TypeInv, TypeOK
<1>2. mishap' \in [Key -> SUBSET Mishap]
  BY DEF TypeInv, TypeOK, Mishap
<1>3. reply' \in [Request -> Reply] /\ pc' \in [Request -> Step]
  BY DEF TypeInv, TypeOK, Reply, Step
<1>4. Routed'
  BY DEF TypeInv, TypeOK, Routed, Targets, Giving, Upload, jobVars
<1> QED
  BY <1>1, <1>2, <1>3, <1>4 DEF TypeInv, TypeOK, Upload, dbVars, jobVars

LEMMA CleanupTypeInv ==
  ASSUME TypeInv, NEW r \in Request, Cleanup(r)
  PROVE  TypeInv'
BY ExistsRow DEF TypeInv, TypeOK, Routed, Targets, Giving, Step, Reply, Mishap, Op, dbVars, r2Vars, jobVars,
   keyVars, Cleanup, DeleteObject, Goto, Blame

LEMMA DeleteOldTypeInv ==
  ASSUME TypeInv, NEW r \in Request, DeleteOld(r)
  PROVE  TypeInv'
BY ExistsRow DEF TypeInv, TypeOK, Routed, Targets, Giving, Step, Reply, Mishap, Op, dbVars, r2Vars, jobVars,
   keyVars, DeleteOld, DeleteObject, ReplacedKey, Return, Goto, Tell, Blame

LEMMA DeleteFileTypeInv ==
  ASSUME TypeInv, NEW r \in Request, DeleteFile(r)
  PROVE  TypeInv'
BY ExistsRow DEF TypeInv, TypeOK, Routed, Targets, Giving, Step, Reply, Mishap, Op, dbVars, r2Vars, jobVars,
   keyVars, DeleteFile, DeleteObject, Goto, Tell, Blame

LEMMA InsertTypeInv ==
  ASSUME TypeInv, NEW r \in Request, Insert(r)
  PROVE  TypeInv'
<1>1. newKey[r] \in Key
  BY DEF Insert, TypeInv, Routed, Targets, Giving
<1>2. row' \in [Note -> Row \cup {Unborn, Gone}]
  <2>1. ASSUME NEW n \in Note, NEW p \in Place, InsertRow(r, n, p)
        PROVE  row' \in [Note -> Row \cup {Unborn, Gone}]
    <3> PICK pub \in BOOLEAN :
          row' = [row EXCEPT ![n] = [key |-> newKey[r], place |-> p,
                                     published |-> pub, archived |-> FALSE]]
      BY <2>1 DEF InsertRow
    <3> [key |-> newKey[r], place |-> p, published |-> pub, archived |-> FALSE]
          \in Row
      BY <1>1 DEF Row
    <3> QED
      BY DEF TypeInv, TypeOK
  <2> QED
    BY <2>1 DEF Insert, dbVars, TypeInv, TypeOK
<1>3. wrote' \in [Request -> SUBSET Note]
  BY DEF Insert, InsertRow, Wrote, TypeInv, TypeOK
<1>4. mishap' \in [Key -> SUBSET Mishap]
  BY DEF Insert, Blame, Mishap, TypeInv, TypeOK
<1>5. /\ reply' \in [Request -> Reply]
      /\ pc' \in [Request -> Step]
      /\ \A s \in Request : \/ pc'[s] = pc[s]
                            \/ /\ s = r /\ pc[s] # "idle"
                               /\ pc'[s] \in {"audit", "upload", "cleanup"}
                            \/ s = r /\ pc[s] = "insert" /\ pc'[s] = "insertCopy"
  BY DEF Insert, TitleTaken, Goto, Tell, Reply, Step, TypeInv, TypeOK
<1> QED
  BY <1>1, <1>2, <1>3, <1>4, <1>5
  DEF Insert, InsertRow, TypeInv, TypeOK, Routed, Targets, Giving, dbVars, jobVars, keyVars

LEMMA FindTypeInv ==
  ASSUME TypeInv, NEW r \in Request, Find(r)
  PROVE  TypeInv'
BY ExistsRow DEF TypeInv, TypeOK, Routed, Targets, Giving, Step, Reply, Mishap, Op, dbVars, r2Vars, jobVars,
   keyVars, Find, NoRow, DbError, Goto, Tell

LEMMA UpdateFileTypeInv ==
  ASSUME TypeInv, NEW r \in Request, UpdateFile(r)
  PROVE  TypeInv'
<1>1. row' \in [Note -> Row \cup {Unborn, Gone}]
  BY ExistsRow DEF UpdateFile, NoRow, DbError, dbVars, Row, TypeInv, TypeOK, Routed,
     Giving
<1>2. wrote' \in [Request -> SUBSET Note]
  BY DEF UpdateFile, NoRow, DbError, Wrote, TypeInv, TypeOK, Routed, Targets
<1>3. mishap' \in [Key -> SUBSET Mishap]
  BY DEF UpdateFile, NoRow, DbError, r2Vars, Blame, Mishap, TypeInv, TypeOK
<1>4. /\ reply' \in [Request -> Reply]
      /\ pc' \in [Request -> Step]
      /\ \A s \in Request :
           \/ pc'[s] = pc[s]
           \/ /\ s = r /\ pc[s] # "idle"
              /\ pc'[s] \in {"audit", "cleanup", "done", "deleteObject"}
           \/ s = r /\ pc[s] = "updateFile" /\ pc'[s] = "deleteOld"
  BY DEF UpdateFile, NoRow, DbError, Return, Goto, Tell, Reply, Step, TypeInv,
     TypeOK
<1>5. /\ UNCHANGED <<audit, bucket, minted, jobVars, newKey>>
      /\ oldKey' \in [Request -> Key \cup {Nothing}]
  BY ExistsRow DEF UpdateFile, NoRow, DbError, dbVars, r2Vars, jobVars, keyVars,
     TypeInv, TypeOK, Routed, Targets
<1> QED
  BY <1>1, <1>2, <1>3, <1>4, <1>5 DEF TypeInv, TypeOK, Routed, Targets, Giving, jobVars

LEMMA UpdateTypeInv ==
  ASSUME TypeInv, NEW r \in Request, Update(r)
  PROVE  TypeInv'
<1>0. note[r] \in Note
  BY DEF Update, TypeInv, Routed, Targets
<1>1. row' \in [Note -> Row \cup {Unborn, Gone}]
  <2>1. \/ row' = row
        \/ Exists(note[r]) /\ \E p \in Place, pub \in BOOLEAN :
             row' = [row EXCEPT ![note[r]] =
                      [row[note[r]] EXCEPT !.place = p, !.published = pub]]
    BY <1>0 DEF Update, NoRow, DbError, dbVars, TypeInv, TypeOK
  <2>2. ASSUME Exists(note[r]), NEW p \in Place, NEW pub \in BOOLEAN
        PROVE  [row[note[r]] EXCEPT !.place = p, !.published = pub] \in Row
    BY <1>0, <2>2, ExistsRow DEF Row, TypeInv
  <2>3. ASSUME NEW x \in Row, row' = [row EXCEPT ![note[r]] = x]
        PROVE  row' \in [Note -> Row \cup {Unborn, Gone}]
    BY <1>0, <2>3 DEF TypeInv, TypeOK
  <2> QED
    BY <2>1, <2>2, <2>3 DEF TypeInv, TypeOK
<1>2. wrote' \in [Request -> SUBSET Note]
  <2>1. wrote' = wrote \/ wrote' = [wrote EXCEPT ![r] = @ \cup {note[r]}]
    BY DEF Update, NoRow, DbError, Wrote
  <2> QED
    BY <1>0, <2>1 DEF TypeInv, TypeOK
<1>3. mishap' \in [Key -> SUBSET Mishap]
  BY DEF Update, NoRow, DbError, r2Vars, Blame, Mishap, TypeInv, TypeOK
<1>4. /\ reply' \in [Request -> Reply]
      /\ pc' \in [Request -> Step]
      /\ \A s \in Request :
           \/ pc'[s] = pc[s]
           \/ /\ s = r /\ pc[s] # "idle"
              /\ pc'[s] \in {"audit", "cleanup", "done", "deleteObject"}
           \/ s = r /\ pc[s] = "updateFile" /\ pc'[s] = "deleteOld"
  BY DEF Update, NoRow, DbError, Return, Goto, Tell, Reply, Step, TypeInv,
     TypeOK
<1>5. /\ UNCHANGED <<audit, bucket, minted, jobVars, newKey>>
      /\ oldKey' \in [Request -> Key \cup {Nothing}]
  BY ExistsRow DEF Update, NoRow, DbError, dbVars, r2Vars, jobVars, keyVars,
     TypeInv, TypeOK, Routed, Targets
<1> QED
  BY <1>1, <1>2, <1>3, <1>4, <1>5 DEF TypeInv, TypeOK, Routed, Targets, Giving, jobVars

LEMMA ArchiveTypeInv ==
  ASSUME TypeInv, NEW r \in Request, Archive(r)
  PROVE  TypeInv'
<1>1. row' \in [Note -> Row \cup {Unborn, Gone}]
  <2>1. note[r] \in Note
    BY DEF Archive, SetArchived, TypeInv, Routed, Targets
  <2>2. CASE Exists(note[r])
    <3>1. row[note[r]] \in Row
      BY <2>1, <2>2, ExistsRow DEF TypeInv
    <3>2. [row[note[r]] EXCEPT !.archived = TRUE, !.published = FALSE] \in Row
      BY <3>1 DEF Row
    <3> QED
      BY <2>1, <3>2 DEF Archive, SetArchived, NoRow, DbError, dbVars, TypeInv, TypeOK
  <2>3. CASE ~Exists(note[r])
    BY <2>3 DEF Archive, SetArchived, NoRow, DbError, dbVars, TypeInv, TypeOK
  <2> QED
    BY <2>2, <2>3
<1>2. wrote' \in [Request -> SUBSET Note]
  BY DEF Archive, SetArchived, NoRow, DbError, Wrote, TypeInv, TypeOK, Routed, Targets
<1>3. mishap' \in [Key -> SUBSET Mishap]
  BY DEF Archive, SetArchived, NoRow, DbError, r2Vars, Blame, Mishap, TypeInv, TypeOK
<1>4. /\ reply' \in [Request -> Reply]
      /\ pc' \in [Request -> Step]
      /\ \A s \in Request :
           \/ pc'[s] = pc[s]
           \/ /\ s = r /\ pc[s] # "idle"
              /\ pc'[s] \in {"audit", "cleanup", "done", "deleteObject"}
           \/ s = r /\ pc[s] = "updateFile" /\ pc'[s] = "deleteOld"
  BY DEF Archive, SetArchived, NoRow, DbError, Return, Goto, Tell, Reply, Step, TypeInv,
     TypeOK
<1>5. /\ UNCHANGED <<audit, bucket, minted, jobVars, newKey>>
      /\ oldKey' \in [Request -> Key \cup {Nothing}]
  BY ExistsRow DEF Archive, SetArchived, NoRow, DbError, dbVars, r2Vars, jobVars, keyVars,
     TypeInv, TypeOK, Routed, Targets
<1> QED
  BY <1>1, <1>2, <1>3, <1>4, <1>5 DEF TypeInv, TypeOK, Routed, Targets, Giving, jobVars

LEMMA UnarchiveTypeInv ==
  ASSUME TypeInv, NEW r \in Request, Unarchive(r)
  PROVE  TypeInv'
<1>1. row' \in [Note -> Row \cup {Unborn, Gone}]
  <2>1. note[r] \in Note
    BY DEF Unarchive, SetArchived, TypeInv, Routed, Targets
  <2>2. CASE Exists(note[r])
    <3>1. row[note[r]] \in Row
      BY <2>1, <2>2, ExistsRow DEF TypeInv
    <3>2. [row[note[r]] EXCEPT !.archived = FALSE] \in Row
      BY <3>1 DEF Row
    <3> QED
      BY <2>1, <3>2 DEF Unarchive, SetArchived, NoRow, DbError, dbVars, TypeInv, TypeOK
  <2>3. CASE ~Exists(note[r])
    BY <2>3 DEF Unarchive, SetArchived, NoRow, DbError, dbVars, TypeInv, TypeOK
  <2> QED
    BY <2>2, <2>3
<1>2. wrote' \in [Request -> SUBSET Note]
  BY DEF Unarchive, SetArchived, NoRow, DbError, Wrote, TypeInv, TypeOK, Routed, Targets
<1>3. mishap' \in [Key -> SUBSET Mishap]
  BY DEF Unarchive, SetArchived, NoRow, DbError, r2Vars, Blame, Mishap, TypeInv, TypeOK
<1>4. /\ reply' \in [Request -> Reply]
      /\ pc' \in [Request -> Step]
      /\ \A s \in Request :
           \/ pc'[s] = pc[s]
           \/ /\ s = r /\ pc[s] # "idle"
              /\ pc'[s] \in {"audit", "cleanup", "done", "deleteObject"}
           \/ s = r /\ pc[s] = "updateFile" /\ pc'[s] = "deleteOld"
  BY DEF Unarchive, SetArchived, NoRow, DbError, Return, Goto, Tell, Reply, Step, TypeInv,
     TypeOK
<1>5. /\ UNCHANGED <<audit, bucket, minted, jobVars, newKey>>
      /\ oldKey' \in [Request -> Key \cup {Nothing}]
  BY ExistsRow DEF Unarchive, SetArchived, NoRow, DbError, dbVars, r2Vars, jobVars, keyVars,
     TypeInv, TypeOK, Routed, Targets
<1> QED
  BY <1>1, <1>2, <1>3, <1>4, <1>5 DEF TypeInv, TypeOK, Routed, Targets, Giving, jobVars

LEMMA DeleteRowTypeInv ==
  ASSUME TypeInv, NEW r \in Request, DeleteRow(r)
  PROVE  TypeInv'
<1>1. row' \in [Note -> Row \cup {Unborn, Gone}]
  BY ExistsRow DEF DeleteRow, Deletable, NoRow, DbError, dbVars, Row, TypeInv, TypeOK, Routed,
     Giving
<1>2. wrote' \in [Request -> SUBSET Note]
  BY DEF DeleteRow, Deletable, NoRow, DbError, Wrote, TypeInv, TypeOK, Routed, Targets
<1>3. mishap' \in [Key -> SUBSET Mishap]
  BY DEF DeleteRow, Deletable, NoRow, DbError, r2Vars, Blame, Mishap, TypeInv, TypeOK
<1>4. /\ reply' \in [Request -> Reply]
      /\ pc' \in [Request -> Step]
      /\ \A s \in Request :
           \/ pc'[s] = pc[s]
           \/ /\ s = r /\ pc[s] # "idle"
              /\ pc'[s] \in {"audit", "cleanup", "done", "deleteObject"}
           \/ s = r /\ pc[s] = "updateFile" /\ pc'[s] = "deleteOld"
  BY DEF DeleteRow, Deletable, NoRow, DbError, Return, Goto, Tell, Reply, Step, TypeInv,
     TypeOK
<1>5. /\ UNCHANGED <<audit, bucket, minted, jobVars, newKey>>
      /\ oldKey' \in [Request -> Key \cup {Nothing}]
  BY ExistsRow DEF DeleteRow, Deletable, NoRow, DbError, dbVars, r2Vars, jobVars, keyVars,
     TypeInv, TypeOK, Routed, Targets
<1> QED
  BY <1>1, <1>2, <1>3, <1>4, <1>5 DEF TypeInv, TypeOK, Routed, Targets, Giving, jobVars

LEMMA WriteAuditTypeInv ==
  ASSUME TypeInv, NEW r \in Request, WriteAudit(r)
  PROVE  TypeInv'
BY ExistsRow DEF TypeInv, TypeOK, Routed, Targets, Giving, Step, Reply, Mishap, Op, dbVars, r2Vars, jobVars,
   keyVars, WriteAudit, Goto

LEMMA CrashTypeInv ==
  ASSUME TypeInv, NEW r \in Request, Crash(r)
  PROVE  TypeInv'
BY ExistsRow DEF TypeInv, TypeOK, Routed, Targets, Giving, Step, Reply, Mishap, Op, dbVars, r2Vars, jobVars,
   keyVars, Crash, Goto, Tell

LEMMA NextTypeInv == TypeInv /\ [Next]_vars => TypeInv'
<1> SUFFICES ASSUME TypeInv, [Next]_vars
             PROVE  TypeInv'
  OBVIOUS
<1>1. ASSUME NEW r \in Request, Start(r) \/ Handle(r) \/ Crash(r)
      PROVE  TypeInv'
  BY <1>1, StartTypeInv, RejectTypeInv, UploadTypeInv, CleanupTypeInv,
     DeleteOldTypeInv, DeleteFileTypeInv, InsertTypeInv, FindTypeInv,
     UpdateFileTypeInv, UpdateTypeInv, ArchiveTypeInv, UnarchiveTypeInv,
     DeleteRowTypeInv, WriteAuditTypeInv, CrashTypeInv
  DEF Handle
<1>2. CASE UNCHANGED vars
  BY <1>2 DEF vars, TypeInv, TypeOK, Routed, Targets, Giving
<1> QED
  BY <1>1, <1>2 DEF Next, Terminated

(* Every state of the handlers and the two stores is well-formed.          *)
THEOREM TypeCorrect == Spec => []TypeOK
<1>1. Spec => []TypeInv
  BY InitTypeInv, NextTypeInv, PTL DEF Spec
<1> QED
  BY <1>1, PTL DEF TypeInv

-----------------------------------------------------------------------------
(* Who owns which key.                                                     *)

(* A step of the request r after which no request holds more than before,  *)
(* and that deletes no object a row refers to or is about to.              *)
Keeps(r) ==
  /\ UNCHANGED <<minted, newKey, oldKey>>
  /\ \A n \in Rows' : n \in Rows /\ row'[n].key = row[n].key
  /\ \A k \in Key : mishap[k] \subseteq mishap'[k]
  /\ bucket' \subseteq bucket
  /\ \A k \in bucket \ bucket' :
       /\ Referenced(k) => "commitUnknown" \in mishap[k]
       /\ \A s \in Request : Giving(s)' => newKey[s] # k
  /\ \A s \in Request :
       \/ pc'[s] = pc[s] /\ op'[s] = op[s] /\ note'[s] = note[s]
       \/ pc'[s] = "upload" /\ op'[s] # "ReplaceFile"
       \/ pc'[s] \notin {"upload", "insert", "insertCopy", "updateFile",
                        "cleanup", "deleteOld", "deleteObject"}
       \/ pc'[s] = "cleanup" /\ Giving(s)
       \/ pc'[s] = "insertCopy" /\ Giving(s)

LEMMA KeepsOwned ==
  ASSUME IInv, TypeInv', NEW r \in Request, Keeps(r)
  PROVE  IInv'
<1>1. \A k \in Key : Referenced(k)' => Referenced(k)
  BY DEF Keeps, Referenced
<1>2. RowKeys'
  BY DEF IInv, KeysOwned, RowKeys, Keeps
<1>3. LocalKeys'
  BY DEF IInv, KeysOwned, LocalKeys, Keeps
<1>4. GivenKeys'
  BY <1>1 DEF IInv, KeysOwned, GivenKeys, Keeps, Giving, TypeInv, Routed
<1>5. CleanedKeys'
  BY <1>1 DEF IInv, KeysOwned, GivenKeys, CleanedKeys, Keeps, Giving, TypeInv, Routed
<1>6. ReplacedKeys'
  BY DEF IInv, KeysOwned, ReplacedKeys, Keeps
<1>7. DeletedKeys'
  BY <1>1 DEF IInv, KeysOwned, DeletedKeys, Keeps
<1>8. EveryNoteHasItsFile'
  BY ExistsRow DEF IInv, EveryNoteHasItsFile, Keeps, TypeInv, Referenced, Rows
<1> QED
  BY <1>2, <1>3, <1>4, <1>5, <1>6, <1>7, <1>8 DEF IInv, KeysOwned

(* The rows stay as they are when the table does.                          *)
LEMMA SameRows ==
  ASSUME UNCHANGED row
  PROVE  /\ Rows' = Rows
         /\ \A n \in Rows' : n \in Rows /\ row'[n].key = row[n].key
BY DEF Rows, Exists

LEMMA StartKeeps ==
  ASSUME IInv, NEW r \in Request, Start(r)
  PROVE  Keeps(r)
<1> PICK o \in Serves[r] :
      /\ op' = [op EXCEPT ![r] = o]
      /\ pc' = [pc EXCEPT ![r] = FirstStep(o)]
  BY DEF Start, Goto
<1>1. note' = [note EXCEPT ![r] = note'[r]]
  BY DEF Start, IInv, TypeInv, TypeOK
<1>2. /\ FirstStep(o) \in {"upload", "update", "archive", "unarchive",
                            "deleteRow", "find"}
      /\ FirstStep(o) = "upload" => o # "ReplaceFile"
  BY ServesAssumption DEF FirstStep, Op
<1> QED
  BY <1>1, <1>2, SameRows
  DEF Start, Keeps, dbVars, r2Vars, keyVars, IInv, TypeInv, TypeOK

LEMMA RejectKeeps ==
  ASSUME IInv, NEW r \in Request, Reject(r)
  PROVE  Keeps(r)
BY SameRows DEF Reject, Keeps, IInv, TypeInv, TypeOK, dbVars, r2Vars, jobVars, keyVars,
   Goto, Tell, Return

LEMMA WriteAuditKeeps ==
  ASSUME IInv, NEW r \in Request, WriteAudit(r)
  PROVE  Keeps(r)
BY SameRows DEF WriteAudit, Keeps, IInv, TypeInv, TypeOK, dbVars, r2Vars, jobVars, keyVars,
   Goto, Tell, Return

LEMMA CrashKeeps ==
  ASSUME IInv, NEW r \in Request, Crash(r)
  PROVE  Keeps(r)
BY SameRows DEF Crash, Keeps, IInv, TypeInv, TypeOK, dbVars, r2Vars, jobVars, keyVars,
   Goto, Tell, Return

(* What NoRow and DbError do: the request gives up what it was about to do.*)
LEMMA StopKeeps ==
  ASSUME IInv, NEW r \in Request, NEW s \in {"done", "cleanup"},
         s = "cleanup" => Giving(r),
         pc' = [pc EXCEPT ![r] = s],
         UNCHANGED <<dbVars, r2Vars, jobVars, keyVars>>
  PROVE  Keeps(r)
BY SameRows DEF Keeps, IInv, TypeInv, TypeOK, dbVars, r2Vars, jobVars, keyVars

(* A deletion in R2 of a key that is in no row and not about to be.        *)
LEMMA DeleteObjectKeeps ==
  ASSUME IInv, NEW r \in Request, NEW k \in Key, NEW erred \in BOOLEAN,
         DeleteObject(k, erred),
         Referenced(k) => "commitUnknown" \in mishap[k],
         \A s \in Request : Giving(s) => newKey[s] # k,
         NEW t \in {"audit", "done"}, pc' = [pc EXCEPT ![r] = t],
         UNCHANGED <<dbVars, jobVars, keyVars>>
  PROVE  Keeps(r)
<1>1. /\ UNCHANGED minted
      /\ bucket' \subseteq bucket
      /\ bucket \ bucket' \subseteq {k}
      /\ \A j \in Key : mishap[j] \subseteq mishap'[j]
  BY DEF DeleteObject, Blame, IInv, TypeInv, TypeOK
<1>2. \A s \in Request : Giving(s)' => Giving(s)
  BY DEF Giving, IInv, TypeInv, TypeOK
<1> QED
  BY <1>1, <1>2, SameRows DEF Keeps, IInv, TypeInv, TypeOK, dbVars, jobVars, keyVars

LEMMA CleanupKeeps ==
  ASSUME IInv, NEW r \in Request, Cleanup(r)
  PROVE  Keeps(r)
<1>1. /\ newKey[r] \in Key
      /\ Referenced(newKey[r]) => "commitUnknown" \in mishap[newKey[r]]
      /\ \A s \in Request : Giving(s) => newKey[s] # newKey[r]
  BY DEF Cleanup, IInv, KeysOwned, CleanedKeys, GivenKeys, Giving
<1> QED
  BY <1>1, DeleteObjectKeeps DEF Cleanup, Goto

LEMMA DeleteKeeps ==
  ASSUME IInv, NEW r \in Request, DeleteOld(r) \/ DeleteFile(r)
  PROVE  Keeps(r)
<1>1. /\ oldKey[r] \in Key
      /\ ~Referenced(oldKey[r])
      /\ \A s \in Request : Giving(s) => newKey[s] # oldKey[r]
  BY DEF DeleteOld, DeleteFile, IInv, KeysOwned, DeletedKeys, GivenKeys
<1>2. PICK erred \in BOOLEAN : DeleteObject(oldKey[r], erred)
  BY DEF DeleteOld, DeleteFile, ReplacedKey
<1>3. PICK t \in {"audit", "done"} : pc' = [pc EXCEPT ![r] = t]
  BY DEF DeleteOld, DeleteFile, Goto, Return
<1> QED
  BY <1>1, <1>2, <1>3, DeleteObjectKeeps DEF DeleteOld, DeleteFile

LEMMA ArchiveKeeps ==
  ASSUME IInv, NEW r \in Request, Archive(r)
  PROVE  Keeps(r)
<1>1. /\ note[r] \in Note
      /\ pc[r] # "idle"
  BY DEF Archive, SetArchived, IInv, TypeInv, Routed, Targets
<1>2. CASE UNCHANGED row
  BY <1>2, SameRows DEF Archive, SetArchived, Keeps, IInv, TypeInv, TypeOK, NoRow, DbError,
     dbVars, r2Vars, jobVars, keyVars, Goto, Tell, Return
<1>3. CASE row' # row
  <2>1. /\ Exists(note[r])
        /\ row' = [row EXCEPT ![note[r]] = row'[note[r]]]
        /\ row'[note[r]].key = row[note[r]].key
    <3>1. /\ Exists(note[r])
          /\ row' = [row EXCEPT ![note[r]] =
                [row[note[r]] EXCEPT !.archived = TRUE, !.published = FALSE]]
      BY <1>3 DEF Archive, SetArchived, NoRow, DbError, dbVars
    <3>2. row[note[r]] \in Row
      BY <1>1, <3>1, ExistsRow DEF IInv, TypeInv
    <3> QED
      BY <1>1, <3>1, <3>2 DEF Row, IInv, TypeInv, TypeOK
  <2>2. \A n \in Rows' : n \in Rows /\ row'[n].key = row[n].key
    BY <1>1, <2>1 DEF Rows, Exists, IInv, TypeInv, TypeOK
  <2> QED
    BY <1>3, <2>2 DEF Archive, SetArchived, Keeps, IInv, TypeInv, TypeOK, NoRow, DbError,
       dbVars, r2Vars, jobVars, keyVars, Goto, Tell, Return
<1> QED
  BY <1>2, <1>3

LEMMA UnarchiveKeeps ==
  ASSUME IInv, NEW r \in Request, Unarchive(r)
  PROVE  Keeps(r)
<1>1. /\ note[r] \in Note
      /\ pc[r] # "idle"
  BY DEF Unarchive, SetArchived, IInv, TypeInv, Routed, Targets
<1>2. CASE UNCHANGED row
  BY <1>2, SameRows DEF Unarchive, SetArchived, Keeps, IInv, TypeInv, TypeOK, NoRow, DbError,
     dbVars, r2Vars, jobVars, keyVars, Goto, Tell, Return
<1>3. CASE row' # row
  <2>1. /\ Exists(note[r])
        /\ row' = [row EXCEPT ![note[r]] = row'[note[r]]]
        /\ row'[note[r]].key = row[note[r]].key
    BY <1>1, <1>3, ExistsRow DEF Unarchive, SetArchived, NoRow, DbError, dbVars, IInv, TypeInv,
       TypeOK, Row
  <2>2. \A n \in Rows' : n \in Rows /\ row'[n].key = row[n].key
    BY <1>1, <2>1 DEF Rows, Exists, IInv, TypeInv, TypeOK
  <2> QED
    BY <1>3, <2>2 DEF Unarchive, SetArchived, Keeps, IInv, TypeInv, TypeOK, NoRow, DbError,
       dbVars, r2Vars, jobVars, keyVars, Goto, Tell, Return
<1> QED
  BY <1>2, <1>3

LEMMA UpdateKeeps ==
  ASSUME IInv, NEW r \in Request, Update(r)
  PROVE  Keeps(r)
<1>1. /\ note[r] \in Note
      /\ pc[r] # "idle"
  BY DEF Update, IInv, TypeInv, Routed, Targets
<1>2. CASE UNCHANGED row
  BY <1>2, SameRows DEF Update, Keeps, IInv, TypeInv, TypeOK, NoRow, DbError,
     dbVars, r2Vars, jobVars, keyVars, Goto, Tell, Return
<1>3. CASE row' # row
  <2>1. /\ Exists(note[r])
        /\ row' = [row EXCEPT ![note[r]] = row'[note[r]]]
        /\ row'[note[r]].key = row[note[r]].key
    BY <1>1, <1>3, ExistsRow DEF Update, NoRow, DbError, dbVars, IInv, TypeInv,
       TypeOK, Row
  <2>2. \A n \in Rows' : n \in Rows /\ row'[n].key = row[n].key
    BY <1>1, <2>1 DEF Rows, Exists, IInv, TypeInv, TypeOK
  <2> QED
    BY <1>3, <2>2 DEF Update, Keeps, IInv, TypeInv, TypeOK, NoRow, DbError,
       dbVars, r2Vars, jobVars, keyVars, Goto, Tell, Return
<1> QED
  BY <1>2, <1>3

(* An uploaded key is new: nobody knows it yet.                            *)
LEMMA UploadOwned ==
  ASSUME IInv, TypeInv', NEW r \in Request, Upload(r)
  PROVE  IInv'
<1> PICK k \in Key \ minted :
      /\ minted' = minted \cup {k}
      /\ newKey' = [newKey EXCEPT ![r] = k]
      /\ bucket \subseteq bucket'
      /\ bucket' \subseteq bucket \cup {k}
      /\ \A j \in Key : mishap[j] \subseteq mishap'[j]
      /\ UNCHANGED <<row, oldKey, op, note>>
      /\ \/ pc' = [pc EXCEPT ![r] = "done"]
         \/ /\ k \in bucket'
            /\ pc' = [pc EXCEPT ![r] = IF op[r] = "ReplaceFile" THEN "updateFile"
                                                               ELSE "insert"]
  <2> PICK k \in Key \ minted :
        /\ minted' = minted \cup {k}
        /\ newKey' = [newKey EXCEPT ![r] = k]
        /\ \/ /\ bucket' = bucket \cup {k}
              /\ pc' = [pc EXCEPT ![r] = IF op[r] = "ReplaceFile" THEN "updateFile"
                                                                 ELSE "insert"]
              /\ UNCHANGED <<mishap, reply>>
           \/ /\ pc' = [pc EXCEPT ![r] = "done"]
              /\ UNCHANGED <<bucket, mishap>>
           \/ /\ pc' = [pc EXCEPT ![r] = "done"]
              /\ bucket' = bucket \cup {k}
              /\ mishap' = [mishap EXCEPT ![k] = @ \cup {"putFailed"}]
    BY DEF Upload, Return, Goto, Blame
  <2> UNCHANGED <<row, oldKey, op, note>>
    BY DEF Upload, dbVars, jobVars
  <2> \A j \in Key : mishap[j] \subseteq mishap'[j]
    BY DEF IInv, TypeInv, TypeOK
  <2> QED
    OBVIOUS
<1>1. /\ pc[r] = "upload"
      /\ \A s \in Request : s # r => pc'[s] = pc[s] /\ newKey'[s] = newKey[s]
      /\ newKey'[r] = k
      /\ k # Nothing
  BY NullAssumption DEF Upload, IInv, TypeInv, TypeOK
<1>2. /\ Rows' = Rows
      /\ \A n \in Rows : row[n].key # k
      /\ \A j : Referenced(j)' <=> Referenced(j)
  BY DEF Rows, Exists, Referenced, IInv, KeysOwned, RowKeys
<1>3. \A s \in Request : newKey[s] # k /\ oldKey[s] # k
  BY <1>1 DEF IInv, KeysOwned, LocalKeys
<1>4. RowKeys'
  BY <1>2 DEF IInv, KeysOwned, RowKeys
<1>5. LocalKeys'
  BY <1>1 DEF IInv, KeysOwned, LocalKeys
<1>6. GivenKeys'
  <2>1. ASSUME NEW s \in Request, Giving(s)'
        PROVE  (/\ newKey[s] \in bucket
                /\ ~Referenced(newKey[s])
                /\ \A t \in Request : /\ t # s => newKey[t] # newKey[s]
                                      /\ oldKey[t] # newKey[s])'
    <3>1. CASE s = r
      BY <1>1, <1>2, <1>3, <2>1, <3>1 DEF Giving, Referenced, IInv, TypeInv, TypeOK
    <3>2. CASE s # r
      BY <1>1, <1>2, <1>3, <2>1, <3>2 DEF Giving, IInv, KeysOwned, GivenKeys
    <3> QED
      BY <3>1, <3>2
  <2> QED
    BY <2>1 DEF GivenKeys, Giving
<1>7. CleanedKeys'
  BY <1>1, <1>2 DEF IInv, KeysOwned, CleanedKeys, TypeInv, TypeOK
<1>8. ReplacedKeys'
  BY <1>1, <1>2 DEF IInv, KeysOwned, ReplacedKeys, TypeInv, TypeOK
<1>9. DeletedKeys'
  BY <1>1, <1>2 DEF IInv, KeysOwned, DeletedKeys, TypeInv, TypeOK
<1>10. EveryNoteHasItsFile'
  BY <1>2, ExistsRow DEF IInv, EveryNoteHasItsFile, TypeInv, Rows
<1> QED
  BY <1>4, <1>5, <1>6, <1>7, <1>8, <1>9, <1>10 DEF IInv, KeysOwned

(* A row takes the key a request was about to give it.                     *)
LEMMA GiveOwned ==
  ASSUME IInv, TypeInv', NEW r \in Request, NEW n \in Note, Giving(r),
         n \in Rows', row'[n].key = newKey[r],
         \A m \in Rows' \ {n} : m \in Rows /\ row'[m].key = row[m].key,
         UNCHANGED <<bucket, minted, newKey, oldKey, op, note>>,
         \A k \in Key : mishap[k] \subseteq mishap'[k],
         NEW t \in {"audit", "upload", "cleanup", "deleteOld"},
         pc' = [pc EXCEPT ![r] = t],
         t = "upload" => op[r] # "ReplaceFile",
         t = "cleanup" => "commitUnknown" \in mishap'[newKey[r]],
         t = "deleteOld" => pc[r] = "updateFile" /\ n = note[r]
  PROVE  IInv'
<1>1. /\ newKey[r] \in Key
      /\ newKey[r] \in bucket
      /\ ~Referenced(newKey[r])
      /\ \A s \in Request : /\ s # r => newKey[s] # newKey[r]
                            /\ oldKey[s] # newKey[r]
  BY DEF IInv, TypeInv, Routed, KeysOwned, GivenKeys
<1>2. \A s \in Request : s # r => pc'[s] = pc[s]
  BY DEF IInv, TypeInv, TypeOK
<1>3. pc'[r] = t
  BY DEF IInv, TypeInv, TypeOK
<1>4. \A k : Referenced(k)' => k = newKey[r] \/ Referenced(k)
  BY DEF Referenced
<1>5. RowKeys'
  <2>1. \A m \in Rows' : m # n => row'[m].key # newKey[r]
    BY <1>1 DEF Referenced
  <2> QED
    BY <2>1, <1>1 DEF IInv, KeysOwned, RowKeys
<1>6. LocalKeys'
  BY DEF IInv, KeysOwned, LocalKeys
<1>7. GivenKeys'
  <2>1. \A s \in Request : Giving(s)' => s # r /\ Giving(s)
    BY <1>2, <1>3 DEF Giving
  <2>2. ASSUME NEW s \in Request, Giving(s)'
        PROVE  (/\ newKey[s] \in bucket
                /\ ~Referenced(newKey[s])
                /\ \A u \in Request : /\ u # s => newKey[u] # newKey[s]
                                      /\ oldKey[u] # newKey[s])'
    <3>1. ~Referenced(newKey[s]) /\ newKey[s] # newKey[r]
      BY <2>1, <2>2, <1>1 DEF IInv, KeysOwned, GivenKeys
    <3> QED
      BY <2>1, <2>2, <3>1, <1>4 DEF IInv, KeysOwned, GivenKeys, Referenced
  <2> QED
    BY <2>2 DEF GivenKeys, Giving
<1>8. CleanedKeys'
  <2>1. ASSUME NEW s \in Request, pc'[s] = "cleanup", s # r
        PROVE  (/\ newKey[s] \in Key
                /\ Referenced(newKey[s]) => "commitUnknown" \in mishap[newKey[s]])'
    BY <2>1, <1>1, <1>2, <1>4 DEF IInv, KeysOwned, CleanedKeys, Referenced
  <2>2. ASSUME pc'[r] = "cleanup"
        PROVE  (/\ newKey[r] \in Key
                /\ Referenced(newKey[r]) => "commitUnknown" \in mishap[newKey[r]])'
    BY <2>2, <1>1, <1>3
  <2> QED
    BY <2>1, <2>2 DEF CleanedKeys
<1>9. ReplacedKeys'
  BY <1>1, <1>2, <1>3 DEF IInv, KeysOwned, ReplacedKeys
<1>10. DeletedKeys'
  <2>1. ASSUME NEW s \in Request, pc'[s] \in {"deleteOld", "deleteObject"}, s # r
        PROVE  (oldKey[s] \in Key /\ ~Referenced(oldKey[s]))'
    BY <2>1, <1>1, <1>2, <1>4 DEF IInv, KeysOwned, DeletedKeys, Referenced
  <2>2. ASSUME pc'[r] \in {"deleteOld", "deleteObject"}
        PROVE  (oldKey[r] \in Key /\ ~Referenced(oldKey[r]))'
    <3>1. /\ oldKey[r] \in Key
          /\ \A m \in Rows : row[m].key = oldKey[r] => m = n
      BY <2>2, <1>3 DEF IInv, KeysOwned, ReplacedKeys, TypeInv, Routed
    <3> QED
      BY <3>1, <1>1 DEF Referenced
  <2> QED
    BY <2>1, <2>2 DEF DeletedKeys
<1>11. EveryNoteHasItsFile'
  BY <1>1, ExistsRow DEF IInv, EveryNoteHasItsFile, TypeInv, Rows
<1> QED
  BY <1>5, <1>6, <1>7, <1>8, <1>9, <1>10, <1>11 DEF IInv, KeysOwned

LEMMA InsertOwned ==
  ASSUME IInv, TypeInv', NEW r \in Request, Insert(r)
  PROVE  IInv'
<1>1. Giving(r)
  BY DEF Insert, Giving
<1>2. ASSUME NEW n \in Note, NEW p \in Place, InsertRow(r, n, p),
             UNCHANGED <<bucket, minted, jobVars, keyVars>>,
             NEW t \in {"audit", "upload", "cleanup"},
             pc' = [pc EXCEPT ![r] = t],
             t = "upload" => MoreImages(r),
             t = "cleanup" => Blame(newKey[r], "commitUnknown"),
             t # "cleanup" => UNCHANGED mishap
      PROVE  IInv'
  <2>1. newKey[r] \in Key
    BY <1>1 DEF IInv, TypeInv, Routed
  <2>2. PICK x \in Row : row' = [row EXCEPT ![n] = x] /\ x.key = newKey[r]
    <3> PICK pub \in BOOLEAN :
          row' = [row EXCEPT ![n] = [key |-> newKey[r], place |-> p,
                                     published |-> pub, archived |-> FALSE]]
      BY <1>2 DEF InsertRow
    <3> DEFINE x == [key |-> newKey[r], place |-> p, published |-> pub,
                     archived |-> FALSE]
    <3> x \in Row /\ x.key = newKey[r]
      BY <2>1 DEF Row
    <3> QED
      OBVIOUS
  <2>3. /\ n \in Rows'
        /\ row'[n].key = newKey[r]
        /\ \A m \in Rows' \ {n} : m \in Rows /\ row'[m].key = row[m].key
    BY <2>2, NullAssumption DEF Rows, Exists, IInv, TypeInv, TypeOK
  <2>4. /\ \A k \in Key : mishap[k] \subseteq mishap'[k]
        /\ t = "cleanup" => "commitUnknown" \in mishap'[newKey[r]]
    BY <1>2, <2>1 DEF Blame, IInv, TypeInv, TypeOK
  <2>5. t = "upload" => op[r] # "ReplaceFile"
    BY <1>2 DEF MoreImages
  <2> QED
    BY <1>1, <1>2, <2>3, <2>4, <2>5, GiveOwned DEF jobVars, keyVars
<1>3. ASSUME NEW t \in {"cleanup", "insertCopy"},
             pc' = [pc EXCEPT ![r] = t],
             UNCHANGED <<dbVars, r2Vars, jobVars, keyVars>>
      PROVE  IInv'
  <2>1. Keeps(r)
    BY <1>1, <1>3, SameRows DEF Keeps, IInv, TypeInv, TypeOK, dbVars, r2Vars, jobVars,
       keyVars
  <2> QED
    BY <2>1, KeepsOwned
<1> QED
  BY <1>2, <1>3 DEF Insert, TitleTaken, Goto, r2Vars

LEMMA FindOwned ==
  ASSUME IInv, TypeInv', NEW r \in Request, Find(r)
  PROVE  IInv'
<1>1. CASE /\ Exists(note[r])
           /\ oldKey' = [oldKey EXCEPT ![r] = row[note[r]].key]
           /\ Goto(r, "upload")
           /\ UNCHANGED <<dbVars, r2Vars, jobVars, newKey, wrote, reply>>
  <2> DEFINE k == row[note[r]].key
  <2>1. /\ note[r] \in Rows
        /\ k \in Key
        /\ k \in minted
    BY <1>1, ExistsRow DEF Find, Rows, IInv, TypeInv, Routed, KeysOwned, RowKeys
  <2>2. /\ pc[r] = "find"
        /\ pc' = [pc EXCEPT ![r] = "upload"]
        /\ UNCHANGED <<row, bucket, minted, mishap, op, note, newKey>>
    BY <1>1 DEF Find, Goto, dbVars, r2Vars, jobVars
  <2>3. /\ Rows' = Rows
        /\ \A j : Referenced(j)' <=> Referenced(j)
    BY <2>2 DEF Rows, Exists, Referenced
  <2>4. /\ \A s \in Request : s # r => pc'[s] = pc[s] /\ oldKey'[s] = oldKey[s]
        /\ pc'[r] = "upload"
        /\ oldKey'[r] = k
    BY <1>1, <2>2 DEF IInv, TypeInv, TypeOK
  <2>5. \A s \in Request : Giving(s)' <=> Giving(s)
    BY <2>2, <2>4 DEF Giving
  <2>13. \A m \in Rows : row[m].key = k => m = note[r]
    BY <2>1 DEF IInv, KeysOwned, RowKeys
  <2> HIDE DEF k
  <2>6. RowKeys'
    BY <2>2, <2>3 DEF IInv, KeysOwned, RowKeys
  <2>7. LocalKeys'
    BY <2>1, <2>2, <2>4 DEF IInv, KeysOwned, LocalKeys
  <2>8. GivenKeys'
    <3>1. \A s \in Request : Giving(s) => newKey[s] # k
      BY <2>1 DEF IInv, KeysOwned, GivenKeys, Referenced, k
    <3>2. ASSUME NEW s \in Request, Giving(s)'
          PROVE  (/\ newKey[s] \in bucket
                  /\ ~Referenced(newKey[s])
                  /\ \A u \in Request : /\ u # s => newKey[u] # newKey[s]
                                        /\ oldKey[u] # newKey[s])'
      BY <3>1, <3>2, <2>2, <2>3, <2>4, <2>5 DEF IInv, KeysOwned, GivenKeys
    <3> QED
      BY <3>2 DEF GivenKeys, Giving
  <2>9. CleanedKeys'
    BY <2>2, <2>3, <2>4 DEF IInv, KeysOwned, CleanedKeys
  <2>10. ReplacedKeys'
    BY <2>1, <2>2, <2>3, <2>4, <2>13 DEF IInv, KeysOwned, ReplacedKeys
  <2>11. DeletedKeys'
    BY <2>2, <2>3, <2>4 DEF IInv, KeysOwned, DeletedKeys
  <2>12. EveryNoteHasItsFile'
    BY <2>2, <2>3 DEF IInv, EveryNoteHasItsFile
  <2> QED
    BY <2>6, <2>7, <2>8, <2>9, <2>10, <2>11, <2>12 DEF IInv, KeysOwned
<1>2. CASE \/ ~Exists(note[r]) /\ NoRow(r, "done")
          \/ DbError(r, "done", "failed")
  BY <1>2, StopKeeps, KeepsOwned DEF NoRow, DbError, Goto
<1> QED
  BY <1>1, <1>2 DEF Find

LEMMA UpdateFileOwned ==
  ASSUME IInv, TypeInv', NEW r \in Request, UpdateFile(r)
  PROVE  IInv'
<1>1. /\ Giving(r)
      /\ pc[r] = "updateFile"
      /\ note[r] \in Note
      /\ newKey[r] \in Key
  BY DEF UpdateFile, Giving, IInv, TypeInv, Routed
<1>2. ASSUME Exists(note[r]),
             row' = [row EXCEPT ![note[r]].key = newKey[r]],
             UNCHANGED <<audit, bucket, minted, jobVars, keyVars>>,
             NEW t \in {"deleteOld", "cleanup"},
             pc' = [pc EXCEPT ![r] = t],
             \A k \in Key : mishap[k] \subseteq mishap'[k],
             t = "cleanup" => "commitUnknown" \in mishap'[newKey[r]]
      PROVE  IInv'
  <2>1. row[note[r]] \in Row
    BY <1>1, <1>2, ExistsRow DEF IInv, TypeInv
  <2>2. row' = [row EXCEPT ![note[r]] = [row[note[r]] EXCEPT !.key = newKey[r]]]
    BY <1>2
  <2>3. PICK x \in Row : row' = [row EXCEPT ![note[r]] = x] /\ x.key = newKey[r]
    <3> DEFINE y == [row[note[r]] EXCEPT !.key = newKey[r]]
    <3>1. y \in Row /\ y.key = newKey[r]
      BY <1>1, <2>1 DEF Row
    <3>2. row' = [row EXCEPT ![note[r]] = y]
      BY <2>2
    <3> HIDE DEF y
    <3> QED
      BY <3>1, <3>2
  <2>4. /\ note[r] \in Rows'
        /\ row'[note[r]].key = newKey[r]
        /\ \A m \in Rows' \ {note[r]} : m \in Rows /\ row'[m].key = row[m].key
    BY <1>1, <2>3, NullAssumption DEF Rows, Exists, IInv, TypeInv, TypeOK
  <2> QED
    BY <1>1, <1>2, <2>4, GiveOwned DEF jobVars, keyVars
<1>3. ASSUME UNCHANGED mishap \/ Blame(row[note[r]].key, "overtaken")
      PROVE  \A k \in Key : mishap[k] \subseteq mishap'[k]
  BY <1>3 DEF Blame, IInv, TypeInv, TypeOK
<1>4. ASSUME mishap' = [k \in Key |->
               IF k \in {newKey[r], row[note[r]].key}
                 THEN mishap[k] \cup {"commitUnknown"} ELSE mishap[k]]
      PROVE  /\ \A k \in Key : mishap[k] \subseteq mishap'[k]
             /\ "commitUnknown" \in mishap'[newKey[r]]
  BY <1>1, <1>4
<1>5. ASSUME \/ ~Exists(note[r]) /\ NoRow(r, "cleanup")
            \/ DbError(r, "cleanup", "failed")
      PROVE  IInv'
  BY <1>1, <1>5, StopKeeps, KeepsOwned DEF NoRow, DbError, Goto
<1> QED
  BY <1>2, <1>3, <1>4, <1>5 DEF UpdateFile, Goto

LEMMA DeleteRowOwned ==
  ASSUME IInv, TypeInv', NEW r \in Request, DeleteRow(r)
  PROVE  IInv'
<1>1. note[r] \in Note /\ pc[r] = "deleteRow"
  BY DEF DeleteRow, IInv, TypeInv, Routed, Targets
<1>2. CASE \/ ~Deletable(note[r]) /\ NoRow(r, "done")
          \/ DbError(r, "done", "failed")
  BY <1>2, StopKeeps, KeepsOwned DEF NoRow, DbError, Goto
<1>3. CASE row' = [row EXCEPT ![note[r]] = Gone] /\ Deletable(note[r])
  <2>0. PICK k \in Key : k = row[note[r]].key
    BY <1>1, <1>3, ExistsRow DEF Deletable, Row, IInv, TypeInv
  <2>1. /\ note[r] \in Rows
        /\ k \in Key
        /\ k \in minted
        /\ \A n \in Rows : row[n].key = k => n = note[r]
    BY <1>1, <1>3, <2>0, ExistsRow DEF Deletable, Rows, IInv, TypeInv, KeysOwned, RowKeys
  <2>2. /\ Rows' = Rows \ {note[r]}
        /\ \A n \in Rows' : row'[n] = row[n]
    BY <1>1, <1>3, NullAssumption DEF Rows, Exists, IInv, TypeInv, TypeOK
  <2>3. /\ \A j : Referenced(j)' => Referenced(j)
        /\ ~Referenced(k)'
    BY <2>1, <2>2 DEF Referenced
  <2>4. \A s \in Request : Giving(s) => newKey[s] # k
    BY <2>0, <2>1 DEF IInv, KeysOwned, GivenKeys, Referenced
  <2>5. UNCHANGED <<bucket, minted, op, note, newKey>>
    BY <1>3 DEF DeleteRow, NoRow, DbError, r2Vars, jobVars, keyVars
  <2>6. \/ /\ oldKey' = [oldKey EXCEPT ![r] = k]
           /\ pc' = [pc EXCEPT ![r] = "deleteObject"]
        \/ /\ UNCHANGED oldKey
           /\ pc' = [pc EXCEPT ![r] = "done"]
    BY <1>3, <2>0 DEF DeleteRow, NoRow, DbError, keyVars, Goto, Return
  <2>7. \A j \in Key : mishap[j] \subseteq mishap'[j]
    BY <1>3 DEF DeleteRow, NoRow, DbError, r2Vars, Blame, IInv, TypeInv, TypeOK
  <2>8. /\ \A s \in Request : s # r => pc'[s] = pc[s] /\ oldKey'[s] = oldKey[s]
        /\ \/ pc'[r] = "deleteObject" /\ oldKey'[r] = k
           \/ pc'[r] = "done" /\ oldKey'[r] = oldKey[r]
    BY <2>6 DEF IInv, TypeInv, TypeOK
  <2>9. \A s \in Request : Giving(s)' => Giving(s)
    BY <2>8 DEF Giving
  <2>10. RowKeys'
    BY <2>2, <2>5 DEF IInv, KeysOwned, RowKeys
  <2>11. LocalKeys'
    BY <2>1, <2>5, <2>8 DEF IInv, KeysOwned, LocalKeys
  <2>12. GivenKeys'
    <3>1. ASSUME NEW s \in Request, Giving(s)'
          PROVE  (/\ newKey[s] \in bucket
                  /\ ~Referenced(newKey[s])
                  /\ \A u \in Request : /\ u # s => newKey[u] # newKey[s]
                                        /\ oldKey[u] # newKey[s])'
      BY <3>1, <2>3, <2>4, <2>5, <2>8, <2>9 DEF IInv, KeysOwned, GivenKeys
    <3> QED
      BY <3>1 DEF GivenKeys, Giving
  <2>13. CleanedKeys'
    BY <2>3, <2>5, <2>7, <2>8 DEF IInv, KeysOwned, CleanedKeys
  <2>14. ReplacedKeys'
    BY <2>2, <2>5, <2>8 DEF IInv, KeysOwned, ReplacedKeys
  <2>15. DeletedKeys'
    BY <2>1, <2>3, <2>5, <2>8 DEF IInv, KeysOwned, DeletedKeys
  <2>16. EveryNoteHasItsFile'
    BY <2>2, <2>5, <2>7, ExistsRow DEF IInv, EveryNoteHasItsFile, TypeInv, Rows
  <2> QED
    BY <2>10, <2>11, <2>12, <2>13, <2>14, <2>15, <2>16 DEF IInv, KeysOwned
<1> QED
  BY <1>2, <1>3 DEF DeleteRow

LEMMA InitIInv == Init => IInv
<1> SUFFICES ASSUME Init PROVE IInv
  OBVIOUS
<1>1. TypeInv
  BY InitTypeInv
<1>2. RowKeys
  BY DEF Init, RowKeys
<1>3. EveryNoteHasItsFile
  BY DEF Init, EveryNoteHasItsFile
<1>4. LocalKeys /\ GivenKeys /\ CleanedKeys /\ ReplacedKeys /\ DeletedKeys
  BY DEF Init, LocalKeys, GivenKeys, CleanedKeys, ReplacedKeys, DeletedKeys, Giving
<1> QED
  BY <1>1, <1>2, <1>3, <1>4 DEF IInv, KeysOwned

LEMMA NextIInv == IInv /\ [Next]_vars => IInv'
<1> SUFFICES ASSUME IInv, [Next]_vars
             PROVE  IInv'
  OBVIOUS
<1>1. TypeInv'
  BY NextTypeInv DEF IInv
<1>2. ASSUME NEW r \in Request,
             Start(r) \/ Reject(r) \/ Cleanup(r) \/ DeleteOld(r) \/ DeleteFile(r)
               \/ Update(r) \/ Archive(r) \/ Unarchive(r) \/ WriteAudit(r)
               \/ Crash(r)
      PROVE  IInv'
  BY <1>1, <1>2, KeepsOwned, StartKeeps, RejectKeeps, CleanupKeeps, DeleteKeeps,
     UpdateKeeps, ArchiveKeeps, UnarchiveKeeps, WriteAuditKeeps, CrashKeeps
<1>3. ASSUME NEW r \in Request,
             Upload(r) \/ Insert(r) \/ Find(r) \/ UpdateFile(r) \/ DeleteRow(r)
      PROVE  IInv'
  BY <1>1, <1>3, UploadOwned, InsertOwned, FindOwned, UpdateFileOwned, DeleteRowOwned
<1>4. CASE UNCHANGED vars
  BY <1>4 DEF vars, IInv, TypeInv, TypeOK, Routed, Targets, Giving, KeysOwned, RowKeys,
     LocalKeys, GivenKeys, CleanedKeys, ReplacedKeys, DeletedKeys,
     EveryNoteHasItsFile, Rows, Exists, Referenced
<1> QED
  BY <1>2, <1>3, <1>4 DEF Next, Handle, Terminated

(* No interleaving of the handlers and no failure of a call, short of a    *)
(* statement that commits while its caller sees an error, leaves a note    *)
(* without its file.                                                       *)
THEOREM FilesSafe == Spec => []EveryNoteHasItsFile
<1>1. Spec => []IInv
  BY InitIInv, NextIInv, PTL DEF Spec
<1> QED
  BY <1>1, PTL DEF IInv

-----------------------------------------------------------------------------
(* Why an object is in R2.                                                 *)

(* A step of request r after which every object it knew of, or brought, is *)
(* in a row, in its hands, or met a mishap.                                *)
Accounts(r) ==
  /\ \A s \in Request \ {r} : /\ pc'[s] = pc[s]
                              /\ newKey'[s] = newKey[s]
                              /\ oldKey'[s] = oldKey[s]
  /\ \A k \in Key : mishap[k] \subseteq mishap'[k]
  /\ \A k \in bucket' :
       k \notin bucket \/ Referenced(k) \/ Holds(r, k) =>
         Referenced(k)' \/ mishap'[k] # {} \/ Holds(r, k)'

LEMMA AccountedExplained ==
  ASSUME TypeInv, TypeInv', OrphansExplained, NEW r \in Request, Accounts(r)
  PROVE  OrphansExplained'
<1> SUFFICES ASSUME NEW k \in bucket', ~Referenced(k)', ~(mishap'[k] # {})
             PROVE  \E s \in Request : Holds(s, k)'
  BY DEF OrphansExplained
<1>1. CASE k \notin bucket \/ Referenced(k) \/ Holds(r, k)
  BY <1>1 DEF Accounts
<1>2. CASE k \in bucket /\ ~Referenced(k) /\ ~Holds(r, k)
  <2>1. mishap[k] = {}
    BY <1>2 DEF Accounts, TypeInv, TypeOK
  <2>2. PICK s \in Request : Holds(s, k)
    BY <1>2, <2>1 DEF OrphansExplained
  <2>3. s # r
    BY <1>2, <2>2
  <2> QED
    BY <2>2, <2>3 DEF Accounts, Holds
<1> QED
  BY <1>1, <1>2

(* Steps that touch neither row, nor bucket, nor keys: the request must    *)
(* not let go of a key, which it has at some of the statements only.       *)
LEMMA SameKeysAccount ==
  ASSUME TypeInv, NEW r \in Request, UNCHANGED <<row, r2Vars, keyVars>>,
         NEW t \in Step, pc' = [pc EXCEPT ![r] = t],
         \/ pc[r] \notin {"insert", "insertCopy", "updateFile", "cleanup",
                          "deleteOld", "deleteObject", "crashed"}
         \/ Giving(r) /\ t \in {"insertCopy", "cleanup"}
         \/ t = "crashed"
  PROVE  Accounts(r)
<1>1. \A k : Referenced(k)' <=> Referenced(k)
  BY SameRows DEF Referenced, Rows
<1> QED
  BY <1>1 DEF Accounts, Holds, Giving, TypeInv, TypeOK, r2Vars, keyVars

(* DeleteObject leaves no object behind without a mishap.                  *)
LEMMA DeleteObjectAccounts ==
  ASSUME TypeInv, NEW r \in Request, NEW k \in Key \cup {Nothing},
         NEW erred \in BOOLEAN, DeleteObject(k, erred),
         \A j \in Key : Holds(r, j) => j = k,
         NEW t \in Step, pc' = [pc EXCEPT ![r] = t],
         UNCHANGED <<dbVars, keyVars>>
  PROVE  Accounts(r)
<1>1. /\ \A j : Referenced(j)' <=> Referenced(j)
      /\ bucket' \subseteq bucket
      /\ bucket \subseteq Key
  BY SameRows DEF Referenced, Rows, DeleteObject, dbVars, TypeInv, TypeOK
<1>2. \A j \in Key : mishap[j] \subseteq mishap'[j]
  BY DEF DeleteObject, Blame, TypeInv, TypeOK
<1>3. ASSUME k \in bucket' PROVE mishap'[k] # {}
  BY <1>1, <1>3 DEF DeleteObject, Blame, TypeInv, TypeOK
<1> QED
  BY <1>1, <1>2, <1>3 DEF Accounts, TypeInv, TypeOK, keyVars

LEMMA DeletionsAccount ==
  ASSUME TypeInv, NEW r \in Request, Cleanup(r) \/ DeleteOld(r) \/ DeleteFile(r)
  PROVE  Accounts(r)
<1>0. newKey[r] \in Key \cup {Nothing} /\ oldKey[r] \in Key \cup {Nothing}
  BY DEF TypeInv, TypeOK
<1>1. CASE Cleanup(r)
  <2>1. \A j \in Key : Holds(r, j) => j = newKey[r]
    BY <1>1 DEF Cleanup, Holds
  <2> QED
    BY <1>0, <1>1, <2>1, DeleteObjectAccounts DEF Cleanup, Goto, Step
<1>2. CASE DeleteOld(r) \/ DeleteFile(r)
  <2>1. \A j \in Key : Holds(r, j) => j = oldKey[r]
    BY <1>2 DEF DeleteOld, DeleteFile, Holds
  <2>2. PICK erred \in BOOLEAN : DeleteObject(oldKey[r], erred)
    BY <1>2 DEF DeleteOld, DeleteFile, ReplacedKey
  <2>3. PICK t \in {"audit", "done"} : pc' = [pc EXCEPT ![r] = t]
    BY <1>2 DEF DeleteOld, DeleteFile, Goto, Return
  <2>4. UNCHANGED <<dbVars, keyVars>>
    BY <1>2 DEF DeleteOld, DeleteFile
  <2> QED
    BY <1>0, <2>1, <2>2, <2>3, <2>4, DeleteObjectAccounts DEF Step
<1> QED
  BY <1>1, <1>2

LEMMA UploadAccounts ==
  ASSUME TypeInv, NEW r \in Request, Upload(r)
  PROVE  Accounts(r)
<1> PICK k \in Key \ minted :
      /\ newKey' = [newKey EXCEPT ![r] = k]
      /\ \/ /\ bucket' = bucket \cup {k}
            /\ pc' = [pc EXCEPT ![r] = IF op[r] = "ReplaceFile" THEN "updateFile"
                                                               ELSE "insert"]
            /\ UNCHANGED mishap
         \/ /\ pc' = [pc EXCEPT ![r] = "done"]
            /\ UNCHANGED <<bucket, mishap>>
         \/ /\ pc' = [pc EXCEPT ![r] = "done"]
            /\ bucket' = bucket \cup {k}
            /\ mishap' = [mishap EXCEPT ![k] = @ \cup {"putFailed"}]
  BY DEF Upload, Return, Goto, Blame
<1>1. /\ pc[r] = "upload"
      /\ UNCHANGED oldKey
      /\ \A j : Referenced(j)' <=> Referenced(j)
  BY SameRows DEF Upload, Referenced, Rows, dbVars
<1>2. /\ \A j : ~Holds(r, j)
      /\ \A j \in Key : mishap[j] \subseteq mishap'[j]
  BY <1>1 DEF Holds, TypeInv, TypeOK
<1>3. ASSUME k \in bucket', k \notin bucket
      PROVE  mishap'[k] # {} \/ Holds(r, k)'
  BY <1>3 DEF Holds, TypeInv, TypeOK
<1> QED
  BY <1>1, <1>2, <1>3 DEF Accounts, TypeInv, TypeOK

LEMMA InsertAccounts ==
  ASSUME TypeInv, NEW r \in Request, Insert(r)
  PROVE  Accounts(r)
<1>1. /\ pc[r] \in {"insert", "insertCopy"}
      /\ newKey[r] \in Key
      /\ UNCHANGED <<bucket, minted, jobVars, keyVars>>
  BY DEF Insert, TypeInv, Routed, Giving
<1>2. CASE UNCHANGED <<dbVars, mishap>> /\ (TitleTaken(r) \/ Goto(r, "cleanup"))
  BY <1>1, <1>2, SameKeysAccount DEF TitleTaken, Goto, Giving, Step, dbVars, r2Vars
<1>3. ASSUME NEW n \in Note, NEW p \in Place, InsertRow(r, n, p),
             UNCHANGED mishap \/ Blame(newKey[r], "commitUnknown"),
             NEW t \in Step, Goto(r, t)
      PROVE  Accounts(r)
  <2>1. PICK x : x.key = newKey[r] /\ x \in Row /\ row' = [row EXCEPT ![n] = x]
    <3> PICK pub \in BOOLEAN :
          row' = [row EXCEPT ![n] = [key |-> newKey[r], place |-> p,
                                     published |-> pub, archived |-> FALSE]]
      BY <1>3 DEF InsertRow
    <3> DEFINE x == [key |-> newKey[r], place |-> p, published |-> pub,
                     archived |-> FALSE]
    <3> x \in Row /\ x.key = newKey[r]
      BY <1>1 DEF Row
    <3> QED
      OBVIOUS
  <2>2. /\ Referenced(newKey[r])'
        /\ \A j : Referenced(j) => Referenced(j)'
    <3>1. /\ n \in Rows' /\ row'[n].key = newKey[r]
          /\ \A m \in Rows : m \in Rows' /\ row'[m] = row[m]
      BY <1>3, <2>1, NullAssumption DEF InsertRow, Rows, Exists, TypeInv, TypeOK
    <3> QED
      BY <1>1, <3>1 DEF Referenced, keyVars
  <2>3. \A j : Holds(r, j) => j = newKey[r]
    BY <1>1 DEF Holds
  <2>4. \A j \in Key : mishap[j] \subseteq mishap'[j]
    BY <1>1, <1>3 DEF Blame, TypeInv, TypeOK
  <2> QED
    BY <1>1, <1>3, <2>2, <2>3, <2>4 DEF Accounts, Goto, TypeInv, TypeOK, keyVars
<1> QED
  BY <1>2, <1>3 DEF Insert, Step

LEMMA FindAccounts ==
  ASSUME TypeInv, NEW r \in Request, Find(r)
  PROVE  Accounts(r)
<1>1. /\ pc[r] = "find"
      /\ UNCHANGED <<row, bucket, mishap, newKey>>
      /\ \A s \in Request \ {r} : pc'[s] = pc[s] /\ oldKey'[s] = oldKey[s]
  BY DEF Find, NoRow, DbError, Goto, dbVars, r2Vars, keyVars, TypeInv, TypeOK
<1>2. \A j : (Referenced(j)' <=> Referenced(j)) /\ ~Holds(r, j)
  BY <1>1, SameRows DEF Referenced, Rows, Holds
<1> QED
  BY <1>1, <1>2 DEF Accounts, TypeInv, TypeOK

(* The key a row gives up is deleted next, or nobody knows of it.          *)
LEMMA UpdateFileAccounts ==
  ASSUME TypeInv, NEW r \in Request, UpdateFile(r)
  PROVE  Accounts(r)
<1> PICK n \in Note : n = note[r]
  BY DEF UpdateFile, TypeInv, Routed
<1> PICK displaced : displaced = row[n].key
  OBVIOUS
<1>1. /\ pc[r] = "updateFile" /\ Giving(r)
      /\ newKey[r] \in Key
  BY DEF UpdateFile, Giving, TypeInv, Routed
<1>2. CASE (~Exists(n) /\ NoRow(r, "cleanup")) \/ DbError(r, "cleanup", "failed")
  BY <1>1, <1>2, SameKeysAccount DEF NoRow, DbError, Goto, Step, dbVars
<1>3. CASE /\ Exists(n)
           /\ row' = [row EXCEPT ![n].key = newKey[r]]
           /\ \/ /\ Goto(r, "deleteOld")
                 /\ IF displaced = oldKey[r]
                      THEN UNCHANGED mishap
                      ELSE Blame(displaced, "overtaken")
              \/ /\ Goto(r, "cleanup")
                 /\ mishap' = [k \in Key |->
                      IF k \in {newKey[r], displaced}
                        THEN mishap[k] \cup {"commitUnknown"} ELSE mishap[k]]
           /\ UNCHANGED <<audit, bucket, minted, jobVars, keyVars>>
  <2>1. row[n] \in Row /\ displaced \in Key
    BY <1>1, <1>3, ExistsRow DEF TypeInv
  <2>2. /\ n \in Rows'
        /\ row'[n].key = newKey[r]
        /\ \A m \in Rows \ {n} : m \in Rows' /\ row'[m] = row[m]
    <3> DEFINE y == [row[n] EXCEPT !.key = newKey[r]]
    <3>1. y \in Row /\ y.key = newKey[r]
      BY <1>1, <2>1 DEF Row
    <3>2. row' = [row EXCEPT ![n] = y]
      BY <1>3
    <3> HIDE DEF y
    <3> QED
      BY <1>1, <3>1, <3>2, NullAssumption DEF Rows, Exists, TypeInv, TypeOK
  <2>3. /\ Referenced(newKey[r])'
        /\ \A j : Referenced(j) => Referenced(j)' \/ j = displaced
    BY <1>1, <1>3, <2>2 DEF Referenced, keyVars
  <2>4. \A j : Holds(r, j) => j = newKey[r]
    BY <1>1 DEF Holds
  <2>5. /\ \A j \in Key : mishap[j] \subseteq mishap'[j]
        /\ mishap'[displaced] # {} \/ Holds(r, displaced)'
        /\ mishap'[newKey[r]] # {} \/ Referenced(newKey[r])'
    <3>1. CASE Goto(r, "deleteOld")
      BY <1>3, <2>1, <2>3, <3>1 DEF Blame, Goto, Holds, keyVars, TypeInv, TypeOK
    <3>2. CASE Goto(r, "cleanup")
      BY <1>1, <1>3, <2>1, <2>3, <3>2 DEF Goto, TypeInv, TypeOK
    <3> QED
      BY <1>3, <3>1, <3>2
  <2>6. \A s \in Request \ {r} : pc'[s] = pc[s]
    BY <1>3 DEF Goto, TypeInv, TypeOK
  <2> QED
    BY <1>3, <2>3, <2>4, <2>5, <2>6 DEF Accounts, keyVars, TypeInv, TypeOK
<1> QED
  BY <1>2, <1>3 DEF UpdateFile

(* UPDATE statements that leave the file of the row alone.                 *)
LEMMA MetadataAccounts ==
  ASSUME IInv, NEW r \in Request, Update(r) \/ Archive(r) \/ Unarchive(r)
  PROVE  Accounts(r)
<1>1. /\ pc[r] \in {"update", "archive", "unarchive"}
      /\ UNCHANGED <<r2Vars, keyVars>>
      /\ \A s \in Request \ {r} : pc'[s] = pc[s]
  BY DEF Update, Archive, Unarchive, SetArchived, NoRow, DbError, Return, Goto,
     IInv, TypeInv, TypeOK
<1>2. note[r] \in Note
  BY <1>1 DEF IInv, TypeInv, Routed, Targets
<1>3. \A n \in Rows : n \in Rows' /\ row'[n].key = row[n].key
  <2>1. CASE UNCHANGED row
    BY <2>1, SameRows
  <2>2. CASE row' # row
    <3> DEFINE x == row[note[r]]
    <3>1. x \in Row
      BY <1>2, <2>2, ExistsRow
         DEF Update, Archive, Unarchive, SetArchived, NoRow, DbError, dbVars,
             IInv, TypeInv
    <3>2. /\ \A p \in Place, pub \in BOOLEAN :
               LET y == [x EXCEPT !.place = p, !.published = pub]
               IN y \in Row /\ y.key = x.key
          /\ LET y == [x EXCEPT !.archived = TRUE, !.published = FALSE]
             IN y \in Row /\ y.key = x.key
          /\ LET y == [x EXCEPT !.archived = FALSE]
             IN y \in Row /\ y.key = x.key
      BY <3>1 DEF Row
    <3>3. PICK y \in Row : y.key = x.key /\ row' = [row EXCEPT ![note[r]] = y]
      <4>1. CASE Update(r)
        BY <2>2, <3>2, <4>1 DEF Update, NoRow, dbVars
      <4>2. CASE Archive(r)
        BY <2>2, <3>2, <4>2 DEF Archive, SetArchived, NoRow, DbError, dbVars
      <4>3. CASE Unarchive(r)
        BY <2>2, <3>2, <4>3 DEF Unarchive, SetArchived, NoRow, DbError, dbVars
      <4> QED
        BY <4>1, <4>2, <4>3
    <3> QED
      BY <1>2, <3>3, NullAssumption DEF Rows, Exists, IInv, TypeInv, TypeOK
  <2> QED
    BY <2>1, <2>2
<1>4. \A j : Referenced(j) => Referenced(j)'
  BY <1>3 DEF Referenced
<1> QED
  BY <1>1, <1>4 DEF Accounts, Holds, r2Vars, keyVars, IInv, TypeInv, TypeOK

(* The file of a deleted row is deleted next.                              *)
LEMMA DeleteRowAccounts ==
  ASSUME TypeInv, NEW r \in Request, DeleteRow(r)
  PROVE  Accounts(r)
<1> PICK n \in Note : n = note[r]
  BY DEF DeleteRow, TypeInv, Routed, Targets
<1> PICK k : k = row[n].key
  OBVIOUS
<1>1. /\ pc[r] = "deleteRow"
      /\ \A j : ~Holds(r, j)
  BY DEF DeleteRow, Holds, TypeInv, Routed, Targets
<1>2. CASE (~Deletable(n) /\ NoRow(r, "done")) \/ DbError(r, "done", "failed")
  BY <1>1, <1>2, SameKeysAccount DEF NoRow, DbError, Goto, Step, dbVars
<1>3. CASE /\ Deletable(n)
           /\ row' = [row EXCEPT ![n] = Gone]
           /\ \/ /\ oldKey' = [oldKey EXCEPT ![r] = k]
                 /\ Goto(r, "deleteObject")
                 /\ UNCHANGED mishap
              \/ /\ Goto(r, "done")
                 /\ Blame(k, "commitUnknown")
                 /\ UNCHANGED oldKey
           /\ UNCHANGED <<bucket, newKey>>
  <2>1. k \in Key
    BY <1>1, <1>3, ExistsRow DEF Deletable, TypeInv
  <2>2. \A j : Referenced(j) => Referenced(j)' \/ j = k
    <3>1. \A m \in Rows \ {n} : m \in Rows' /\ row'[m] = row[m]
      BY <1>3 DEF Rows, Exists, TypeInv, TypeOK
    <3> QED
      BY <3>1 DEF Referenced
  <2>3. /\ \A j \in Key : mishap[j] \subseteq mishap'[j]
        /\ mishap'[k] # {} \/ Holds(r, k)'
    BY <1>3, <2>1 DEF Blame, Goto, Holds, TypeInv, TypeOK
  <2>4. \A s \in Request \ {r} : pc'[s] = pc[s] /\ oldKey'[s] = oldKey[s]
    BY <1>3 DEF Goto, TypeInv, TypeOK
  <2> QED
    BY <1>1, <1>3, <2>2, <2>3, <2>4 DEF Accounts, TypeInv, TypeOK
<1> QED
  BY <1>2, <1>3 DEF DeleteRow, Return

LEMMA OthersAccount ==
  ASSUME TypeInv, NEW r \in Request,
         Start(r) \/ Reject(r) \/ WriteAudit(r) \/ Crash(r)
  PROVE  Accounts(r)
<1>1. UNCHANGED <<row, r2Vars, keyVars>>
  BY DEF Start, Reject, WriteAudit, Crash, dbVars
<1>2. CASE Reject(r) \/ WriteAudit(r) \/ Crash(r)
  BY <1>1, <1>2, SameKeysAccount DEF Reject, WriteAudit, Crash, Return, Goto, Step
<1>3. CASE Start(r)
  <2> PICK o \in Serves[r] : pc' = [pc EXCEPT ![r] = FirstStep(o)]
    BY <1>3 DEF Start, Goto
  <2>1. FirstStep(o) \in Step
    BY ServesAssumption DEF FirstStep, Op, Step
  <2> QED
    BY <1>1, <1>3, <2>1, SameKeysAccount DEF Start
<1> QED
  BY <1>2, <1>3

LEMMA StepAccounts ==
  ASSUME IInv, NEW r \in Request, Start(r) \/ Handle(r) \/ Crash(r)
  PROVE  Accounts(r)
BY OthersAccount, DeletionsAccount, UploadAccounts, InsertAccounts, FindAccounts,
   UpdateFileAccounts, MetadataAccounts, DeleteRowAccounts DEF Handle, IInv

LEMMA NextExplained == IInv /\ OrphansExplained /\ [Next]_vars => OrphansExplained'
<1> SUFFICES ASSUME IInv, OrphansExplained, [Next]_vars
             PROVE  OrphansExplained'
  OBVIOUS
<1>1. TypeInv /\ TypeInv'
  BY NextTypeInv DEF IInv
<1>2. ASSUME NEW r \in Request, Start(r) \/ Handle(r) \/ Crash(r)
      PROVE  OrphansExplained'
  <2>1. Accounts(r)
    BY <1>2, StepAccounts
  <2> QED
    BY <1>1, <2>1, AccountedExplained
<1>3. CASE UNCHANGED vars
  BY <1>3 DEF vars, OrphansExplained, Referenced, Rows, Exists, Holds
<1> QED
  BY <1>2, <1>3 DEF Next, Terminated

LEMMA AlwaysIInv == Spec => []IInv
BY InitIInv, NextIInv, PTL DEF Spec

(* An object in R2 that no row refers to is in the hands of a request that *)
(* deletes it or gives it to a row, or one of the named mishaps happened   *)
(* to it: no overlap of requests leaks storage in any other way.           *)
THEOREM OrphansAccountedFor == Spec => []OrphansExplained
<1>1. Init => OrphansExplained
  BY DEF Init, OrphansExplained, Referenced
<1> QED
  BY <1>1, NextExplained, AlwaysIInv, PTL DEF Spec

-----------------------------------------------------------------------------
(* What the admin and the audit log are told.                              *)

Statements == {"Update", "Archive", "Unarchive", "DeleteArchived"}

(* No note was changed, the images of a ZIP and lost commits aside.        *)
Unwritten(r) ==
  wrote[r] # {} =>
    \/ op[r] = "StoreZip"
    \/ op[r] \in Statements /\ reply[r] = "failed" /\ "dbAck" \in Fault
    \/ newKey[r] \in Key /\ "commitUnknown" \in mishap[newKey[r]]

(* The old file could not be deleted, or is in doubt.                      *)
Reprieved(r) == oldKey[r] \in Key /\ "deleteFailed" \in mishap[oldKey[r]]

(* The note of the request is deleted.                                     *)
Removed(r) == note[r] \in Note /\ row[note[r]] = Gone

(* What an entry of the audit log says of the request.                     *)
Claim(r) ==
  /\ wrote[r] # {}
  /\ op[r] = "DeleteArchived" => Removed(r)
  /\ op[r] = "ReplaceFile" => oldKey[r] \notin bucket

(* Which handler is at which statement, further than Routed has it.        *)
Handling(r) ==
  /\ pc[r] = "upload" => op[r] \in {"Store", "StoreZip", "ReplaceFile"}
  /\ pc[r] \in {"insert", "insertCopy"} => op[r] \in {"Store", "StoreZip"}
  /\ pc[r] = "update" => op[r] = "Update"
  /\ pc[r] = "archive" => op[r] = "Archive"
  /\ pc[r] = "unarchive" => op[r] = "Unarchive"
  /\ pc[r] \in {"deleteRow", "deleteObject"} => op[r] = "DeleteArchived"

(* What a request has done and said at each statement.                     *)
Reported(r) ==
  /\ Handling(r)
  /\ pc[r] = "idle" => wrote[r] = {}
  /\ pc[r] \in {"idle", "upload", "find"} \/ Targets(r) \/ Giving(r) =>
       reply[r] = "none" /\ (op[r] # "StoreZip" => wrote[r] = {})
  /\ pc[r] = "cleanup" => reply[r] \in Errors /\ Unwritten(r)
  /\ pc[r] \in {"deleteOld", "deleteObject"} => wrote[r] # {}
  /\ pc[r] = "deleteObject" => Removed(r)
  /\ pc[r] \in {"audit", "done"} =>
       /\ reply[r] \in {"replaced", "deleted"} => oldKey[r] \notin bucket
       /\ op[r] = "DeleteArchived" /\ reply[r] \in {"deleted", "cleanupFailed"} =>
            Removed(r)
       /\ reply[r] = "cleanupFailed" => Reprieved(r)
       /\ reply[r] \in Errors => Unwritten(r)
  /\ pc[r] = "audit" => Claim(r)
  /\ \A o \in Op : <<r, o>> \in audit => pc[r] = "done" /\ o = op[r] /\ Claim(r)

Honest == \A r \in Request : Reported(r)

(* A step of r is of no concern to the other requests: what is gone stays  *)
(* gone, be it a row or an object, and no mishap is forgotten.             *)
Local(r) ==
  /\ \A s \in Request \ {r} :
       /\ pc'[s] = pc[s] /\ op'[s] = op[s] /\ note'[s] = note[s]
       /\ newKey'[s] = newKey[s] /\ oldKey'[s] = oldKey[s]
       /\ wrote'[s] = wrote[s] /\ reply'[s] = reply[s]
       /\ \A o \in Op : <<s, o>> \in audit' => <<s, o>> \in audit
  /\ \A n \in Note : row[n] = Gone => row'[n] = Gone
  /\ bucket' \cap (minted \cup {Nothing}) \subseteq bucket
  /\ \A k \in Key : mishap[k] \subseteq mishap'[k]

LEMMA LocalHonest ==
  ASSUME IInv, Honest, NEW r \in Request, Local(r), Reported(r)'
  PROVE  Honest'
<1> SUFFICES ASSUME NEW s \in Request, s # r PROVE Reported(s)'
  BY DEF Honest
<1>1. /\ Reported(s)
      /\ oldKey[s] \in minted \cup {Nothing}
  BY DEF Honest, IInv, KeysOwned, LocalKeys
<1>2. /\ pc'[s] = pc[s] /\ op'[s] = op[s] /\ note'[s] = note[s]
      /\ newKey'[s] = newKey[s] /\ oldKey'[s] = oldKey[s]
      /\ wrote'[s] = wrote[s] /\ reply'[s] = reply[s]
      /\ \A o \in Op : <<s, o>> \in audit' => <<s, o>> \in audit
  BY DEF Local
<1>3. oldKey[s] \notin bucket => oldKey'[s] \notin bucket'
  BY <1>1, <1>2 DEF Local
<1>4. Removed(s) => Removed(s)'
  BY <1>2 DEF Local, Removed
<1>5. /\ wrote'[s] = wrote[s] /\ op'[s] = op[s]
      /\ Claim(s) => Claim(s)'
      /\ Unwritten(s) => Unwritten(s)'
      /\ Reprieved(s) => Reprieved(s)'
  BY <1>2, <1>3, <1>4 DEF Claim, Unwritten, Reprieved, Local
<1> QED
  BY <1>1, <1>2, <1>3, <1>4, <1>5
  DEF Reported, Handling, Targets, Giving

(* Only INSERT brings a row back from nothing, and only from one that      *)
(* never was; only uploads bring objects, under keys that never were.      *)
LEMMA StepLocal ==
  ASSUME IInv, NEW r \in Request, Start(r) \/ Handle(r) \/ Crash(r)
  PROVE  Local(r)
<1>1. \A s \in Request \ {r} :
        /\ pc'[s] = pc[s] /\ op'[s] = op[s] /\ note'[s] = note[s]
        /\ oldKey'[s] = oldKey[s] /\ wrote'[s] = wrote[s] /\ reply'[s] = reply[s]
  <2>1. CASE Start(r) \/ Reject(r) \/ Upload(r) \/ Cleanup(r) \/ DeleteOld(r)
               \/ DeleteFile(r) \/ Find(r) \/ WriteAudit(r) \/ Crash(r)
    BY <2>1 DEF Start, Reject, Upload, Cleanup, DeleteOld, DeleteFile, Find,
       WriteAudit, Crash, NoRow, DbError, Return, Goto, Tell, jobVars, keyVars,
       IInv, TypeInv, TypeOK
  <2>2. CASE Insert(r) \/ UpdateFile(r)
    BY <2>2 DEF Insert, InsertRow, TitleTaken, UpdateFile, NoRow, DbError, Wrote,
       Goto, Tell, jobVars, keyVars, IInv, TypeInv, TypeOK
  <2>3. CASE Update(r) \/ Archive(r) \/ Unarchive(r) \/ DeleteRow(r)
    BY <2>3 DEF Update, Archive, Unarchive, SetArchived, DeleteRow, NoRow, DbError,
       Wrote, Return, Goto, Tell, jobVars, keyVars, IInv, TypeInv, TypeOK
  <2> QED
    BY <2>1, <2>2, <2>3 DEF Handle
<1>2. \A s \in Request \ {r}, o \in Op : <<s, o>> \in audit' => <<s, o>> \in audit
  <2>1. audit' = audit \/ audit' = audit \cup {<<r, op[r]>>}
    BY DEF Handle, Start, Reject, Upload, Cleanup, DeleteOld, DeleteFile, Insert,
       InsertRow, Find, UpdateFile, Update, Archive, Unarchive, SetArchived, DeleteRow,
       WriteAudit, Crash, NoRow, DbError, dbVars
  <2> QED
    BY <2>1
<1>3. \A n \in Note : row[n] = Gone => row'[n] = Gone
  <2>1. CASE UNCHANGED row
    BY <2>1
  <2>2. CASE \E n \in Note : row[n] # Gone /\ row' = [row EXCEPT ![n] = row'[n]]
    BY <2>2 DEF IInv, TypeInv, TypeOK
  <2>3. UNCHANGED row \/ Insert(r) \/ UpdateFile(r) \/ Update(r) \/ Archive(r)
           \/ Unarchive(r) \/ DeleteRow(r)
    BY DEF Handle, Start, Reject, Upload, Cleanup, DeleteOld, DeleteFile, Find,
       WriteAudit, Crash, NoRow, DbError, dbVars
  <2>4. CASE Insert(r)
    BY <2>1, <2>2, <2>4, NullAssumption DEF Insert, InsertRow, dbVars, IInv, TypeInv, TypeOK
  <2>5. CASE UpdateFile(r) \/ Update(r) \/ Archive(r) \/ Unarchive(r) \/ DeleteRow(r)
    <3>1. note[r] \in Note
      BY <2>5 DEF UpdateFile, Update, Archive, Unarchive, SetArchived, DeleteRow,
         IInv, TypeInv, Routed, Targets
    <3>2. CASE UNCHANGED row
      BY <3>2
    <3>3. CASE Exists(note[r]) /\ row' = [row EXCEPT ![note[r]] = row'[note[r]]]
      BY <3>1, <3>3 DEF Exists, IInv, TypeInv, TypeOK
    <3> QED
      BY <2>5, <3>1, <3>2, <3>3
      DEF UpdateFile, Update, Archive, Unarchive, SetArchived, DeleteRow, Deletable,
          NoRow, DbError, dbVars, IInv, TypeInv, TypeOK
  <2> QED
    BY <2>1, <2>3, <2>4, <2>5
<1>4. bucket' \cap (minted \cup {Nothing}) \subseteq bucket
  <2>1. \/ bucket' \subseteq bucket
        \/ \E k \in Key \ minted : bucket' = bucket \cup {k}
    BY DEF Handle, Start, Reject, Upload, Cleanup, DeleteOld, DeleteFile, DeleteObject,
       Insert, Find, UpdateFile, Update, Archive, Unarchive, SetArchived, DeleteRow,
       WriteAudit, Crash, NoRow, DbError, r2Vars
  <2> QED
    BY <2>1, NullAssumption
<1>5. /\ \A s \in Request \ {r} : newKey'[s] = newKey[s]
      /\ \A k \in Key : mishap[k] \subseteq mishap'[k]
  BY StepAccounts DEF Accounts
<1> QED
  BY <1>1, <1>2, <1>3, <1>4, <1>5 DEF Local

(* What r itself has after each kind of step.                              *)
LEMMA StartReported ==
  ASSUME IInv, Honest, NEW r \in Request, Start(r)
  PROVE  Reported(r)'
<1> PICK o \in Serves[r] :
      /\ op' = [op EXCEPT ![r] = o]
      /\ pc' = [pc EXCEPT ![r] = FirstStep(o)]
  BY DEF Start, Goto
<1>1. /\ o \in Op
      /\ op'[r] = o /\ pc'[r] = FirstStep(o)
      /\ UNCHANGED <<row, audit, bucket, wrote, reply>>
  BY ServesAssumption DEF Start, dbVars, r2Vars, IInv, TypeInv, TypeOK
<1>2. /\ FirstStep(o) \in {"upload", "update", "archive", "unarchive",
                            "deleteRow", "find"}
      /\ FirstStep(o) = "upload" => o \in {"Store", "StoreZip"}
      /\ FirstStep(o) = "update" => o = "Update"
      /\ FirstStep(o) = "archive" => o = "Archive"
      /\ FirstStep(o) = "unarchive" => o = "Unarchive"
      /\ FirstStep(o) = "deleteRow" => o = "DeleteArchived"
  BY <1>1 DEF FirstStep, Op
<1>3. /\ wrote[r] = {} /\ reply[r] = "none"
      /\ \A p \in Op : <<r, p>> \notin audit
  BY DEF Start, Honest, Reported
<1> QED
  BY <1>1, <1>2, <1>3 DEF Reported, Handling, Errors

LEMMA RejectReported ==
  ASSUME IInv, Honest, NEW r \in Request, Reject(r) \/ Crash(r)
  PROVE  Reported(r)'
<1>1. /\ Reported(r)
      /\ \A o \in Op : <<r, o>> \notin audit
      /\ UNCHANGED <<audit, op, wrote>>
      /\ \/ pc'[r] = "crashed"
         \/ pc'[r] = "done" /\ reply'[r] = "invalid" /\ wrote[r] = {}
  BY DEF Reject, Crash, Honest, Reported, Return, Goto, Tell, dbVars, jobVars,
     IInv, TypeInv, TypeOK
<1> QED
  BY <1>1 DEF Reported, Handling, Targets, Giving, Errors, Unwritten

LEMMA UploadReported ==
  ASSUME IInv, Honest, NEW r \in Request, Upload(r)
  PROVE  Reported(r)'
<1>1. /\ pc[r] = "upload" /\ Reported(r)
      /\ \A o \in Op : <<r, o>> \notin audit
      /\ UNCHANGED <<audit, op, wrote>>
      /\ reply[r] = "none"
      /\ op[r] # "StoreZip" => wrote[r] = {}
  BY DEF Upload, Honest, Reported, dbVars, jobVars
<1>2. \/ pc'[r] = "done" /\ reply'[r] = "failed"
      \/ pc'[r] = "updateFile" /\ reply'[r] = "none"
      \/ pc'[r] = "insert" /\ reply'[r] = "none" /\ op[r] # "ReplaceFile"
  BY <1>1 DEF Upload, Return, Goto, Tell, IInv, TypeInv, TypeOK
<1>3. pc'[r] = "insert" => op[r] \in {"Store", "StoreZip"}
  BY <1>1, <1>2 DEF Reported, Handling
<1> QED
  BY <1>1, <1>2, <1>3 DEF Reported, Handling, Targets, Giving, Errors, Unwritten

(* A request whose deletion succeeded has no old object any more.          *)
LEMMA DeletionsReported ==
  ASSUME IInv, Honest, NEW r \in Request, Cleanup(r) \/ DeleteOld(r) \/ DeleteFile(r)
  PROVE  Reported(r)'
<1>1. /\ Reported(r)
      /\ \A o \in Op : <<r, o>> \notin audit
      /\ UNCHANGED <<row, audit, op, note, newKey, oldKey, wrote>>
  BY DEF Cleanup, DeleteOld, DeleteFile, Honest, Reported, dbVars, jobVars, keyVars
<1>2. CASE Cleanup(r)
  <2>1. pc[r] = "cleanup" /\ pc'[r] = "done" /\ reply' = reply
    BY <1>2 DEF Cleanup, Goto, IInv, TypeInv, TypeOK
  <2>2. \A k \in Key : mishap[k] \subseteq mishap'[k]
    BY <1>2, DeletionsAccount DEF Accounts, IInv
  <2>3. Unwritten(r)' /\ reply[r] \in Errors
    BY <1>1, <2>1, <2>2 DEF Reported, Unwritten
  <2> QED
    BY <1>1, <2>1, <2>3 DEF Reported, Handling, Targets, Giving, Errors
<1>3. ASSUME DeleteOld(r) \/ DeleteFile(r)
      PROVE  \/ reply'[r] \in {"replaced", "deleted"} /\ oldKey[r] \notin bucket'
             \/ reply'[r] = "cleanupFailed" /\ Reprieved(r)'
  <2>1. PICK erred \in BOOLEAN :
          /\ DeleteObject(oldKey[r], erred)
          /\ reply'[r] \in IF erred THEN {"cleanupFailed"} ELSE {"replaced", "deleted"}
    BY <1>3 DEF DeleteOld, DeleteFile, ReplacedKey, Return, Tell, IInv, TypeInv, TypeOK
  <2>2. oldKey[r] \in Key
    BY <1>3 DEF DeleteOld, DeleteFile, IInv, KeysOwned, DeletedKeys
  <2> QED
    BY <1>1, <2>1, <2>2 DEF DeleteObject, Blame, Reprieved, IInv, TypeInv, TypeOK
<1>4. CASE DeleteOld(r)
  <2>1. /\ pc[r] = "deleteOld" /\ op[r] = "ReplaceFile"
        /\ \/ pc'[r] = "done" /\ reply'[r] = "cleanupFailed"
           \/ pc'[r] = "audit" /\ reply'[r] = "replaced"
    BY <1>4 DEF DeleteOld, Return, Goto, Tell, IInv, TypeInv, TypeOK, Routed
  <2> QED
    BY <1>1, <1>3, <1>4, <2>1 DEF Reported, Handling, Targets, Giving, Errors, Claim
<1>5. CASE DeleteFile(r)
  <2>1. /\ pc[r] = "deleteObject" /\ pc'[r] = "audit"
        /\ reply'[r] \in {"cleanupFailed", "deleted"}
    BY <1>5 DEF DeleteFile, Goto, Tell, IInv, TypeInv, TypeOK
  <2> QED
    BY <1>1, <1>3, <1>5, <2>1
    DEF Reported, Handling, Targets, Giving, Errors, Claim, Removed
<1> QED
  BY <1>2, <1>4, <1>5

(* What NoRow and DbError leave: an error, and nothing written.            *)
LEMMA StopReported ==
  ASSUME IInv, Honest, NEW r \in Request, Targets(r) \/ pc[r] \in {"find", "updateFile"},
         NEW t \in {"done", "cleanup"}, NEW msg \in Errors,
         Goto(r, t), Tell(r, msg), UNCHANGED <<audit, op, wrote>>
  PROVE  Reported(r)'
<1>1. /\ Reported(r)
      /\ \A o \in Op : <<r, o>> \notin audit
      /\ pc'[r] = t /\ reply'[r] = msg
      /\ op[r] # "StoreZip" => wrote[r] = {}
  BY DEF Honest, Reported, Targets, Giving, Goto, Tell, IInv, TypeInv, TypeOK
<1> QED
  BY <1>1 DEF Reported, Handling, Targets, Giving, Errors, Unwritten

LEMMA InsertReported ==
  ASSUME IInv, Honest, NEW r \in Request, Insert(r)
  PROVE  Reported(r)'
<1>1. /\ Reported(r) /\ pc[r] \in {"insert", "insertCopy"}
      /\ op[r] \in {"Store", "StoreZip"}
      /\ \A o \in Op : <<r, o>> \notin audit
      /\ UNCHANGED <<audit, op>>
      /\ reply[r] = "none"
      /\ op[r] # "StoreZip" => wrote[r] = {}
  BY DEF Insert, InsertRow, Honest, Reported, Handling, Giving, dbVars, jobVars
<1>2. \/ pc'[r] = "audit" /\ reply'[r] = "saved" /\ wrote'[r] # {}
      \/ pc'[r] = "upload" /\ reply'[r] = "none" /\ op[r] = "StoreZip"
      \/ pc'[r] = "cleanup" /\ reply'[r] = "cleanedUp" /\ Unwritten(r)'
      \/ pc'[r] = "cleanup" /\ reply'[r] \in {"cleanedUp", "titleTaken"} /\ wrote' = wrote
      \/ pc'[r] = "insertCopy" /\ reply'[r] = "none" /\ wrote' = wrote
  <2>1. newKey[r] \in Key /\ newKey' = newKey
    BY <1>1 DEF Insert, keyVars, Giving, IInv, TypeInv, Routed
  <2>2. ASSUME Blame(newKey[r], "commitUnknown") PROVE Unwritten(r)'
    BY <2>1, <2>2 DEF Blame, Unwritten, IInv, TypeInv, TypeOK
  <2> QED
    BY <1>1, <2>2 DEF Insert, InsertRow, TitleTaken, MoreImages, Wrote, Goto, Tell,
       IInv, TypeInv, TypeOK
<1> QED
  BY <1>1, <1>2 DEF Reported, Handling, Targets, Giving, Errors, Unwritten, Claim

LEMMA FindReported ==
  ASSUME IInv, Honest, NEW r \in Request, Find(r)
  PROVE  Reported(r)'
<1>1. CASE Exists(note[r]) /\ Goto(r, "upload") /\ UNCHANGED <<dbVars, jobVars, wrote, reply>>
  <2>1. /\ Reported(r) /\ pc[r] = "find" /\ pc'[r] = "upload"
        /\ op[r] = "ReplaceFile"
    BY <1>1 DEF Find, Goto, Honest, IInv, TypeInv, TypeOK, Routed
  <2> QED
    BY <1>1, <2>1 DEF Reported, Handling, dbVars, jobVars
<1>2. CASE NoRow(r, "done") \/ DbError(r, "done", "failed")
  BY <1>2, StopReported DEF Find, NoRow, DbError, Errors, dbVars, jobVars
<1> QED
  BY <1>1, <1>2 DEF Find

LEMMA UpdateFileReported ==
  ASSUME IInv, Honest, NEW r \in Request, UpdateFile(r)
  PROVE  Reported(r)'
<1>1. CASE NoRow(r, "cleanup") \/ DbError(r, "cleanup", "failed")
  BY <1>1, StopReported DEF UpdateFile, NoRow, DbError, Errors, dbVars, jobVars
<1>2. CASE /\ Wrote(r, note[r])
           /\ \/ Goto(r, "deleteOld") /\ UNCHANGED reply
              \/ /\ Goto(r, "cleanup") /\ Tell(r, "failed")
                 /\ "commitUnknown" \in mishap'[newKey[r]]
           /\ UNCHANGED <<audit, jobVars, keyVars>>
  <2>1. /\ Reported(r)
        /\ \A o \in Op : <<r, o>> \notin audit
        /\ wrote'[r] # {}
        /\ \/ pc'[r] = "deleteOld"
           \/ /\ pc'[r] = "cleanup" /\ reply'[r] = "failed"
              /\ "commitUnknown" \in mishap'[newKey[r]]
    BY <1>2 DEF UpdateFile, Honest, Reported, Wrote, Goto, Tell, IInv, TypeInv, TypeOK
  <2>2. newKey[r] \in Key /\ newKey' = newKey
    BY <1>2 DEF UpdateFile, keyVars, Giving, IInv, TypeInv, Routed
  <2> QED
    BY <1>2, <2>1, <2>2
    DEF Reported, Handling, Targets, Giving, Errors, Unwritten, jobVars
<1>3. newKey[r] \in Key
  BY DEF UpdateFile, Giving, IInv, TypeInv, Routed
<1> QED
  BY <1>1, <1>2, <1>3 DEF UpdateFile

(* UPDATE and DELETE statements: done, not done, or done unseen.           *)
LEMMA StatementReported ==
  ASSUME IInv, Honest, NEW r \in Request, Targets(r),
         Wrote(r, note[r]), UNCHANGED <<audit, jobVars>>,
         \/ /\ pc'[r] = "audit" /\ reply'[r] = "saved"
            /\ op[r] \notin {"DeleteArchived", "ReplaceFile"}
         \/ /\ pc'[r] = "deleteObject" /\ op[r] = "DeleteArchived"
            /\ Removed(r)'
         \/ "dbAck" \in Fault /\ pc'[r] = "done" /\ reply'[r] = "failed"
  PROVE  Reported(r)'
<1>1. /\ Reported(r)
      /\ \A o \in Op : <<r, o>> \notin audit
      /\ wrote'[r] # {}
  BY DEF Honest, Reported, Targets, Wrote, IInv, TypeInv, TypeOK
<1>2. op[r] \in Statements
  BY <1>1 DEF Reported, Handling, Targets, Statements
<1> QED
  BY <1>1, <1>2 DEF Reported, Handling, Targets, Giving, Errors, Unwritten, Claim, jobVars

LEMMA MetadataReported ==
  ASSUME IInv, Honest, NEW r \in Request, Update(r) \/ Archive(r) \/ Unarchive(r)
  PROVE  Reported(r)'
<1>1. /\ Targets(r)
      /\ op[r] \notin {"DeleteArchived", "ReplaceFile"}
  BY DEF Update, Archive, Unarchive, SetArchived, Targets, Honest, Reported, Handling
<1>2. \/ /\ Wrote(r, note[r]) /\ UNCHANGED <<audit, jobVars>>
         /\ \/ Goto(r, "audit") /\ Tell(r, "saved")
            \/ "dbAck" \in Fault /\ Return(r, "failed")
      \/ \E msg \in Errors :
           Goto(r, "done") /\ Tell(r, msg) /\ UNCHANGED <<audit, op, wrote>>
  BY DEF Update, Archive, Unarchive, SetArchived, NoRow, DbError, Return, Errors,
     dbVars, jobVars
<1>3. CASE \E msg \in Errors :
             Goto(r, "done") /\ Tell(r, msg) /\ UNCHANGED <<audit, op, wrote>>
  BY <1>1, <1>3, StopReported
<1>4. CASE /\ Wrote(r, note[r]) /\ UNCHANGED <<audit, jobVars>>
           /\ \/ Goto(r, "audit") /\ Tell(r, "saved")
              \/ "dbAck" \in Fault /\ Return(r, "failed")
  <2>1. \/ pc'[r] = "audit" /\ reply'[r] = "saved"
        \/ "dbAck" \in Fault /\ pc'[r] = "done" /\ reply'[r] = "failed"
    BY <1>4 DEF Return, Goto, Tell, IInv, TypeInv, TypeOK
  <2> QED
    BY <1>1, <1>4, <2>1, StatementReported
<1> QED
  BY <1>2, <1>3, <1>4

LEMMA DeleteRowReported ==
  ASSUME IInv, Honest, NEW r \in Request, DeleteRow(r)
  PROVE  Reported(r)'
<1>1. /\ Targets(r) /\ note[r] \in Note
      /\ op[r] = "DeleteArchived"
  BY DEF DeleteRow, Targets, Honest, Reported, Handling, IInv, TypeInv, Routed
<1>2. CASE NoRow(r, "done") \/ DbError(r, "done", "failed")
  BY <1>1, <1>2, StopReported DEF NoRow, DbError, Errors, dbVars, jobVars
<1>3. CASE /\ row' = [row EXCEPT ![note[r]] = Gone]
           /\ Wrote(r, note[r]) /\ UNCHANGED <<audit, jobVars>>
           /\ \/ Goto(r, "deleteObject")
              \/ "dbAck" \in Fault /\ Return(r, "failed")
  <2>1. \/ pc'[r] = "deleteObject" /\ Removed(r)'
        \/ "dbAck" \in Fault /\ pc'[r] = "done" /\ reply'[r] = "failed"
    BY <1>1, <1>3 DEF Return, Goto, Tell, Removed, jobVars, IInv, TypeInv, TypeOK
  <2> QED
    BY <1>1, <1>3, <2>1, StatementReported
<1> QED
  BY <1>2, <1>3 DEF DeleteRow

LEMMA WriteAuditReported ==
  ASSUME IInv, Honest, NEW r \in Request, WriteAudit(r)
  PROVE  Reported(r)'
<1>1. /\ Reported(r) /\ Claim(r)
      /\ pc[r] = "audit" /\ pc'[r] = "done"
      /\ UNCHANGED <<row, bucket, mishap, op, note, newKey, oldKey, wrote, reply>>
      /\ \A o \in Op : <<r, o>> \in audit' => o = op[r]
  BY DEF WriteAudit, Honest, Reported, Goto, r2Vars, jobVars, keyVars, IInv, TypeInv,
     TypeOK
<1>2. /\ Claim(r)'
      /\ Unwritten(r) => Unwritten(r)'
      /\ Removed(r) => Removed(r)'
      /\ Reprieved(r) => Reprieved(r)'
  BY <1>1 DEF Claim, Unwritten, Removed, Reprieved
<1> QED
  BY <1>1, <1>2 DEF Reported, Handling, Targets, Giving

LEMMA InitHonest == Init => Honest
BY NullAssumption DEF Init, Honest, Reported, Handling, Targets, Giving, Op

LEMMA NextHonest == IInv /\ Honest /\ [Next]_vars => Honest'
<1> SUFFICES ASSUME IInv, Honest, [Next]_vars
             PROVE  Honest'
  OBVIOUS
<1>1. ASSUME NEW r \in Request, Start(r) \/ Handle(r) \/ Crash(r)
      PROVE  Honest'
  <2>1. Reported(r)'
    BY <1>1, StartReported, RejectReported, UploadReported, DeletionsReported,
       InsertReported, FindReported, UpdateFileReported, MetadataReported,
       DeleteRowReported, WriteAuditReported DEF Handle
  <2> QED
    BY <1>1, <2>1, StepLocal, LocalHonest
<1>2. CASE UNCHANGED vars
  BY <1>2 DEF vars, Honest, Reported, Handling, Targets, Giving, Claim, Unwritten,
     Removed, Reprieved
<1> QED
  BY <1>1, <1>2 DEF Next, Terminated

LEMMA AlwaysHonest == Spec => []Honest
BY InitHonest, NextHonest, AlwaysIInv, PTL DEF Spec

(* No entry of the audit log claims a change that was not made.            *)
THEOREM LogTruthful == Spec => []AuditTruthful
<1>1. Honest => AuditTruthful
  BY DEF Honest, Reported, AuditTruthful, Claim, Removed
<1> QED
  BY <1>1, AlwaysHonest, PTL

-----------------------------------------------------------------------------
(***************************************************************************)
(* What the admin was told of the new file.  A key nobody has used yet, or *)
(* that is about to be given to a row, met no mishap; a key that a row has *)
(* is in doubt only from the request that put it there, which answers with *)
(* an error, or from the one that takes it out of the row.                 *)
(***************************************************************************)
Unmarked == \A k \in Key \ minted : mishap[k] = {}

InDoubt(k) == k \in Key /\ "commitUnknown" \in mishap[k]

(* The request has no new file yet.                                        *)
Empty(r) ==
  \/ pc[r] \in {"idle", "find"}
  \/ pc[r] = "upload" /\ wrote[r] = {}
  \/ op[r] \in Statements

(* What is so of the new file at each statement.                           *)
Filed(r) ==
  /\ Empty(r) => newKey[r] = Nothing
  /\ pc[r] \in {"deleteOld", "audit"} => reply[r] \notin Errors
  /\ newKey[r] \in Key =>
       /\ Giving(r) => mishap[newKey[r]] = {}
       /\ pc[r] = "done" /\ reply[r] \in Errors =>
            /\ newKey[r] \in bucket =>
                 mishap[newKey[r]] \cap {"putFailed", "deleteFailed"} # {}
            /\ Referenced(newKey[r]) => InDoubt(newKey[r])
       /\ pc[r] \in {"deleteOld", "audit", "done"} /\ reply[r] \notin Errors =>
            ~(Referenced(newKey[r]) /\ InDoubt(newKey[r]))

FiledInv == Unmarked /\ \A r \in Request : Filed(r)

(* A step of r marks keys of its own and those of rows, puts none but its  *)
(* new key into a row, and leaves in doubt, of the keys of others, only    *)
(* one it takes out of a row.                                              *)
Marks(r) ==
  /\ minted \subseteq minted'
  /\ \A k \in Key :
       mishap'[k] # mishap[k] =>
         \/ k \in minted' \ minted
         \/ k \in {newKey[r], oldKey[r]}
         \/ Referenced(k)
  /\ \A k \in Key :
       Referenced(k)' => Referenced(k) \/ (Giving(r) /\ k = newKey[r])
  /\ \A k \in Key :
       InDoubt(k)' => \/ InDoubt(k)
                      \/ Giving(r) /\ k = newKey[r]
                      \/ ~Referenced(k)'

(* One row may have changed.                                               *)
LEMMA OneRow ==
  ASSUME NEW n \in Note, \A m \in Note \ {n} : row'[m] = row[m]
  PROVE  \A k : Referenced(k)' => (\E m \in Rows \ {n} : row[m].key = k)
                                  \/ (Exists(n)' /\ row'[n].key = k)
<1> SUFFICES ASSUME NEW k, Referenced(k)'
             PROVE  \/ \E m \in Rows \ {n} : row[m].key = k
                    \/ Exists(n)' /\ row'[n].key = k
  OBVIOUS
<1>1. PICK m \in Note : Exists(m)' /\ row'[m].key = k
  BY DEF Referenced, Rows
<1> QED
  BY <1>1 DEF Rows, Exists

LEMMA DeletionsMark ==
  ASSUME IInv, NEW r \in Request, Cleanup(r) \/ DeleteOld(r) \/ DeleteFile(r)
  PROVE  Marks(r)
<1>1. PICK k \in {newKey[r], oldKey[r]}, erred \in BOOLEAN : DeleteObject(k, erred)
  BY DEF Cleanup, DeleteOld, DeleteFile, ReplacedKey
<1>2. \A j : Referenced(j)' <=> Referenced(j)
  BY SameRows DEF Cleanup, DeleteOld, DeleteFile, dbVars, Referenced, Rows
<1>3. /\ minted' = minted
      /\ mishap' = mishap \/ mishap' = [mishap EXCEPT ![k] = @ \cup {"deleteFailed"}]
  BY <1>1 DEF DeleteObject, Blame
<1> QED
  BY <1>1, <1>2, <1>3 DEF Marks, InDoubt, IInv, TypeInv, TypeOK

LEMMA UploadMarks ==
  ASSUME IInv, NEW r \in Request, Upload(r)
  PROVE  Marks(r)
<1>1. PICK k \in Key \ minted :
        /\ minted' = minted \cup {k}
        /\ mishap' = mishap \/ mishap' = [mishap EXCEPT ![k] = @ \cup {"putFailed"}]
  BY DEF Upload, Blame
<1>2. \A j : Referenced(j)' <=> Referenced(j)
  BY SameRows DEF Upload, dbVars, Referenced, Rows
<1> QED
  BY <1>1, <1>2 DEF Marks, InDoubt, IInv, TypeInv, TypeOK

LEMMA InsertMarks ==
  ASSUME IInv, NEW r \in Request, Insert(r)
  PROVE  Marks(r)
<1>1. /\ newKey[r] \in Key /\ Giving(r) /\ minted' = minted
      /\ \/ mishap' = mishap
         \/ mishap' = [mishap EXCEPT ![newKey[r]] = @ \cup {"commitUnknown"}]
  BY DEF Insert, Blame, Giving, IInv, TypeInv, Routed
<1>2. \A k : Referenced(k)' => Referenced(k) \/ k = newKey[r]
  <2>1. CASE UNCHANGED row
    BY <2>1, SameRows DEF Referenced, Rows
  <2>2. CASE \E n \in Note, p \in Place : InsertRow(r, n, p)
    <3>1. PICK n \in Note, p \in Place, pub \in BOOLEAN :
            row' = [row EXCEPT ![n] = [key |-> newKey[r], place |-> p,
                                       published |-> pub, archived |-> FALSE]]
      BY <2>2 DEF InsertRow
    <3>2. PICK x : /\ x = [key |-> newKey[r], place |-> p,
                           published |-> pub, archived |-> FALSE]
                   /\ row' = [row EXCEPT ![n] = x]
      BY <3>1
    <3>3. x.key = newKey[r]
      BY <3>2
    <3>4. row'[n] = x /\ \A m \in Note \ {n} : row'[m] = row[m]
      BY <3>2 DEF IInv, TypeInv, TypeOK
    <3> QED
      BY <3>3, <3>4, OneRow DEF Referenced
  <2> QED
    BY <2>1, <2>2 DEF Insert, dbVars
<1> QED
  BY <1>1, <1>2 DEF Marks, InDoubt, IInv, TypeInv, TypeOK

(* The key a row loses is in no other row.                                 *)
LEMMA UpdateFileMarks ==
  ASSUME IInv, NEW r \in Request, UpdateFile(r)
  PROVE  Marks(r)
<1>1. /\ newKey[r] \in Key /\ Giving(r) /\ minted' = minted
      /\ note[r] \in Note
  BY DEF UpdateFile, NoRow, DbError, r2Vars, Giving, IInv, TypeInv, Routed
<1>2. CASE UNCHANGED <<row, mishap>>
  <2>1. \A k : Referenced(k)' <=> Referenced(k)
    BY <1>2, SameRows DEF Referenced, Rows
  <2> QED
    BY <1>1, <1>2, <2>1 DEF Marks, InDoubt
<1>3. CASE Exists(note[r]) /\ row' = [row EXCEPT ![note[r]].key = newKey[r]]
  <2>1. PICK n \in Note, d \in Key : n = note[r] /\ d = row[n].key /\ Referenced(d)
    BY <1>1, <1>3, ExistsRow DEF Referenced, Rows, IInv, TypeInv
  <2>2. PICK x : /\ x = [row[n] EXCEPT !.key = newKey[r]]
                 /\ row' = [row EXCEPT ![n] = x]
    BY <1>3, <2>1
  <2>3. x.key = newKey[r]
    <3>1. row[n] \in Row
      BY <1>3, <2>1, ExistsRow DEF IInv, TypeInv
    <3> QED
      BY <1>1, <2>2, <3>1 DEF Row
  <2>4. \A k : Referenced(k)' => (\E m \in Rows \ {n} : row[m].key = k) \/ k = newKey[r]
    <3>1. row'[n] = x /\ \A m \in Note \ {n} : row'[m] = row[m]
      BY <2>1, <2>2 DEF IInv, TypeInv, TypeOK
    <3> QED
      BY <2>3, <3>1, OneRow
  <2>5. /\ \A k : Referenced(k)' => Referenced(k) \/ k = newKey[r]
        /\ Referenced(d)' => d = newKey[r]
    <3>1. n \in Rows
      BY <1>3, <2>1 DEF Rows
    <3> QED
      BY <2>1, <2>4, <3>1 DEF Referenced, IInv, KeysOwned, RowKeys
  <2>6. \/ mishap' = mishap
        \/ mishap' = [mishap EXCEPT ![d] = @ \cup {"overtaken"}]
        \/ mishap' = [k \in Key |->
             IF k \in {newKey[r], d}
               THEN mishap[k] \cup {"commitUnknown"} ELSE mishap[k]]
    BY <2>1 DEF UpdateFile, NoRow, DbError, r2Vars, Blame
  <2> QED
    BY <1>1, <2>1, <2>5, <2>6 DEF Marks, InDoubt, IInv, TypeInv, TypeOK
<1> QED
  BY <1>2, <1>3 DEF UpdateFile, NoRow, DbError, dbVars, r2Vars

LEMMA DeleteRowMarks ==
  ASSUME IInv, NEW r \in Request, DeleteRow(r)
  PROVE  Marks(r)
<1>1. minted' = minted /\ note[r] \in Note
  BY DEF DeleteRow, NoRow, DbError, r2Vars, Targets, IInv, TypeInv, Routed
<1>2. CASE UNCHANGED <<row, mishap>>
  <2>1. \A k : Referenced(k)' <=> Referenced(k)
    BY <1>2, SameRows DEF Referenced, Rows
  <2> QED
    BY <1>1, <1>2, <2>1 DEF Marks, InDoubt
<1>3. CASE Exists(note[r]) /\ row' = [row EXCEPT ![note[r]] = Gone]
  <2>1. PICK n \in Note, d \in Key : n = note[r] /\ d = row[n].key /\ Referenced(d)
    BY <1>1, <1>3, ExistsRow DEF Referenced, Rows, IInv, TypeInv
  <2>2. \A k : Referenced(k)' => \E m \in Rows \ {n} : row[m].key = k
    <3>1. ~Exists(n)' /\ \A m \in Note \ {n} : row'[m] = row[m]
      BY <1>3, <2>1 DEF Exists, IInv, TypeInv, TypeOK
    <3> QED
      BY <3>1, OneRow
  <2>3. /\ \A k : Referenced(k)' => Referenced(k)
        /\ ~Referenced(d)'
    <3>1. n \in Rows
      BY <1>3, <2>1 DEF Rows
    <3> QED
      BY <2>1, <2>2, <3>1 DEF Referenced, IInv, KeysOwned, RowKeys
  <2>4. mishap' = mishap \/ mishap' = [mishap EXCEPT ![d] = @ \cup {"commitUnknown"}]
    BY <2>1 DEF DeleteRow, NoRow, DbError, r2Vars, Blame
  <2> QED
    BY <1>1, <2>1, <2>3, <2>4 DEF Marks, InDoubt, IInv, TypeInv, TypeOK
<1> QED
  BY <1>2, <1>3 DEF DeleteRow, Deletable, NoRow, DbError, dbVars, r2Vars

(* UPDATE statements that leave the file of the row alone, and the steps   *)
(* that touch neither table nor bucket.                                    *)
LEMMA OthersMark ==
  ASSUME IInv, NEW r \in Request,
         \/ Update(r) \/ Archive(r) \/ Unarchive(r) \/ Find(r)
         \/ Start(r) \/ Reject(r) \/ WriteAudit(r) \/ Crash(r)
  PROVE  Marks(r)
<1>1. UNCHANGED r2Vars
  BY DEF Update, Archive, Unarchive, SetArchived, Find, Start, Reject, WriteAudit,
     Crash, NoRow, DbError
<1>2. \A k : Referenced(k)' => Referenced(k)
  <2>1. CASE UNCHANGED row
    BY <2>1, SameRows DEF Referenced, Rows
  <2>2. CASE row' # row
    <3>1. Update(r) \/ Archive(r) \/ Unarchive(r)
      BY <2>2 DEF Find, Start, Reject, WriteAudit, Crash, NoRow, DbError, dbVars
    <3>2. PICK n \in Note : n = note[r]
      BY <3>1 DEF Update, Archive, Unarchive, SetArchived, Targets, IInv, TypeInv, Routed
    <3>3. Exists(n) /\ row[n] \in Row
      BY <2>2, <3>1, <3>2, ExistsRow
      DEF Update, Archive, Unarchive, SetArchived, NoRow, DbError, dbVars, IInv, TypeInv
    <3>4. PICK y : y.key = row[n].key /\ row' = [row EXCEPT ![n] = y]
      <4> DEFINE x == row[n]
      <4>1. /\ \A p \in Place, pub \in BOOLEAN :
                 [x EXCEPT !.place = p, !.published = pub].key = x.key
            /\ [x EXCEPT !.archived = TRUE, !.published = FALSE].key = x.key
            /\ [x EXCEPT !.archived = FALSE].key = x.key
        BY <3>3 DEF Row
      <4>2. CASE Update(r)
        BY <2>2, <3>2, <4>1, <4>2 DEF Update, NoRow, dbVars
      <4>3. CASE Archive(r)
        BY <2>2, <3>2, <4>1, <4>3 DEF Archive, SetArchived, NoRow, DbError, dbVars
      <4>4. CASE Unarchive(r)
        BY <2>2, <3>2, <4>1, <4>4 DEF Unarchive, SetArchived, NoRow, DbError, dbVars
      <4> QED
        BY <3>1, <4>2, <4>3, <4>4
    <3>5. row'[n] = y /\ \A m \in Note \ {n} : row'[m] = row[m]
      BY <3>2, <3>4 DEF IInv, TypeInv, TypeOK
    <3>6. n \in Rows
      BY <3>3 DEF Rows
    <3> QED
      BY <3>4, <3>5, <3>6, OneRow DEF Referenced
  <2> QED
    BY <2>1, <2>2
<1> QED
  BY <1>1, <1>2 DEF Marks, InDoubt, r2Vars

LEMMA StepMarks ==
  ASSUME IInv, NEW r \in Request, Start(r) \/ Handle(r) \/ Crash(r)
  PROVE  Marks(r)
BY DeletionsMark, UploadMarks, InsertMarks, UpdateFileMarks, DeleteRowMarks,
   OthersMark DEF Handle

(* A step of r does nothing to what the others were told.                  *)
LEMMA OthersFiled ==
  ASSUME IInv, NEW r \in Request, NEW s \in Request, s # r, Filed(s),
         Local(r), Marks(r)
  PROVE  Filed(s)'
<1>1. /\ pc'[s] = pc[s] /\ op'[s] = op[s] /\ newKey'[s] = newKey[s]
      /\ wrote'[s] = wrote[s] /\ reply'[s] = reply[s]
  BY DEF Local
<1>2. newKey[s] \in minted \cup {Nothing} /\ minted \subseteq Key
  BY DEF IInv, KeysOwned, LocalKeys, TypeInv, TypeOK
<1>3. ASSUME NEW k \in Key, k = newKey[s]
      PROVE  /\ k \in minted
             /\ k \in bucket' => k \in bucket
             /\ mishap[k] \subseteq mishap'[k]
             /\ Giving(r) => k # newKey[r]
             /\ Referenced(k)' => Referenced(k)
             /\ InDoubt(k) => InDoubt(k)'
             /\ InDoubt(k)' /\ Referenced(k)' => InDoubt(k)
             /\ Giving(s) => mishap'[k] = mishap[k]
  <2>1. k \in minted
    BY <1>2, <1>3, NullAssumption
  <2>2. Giving(r) => k # newKey[r]
    BY <1>3 DEF IInv, KeysOwned, GivenKeys
  <2>3. Giving(s) => k # newKey[r] /\ k # oldKey[r] /\ ~Referenced(k)
    BY <1>3 DEF IInv, KeysOwned, GivenKeys
  <2> QED
    BY <2>1, <2>2, <2>3 DEF Local, Marks, InDoubt
<1>4. (Empty(s)' <=> Empty(s)) /\ (Giving(s)' <=> Giving(s))
  BY <1>1 DEF Empty, Giving
<1>5. CASE newKey[s] \in Key
  BY <1>1, <1>3, <1>4, <1>5 DEF Filed
<1>6. CASE newKey[s] \notin Key
  BY <1>1, <1>4, <1>6 DEF Filed
<1> QED
  BY <1>5, <1>6

(* What r itself has of its new file after each kind of step.              *)
LEMMA UploadFiled ==
  ASSUME IInv, Honest, Unmarked, NEW r \in Request, Filed(r), Upload(r)
  PROVE  Filed(r)'
<1>1. PICK k \in Key \ minted :
        /\ newKey' = [newKey EXCEPT ![r] = k]
        /\ \/ /\ bucket' = bucket \cup {k}
              /\ Goto(r, IF op[r] = "ReplaceFile" THEN "updateFile" ELSE "insert")
              /\ UNCHANGED <<mishap, reply>>
           \/ /\ Return(r, "failed")
              /\ UNCHANGED <<bucket, mishap>>
           \/ /\ bucket' = bucket \cup {k}
              /\ Blame(k, "putFailed")
              /\ Return(r, "failed")
  BY DEF Upload
<1>2. /\ pc[r] = "upload" /\ newKey'[r] = k /\ op' = op
      /\ mishap[k] = {} /\ k \notin bucket
      /\ op[r] \notin Statements
  BY <1>1 DEF Upload, jobVars, Unmarked, Honest, Reported, Handling, Statements,
     IInv, KeysOwned, RowKeys, TypeInv, TypeOK
<1>3. ~Referenced(k)'
  <2>1. ~Referenced(k)
    BY DEF Referenced, IInv, KeysOwned, RowKeys
  <2> QED
    BY <2>1, SameRows DEF Referenced, Upload, dbVars
<1>4. \/ pc'[r] \in {"insert", "updateFile"} /\ mishap' = mishap
      \/ pc'[r] = "done" /\ reply'[r] = "failed" /\ k \notin bucket'
      \/ pc'[r] = "done" /\ reply'[r] = "failed" /\ "putFailed" \in mishap'[k]
  BY <1>1, <1>2 DEF Return, Goto, Tell, Blame, IInv, TypeInv, TypeOK
<1> QED
  BY <1>2, <1>3, <1>4 DEF Filed, Empty, Giving, Errors

LEMMA CleanupFiled ==
  ASSUME IInv, Honest, NEW r \in Request, Filed(r), Cleanup(r)
  PROVE  Filed(r)'
<1>1. /\ pc[r] = "cleanup" /\ pc'[r] = "done" /\ reply'[r] \in Errors
      /\ newKey' = newKey /\ op' = op /\ newKey[r] \in Key
      /\ Referenced(newKey[r]) => InDoubt(newKey[r])
  BY DEF Cleanup, Goto, Honest, Reported, IInv, KeysOwned, CleanedKeys, TypeInv, TypeOK,
     InDoubt, jobVars, keyVars
<1>2. \A j : Referenced(j)' <=> Referenced(j)
  BY SameRows DEF Cleanup, dbVars, Referenced, Rows
<1>3. /\ newKey[r] \in bucket' => "deleteFailed" \in mishap'[newKey[r]]
      /\ InDoubt(newKey[r]) => InDoubt(newKey[r])'
  BY <1>1 DEF Cleanup, DeleteObject, Blame, InDoubt, IInv, TypeInv, TypeOK
<1> QED
  BY <1>1, <1>2, <1>3 DEF Filed, Empty, Giving

LEMMA DeletionsFiled ==
  ASSUME IInv, Honest, NEW r \in Request, Filed(r), DeleteOld(r) \/ DeleteFile(r)
  PROVE  Filed(r)'
<1>1. /\ pc[r] \in {"deleteOld", "deleteObject"} /\ pc'[r] \in {"audit", "done"}
      /\ reply'[r] \notin Errors
      /\ newKey' = newKey /\ op' = op
  BY DEF DeleteOld, DeleteFile, Return, Goto, Tell, Errors, IInv, TypeInv, TypeOK,
     jobVars, keyVars
<1>2. \A j : Referenced(j)' <=> Referenced(j)
  BY SameRows DEF DeleteOld, DeleteFile, dbVars, Referenced, Rows
<1>3. \A j \in Key : InDoubt(j)' => InDoubt(j)
  BY DEF DeleteOld, DeleteFile, DeleteObject, Blame, InDoubt, IInv, TypeInv, TypeOK
<1>4. CASE DeleteOld(r)
  <2>1. pc[r] = "deleteOld" /\ reply[r] \notin Errors
    BY <1>4 DEF DeleteOld, Filed
  <2> QED
    BY <1>1, <1>2, <1>3, <2>1 DEF Filed, Empty, Giving
<1>5. CASE DeleteFile(r)
  <2>1. newKey[r] = Nothing
    BY <1>5 DEF DeleteFile, Filed, Empty, Honest, Reported, Handling, Statements
  <2> QED
    BY <1>1, <2>1, NullAssumption DEF Filed, Empty, Giving
<1> QED
  BY <1>4, <1>5

LEMMA InsertFiled ==
  ASSUME IInv, Honest, NEW r \in Request, Filed(r), Insert(r)
  PROVE  Filed(r)'
<1>1. /\ newKey[r] \in Key /\ Giving(r) /\ mishap[newKey[r]] = {}
      /\ newKey' = newKey /\ op' = op
      /\ op[r] \notin Statements
  BY DEF Insert, Filed, Giving, jobVars, keyVars, Honest, Reported, Handling,
     Statements, IInv, TypeInv, Routed
<1>2. \/ pc'[r] = "audit" /\ reply'[r] = "saved" /\ mishap' = mishap
      \/ pc'[r] = "upload" /\ wrote'[r] # {}
      \/ pc'[r] = "cleanup"
      \/ pc'[r] = "insertCopy" /\ mishap' = mishap
  BY DEF Insert, InsertRow, TitleTaken, MoreImages, Wrote, Goto, Tell, IInv, TypeInv,
     TypeOK
<1> QED
  BY <1>1, <1>2 DEF Filed, Empty, Giving, InDoubt, Errors

LEMMA UpdateFileFiled ==
  ASSUME IInv, Honest, NEW r \in Request, Filed(r), UpdateFile(r)
  PROVE  Filed(r)'
<1>1. /\ newKey[r] \in Key /\ Giving(r) /\ mishap[newKey[r]] = {}
      /\ newKey' = newKey /\ op' = op /\ op[r] = "ReplaceFile"
      /\ ~Referenced(newKey[r]) /\ reply[r] \notin Errors
  BY DEF UpdateFile, NoRow, DbError, Filed, Giving, jobVars, keyVars, Honest, Reported,
     Errors, IInv, KeysOwned, GivenKeys, TypeInv, Routed
<1>2. \/ pc'[r] = "cleanup"
      \/ /\ pc'[r] = "deleteOld" /\ Exists(note[r]) /\ reply' = reply
         /\ \/ mishap' = mishap
            \/ mishap' = [mishap EXCEPT ![row[note[r]].key] = @ \cup {"overtaken"}]
  BY DEF UpdateFile, NoRow, DbError, Blame, Goto, IInv, TypeInv, TypeOK
<1>3. pc'[r] = "deleteOld" => ~InDoubt(newKey[r])'
  BY <1>1, <1>2 DEF InDoubt, IInv, TypeInv, TypeOK
<1> QED
  BY <1>1, <1>2, <1>3 DEF Filed, Empty, Giving, Statements

(* Whoever has no new file says nothing of one.                            *)
LEMMA EmptyFiled ==
  ASSUME NEW r \in Request, newKey'[r] = Nothing,
         pc'[r] \in {"deleteOld", "audit"} => reply'[r] \notin Errors
  PROVE  Filed(r)'
BY NullAssumption DEF Filed

LEMMA StatementsFiled ==
  ASSUME IInv, Honest, NEW r \in Request, Filed(r),
         \/ Start(r) \/ Find(r) \/ Reject(r)
         \/ Update(r) \/ Archive(r) \/ Unarchive(r) \/ DeleteRow(r)
  PROVE  Filed(r)'
<1>1. newKey[r] = Nothing
  <2>1. \/ pc[r] \in {"idle", "find"}
        \/ pc[r] = "upload" /\ wrote[r] = {}
        \/ Targets(r)
    BY DEF Start, Find, Reject, Update, Archive, Unarchive, SetArchived, DeleteRow,
       Targets
  <2>2. Targets(r) => op[r] \in Statements
    BY DEF Targets, Honest, Reported, Handling, Statements
  <2> QED
    BY <2>1, <2>2 DEF Filed, Empty
<1>2. UNCHANGED newKey
  BY DEF Start, Find, Reject, Update, Archive, Unarchive, SetArchived, DeleteRow,
     NoRow, DbError, keyVars
<1>3. pc'[r] \in {"deleteOld", "audit"} => reply'[r] \notin Errors
  <2>1. CASE Start(r)
    <3>1. PICK o \in Serves[r] : pc' = [pc EXCEPT ![r] = FirstStep(o)]
      BY <2>1 DEF Start, Goto
    <3>2. FirstStep(o) \notin {"deleteOld", "audit"}
      BY ServesAssumption DEF FirstStep, Op
    <3> QED
      BY <3>1, <3>2 DEF IInv, TypeInv, TypeOK
  <2>2. CASE Find(r) \/ Reject(r) \/ DeleteRow(r)
    BY <2>2 DEF Find, Reject, DeleteRow, NoRow, DbError, Return, Goto, IInv, TypeInv,
       TypeOK
  <2>3. CASE Update(r) \/ Archive(r) \/ Unarchive(r)
    BY <2>3 DEF Update, Archive, Unarchive, SetArchived, NoRow, DbError, Return, Goto,
       Tell, Errors, IInv, TypeInv, TypeOK
  <2> QED
    BY <2>1, <2>2, <2>3
<1> QED
  BY <1>1, <1>2, <1>3, EmptyFiled

LEMMA EndFiled ==
  ASSUME IInv, Honest, NEW r \in Request, Filed(r), WriteAudit(r) \/ Crash(r)
  PROVE  Filed(r)'
<1>1. /\ newKey' = newKey /\ op' = op /\ mishap' = mishap /\ pc[r] # "idle"
      /\ \/ pc[r] = "audit" /\ pc'[r] = "done" /\ reply' = reply
         \/ pc'[r] = "crashed"
  BY DEF WriteAudit, Crash, Goto, jobVars, keyVars, r2Vars, IInv, TypeInv, TypeOK
<1>2. \A j : Referenced(j)' <=> Referenced(j)
  BY SameRows DEF WriteAudit, Crash, dbVars, Referenced, Rows
<1> QED
  BY <1>1, <1>2 DEF Filed, Empty, Giving, InDoubt

LEMMA InitFiled == Init => FiledInv
BY NullAssumption DEF Init, FiledInv, Unmarked, Filed, Giving

LEMMA NextFiled == IInv /\ Honest /\ FiledInv /\ [Next]_vars => FiledInv'
<1> SUFFICES ASSUME IInv, Honest, FiledInv, [Next]_vars
             PROVE  FiledInv'
  OBVIOUS
<1>1. ASSUME NEW r \in Request, Start(r) \/ Handle(r) \/ Crash(r)
      PROVE  FiledInv'
  <2>1. Local(r) /\ Marks(r)
    BY <1>1, StepLocal, StepMarks
  <2>2. Filed(r)'
    BY <1>1, UploadFiled, CleanupFiled, DeletionsFiled, InsertFiled, UpdateFileFiled,
       StatementsFiled, EndFiled DEF Handle, FiledInv
  <2>3. \A s \in Request \ {r} : Filed(s)'
    BY <2>1, OthersFiled DEF FiledInv
  <2>4. Unmarked'
    <3>1. /\ newKey[r] \in minted \cup {Nothing} /\ oldKey[r] \in minted \cup {Nothing}
          /\ \A k \in Key : Referenced(k) => k \in minted
      BY DEF Referenced, IInv, KeysOwned, LocalKeys, RowKeys
    <3> QED
      BY <2>1, <3>1, NullAssumption DEF Unmarked, Marks, FiledInv
  <2> QED
    BY <2>2, <2>3, <2>4 DEF FiledInv
<1>2. CASE UNCHANGED vars
  <2>1. \A j : Referenced(j)' <=> Referenced(j)
    BY <1>2, SameRows DEF vars, Referenced, Rows
  <2> QED
    BY <1>2, <2>1 DEF vars, FiledInv, Unmarked, Filed, Empty, Giving, InDoubt
<1> QED
  BY <1>1, <1>2 DEF Next, Terminated

LEMMA AlwaysFiled == Spec => []FiledInv
BY InitFiled, NextFiled, AlwaysIInv, AlwaysHonest, PTL DEF Spec

(* What the admin is told is so, and stays so whatever the other requests  *)
(* do: a note reported as deleted is gone with its file, a replaced file   *)
(* is gone; an error, but of a ZIP or a lost commit, changed no note and   *)
(* left no file behind that R2 was heard to delete; and a note that takes  *)
(* the file of a request which was told it is saved has that file.         *)
THEOREM AdminToldTruly == Spec => []AnswersHonest
<1>1. ASSUME IInv, Honest, FiledInv, NEW r \in Request, pc[r] = "done"
      PROVE  GoneAsTold(r) /\ FailedAsTold(r) /\ SavedAsTold(r)
  <2>1. Reported(r) /\ Filed(r)
    BY <1>1 DEF Honest, FiledInv
  <2>2. newKey[r] \in Key \/ (newKey[r] \notin bucket /\ ~Referenced(newKey[r]))
    BY <1>1, ExistsRow, NullAssumption DEF Referenced, Rows, IInv, TypeInv, TypeOK
  <2>3. GoneAsTold(r)
    BY <1>1, <2>1 DEF Reported, GoneAsTold, Removed, Reprieved, Errors
  <2>4. FailedAsTold(r)
    BY <1>1, <2>1, <2>2 DEF Reported, Filed, FailedAsTold, Unwritten, Statements, InDoubt
  <2>5. SavedAsTold(r)
    <3>1. CASE newKey[r] \in Key /\ reply[r] \notin Errors /\ Referenced(newKey[r])
      BY <1>1, <2>1, <3>1 DEF Filed, InDoubt, SavedAsTold, IInv, EveryNoteHasItsFile,
         Referenced
    <3> QED
      BY <2>2, <3>1 DEF SavedAsTold, Errors
  <2> QED
    BY <2>3, <2>4, <2>5
<1>2. IInv /\ Honest /\ FiledInv => AnswersHonest
  BY <1>1 DEF AnswersHonest
<1> QED
  BY <1>2, AlwaysIInv, AlwaysHonest, AlwaysFiled, PTL

-----------------------------------------------------------------------------
(***************************************************************************)
(* NoteFiles implements NoteCatalog.                                       *)
(*                                                                         *)
(* By EveryNoteHasItsFile the file of a note is always the key of its row, *)
(* so only a change of a row changes an entry.  By GivenKeys a key that    *)
(* leaves the hands of a request was in no other's: it is used from then   *)
(* on, and was fresh before.  Each statement that changes a row is one     *)
(* operation of the catalogue, a key that ends up in no row is given up,   *)
(* and every other step of a handler is none.                              *)
(***************************************************************************)
GivingStep == {"insert", "insertCopy", "updateFile"}

(* The entry of a row.                                                     *)
EntryOf(x) ==
  [file |-> x.key, place |-> x.place, published |-> x.published,
   archived |-> x.archived]

CatalogEntry ==
  [file : Key, place : Place, published : BOOLEAN, archived : BOOLEAN]

-----------------------------------------------------------------------------
(* The entries.                                                            *)

LEMMA EntryOfRow ==
  ASSUME NEW x \in Row
  PROVE  EntryOf(x) \in CatalogEntry /\ EntryOf(x) \notin {Unborn, Gone}
BY EntryAssumption DEF Row, EntryOf, CatalogEntry

LEMMA EntryIs ==
  ASSUME TypeOK, EveryNoteHasItsFile, NEW n \in Note
  PROVE  Entries[n] = IF Exists(n) THEN EntryOf(row[n]) ELSE row[n]
BY DEF Entries, Entry, EntryOf, FileOf, EveryNoteHasItsFile, Rows

LEMMA PresentIsRows ==
  ASSUME TypeOK, EveryNoteHasItsFile
  PROVE  Catalog!Present = Rows
<1>1. ASSUME NEW n \in Note
      PROVE  Entries[n] \notin {Unborn, Gone} <=> Exists(n)
  <2>1. CASE Exists(n)
    BY <2>1, EntryIs, EntryOfRow, ExistsRow
  <2>2. CASE ~Exists(n)
    BY <2>2, EntryIs DEF Exists
  <2> QED
    BY <2>1, <2>2
<1> QED
  BY <1>1 DEF Catalog!Present, Rows

LEMMA FreeIsFree ==
  ASSUME TypeOK, EveryNoteHasItsFile, NEW n \in Note, NEW p
  PROVE  Catalog!Free(p, n) <=> Free(p, n)
<1>1. ASSUME NEW m \in Rows PROVE Entries[m].place = row[m].place
  <2>1. m \in Note /\ Exists(m)
    BY DEF Rows
  <2>2. Entries[m] = EntryOf(row[m])
    BY <2>1, EntryIs
  <2> QED
    BY <2>2 DEF EntryOf
<1> QED
  BY <1>1, PresentIsRows DEF Catalog!Free, Free

LEMMA EntriesSame ==
  ASSUME IInv, IInv', UNCHANGED row
  PROVE  Entries' = Entries
<1>1. ASSUME NEW n \in Note PROVE Entry(n)' = Entry(n)
  BY DEF IInv, EveryNoteHasItsFile, Rows, Entry, FileOf, Exists
<1> QED
  BY <1>1 DEF Entries

LEMMA EntriesChange ==
  ASSUME IInv, IInv', NEW n \in Note, NEW x \in Row \cup {Unborn, Gone},
         row' = [row EXCEPT ![n] = x]
  PROVE  Entries' = [Entries EXCEPT ![n] = IF x \in {Unborn, Gone} THEN x
                                           ELSE EntryOf(x)]
<1>1. ASSUME NEW m \in Note
      PROVE  Entry(m)' = IF Exists(m)' THEN EntryOf(row'[m]) ELSE row'[m]
  BY DEF IInv, EveryNoteHasItsFile, Rows, Entry, EntryOf, FileOf, Exists
<1>2. ASSUME NEW m \in Note
      PROVE  Entry(m) = IF Exists(m) THEN EntryOf(row[m]) ELSE row[m]
  BY DEF IInv, EveryNoteHasItsFile, Rows, Entry, EntryOf, FileOf, Exists
<1>3. \A m \in Note : row'[m] = IF m = n THEN x ELSE row[m]
  BY DEF IInv, TypeInv, TypeOK
<1> QED
  BY <1>1, <1>2, <1>3 DEF Entries, Exists

-----------------------------------------------------------------------------
(* The keys used.                                                          *)

(* A request that goes on, but not to give or no longer give its key.      *)
LEMMA UsedSame ==
  ASSUME IInv, NEW r \in Request, NEW t, UNCHANGED <<minted, newKey>>,
         pc' = [pc EXCEPT ![r] = t], Giving(r) <=> t \in GivingStep
  PROVE  Used' = Used
<1>1. ASSUME NEW s \in Request PROVE Giving(s)' <=> Giving(s)
  BY DEF Giving, GivingStep, IInv, TypeInv, TypeOK
<1> QED
  BY <1>1 DEF Used

(* A request that gave its key away, to a row or for deletion.             *)
LEMMA UsedGiven ==
  ASSUME IInv, NEW r \in Request, NEW t, UNCHANGED <<minted, newKey>>,
         pc' = [pc EXCEPT ![r] = t], Giving(r), t \notin GivingStep
  PROVE  /\ Used' = Used \cup {newKey[r]}
         /\ newKey[r] \in Key \ Used
<1>1. /\ newKey[r] \in Key
      /\ newKey[r] \in minted
      /\ \A s \in Request \ {r} : newKey[s] # newKey[r]
  BY DEF IInv, TypeInv, TypeOK, KeysOwned, GivenKeys, RowKeys
<1>2. ~Giving(r)'
  BY DEF Giving, GivingStep, IInv, TypeInv, TypeOK
<1>3. ASSUME NEW s \in Request \ {r} PROVE Giving(s)' <=> Giving(s)
  BY DEF Giving, IInv, TypeInv, TypeOK
<1> QED
  BY <1>1, <1>2, <1>3 DEF Used

(* A step of NoteFiles that is none of the catalogue.                      *)
LEMMA Stutter ==
  ASSUME IInv, IInv', UNCHANGED row, Used' = Used
  PROVE  [Catalog!Next]_(Catalog!vars)
BY EntriesSame DEF Catalog!vars

(* A key is given up.                                                      *)
LEMMA GivenUp ==
  ASSUME IInv, IInv', UNCHANGED row, NEW k \in Key \ Used,
         Used' = Used \cup {k}
  PROVE  [Catalog!Next]_(Catalog!vars)
<1>1. Catalog!GiveUp(k)
  BY EntriesSame DEF Catalog!GiveUp, Catalog!Fresh
<1> QED
  BY <1>1 DEF Catalog!Next

(* A request moves on and changes neither rows nor keys.                   *)
LEMMA MovesOn ==
  ASSUME IInv, IInv', NEW r \in Request, NEW t, UNCHANGED <<row, minted, newKey>>,
         pc' = [pc EXCEPT ![r] = t], t \in GivingStep => Giving(r)
  PROVE  [Catalog!Next]_(Catalog!vars)
<1>1. CASE Giving(r) <=> t \in GivingStep
  BY <1>1, UsedSame, Stutter
<1>2. CASE Giving(r) /\ t \notin GivingStep
  BY <1>2, UsedGiven, GivenUp
<1> QED
  BY <1>1, <1>2
-----------------------------------------------------------------------------
(* An update of two columns is one of each, of the row and of its entry.   *)

LEMMA EditedEntry ==
  ASSUME NEW y \in Row, NEW p \in Place, NEW pub \in BOOLEAN
  PROVE  LET x == [y EXCEPT !.place = p, !.published = pub]
         IN /\ x \in Row
            /\ EntryOf(x) = [EntryOf(y) EXCEPT !.place = p, !.published = pub]
<1> DEFINE x == [y EXCEPT !.place = p, !.published = pub]
           e == EntryOf(y)
           h == [e EXCEPT !.place = p]
<1>1. x \in Row
  BY DEF Row
<1>2. EntryOf(x) = [file |-> y.key, place |-> p, published |-> pub,
                    archived |-> y.archived]
  BY DEF EntryOf, Row
<1>3. h = [file |-> y.key, place |-> p, published |-> y.published,
           archived |-> y.archived]
  BY DEF EntryOf
<1> HIDE DEF h
<1>4. [h EXCEPT !.published = pub] = [file |-> y.key, place |-> p,
         published |-> pub, archived |-> y.archived]
  BY <1>3
<1> HIDE DEF e
<1>5. [e EXCEPT !.place = p, !.published = pub] = [h EXCEPT !.published = pub]
  BY Zenon DEF h
<1> USE DEF e
<1> QED
  BY <1>1, <1>2, <1>4, <1>5, Zenon

LEMMA ArchivedEntry ==
  ASSUME NEW y \in Row, NEW a \in BOOLEAN, NEW pub \in BOOLEAN
  PROVE  LET x == [y EXCEPT !.archived = a, !.published = pub]
         IN /\ x \in Row
            /\ EntryOf(x) = [EntryOf(y) EXCEPT !.archived = a, !.published = pub]
<1> DEFINE x == [y EXCEPT !.archived = a, !.published = pub]
           e == EntryOf(y)
           h == [e EXCEPT !.archived = a]
<1>1. x \in Row
  BY DEF Row
<1>2. EntryOf(x) = [file |-> y.key, place |-> y.place, published |-> pub,
                    archived |-> a]
  BY DEF EntryOf, Row
<1>3. h = [file |-> y.key, place |-> y.place, published |-> y.published,
           archived |-> a]
  BY DEF EntryOf
<1> HIDE DEF h
<1>4. [h EXCEPT !.published = pub] = [file |-> y.key, place |-> y.place,
         published |-> pub, archived |-> a]
  BY <1>3
<1> HIDE DEF e
<1>5. [e EXCEPT !.archived = a, !.published = pub] = [h EXCEPT !.published = pub]
  BY Zenon DEF h
<1> USE DEF e
<1> QED
  BY <1>1, <1>2, <1>4, <1>5, Zenon

LEMMA RestoredEntry ==
  ASSUME NEW y \in Row, NEW a \in BOOLEAN
  PROVE  LET x == [y EXCEPT !.archived = a]
         IN /\ x \in Row
            /\ EntryOf(x) = [EntryOf(y) EXCEPT !.archived = a]
BY DEF Row, EntryOf

-----------------------------------------------------------------------------
(* One lemma per action: it is an operation of the catalogue, or none.     *)

LEMMA PassiveImplements ==
  ASSUME IInv, IInv', NEW r \in Request,
         \/ Start(r) \/ Reject(r) \/ Find(r) \/ Cleanup(r) \/ DeleteOld(r)
         \/ DeleteFile(r) \/ WriteAudit(r) \/ Crash(r)
  PROVE  [Catalog!Next]_(Catalog!vars)
<1>1. UNCHANGED <<row, minted, newKey>>
  BY DEF Start, Reject, Find, NoRow, DbError, Cleanup, DeleteOld, DeleteFile,
     DeleteObject, WriteAudit, Crash, dbVars, r2Vars, keyVars
<1>2. CASE Start(r)
  <2> PICK o \in Serves[r] : pc' = [pc EXCEPT ![r] = FirstStep(o)]
    BY <1>2 DEF Start, Goto
  <2>1. FirstStep(o) \notin GivingStep
    BY ServesAssumption DEF Op, FirstStep, GivingStep
  <2> QED
    BY <1>1, <2>1, MovesOn
<1>3. CASE ~Start(r)
  <2> PICK t \in {"done", "upload", "audit", "crashed"} : pc' = [pc EXCEPT ![r] = t]
    BY <1>3 DEF Reject, Find, NoRow, DbError, Cleanup, DeleteOld, DeleteFile,
       WriteAudit, Crash, Goto, Return
  <2>1. t \notin GivingStep
    BY DEF GivingStep
  <2> QED
    BY <1>1, <2>1, MovesOn
<1> QED
  BY <1>2, <1>3

(* A new key is in the hands of the request, or given up at once.          *)
LEMMA UploadImplements ==
  ASSUME IInv, IInv', NEW r \in Request, Upload(r)
  PROVE  [Catalog!Next]_(Catalog!vars)
<1> PICK k \in Key \ minted :
      /\ minted' = minted \cup {k}
      /\ newKey' = [newKey EXCEPT ![r] = k]
      /\ \/ pc' = [pc EXCEPT ![r] = "done"]
         \/ pc' = [pc EXCEPT ![r] = "updateFile"]
         \/ pc' = [pc EXCEPT ![r] = "insert"]
  BY DEF Upload, Return, Goto
<1>1. ~Giving(r) /\ UNCHANGED row
  BY DEF Upload, Giving, dbVars
<1>2. /\ newKey'[r] = k
      /\ Giving(r)' <=> pc'[r] # "done"
      /\ \A s \in Request \ {r} : /\ newKey'[s] = newKey[s]
                                  /\ Giving(s)' <=> Giving(s)
  BY DEF Giving, IInv, TypeInv, TypeOK
<1>3. \A s \in Request : Giving(s) => newKey[s] # k
  BY NullAssumption DEF IInv, TypeInv, Routed, KeysOwned, LocalKeys
<1>4. CASE pc'[r] # "done"
  <2>1. Used' = Used
    BY <1>1, <1>2, <1>4 DEF Used
  <2> QED
    BY <1>1, <2>1, Stutter
<1>5. CASE pc'[r] = "done"
  <2>1. Used' = Used \cup {k} /\ k \in Key \ Used
    BY <1>1, <1>2, <1>3, <1>5 DEF Used
  <2> QED
    BY <1>1, <2>1, GivenUp
<1> QED
  BY <1>4, <1>5

LEMMA InsertImplements ==
  ASSUME IInv, IInv', NEW r \in Request, Insert(r)
  PROVE  [Catalog!Next]_(Catalog!vars)
<1>1. Giving(r) /\ UNCHANGED <<minted, newKey>>
  BY DEF Insert, Giving, keyVars
<1>2. PICK t \in {"audit", "upload", "cleanup", "insert", "insertCopy"} :
        pc' = [pc EXCEPT ![r] = t]
  BY DEF Insert, TitleTaken, Goto
<1>3. CASE UNCHANGED row
  BY <1>1, <1>2, <1>3, MovesOn
<1>4. ASSUME NEW n \in Note, NEW p \in Place, InsertRow(r, n, p),
             pc' \in {[pc EXCEPT ![r] = u] : u \in {"audit", "upload", "cleanup"}}
      PROVE  [Catalog!Next]_(Catalog!vars)
  <2>1. PICK pub \in BOOLEAN :
          row' = [row EXCEPT ![n] = [key |-> newKey[r], place |-> p,
                                     published |-> pub, archived |-> FALSE]]
    BY <1>4 DEF InsertRow
  <2> DEFINE x == [key |-> newKey[r], place |-> p, published |-> pub,
                   archived |-> FALSE]
  <2>2. /\ Used' = Used \cup {newKey[r]}
        /\ newKey[r] \in Key \ Used
    BY <1>1, <1>4, UsedGiven DEF GivingStep
  <2>3. x \in Row
    BY <2>2 DEF Row
  <2>4. Entries' = [Entries EXCEPT ![n] = EntryOf(x)]
    <3> HIDE DEF x
    <3> QED
      BY <2>1, <2>3, EntriesChange, NullAssumption DEF x
  <2>5. EntryOf(x) = [file |-> newKey[r], place |-> p, published |-> pub,
                      archived |-> FALSE]
    BY DEF EntryOf
  <2>6. Entries[n] = Unborn /\ Catalog!Free(p, n)
    BY <1>4, EntryIs, FreeIsFree DEF InsertRow, Exists, IInv, TypeInv
  <2>7. Catalog!Add(n, newKey[r], p)
    BY <2>2, <2>4, <2>5, <2>6 DEF Catalog!Add, Catalog!Fresh
  <2> QED
    BY <2>2, <2>7 DEF Catalog!Next
<1> QED
  BY <1>3, <1>4 DEF Insert, Goto, dbVars
LEMMA UpdateFileImplements ==
  ASSUME IInv, IInv', NEW r \in Request, UpdateFile(r)
  PROVE  [Catalog!Next]_(Catalog!vars)
<1>1. /\ Giving(r) /\ note[r] \in Note
      /\ UNCHANGED <<minted, newKey>>
  BY DEF UpdateFile, Giving, NoRow, DbError, r2Vars, keyVars, IInv, TypeInv, Routed
<1>2. PICK t \in {"deleteOld", "cleanup"} : pc' = [pc EXCEPT ![r] = t]
  BY DEF UpdateFile, NoRow, DbError, Goto
<1>3. CASE UNCHANGED row
  BY <1>1, <1>2, <1>3, MovesOn
<1>4. CASE /\ Exists(note[r])
           /\ row' = [row EXCEPT ![note[r]].key = newKey[r]]
  <2> DEFINE n == note[r]
             x == [row[n] EXCEPT !.key = newKey[r]]
  <2>1. /\ Used' = Used \cup {newKey[r]}
        /\ newKey[r] \in Key \ Used
    BY <1>1, <1>2, UsedGiven DEF GivingStep
  <2>2. row[n] \in Row
    BY <1>1, <1>4, ExistsRow DEF IInv, TypeInv
  <2>3. x \in Row /\ EntryOf(x) = [EntryOf(row[n]) EXCEPT !.file = newKey[r]]
    BY <2>1, <2>2 DEF Row, EntryOf
  <2>4. row' = [row EXCEPT ![n] = x]
    BY <1>4
  <2>5. Entries' = [Entries EXCEPT ![n] = EntryOf(x)]
    <3> HIDE DEF x
    <3> QED
      BY <1>1, <2>3, <2>4, EntriesChange, NullAssumption
  <2>6. n \in Catalog!Present /\ Entries[n] = EntryOf(row[n])
    BY <1>1, <1>4, EntryIs, PresentIsRows DEF Rows, IInv, TypeInv
  <2>7. Entries' = [Entries EXCEPT ![n].file = newKey[r]]
    BY <2>3, <2>5, <2>6
  <2>8. Catalog!Replace(n, newKey[r])
    BY <2>1, <2>6, <2>7 DEF Catalog!Replace, Catalog!Fresh
  <2> QED
    BY <1>1, <2>1, <2>8 DEF Catalog!Next
<1> QED
  BY <1>3, <1>4 DEF UpdateFile, NoRow, DbError, dbVars

(* A statement that changes one row, and no key: the entry changes as the  *)
(* row does.                                                               *)
LEMMA RowChange ==
  ASSUME IInv, IInv', NEW n \in Note, Exists(n), NEW x \in Row,
         row' = [row EXCEPT ![n] = x]
  PROVE  /\ n \in Catalog!Present
         /\ Entries[n] = EntryOf(row[n])
         /\ Entries' = [Entries EXCEPT ![n] = EntryOf(x)]
BY EntriesChange, EntryIs, PresentIsRows, NullAssumption DEF Rows, IInv, TypeInv

LEMMA UpdateImplements ==
  ASSUME IInv, IInv', NEW r \in Request, Update(r)
  PROVE  [Catalog!Next]_(Catalog!vars)
<1>1. /\ pc[r] = "update" /\ note[r] \in Note /\ ~Giving(r)
      /\ UNCHANGED <<minted, newKey>>
  BY DEF Update, Giving, NoRow, r2Vars, keyVars, IInv, TypeInv, Routed, Targets
<1>2. PICK t \in {"audit", "done"} : pc' = [pc EXCEPT ![r] = t]
  BY DEF Update, NoRow, Return, Goto
<1>3. Used' = Used
  BY <1>1, <1>2, UsedSame DEF GivingStep
<1>4. CASE UNCHANGED row
  BY <1>3, <1>4, Stutter
<1>5. ASSUME NEW p \in Place, NEW pub \in BOOLEAN,
             Exists(note[r]), Free(p, note[r]),
             row' = [row EXCEPT ![note[r]] = [@ EXCEPT !.place = p, !.published = pub]]
      PROVE  [Catalog!Next]_(Catalog!vars)
  <2> DEFINE n == note[r]
             x == [row[n] EXCEPT !.place = p, !.published = pub]
  <2>1. row[n] \in Row
    BY <1>1, <1>5, ExistsRow DEF IInv, TypeInv
  <2>2. /\ x \in Row
        /\ EntryOf(x) = [EntryOf(row[n]) EXCEPT !.place = p, !.published = pub]
    BY <2>1, EditedEntry
  <2>3. row' = [row EXCEPT ![n] = x]
    BY <1>5
  <2>4. /\ n \in Catalog!Present /\ Entries[n] = EntryOf(row[n])
        /\ Entries' = [Entries EXCEPT ![n] = EntryOf(x)]
    <3> HIDE DEF x
    <3> QED
      BY <1>1, <1>5, <2>2, <2>3, RowChange
  <2>5. Catalog!Free(p, n)
    BY <1>1, <1>5, FreeIsFree DEF IInv, TypeInv
  <2>6. Entries' = [Entries EXCEPT ![n] = [@ EXCEPT !.place = p, !.published = pub]]
    BY <2>2, <2>4
  <2>7. Catalog!Edit(n, p)
    BY <1>3, <2>4, <2>5, <2>6 DEF Catalog!Edit
  <2> QED
    BY <1>1, <2>7 DEF Catalog!Next
<1> QED
  BY <1>4, <1>5 DEF Update, NoRow, dbVars

LEMMA ArchiveImplements ==
  ASSUME IInv, IInv', NEW r \in Request, Archive(r)
  PROVE  [Catalog!Next]_(Catalog!vars)
<1> PICK a \in BOOLEAN, pub \in BOOLEAN : a = TRUE /\ pub = FALSE
  OBVIOUS
<1> DEFINE n == note[r]
           x == [row[n] EXCEPT !.archived = a, !.published = pub]
<1>1. /\ pc[r] = "archive" /\ n \in Note /\ ~Giving(r)
      /\ UNCHANGED <<minted, newKey>>
  BY DEF Archive, SetArchived, Giving, NoRow, DbError, r2Vars, keyVars, IInv,
     TypeInv, Routed, Targets
<1>2. PICK t \in {"audit", "done"} : pc' = [pc EXCEPT ![r] = t]
  BY DEF Archive, SetArchived, NoRow, DbError, Return, Goto
<1>3. Used' = Used
  BY <1>1, <1>2, UsedSame DEF GivingStep
<1>4. CASE UNCHANGED row
  BY <1>3, <1>4, Stutter
<1>5. CASE Exists(n) /\ row[n].archived = FALSE /\ row' = [row EXCEPT ![n] = x]
  <2>1. row[n] \in Row
    BY <1>1, <1>5, ExistsRow DEF IInv, TypeInv
  <2>2. /\ x \in Row
        /\ EntryOf(x) = [EntryOf(row[n]) EXCEPT !.archived = a, !.published = pub]
    BY <2>1, ArchivedEntry
  <2>5. ~EntryOf(row[n]).archived
    BY <1>5 DEF EntryOf
  <2>3. /\ n \in Catalog!Present /\ Entries[n] = EntryOf(row[n])
        /\ Entries' = [Entries EXCEPT ![n] = EntryOf(x)]
    <3> HIDE DEF x
    <3> QED
      BY <1>1, <1>5, <2>2, RowChange
  <2>4. Catalog!Archive(n)
    BY <1>3, <2>2, <2>3, <2>5 DEF Catalog!Archive
  <2> QED
    BY <1>1, <2>4 DEF Catalog!Next
<1> QED
  BY <1>4, <1>5 DEF Archive, SetArchived, NoRow, DbError, dbVars

LEMMA UnarchiveImplements ==
  ASSUME IInv, IInv', NEW r \in Request, Unarchive(r)
  PROVE  [Catalog!Next]_(Catalog!vars)
<1> PICK a \in BOOLEAN : a = FALSE
  OBVIOUS
<1> DEFINE n == note[r]
           x == [row[n] EXCEPT !.archived = a]
<1>1. /\ pc[r] = "unarchive" /\ n \in Note /\ ~Giving(r)
      /\ UNCHANGED <<minted, newKey>>
  BY DEF Unarchive, SetArchived, Giving, NoRow, DbError, r2Vars, keyVars, IInv,
     TypeInv, Routed, Targets
<1>2. PICK t \in {"audit", "done"} : pc' = [pc EXCEPT ![r] = t]
  BY DEF Unarchive, SetArchived, NoRow, DbError, Return, Goto
<1>3. Used' = Used
  BY <1>1, <1>2, UsedSame DEF GivingStep
<1>4. CASE UNCHANGED row
  BY <1>3, <1>4, Stutter
<1>5. CASE Exists(n) /\ row[n].archived = TRUE /\ row' = [row EXCEPT ![n] = x]
  <2>1. row[n] \in Row
    BY <1>1, <1>5, ExistsRow DEF IInv, TypeInv
  <2>2. /\ x \in Row
        /\ EntryOf(x) = [EntryOf(row[n]) EXCEPT !.archived = a]
    BY <2>1, RestoredEntry
  <2>5. EntryOf(row[n]).archived
    BY <1>5 DEF EntryOf
  <2>3. /\ n \in Catalog!Present /\ Entries[n] = EntryOf(row[n])
        /\ Entries' = [Entries EXCEPT ![n] = EntryOf(x)]
    <3> HIDE DEF x
    <3> QED
      BY <1>1, <1>5, <2>2, RowChange
  <2>4. Catalog!Restore(n)
    BY <1>3, <2>2, <2>3, <2>5 DEF Catalog!Restore
  <2> QED
    BY <1>1, <2>4 DEF Catalog!Next
<1> QED
  BY <1>4, <1>5 DEF Unarchive, SetArchived, NoRow, DbError, dbVars

LEMMA DeleteRowImplements ==
  ASSUME IInv, IInv', NEW r \in Request, DeleteRow(r)
  PROVE  [Catalog!Next]_(Catalog!vars)
<1> DEFINE n == note[r]
<1>1. /\ pc[r] = "deleteRow" /\ n \in Note /\ ~Giving(r)
      /\ UNCHANGED <<minted, newKey>>
  BY DEF DeleteRow, Giving, NoRow, DbError, r2Vars, keyVars, IInv, TypeInv,
     Routed, Targets
<1>2. PICK t \in {"deleteObject", "done"} : pc' = [pc EXCEPT ![r] = t]
  BY DEF DeleteRow, NoRow, DbError, Return, Goto
<1>3. Used' = Used
  BY <1>1, <1>2, UsedSame DEF GivingStep
<1>4. CASE UNCHANGED row
  BY <1>3, <1>4, Stutter
<1>5. CASE Deletable(n) /\ row' = [row EXCEPT ![n] = Gone]
  <2>1. /\ n \in Catalog!Present
        /\ Entries[n] = EntryOf(row[n])
    BY <1>1, <1>5, EntryIs, PresentIsRows DEF Deletable, Rows, IInv, TypeInv
  <2>2. Entries[n].archived
    BY <1>5, <2>1 DEF Deletable, EntryOf
  <2>3. Entries' = [Entries EXCEPT ![n] = Gone]
    BY <1>1, <1>5, EntriesChange
  <2>4. Catalog!Remove(n)
    BY <1>3, <2>1, <2>2, <2>3 DEF Catalog!Remove
  <2> QED
    BY <1>1, <2>4 DEF Catalog!Next
<1> QED
  BY <1>4, <1>5 DEF DeleteRow, NoRow, DbError, dbVars

-----------------------------------------------------------------------------
LEMMA CatalogInit == Init => Catalog!Init
<1> SUFFICES ASSUME Init PROVE Catalog!Init
  OBVIOUS
<1>1. IInv
  BY InitIInv
<1>2. ASSUME NEW n \in Note
      PROVE  /\ Entries[n] = IF Exists(n) THEN EntryOf(row[n]) ELSE Unborn
             /\ Exists(n) => EntryOf(row[n]) \in CatalogEntry
  <2>1. ~Exists(n) => row[n] = Unborn
    BY NullAssumption DEF Init, Exists
  <2>2. TypeOK /\ EveryNoteHasItsFile
    BY <1>1 DEF IInv, TypeInv
  <2>3. Exists(n) => row[n] \in Row
    BY <2>2, ExistsRow
  <2> QED
    BY <2>1, <2>2, <2>3, EntryIs, EntryOfRow
<1>3. Entries \in [Note -> CatalogEntry \cup {Unborn}]
  BY <1>2 DEF Entries
<1>4. Catalog!Present = Rows
  BY <1>1, PresentIsRows DEF IInv, TypeInv
<1>5. ASSUME NEW n \in Rows
      PROVE  Entries[n].file = row[n].key /\ Entries[n].place = row[n].place
  <2>1. Entries[n] = EntryOf(row[n])
    BY <1>2 DEF Rows
  <2> QED
    BY <2>1 DEF EntryOf
<1>6. Used = {Entries[n].file : n \in Rows}
  BY <1>5 DEF Init, Used, Giving
<1> QED
  BY <1>3, <1>4, <1>5, <1>6 DEF Catalog!Init, CatalogEntry, Init

LEMMA CatalogStep == IInv /\ IInv' /\ [Next]_vars => [Catalog!Next]_(Catalog!vars)
<1> SUFFICES ASSUME IInv, IInv', [Next]_vars PROVE [Catalog!Next]_(Catalog!vars)
  OBVIOUS
<1>1. ASSUME NEW r \in Request, Start(r) \/ Handle(r) \/ Crash(r)
      PROVE  [Catalog!Next]_(Catalog!vars)
  BY <1>1, PassiveImplements, UploadImplements, InsertImplements,
     UpdateFileImplements, UpdateImplements, ArchiveImplements,
     UnarchiveImplements, DeleteRowImplements DEF Handle
<1>2. CASE UNCHANGED vars
  <2>1. Used' = Used /\ UNCHANGED row
    BY <1>2 DEF vars, Used, Giving
  <2> QED
    BY <2>1, Stutter
<1> QED
  BY <1>1, <1>2 DEF Next, Terminated

(* The table and the bucket together are one catalogue on which every      *)
(* operation of the note pages is atomic, and in which each note has its   *)
(* file, but for a commit nobody saw.                                      *)
THEOREM NotesImplementCatalog == Spec => ImplementsCatalog
<1>1. Spec => []IInv
  BY InitIInv, NextIInv, PTL DEF Spec
<1> QED
  BY <1>1, CatalogInit, CatalogStep, PTL DEF Spec, ImplementsCatalog, Catalog!Spec

-----------------------------------------------------------------------------
(***************************************************************************)
(* Reading notes (NoteReading).                                            *)
(*                                                                         *)
(* The key of a link was on display when its note was looked up (Seen),    *)
(* and a link that reaches a browser expires LinkTTL after an answer that  *)
(* came no more than WriteTimeout after the look-up (LinksSigned).         *)
(***************************************************************************)
Lookup == [note : Note, key : Key, at : 0..clock]

LinkTo == [key : Key, exp : Nat]

(* A key on display is seen.                                               *)
Seen == \A k \in Key : OnDisplay(k) => lastSeen[k] = clock

(* What a viewer found was on display then.                                *)
FoundSeen ==
  \A v \in Viewer : vpc[v] \in {"count", "sign", "redirect", "browse"} =>
    /\ viewed[v] \in Lookup
    /\ lastSeen[viewed[v].key] \in viewed[v].at..clock

(* What it was given in turn.                                              *)
LinksSigned ==
  \A v \in Viewer :
    /\ vpc[v] \in {"redirect", "browse"} =>
         link[v] \in LinkTo /\ link[v].key = viewed[v].key
    /\ vpc[v] = "redirect" => link[v].exp <= clock + LinkTTL
    /\ vpc[v] = "browse" => link[v].exp <= viewed[v].at + WriteTimeout + LinkTTL

ReadInv == IInv /\ ReadingTypeOK /\ Seen /\ FoundSeen /\ LinksSigned

LEMMA VisibleKey ==
  ASSUME TypeOK, NEW n \in Note, Visible(n)
  PROVE  row[n].key \in Key /\ OnDisplay(row[n].key)
BY DEF TypeOK, Visible, Exists, OnDisplay, Row

LEMMA ReadingStarts == ReadingInit => ReadInv
<1> SUFFICES ASSUME ReadingInit PROVE ReadInv
  OBVIOUS
<1>1. IInv /\ clock = 0
  BY InitIInv DEF ReadingInit
<1>2. lastSeen \in [Key -> 0..clock \cup {Nothing}] /\ Seen
  BY <1>1 DEF ReadingInit, Seen
<1>3. ReadingTypeOK
  BY <1>1, <1>2, ReadingAssumption DEF ReadingInit, ReadingTypeOK
<1>4. FoundSeen /\ LinksSigned
  BY DEF ReadingInit, FoundSeen, LinksSigned
<1> QED BY <1>1, <1>2, <1>3, <1>4 DEF ReadInv

(* The history moves on: what was seen stays seen, and no earlier.         *)
LEMMA NoticeKeeps ==
  ASSUME ReadingTypeOK, Notice, clock' \in Nat, clock <= clock'
  PROVE  /\ lastSeen' \in [Key -> 0..clock' \cup {Nothing}]
         /\ Seen'
         /\ \A k \in Key, a \in Nat : lastSeen[k] \in a..clock => lastSeen'[k] \in a..clock'
         /\ \A k \in Key : OnDisplay(k) => lastSeen'[k] = clock'
<1>1. clock \in Nat /\ lastSeen \in [Key -> 0..clock \cup {Nothing}]
  BY DEF ReadingTypeOK
<1>2. \A k \in Key : \/ lastSeen'[k] = clock'
                     \/ ~OnDisplay(k) /\ ~OnDisplay(k)' /\ lastSeen'[k] = lastSeen[k]
  BY DEF Notice
<1>3. lastSeen' \in [Key -> 0..clock' \cup {Nothing}]
  <2>1. ASSUME NEW k \in Key PROVE lastSeen'[k] \in 0..clock' \cup {Nothing}
    <3>1. clock' \in 0..clock' /\ \A c \in 0..clock : c \in 0..clock'
      BY <1>1
    <3> QED BY <1>1, <1>2, <3>1
  <2>2. lastSeen' = [k \in Key |-> lastSeen'[k]]
    BY DEF Notice
  <2> QED BY <2>1, <2>2
<1>4. Seen'
  BY <1>2 DEF Seen
<1>5. ASSUME NEW k \in Key, NEW a \in Nat, lastSeen[k] \in a..clock
      PROVE  lastSeen'[k] \in a..clock'
  BY <1>1, <1>2, <1>5
<1> QED BY <1>2, <1>3, <1>4, <1>5

(* A viewer whose variables stay.                                          *)
LEMMA ViewersStay ==
  ASSUME ReadInv, Notice, clock' \in Nat, clock <= clock',
         NEW v \in Viewer, UNCHANGED <<vpc[v], viewed[v], link[v]>>
  PROVE  /\ vpc'[v] \in {"count", "sign", "redirect", "browse"} =>
              /\ viewed'[v] \in Lookup'
              /\ lastSeen'[viewed'[v].key] \in viewed'[v].at..clock'
         /\ vpc'[v] \in {"redirect", "browse"} =>
              link'[v] \in LinkTo /\ link'[v].key = viewed'[v].key
         /\ vpc'[v] = "redirect" => link'[v].exp <= clock' + LinkTTL
         /\ vpc'[v] = "browse" =>
              link'[v].exp <= viewed'[v].at + WriteTimeout + LinkTTL
<1>1. ReadingTypeOK /\ clock \in Nat /\ LinkTTL \in Nat
  BY ReadingAssumption DEF ReadInv, ReadingTypeOK
<1>2. ASSUME vpc[v] \in {"count", "sign", "redirect", "browse"}
      PROVE  /\ viewed[v] \in Lookup'
             /\ lastSeen'[viewed[v].key] \in viewed[v].at..clock'
  <2>1. viewed[v] \in Lookup /\ lastSeen[viewed[v].key] \in viewed[v].at..clock
    BY <1>2 DEF ReadInv, FoundSeen
  <2>2. viewed[v].key \in Key /\ viewed[v].at \in Nat
    BY <1>1, <2>1 DEF Lookup
  <2>3. \A c \in 0..clock : c \in 0..clock'
    BY <1>1
  <2>4. viewed[v] \in Lookup'
    BY <2>1, <2>3 DEF Lookup
  <2> QED BY <1>1, <2>1, <2>2, <2>4, NoticeKeeps
<1>3. vpc[v] = "redirect" => link[v] \in LinkTo /\ link[v].exp <= clock + LinkTTL
  BY DEF ReadInv, LinksSigned
<1>4. vpc[v] = "redirect" => link[v].exp <= clock' + LinkTTL
  BY <1>1, <1>3 DEF LinkTo
<1> QED BY <1>2, <1>4 DEF ReadInv, LinksSigned

(* An admin's step, an edit of the hierarchy, the clock.                   *)
LEMMA AroundViewers ==
  ASSUME ReadInv, Notice, IInv', UNCHANGED readVars, shown' \subseteq Place,
         clock' \in 0..Horizon, clock <= clock'
  PROVE  ReadInv'
<1>1. ReadingTypeOK /\ clock \in Nat /\ clock' \in Nat
  BY ReadingAssumption DEF ReadInv, ReadingTypeOK
<1>2. /\ lastSeen' \in [Key -> 0..clock' \cup {Nothing}]
      /\ Seen'
  BY <1>1, NoticeKeeps
<1>3. FoundSeen' /\ LinksSigned'
  BY <1>1, ViewersStay DEF readVars, FoundSeen, LinksSigned, LinkTo
<1>4. viewed' \in [Viewer -> Lookup' \cup {Nothing}]
  <2>1. viewed \in [Viewer -> Lookup \cup {Nothing}]
    BY <1>1 DEF ReadingTypeOK, Lookup
  <2>2. \A c \in 0..clock : c \in 0..clock'
    BY <1>1
  <2>3. \A x : x \in Lookup => x \in Lookup'
    BY <2>2 DEF Lookup
  <2> QED BY <2>1, <2>3 DEF readVars
<1>5. ReadingTypeOK'
  BY <1>1, <1>2, <1>4 DEF ReadingTypeOK, readVars, Lookup
<1> QED BY <1>2, <1>3, <1>5 DEF ReadInv

(* A viewer's step: the others stay, and what it does is its own.          *)
LEMMA OneViewer ==
  ASSUME ReadInv, Notice, UNCHANGED <<vars, clock, shown>>, ReadingTypeOK',
         NEW v \in Viewer,
         \A w \in Viewer \ {v} : UNCHANGED <<vpc[w], viewed[w], link[w]>>,
         vpc'[v] \in {"count", "sign", "redirect", "browse"} =>
           /\ viewed'[v] \in Lookup
           /\ lastSeen'[viewed'[v].key] \in viewed'[v].at..clock,
         vpc'[v] \in {"redirect", "browse"} =>
           link'[v] \in LinkTo /\ link'[v].key = viewed'[v].key,
         vpc'[v] = "redirect" => link'[v].exp <= clock + LinkTTL,
         vpc'[v] = "browse" => link'[v].exp <= viewed'[v].at + WriteTimeout + LinkTTL
  PROVE  ReadInv'
<1>1. ReadingTypeOK /\ clock \in Nat /\ clock' = clock /\ clock' \in Nat /\ clock <= clock'
  BY DEF ReadInv, ReadingTypeOK
<1>2. IInv'
  BY NextIInv DEF ReadInv
<1>3. Lookup' = Lookup
  BY <1>1 DEF Lookup
<1>4. \A w \in Viewer \ {v} :
        /\ vpc'[w] \in {"count", "sign", "redirect", "browse"} =>
             /\ viewed'[w] \in Lookup'
             /\ lastSeen'[viewed'[w].key] \in viewed'[w].at..clock'
        /\ vpc'[w] \in {"redirect", "browse"} =>
             link'[w] \in LinkTo /\ link'[w].key = viewed'[w].key
        /\ vpc'[w] = "redirect" => link'[w].exp <= clock' + LinkTTL
        /\ vpc'[w] = "browse" =>
             link'[w].exp <= viewed'[w].at + WriteTimeout + LinkTTL
  BY <1>1, ViewersStay
<1>5. FoundSeen' /\ LinksSigned'
  BY <1>1, <1>3, <1>4 DEF FoundSeen, LinksSigned, LinkTo
<1>6. Seen'
  BY <1>1, NoticeKeeps
<1> QED BY <1>2, <1>5, <1>6 DEF ReadInv

LEMMA ReadKeeps ==
  ASSUME ReadInv, Notice, UNCHANGED vars, NEW v \in Viewer, Read(v)
  PROVE  ReadInv'
<1>1. /\ ReadingTypeOK /\ IInv /\ TypeOK /\ UNCHANGED <<vars, clock, shown>>
      /\ clock \in Nat /\ clock' = clock /\ clock <= clock' /\ LinkTTL \in Nat
  BY ReadingAssumption DEF ReadInv, ReadingTypeOK, Read, IInv, TypeInv
<1>2. /\ lastSeen' \in [Key -> 0..clock' \cup {Nothing}]
      /\ \A k \in Key, a \in Nat : lastSeen[k] \in a..clock => lastSeen'[k] \in a..clock
      /\ \A k \in Key : OnDisplay(k) => lastSeen'[k] = clock
  BY <1>1, NoticeKeeps
<1>3. /\ vpc[v] \in {"count", "sign", "redirect", "browse"} =>
           /\ viewed[v] \in Lookup
           /\ lastSeen'[viewed[v].key] \in viewed[v].at..clock
      /\ vpc[v] \in {"redirect", "browse"} =>
           link[v] \in LinkTo /\ link[v].key = viewed[v].key
      /\ vpc[v] = "redirect" => link[v].exp <= clock + LinkTTL
      /\ vpc[v] = "browse" => link[v].exp <= viewed[v].at + WriteTimeout + LinkTTL
  <2>1. ASSUME vpc[v] \in {"count", "sign", "redirect", "browse"}
        PROVE  /\ viewed[v] \in Lookup
               /\ lastSeen'[viewed[v].key] \in viewed[v].at..clock
    <3>1. viewed[v] \in Lookup /\ lastSeen[viewed[v].key] \in viewed[v].at..clock
      BY <2>1 DEF ReadInv, FoundSeen
    <3>2. viewed[v].key \in Key /\ viewed[v].at \in Nat
      BY <1>1, <3>1 DEF Lookup
    <3> QED BY <1>2, <3>1, <3>2
  <2> QED BY <2>1 DEF ReadInv, LinksSigned
<1>4. CASE Look(v)
  <2>1. vpc[v] = "idle" /\ UNCHANGED <<views, link, fetched>>
    BY <1>4 DEF Look
  <2>2. CASE \E n \in Note : /\ Visible(n)
                             /\ viewed' = [viewed EXCEPT ![v] =
                                  [note |-> n, key |-> row[n].key, at |-> clock]]
                             /\ \E s \in {"count", "sign"} : Turn(v, s)
    <3>1. PICK n \in Note, s \in {"count", "sign"} :
            /\ Visible(n)
            /\ viewed' = [viewed EXCEPT ![v] =
                            [note |-> n, key |-> row[n].key, at |-> clock]]
            /\ Turn(v, s)
      BY <2>2
    <3>2. PICK x : x = [note |-> n, key |-> row[n].key, at |-> clock]
      OBVIOUS
    <3>3. row[n].key \in Key /\ OnDisplay(row[n].key)
      BY <1>1, <3>1, VisibleKey
    <3>4. x \in Lookup /\ x.key = row[n].key /\ x.at = clock
      <4>1. clock \in 0..clock
        BY <1>1
      <4> QED BY <3>2, <3>3, <4>1 DEF Lookup
    <3>5. viewed' = [viewed EXCEPT ![v] = x] /\ vpc' = [vpc EXCEPT ![v] = s]
      BY <3>1, <3>2 DEF Turn
    <3>6. /\ viewed'[v] = x /\ vpc'[v] = s
          /\ \A w \in Viewer \ {v} : UNCHANGED <<vpc[w], viewed[w], link[w]>>
      BY <1>1, <2>1, <3>5 DEF ReadingTypeOK
    <3>7. lastSeen'[x.key] \in x.at..clock
      BY <1>1, <1>2, <3>3, <3>4
    <3>8. ReadingTypeOK'
      <4>1. viewed' \in [Viewer -> Lookup \cup {Nothing}]
        BY <1>1, <3>4, <3>5 DEF ReadingTypeOK, Lookup
      <4>2. vpc' \in [Viewer -> {"idle", "count", "sign", "redirect", "browse", "done"}]
        BY <1>1, <3>5 DEF ReadingTypeOK
      <4> QED BY <1>1, <1>2, <2>1, <4>1, <4>2 DEF ReadingTypeOK, Lookup
    <3> QED BY <1>1, <3>4, <3>6, <3>7, <3>8, OneViewer
  <2>3. CASE \E n \in Note : ~Visible(n) /\ Turn(v, "done") /\ UNCHANGED viewed
    <3>1. vpc' = [vpc EXCEPT ![v] = "done"] /\ UNCHANGED viewed
      BY <2>3 DEF Turn
    <3>2. /\ vpc'[v] = "done"
          /\ \A w \in Viewer \ {v} : UNCHANGED <<vpc[w], viewed[w], link[w]>>
      BY <1>1, <2>1, <3>1 DEF ReadingTypeOK
    <3>3. ReadingTypeOK'
      <4>1. vpc' \in [Viewer -> {"idle", "count", "sign", "redirect", "browse", "done"}]
        BY <1>1, <3>1 DEF ReadingTypeOK
      <4> QED BY <1>1, <1>2, <2>1, <3>1, <4>1 DEF ReadingTypeOK
    <3> QED BY <1>1, <3>2, <3>3, OneViewer
  <2> QED BY <1>4, <2>2, <2>3 DEF Look
<1>5. CASE CountView(v)
  <2>1. /\ vpc[v] = "count" /\ vpc' = [vpc EXCEPT ![v] = "sign"]
        /\ UNCHANGED <<viewed, link, fetched>>
    BY <1>5 DEF CountView, Turn
  <2>2. /\ vpc'[v] = "sign"
        /\ \A w \in Viewer \ {v} : UNCHANGED <<vpc[w], viewed[w], link[w]>>
    BY <1>1, <2>1 DEF ReadingTypeOK
  <2>3. ReadingTypeOK'
    <3>1. views' \in [Note -> Nat]
      <4>1. PICK n : views' = views \/ views' = [views EXCEPT ![n] = @ + 1]
        BY <1>5 DEF CountView
      <4>2. views \in [Note -> Nat]
        BY <1>1 DEF ReadingTypeOK
      <4> QED BY <4>1, <4>2
    <3>2. vpc' \in [Viewer -> {"idle", "count", "sign", "redirect", "browse", "done"}]
      BY <1>1, <2>1 DEF ReadingTypeOK
    <3> QED BY <1>1, <1>2, <2>1, <3>1, <3>2 DEF ReadingTypeOK
  <2> QED BY <1>1, <1>3, <2>1, <2>2, <2>3, OneViewer
<1>6. CASE Sign(v)
  <2>1. /\ vpc[v] = "sign" /\ vpc' = [vpc EXCEPT ![v] = "redirect"]
        /\ UNCHANGED <<views, viewed, fetched>>
    BY <1>6 DEF Sign, Turn
  <2>2. PICK l : l = [key |-> viewed[v].key, exp |-> clock + LinkTTL]
    OBVIOUS
  <2>3. link' = [link EXCEPT ![v] = l]
    BY <1>6, <2>2 DEF Sign
  <2>4. l \in LinkTo /\ l.key = viewed[v].key /\ l.exp <= clock + LinkTTL
    <3>1. viewed[v].key \in Key
      BY <1>3, <2>1 DEF Lookup
    <3>2. clock + LinkTTL \in Nat
      BY <1>1
    <3> QED BY <2>2, <3>1, <3>2 DEF LinkTo
  <2>5. /\ vpc'[v] = "redirect" /\ link'[v] = l /\ viewed'[v] = viewed[v]
        /\ \A w \in Viewer \ {v} : UNCHANGED <<vpc[w], viewed[w], link[w]>>
    BY <1>1, <2>1, <2>3 DEF ReadingTypeOK
  <2>6. ReadingTypeOK'
    <3>1. link' \in [Viewer -> LinkTo \cup {Nothing}]
      BY <1>1, <2>3, <2>4 DEF ReadingTypeOK, LinkTo
    <3>2. vpc' \in [Viewer -> {"idle", "count", "sign", "redirect", "browse", "done"}]
      BY <1>1, <2>1 DEF ReadingTypeOK
    <3> QED BY <1>1, <1>2, <2>1, <3>1, <3>2 DEF ReadingTypeOK, LinkTo
  <2> QED BY <1>1, <1>3, <2>1, <2>4, <2>5, <2>6, OneViewer
<1>7. CASE Respond(v)
  <2>1. PICK s : /\ s = IF clock - viewed[v].at <= WriteTimeout THEN "browse" ELSE "done"
                 /\ vpc[v] = "redirect" /\ vpc' = [vpc EXCEPT ![v] = s]
                 /\ UNCHANGED <<views, viewed, link, fetched>>
    BY <1>7 DEF Respond, Turn
  <2>2. /\ vpc'[v] = s
        /\ \A w \in Viewer \ {v} : UNCHANGED <<vpc[w], viewed[w], link[w]>>
    BY <1>1, <2>1 DEF ReadingTypeOK
  <2>3. s = "browse" => link[v].exp <= viewed[v].at + WriteTimeout + LinkTTL
    <3>1. viewed[v].at \in Nat /\ link[v].exp \in Nat /\ WriteTimeout \in Nat
      BY <1>1, <1>3, <2>1, ReadingAssumption DEF Lookup, LinkTo
    <3>2. s = "browse" => clock - viewed[v].at <= WriteTimeout
      BY <2>1
    <3>3. link[v].exp <= clock + LinkTTL
      BY <1>3, <2>1
    <3> QED BY <1>1, <3>1, <3>2, <3>3
  <2>4. ReadingTypeOK'
    <3>1. vpc' \in [Viewer -> {"idle", "count", "sign", "redirect", "browse", "done"}]
      BY <1>1, <2>1 DEF ReadingTypeOK
    <3> QED BY <1>1, <1>2, <2>1, <3>1 DEF ReadingTypeOK
  <2>5. s \in {"browse", "done"}
    BY <2>1
  <2> QED BY <1>1, <1>3, <2>1, <2>2, <2>3, <2>4, <2>5, OneViewer
<1>8. CASE Fetch(v)
  <2>1. /\ vpc[v] = "browse" /\ UNCHANGED <<views, vpc, viewed, link>>
        /\ fetched' = [fetched EXCEPT ![v] = Redeem(link[v])]
    BY <1>8 DEF Fetch
  <2>2. Redeem(link[v]) \in {"none", "expired", "missing", "served"}
    BY DEF Redeem
  <2>3. ReadingTypeOK'
    <3>1. fetched' \in [Viewer -> {"none", "expired", "missing", "served"}]
      BY <1>1, <2>1, <2>2 DEF ReadingTypeOK
    <3> QED BY <1>1, <1>2, <2>1, <3>1 DEF ReadingTypeOK
  <2> QED BY <1>1, <1>3, <2>1, <2>3, OneViewer
<1> QED BY <1>4, <1>5, <1>6, <1>7, <1>8 DEF Read

LEMMA ReadingStep == ReadInv /\ [ReadingNext]_allVars => ReadInv'
<1> SUFFICES ASSUME ReadInv, [ReadingNext]_allVars PROVE ReadInv'
  OBVIOUS
<1>1. IInv /\ ReadingTypeOK /\ clock \in Nat /\ Horizon \in Nat
  BY ReadingAssumption DEF ReadInv, ReadingTypeOK
<1>2. CASE Next /\ UNCHANGED <<clock, shown, readVars>> /\ Notice
  <2>1. IInv'
    BY <1>1, <1>2, NextIInv
  <2> QED BY <1>1, <1>2, <2>1, AroundViewers DEF ReadingTypeOK
<1>3. CASE UNCHANGED vars /\ Curate /\ Notice
  <2>1. IInv'
    BY <1>1, <1>3, NextIInv
  <2> QED BY <1>1, <1>3, <2>1, AroundViewers DEF ReadingTypeOK, Curate
<1>4. CASE UNCHANGED vars /\ Tick /\ Notice
  <2>1. IInv'
    BY <1>1, <1>4, NextIInv
  <2>2. clock' \in 0..Horizon /\ clock <= clock'
    BY <1>1, <1>4 DEF Tick
  <2> QED BY <1>1, <1>4, <2>1, <2>2, AroundViewers DEF ReadingTypeOK, Tick
<1>5. CASE UNCHANGED vars /\ (\E v \in Viewer : Read(v)) /\ Notice
  BY <1>5, ReadKeeps
<1>6. CASE UNCHANGED allVars
  <2>1. UNCHANGED <<vars, clock, shown, readVars, lastSeen>>
    BY <1>6 DEF allVars
  <2>2. IInv'
    BY <1>1, <2>1, NextIInv
  <2>3. UNCHANGED <<row, clock, shown, views, vpc, viewed, link, fetched, lastSeen>>
    BY <2>1 DEF vars, readVars
  <2>4. \A k : OnDisplay(k)' <=> OnDisplay(k)
    BY <2>3 DEF OnDisplay, Visible, Exists
  <2>5. Seen' /\ FoundSeen' /\ LinksSigned' /\ ReadingTypeOK'
    BY <2>3, <2>4 DEF ReadInv, Seen, FoundSeen, LinksSigned, ReadingTypeOK, Lookup, LinkTo
  <2> QED BY <2>2, <2>5 DEF ReadInv
<1> QED BY <1>2, <1>3, <1>4, <1>5, <1>6 DEF ReadingNext

LEMMA AlwaysReadInv == ReadingSpec => []ReadInv
BY ReadingStarts, ReadingStep, PTL DEF ReadingSpec

(* The viewers' variables keep their types, whatever the admins do.        *)
THEOREM ReadingTypes == ReadingSpec => []ReadingTypeOK
<1>1. ReadInv => ReadingTypeOK
  BY DEF ReadInv
<1> QED BY <1>1, AlwaysReadInv, PTL

(* What the worker serves was on display no longer ago than the write      *)
(* deadline and the life of a link together.                               *)
THEOREM ServedWasOnDisplay == ReadingSpec => LinksDie
<1>1. ASSUME ReadInv, NEW v \in Viewer, fetched'[v] = "served", Fetch(v)
      PROVE  /\ lastSeen[link[v].key] # Nothing
             /\ clock <= lastSeen[link[v].key] + WriteTimeout + LinkTTL
  <2>1. /\ vpc[v] = "browse" /\ fetched'[v] = Redeem(link[v])
        /\ clock \in Nat /\ LinkTTL \in Nat /\ WriteTimeout \in Nat
    BY <1>1, ReadingAssumption DEF ReadInv, ReadingTypeOK, Fetch
  <2>2. /\ viewed[v] \in Lookup /\ lastSeen[viewed[v].key] \in viewed[v].at..clock
        /\ link[v] \in LinkTo /\ link[v].key = viewed[v].key
        /\ link[v].exp <= viewed[v].at + WriteTimeout + LinkTTL
    BY <1>1, <2>1 DEF ReadInv, FoundSeen, LinksSigned
  <2>3. viewed[v].at \in Nat /\ link[v].exp \in Nat
    BY <2>1, <2>2 DEF Lookup, LinkTo
  <2>4. ~(link[v].exp < clock)
    BY <1>1, <2>1 DEF Redeem
  <2>5. PICK s \in Nat : s = lastSeen[link[v].key] /\ viewed[v].at <= s
    BY <2>1, <2>2, <2>3
  <2>6. s # Nothing
    BY ReadingAssumption
  <2>7. clock <= s + WriteTimeout + LinkTTL
    BY <2>1, <2>2, <2>3, <2>4, <2>5
  <2> QED BY <2>5, <2>6, <2>7
<1>2. ReadInv /\ [ReadingNext]_allVars =>
        [\A v \in Viewer :
           fetched'[v] = "served" /\ Fetch(v) =>
             /\ lastSeen[link[v].key] # Nothing
             /\ clock <= lastSeen[link[v].key] + WriteTimeout + LinkTTL]_allVars
  BY <1>1
<1> QED BY <1>2, AlwaysReadInv, PTL DEF ReadingSpec, LinksDie

-----------------------------------------------------------------------------
(***************************************************************************)
(* Why links serve.  The object of a file that was looked up is there      *)
(* until a request takes it from its note: nobody is to give the key to a  *)
(* row any more, and nobody cleans it up but after a commit nobody saw.    *)
(***************************************************************************)
Kept(k) ==
  /\ k \in minted
  /\ k \in bucket \/ TakenAway(k)
  /\ \A r \in Request : newKey[r] = k =>
       ~Giving(r) /\ (pc[r] = "cleanup" => "commitUnknown" \in mishap[k])

(* The file of a row.                                                      *)
LEMMA RowKept ==
  ASSUME IInv, NEW n \in Note, Exists(n)
  PROVE  Kept(row[n].key)
<1>1. n \in Rows /\ row[n].key \in minted /\ Referenced(row[n].key)
  BY DEF Rows, Referenced, IInv, KeysOwned, RowKeys
<1>2. row[n].key \in bucket \/ TakenAway(row[n].key)
  BY <1>1 DEF IInv, EveryNoteHasItsFile, TakenAway
<1>3. ASSUME NEW r \in Request, newKey[r] = row[n].key
      PROVE  ~Giving(r) /\ (pc[r] = "cleanup" => "commitUnknown" \in mishap[row[n].key])
  BY <1>1, <1>3 DEF IInv, KeysOwned, GivenKeys, CleanedKeys
<1> QED
  BY <1>1, <1>2, <1>3 DEF Kept

(* What a step of r does to the keys in its hands.                         *)
LEMMA HandsOf ==
  ASSUME IInv, Honest, NEW r \in Request, Start(r) \/ Handle(r) \/ Crash(r)
  PROVE  /\ wrote[r] \subseteq wrote'[r]
         /\ oldKey'[r] = oldKey[r] \/ wrote[r] = {}
         /\ newKey'[r] = newKey[r] \/ newKey'[r] \in Key \ minted
         /\ newKey'[r] = newKey[r] =>
              /\ Giving(r)' => Giving(r)
              /\ pc'[r] = "cleanup" => Giving(r)
         /\ \A k \in bucket \ bucket' :
              \/ pc[r] = "cleanup" /\ k = newKey[r]
              \/ oldKey[r] = k /\ wrote[r] # {}
<1>1. CASE Start(r)
  <2>1. PICK o \in Serves[r] : pc' = [pc EXCEPT ![r] = FirstStep(o)]
    BY <1>1 DEF Start, Goto
  <2>2. FirstStep(o) \in {"upload", "update", "archive", "unarchive", "deleteRow", "find"}
    BY ServesAssumption DEF FirstStep, Op
  <2> QED
    BY <1>1, <2>1, <2>2 DEF Start, r2Vars, keyVars, Giving, IInv, TypeInv, TypeOK
<1>2. CASE Reject(r) \/ WriteAudit(r) \/ Crash(r)
  BY <1>2 DEF Reject, WriteAudit, Crash, Return, Goto, r2Vars, keyVars, Giving, IInv,
     TypeInv, TypeOK
<1>3. CASE Upload(r)
  <2>1. newKey'[r] \in Key \ minted /\ bucket \subseteq bucket'
    BY <1>3 DEF Upload, IInv, TypeInv, TypeOK
  <2>2. newKey[r] \notin Key \ minted
    BY NullAssumption DEF IInv, KeysOwned, LocalKeys
  <2> QED
    BY <1>3, <2>1, <2>2 DEF Upload
<1>4. CASE Cleanup(r)
  BY <1>4 DEF Cleanup, DeleteObject, Goto, keyVars, Giving, IInv, TypeInv, TypeOK
<1>5. CASE DeleteOld(r) \/ DeleteFile(r)
  <2>1. wrote[r] # {}
    BY <1>5 DEF DeleteOld, DeleteFile, Honest, Reported
  <2> QED
    BY <1>5, <2>1 DEF DeleteOld, DeleteFile, ReplacedKey, DeleteObject, Return, Goto,
       keyVars, Giving, IInv, TypeInv, TypeOK
<1>6. CASE Insert(r) \/ UpdateFile(r)
  <2>1. Giving(r)
    BY <1>6 DEF Insert, UpdateFile, Giving
  <2>2. UNCHANGED <<bucket, newKey, oldKey>>
    BY <1>6 DEF Insert, UpdateFile, NoRow, DbError, r2Vars, keyVars
  <2>3. wrote[r] \subseteq wrote'[r]
    BY <1>6 DEF Insert, InsertRow, UpdateFile, NoRow, DbError, Wrote, IInv, TypeInv, TypeOK
  <2> QED
    BY <2>1, <2>2, <2>3
<1>7. CASE Find(r) \/ Update(r) \/ Archive(r) \/ Unarchive(r) \/ DeleteRow(r)
  <2>1. wrote[r] = {}
    BY <1>7 DEF Find, Update, Archive, Unarchive, SetArchived, DeleteRow, Targets,
       Honest, Reported, Handling, IInv, TypeInv, Routed
  <2>2. UNCHANGED <<bucket, newKey>>
    BY <1>7 DEF Find, Update, Archive, Unarchive, SetArchived, DeleteRow, NoRow, DbError,
       r2Vars, keyVars
  <2>3. pc'[r] \in {"upload", "done", "audit", "deleteObject"}
    BY <1>7 DEF Find, Update, Archive, Unarchive, SetArchived, DeleteRow, NoRow, DbError,
       Return, Goto, IInv, TypeInv, TypeOK
  <2> QED
    BY <2>1, <2>2, <2>3 DEF Giving
<1> QED
  BY <1>1, <1>2, <1>3, <1>4, <1>5, <1>6, <1>7 DEF Handle

LEMMA StepKept ==
  ASSUME IInv, Honest, NEW r \in Request, Start(r) \/ Handle(r) \/ Crash(r),
         NEW k \in Key, Kept(k)
  PROVE  Kept(k)'
<1>1. Local(r) /\ Marks(r)
  BY StepLocal, StepMarks
<1>2. k \in minted' /\ (TakenAway(k) => TakenAway(k)')
  BY <1>1, HandsOf DEF Kept, Local, Marks, TakenAway
<1>3. k \in bucket' \/ TakenAway(k)'
  <2>1. CASE pc[r] = "cleanup" /\ k = newKey[r]
    BY <1>2, <2>1 DEF Kept, TakenAway
  <2>2. CASE oldKey[r] = k /\ wrote[r] # {}
    BY <1>2, <2>2 DEF TakenAway
  <2> QED
    BY <1>2, <2>1, <2>2, HandsOf DEF Kept
<1>4. ASSUME NEW s \in Request, newKey'[s] = k
      PROVE  ~Giving(s)' /\ (pc'[s] = "cleanup" => "commitUnknown" \in mishap'[k])
  <2>1. CASE s = r
    BY <1>4, <2>1, HandsOf DEF Kept
  <2>2. CASE s # r
    <3>1. newKey'[s] = newKey[s] /\ pc'[s] = pc[s] /\ mishap[k] \subseteq mishap'[k]
      BY <1>1, <2>2 DEF Local
    <3> QED
      BY <1>4, <3>1 DEF Kept, Giving
  <2> QED
    BY <2>1, <2>2
<1> QED
  BY <1>2, <1>3, <1>4 DEF Kept

LEMMA NextKept ==
  ASSUME IInv, Honest, [Next]_vars, NEW k \in Key, Kept(k)
  PROVE  Kept(k)'
<1>1. ASSUME NEW r \in Request, Start(r) \/ Handle(r) \/ Crash(r)
      PROVE  Kept(k)'
  BY <1>1, StepKept
<1>2. CASE UNCHANGED vars
  BY <1>2 DEF vars, Kept, TakenAway, Giving
<1> QED
  BY <1>1, <1>2 DEF Next, Terminated

(* What a viewer goes on with, and how long its link is good.              *)
ServeInv ==
  \A v \in Viewer :
    /\ vpc[v] \in {"count", "sign", "redirect", "browse"} => Kept(viewed[v].key)
    /\ vpc[v] \in {"redirect", "browse"} => viewed[v].at + LinkTTL <= link[v].exp

LEMMA ServeStarts == ReadingInit => Honest /\ ServeInv
BY InitHonest DEF ReadingInit, ServeInv

(* A viewer whose variables stay.                                          *)
LEMMA ServeStays ==
  ASSUME ReadInv, Honest, ServeInv, [Next]_vars,
         NEW v \in Viewer, UNCHANGED <<vpc[v], viewed[v], link[v]>>
  PROVE  /\ vpc'[v] \in {"count", "sign", "redirect", "browse"} => Kept(viewed[v].key)'
         /\ vpc'[v] \in {"redirect", "browse"} => viewed'[v].at + LinkTTL <= link'[v].exp
<1>1. ASSUME vpc[v] \in {"count", "sign", "redirect", "browse"}
      PROVE  Kept(viewed[v].key)'
  <2>1. PICK k \in Key : k = viewed[v].key /\ Kept(k)
    BY <1>1 DEF ReadInv, FoundSeen, Lookup, ServeInv
  <2>2. Kept(k)'
    BY <2>1, NextKept DEF ReadInv
  <2> QED
    BY <2>1, <2>2
<1> QED
  BY <1>1 DEF ServeInv

LEMMA ReadServes ==
  ASSUME ReadInv, Honest, ServeInv, UNCHANGED vars, NEW v \in Viewer, Read(v)
  PROVE  ServeInv'
<1>1. /\ ReadingTypeOK /\ TypeOK /\ IInv /\ clock \in Nat /\ LinkTTL \in Nat
  BY ReadingAssumption DEF ReadInv, ReadingTypeOK, IInv, TypeInv
<1>2. \A w \in Viewer \ {v} : UNCHANGED <<vpc[w], viewed[w], link[w]>>
  BY <1>1 DEF Read, Look, CountView, Sign, Respond, Fetch, Turn, ReadingTypeOK
<1>3. \A k : Kept(k)' <=> Kept(k)
  BY DEF vars, Kept, TakenAway, Giving
<1>4. /\ vpc'[v] \in {"count", "sign", "redirect", "browse"} => Kept(viewed'[v].key)
      /\ vpc'[v] \in {"redirect", "browse"} => viewed'[v].at + LinkTTL <= link'[v].exp
  <2>1. CASE Look(v)
    <3>1. PICK n \in Note :
            \/ /\ Visible(n)
               /\ viewed' = [viewed EXCEPT ![v] =
                               [note |-> n, key |-> row[n].key, at |-> clock]]
               /\ \E s \in {"count", "sign"} : Turn(v, s)
            \/ Turn(v, "done")
      BY <2>1 DEF Look
    <3>2. CASE Turn(v, "done")
      BY <1>1, <3>2 DEF Turn, ReadingTypeOK
    <3>3. CASE /\ Visible(n)
               /\ viewed' = [viewed EXCEPT ![v] =
                               [note |-> n, key |-> row[n].key, at |-> clock]]
               /\ \E s \in {"count", "sign"} : Turn(v, s)
      <4>1. vpc'[v] \in {"count", "sign"} /\ viewed'[v].key = row[n].key
        BY <1>1, <3>3 DEF Turn, ReadingTypeOK
      <4>2. Kept(row[n].key)
        BY <1>1, <3>3, RowKept DEF Visible
      <4> QED
        BY <4>1, <4>2
    <3> QED
      BY <3>1, <3>2, <3>3
  <2>2. CASE CountView(v)
    BY <1>1, <2>2 DEF CountView, Turn, ReadingTypeOK, ServeInv
  <2>3. CASE Sign(v)
    <3>1. /\ vpc[v] = "sign" /\ viewed' = viewed
          /\ link'[v].exp = clock + LinkTTL
      BY <1>1, <2>3 DEF Sign, ReadingTypeOK
    <3>2. viewed[v].at \in 0..clock
      BY <3>1 DEF ReadInv, FoundSeen, Lookup
    <3>3. viewed[v].at + LinkTTL <= clock + LinkTTL
      BY <1>1, <3>2
    <3> QED
      BY <3>1, <3>3 DEF ServeInv
  <2>4. CASE Respond(v)
    BY <1>1, <2>4 DEF Respond, Turn, ReadingTypeOK, ServeInv
  <2>5. CASE Fetch(v)
    BY <2>5 DEF Fetch, ServeInv
  <2> QED
    BY <2>1, <2>2, <2>3, <2>4, <2>5 DEF Read
<1> QED
  BY <1>2, <1>3, <1>4 DEF ServeInv

LEMMA ServeStep ==
  ReadInv /\ Honest /\ ServeInv /\ [ReadingNext]_allVars => Honest' /\ ServeInv'
<1> SUFFICES ASSUME ReadInv, Honest, ServeInv, [ReadingNext]_allVars
             PROVE  Honest' /\ ServeInv'
  OBVIOUS
<1>1. [Next]_vars
  BY DEF ReadingNext, allVars
<1>2. Honest'
  BY <1>1, NextHonest DEF ReadInv
<1>3. CASE UNCHANGED readVars
  <2>1. \A v \in Viewer : UNCHANGED <<vpc[v], viewed[v], link[v]>>
    BY <1>3 DEF readVars
  <2> QED
    BY <1>1, <1>2, <2>1, ServeStays DEF ServeInv
<1>4. CASE UNCHANGED vars /\ \E v \in Viewer : Read(v)
  BY <1>2, <1>4, ReadServes
<1> QED
  BY <1>3, <1>4 DEF ReadingNext, Curate, Tick, allVars

LEMMA AlwaysServeInv == ReadingSpec => []ServeInv
BY ServeStarts, ServeStep, AlwaysReadInv, PTL DEF ReadingSpec

(* A link serves the file for LinkTTL from the look-up on, unless an admin *)
(* took the file from its note.                                            *)
THEOREM LinksServeReaders == ReadingSpec => LinksServe
<1>1. ASSUME ReadInv, ServeInv, NEW v \in Viewer, Fetch(v),
             clock <= viewed[v].at + LinkTTL
      PROVE  \/ fetched'[v] = "served"
             \/ fetched'[v] = "missing" /\ TakenAway(viewed[v].key)
  <2>1. /\ vpc[v] = "browse" /\ fetched'[v] = Redeem(link[v])
        /\ clock \in Nat /\ LinkTTL \in Nat
    BY <1>1, ReadingAssumption DEF ReadInv, ReadingTypeOK, Fetch
  <2>2. /\ viewed[v].at \in Nat
        /\ link[v].exp \in Nat /\ link[v].key = viewed[v].key
    BY <1>1, <2>1 DEF ReadInv, ReadingTypeOK, FoundSeen, LinksSigned, Lookup, LinkTo
  <2>3. viewed[v].at + LinkTTL <= link[v].exp /\ Kept(viewed[v].key)
    BY <1>1, <2>1 DEF ServeInv
  <2>4. ~(link[v].exp < clock)
    BY <1>1, <2>1, <2>2, <2>3
  <2> QED
    BY <2>1, <2>2, <2>3, <2>4 DEF Redeem, Kept
<1>2. ReadInv /\ ServeInv /\ [ReadingNext]_allVars =>
        [\A v \in Viewer :
           Fetch(v) /\ clock <= viewed[v].at + LinkTTL =>
             \/ fetched'[v] = "served"
             \/ fetched'[v] = "missing" /\ TakenAway(viewed[v].key)]_allVars
  BY <1>1
<1> QED
  BY <1>2, AlwaysReadInv, AlwaysServeInv, PTL DEF ReadingSpec, LinksServe
=============================================================================
