----------------------------- MODULE OwnerSetup -----------------------------
(***************************************************************************)
(* How the platform gets its one owner: the jobs cmd/bootstrap-owner and   *)
(* cmd/create-owner, run by hand or by a scheduler that runs a failed job  *)
(* again, all calling admin.Repository.CreateOwner; and the owner's own    *)
(* handler that creates the other admins.                                  *)
(*                                                                         *)
(* CreateOwner is a transaction at READ COMMITTED: it looks for an owner,  *)
(* inserts one and commits.  It sees no row that is not committed; only    *)
(* the unique indexes on is_owner and email make transactions wait for one *)
(* another.                                                                *)
(***************************************************************************)
EXTENDS Naturals, FiniteSets

CONSTANTS
  Job,        \* processes of the two commands
  Bootstrap,  \* those of cmd/bootstrap-owner
  Email,
  EmailOf,    \* EmailOf[j]: OWNER_EMAIL, or -email
  Fault,      \* what may go wrong, a subset of {"db", "dbAck", "crash"}
  MaxRuns     \* bound on the runs of a job

ASSUME SetupAssumption ==
  /\ Bootstrap \subseteq Job
  /\ EmailOf \in [Job -> Email]
  /\ Fault \subseteq {"db", "dbAck", "crash"}
  /\ MaxRuns \in Nat \ {0}

Admin == [email : Email, owner : BOOLEAN]

VARIABLES
  admins,    \* the committed rows of the table
  inserted,  \* rows inserted by a transaction still open, per job
  pc,        \* what a job does next
  outcome,   \* how it exited
  runs       \* how often it was started

setupVars == <<admins, inserted, pc, outcome, runs>>

Outcome == {"none", "badInput", "dbError", "skipped", "exists", "conflict",
            "created"}

SetupTypeOK ==
  /\ admins \subseteq Admin
  /\ inserted \in [Job -> SUBSET Admin]
  /\ \A j \in Job : inserted[j] # {} => pc[j] = "commit"
  /\ pc \in [Job -> {"ready", "check", "hash", "recheck", "insert", "commit",
                     "exited"}]
  /\ outcome \in [Job -> Outcome]
  /\ runs \in [Job -> 0..MaxRuns]

(* SELECT EXISTS (... WHERE is_owner = TRUE), of what is committed.        *)
OwnerExists == \E a \in admins : a.owner

Row(j) == [email |-> EmailOf[j], owner |-> TRUE]

(* Mutant: no unique index on is_owner, none on email.                     *)
Clash_None(a, b) == FALSE

(* The unique indexes: admins_single_owner_idx and email.                  *)
Clash(a, b) == a.email = b.email \/ (a.owner /\ b.owner)

-----------------------------------------------------------------------------
SetupInit ==
  /\ admins = {}
  /\ inserted = [j \in Job |-> {}]
  /\ pc = [j \in Job |-> "ready"]
  /\ outcome = [j \in Job |-> "none"]
  /\ runs = [j \in Job |-> 0]

Goto(j, s) ==
  /\ pc' = [pc EXCEPT ![j] = s]
  /\ UNCHANGED <<outcome, runs>>

(* Mutant: the transaction of a job that is gone is never rolled back.     *)
Exit_KeepsTx(j, how) ==
  /\ pc' = [pc EXCEPT ![j] = "exited"]
  /\ outcome' = [outcome EXCEPT ![j] = how]
  /\ UNCHANGED <<inserted, runs>>

(* os.Exit, or the end of main; an open transaction is rolled back.        *)
Exit(j, how) ==
  /\ pc' = [pc EXCEPT ![j] = "exited"]
  /\ outcome' = [outcome EXCEPT ![j] = how]
  /\ inserted' = [inserted EXCEPT ![j] = {}]
  /\ UNCHANGED runs

(* The job is started, or started again after it failed.                   *)
Launch(j) ==
  /\ pc[j] \in {"ready", "exited"}
  /\ outcome[j] \notin {"skipped", "created"}
  /\ runs[j] < MaxRuns
  /\ runs' = [runs EXCEPT ![j] = @ + 1]
  /\ outcome' = [outcome EXCEPT ![j] = "none"]
  /\ pc' = [pc EXCEPT ![j] = IF j \in Bootstrap THEN "check" ELSE "hash"]
  /\ UNCHANGED <<admins, inserted>>

(* Only bootstrap-owner looks first, and is content with what it finds.    *)
Check(j) ==
  /\ pc[j] = "check"
  /\ IF OwnerExists THEN Exit(j, "skipped")
                    ELSE Goto(j, "hash") /\ UNCHANGED inserted
  /\ UNCHANGED admins

(* HashPassword and the checks of CreateOwner on its parameters.           *)
Hash(j) ==
  /\ pc[j] = "hash"
  /\ \/ Goto(j, "recheck") /\ UNCHANGED inserted
     \/ Exit(j, "badInput")
  /\ UNCHANGED admins

(* CreateOwner begins its transaction and looks for an owner.              *)
Recheck(j) ==
  /\ pc[j] = "recheck"
  /\ IF OwnerExists THEN Exit(j, "exists")
                    ELSE Goto(j, "insert") /\ UNCHANGED inserted
  /\ UNCHANGED admins

(* Another open transaction holds a row that clashes.                      *)
Waits(j) ==
  \E k \in Job \ {j} : \E a \in inserted[k] : Clash(a, Row(j))

(* Mutant: a conflict is taken for a passing error, the INSERT tried again.*)
Insert_Again(j) ==
  /\ pc[j] = "insert"
  /\ ~Waits(j)
  /\ \A a \in admins : ~Clash(a, Row(j))
  /\ inserted' = [inserted EXCEPT ![j] = {Row(j)}]
  /\ Goto(j, "commit")
  /\ UNCHANGED admins

(* INSERT waits for transactions it may clash with, and fails if one of    *)
(* them committed.                                                         *)
Insert(j) ==
  /\ pc[j] = "insert"
  /\ ~Waits(j)
  /\ IF \E a \in admins : Clash(a, Row(j))
       THEN Exit(j, "conflict")
       ELSE /\ inserted' = [inserted EXCEPT ![j] = {Row(j)}]
            /\ Goto(j, "commit")
  /\ UNCHANGED admins

(* COMMIT; its reply may be lost.                                          *)
Commit(j) ==
  /\ pc[j] = "commit"
  /\ admins' = admins \cup inserted[j]
  /\ \/ Exit(j, "created")
     \/ "dbAck" \in Fault /\ Exit(j, "dbError")

(* A statement fails, or runs into the deadline of the job's context.      *)
DbError(j) ==
  /\ "db" \in Fault
  /\ pc[j] \in {"check", "recheck", "insert", "commit"}
  /\ Exit(j, "dbError")
  /\ UNCHANGED admins

(* The container is lost; PostgreSQL rolls the transaction back.           *)
Crash(j) ==
  /\ "crash" \in Fault
  /\ pc[j] \notin {"ready", "exited"}
  /\ Exit(j, "none")
  /\ UNCHANGED admins

(* POST /admin/users: only a signed-in owner reaches it.  The INSERT of an *)
(* email that is taken fails, and changes nothing.                         *)
CreateAdmin ==
  /\ OwnerExists
  /\ \E e \in Email :
       LET a == [email |-> e, owner |-> FALSE]
       IN /\ \A b \in admins \cup UNION {inserted[k] : k \in Job} : ~Clash(a, b)
          /\ admins' = admins \cup {a}
  /\ UNCHANGED <<inserted, pc, outcome, runs>>

Run(j) ==
  Check(j) \/ Hash(j) \/ Recheck(j) \/ Insert(j) \/ Commit(j)

SetupNext ==
  \/ \E j \in Job : Launch(j) \/ Run(j) \/ DbError(j) \/ Crash(j)
  \/ CreateAdmin

SetupSpec == SetupInit /\ [][SetupNext]_setupVars

(* A process that runs goes on: it is scheduled, and its calls return.     *)
(* Errors, the deadline's included, are never counted on.                  *)
FairSetupSpec == SetupSpec /\ \A j \in Job : WF_setupVars(Run(j))

-----------------------------------------------------------------------------
(* However many jobs run at once, crash, or lose the reply to their        *)
(* commit, there is one owner at most, and one admin per email.            *)
OneOwner ==
  /\ Cardinality({a \in admins : a.owner}) <= 1
  /\ \A a, b \in admins : a # b => a.email # b.email

(* The waits on the indexes end: a job that was started exits.             *)
JobsEnd ==
  \A j \in Job : pc[j] \notin {"ready", "exited"} ~> pc[j] = "exited"
=============================================================================
