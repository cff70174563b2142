-------------------------- MODULE AdminGuardProofs --------------------------
(***************************************************************************)
(* Proofs about the two small components that guard the admin area: the    *)
(* jobs that give it its one owner (OwnerSetup), and the limiter in front  *)
(* of the login page (IPLimiter).  They share no state.                    *)
(***************************************************************************)
EXTENDS OwnerSetup, IPLimiter, FiniteSetTheorems, TLAPS

(***************************************************************************)
(* OwnerSetup, for any number of jobs, emails and runs and any of the      *)
(* faults: the types, and the one owner.                                   *)
(***************************************************************************)
Apart(A, B) == \A a \in A, b \in B : ~Clash(a, b)

(***************************************************************************)
(* A transaction inserts its job's row, and no two rows, committed or in   *)
(* open transactions, are ones that a unique index keeps apart.            *)
(***************************************************************************)
OwnRow == \A j \in Job : inserted[j] \subseteq {Row(j)}

RowsApart ==
  /\ \A a, b \in admins : a # b => ~Clash(a, b)
  /\ \A j \in Job : Apart(inserted[j], admins)
  /\ \A j, k \in Job : j # k => Apart(inserted[j], inserted[k])

SetupInv == SetupTypeOK /\ OwnRow /\ RowsApart

-----------------------------------------------------------------------------
(* A unique index treats its two rows alike.                               *)
LEMMA ClashSymmetric ==
  ASSUME NEW a, NEW b
  PROVE  Clash(a, b) = Clash(b, a)
BY DEF Clash

(* The row a job inserts is a row of the table.                            *)
LEMMA RowType == ASSUME NEW j \in Job PROVE Row(j) \in Admin
BY SetupAssumption DEF Row, Admin

(* A step that leaves the table alone, and at most ends the transaction    *)
(* of j, breaks nothing.                                                   *)
LEMMA ExitKeeps ==
  ASSUME SetupInv, NEW j \in Job, NEW how \in Outcome, Exit(j, how),
         UNCHANGED admins
  PROVE  SetupInv'
<1>1. SetupTypeOK'
  BY DEF SetupInv, SetupTypeOK, Exit
<1>2. \A k \in Job : inserted'[k] \subseteq inserted[k]
  BY DEF SetupInv, SetupTypeOK, Exit
<1>3. OwnRow' /\ RowsApart'
  BY <1>2 DEF SetupInv, OwnRow, RowsApart, Apart, Row, Clash
<1> QED BY <1>1, <1>3 DEF SetupInv

(* A job that only goes on with what it holds breaks nothing.              *)
LEMMA GotoKeeps ==
  ASSUME SetupInv, NEW j \in Job, NEW s \in {"hash", "recheck", "insert"},
         inserted[j] = {}, Goto(j, s), UNCHANGED <<admins, inserted>>
  PROVE  SetupInv'
<1>1. SetupTypeOK'
  BY DEF SetupInv, SetupTypeOK, Goto
<1>2. OwnRow' /\ RowsApart'
  BY DEF SetupInv, OwnRow, RowsApart, Apart, Row, Clash
<1> QED BY <1>1, <1>2 DEF SetupInv

(* Launch.                                                                 *)
LEMMA LaunchKeeps ==
  ASSUME SetupInv, NEW j \in Job, Launch(j)
  PROVE  SetupInv'
<1>1. inserted[j] = {}
  BY DEF SetupInv, SetupTypeOK, Launch
<1>2. runs[j] + 1 \in 0..MaxRuns
  BY SetupAssumption DEF SetupInv, SetupTypeOK, Launch
<1>3. SetupTypeOK'
  BY <1>1, <1>2 DEF SetupInv, SetupTypeOK, Launch, Outcome
<1>4. OwnRow' /\ RowsApart'
  BY DEF SetupInv, OwnRow, RowsApart, Apart, Row, Clash, Launch
<1> QED BY <1>3, <1>4 DEF SetupInv

(* Insert: it has waited for the open transactions, and looked at what is  *)
(* committed.                                                              *)
LEMMA InsertKeeps ==
  ASSUME SetupInv, NEW j \in Job, Insert(j)
  PROVE  SetupInv'
<1>1. CASE \E a \in admins : Clash(a, Row(j))
  BY <1>1, ExitKeeps DEF Insert, Outcome
<1>2. CASE ~\E a \in admins : Clash(a, Row(j))
  <2>1. /\ inserted' = [inserted EXCEPT ![j] = {Row(j)}]
        /\ Goto(j, "commit")
        /\ UNCHANGED admins
    BY <1>2 DEF Insert
  <2>2. SetupTypeOK'
    BY <2>1, RowType DEF SetupInv, SetupTypeOK, Goto
  <2>3. \A k \in Job : inserted'[k] = IF k = j THEN {Row(j)} ELSE inserted[k]
    BY <2>1 DEF SetupInv, SetupTypeOK
  <2>4. OwnRow'
    BY <2>3 DEF SetupInv, OwnRow, Row
  <2>5. Apart({Row(j)}, admins)
    BY <1>2, ClashSymmetric DEF Apart
  <2>6. \A k \in Job \ {j} :
          Apart({Row(j)}, inserted[k]) /\ Apart(inserted[k], {Row(j)})
    BY ClashSymmetric DEF Apart, Insert, Waits
  <2>7. \A k \in Job : Apart(inserted'[k], admins)
    BY <2>3, <2>5 DEF SetupInv, RowsApart
  <2>8. \A k, m \in Job : k # m => Apart(inserted'[k], inserted'[m])
    BY <2>3, <2>6 DEF SetupInv, RowsApart
  <2>9. RowsApart'
    BY <2>1, <2>7, <2>8 DEF SetupInv, RowsApart, Apart, Clash
  <2> QED BY <2>2, <2>4, <2>9 DEF SetupInv
<1> QED BY <1>1, <1>2

(* Commit: the row of the transaction joins the table.                     *)
LEMMA CommitKeeps ==
  ASSUME SetupInv, NEW j \in Job, Commit(j)
  PROVE  SetupInv'
<1>1. PICK how \in Outcome : Exit(j, how)
  BY DEF Commit, Outcome
<1>2. admins' = admins \cup inserted[j]
  BY DEF Commit
<1>3. inserted'[j] = {} /\ \A k \in Job \ {j} : inserted'[k] = inserted[k]
  BY <1>1 DEF SetupInv, SetupTypeOK, Exit
<1>4. SetupTypeOK'
  BY <1>1, <1>2 DEF SetupInv, SetupTypeOK, Exit
<1>5. OwnRow'
  BY <1>3 DEF SetupInv, OwnRow, Row
<1>6. \A a, b \in admins' : a # b => ~Clash(a, b)
  BY <1>2, ClashSymmetric DEF SetupInv, OwnRow, RowsApart, Apart
<1>7. \A k \in Job : Apart(inserted'[k], admins')
  BY <1>2, <1>3 DEF SetupInv, RowsApart, Apart
<1>8. \A k, m \in Job : k # m => Apart(inserted'[k], inserted'[m])
  BY <1>3 DEF SetupInv, RowsApart, Apart
<1>9. RowsApart'
  BY <1>6, <1>7, <1>8 DEF RowsApart, Apart, Clash
<1> QED BY <1>4, <1>5, <1>9 DEF SetupInv

(* CreateAdmin: the new row clashes with none.                             *)
LEMMA CreateAdminKeeps ==
  ASSUME SetupInv, CreateAdmin
  PROVE  SetupInv'
<1>1. PICK e \in Email : 
        LET new == [email |-> e, owner |-> FALSE]
        IN /\ \A b \in admins \cup UNION {inserted[k] : k \in Job} :
                ~Clash(new, b)
           /\ admins' = admins \cup {new}
  BY DEF CreateAdmin
<1>2. PICK a : a = [email |-> e, owner |-> FALSE]
  OBVIOUS
<1>3. /\ a \in Admin
      /\ admins' = admins \cup {a}
      /\ \A b \in admins : ~Clash(a, b)
      /\ \A k \in Job : \A b \in inserted[k] : ~Clash(a, b)
  BY <1>1, <1>2 DEF Admin
<1>4. UNCHANGED <<inserted, pc, outcome, runs>>
  BY DEF CreateAdmin
<1>5. SetupTypeOK'
  BY <1>3, <1>4 DEF SetupInv, SetupTypeOK
<1>6. OwnRow'
  BY <1>4 DEF SetupInv, OwnRow, Row
<1>7. \A x, b \in admins' : x # b => ~Clash(x, b)
  BY <1>3, ClashSymmetric DEF SetupInv, RowsApart
<1>8. \A k \in Job : Apart(inserted'[k], admins')
  BY <1>3, <1>4, ClashSymmetric DEF SetupInv, RowsApart, Apart
<1>9. \A k, m \in Job : k # m => Apart(inserted'[k], inserted'[m])
  BY <1>4 DEF SetupInv, RowsApart
<1>10. RowsApart'
  BY <1>7, <1>8, <1>9 DEF RowsApart, Apart, Clash
<1> QED BY <1>5, <1>6, <1>10 DEF SetupInv

(* Every step keeps the types, and keeps the rows apart.                   *)
LEMMA NextSetupInv == SetupInv /\ [SetupNext]_setupVars => SetupInv'
<1> SUFFICES ASSUME SetupInv, [SetupNext]_setupVars PROVE SetupInv'
  OBVIOUS
<1>1. ASSUME NEW j \in Job, Launch(j) PROVE SetupInv'
  BY <1>1, LaunchKeeps
<1>2. ASSUME NEW j \in Job, Check(j) PROVE SetupInv'
  <2>1. inserted[j] = {}
    BY <1>2 DEF SetupInv, SetupTypeOK, Check
  <2> QED BY <1>2, <2>1, ExitKeeps, GotoKeeps DEF Check, Outcome
<1>3. ASSUME NEW j \in Job, Hash(j) PROVE SetupInv'
  <2>1. inserted[j] = {}
    BY <1>3 DEF SetupInv, SetupTypeOK, Hash
  <2> QED BY <1>3, <2>1, ExitKeeps, GotoKeeps DEF Hash, Outcome
<1>4. ASSUME NEW j \in Job, Recheck(j) PROVE SetupInv'
  <2>1. inserted[j] = {}
    BY <1>4 DEF SetupInv, SetupTypeOK, Recheck
  <2> QED BY <1>4, <2>1, ExitKeeps, GotoKeeps DEF Recheck, Outcome
<1>5. ASSUME NEW j \in Job, Insert(j) PROVE SetupInv'
  BY <1>5, InsertKeeps
<1>6. ASSUME NEW j \in Job, Commit(j) PROVE SetupInv'
  BY <1>6, CommitKeeps
<1>7. ASSUME NEW j \in Job, DbError(j) PROVE SetupInv'
  BY <1>7, ExitKeeps DEF DbError, Outcome
<1>8. ASSUME NEW j \in Job, Crash(j) PROVE SetupInv'
  BY <1>8, ExitKeeps DEF Crash, Outcome
<1>9. CASE CreateAdmin
  BY <1>9, CreateAdminKeeps
<1>10. CASE UNCHANGED setupVars
  BY <1>10 DEF setupVars, SetupInv, SetupTypeOK, OwnRow, RowsApart, Apart, Row, Clash
<1> QED
  BY <1>1, <1>2, <1>3, <1>4, <1>5, <1>6, <1>7, <1>8, <1>9, <1>10 DEF SetupNext, Run

(* The empty table has the types, and nothing to keep apart.               *)
LEMMA InitSetupInv == SetupInit => SetupInv
BY SetupAssumption DEF SetupInit, SetupInv, SetupTypeOK, OwnRow, RowsApart, Apart, Outcome

(* The conjunction holds in every state.                                   *)
LEMMA AlwaysSetupInv == SetupSpec => []SetupInv
BY InitSetupInv, NextSetupInv, PTL DEF SetupSpec

(* A table whose rows are apart has one owner, and one row per email.      *)
LEMMA ApartIsOneOwner == SetupInv => OneOwner
<1> SUFFICES ASSUME SetupInv PROVE OneOwner
  OBVIOUS
<1>1. \A a, b \in admins : a # b => a.email # b.email
  BY DEF SetupInv, RowsApart, Clash
<1>2. PICK O : O = {a \in admins : a.owner}
  OBVIOUS
<1>3. \A a, b \in O : a = b
  BY <1>2 DEF SetupInv, RowsApart, Clash
<1>4. CASE O = {}
  <2>1. Cardinality(O) = 0
    BY <1>4, FS_EmptySet
  <2> QED BY <1>1, <1>2, <2>1 DEF OneOwner
<1>5. CASE O # {}
  <2>1. PICK a : O = {a}
    BY <1>3, <1>5
  <2>2. Cardinality(O) = 1
    BY <2>1, FS_Singleton
  <2> QED BY <1>1, <1>2, <2>2 DEF OneOwner
<1> QED BY <1>4, <1>5

-----------------------------------------------------------------------------
(* The types hold in every state: an open transaction is the one thing     *)
(* that a job leaves behind, and only a job about to commit has one.       *)
THEOREM SetupTypes == SetupSpec => []SetupTypeOK
<1>1. SetupInv => SetupTypeOK
  BY DEF SetupInv
<1> QED BY <1>1, AlwaysSetupInv, PTL

(* However many jobs run CreateOwner at once, fail, crash or lose the      *)
(* reply to their commit, the table has one owner at most, and one row per *)
(* email.                                                                  *)
THEOREM OneOwnerOnly == SetupSpec => []OneOwner
BY AlwaysSetupInv, ApartIsOneOwner, PTL

(***************************************************************************)
(* IPLimiter, for any addresses and settings.  It implements LoginQuota:   *)
(* forgetting a silent address never gives it a token it would not have    *)
(* had.                                                                    *)
(***************************************************************************)

(* No bucket is ahead of the clock, and the last attempt let through is    *)
(* not after the last attempt.                                             *)
Clocks ==
  \A ip \in IP : visitors[ip] # Absent =>
    /\ visitors[ip].last <= visitors[ip].lastSeen
    /\ visitors[ip].lastSeen <= now

(* What was used in a window is still owed, or was paid back since.        *)
WindowOwed ==
  \A ip \in IP : window[ip] # Absent =>
    window[ip].used <= Debt(ip) + (now - window[ip].since)

IInv == TypeOK /\ Clocks /\ WindowOwed

USE QuotaAssumption, AbsentAssumption

-----------------------------------------------------------------------------
(* A full bucket holds a token at least.                                   *)
LEMMA FullRange == Full \in Nat /\ Interval <= Full
<1>1. Burst * Interval \in Nat
  OBVIOUS
<1>2. (Burst - 1) * Interval \in Nat
  OBVIOUS
<1>3. Burst * Interval = (Burst - 1) * Interval + Interval
  OBVIOUS
<1> QED
  BY <1>1, <1>2, <1>3 DEF Full

USE FullRange

(* The credit of a bucket is between 0 and Full.                           *)
LEMMA AvailableRange ==
  ASSUME now \in Nat, NEW v \in Visitor, v.last <= now
  PROVE  Available(v) \in 0..Full
  BY DEF Available, Visitor

(* A bucket silent for more than TTL is full.                              *)
LEMMA StaleIsFull ==
  ASSUME now \in Nat, NEW v \in Visitor, v.last <= v.lastSeen, Stale(v)
  PROVE  Available(v) = Full
  BY DEF Available, Visitor, Stale

(* The bucket an attempt works on, fresh or found, is a visitor, and what  *)
(* it lacks is the debt of the address.                                    *)
LEMMA BucketOfDebt ==
  ASSUME IInv, NEW ip \in IP
  PROVE  /\ Bucket(ip) \in Visitor
         /\ Bucket(ip).last <= Bucket(ip).lastSeen
         /\ Bucket(ip).lastSeen <= now
         /\ Available(Bucket(ip)) \in 0..Full
         /\ Debt(ip) = Full - Available(Bucket(ip))
<1>1. CASE visitors[ip] = Absent
  <2>1. /\ Bucket(ip) = Fresh
        /\ Fresh \in Visitor
        /\ Fresh.last = now /\ Fresh.lastSeen = now /\ Fresh.credit = Full
    BY <1>1 DEF Bucket, Fresh, Visitor, IInv, TypeOK
  <2>2. Available(Fresh) = Full
    BY <2>1 DEF Available, IInv, TypeOK
  <2> QED
    BY <1>1, <2>1, <2>2 DEF Debt, IInv, TypeOK
<1>2. CASE visitors[ip] # Absent
  <2>1. /\ Bucket(ip) = visitors[ip]
        /\ visitors[ip] \in Visitor
    BY <1>2 DEF Bucket, IInv, TypeOK
  <2>2. /\ visitors[ip].last <= visitors[ip].lastSeen
        /\ visitors[ip].lastSeen <= now
    BY <1>2 DEF IInv, Clocks
  <2>3. visitors[ip].last <= now
    BY <2>1, <2>2 DEF Visitor, IInv, TypeOK
  <2> QED
    BY <1>2, <2>1, <2>2, <2>3, AvailableRange DEF Debt, IInv, TypeOK
<1> QED
  BY <1>1, <1>2
-----------------------------------------------------------------------------
LEMMA InitIInv == Init => IInv
  BY DEF Init, IInv, TypeOK, Clocks, WindowOwed

LEMMA AdmitIInv ==
  ASSUME IInv, NEW ip \in IP, Admit(ip)
  PROVE  IInv' /\ Debt(ip)' = Debt(ip) + Interval
<1> DEFINE b == Bucket(ip)
           v == [credit |-> Available(b) - Interval, last |-> now, lastSeen |-> now]
<1>1. /\ Available(b) \in 0..Full
      /\ Available(b) >= Interval
      /\ Debt(ip) = Full - Available(b)
  BY BucketOfDebt DEF Admit
<1>2. v \in Visitor
  BY <1>1 DEF Visitor, IInv, TypeOK
<1>3. /\ visitors' = [visitors EXCEPT ![ip] = v]
      /\ answer' = [answer EXCEPT ![ip] = "admitted"]
      /\ UNCHANGED <<now, nextSweep>>
  BY DEF Admit
<1>4. /\ visitors'[ip] = v
      /\ \A j \in IP \ {ip} : visitors'[j] = visitors[j]
      /\ v # Absent
  BY <1>2, <1>3 DEF IInv, TypeOK
<1>5. /\ v.last = now /\ v.lastSeen = now
      /\ v.credit = Available(b) - Interval
  OBVIOUS
<1> HIDE DEF b, v
<1>6. Debt(ip)' = Debt(ip) + Interval
  BY <1>1, <1>2, <1>3, <1>4, <1>5 DEF Debt, Available, IInv, TypeOK
<1>7. \A j \in IP \ {ip} : Debt(j)' = Debt(j)
  BY <1>3, <1>4 DEF Debt, Available
<1>8. Count(ip)
  BY DEF Admit
<1>9. TypeOK'
  <2>1. window' \in [IP -> [since : 0..now, used : Nat] \cup {Absent}]
    BY <1>8 DEF Count, IInv, TypeOK
  <2> QED
    BY <1>2, <1>3, <2>1 DEF IInv, TypeOK
<1>10. Clocks'
  BY <1>3, <1>4, <1>5 DEF IInv, Clocks, TypeOK
<1>11. WindowOwed'
  <2>1. ASSUME NEW j \in IP, window'[j] # Absent
        PROVE  window'[j].used <= Debt(j)' + (now' - window'[j].since)
    <3>1. Debt(j) \in 0..Full
      BY BucketOfDebt
    <3>2. CASE window'[j] = window[j]
      BY <1>3, <1>6, <1>7, <2>1, <3>1, <3>2 DEF IInv, WindowOwed, TypeOK
    <3>3. CASE j = ip /\ window'[j] = [since |-> now, used |-> Interval]
      BY <1>3, <1>6, <3>1, <3>3 DEF IInv, TypeOK
    <3>4. CASE /\ j = ip
               /\ window[j] # Absent
               /\ window'[j] = [since |-> window[j].since,
                               used |-> window[j].used + Interval]
      BY <1>3, <1>6, <3>1, <3>4 DEF IInv, WindowOwed, TypeOK
    <3> QED
      BY <1>8, <3>2, <3>3, <3>4 DEF Count, IInv, TypeOK
  <2> QED
    BY <2>1 DEF WindowOwed
<1> QED
  BY <1>6, <1>9, <1>10, <1>11 DEF IInv

LEMMA RefuseIInv ==
  ASSUME IInv, NEW ip \in IP, Refuse(ip)
  PROVE  IInv' /\ \A j \in IP : Debt(j)' = Debt(j)
<1> DEFINE b == Bucket(ip)
           v == [b EXCEPT !.lastSeen = now]
<1>1. /\ b \in Visitor
      /\ b.last <= b.lastSeen /\ b.lastSeen <= now
      /\ Debt(ip) = Full - Available(b)
  BY BucketOfDebt
<1>2. /\ v \in Visitor
      /\ v.last = b.last /\ v.lastSeen = now /\ v.credit = b.credit
  BY <1>1 DEF Visitor, IInv, TypeOK
<1>3. /\ visitors' = [visitors EXCEPT ![ip] = v]
      /\ answer' = [answer EXCEPT ![ip] = "refused"]
      /\ UNCHANGED <<now, nextSweep, window>>
  BY DEF Refuse
<1> HIDE DEF b, v
<1>4. /\ visitors'[ip] = v
      /\ \A j \in IP \ {ip} : visitors'[j] = visitors[j]
      /\ v # Absent
  BY <1>2, <1>3 DEF IInv, TypeOK
<1>5. ASSUME NEW j \in IP PROVE Debt(j)' = Debt(j)
  <2>1. CASE j = ip
    BY <1>1, <1>2, <1>3, <1>4, <2>1 DEF Debt, Available
  <2>2. CASE j # ip
    BY <1>3, <1>4, <2>2 DEF Debt, Available
  <2> QED
    BY <2>1, <2>2
<1>6. TypeOK'
  BY <1>2, <1>3 DEF IInv, TypeOK
<1>7. Clocks'
  BY <1>1, <1>2, <1>3, <1>4 DEF IInv, Clocks, TypeOK, Visitor
<1>8. WindowOwed'
  BY <1>3, <1>5 DEF IInv, WindowOwed
<1> QED
  BY <1>5, <1>6, <1>7, <1>8 DEF IInv

LEMMA SweepIInv ==
  ASSUME IInv, Sweep
  PROVE  IInv' /\ \A j \in IP : Debt(j)' = Debt(j)
<1>1. UNCHANGED <<now, answer, window>>
  BY DEF Sweep
<1>2. \A j \in IP : \/ visitors'[j] = visitors[j]
                     \/ /\ visitors[j] # Absent /\ Stale(visitors[j])
                        /\ visitors'[j] = Absent
  BY DEF Sweep
<1>3. ASSUME NEW j \in IP PROVE Debt(j)' = Debt(j)
  <2>1. CASE visitors'[j] = visitors[j]
    BY <1>1, <2>1 DEF Debt, Available
  <2>2. CASE /\ visitors[j] # Absent /\ Stale(visitors[j])
             /\ visitors'[j] = Absent
    BY <2>2, StaleIsFull DEF Debt, IInv, TypeOK, Clocks
  <2> QED
    BY <1>2, <2>1, <2>2
<1>4. TypeOK'
  BY <1>1 DEF Sweep, IInv, TypeOK
<1>5. Clocks'
  BY <1>1, <1>2 DEF IInv, Clocks
<1>6. WindowOwed'
  BY <1>1, <1>3 DEF IInv, WindowOwed
<1> QED
  BY <1>3, <1>4, <1>5, <1>6 DEF IInv

LEMMA TickIInv ==
  ASSUME IInv, Tick
  PROVE  /\ IInv'
         /\ \A j \in IP : Debt(j)' = IF Debt(j) = 0 THEN 0 ELSE Debt(j) - 1
<1>1. now \in Nat /\ now' = now + 1 /\ UNCHANGED <<visitors, nextSweep, answer, window>>
  BY DEF Tick, IInv, TypeOK
<1>2. ASSUME NEW j \in IP
      PROVE  Debt(j)' = IF Debt(j) = 0 THEN 0 ELSE Debt(j) - 1
  <2>1. CASE visitors[j] = Absent
    BY <1>1, <2>1 DEF Debt
  <2>2. CASE visitors[j] # Absent
    <3>1. /\ visitors[j].credit \in 0..Full
          /\ visitors[j].last \in Nat
          /\ visitors[j].last <= now
      BY <1>1, <2>2 DEF IInv, TypeOK, Clocks, Visitor
    <3> QED
      BY <1>1, <2>2, <3>1 DEF Debt, Available
  <2> QED
    BY <2>1, <2>2
<1>3. TypeOK'
  BY <1>1 DEF IInv, TypeOK
<1>4. Clocks'
  BY <1>1 DEF IInv, Clocks, TypeOK, Visitor
<1>5. WindowOwed'
  <2>1. ASSUME NEW j \in IP, window'[j] # Absent
        PROVE  window'[j].used <= Debt(j)' + (now' - window'[j].since)
    <3>1. Debt(j) \in 0..Full
      BY BucketOfDebt
    <3> QED
      BY <1>1, <1>2, <2>1, <3>1 DEF IInv, WindowOwed, TypeOK
  <2> QED
    BY <2>1 DEF WindowOwed
<1> QED
  BY <1>2, <1>3, <1>4, <1>5 DEF IInv
-----------------------------------------------------------------------------
LEMMA NextIInv == IInv /\ [Next]_vars => IInv'
<1>1. ASSUME IInv, UNCHANGED vars PROVE IInv'
  BY <1>1 DEF vars, IInv, TypeOK, Clocks, WindowOwed, Debt, Available
<1> QED
  BY <1>1, AdmitIInv, RefuseIInv, SweepIInv, TickIInv DEF Next

LEMMA InductiveInvariant == Spec => []IInv
  BY InitIInv, NextIInv, PTL DEF Spec

(* The variables keep their shapes.                                        *)
THEOREM TypeCorrect == Spec => []TypeOK
<1>1. IInv => TypeOK
  BY DEF IInv
<1> QED
  BY InductiveInvariant, <1>1, PTL

(* Never more than a burst and one attempt per Interval in a window.       *)
THEOREM WindowsBounded == Spec => []WindowBound
<1>1. IInv => WindowBound
  <2>1. ASSUME IInv, NEW ip \in IP, window[ip] # Absent
        PROVE  window[ip].used <= Full + (now - window[ip].since)
    <3>1. Debt(ip) \in 0..Full
      BY <2>1, BucketOfDebt
    <3> QED
      BY <2>1, <3>1 DEF IInv, WindowOwed, TypeOK
  <2> QED
    BY <2>1 DEF WindowBound
<1> QED
  BY InductiveInvariant, <1>1, PTL

(* An address silent for Interval is let through.                          *)
THEOREM WaitingIsEnough == Spec => WaitingHelps
<1> DEFINE Helped ==
      \A ip \in IP :
        /\ visitors'[ip] # visitors[ip]
        /\ visitors'[ip] # Absent
        /\ visitors[ip] # Absent => now - visitors[ip].lastSeen >= Interval
        => answer'[ip] = "admitted"
<1>1. IInv /\ [Next]_vars => [Helped]_vars
  <2> SUFFICES ASSUME IInv, Next, NEW ip \in IP,
                      visitors'[ip] # visitors[ip],
                      visitors'[ip] # Absent,
                      visitors[ip] # Absent =>
                        now - visitors[ip].lastSeen >= Interval
               PROVE  answer'[ip] = "admitted"
    OBVIOUS
  <2>1. CASE Tick \/ Sweep
    BY <2>1 DEF Tick, Sweep
  <2>2. ASSUME NEW j \in IP, Admit(j) PROVE answer'[ip] = "admitted"
    BY <2>2 DEF Admit, IInv, TypeOK
  <2>3. ASSUME NEW j \in IP, Refuse(j) PROVE FALSE
    <3>1. ip = j
      BY <2>3 DEF Refuse, IInv, TypeOK
    <3>2. Available(Bucket(ip)) < Interval
      BY <2>3, <3>1 DEF Refuse
    <3>3. CASE visitors[ip] = Absent
      BY <3>2, <3>3 DEF Bucket, Fresh, Available, IInv, TypeOK
    <3>4. CASE visitors[ip] # Absent
      BY <3>2, <3>4 DEF Bucket, Available, IInv, TypeOK, Clocks, Visitor
    <3> QED
      BY <3>3, <3>4
  <2> QED
    BY <2>1, <2>2, <2>3 DEF Next
<1> QED
  BY InductiveInvariant, <1>1, PTL DEF Spec, WaitingHelps

-----------------------------------------------------------------------------
(* The limiter forgets silent addresses, and nobody can tell.              *)
THEOREM LimiterImplementsQuota == Spec => ImplementsQuota
<1> DEFINE debts == [ip \in IP |-> Debt(ip)]
<1>1. Init => Quota!Init
  BY DEF Init, Quota!Init, Debt
<1>2. IInv /\ [Next]_vars => [Quota!Next]_debts
  <2> SUFFICES ASSUME IInv, [Next]_vars
               PROVE  [Quota!Next]_debts
    OBVIOUS
  <2>1. CASE Tick
    BY <2>1, TickIInv DEF Quota!Next, Quota!Repay
  <2>2. CASE Sweep
    BY <2>2, SweepIInv
  <2>3. ASSUME NEW ip \in IP, Admit(ip)
        PROVE  Quota!Charge(ip)
    <3>1. Debt(ip)' = Debt(ip) + Interval
      BY <2>3, AdmitIInv
    <3>2. \A j \in IP \ {ip} : Debt(j)' = Debt(j)
      BY <2>3 DEF Admit, Debt, Available, IInv, TypeOK
    <3>3. Debt(ip) + Interval <= Full
      BY <2>3, BucketOfDebt DEF Admit
    <3> QED
      BY <3>1, <3>2, <3>3 DEF Quota!Charge
  <2>4. ASSUME NEW ip \in IP, Refuse(ip)
        PROVE  UNCHANGED debts
    BY <2>4, RefuseIInv
  <2>5. CASE UNCHANGED vars
    BY <2>5 DEF vars, Debt, Available
  <2> QED
    BY <2>1, <2>2, <2>3, <2>4, <2>5 DEF Next, Quota!Next
<1> QED
  BY InductiveInvariant, <1>1, <1>2, PTL DEF Spec, ImplementsQuota, Quota!Spec
=============================================================================
