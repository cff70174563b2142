--------------------------- MODULE NoteFormProofs ---------------------------
(***************************************************************************)
(* Proofs about NoteForm, for any number of selects, any hierarchy, and    *)
(* any number of choices and moves: the types, and that a complete form    *)
(* shows a path of the hierarchy.                                          *)
(***************************************************************************)
EXTENDS NoteForm, Integers, TLAPS

(* Rows looked up below p are there still, but for those moved since.      *)
Below(rows, p) == \A x \in rows : parent[x] = p \/ x \in moved

(* Options, and replies on their way, are what was looked up.              *)
LookedUp ==
  \A i \in Asking :
    /\ Below(options[i + 1], under[i + 1])
    /\ reply[i] \in {Failed, Nothing} \/ Below(reply[i], sent[i])

(***************************************************************************)
(* What select i shows is, or is going to be, looked up: the select below  *)
(* it has the options for it, or the request under way asks for them, or   *)
(* the one queued behind that will.                                        *)
(***************************************************************************)
Followed(i) ==
  \/ chosen[i] = Blank
  \/ sent[i] = Nothing /\ (failed[i] \/ under[i + 1] = chosen[i])
  \/ sent[i] # Nothing /\ (queued[i] \/ sent[i] = chosen[i])

ChoicesFollowed == \A i \in Asking : Followed(i)

IInv == TypeOK /\ LookedUp /\ ChoicesFollowed

USE FormAssumption

-----------------------------------------------------------------------------
(* The select after one with a look-up is another select.                  *)
LEMMA NextSelect ==
  /\ 1 \in Select
  /\ Asking \subseteq Select
  /\ \A i \in Asking : i \in Int /\ i + 1 \in Select /\ i + 1 # 1 /\ i + 1 # i
  /\ \A i, j \in Asking : i # j => i + 1 # j + 1
BY DEF Asking, Select

(* The rows below a row are in the next table.                             *)
LEMMA ChildrenRows ==
  ASSUME TypeOK, NEW i \in Asking, NEW v \in Item, Level[v] = i
  PROVE  Children(v) \in SUBSET Item /\ Children(v) \subseteq Rows(i + 1)
<1>1. ASSUME NEW x \in Children(v) PROVE x \in Rows(i + 1)
  <2>1. x \in Item /\ parent[x] = v /\ Fits(x, v)
    BY <1>1 DEF Children, TypeOK
  <2>2. Level[x] # 1 /\ v \in Rows(Level[x] - 1)
    BY <2>1 DEF Fits
  <2>3. Level[x] \in Int /\ i \in Int
    BY <2>1, NextSelect DEF Select
  <2> QED BY <2>1, <2>2, <2>3 DEF Rows
<1> QED BY <1>1 DEF Children

(* Pick: the choice is sent, or will be.                                   *)
LEMMA PickKeeps ==
  ASSUME IInv, NEW i \in Select, Pick(i)
  PROVE  IInv'
<1>1. PICK value \in options[i] \cup {Blank} :
        /\ chosen' = [chosen EXCEPT ![i] = value]
        /\ IF i \in Asking THEN Ask(i, value) ELSE UNCHANGED <<sent, queued>>
  BY DEF Pick
<1>2. /\ value \in Item \cup {Blank}
      /\ value \in Item => Level[value] = i
      /\ value # Nothing
  BY <1>1 DEF IInv, TypeOK, Rows
<1>3. UNCHANGED <<parent, options, reply, under, failed, moved, moves>>
  BY DEF Pick
<1>4. picks' \in 0..MaxPicks
  BY DEF Pick, IInv, TypeOK
<1>5. chosen' \in [Select -> Item \cup {Blank}]
      /\ \A j \in Select : chosen'[j] \in options'[j] \cup {Blank}
  BY <1>1, <1>2, <1>3 DEF IInv, TypeOK
<1>6. /\ sent' \in [Asking -> Item \cup {Blank, Nothing}]
      /\ queued' \in [Asking -> BOOLEAN]
      /\ \A j \in Asking :
           /\ sent'[j] = Nothing => reply'[j] = Nothing /\ ~queued'[j]
           /\ sent'[j] \in Item => Level[sent'[j]] = j
           /\ sent[j] # Nothing => sent'[j] = sent[j]
  <2>1. CASE UNCHANGED <<sent, queued>>
    BY <1>3, <2>1 DEF IInv, TypeOK
  <2>2. CASE i \in Asking /\ sent[i] = Nothing /\ Ask(i, value)
    BY <1>2, <1>3, <2>2 DEF IInv, TypeOK, Ask
  <2>3. CASE i \in Asking /\ sent[i] # Nothing /\ Ask(i, value)
    BY <1>3, <2>3 DEF IInv, TypeOK, Ask
  <2> QED BY <1>1, <2>1, <2>2, <2>3
<1>7. TypeOK'
  BY <1>3, <1>4, <1>5, <1>6 DEF IInv, TypeOK, Fits, Rows
<1>8. LookedUp'
  BY <1>3, <1>6 DEF IInv, TypeOK, LookedUp, Below
<1>9. ASSUME NEW j \in Asking PROVE Followed(j)'
  <2>1. CASE j = i
    BY <1>1, <1>2, <2>1, NextSelect DEF IInv, TypeOK, Followed, Ask
  <2>2. CASE j # i
    <3>1. chosen'[j] = chosen[j] /\ sent'[j] = sent[j] /\ queued'[j] = queued[j]
      BY <1>1, <2>2, NextSelect DEF IInv, TypeOK, Ask
    <3> QED BY <1>3, <3>1 DEF IInv, ChoicesFollowed, Followed
  <2> QED BY <2>1, <2>2
<1> QED BY <1>7, <1>8, <1>9 DEF IInv, ChoicesFollowed

(* LookUp: the reply is what is below the value then.                      *)
LEMMA LookUpKeeps ==
  ASSUME IInv, NEW i \in Asking, LookUp(i)
  PROVE  IInv'
<1>1. PICK r : /\ reply' = [reply EXCEPT ![i] = r]
               /\ \/ r = IF sent[i] = Blank THEN {} ELSE Children(sent[i])
                  \/ r = Failed
  BY DEF LookUp
<1>2. UNCHANGED <<parent, options, chosen, sent, queued, under, failed, moved,
                  picks, moves>>
  BY DEF LookUp
<1>3. sent[i] # Nothing /\ sent[i] \in Item \cup {Blank}
  BY DEF LookUp, IInv, TypeOK
<1>4. r = Failed \/ (r \in SUBSET Item /\ r \subseteq Rows(i + 1))
  BY <1>1, <1>3, ChildrenRows DEF IInv, TypeOK
<1>5. r = Failed \/ Below(r, sent[i])
  BY <1>1 DEF Below, Children
<1>6. /\ reply' \in [Asking -> (SUBSET Item) \cup {Failed, Nothing}]
      /\ \A j \in Asking :
           reply'[j] \in {Failed, Nothing} \/ reply'[j] \subseteq Rows(j + 1)
  BY <1>1, <1>4 DEF IInv, TypeOK
<1>7. TypeOK'
  BY <1>1, <1>2, <1>3, <1>6 DEF IInv, TypeOK, Fits, Rows
<1>8. \A j \in Asking :
        reply'[j] \in {Failed, Nothing} \/ Below(reply'[j], sent[j])
  BY <1>1, <1>5 DEF IInv, TypeOK, LookedUp
<1>9. LookedUp'
  BY <1>2, <1>8 DEF IInv, LookedUp, Below
<1>10. ChoicesFollowed'
  BY <1>2 DEF IInv, ChoicesFollowed, Followed
<1> QED BY <1>7, <1>9, <1>10 DEF IInv

(* A request is over, in a way that leaves the page alone or shows what    *)
(* came of it.                                                             *)
LEMMA OverKeeps ==
  ASSUME IInv, NEW i \in Asking, sent[i] # Nothing,
         Over(i, chosen[i]), UNCHANGED <<parent, moved, picks, moves>>,
         \/ /\ failed' = [failed EXCEPT ![i] = TRUE]
            /\ UNCHANGED <<options, chosen, under>>
         \/ \E rows \in SUBSET Item, f \in BOOLEAN :
              /\ rows \subseteq Rows(i + 1) /\ Below(rows, sent[i])
              /\ failed' = [failed EXCEPT ![i] = f]
              /\ Swap(i, rows)
  PROVE  IInv'
<1>1. /\ sent[i] \in Item \cup {Blank}
      /\ chosen[i] \in Item \cup {Blank}
      /\ chosen[i] # Nothing
      /\ chosen[i] \in Item => Level[chosen[i]] = i
  BY NextSelect DEF IInv, TypeOK, Rows
<1>2. /\ sent' \in [Asking -> Item \cup {Blank, Nothing}]
      /\ queued' \in [Asking -> BOOLEAN]
      /\ reply' \in [Asking -> (SUBSET Item) \cup {Failed, Nothing}]
      /\ \A j \in Asking :
           /\ sent'[j] = Nothing => reply'[j] = Nothing /\ ~queued'[j]
           /\ sent'[j] \in Item => Level[sent'[j]] = j
           /\ reply'[j] = IF j = i THEN Nothing ELSE reply[j]
           /\ j # i => sent'[j] = sent[j] /\ queued'[j] = queued[j]
  BY <1>1 DEF IInv, TypeOK, Over
<1>3. sent'[i] = IF queued[i] THEN chosen[i] ELSE Nothing
  BY DEF IInv, TypeOK, Over
<1>4. CASE /\ failed' = [failed EXCEPT ![i] = TRUE]
           /\ UNCHANGED <<options, chosen, under>>
  <2>1. TypeOK'
    BY <1>2, <1>4 DEF IInv, TypeOK, Fits, Rows
  <2>2. LookedUp'
    BY <1>2, <1>4 DEF IInv, LookedUp, Below
  <2>3. ASSUME NEW j \in Asking PROVE Followed(j)'
    BY <1>1, <1>2, <1>3, <1>4 DEF IInv, TypeOK, ChoicesFollowed, Followed
  <2> QED BY <2>1, <2>2, <2>3 DEF IInv, ChoicesFollowed
<1>5. ASSUME NEW rows \in SUBSET Item, NEW f \in BOOLEAN,
             rows \subseteq Rows(i + 1), Below(rows, sent[i]),
             failed' = [failed EXCEPT ![i] = f], Swap(i, rows)
      PROVE  IInv'
  <2>1. /\ options' = [options EXCEPT ![i + 1] = rows]
        /\ under' = [under EXCEPT ![i + 1] = sent[i]]
        /\ chosen' = [chosen EXCEPT ![i + 1] = Blank]
    BY <1>5 DEF Swap, FirstOption
  <2>2. /\ options' \in [Select -> SUBSET Item]
        /\ \A j \in Select : options'[j] \subseteq Rows(j)
        /\ chosen' \in [Select -> Item \cup {Blank}]
        /\ \A j \in Select : chosen'[j] \in options'[j] \cup {Blank}
        /\ under' \in [Select -> Item \cup {Root, Blank, Nothing}]
        /\ failed' \in [Asking -> BOOLEAN]
    BY <1>1, <1>5, <2>1, NextSelect DEF IInv, TypeOK
  <2>3. TypeOK'
    BY <1>2, <2>2 DEF IInv, TypeOK, Fits, Rows
  <2>4. \A j \in Asking : Below(options'[j + 1], under'[j + 1])
    BY <1>5, <2>1, NextSelect DEF IInv, TypeOK, LookedUp
  <2>5. LookedUp'
    BY <1>2, <2>4 DEF IInv, LookedUp, Below
  <2>6. ASSUME NEW j \in Asking PROVE Followed(j)'
    <3>1. CASE j = i + 1
      BY <2>1, <3>1, NextSelect DEF IInv, TypeOK, Followed
    <3>2. CASE j = i
      <4>1. chosen'[i] = chosen[i] /\ under'[i + 1] = sent[i]
        BY <2>1, NextSelect DEF IInv, TypeOK
      <4> QED BY <1>1, <1>3, <3>2, <4>1 DEF IInv, ChoicesFollowed, Followed
    <3>3. CASE j # i /\ j # i + 1
      <4>1. /\ chosen'[j] = chosen[j] /\ under'[j + 1] = under[j + 1]
            /\ failed'[j] = failed[j]
        BY <1>5, <2>1, <3>3, NextSelect DEF IInv, TypeOK
      <4> QED BY <1>2, <3>3, <4>1 DEF IInv, ChoicesFollowed, Followed
    <3> QED BY <3>1, <3>2, <3>3
  <2> QED BY <2>3, <2>5, <2>6 DEF IInv, ChoicesFollowed
<1> QED BY <1>4, <1>5

(* Submit: the page is loaded anew.                                        *)
LEMMA SubmitKeeps == ASSUME IInv, Submit PROVE IInv'
<1>1. /\ parent' \in [Item -> Item \cup {Root}]
      /\ \A x \in Item : Fits(x, parent'[x])
      /\ picks' \in 0..MaxPicks
      /\ moves' \in 0..MaxMoves
  BY DEF Submit, IInv, TypeOK
<1>2. options' \in [Select -> SUBSET Item]
  BY DEF Submit, Rows
<1>3. TypeOK'
  BY <1>1, <1>2, NextSelect DEF Submit, TypeOK, Fits, Rows
<1>4. LookedUp'
  BY NextSelect DEF Submit, LookedUp, Below
<1>5. ChoicesFollowed'
  BY NextSelect DEF Submit, ChoicesFollowed, Followed
<1> QED BY <1>3, <1>4, <1>5 DEF IInv

(* Move: the row is one of those moved.                                    *)
LEMMA MoveKeeps == ASSUME IInv, Move PROVE IInv'
<1>1. PICK x \in Item, p \in Item :
        /\ Fits(x, p)
        /\ parent' = [parent EXCEPT ![x] = p]
        /\ moved' = moved \cup {x}
  BY DEF Move
<1>2. UNCHANGED <<options, chosen, sent, reply, queued, under, failed, picks>>
  BY DEF Move, formVars
<1>3. moves' \in 0..MaxMoves
  BY DEF Move, IInv, TypeOK
<1>4. TypeOK'
  BY <1>1, <1>2, <1>3 DEF IInv, TypeOK, Fits, Rows
<1>5. ASSUME NEW rows \in SUBSET Item, NEW q, Below(rows, q)
      PROVE  Below(rows, q)'
  BY <1>1, <1>5 DEF IInv, TypeOK, Below
<1>6. LookedUp'
  <2>1. ASSUME NEW i \in Asking
        PROVE  /\ Below(options[i + 1], under[i + 1])'
               /\ reply[i] \in {Failed, Nothing} \/ Below(reply[i], sent[i])'
    <3>1. options[i + 1] \in SUBSET Item
      BY NextSelect DEF IInv, TypeOK
    <3>2. reply[i] \in {Failed, Nothing} \/ reply[i] \in SUBSET Item
      BY DEF IInv, TypeOK
    <3> QED BY <1>2, <1>1, <3>1, <3>2 DEF IInv, TypeOK, LookedUp, Below
  <2> QED BY <1>2, <2>1 DEF LookedUp
<1>7. ChoicesFollowed'
  BY <1>2 DEF IInv, ChoicesFollowed, Followed
<1> QED BY <1>4, <1>6, <1>7 DEF IInv

(* Every step keeps the conjunction.                                       *)
LEMMA NextKeeps == IInv /\ [Next]_vars => IInv'
<1> SUFFICES ASSUME IInv, [Next]_vars PROVE IInv'
  OBVIOUS
<1>1. ASSUME NEW i \in Select, Pick(i) PROVE IInv'
  BY <1>1, PickKeeps
<1>2. ASSUME NEW i \in Asking, LookUp(i) PROVE IInv'
  BY <1>2, LookUpKeeps
<1>3. ASSUME NEW i \in Asking, Arrive(i) PROVE IInv'
  <2>1. /\ sent[i] # Nothing
        /\ Over(i, chosen[i])
        /\ UNCHANGED <<parent, moved, picks, moves>>
    BY <1>3 DEF Arrive, IInv, TypeOK
  <2>2. CASE reply[i] = Failed
    BY <1>3, <2>1, <2>2, OverKeeps DEF Arrive
  <2>3. CASE reply[i] # Failed
    <3>1. /\ reply[i] \in SUBSET Item
          /\ reply[i] \subseteq Rows(i + 1)
          /\ Below(reply[i], sent[i])
      BY <1>3, <2>3 DEF Arrive, IInv, TypeOK, LookedUp
    <3>2. failed' = [failed EXCEPT ![i] = FALSE] /\ Swap(i, reply[i])
      BY <1>3, <2>3 DEF Arrive
    <3> QED BY <2>1, <3>1, <3>2, OverKeeps
  <2> QED BY <2>2, <2>3
<1>4. ASSUME NEW i \in Asking, SignedOut(i) PROVE IInv'
  <2>1. /\ sent[i] # Nothing
        /\ Over(i, chosen[i])
        /\ UNCHANGED <<parent, moved, picks, moves>>
        /\ failed' = [failed EXCEPT ![i] = TRUE]
        /\ Swap(i, {})
    BY <1>4 DEF SignedOut
  <2>2. {} \in SUBSET Item /\ {} \subseteq Rows(i + 1) /\ Below({}, sent[i])
    BY DEF Below
  <2> QED BY <2>1, <2>2, OverKeeps
<1>5. CASE Submit
  BY <1>5, SubmitKeeps
<1>6. CASE Move
  BY <1>6, MoveKeeps
<1>7. CASE UNCHANGED vars
  BY <1>7 DEF vars, IInv, TypeOK, LookedUp, Below, ChoicesFollowed, Followed,
              Fits, Rows
<1> QED BY <1>1, <1>2, <1>3, <1>4, <1>5, <1>6, <1>7 DEF Next

(* The page first rendered is in order.                                    *)
LEMMA InitHolds == Init => IInv
<1> SUFFICES ASSUME Init PROVE IInv
  OBVIOUS
<1>1. /\ parent \in [Item -> Item \cup {Root}]
      /\ \A x \in Item : Fits(x, parent[x])
      /\ options \in [Select -> SUBSET Item]
  BY DEF Init, Rows
<1>2. TypeOK
  BY <1>1, NextSelect DEF Init, TypeOK
<1>3. LookedUp
  BY NextSelect DEF Init, LookedUp, Below
<1>4. ChoicesFollowed
  BY NextSelect DEF Init, ChoicesFollowed, Followed
<1> QED BY <1>2, <1>3, <1>4 DEF IInv

(* The conjunction holds in every state, fair or not.                      *)
LEMMA AlwaysIInv == Spec => []IInv
BY InitHolds, NextKeeps, PTL DEF Spec

-----------------------------------------------------------------------------
(* The types hold in every state: a select only ever shows rows of its     *)
(* table, and a value it has an option for.                                *)
THEOREM FormTypes == Spec => []TypeOK
<1>1. IInv => TypeOK
  BY DEF IInv
<1> QED BY <1>1, AlwaysIInv, PTL

(* A form that is complete while no look-up is under way or failed shows a *)
(* path of the hierarchy, however deep it is and however fast the admin    *)
(* chooses: the options of a select were looked up below what the select   *)
(* above it shows, or that one shows the empty option.                     *)
THEOREM FormShowsPath == Spec => []ShownPathExists
<1>1. IInv => ShownPathExists
  <2> SUFFICES ASSUME IInv, Complete, Quiet, NEW i \in Asking
               PROVE  parent[chosen[i + 1]] = chosen[i] \/ chosen[i + 1] \in moved
    BY DEF ShownPathExists
  <2>1. chosen[i] # Blank /\ chosen[i + 1] # Blank
    BY NextSelect DEF Complete
  <2>2. under[i + 1] = chosen[i]
    BY <2>1 DEF IInv, ChoicesFollowed, Followed, Quiet
  <2>3. chosen[i + 1] \in options[i + 1]
    BY <2>1, NextSelect DEF IInv, TypeOK
  <2> QED BY <2>2, <2>3 DEF IInv, LookedUp, Below
<1> QED BY <1>1, AlwaysIInv, PTL
=============================================================================
