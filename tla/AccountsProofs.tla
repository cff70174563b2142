--------------------------- MODULE AccountsProofs ---------------------------
(***************************************************************************)
(* Proofs about Accounts, for any sets of browsers, admins and requests    *)
(* and any faults.                                                         *)
(*                                                                         *)
(* That a stored session is its opener's needs the same of every copy a    *)
(* request holds, and that a new token is in nobody's hands; that ended    *)
(* sessions stay ended needs that a copy about to be written under an      *)
(* ended token was under way when the token ended.                         *)
(***************************************************************************)
EXTENDS Accounts, TLAPS

(* What the handlers know of a request.                                    *)
Handled(r) ==
  /\ r.pc # "free" => r.browser \in Browser
  /\ r.kind = "login" => r.admin \in Admin
  /\ r.kind = "change" => r.wanted \in Password
  /\ r.pc \in {"verify", "save", "renew"} =>
       r.kind = "login" \/ (r.kind = "change" /\ r.token # None)
  /\ r.pc = "save" => r.kind = "change"
  /\ r.pc # "respond" => r.told = "nothing"
  /\ r.told = "in" => r.data.admin \in Admin
  /\ r.told = "changed" => r.kind = "change" /\ r.data.admin \in Admin

Holding == {"verify", "save", "renew", "destroy", "commit"}

(* A copy with a token is of the session of that token.                    *)
CopySound(r) ==
  /\ r.pc \in Holding /\ r.token # None =>
       /\ r.token \in 1..made
       /\ r.data.admin \in Admin
       /\ r.data.admin = opener[r.token]
  /\ r.pc = "commit" =>
       /\ r.token # None
       /\ r.token \in ended => r.token \in overtaken

RowSound(t) ==
  store[t] # None =>
    /\ t \in 1..made
    /\ store[t].admin \in Admin
    /\ store[t].admin = opener[t]
    /\ t \in ended => t \in overtaken

IInv ==
  /\ TypeOK
  /\ \A s \in Slot : Handled(req[s]) /\ CopySound(req[s])
  /\ \A t \in Token : RowSound(t)

(* The part of TypeOK that is of no consequence to the rest.               *)
Plain ==
  /\ hash \in [Admin -> Password]
  /\ dead \subseteq Token
  /\ cookie \in [Browser -> Token \cup {None}]
  /\ started \in 0..MaxRequests
  /\ signed \in [Browser -> Admin \cup {None}]
  /\ astray \subseteq Browser
  /\ believed \in [Admin -> Password]
  /\ doubtful \subseteq Admin

Tables ==
  /\ store \in [Token -> Session \cup {None}]
  /\ made \in 0..MaxTokens
  /\ opener \in [Token -> Admin \cup {None}]
  /\ ended \subseteq 1..made
  /\ overtaken \subseteq ended

-----------------------------------------------------------------------------
LEMMA TokenNotNone == None \notin Token
BY AccountAssumption DEF Token

LEMMA FreeIsRequest ==
  /\ Free \in Request
  /\ Free.pc = "free" /\ Free.told = "nothing" /\ Free.kind = "page"
BY DEF Free, Fresh, Request, Steps, Kind, Session

LEMMA InitIInv == Init => IInv
<1> SUFFICES ASSUME Init PROVE IInv
  OBVIOUS
<1>1. req \in [Slot -> Request] /\ \A s \in Slot : req[s] = Free
  BY FreeIsRequest DEF Init
<1>2. Plain /\ Tables
  BY AccountAssumption DEF Init, Plain, Tables
<1>3. \A s \in Slot : Handled(req[s]) /\ CopySound(req[s])
  BY <1>1, FreeIsRequest DEF Handled, CopySound, Holding
<1>4. \A t \in Token : RowSound(t)
  BY DEF Init, RowSound
<1>5. TypeOK
  BY <1>1, <1>2, FreeIsRequest DEF TypeOK, Plain, Tables
<1> QED
  BY <1>3, <1>4, <1>5 DEF IInv

(* A step changes one request; what is left to show is about it and the    *)
(* tables.                                                                 *)
LEMMA OneRequest ==
  ASSUME IInv, NEW s \in Slot, NEW x \in Request, req' = [req EXCEPT ![s] = x],
         Plain', Tables', Handled(x), CopySound(x)',
         \A r \in Slot \ {s} : CopySound(req[r]) => CopySound(req[r])',
         \A t \in Token : RowSound(t)'
  PROVE  IInv'
<1>1. /\ req' \in [Slot -> Request]
      /\ req'[s] = x
      /\ \A r \in Slot \ {s} : req'[r] = req[r]
  BY DEF IInv, TypeOK
<1>2. ASSUME NEW r \in Slot PROVE Handled(req[r])' /\ CopySound(req[r])'
  <2>1. CASE r = s
    BY <1>1, <2>1 DEF Handled, CopySound
  <2>2. CASE r # s
    BY <1>1, <2>2 DEF IInv, Handled, CopySound
  <2> QED
    BY <2>1, <2>2
<1>3. TypeOK'
  BY <1>1, <1>2 DEF TypeOK, Plain, Tables, Handled, CopySound, Holding
<1> QED
  BY <1>2, <1>3 DEF IInv
(* A step that changes neither a table nor anything else of consequence.   *)
LEMMA Untouched ==
  ASSUME IInv, NEW s \in Slot, NEW x \in Request, req' = [req EXCEPT ![s] = x],
         Plain', Handled(x), CopySound(x),
         UNCHANGED <<store, made, opener, ended, overtaken>>
  PROVE  IInv'
<1>1. Tables'
  BY DEF IInv, TypeOK, Tables
<1>2. \A t \in Token : RowSound(t)'
  BY DEF IInv, RowSound
<1>3. \A r \in Slot \ {s} : CopySound(req[r]) => CopySound(req[r])'
  <2>1. \A r \in Slot \ {s} : req'[r] = req[r]
    BY DEF IInv, TypeOK
  <2> QED
    BY <2>1 DEF CopySound
<1>4. CopySound(x)'
  BY DEF CopySound
<1> QED
  BY <1>1, <1>2, <1>3, <1>4, OneRequest

(* An answer; told is what the handler may say.                            *)
LEMMA Answers ==
  ASSUME IInv, NEW s \in Slot, req[s].pc # "free",
         NEW told \in {"nothing", "out", "changed"},
         told = "changed" => req[s].kind = "change" /\ req[s].data.admin \in Admin
  PROVE  LET x == [req[s] EXCEPT !.pc = "respond", !.told = told]
         IN x \in Request /\ Handled(x) /\ CopySound(x) /\ x.pc = "respond"
<1> DEFINE x == [req[s] EXCEPT !.pc = "respond", !.told = told]
<1>1. req[s] \in Request /\ Handled(req[s])
  BY DEF IInv, TypeOK
<1>2. x \in Request
  BY <1>1 DEF Request, Steps
<1>3. /\ x.pc = "respond" /\ x.told = told /\ x.kind = req[s].kind
      /\ x.browser = req[s].browser /\ x.admin = req[s].admin
      /\ x.wanted = req[s].wanted /\ x.data = req[s].data
  BY <1>1 DEF Request
<1> HIDE DEF x
<1>4. Handled(x) /\ CopySound(x)
  BY <1>1, <1>3 DEF Handled, CopySound, Holding
<1> QED
  BY <1>2, <1>3, <1>4 DEF x

(* A handler goes on with the copy it has.                                 *)
LEMMA GoesOn ==
  ASSUME IInv, NEW s \in Slot, NEW pc \in {"save", "renew"},
         req[s].pc \in {"verify", "save"},
         pc = "save" => req[s].kind = "change"
  PROVE  LET x == [req[s] EXCEPT !.pc = pc]
         IN x \in Request /\ Handled(x) /\ CopySound(x)
<1> DEFINE x == [req[s] EXCEPT !.pc = pc]
<1>1. req[s] \in Request /\ Handled(req[s]) /\ CopySound(req[s])
  BY DEF IInv, TypeOK
<1>2. x \in Request
  BY <1>1 DEF Request, Steps
<1>3. /\ x.pc = pc /\ x.told = req[s].told /\ x.kind = req[s].kind
      /\ x.browser = req[s].browser /\ x.admin = req[s].admin
      /\ x.wanted = req[s].wanted /\ x.data = req[s].data
      /\ x.token = req[s].token
  BY <1>1 DEF Request
<1> HIDE DEF x
<1>4. Handled(x) /\ CopySound(x)
  BY <1>1, <1>3 DEF Handled, CopySound, Holding
<1> QED
  BY <1>2, <1>4 DEF x

(* The bookkeeping of the histories.                                       *)
LEMMA MishapPlain ==
  ASSUME IInv, NEW s \in Slot, req[s].pc # "free", Mishap(s)
  PROVE  astray' \subseteq Browser /\ doubtful' \subseteq Admin
BY DEF IInv, TypeOK, Handled, Mishap

-----------------------------------------------------------------------------
LEMMA StartIInv ==
  ASSUME IInv, NEW s \in Slot, Start(s)
  PROVE  IInv'
<1> PICK b \in Browser, k \in Kind, a \in Admin \cup {None},
         p \in Password \cup {None}, q \in Password \cup {None} :
      /\ a # None <=> k = "login"
      /\ q # None <=> k = "change"
      /\ req' = [req EXCEPT ![s] =
           [Free EXCEPT !.pc = "load", !.browser = b, !.kind = k, !.admin = a,
                        !.given = p, !.wanted = q, !.token = cookie[b]]]
      /\ astray' \in {astray, astray \cup {b}}
  BY DEF Start
<1> DEFINE x == [Free EXCEPT !.pc = "load", !.browser = b, !.kind = k, !.admin = a,
                             !.given = p, !.wanted = q, !.token = cookie[b]]
<1>1. cookie[b] \in Token \cup {None}
  BY DEF IInv, TypeOK
<1>2. x \in Request
  BY <1>1, FreeIsRequest DEF Request, Steps
<1>3. /\ x.pc = "load" /\ x.browser = b /\ x.kind = k /\ x.admin = a
      /\ x.wanted = q /\ x.told = "nothing"
  BY FreeIsRequest DEF Request
<1> HIDE DEF x
<1>4. Handled(x) /\ CopySound(x)
  BY <1>3 DEF Handled, CopySound, Holding
<1>5. Plain'
  <2>1. started' \in 0..MaxRequests
    BY AccountAssumption DEF Start, IInv, TypeOK
  <2> QED
    BY <2>1 DEF Start, IInv, TypeOK, Plain, tables
<1>6. req' = [req EXCEPT ![s] = x]
  BY DEF x
<1> QED
  BY <1>2, <1>4, <1>5, <1>6, Untouched DEF Start, tables

LEMMA VerifyIInv ==
  ASSUME IInv, NEW s \in Slot, Verify(s)
  PROVE  IInv'
<1>1. Plain'
  BY DEF Verify, Serving, NoTable, Fine, IInv, TypeOK, Plain
<1>2. PICK x \in Request : Handled(x) /\ CopySound(x) /\ req' = [req EXCEPT ![s] = x]
  <2>1. CASE Answer(s, "nothing")
    BY <2>1, Answers DEF Verify, Answer
  <2>2. CASE Goto(s, IF req[s].kind = "login" THEN "renew" ELSE "save")
    <3>1. req[s].pc = "verify" /\ (req[s].kind # "login" => req[s].kind = "change")
      BY DEF Verify, IInv, Handled
    <3> PICK pc \in {"save", "renew"} :
          /\ pc = IF req[s].kind = "login" THEN "renew" ELSE "save"
      OBVIOUS
    <3> QED
      BY <2>2, <3>1, GoesOn DEF Goto
  <2> QED
    BY <2>1, <2>2 DEF Verify
<1> QED
  BY <1>1, <1>2, Untouched DEF Verify, NoTable

LEMMA SaveIInv ==
  ASSUME IInv, NEW s \in Slot, Save(s)
  PROVE  IInv'
<1>1. /\ req[s].pc = "save" /\ req[s].kind = "change" /\ req[s].wanted \in Password
      /\ req[s].data.admin \in Admin
  BY DEF Save, IInv, Handled, CopySound, Holding
<1>2. Plain'
  BY <1>1, MishapPlain DEF Save, Serving, Fine, IInv, TypeOK, Plain
<1>3. PICK x \in Request : Handled(x) /\ CopySound(x) /\ req' = [req EXCEPT ![s] = x]
  <2>1. CASE Answer(s, "nothing")
    BY <1>1, <2>1, Answers DEF Answer
  <2>2. CASE Goto(s, "renew")
    BY <1>1, <2>2, GoesOn DEF Goto
  <2> QED
    BY <2>1, <2>2 DEF Save
<1> QED
  BY <1>2, <1>3, Untouched DEF Save, Serving

(* The copy of a request is that of its token, or empty.                   *)
LEMMA LoadIInv ==
  ASSUME IInv, NEW s \in Slot, Load(s)
  PROVE  IInv'
<1> DEFINE found == Live(req[s].token)
           data == IF found THEN store[req[s].token] ELSE Fresh
           token == IF found THEN req[s].token ELSE None
<1>1. Plain'
  BY DEF Load, Serving, NoTable, Fine, IInv, TypeOK, Plain
<1>2. /\ req[s] \in Request /\ Handled(req[s])
      /\ req[s].pc = "load" /\ req[s].token \in Token \cup {None}
  BY DEF Load, IInv, TypeOK, Request
<1>3. CASE Answer(s, "out") \/ Answer(s, "nothing")
  BY <1>1, <1>2, <1>3, Answers, Untouched DEF Load, Answer, NoTable
<1>4. CASE Admitted(req[s].kind, data) /\ Enter(s, token, data)
  <2>1. /\ data \in Session
        /\ token \in Token \cup {None}
        /\ token = None => data.admin = None /\ ~data.flash
        /\ token # None => /\ token \in 1..made
                           /\ data.admin \in Admin
                           /\ data.admin = opener[token]
                           /\ token \in ended => token \in overtaken
    <3>1. CASE found
      <4>1. req[s].token \in Token /\ store[req[s].token] # None
        BY <1>2, <3>1 DEF Live
      <4>2. store[req[s].token] \in Session /\ RowSound(req[s].token)
        BY <4>1 DEF IInv, TypeOK
      <4> QED
        BY <3>1, <4>1, <4>2, TokenNotNone DEF RowSound
    <3>2. CASE ~found
      BY <3>2 DEF Fresh, Session
    <3> QED
      BY <3>1, <3>2
  <2> HIDE DEF data, token, found
  <2>2. PICK pc \in {"verify", "destroy", "commit", "respond"}, copy \in Session :
          /\ req' = [req EXCEPT ![s] =
                       [@ EXCEPT !.pc = pc, !.token = token, !.data = copy]]
          /\ copy.admin = data.admin
          /\ pc = "verify" => req[s].kind \in {"login", "change"}
          /\ pc = "commit" => token # None
    <3>1. [data EXCEPT !.flash = TRUE] \in Session /\ [data EXCEPT !.flash = FALSE] \in Session
      BY <2>1 DEF Session
    <3>2. /\ [data EXCEPT !.flash = TRUE].admin = data.admin
          /\ [data EXCEPT !.flash = FALSE].admin = data.admin
      BY <2>1 DEF Session
    <3> QED
      BY <1>4, <2>1, <3>1, <3>2 DEF Enter, Admitted
  <2>3. req[s].kind = "change" => token # None
    BY <1>4, <2>1 DEF Admitted
  <2> DEFINE x == [req[s] EXCEPT !.pc = pc, !.token = token, !.data = copy]
  <2>4. x \in Request
    BY <1>2, <2>1 DEF Request, Steps
  <2>5. /\ x.pc = pc /\ x.told = req[s].told /\ x.kind = req[s].kind
        /\ x.browser = req[s].browser /\ x.admin = req[s].admin
        /\ x.wanted = req[s].wanted /\ x.data = copy /\ x.token = token
    BY <1>2 DEF Request
  <2>6. req' = [req EXCEPT ![s] = x]
    BY <2>2
  <2>7. req[s].told = "nothing"
    BY <1>2 DEF Handled
  <2> HIDE DEF x
  <2>8. Handled(x)
    BY <1>2, <2>2, <2>3, <2>5, <2>7 DEF Handled
  <2>9. CopySound(x)
    BY <2>1, <2>2, <2>5 DEF CopySound, Holding
  <2> QED
    BY <1>1, <2>4, <2>6, <2>8, <2>9, Untouched DEF Load, NoTable
<1> QED
  BY <1>3, <1>4 DEF Load
(* After a session is deleted: the tables, and the copies of the others.   *)
LEMMA Deleted ==
  ASSUME IInv, NEW s \in Slot, Delete(s, req[s].token),
         req[s].token \in 1..made \cup {None}, UNCHANGED <<made, opener>>
  PROVE  /\ Tables'
         /\ \A r \in Slot \ {s} : CopySound(req[r]) =>
              /\ req[r].pc \in Holding /\ req[r].token # None =>
                   /\ req[r].token \in 1..made
                   /\ req[r].data.admin \in Admin
                   /\ req[r].data.admin = opener[req[r].token]
              /\ req[r].pc = "commit" =>
                   /\ req[r].token # None
                   /\ req[r].token \in ended' => req[r].token \in overtaken'
         /\ \A t \in Token : RowSound(t)'
<1> DEFINE t == req[s].token
<1>1. CASE t = None
  BY <1>1 DEF Delete, IInv, TypeOK, Tables, CopySound, RowSound
<1>2. CASE t # None
  <2>1. /\ t \in 1..made /\ t \in Token
        /\ store' = [store EXCEPT ![t] = None]
        /\ ended' = ended \cup {t}
        /\ overtaken' \in {overtaken \cup {t}, overtaken \ {t}}
        /\ (\E r \in Slot \ {s} : req[r].pc = "commit" /\ req[r].token = t)
             => overtaken' = overtaken \cup {t}
    BY <1>2, AccountAssumption DEF Delete, IInv, TypeOK, Token
  <2>2. Tables'
    BY <2>1 DEF IInv, TypeOK, Tables
  <2>3. ASSUME NEW r \in Slot \ {s}, CopySound(req[r])
        PROVE  /\ req[r].pc \in Holding /\ req[r].token # None =>
                    /\ req[r].token \in 1..made
                    /\ req[r].data.admin \in Admin
                    /\ req[r].data.admin = opener[req[r].token]
               /\ req[r].pc = "commit" =>
                    /\ req[r].token # None
                    /\ req[r].token \in ended' => req[r].token \in overtaken'
    BY <2>1, <2>3 DEF CopySound
  <2>4. ASSUME NEW u \in Token PROVE RowSound(u)'
    <3>1. CASE u = t
      BY <2>1, <3>1 DEF RowSound, IInv, TypeOK
    <3>2. CASE u # t
      <4>1. /\ store'[u] = store[u]
            /\ u \in ended' <=> u \in ended
            /\ u \in overtaken' <=> u \in overtaken
        BY <2>1, <3>2 DEF IInv, TypeOK
      <4> QED
        BY <4>1 DEF RowSound, IInv
    <3> QED
      BY <3>1, <3>2
  <2> QED
    BY <2>2, <2>3, <2>4
<1> QED
  BY <1>1, <1>2

(* A request that is answered when its session was deleted.                *)
LEMMA DeletedIInv ==
  ASSUME IInv, NEW s \in Slot, Delete(s, req[s].token),
         req[s].token \in 1..made \cup {None}, UNCHANGED <<made, opener>>,
         NEW x \in Request, req' = [req EXCEPT ![s] = x], Plain', Handled(x),
         x.pc = "respond"
  PROVE  IInv'
<1>1. Tables' /\ \A t \in Token : RowSound(t)'
  BY Deleted
<1>2. CopySound(x)'
  BY DEF CopySound, Holding
<1>3. \A r \in Slot \ {s} : req'[r] = req[r]
  BY DEF IInv, TypeOK
<1>4. \A r \in Slot \ {s} : CopySound(req[r]) => CopySound(req[r])'
  BY <1>3, Deleted DEF CopySound
<1> QED
  BY <1>1, <1>2, <1>4, OneRequest

LEMMA DestroyIInv ==
  ASSUME IInv, NEW s \in Slot, Destroy(s)
  PROVE  IInv'
<1>1. /\ req[s] \in Request /\ Handled(req[s]) /\ req[s].pc = "destroy"
      /\ req[s].token \in 1..made \cup {None}
  BY DEF Destroy, IInv, TypeOK, CopySound, Holding
<1>2. Plain'
  BY <1>1, MishapPlain DEF Destroy, Serving, Fine, IInv, TypeOK, Plain
<1>3. CASE Answer(s, "nothing")
  <2>1. PICK x \in Request : /\ Handled(x) /\ CopySound(x) /\ x.pc = "respond"
                             /\ req' = [req EXCEPT ![s] = x]
    BY <1>1, <1>3, Answers DEF Answer
  <2>2. CASE UNCHANGED <<store, ended, overtaken>>
    BY <1>2, <2>1, <2>2, Untouched DEF Destroy
  <2>3. CASE Delete(s, req[s].token)
    BY <1>1, <1>2, <2>1, <2>3, DeletedIInv DEF Destroy
  <2> QED
    BY <2>2, <2>3 DEF Destroy
<1>4. CASE /\ Delete(s, req[s].token)
           /\ req' = [req EXCEPT ![s] =
                [@ EXCEPT !.pc = "respond", !.token = None, !.data = Fresh,
                          !.setCookie = {None}, !.told = "out"]]
  <2> DEFINE x == [req[s] EXCEPT !.pc = "respond", !.token = None, !.data = Fresh,
                                 !.setCookie = {None}, !.told = "out"]
  <2>1. x \in Request
    BY <1>1 DEF Request, Steps, Session, Fresh
  <2>2. /\ x.pc = "respond" /\ x.told = "out" /\ x.kind = req[s].kind
        /\ x.browser = req[s].browser /\ x.admin = req[s].admin
        /\ x.wanted = req[s].wanted
    BY <1>1 DEF Request
  <2>3. req' = [req EXCEPT ![s] = x]
    BY <1>4
  <2> HIDE DEF x
  <2>4. Handled(x)
    BY <1>1, <2>2 DEF Handled
  <2> QED
    BY <1>1, <1>2, <1>4, <2>1, <2>2, <2>3, <2>4, DeletedIInv DEF Destroy
<1> QED
  BY <1>3, <1>4 DEF Destroy

(* The new token is in nobody's hands.                                     *)
LEMMA RenewIInv ==
  ASSUME IInv, NEW s \in Slot, Renew(s)
  PROVE  IInv'
<1> DEFINE t == req[s].token
           u == made + 1
           owner == IF req[s].kind = "login" THEN req[s].admin ELSE opener[t]
<1>1. /\ req[s] \in Request /\ Handled(req[s]) /\ req[s].pc = "renew"
      /\ t \in 1..made \cup {None}
      /\ t # None => req[s].data.admin \in Admin /\ req[s].data.admin = opener[t]
      /\ req[s].kind = "login" => req[s].admin \in Admin
      /\ req[s].kind # "login" => req[s].kind = "change" /\ t # None
  BY DEF Renew, IInv, TypeOK, CopySound, Handled, Holding
<1>2. Plain'
  BY <1>1 DEF Renew, Serving, Fine, IInv, TypeOK, Plain, Handled
<1>3. CASE Answer(s, IF req[s].kind = "change" THEN "changed" ELSE "nothing")
           /\ UNCHANGED <<made, opener>>
           /\ (UNCHANGED <<store, ended, overtaken>> \/ Delete(s, t))
  <2>1. PICK x \in Request : /\ Handled(x) /\ CopySound(x) /\ x.pc = "respond"
                             /\ req' = [req EXCEPT ![s] = x]
    BY <1>1, <1>3, Answers DEF Answer
  <2>2. CASE UNCHANGED <<store, ended, overtaken>>
    BY <1>2, <1>3, <2>1, <2>2, Untouched
  <2>3. CASE Delete(s, t)
    BY <1>1, <1>2, <1>3, <2>1, <2>3, DeletedIInv
  <2> QED
    BY <1>3, <2>2, <2>3
<1>4. CASE made < MaxTokens /\ made' = u /\ Delete(s, t) /\ Renewed(s, u)
  <2>1. /\ u \in Token /\ u \notin 1..made /\ u \notin {None} /\ t # u
        /\ 1..made \subseteq Token /\ 1..made' = 1..made \cup {u}
        /\ made' \in 0..MaxTokens
    BY <1>1, <1>4, AccountAssumption, TokenNotNone DEF IInv, TypeOK, Token
  <2>2. /\ owner \in Admin
        /\ opener' = [opener EXCEPT ![u] = owner]
        /\ opener'[u] = owner
        /\ \A v \in 1..made : opener'[v] = opener[v]
        /\ opener' \in [Token -> Admin \cup {None}]
    BY <1>1, <1>4, <2>1 DEF Renewed, IInv, TypeOK
  <2>3. /\ store' \in [Token -> Session \cup {None}]
        /\ ended' \subseteq 1..made /\ overtaken' \subseteq ended'
        /\ \A v \in Token : /\ store'[v] # None => v # t /\ store'[v] = store[v]
                            /\ v # t => (v \in ended' <=> v \in ended)
                            /\ v # t => (v \in overtaken' <=> v \in overtaken)
    <3>1. CASE t = None
      BY <1>4, <3>1, TokenNotNone DEF Delete, IInv, TypeOK
    <3>2. CASE t # None
      <4>1. /\ t \in 1..made /\ t \in Token
            /\ store' = [store EXCEPT ![t] = None]
            /\ ended' = ended \cup {t}
            /\ overtaken' \in {overtaken \cup {t}, overtaken \ {t}}
        BY <1>1, <1>4, <2>1, <3>2 DEF Delete
      <4> QED
        BY <4>1 DEF IInv, TypeOK
    <3> QED
      BY <3>1, <3>2
  <2>4. Tables'
    BY <2>1, <2>2, <2>3 DEF Tables
  <2>5. ASSUME NEW v \in Token PROVE RowSound(v)'
    BY <2>1, <2>2, <2>3 DEF RowSound, IInv
  <2>6. ASSUME NEW r \in Slot \ {s}, CopySound(req[r]) PROVE CopySound(req[r])'
    <3>1. req'[r] = req[r]
      BY <1>4 DEF Renewed, IInv, TypeOK
    <3>2. req[r].pc = "commit" /\ req[r].token \in ended' =>
            req[r].token \in overtaken'
      <4> SUFFICES ASSUME req[r].pc = "commit", req[r].token \in ended'
                   PROVE  req[r].token \in overtaken'
        OBVIOUS
      <4>1. CASE req[r].token = t /\ t # None
        BY <1>4, <4>1 DEF Delete
      <4>2. CASE req[r].token # t \/ t = None
        <5>1. req[r].token \in Token
          BY <2>1, <2>6 DEF CopySound, Holding
        <5> QED
          BY <2>3, <2>6, <4>2, <5>1, TokenNotNone DEF CopySound
      <4> QED
        BY <4>1, <4>2
    <3> QED
      BY <2>1, <2>2, <2>6, <3>1, <3>2 DEF CopySound
  <2>7. PICK copy \in Session :
          /\ copy.admin = owner
          /\ req' = [req EXCEPT ![s] =
                       [@ EXCEPT !.pc = "commit", !.token = u, !.data = copy]]
    <3>1. req[s].data \in Session
      BY <1>1 DEF Request
    <3>2. CASE req[s].kind = "login"
      <4>1. /\ [req[s].data EXCEPT !.admin = req[s].admin] \in Session
            /\ [req[s].data EXCEPT !.admin = req[s].admin].admin = req[s].admin
        BY <1>1, <3>1, <3>2 DEF Session
      <4> QED
        BY <1>4, <3>2, <4>1 DEF Renewed
    <3>3. CASE req[s].kind # "login"
      <4>1. /\ [req[s].data EXCEPT !.flash = TRUE] \in Session
            /\ [req[s].data EXCEPT !.flash = TRUE].admin = req[s].data.admin
        BY <3>1 DEF Session
      <4> QED
        BY <1>1, <1>4, <3>3, <4>1 DEF Renewed
    <3> QED
      BY <3>2, <3>3
  <2> DEFINE x == [req[s] EXCEPT !.pc = "commit", !.token = u, !.data = copy]
  <2>8. x \in Request
    BY <1>1, <2>1 DEF Request, Steps
  <2>9. /\ x.pc = "commit" /\ x.told = req[s].told /\ x.kind = req[s].kind
        /\ x.browser = req[s].browser /\ x.admin = req[s].admin
        /\ x.wanted = req[s].wanted /\ x.data = copy /\ x.token = u
    BY <1>1 DEF Request
  <2>10. req' = [req EXCEPT ![s] = x]
    BY <2>7
  <2>11. req[s].told = "nothing"
    BY <1>1 DEF Handled
  <2> HIDE DEF x
  <2>12. Handled(x)
    BY <1>1, <2>9, <2>11 DEF Handled
  <2>13. u \notin ended' /\ u \in 1..made' /\ u # None
    BY <2>1, <2>3
  <2> PICK y \in Request : y = x
    BY <2>8
  <2> HIDE DEF u, t, owner
  <2>14. CopySound(y)'
    BY <2>2, <2>7, <2>9, <2>13 DEF CopySound
  <2>15. \A r \in Slot \ {s} : CopySound(req[r]) => CopySound(req[r])'
    BY <2>6
  <2>16. \A v \in Token : RowSound(v)'
    BY <2>5
  <2> QED
    BY <1>2, <2>4, <2>8, <2>10, <2>12, <2>14, <2>15, <2>16, OneRequest
<1> QED
  BY <1>3, <1>4 DEF Renew

(* What is written under a token is a copy of its own session, and one     *)
(* that has ended was overtaken.                                           *)
LEMMA CommitIInv ==
  ASSUME IInv, NEW s \in Slot, Commit(s)
  PROVE  IInv'
<1> DEFINE t == req[s].token
<1>1. /\ req[s] \in Request /\ Handled(req[s]) /\ req[s].pc = "commit"
      /\ t \in 1..made /\ t \in Token
      /\ req[s].data \in Session /\ req[s].data.admin \in Admin
      /\ req[s].data.admin = opener[t]
      /\ t \in ended => t \in overtaken
  BY AccountAssumption
     DEF Commit, IInv, TypeOK, CopySound, Holding, Request, Token
<1>2. Plain'
  BY <1>1, MishapPlain DEF Commit, Serving, Fine, IInv, TypeOK, Plain
<1>3. store' = store \/ store' = [store EXCEPT ![t] = req[s].data]
  BY DEF Commit
<1>4. UNCHANGED <<made, opener, ended, overtaken>>
  BY DEF Commit
<1>5. Tables'
  BY <1>1, <1>3, <1>4 DEF Tables, IInv, TypeOK
<1>6. ASSUME NEW v \in Token PROVE RowSound(v)'
  <2>1. CASE store'[v] = store[v]
    BY <1>4, <2>1 DEF RowSound, IInv
  <2>2. CASE store'[v] # store[v]
    <3>1. v = t /\ store'[v] = req[s].data
      BY <1>1, <1>3, <2>2 DEF IInv, TypeOK
    <3> QED
      BY <1>1, <1>4, <3>1 DEF RowSound
  <2> QED
    BY <2>1, <2>2
<1>7. PICK y \in Request : /\ Handled(y) /\ y.pc = "respond"
                           /\ req' = [req EXCEPT ![s] = y]
  <2>1. CASE Answer(s, "nothing")
    BY <1>1, <2>1, Answers DEF Answer
  <2>2. CASE req' = [req EXCEPT ![s] =
               [@ EXCEPT !.pc = "respond", !.setCookie = {req[s].token},
                         !.told = Success(req[s].kind)]]
    <3> DEFINE x == [req[s] EXCEPT !.pc = "respond", !.setCookie = {req[s].token},
                                   !.told = Success(req[s].kind)]
    <3>1. /\ Success(req[s].kind) \in {"nothing", "in", "changed"}
          /\ Success(req[s].kind) = "changed" => req[s].kind = "change"
      BY DEF Success
    <3>2. x \in Request
      BY <1>1, <3>1 DEF Request, Steps
    <3>3. /\ x.pc = "respond" /\ x.told = Success(req[s].kind)
          /\ x.kind = req[s].kind /\ x.data = req[s].data
          /\ x.browser = req[s].browser /\ x.admin = req[s].admin
          /\ x.wanted = req[s].wanted
      BY <1>1 DEF Request
    <3>4. req' = [req EXCEPT ![s] = x]
      BY <2>2
    <3> HIDE DEF x
    <3>5. Handled(x)
      BY <1>1, <3>1, <3>3 DEF Handled
    <3> QED
      BY <3>2, <3>3, <3>4, <3>5
  <2> QED
    BY <2>1, <2>2 DEF Commit
<1>8. CopySound(y)'
  BY <1>7 DEF CopySound, Holding
<1>9. ASSUME NEW r \in Slot \ {s}, CopySound(req[r]) PROVE CopySound(req[r])'
  <2>1. req'[r] = req[r]
    BY <1>7 DEF IInv, TypeOK
  <2> QED
    BY <1>4, <1>9, <2>1 DEF CopySound
<1>10. /\ \A v \in Token : RowSound(v)'
       /\ \A r \in Slot \ {s} : CopySound(req[r]) => CopySound(req[r])'
  BY <1>6, <1>9
<1> QED
  BY <1>2, <1>5, <1>7, <1>8, <1>10, OneRequest

LEMMA FreeHandled == Handled(Free) /\ CopySound(Free)
BY FreeIsRequest DEF Handled, CopySound, Holding

(* An answer names only tokens and admins there are.                       *)
LEMMA ArriveIInv ==
  ASSUME IInv, NEW s \in Slot, Arrive(s)
  PROVE  IInv'
<1>1. /\ req[s] \in Request /\ Handled(req[s]) /\ req[s].pc = "respond"
      /\ req[s].setCookie \subseteq Token \cup {None}
      /\ req[s].browser \in Browser
  BY DEF Arrive, IInv, TypeOK, Handled, Request
<1>2. cookie' \in [Browser -> Token \cup {None}]
  <2>1. req[s].setCookie # {} =>
          (CHOOSE c \in req[s].setCookie : TRUE) \in Token \cup {None}
    BY <1>1
  <2> QED
    BY <1>1, <2>1 DEF Arrive, IInv, TypeOK
<1>3. signed' \in [Browser -> Admin \cup {None}]
  <2>1. req[s].told = "in" => req[s].data.admin \in Admin
    BY <1>1 DEF Handled
  <2> QED
    BY <1>1, <2>1 DEF Arrive, IInv, TypeOK
<1>4. believed' \in [Admin -> Password]
  <2>1. req[s].told = "changed" => req[s].data.admin \in Admin /\ req[s].wanted \in Password
    BY <1>1 DEF Handled
  <2> QED
    BY <1>1, <2>1 DEF Arrive, IInv, TypeOK
<1>5. Plain'
  BY <1>2, <1>3, <1>4 DEF Arrive, IInv, TypeOK, Plain
<1> QED
  BY <1>5, FreeIsRequest, FreeHandled, Untouched DEF Arrive

LEMMA LoseIInv ==
  ASSUME IInv, NEW s \in Slot, Lose(s)
  PROVE  IInv'
<1>1. req[s].pc # "free"
  BY DEF Lose
<1>2. Plain'
  BY <1>1, MishapPlain DEF Lose, Serving, NoTable, Fine, IInv, TypeOK, Plain
<1> QED
  BY <1>2, FreeIsRequest, FreeHandled, Untouched DEF Lose, NoTable

LEMMA CrashIInv == IInv /\ Crash => IInv'
<1> SUFFICES ASSUME IInv, Crash PROVE IInv'
  OBVIOUS
<1>1. req' \in [Slot -> Request] /\ \A s \in Slot : req'[s] = Free
  BY FreeIsRequest DEF Crash
<1>2. Plain' /\ Tables'
  BY DEF Crash, Serving, NoTable, IInv, TypeOK, Plain, Tables
<1>3. \A s \in Slot : Handled(req[s])' /\ CopySound(req[s])'
  BY <1>1, FreeIsRequest DEF Handled, CopySound, Holding
<1>4. \A t \in Token : RowSound(t)'
  BY DEF Crash, NoTable, RowSound, IInv
<1>5. TypeOK'
  BY <1>1, <1>2, FreeIsRequest DEF TypeOK, Plain, Tables
<1> QED
  BY <1>3, <1>4, <1>5 DEF IInv

LEMMA ExpireIInv == IInv /\ Expire => IInv'
<1> SUFFICES ASSUME IInv, Expire PROVE IInv'
  OBVIOUS
<1>1. TypeOK'
  <2>1. dead' \subseteq Token
    BY AccountAssumption DEF Expire, IInv, TypeOK, Token
  <2> QED
    BY <2>1 DEF Expire, IInv, TypeOK
<1> QED
  BY <1>1 DEF Expire, IInv, Handled, CopySound, RowSound

LEMMA NextIInv == IInv /\ [Next]_vars => IInv'
<1> SUFFICES ASSUME IInv, [Next]_vars PROVE IInv'
  OBVIOUS
<1>1. ASSUME NEW s \in Slot,
             \/ Start(s) \/ Load(s) \/ Verify(s) \/ Save(s) \/ Renew(s)
             \/ Destroy(s) \/ Commit(s) \/ Arrive(s) \/ Lose(s)
      PROVE  IInv'
  BY <1>1, StartIInv, LoadIInv, VerifyIInv, SaveIInv, RenewIInv, DestroyIInv,
     CommitIInv, ArriveIInv, LoseIInv
<1>2. CASE UNCHANGED vars
  BY <1>2 DEF vars, IInv, TypeOK, Handled, CopySound, RowSound
<1> QED
  BY <1>1, <1>2, CrashIInv, ExpireIInv DEF Next

LEMMA AlwaysIInv == Spec => []IInv
BY InitIInv, NextIInv, PTL DEF Spec

-----------------------------------------------------------------------------
(* Every variable keeps its type; in particular a request that is about to *)
(* write a session has a token and an admin.                               *)
THEOREM TypeCorrect == Spec => []TypeOK
<1>1. IInv => TypeOK
  BY DEF IInv
<1> QED
  BY <1>1, AlwaysIInv, PTL

(* A stored session is that of the admin whose password opened it, and one *)
(* that was logged out or renewed is stored again only by a request that   *)
(* was under way when it was: for any number of admins, browsers and       *)
(* overlapping requests, and any faults of the database.                   *)
THEOREM SessionsSound == Spec => []StoredSessionsSound
<1>1. IInv => StoredSessionsSound
  BY DEF IInv, RowSound, StoredSessionsSound, Live
<1> QED
  BY <1>1, AlwaysIInv, PTL

-----------------------------------------------------------------------------
(* The password in force.                                                  *)

(* A change of the password of a that is stored and not yet answered.      *)
Stored(r, a) ==
  /\ r.kind = "change" /\ r.data.admin = a
  /\ \/ r.pc \in {"renew", "commit"}
     \/ r.pc = "respond" /\ r.told = "changed"

(* Without doubt about a, at most one change is stored and not answered,   *)
(* and the password in force is the one it stored.                         *)
PasswordSound(a) ==
  a \notin doubtful =>
    /\ Unanswered(a) = {} => hash[a] = believed[a]
    /\ \A s \in Unanswered(a) :
         hash[a] = req[s].wanted /\ Unanswered(a) = {s}

PInv == \A a \in Admin : PasswordSound(a)

LEMMA UnansweredStored ==
  \A a : Unanswered(a) = {s \in Slot : Stored(req[s], a)}
BY DEF Unanswered, Stored

(* A step that stores no password, and withdraws a change only with doubt. *)
LEMMA PasswordStands ==
  ASSUME IInv, PInv, NEW s \in Slot, NEW x, req' = [req EXCEPT ![s] = x],
         UNCHANGED <<hash, believed>>, doubtful \subseteq doubtful',
         \A a \in Admin \ doubtful' :
           /\ Stored(x, a) <=> Stored(req[s], a)
           /\ Stored(x, a) => x.wanted = req[s].wanted
  PROVE  PInv'
<1>1. \A r \in Slot : req'[r] = IF r = s THEN x ELSE req[r]
  BY DEF IInv, TypeOK
<1>2. ASSUME NEW a \in Admin, a \notin doubtful'
      PROVE  /\ Unanswered(a)' = Unanswered(a)
             /\ \A r \in Unanswered(a) : req'[r].wanted = req[r].wanted
  <2>1. \A r \in Slot : Stored(req'[r], a) <=> Stored(req[r], a)
    BY <1>1, <1>2
  <2>2. Unanswered(a)' = Unanswered(a)
    BY <2>1 DEF Unanswered, Stored
  <2> QED BY <1>1, <1>2, <2>2 DEF Unanswered, Stored
<1> QED BY <1>2 DEF PInv, PasswordSound

(* A request that has stored no password goes on to a place where it still *)
(* has not.                                                                *)
LEMMA NothingStored ==
  ASSUME IInv, PInv, NEW s \in Slot, NEW x, req' = [req EXCEPT ![s] = x],
         UNCHANGED <<hash, believed>>, doubtful \subseteq doubtful',
         \A a \in Admin \ doubtful' : ~Stored(req[s], a),
         \A a \in Admin : ~Stored(x, a)
  PROVE  PInv'
BY PasswordStands

(* An answer that is not that the password is changed.                     *)
LEMMA AnswerNotStored ==
  ASSUME NEW s \in Slot, req[s] \in Request, NEW told, told # "changed"
  PROVE  \A a : ~Stored([req[s] EXCEPT !.pc = "respond", !.told = told], a)
BY DEF Stored, Request

LEMMA StartPInv ==
  ASSUME IInv, PInv, NEW s \in Slot, Start(s)
  PROVE  PInv'
<1>1. PICK x : req' = [req EXCEPT ![s] = x] /\ x.pc = "load"
  <2>1. PICK b \in Browser, k \in Kind, a \in Admin \cup {None},
             p \in Password \cup {None}, q \in Password \cup {None} :
          /\ a # None <=> k = "login"
          /\ p # None <=> k \in {"login", "change"}
          /\ q # None <=> k = "change"
          /\ req' = [req EXCEPT ![s] =
               [Free EXCEPT !.pc = "load", !.browser = b, !.kind = k, !.admin = a,
                            !.given = p, !.wanted = q, !.token = cookie[b]]]
          /\ astray' = IF \E r \in Busy(b) : {k, req[r].kind} \cap Opening # {}
                       THEN astray \cup {b} ELSE astray
    BY DEF Start
  <2>2. [Free EXCEPT !.pc = "load", !.browser = b, !.kind = k, !.admin = a,
                     !.given = p, !.wanted = q, !.token = cookie[b]].pc = "load"
    BY FreeIsRequest DEF Request
  <2> QED BY <2>1, <2>2
<1>2. \A a \in Admin : ~Stored(x, a) /\ ~Stored(req[s], a)
  BY <1>1 DEF Start, Stored
<1> QED BY <1>1, <1>2, NothingStored DEF Start, tables

LEMMA LoadPInv ==
  ASSUME IInv, PInv, NEW s \in Slot, Load(s)
  PROVE  PInv'
<1>1. req[s] \in Request /\ req[s].pc = "load" /\ \A a : ~Stored(req[s], a)
  BY DEF Load, IInv, TypeOK, Stored
<1>2. PICK x : req' = [req EXCEPT ![s] = x] /\ \A a \in Admin : ~Stored(x, a)
  <2>1. CASE Answer(s, "out") \/ Answer(s, "nothing")
    BY <1>1, <2>1, AnswerNotStored DEF Answer
  <2>2. ASSUME NEW token, NEW data, Enter(s, token, data)
        PROVE  \E x : req' = [req EXCEPT ![s] = x] /\ \A a \in Admin : ~Stored(x, a)
    <3>1. PICK pc \in {"verify", "destroy", "commit", "respond"} : \E copy :
            /\ req' = [req EXCEPT ![s] =
                         [@ EXCEPT !.pc = pc, !.token = token, !.data = copy]]
            /\ req[s].kind = "change" => pc = "verify"
      BY <2>2 DEF Enter
    <3>2. PICK copy :
            /\ req' = [req EXCEPT ![s] =
                         [req[s] EXCEPT !.pc = pc, !.token = token, !.data = copy]]
            /\ req[s].kind = "change" => pc = "verify"
      BY <3>1
    <3>3. PICK x : x = [req[s] EXCEPT !.pc = pc, !.token = token, !.data = copy]
      OBVIOUS
    <3>4. x.pc = pc /\ x.kind = req[s].kind
      BY <1>1, <3>3 DEF Request
    <3>5. \A a \in Admin : ~Stored(x, a)
      BY <3>2, <3>4 DEF Stored
    <3> QED BY <3>2, <3>3, <3>5
  <2> QED BY <2>1, <2>2 DEF Load
<1> QED BY <1>1, <1>2, NothingStored DEF Load, Serving, NoTable, Fine

LEMMA VerifyPInv ==
  ASSUME IInv, PInv, NEW s \in Slot, Verify(s)
  PROVE  PInv'
<1>1. req[s] \in Request /\ req[s].pc = "verify" /\ \A a : ~Stored(req[s], a)
  BY DEF Verify, IInv, TypeOK, Stored
<1>2. PICK x : req' = [req EXCEPT ![s] = x] /\ \A a \in Admin : ~Stored(x, a)
  <2>1. CASE Answer(s, "nothing")
    BY <1>1, <2>1, AnswerNotStored DEF Answer
  <2>2. CASE Goto(s, IF req[s].kind = "login" THEN "renew" ELSE "save")
    <3>1. PICK pc : pc = IF req[s].kind = "login" THEN "renew" ELSE "save"
      OBVIOUS
    <3>2. PICK x : x = [req[s] EXCEPT !.pc = pc]
      OBVIOUS
    <3>3. x.pc = pc /\ x.kind = req[s].kind
      BY <1>1, <3>2 DEF Request
    <3>4. \A a \in Admin : ~Stored(x, a)
      BY <3>1, <3>3 DEF Stored
    <3> QED BY <2>2, <3>1, <3>2, <3>4 DEF Goto
  <2> QED BY <2>1, <2>2 DEF Verify
<1> QED BY <1>1, <1>2, NothingStored DEF Verify, Serving, NoTable, Fine

(* The new password is stored; the request is the only one with a change   *)
(* of it, or there is doubt.                                               *)
LEMMA SavePInv ==
  ASSUME IInv, PInv, NEW s \in Slot, Save(s)
  PROVE  PInv'
<1>1. PICK o \in Admin : o = req[s].data.admin
  BY DEF Save, IInv, Handled, CopySound, Holding
<1>2. /\ req[s] \in Request /\ req[s].pc = "save" /\ req[s].kind = "change"
      /\ \A a : ~Stored(req[s], a)
  BY DEF Save, IInv, TypeOK, Stored, Handled
<1>3. CASE Answer(s, "nothing") /\ UNCHANGED hash /\ Fine
  BY <1>2, <1>3, AnswerNotStored, NothingStored DEF Answer, Save, Serving, Fine
<1>4. CASE /\ hash' = [hash EXCEPT ![o] = req[s].wanted]
           /\ Goto(s, "renew")
           /\ doubtful' = IF Unanswered(o) = {} THEN doubtful \ {o}
                                                ELSE doubtful \cup {o}
  <2>1. PICK x : x = [req[s] EXCEPT !.pc = "renew"]
    OBVIOUS
  <2>2. /\ x.pc = "renew" /\ x.kind = "change" /\ x.data = req[s].data
        /\ x.wanted = req[s].wanted
    BY <1>2, <2>1 DEF Request
  <2>3. \A r \in Slot : req'[r] = IF r = s THEN x ELSE req[r]
    BY <1>4, <2>1 DEF Goto, IInv, TypeOK
  <2>4. \A r \in Slot : \A a : Stored(req'[r], a) <=> Stored(req[r], a) \/ (r = s /\ a = o)
    BY <1>1, <1>2, <2>2, <2>3 DEF Stored
  <2>5. \A a \in Admin : Unanswered(a)' = IF a = o THEN Unanswered(a) \cup {s}
                                          ELSE Unanswered(a)
    BY <2>4 DEF Unanswered, Stored
  <2>6. hash' = [hash EXCEPT ![o] = req[s].wanted] /\ hash \in [Admin -> Password]
        /\ believed' = believed
    BY <1>4 DEF IInv, TypeOK, Save, Serving
  <2>7. ASSUME NEW a \in Admin PROVE PasswordSound(a)'
    <3>1. CASE a = o /\ Unanswered(o) = {}
      <4>1. Unanswered(a)' = {s} /\ hash'[a] = req'[s].wanted
        BY <2>2, <2>3, <2>5, <2>6, <3>1
      <4> QED BY <4>1 DEF PasswordSound
    <3>2. CASE a = o /\ Unanswered(o) # {}
      BY <1>4, <3>2 DEF PasswordSound
    <3>3. CASE a # o
      <4>1. hash'[a] = hash[a] /\ Unanswered(a)' = Unanswered(a)
            /\ (a \in doubtful' <=> a \in doubtful) /\ PasswordSound(a)
            /\ s \notin Unanswered(a)
        BY <1>2, <1>4, <2>5, <2>6, <3>3 DEF PInv, Unanswered
      <4>2. \A r \in Unanswered(a) : req'[r] = req[r]
        BY <2>3, <4>1 DEF Unanswered
      <4> QED BY <2>6, <4>1, <4>2 DEF PasswordSound
    <3> QED BY <3>1, <3>2, <3>3
  <2> QED BY <2>7 DEF PInv
<1>5. CASE /\ hash' = [hash EXCEPT ![o] = req[s].wanted]
           /\ Answer(s, "nothing") /\ Mishap(s)
  <2>1. PICK x : x = [req[s] EXCEPT !.pc = "respond", !.told = "nothing"]
    OBVIOUS
  <2>2. \A r \in Slot : req'[r] = IF r = s THEN x ELSE req[r]
    BY <1>5, <2>1 DEF Answer, IInv, TypeOK
  <2>3. \A a : ~Stored(x, a)
    BY <1>2, <2>1, AnswerNotStored
  <2>4. \A r \in Slot : \A a : Stored(req'[r], a) <=> Stored(req[r], a)
    BY <1>2, <2>2, <2>3
  <2>5. \A a : Unanswered(a)' = Unanswered(a)
    BY <2>4 DEF Unanswered, Stored
  <2>6. doubtful' = doubtful \cup {o}
    BY <1>1, <1>2, <1>5 DEF Mishap
  <2>7. ASSUME NEW a \in Admin, a \notin doubtful' PROVE PasswordSound(a)'
    <3>1. hash'[a] = hash[a] /\ believed' = believed /\ PasswordSound(a)
          /\ a \notin doubtful /\ s \notin Unanswered(a)
      BY <1>2, <1>5, <2>6, <2>7 DEF IInv, TypeOK, Save, Serving, PInv, Unanswered
    <3>2. \A r \in Unanswered(a) : req'[r] = req[r]
      BY <2>2, <3>1 DEF Unanswered
    <3> QED BY <2>5, <3>1, <3>2 DEF PasswordSound
  <2> QED BY <2>7 DEF PInv, PasswordSound
<1> QED BY <1>1, <1>3, <1>4, <1>5 DEF Save

(* A mishap of a change puts its admin in doubt.                           *)
LEMMA MishapDoubt ==
  ASSUME NEW s \in Slot, Mishap(s)
  PROVE  /\ doubtful \subseteq doubtful'
         /\ \A a \in Admin : Stored(req[s], a) => a \in doubtful'
BY DEF Mishap, Stored

(* Renewal of the session: the admin is told of the change either way.     *)
LEMMA RenewPInv ==
  ASSUME IInv, PInv, NEW s \in Slot, Renew(s)
  PROVE  PInv'
<1>1. req[s] \in Request /\ req[s].pc = "renew" /\ req[s].data \in Session
  BY DEF Renew, IInv, TypeOK, Request
<1>2. PICK x : /\ req' = [req EXCEPT ![s] = x]
               /\ x.wanted = req[s].wanted
               /\ \A a \in Admin : Stored(x, a) <=> Stored(req[s], a)
  <2>1. CASE Answer(s, IF req[s].kind = "change" THEN "changed" ELSE "nothing")
    <3>1. PICK told : told = IF req[s].kind = "change" THEN "changed" ELSE "nothing"
      OBVIOUS
    <3>2. PICK x : x = [req[s] EXCEPT !.pc = "respond", !.told = told]
      OBVIOUS
    <3>3. /\ x.pc = "respond" /\ x.told = told /\ x.kind = req[s].kind
          /\ x.data = req[s].data /\ x.wanted = req[s].wanted
      BY <1>1, <3>2 DEF Request
    <3>4. \A a \in Admin : Stored(x, a) <=> Stored(req[s], a)
      BY <1>1, <3>1, <3>3 DEF Stored
    <3> QED BY <2>1, <3>1, <3>2, <3>3, <3>4 DEF Answer
  <2>2. ASSUME NEW t, Renewed(s, t)
        PROVE  \E x : /\ req' = [req EXCEPT ![s] = x]
                      /\ x.wanted = req[s].wanted
                      /\ \A a \in Admin : Stored(x, a) <=> Stored(req[s], a)
    <3>1. PICK copy : copy = IF req[s].kind = "login"
                             THEN [req[s].data EXCEPT !.admin = req[s].admin]
                             ELSE [req[s].data EXCEPT !.flash = TRUE]
      OBVIOUS
    <3>2. req[s].kind = "change" => copy.admin = req[s].data.admin
      BY <1>1, <3>1 DEF Session
    <3>3. PICK x : x = [req[s] EXCEPT !.pc = "commit", !.token = t, !.data = copy]
      OBVIOUS
    <3>4. /\ x.pc = "commit" /\ x.kind = req[s].kind /\ x.data = copy
          /\ x.wanted = req[s].wanted
      BY <1>1, <3>3 DEF Request
    <3>5. \A a \in Admin : Stored(x, a) <=> Stored(req[s], a)
      BY <1>1, <3>2, <3>4 DEF Stored
    <3> QED BY <2>2, <3>1, <3>3, <3>4, <3>5 DEF Renewed
  <2> QED BY <2>1, <2>2 DEF Renew
<1> QED BY <1>2, PasswordStands DEF Renew, Serving, Fine

LEMMA DestroyPInv ==
  ASSUME IInv, PInv, NEW s \in Slot, Destroy(s)
  PROVE  PInv'
<1>1. req[s] \in Request /\ req[s].pc = "destroy" /\ \A a : ~Stored(req[s], a)
  BY DEF Destroy, IInv, TypeOK, Stored
<1>2. PICK x : req' = [req EXCEPT ![s] = x] /\ \A a \in Admin : ~Stored(x, a)
  <2>1. CASE Answer(s, "nothing")
    BY <1>1, <2>1, AnswerNotStored DEF Answer
  <2>2. CASE req' = [req EXCEPT ![s] =
               [@ EXCEPT !.pc = "respond", !.token = None, !.data = Fresh,
                         !.setCookie = {None}, !.told = "out"]]
    <3>1. PICK x : x = [req[s] EXCEPT !.pc = "respond", !.token = None,
                                      !.data = Fresh, !.setCookie = {None},
                                      !.told = "out"]
      OBVIOUS
    <3>2. x.pc = "respond" /\ x.told = "out"
      BY <1>1, <3>1 DEF Request
    <3>3. \A a \in Admin : ~Stored(x, a)
      BY <3>2 DEF Stored
    <3> QED BY <2>2, <3>1, <3>3
  <2> QED BY <2>1, <2>2 DEF Destroy
<1>3. doubtful \subseteq doubtful'
  BY MishapDoubt DEF Destroy, Fine
<1> QED BY <1>1, <1>2, <1>3, NothingStored DEF Destroy, Serving

(* If the session cannot be stored there is doubt, else the admin is told. *)
LEMMA CommitPInv ==
  ASSUME IInv, PInv, NEW s \in Slot, Commit(s)
  PROVE  PInv'
<1>1. req[s] \in Request /\ req[s].pc = "commit" /\ UNCHANGED <<hash, believed>>
  BY DEF Commit, Serving, IInv, TypeOK
<1>2. CASE Answer(s, "nothing") /\ Mishap(s)
  <2>1. PICK x : x = [req[s] EXCEPT !.pc = "respond", !.told = "nothing"]
    OBVIOUS
  <2>2. \A a : ~Stored(x, a)
    BY <1>1, <2>1, AnswerNotStored
  <2> QED BY <1>1, <1>2, <2>1, <2>2, MishapDoubt, NothingStored DEF Answer
<1>3. CASE /\ Fine
           /\ req' = [req EXCEPT ![s] =
                [@ EXCEPT !.pc = "respond", !.setCookie = {req[s].token},
                          !.told = Success(req[s].kind)]]
  <2>1. PICK x : x = [req[s] EXCEPT !.pc = "respond", !.setCookie = {req[s].token},
                                    !.told = Success(req[s].kind)]
    OBVIOUS
  <2>2. /\ x.pc = "respond" /\ x.told = Success(req[s].kind)
        /\ x.kind = req[s].kind /\ x.data = req[s].data
        /\ x.wanted = req[s].wanted
    BY <1>1, <2>1 DEF Request
  <2>3. \A a \in Admin : Stored(x, a) <=> Stored(req[s], a)
    BY <1>1, <2>2 DEF Stored, Success
  <2> QED BY <1>1, <1>3, <2>1, <2>2, <2>3, PasswordStands DEF Fine
<1> QED BY <1>2, <1>3 DEF Commit

(* The admin learns of the only change there is.                           *)
LEMMA ArrivePInv ==
  ASSUME IInv, PInv, NEW s \in Slot, Arrive(s)
  PROVE  PInv'
<1>1. /\ req[s] \in Request /\ Handled(req[s]) /\ req[s].pc = "respond"
      /\ req' = [req EXCEPT ![s] = Free] /\ UNCHANGED <<hash, doubtful>>
      /\ \A a : ~Stored(Free, a)
  BY FreeIsRequest DEF Arrive, IInv, TypeOK, Stored
<1>2. CASE req[s].told # "changed"
  <2>1. believed' = believed /\ \A a : ~Stored(req[s], a)
    BY <1>1, <1>2 DEF Arrive, Stored
  <2> QED BY <1>1, <2>1, NothingStored
<1>3. CASE req[s].told = "changed"
  <2>1. PICK o \in Admin : o = req[s].data.admin
    BY <1>1, <1>3 DEF Handled
  <2>2. /\ believed' = [believed EXCEPT ![o] = req[s].wanted]
        /\ \A a : Stored(req[s], a) <=> a = o
    BY <1>1, <1>3, <2>1 DEF Arrive, Stored, Handled
  <2>3. \A r \in Slot : req'[r] = IF r = s THEN Free ELSE req[r]
    BY <1>1 DEF IInv, TypeOK
  <2>4. \A a \in Admin : Unanswered(a)' = IF a = o THEN Unanswered(a) \ {s}
                                          ELSE Unanswered(a)
    <3>1. \A r \in Slot : \A a : Stored(req'[r], a) <=> Stored(req[r], a) /\ ~(r = s /\ a = o)
      BY <1>1, <2>2, <2>3
    <3> QED BY <3>1 DEF Unanswered, Stored
  <2>5. s \in Unanswered(o)
    BY <2>2 DEF Unanswered, Stored
  <2>6. ASSUME NEW a \in Admin, a \notin doubtful PROVE PasswordSound(a)'
    <3>1. PasswordSound(a)
      BY DEF PInv
    <3>2. CASE a = o
      <4>1. hash[o] = req[s].wanted /\ Unanswered(o) = {s}
        BY <2>5, <2>6, <3>1, <3>2 DEF PasswordSound
      <4>2. Unanswered(a)' = {} /\ hash'[a] = believed'[a]
        BY <1>1, <2>2, <2>4, <3>2, <4>1 DEF IInv, TypeOK
      <4> QED BY <4>2 DEF PasswordSound
    <3>3. CASE a # o
      <4>1. Unanswered(a)' = Unanswered(a) /\ believed'[a] = believed[a] /\ hash' = hash
            /\ s \notin Unanswered(a)
        BY <1>1, <2>2, <2>4, <3>3 DEF IInv, TypeOK, Unanswered, Stored
      <4>2. \A r \in Unanswered(a) : req'[r] = req[r]
        BY <2>3, <4>1 DEF Unanswered
      <4> QED BY <1>1, <3>1, <4>1, <4>2 DEF PasswordSound
    <3> QED BY <3>2, <3>3
  <2> QED BY <1>1, <2>6 DEF PInv, PasswordSound
<1> QED BY <1>2, <1>3

LEMMA LosePInv ==
  ASSUME IInv, PInv, NEW s \in Slot, Lose(s)
  PROVE  PInv'
<1>1. /\ req' = [req EXCEPT ![s] = Free] /\ UNCHANGED <<hash, believed>>
      /\ \A a : ~Stored(Free, a)
  BY FreeIsRequest DEF Lose, Serving, NoTable, Stored
<1>2. CASE req[s].told = "nothing" /\ Fine
  <2>1. \A a : ~Stored(req[s], a)
    BY <1>2 DEF Lose, Stored
  <2> QED BY <1>1, <1>2, <2>1, NothingStored DEF Fine
<1>3. CASE Mishap(s)
  BY <1>1, <1>3, MishapDoubt, NothingStored
<1> QED BY <1>2, <1>3 DEF Lose

LEMMA CrashPInv == IInv /\ PInv /\ Crash => PInv'
<1> SUFFICES ASSUME IInv, PInv, Crash PROVE PInv'
  OBVIOUS
<1>1. \A r \in Slot : \A a : ~Stored(req'[r], a)
  BY FreeIsRequest DEF Crash, Stored
<1>2. ASSUME NEW a \in Admin, a \notin doubtful' PROVE PasswordSound(a)'
  <2>1. Unanswered(a) = {} /\ a \notin doubtful /\ PasswordSound(a)
    BY <1>2 DEF Crash, PInv
  <2>2. Unanswered(a)' = {} /\ UNCHANGED <<hash, believed>>
    BY <1>1 DEF Unanswered, Stored, Crash, Serving, NoTable
  <2> QED BY <2>1, <2>2 DEF PasswordSound
<1> QED BY <1>2 DEF PInv, PasswordSound

LEMMA NextPInv == IInv /\ PInv /\ [Next]_vars => PInv'
<1> SUFFICES ASSUME IInv, PInv, [Next]_vars PROVE PInv'
  OBVIOUS
<1>1. ASSUME NEW s \in Slot,
             \/ Start(s) \/ Load(s) \/ Verify(s) \/ Save(s) \/ Renew(s)
             \/ Destroy(s) \/ Commit(s) \/ Arrive(s) \/ Lose(s)
      PROVE  PInv'
  BY <1>1, StartPInv, LoadPInv, VerifyPInv, SavePInv, RenewPInv, DestroyPInv,
     CommitPInv, ArrivePInv, LosePInv
<1>2. CASE Expire \/ UNCHANGED vars
  <2>1. UNCHANGED <<hash, req, believed, doubtful>>
    BY <1>2 DEF Expire, vars
  <2> QED BY <2>1 DEF PInv, PasswordSound, Unanswered
<1> QED BY <1>1, <1>2, CrashPInv DEF Next

LEMMA InitPInv == Init => PInv
<1> SUFFICES ASSUME Init, NEW a \in Admin PROVE PasswordSound(a)
  BY DEF PInv
<1>1. Unanswered(a) = {} /\ hash = believed
  BY FreeIsRequest DEF Init, Unanswered
<1> QED BY <1>1 DEF PasswordSound

(* The password in force is the one the admin was last told, for any       *)
(* number of admins and overlapping requests and any faults, unless a      *)
(* second change was stored before the first was answered, or an answer    *)
(* was lost.                                                               *)
THEOREM PasswordIsAsTold == Spec => []PasswordAsTold
<1>1. PInv => PasswordAsTold
  BY DEF PInv, PasswordSound, PasswordAsTold
<1> QED
  BY <1>1, AlwaysIInv, InitPInv, NextPInv, PTL DEF Spec

-----------------------------------------------------------------------------
(* Who a browser is signed in as.                                          *)

(* A login, logout or change of the password after its effect.             *)
Past(r) ==
  r.kind \in Opening /\ (r.pc = "commit" \/ (r.pc = "respond" /\ r.setCookie # {}))

Held(r) == ({r.token} \cup r.setCookie) \ {None}

(* Browser b knows token t, or will.                                       *)
Has(b, t) == cookie[b] = t \/ \E s \in Busy(b) : t \in Held(req[s])

(* Tokens that were made, each in the hands of one browser.                *)
OneHolder ==
  \A t \in Token, b \in Browser : Has(b, t) =>
    t \in 1..made /\ \A c \in Browser : Has(c, t) => c = b

Saying(r) ==
  /\ r.pc = "free" => r.token = None
  /\ r.pc # "respond" => r.setCookie = {}
  /\ r.pc = "destroy" => r.kind = "logout"
  /\ r.pc = "commit" => r.kind # "logout"
  /\ r.told = "in" => r.kind = "login" /\ Past(r)

(* The token of a login or a change is new: no other request has it yet,   *)
(* nor a cookie; once the session is stored, its row is there.             *)
NewToken(s) ==
  Past(req[s]) /\ req[s].kind # "logout" =>
    /\ req[s].token \in Token
    /\ \A c \in Browser : cookie[c] # req[s].token
    /\ \A r \in Slot \ {s} : req[s].token \notin Held(req[r])
    /\ req[s].pc = "respond" =>
         /\ req[s].setCookie = {req[s].token}
         /\ req[s].told = Success(req[s].kind)
         /\ store[req[s].token] # None
         /\ store[req[s].token].admin = req[s].data.admin

(* A request r of a browser b that has had no mishap.                      *)
InOrder(b, r) ==
  /\ r.pc = "load" => r.token = cookie[b]
  /\ ~Past(r) => r.token \in {cookie[b], None} /\ r.setCookie \subseteq {cookie[b]}
  /\ r.pc = "commit" /\ ~Past(r) => r.token = cookie[b] /\ store[cookie[b]] # None
  /\ r.told = "out" /\ ~Past(r) => ~Live(cookie[b])
  /\ r.kind = "change" /\ (r.pc \in {"verify", "save", "renew"} \/ Past(r)) =>
       r.data.admin = signed[b]
  /\ r.kind = "logout" /\ Past(r) => r.setCookie = {None} /\ r.told = "out"

Told(b) == SignedInAs(b) = signed[b] \/ cookie[b] \in dead

BrowserSound(b) ==
  b \notin astray =>
    /\ \A s \in Busy(b) : req[s].kind \in Opening => Busy(b) = {s}
    /\ \A s \in Busy(b) : InOrder(b, req[s])
    /\ (\A s \in Busy(b) : ~Past(req[s])) => Told(b)

SInv ==
  /\ OneHolder
  /\ \A s \in Slot : Saying(req[s]) /\ NewToken(s)
  /\ \A b \in Browser : BrowserSound(b)

LEMMA FreeSays ==
  /\ Saying(Free) /\ ~Past(Free) /\ Held(Free) = {} /\ Free.token = None
BY DEF Free, Saying, Past, Held, Opening

(* The hands tokens are in: only a new token gets into any.                *)
LEMMA HolderStep ==
  ASSUME OneHolder, made \in Nat, made' \in {made, made + 1}, NEW o \in Browser,
         \A b \in Browser, t \in Token : Has(b, t)' =>
           Has(b, t) \/ (b = o /\ t = made + 1 /\ made' = made + 1)
  PROVE  OneHolder'
<1>1. ASSUME NEW t \in Token, NEW b \in Browser, Has(b, t)'
      PROVE  t \in 1..made' /\ \A c \in Browser : Has(c, t)' => c = b
  <2>1. CASE Has(b, t)
    <3>1. t \in 1..made /\ \A c \in Browser : Has(c, t) => c = b
      BY <2>1 DEF OneHolder
    <3>2. t # made + 1 /\ t \in 1..made'
      BY <3>1
    <3> QED BY <3>1, <3>2
  <2>2. CASE ~Has(b, t)
    <3>1. b = o /\ t = made + 1 /\ made' = made + 1
      BY <1>1, <2>2
    <3>2. t \notin 1..made /\ t \in 1..made'
      BY <3>1
    <3>3. \A c \in Browser : ~Has(c, t)
      BY <3>2 DEF OneHolder
    <3> QED BY <3>1, <3>2, <3>3
  <2> QED BY <2>1, <2>2
<1> QED BY <1>1 DEF OneHolder

(* What a step of request s does to the requests of each browser.          *)
LEMMA BusyStep ==
  ASSUME IInv, NEW s \in Slot, NEW x, req' = [req EXCEPT ![s] = x]
  PROVE  /\ \A r \in Slot : req'[r] = IF r = s THEN x ELSE req[r]
         /\ \A c \in Browser :
              Busy(c)' = (Busy(c) \ {s}) \cup
                         IF x.pc # "free" /\ x.browser = c THEN {s} ELSE {}
<1>1. \A r \in Slot : req'[r] = IF r = s THEN x ELSE req[r]
  BY DEF IInv, TypeOK
<1>2. \A c \in Browser :
        Busy(c)' = (Busy(c) \ {s}) \cup
                   IF x.pc # "free" /\ x.browser = c THEN {s} ELSE {}
  BY <1>1 DEF Busy
<1> QED BY <1>1, <1>2

(* What a busy request holds its browser has.                              *)
LEMMA HoldingHas ==
  ASSUME IInv, SInv, NEW s \in Slot, NEW t \in Token, t \in Held(req[s])
  PROVE  req[s].browser \in Browser /\ Has(req[s].browser, t) /\ t \in 1..made
<1>1. req[s].pc # "free"
  BY DEF SInv, Saying, Held
<1>2. req[s].browser \in Browser /\ s \in Busy(req[s].browser)
  BY <1>1 DEF IInv, Handled, Busy
<1>3. Has(req[s].browser, t)
  BY <1>2 DEF Has
<1> QED BY <1>2, <1>3 DEF SInv, OneHolder

(* The new tokens of others stay new.                                      *)
LEMMA OthersNew ==
  ASSUME IInv, SInv, NEW s \in Slot, NEW x, req' = [req EXCEPT ![s] = x],
         Held(x) \subseteq Held(req[s]) \cup {made + 1},
         \A c \in Browser : cookie'[c] # cookie[c] => cookie'[c] \in {None} \cup Held(req[s]),
         \A t \in Token : store'[t] # store[t] => t \in Held(req[s]),
         NEW r \in Slot \ {s}
  PROVE  NewToken(r)'
<1>1. req'[r] = req[r] /\ req'[s] = x
  BY DEF IInv, TypeOK
<1>2. SUFFICES ASSUME Past(req[r]), req[r].kind # "logout" PROVE NewToken(r)'
  BY <1>1 DEF NewToken
<1>3. PICK t \in Token :
        /\ t = req[r].token
        /\ \A c \in Browser : cookie[c] # t
        /\ \A q \in Slot \ {r} : t \notin Held(req[q])
        /\ req[r].pc = "respond" =>
             /\ req[r].setCookie = {t} /\ req[r].told = Success(req[r].kind)
             /\ store[t] # None /\ store[t].admin = req[r].data.admin
  BY <1>2 DEF SInv, NewToken
<1>4. t # None /\ t \in Held(req[r])
  BY <1>3, TokenNotNone DEF Held
<1>5. t \in 1..made /\ made \in Nat
  BY <1>4, HoldingHas DEF IInv, TypeOK
<1>6. t \notin Held(req[s]) /\ t # made + 1
  BY <1>3, <1>5
<1>7. \A c \in Browser : cookie'[c] # t
  BY <1>3, <1>4, <1>6
<1>8. \A q \in Slot \ {r} : t \notin Held(req'[q])
  <2>1. \A q \in Slot \ {r} : req'[q] = IF q = s THEN x ELSE req[q]
    BY BusyStep
  <2> QED BY <1>3, <1>6, <2>1
<1>9. store'[t] = store[t]
  BY <1>6
<1> QED BY <1>1, <1>3, <1>7, <1>8, <1>9 DEF NewToken

(* Other browsers are not concerned: theirs are other tokens.              *)
LEMMA OthersSound ==
  ASSUME IInv, SInv, NEW s \in Slot, NEW x, req' = [req EXCEPT ![s] = x],
         NEW o \in Browser, req[s].pc # "free" => req[s].browser = o,
         x.pc # "free" => x.browser = o,
         UNCHANGED dead,
         \A t \in Token : store'[t] # store[t] => t \in Held(req[s]),
         NEW c \in Browser \ {o},
         cookie'[c] = cookie[c], signed'[c] = signed[c],
         c \in astray => c \in astray'
  PROVE  BrowserSound(c)'
<1>1. Busy(c)' = Busy(c) /\ \A r \in Busy(c) : req'[r] = req[r]
  <2>1. s \notin Busy(c)
    BY DEF Busy
  <2> QED BY <2>1, BusyStep DEF Busy
<1>2. cookie[c] # None => store'[cookie[c]] = store[cookie[c]]
  <2>1. SUFFICES ASSUME cookie[c] # None, store'[cookie[c]] # store[cookie[c]]
                 PROVE  FALSE
    OBVIOUS
  <2>2. PICK t \in Token : t = cookie[c]
    BY <2>1 DEF IInv, TypeOK
  <2>3. t \in Held(req[s]) /\ Has(c, t)
    BY <2>1, <2>2 DEF Has
  <2>4. Has(req[s].browser, t) /\ req[s].pc # "free"
    BY <2>3, HoldingHas DEF SInv, Saying, Held
  <2> QED BY <2>3, <2>4 DEF SInv, OneHolder
<1>3. Live(cookie[c])' <=> Live(cookie[c])
  BY <1>2 DEF Live
<1>4. SignedInAs(c)' = SignedInAs(c)
  BY <1>2, <1>3 DEF SignedInAs, Live
<1>5. Told(c)' <=> Told(c)
  BY <1>4 DEF Told
<1>6. ASSUME c \notin astray, NEW r \in Busy(c) PROVE InOrder(c, req[r])'
  <2>1. InOrder(c, req[r])
    BY <1>6 DEF SInv, BrowserSound
  <2>2. req[r].pc = "commit" /\ ~Past(req[r]) => cookie[c] # None
    <3>1. req[r].pc = "commit" => req[r].token # None
      BY DEF Busy, IInv, CopySound
    <3> QED BY <2>1, <3>1 DEF InOrder
  <2>3. req'[r] = req[r]
    BY <1>1
  <2> QED BY <1>2, <1>3, <2>1, <2>2, <2>3 DEF InOrder
<1> QED BY <1>1, <1>5, <1>6 DEF SInv, BrowserSound

(* The row of the session of browser b is as it was, or has only another   *)
(* flash message.                                                          *)
SameSession(b) ==
  cookie[b] # None =>
    /\ store[cookie[b]] = None <=> store'[cookie[b]] = None
    /\ store[cookie[b]] # None => store'[cookie[b]].admin = store[cookie[b]].admin

LEMMA SameSessionTold ==
  ASSUME NEW b \in Browser, SameSession(b), UNCHANGED dead, cookie'[b] = cookie[b]
  PROVE  /\ Live(cookie[b])' <=> Live(cookie[b])
         /\ SignedInAs(b)' = SignedInAs(b)
BY DEF SameSession, Live, SignedInAs

(* A browser's other requests that open or close nothing stay in order.    *)
LEMMA InOrderStays ==
  ASSUME IInv, NEW b \in Browser, NEW r \in Busy(b), InOrder(b, req[r]),
         req'[r] = req[r], req[r].kind \notin Opening,
         SameSession(b), UNCHANGED dead, cookie'[b] = cookie[b]
  PROVE  InOrder(b, req[r])'
<1>1. ~Past(req[r]) /\ req[r].kind \notin {"change", "logout"}
  BY DEF Past, Opening
<1>2. req[r].pc = "commit" => cookie[b] # None
  <2>1. req[r].pc = "commit" => req[r].token # None
    BY DEF IInv, CopySound, Busy
  <2> QED BY <1>1, <2>1 DEF InOrder
<1>3. Live(cookie[b])' <=> Live(cookie[b])
  BY SameSessionTold
<1>4. req[r].pc = "commit" => store'[cookie[b]] # None
  BY <1>1, <1>2 DEF InOrder, SameSession
<1> QED BY <1>1, <1>3, <1>4 DEF InOrder

(* A step of the server on request s: what is to show of it.               *)
LEMMA ServeSInv ==
  ASSUME IInv, SInv, NEW s \in Slot, NEW x, req' = [req EXCEPT ![s] = x],
         NEW b \in Browser, b = req[s].browser,
         req[s].pc # "free", x.pc # "free", x.browser = b, x.kind = req[s].kind,
         UNCHANGED <<cookie, signed, dead>>, astray \subseteq astray',
         \/ Held(x) \subseteq Held(req[s]) /\ made' = made
         \/ Held(x) \subseteq Held(req[s]) \cup {made + 1} /\ made' = made + 1,
         \A t \in Token : store'[t] # store[t] => t \in Held(req[s]),
         Saying(x), NewToken(s)',
         b \notin astray' =>
           /\ InOrder(b, x)'
           /\ x.kind \in Opening /\ ~Past(x) => Told(b)'
           /\ x.kind \notin Opening => SameSession(b)
  PROVE  SInv'
<1>1. /\ \A r \in Slot : req'[r] = IF r = s THEN x ELSE req[r]
      /\ \A c \in Browser : Busy(c)' = Busy(c)
      /\ s \in Busy(b)
  <2>1. s \in Busy(b) /\ \A c \in Browser \ {b} : s \notin Busy(c)
    BY DEF Busy
  <2>2. \A r \in Slot : req'[r] = IF r = s THEN x ELSE req[r]
    BY BusyStep
  <2>3. \A c \in Browser :
          Busy(c)' = (Busy(c) \ {s}) \cup
                     IF x.pc # "free" /\ x.browser = c THEN {s} ELSE {}
    BY BusyStep
  <2>4. ASSUME NEW c \in Browser PROVE Busy(c)' = Busy(c)
    <3>1. CASE c = b
      <4>1. Busy(c)' = (Busy(c) \ {s}) \cup {s}
        BY <2>3, <3>1
      <4> QED BY <2>1, <3>1, <4>1
    <3>2. CASE c # b
      <4>1. Busy(c)' = (Busy(c) \ {s}) \cup {}
        BY <2>3, <3>2
      <4> QED BY <2>1, <3>2, <4>1
    <3> QED BY <3>1, <3>2
  <2> QED BY <2>1, <2>2, <2>4
<1>2. OneHolder'
  <2>1. ASSUME NEW c \in Browser, NEW t \in Token, Has(c, t)'
        PROVE  Has(c, t) \/ (c = b /\ t = made + 1 /\ made' = made + 1)
    <3>1. CASE cookie[c] = t
      BY <3>1 DEF Has
    <3>2. ASSUME NEW r \in Busy(c), t \in Held(req'[r])
          PROVE  Has(c, t) \/ (c = b /\ t = made + 1 /\ made' = made + 1)
      <4>1. CASE r # s
        BY <1>1, <3>2, <4>1 DEF Has, Busy
      <4>2. CASE r = s
        <5>1. t \in Held(x) /\ c = b
          BY <1>1, <3>2, <4>2 DEF Busy
        <5>2. t \in Held(req[s]) \/ (t = made + 1 /\ made' = made + 1)
          BY <5>1
        <5> QED BY <1>1, <5>1, <5>2 DEF Has
      <4> QED BY <4>1, <4>2
    <3> QED BY <1>1, <2>1, <3>1, <3>2 DEF Has, Held
  <2> QED BY <2>1, HolderStep DEF SInv, IInv, TypeOK
<1>3. ASSUME NEW r \in Slot PROVE Saying(req[r])' /\ NewToken(r)'
  <2>1. CASE r = s
    BY <1>1, <2>1 DEF Saying, Past
  <2>2. CASE r # s
    <3>1. Saying(req[r])'
      BY <1>1, <2>2 DEF SInv, Saying, Past
    <3>2. Held(x) \subseteq Held(req[s]) \cup {made + 1}
      OBVIOUS
    <3> QED BY <2>2, <3>1, <3>2, OthersNew
  <2> QED BY <2>1, <2>2
<1>4. ASSUME NEW c \in Browser \ {b} PROVE BrowserSound(c)'
  BY OthersSound
<1>5. BrowserSound(b)'
  <2>1. SUFFICES ASSUME b \notin astray' PROVE BrowserSound(b)'
    BY DEF BrowserSound
  <2>2. /\ b \notin astray
        /\ \A r \in Busy(b) : req[r].kind \in Opening => Busy(b) = {r}
        /\ \A r \in Busy(b) : InOrder(b, req[r])
        /\ (\A r \in Busy(b) : ~Past(req[r])) => Told(b)
    BY <2>1 DEF SInv, BrowserSound
  <2>3. /\ Busy(b)' = Busy(b) /\ req'[s] = x
        /\ \A r \in Busy(b) \ {s} : req'[r] = req[r]
    BY <1>1 DEF Busy
  <2>4. \A r \in Busy(b)' : req'[r].kind \in Opening => Busy(b)' = {r}
    BY <2>2, <2>3
  <2>5. CASE x.kind \in Opening
    <3>1. Busy(b)' = {s}
      BY <1>1, <2>2, <2>3, <2>5
    <3>2. InOrder(b, req[s])' /\ (~Past(req'[s]) => Told(b)')
      BY <2>1, <2>3, <2>5 DEF InOrder
    <3> QED BY <2>3, <2>4, <3>1, <3>2 DEF BrowserSound
  <2>6. CASE x.kind \notin Opening
    <3>1. \A r \in Busy(b) : req[r].kind \notin Opening /\ ~Past(req[r])
      BY <1>1, <2>2, <2>6 DEF Past
    <3>2. SameSession(b) /\ Told(b)
      BY <2>1, <2>2, <2>6, <3>1
    <3>3. ASSUME NEW r \in Busy(b) PROVE InOrder(b, req[r])'
      <4>1. CASE r = s
        BY <2>1, <2>3, <4>1 DEF InOrder
      <4>2. CASE r # s
        BY <2>2, <2>3, <3>1, <3>2, <4>2, InOrderStays
      <4> QED BY <4>1, <4>2
    <3>4. Told(b)'
      BY <3>2, SameSessionTold DEF Told
    <3> QED BY <2>3, <2>4, <3>3, <3>4 DEF BrowserSound
  <2> QED BY <2>5, <2>6
<1> QED BY <1>2, <1>3, <1>4, <1>5 DEF SInv

(* What is known of a request under way when its browser had no mishap.    *)
LEMMA UnderWay ==
  ASSUME IInv, SInv, NEW s \in Slot, req[s].pc # "free",
         NEW b, b = req[s].browser
  PROVE  /\ b \in Browser /\ s \in Busy(b)
         /\ b \notin astray =>
              /\ InOrder(b, req[s])
              /\ req[s].kind \in Opening =>
                   Busy(b) = {s} /\ (~Past(req[s]) => Told(b))
<1>1. b \in Browser /\ s \in Busy(b)
  BY DEF IInv, Handled, Busy
<1> QED BY <1>1 DEF SInv, BrowserSound

(* An answer that leaves the browser with the session it had.              *)
LEMMA AnswerSInv ==
  ASSUME IInv, SInv, NEW s \in Slot, req[s].pc \notin {"free", "respond"},
         NEW told, told # "in", Answer(s, told),
         UNCHANGED <<cookie, signed, dead, made>>, astray \subseteq astray',
         \A t \in Token : store'[t] # store[t] => t \in Held(req[s]),
         req[s].browser \notin astray' =>
           /\ ~Past(req[s])
           /\ SameSession(req[s].browser)
           /\ told = "out" => ~Live(cookie[req[s].browser])
  PROVE  SInv'
<1>1. PICK x : x = [req[s] EXCEPT !.pc = "respond", !.told = told]
  OBVIOUS
<1>2. req' = [req EXCEPT ![s] = x]
  BY <1>1 DEF Answer
<1>3. req[s] \in Request /\ Saying(req[s])
  BY DEF IInv, TypeOK, SInv
<1>4. /\ x.pc = "respond" /\ x.told = told /\ x.kind = req[s].kind
      /\ x.browser = req[s].browser /\ x.data = req[s].data
      /\ x.token = req[s].token /\ x.setCookie = {}
  <2>1. req[s].setCookie = {}
    BY <1>3 DEF Saying
  <2> QED BY <1>1, <1>3, <2>1 DEF Request
<1>5. ~Past(x) /\ Saying(x) /\ Held(x) \subseteq Held(req[s])
  BY <1>4 DEF Past, Saying, Held
<1>6. NewToken(s)'
  <2>1. req'[s] = x
    BY <1>2 DEF IInv, TypeOK
  <2> QED BY <1>5, <2>1 DEF NewToken, Past
<1>7. PICK b \in Browser : b = req[s].browser
  BY UnderWay
<1>8. ASSUME b \notin astray'
      PROVE  InOrder(b, x)' /\ (x.kind \in Opening => Told(b)') /\ SameSession(b)
  <2>1. ~Past(req[s]) /\ SameSession(b) /\ (told = "out" => ~Live(cookie[b]))
    BY <1>7, <1>8
  <2>2. InOrder(b, req[s]) /\ (req[s].kind \in Opening => Told(b))
    BY <1>7, <1>8, <2>1, UnderWay
  <2>3. Live(cookie[b])' <=> Live(cookie[b])
    BY <2>1, SameSessionTold
  <2>4. InOrder(b, x)'
    BY <1>4, <1>5, <2>1, <2>2, <2>3 DEF InOrder
  <2>5. Told(b) => Told(b)'
    BY <2>1, SameSessionTold DEF Told
  <2> QED BY <1>4, <2>1, <2>2, <2>4, <2>5
<1> QED BY <1>2, <1>4, <1>5, <1>6, <1>7, <1>8, ServeSInv

(* A step within a request that says and stores nothing.                   *)
LEMMA InsideSInv ==
  ASSUME IInv, SInv, NEW s \in Slot, req[s].pc \notin {"free", "respond"},
         ~Past(req[s]),
         NEW x \in Request, req' = [req EXCEPT ![s] = x],
         x.pc \notin {"free", "respond"}, x.browser = req[s].browser,
         x.kind = req[s].kind, x.told = req[s].told, x.setCookie = req[s].setCookie,
         x.token \in {req[s].token, None}, ~Past(x), Saying(x),
         UNCHANGED <<cookie, signed, dead, made, astray, store>>,
         req[s].browser \notin astray => InOrder(req[s].browser, x)
  PROVE  SInv'
<1>1. Held(x) \subseteq Held(req[s])
  BY DEF Held
<1>2. NewToken(s)'
  <2>1. req'[s] = x
    BY DEF IInv, TypeOK
  <2> QED BY <2>1 DEF NewToken, Past
<1>3. PICK b \in Browser : b = req[s].browser
  BY UnderWay
<1>4. SameSession(b)
  BY DEF SameSession
<1>5. ASSUME b \notin astray'
      PROVE  InOrder(b, x)' /\ (x.kind \in Opening => Told(b)')
  <2>1. InOrder(b, x) /\ (x.kind \in Opening => Told(b))
    BY <1>3, <1>5, UnderWay
  <2> QED BY <2>1 DEF InOrder, Told, Live, SignedInAs
<1> QED BY <1>1, <1>2, <1>3, <1>4, <1>5, ServeSInv

LEMMA NotPast ==
  \A r : r.pc \notin {"commit", "respond"} => ~Past(r)
BY DEF Past

(* LoadAndSave finds the session the browser was told of, or none.         *)
LEMMA LoadSInv ==
  ASSUME IInv, SInv, NEW s \in Slot, Load(s)
  PROVE  SInv'
<1>1. /\ req[s] \in Request /\ Handled(req[s]) /\ Saying(req[s])
      /\ req[s].pc = "load" /\ ~Past(req[s])
  BY NotPast DEF Load, IInv, TypeOK, SInv
<1>2. UNCHANGED <<cookie, signed, dead, made, astray, store>>
  BY DEF Load, Serving, NoTable, Fine
<1>3. PICK b \in Browser : b = req[s].browser
  BY <1>1, UnderWay
<1>4. PICK t \in Token \cup {None} : t = req[s].token
  BY <1>1 DEF Request
<1>5. PICK data : data = IF Live(t) THEN store[t] ELSE Fresh
  OBVIOUS
<1>6. PICK token : token = IF Live(t) THEN t ELSE None
  OBVIOUS
<1>7. b \notin astray => t = cookie[b]
  BY <1>1, <1>3, <1>4, UnderWay DEF InOrder
<1>8. /\ data \in Session
      /\ Live(t) => t \in Token /\ data.admin \in Admin
      /\ ~Live(t) => data.admin = None /\ data.flash = FALSE
  <2>1. CASE Live(t)
    <3>1. t \in Token /\ store[t] # None
      BY <2>1 DEF Live
    <3> QED BY <1>5, <2>1, <3>1 DEF IInv, TypeOK, RowSound
  <2>2. CASE ~Live(t)
    BY <1>5, <2>2 DEF Fresh, Session
  <2> QED BY <2>1, <2>2
<1>9. ASSUME NEW told \in {"out", "nothing"}, Answer(s, told),
             told = "out" => data.admin = None
      PROVE  SInv'
  <2>1. SameSession(b)
    BY <1>2 DEF SameSession
  <2>2. told = "out" => ~Live(t)
    BY <1>8, <1>9, AccountAssumption
  <2> QED BY <1>1, <1>2, <1>3, <1>7, <1>9, <2>1, <2>2, AnswerSInv
<1>10. CASE Answer(s, "out") /\ ~Admitted(req[s].kind, data)
  BY <1>9, <1>10 DEF Admitted
<1>11. CASE Answer(s, "nothing")
  BY <1>9, <1>11
<1>12. CASE Enter(s, token, data) /\ Admitted(req[s].kind, data)
  <2>1. PICK pc \in {"verify", "destroy", "commit", "respond"} : \E copy \in Session :
          /\ req' = [req EXCEPT ![s] =
                       [req[s] EXCEPT !.pc = pc, !.token = token, !.data = copy]]
          /\ copy.admin = data.admin
          /\ pc = "verify" => req[s].kind \in {"login", "change"}
          /\ pc = "destroy" => req[s].kind = "logout"
          /\ pc = "commit" => req[s].kind \in {"work", "page"} /\ Live(t)
          /\ pc = "respond" => req[s].kind \in {"work", "page"}
    <3>1. [data EXCEPT !.flash = TRUE] \in Session /\ [data EXCEPT !.flash = FALSE] \in Session
      BY <1>8 DEF Session
    <3>2. /\ [data EXCEPT !.flash = TRUE].admin = data.admin
          /\ [data EXCEPT !.flash = FALSE].admin = data.admin
      BY <1>8 DEF Session
    <3>3. data.admin # None => Live(t)
      BY <1>8
    <3>4. data.flash => Live(t)
      BY <1>8
    <3> QED
      BY <1>8, <1>12, <3>1, <3>2, <3>3, <3>4 DEF Enter, Admitted
  <2>2. PICK copy \in Session :
          /\ req' = [req EXCEPT ![s] =
                       [req[s] EXCEPT !.pc = pc, !.token = token, !.data = copy]]
          /\ copy.admin = data.admin
          /\ pc = "verify" => req[s].kind \in {"login", "change"}
          /\ pc = "destroy" => req[s].kind = "logout"
          /\ pc = "commit" => req[s].kind \in {"work", "page"} /\ Live(t)
          /\ pc = "respond" => req[s].kind \in {"work", "page"}
    BY <2>1
  <2>3. PICK x : x = [req[s] EXCEPT !.pc = pc, !.token = token, !.data = copy]
    OBVIOUS
  <2>4. /\ x.pc = pc /\ x.told = "nothing" /\ x.kind = req[s].kind
        /\ x.browser = b /\ x.data = copy /\ x.token = token
        /\ x.setCookie = {}
    BY <1>1, <1>3, <2>3 DEF Request, Handled, Saying
  <2>5. ~Past(x) /\ Saying(x)
    <3>1. x.kind = "logout" => pc = "destroy"
      BY <2>2, <2>4
    <3> QED BY <2>2, <2>4, <3>1 DEF Past, Saying, Opening
  <2>6. Held(x) \subseteq Held(req[s])
    BY <1>1, <1>4, <1>6, <2>4 DEF Held, Saying
  <2>7. ASSUME b \notin astray PROVE InOrder(b, x)
    <3>1. t = cookie[b] /\ (req[s].kind \in Opening => Told(b))
      BY <1>1, <1>3, <1>7, <2>7, UnderWay
    <3>2. x.token \in {cookie[b], None} /\ x.setCookie \subseteq {cookie[b]}
      BY <1>6, <2>4, <3>1
    <3>3. x.pc = "commit" => x.token = cookie[b] /\ store[cookie[b]] # None
      BY <1>6, <2>2, <2>4, <3>1 DEF Live
    <3>4. ASSUME x.kind = "change", x.pc \in {"verify", "save", "renew"}
          PROVE  x.data.admin = signed[b]
      <4>1. Live(cookie[b])
        BY <1>8, <1>12, <2>4, <3>1, <3>4 DEF Admitted
      <4>2. SignedInAs(b) = signed[b]
        BY <2>4, <3>1, <3>4, <4>1 DEF Told, Live, Opening
      <4> QED BY <1>5, <2>2, <2>4, <3>1, <4>1, <4>2 DEF SignedInAs
    <3> QED BY <2>2, <2>4, <2>5, <3>2, <3>3, <3>4 DEF InOrder
  <2>8. NewToken(s)'
    <3>1. req'[s] = x
      BY <2>2, <2>3 DEF IInv, TypeOK
    <3> QED BY <2>5, <3>1 DEF NewToken, Past
  <2>9. SameSession(b)
    BY <1>2 DEF SameSession
  <2>10. b \notin astray' =>
           InOrder(b, x)' /\ (x.kind \in Opening => Told(b)')
    <3>1. b \notin astray => InOrder(b, x) /\ (x.kind \in Opening => Told(b))
      BY <1>1, <1>3, <2>4, <2>7, UnderWay
    <3> QED BY <1>2, <3>1 DEF InOrder, Told, Live, SignedInAs
  <2>11. x.pc # "free"
    BY <2>4
  <2> QED BY <1>1, <1>2, <1>3, <2>2, <2>3, <2>4, <2>5, <2>6, <2>8, <2>9, <2>10,
             <2>11, ServeSInv
<1> QED BY <1>4, <1>5, <1>6, <1>10, <1>11, <1>12 DEF Load

LEMMA VerifySInv ==
  ASSUME IInv, SInv, NEW s \in Slot, Verify(s)
  PROVE  SInv'
<1>1. /\ req[s] \in Request /\ Saying(req[s])
      /\ req[s].pc = "verify" /\ ~Past(req[s])
  BY NotPast DEF Verify, IInv, TypeOK, SInv
<1>2. UNCHANGED <<cookie, signed, dead, made, astray, store>>
  BY DEF Verify, Serving, NoTable, Fine
<1>3. CASE Answer(s, "nothing")
  <2>1. SameSession(req[s].browser)
    BY <1>2 DEF SameSession
  <2> QED BY <1>1, <1>2, <1>3, <2>1, AnswerSInv
<1>4. CASE Goto(s, IF req[s].kind = "login" THEN "renew" ELSE "save")
  <2>1. PICK pc \in {"save", "renew"} :
          pc = IF req[s].kind = "login" THEN "renew" ELSE "save"
    OBVIOUS
  <2>2. PICK x : x = [req[s] EXCEPT !.pc = pc]
    OBVIOUS
  <2>3. /\ x \in Request /\ x.pc = pc /\ x.told = req[s].told /\ x.kind = req[s].kind
        /\ x.browser = req[s].browser /\ x.data = req[s].data
        /\ x.token = req[s].token /\ x.setCookie = req[s].setCookie
    BY <1>1, <2>2 DEF Request, Steps
  <2>4. ~Past(x) /\ Saying(x)
    BY <1>1, <2>3 DEF Past, Saying
  <2>5. ASSUME req[s].browser \notin astray PROVE InOrder(req[s].browser, x)
    <3>1. InOrder(req[s].browser, req[s])
      BY <1>1, <2>5, UnderWay
    <3>2. req[s].told # "out"
      BY <1>1 DEF IInv, Handled
    <3> QED BY <1>1, <2>3, <2>4, <3>1, <3>2 DEF InOrder
  <2>6. req' = [req EXCEPT ![s] = x]
    BY <1>4, <2>1, <2>2 DEF Goto
  <2>7. x.pc \notin {"free", "respond"} /\ x.token \in {req[s].token, None}
    BY <2>3
  <2> QED BY <1>1, <1>2, <2>3, <2>4, <2>5, <2>6, <2>7, InsideSInv
<1> QED BY <1>3, <1>4 DEF Verify

LEMMA SaveSInv ==
  ASSUME IInv, SInv, NEW s \in Slot, Save(s)
  PROVE  SInv'
<1>1. /\ req[s] \in Request /\ Saying(req[s])
      /\ req[s].pc = "save" /\ ~Past(req[s])
  BY NotPast DEF Save, IInv, TypeOK, SInv
<1>2. UNCHANGED <<cookie, signed, dead, made, store>>
  BY DEF Save, Serving
<1>3. CASE Answer(s, "nothing")
  <2>1. SameSession(req[s].browser)
    BY <1>2 DEF SameSession
  <2>2. astray \subseteq astray'
    BY DEF Save, Mishap, Fine
  <2> QED BY <1>1, <1>2, <1>3, <2>1, <2>2, AnswerSInv
<1>4. CASE Goto(s, "renew") /\ UNCHANGED astray
  <2>1. PICK x : x = [req[s] EXCEPT !.pc = "renew"]
    OBVIOUS
  <2>2. /\ x \in Request /\ x.pc = "renew" /\ x.told = req[s].told
        /\ x.kind = req[s].kind
        /\ x.browser = req[s].browser /\ x.data = req[s].data
        /\ x.token = req[s].token /\ x.setCookie = req[s].setCookie
    BY <1>1, <2>1 DEF Request, Steps
  <2>3. ~Past(x) /\ Saying(x)
    BY <1>1, <2>2 DEF Past, Saying
  <2>4. ASSUME req[s].browser \notin astray PROVE InOrder(req[s].browser, x)
    <3>1. InOrder(req[s].browser, req[s])
      BY <1>1, <2>4, UnderWay
    <3>2. req[s].told # "out"
      BY <1>1 DEF IInv, Handled
    <3> QED BY <1>1, <2>2, <2>3, <3>1, <3>2 DEF InOrder
  <2>5. req' = [req EXCEPT ![s] = x]
    BY <1>4, <2>1 DEF Goto
  <2>6. x.pc \notin {"free", "respond"} /\ x.token \in {req[s].token, None}
    BY <2>2
  <2> QED BY <1>1, <1>2, <1>4, <2>2, <2>3, <2>4, <2>5, <2>6, InsideSInv
<1> QED BY <1>3, <1>4 DEF Save

LEMMA DeleteRow ==
  ASSUME IInv, NEW s \in Slot, Delete(s, req[s].token)
  PROVE  \A t \in Token : store'[t] # store[t] => t \in Held(req[s])
<1>1. CASE req[s].token = None
  BY <1>1 DEF Delete
<1>2. CASE req[s].token # None
  <2>1. store' = [store EXCEPT ![req[s].token] = None]
    BY <1>2 DEF Delete
  <2> QED BY <1>2, <2>1 DEF IInv, TypeOK, Held
<1> QED BY <1>1, <1>2

(* The new token is nobody's yet; an error leaves the session, or is a     *)
(* mishap.                                                                 *)
LEMMA RenewSInv ==
  ASSUME IInv, SInv, NEW s \in Slot, Renew(s)
  PROVE  SInv'
<1>1. /\ req[s] \in Request /\ Saying(req[s]) /\ Handled(req[s])
      /\ req[s].pc = "renew" /\ ~Past(req[s])
      /\ req[s].kind \in {"login", "change"}
  BY NotPast DEF Renew, IInv, TypeOK, SInv, Handled
<1>2. UNCHANGED <<cookie, signed, dead>>
  BY DEF Renew, Serving
<1>3. PICK b \in Browser : b = req[s].browser
  BY <1>1, UnderWay
<1>4. PICK told : told = IF req[s].kind = "change" THEN "changed" ELSE "nothing"
  OBVIOUS
<1>5. CASE Answer(s, told) /\ UNCHANGED <<store, made, astray>>
  <2>1. SameSession(req[s].browser)
    BY <1>5 DEF SameSession
  <2> QED BY <1>1, <1>2, <1>4, <1>5, <2>1, AnswerSInv
<1>6. CASE /\ Answer(s, told) /\ Delete(s, req[s].token)
           /\ astray' = astray \cup {b} /\ UNCHANGED made
  BY <1>1, <1>2, <1>3, <1>4, <1>6, DeleteRow, AnswerSInv
<1>7. CASE /\ made < MaxTokens /\ made' = made + 1 /\ Delete(s, req[s].token)
           /\ Renewed(s, made + 1) /\ UNCHANGED astray
  <2>1. PICK u \in Token : u = made + 1 /\ u \notin 1..made /\ u # None
    BY <1>7, AccountAssumption, TokenNotNone DEF IInv, TypeOK, Token
  <2>2. PICK copy :
          /\ req' = [req EXCEPT ![s] =
                       [req[s] EXCEPT !.pc = "commit", !.token = u, !.data = copy]]
          /\ req[s].kind = "change" => copy.admin = req[s].data.admin
    <3>1. req[s].data \in Session
      BY <1>1 DEF Request
    <3>2. [req[s].data EXCEPT !.flash = TRUE].admin = req[s].data.admin
      BY <3>1 DEF Session
    <3> QED BY <1>7, <2>1, <3>2 DEF Renewed
  <2>3. PICK x : x = [req[s] EXCEPT !.pc = "commit", !.token = u, !.data = copy]
    OBVIOUS
  <2>4. /\ x.pc = "commit" /\ x.told = "nothing" /\ x.kind = req[s].kind
        /\ x.browser = b /\ x.data = copy /\ x.token = u
        /\ x.setCookie = {}
    BY <1>1, <1>3, <2>3 DEF Request, Handled, Saying
  <2>5. Past(x) /\ Saying(x) /\ Held(x) = {u} /\ x.pc # "free"
    BY <1>1, <2>1, <2>4 DEF Past, Saying, Opening, Held
  <2>6. \A r \in Slot : u \notin Held(req[r])
    BY <2>1, HoldingHas
  <2>7. \A c \in Browser : cookie[c] # u
    BY <2>1 DEF SInv, OneHolder, Has
  <2>8. req' = [req EXCEPT ![s] = x]
    BY <2>2, <2>3
  <2>9. NewToken(s)'
    <3>1. req'[s] = x /\ \A r \in Slot \ {s} : req'[r] = req[r]
      BY <2>8 DEF IInv, TypeOK
    <3> QED BY <1>2, <2>4, <2>6, <2>7, <3>1 DEF NewToken
  <2>10. b \notin astray' => InOrder(b, x)'
    <3>1. SUFFICES ASSUME b \notin astray PROVE InOrder(b, x)'
      BY <1>7
    <3>2. InOrder(b, req[s])
      BY <1>1, <1>3, <3>1, UnderWay
    <3>3. x.kind = "change" => x.data.admin = signed[b]
      BY <1>1, <2>2, <2>4, <3>2 DEF InOrder
    <3> QED BY <1>1, <1>2, <2>4, <2>5, <3>3 DEF InOrder
  <2>11. \A t \in Token : store'[t] # store[t] => t \in Held(req[s])
    BY <1>7, DeleteRow
  <2>12. x.kind \in Opening
    BY <1>1, <2>4 DEF Opening
  <2> QED BY <1>1, <1>2, <1>3, <1>7, <2>1, <2>4, <2>5, <2>8, <2>9, <2>10, <2>11,
             <2>12, ServeSInv
<1> QED BY <1>3, <1>4, <1>5, <1>6, <1>7 DEF Renew, Fine

LEMMA DestroySInv ==
  ASSUME IInv, SInv, NEW s \in Slot, Destroy(s)
  PROVE  SInv'
<1>1. /\ req[s] \in Request /\ Saying(req[s]) /\ Handled(req[s])
      /\ req[s].pc = "destroy" /\ ~Past(req[s]) /\ req[s].kind = "logout"
  BY NotPast DEF Destroy, IInv, TypeOK, SInv, Saying
<1>2. UNCHANGED <<cookie, signed, dead, made>>
  BY DEF Destroy, Serving
<1>3. PICK b \in Browser : b = req[s].browser
  BY <1>1, UnderWay
<1>4. CASE Answer(s, "nothing") /\ UNCHANGED <<store, astray>>
  <2>1. SameSession(req[s].browser)
    BY <1>4 DEF SameSession
  <2> QED BY <1>1, <1>2, <1>4, <2>1, AnswerSInv
<1>5. CASE Answer(s, "nothing") /\ Delete(s, req[s].token) /\ Mishap(s)
  <2>1. astray' = astray \cup {b}
    BY <1>1, <1>3, <1>5 DEF Mishap, Opening
  <2> QED BY <1>1, <1>2, <1>3, <1>5, <2>1, DeleteRow, AnswerSInv
<1>6. CASE /\ Delete(s, req[s].token) /\ UNCHANGED astray
           /\ req' = [req EXCEPT ![s] =
                [@ EXCEPT !.pc = "respond", !.token = None, !.data = Fresh,
                          !.setCookie = {None}, !.told = "out"]]
  <2>1. PICK x : x = [req[s] EXCEPT !.pc = "respond", !.token = None,
                                    !.data = Fresh, !.setCookie = {None},
                                    !.told = "out"]
    OBVIOUS
  <2>2. /\ x.pc = "respond" /\ x.told = "out" /\ x.kind = "logout"
        /\ x.browser = b /\ x.token = None /\ x.setCookie = {None}
    BY <1>1, <1>3, <2>1 DEF Request
  <2>3. Past(x) /\ Saying(x) /\ Held(x) = {} /\ x.pc # "free"
    BY <2>2 DEF Past, Saying, Opening, Held
  <2>4. req' = [req EXCEPT ![s] = x]
    BY <1>6, <2>1
  <2>5. NewToken(s)'
    <3>1. req'[s] = x
      BY <2>4 DEF IInv, TypeOK
    <3> QED BY <2>2, <3>1 DEF NewToken
  <2>6. InOrder(b, x)'
    BY <2>2, <2>3 DEF InOrder
  <2>7. x.kind \in Opening
    BY <2>2 DEF Opening
  <2> QED BY <1>1, <1>2, <1>3, <1>6, <2>2, <2>3, <2>4, <2>5, <2>6, <2>7,
             DeleteRow, ServeSInv
<1> QED BY <1>4, <1>5, <1>6 DEF Destroy, Fine

(* A page writes the session it read, another flash message in it; a login *)
(* or a change one that nobody else knows.                                 *)
LEMMA CommitSInv ==
  ASSUME IInv, SInv, NEW s \in Slot, Commit(s)
  PROVE  SInv'
<1>1. /\ req[s] \in Request /\ Saying(req[s]) /\ Handled(req[s])
      /\ req[s].pc = "commit"
      /\ req[s].data \in Session /\ req[s].data # None /\ req[s].kind # "logout"
      /\ req[s].data.admin = opener[req[s].token]
  BY AccountAssumption
     DEF Commit, IInv, TypeOK, SInv, Saying, Request, CopySound, Holding
<1>2. UNCHANGED <<cookie, signed, dead, made>>
  BY DEF Commit, Serving
<1>3. PICK b \in Browser : b = req[s].browser
  BY <1>1, UnderWay
<1>4. PICK t \in Token : t = req[s].token /\ t # None
  BY <1>1, AccountAssumption, TokenNotNone
     DEF IInv, TypeOK, CopySound, Holding, Token
<1>5. UNCHANGED store \/ store' = [store EXCEPT ![t] = req[s].data]
  BY <1>4 DEF Commit
<1>6. \A u \in Token : store'[u] # store[u] => u \in Held(req[s])
  BY <1>4, <1>5 DEF IInv, TypeOK, Held
<1>7. ASSUME b \notin astray, ~Past(req[s])
      PROVE  SameSession(b) /\ t = cookie[b]
  <2>1. t = cookie[b] /\ store[t] # None
    BY <1>1, <1>3, <1>4, <1>7, UnderWay DEF InOrder
  <2>2. store[t].admin = req[s].data.admin
    BY <1>1, <1>4, <2>1 DEF IInv, RowSound
  <2>3. store'[t] \in {store[t], req[s].data}
    BY <1>4, <1>5 DEF IInv, TypeOK
  <2> QED BY <1>1, <2>1, <2>2, <2>3 DEF SameSession
<1>8. astray \subseteq astray'
  BY DEF Commit, Mishap, Fine
<1>9. CASE Answer(s, "nothing") /\ Mishap(s)
  <2>1. b \notin astray' => ~Past(req[s])
    BY <1>3, <1>9 DEF Mishap, Past
  <2> QED BY <1>1, <1>2, <1>3, <1>6, <1>7, <1>8, <1>9, <2>1, AnswerSInv
<1>10. CASE /\ store' = [store EXCEPT ![t] = req[s].data] /\ UNCHANGED astray
            /\ req' = [req EXCEPT ![s] =
                 [req[s] EXCEPT !.pc = "respond", !.setCookie = {t},
                                !.told = Success(req[s].kind)]]
  <2>1. PICK x : x = [req[s] EXCEPT !.pc = "respond", !.setCookie = {t},
                                    !.told = Success(req[s].kind)]
    OBVIOUS
  <2>2. /\ x.pc = "respond" /\ x.told = Success(req[s].kind)
        /\ x.kind = req[s].kind /\ x.data = req[s].data
        /\ x.browser = b /\ x.token = t /\ x.setCookie = {t}
    BY <1>1, <1>3, <1>4, <2>1 DEF Request
  <2>3. /\ Past(x) <=> Past(req[s])
        /\ Saying(x) /\ Held(x) = Held(req[s]) /\ x.pc # "free" /\ x.told # "out"
    BY <1>1, <1>4, <2>2 DEF Past, Saying, Opening, Held, Success
  <2>4. req' = [req EXCEPT ![s] = x]
    BY <1>10, <2>1
  <2>5. NewToken(s)'
    <3>1. req'[s] = x /\ \A r \in Slot \ {s} : req'[r] = req[r]
      BY <2>4 DEF IInv, TypeOK
    <3>2. store'[t] = req[s].data
      BY <1>10 DEF IInv, TypeOK
    <3>3. NewToken(s)
      BY DEF SInv
    <3> QED BY <1>1, <1>2, <1>4, <2>2, <2>3, <3>1, <3>2, <3>3 DEF NewToken
  <2>6. ASSUME b \notin astray PROVE InOrder(b, x)'
    <3>1. InOrder(b, req[s])
      BY <1>1, <1>3, <2>6, UnderWay
    <3>2. ~Past(x) => x.token = cookie[b] /\ x.setCookie = {cookie[b]}
      BY <1>7, <2>2, <2>3, <2>6
    <3> QED BY <1>1, <1>2, <2>2, <2>3, <3>1, <3>2 DEF InOrder
  <2>7. x.kind \in Opening => Past(x)
    BY <2>2 DEF Past
  <2>8. b \notin astray /\ x.kind \notin Opening => SameSession(b)
    BY <1>7, <2>3 DEF Past
  <2> QED BY <1>1, <1>2, <1>3, <1>6, <1>10, <2>2, <2>3, <2>4, <2>5, <2>6, <2>7,
             <2>8, ServeSInv
<1> QED BY <1>4, <1>9, <1>10 DEF Commit, Fine

(* A request gets the cookie its browser has, and is alone if it or one    *)
(* under way opens or closes a session.                                    *)
LEMMA StartSInv ==
  ASSUME IInv, SInv, NEW s \in Slot, Start(s)
  PROVE  SInv'
<1>1. PICK b \in Browser, k \in Kind, a \in Admin \cup {None},
           p \in Password \cup {None}, q \in Password \cup {None} :
        /\ a # None <=> k = "login"
        /\ p # None <=> k \in {"login", "change"}
        /\ q # None <=> k = "change"
        /\ req' = [req EXCEPT ![s] =
             [Free EXCEPT !.pc = "load", !.browser = b, !.kind = k, !.admin = a,
                          !.given = p, !.wanted = q, !.token = cookie[b]]]
        /\ astray' = IF \E r \in Busy(b) : {k, req[r].kind} \cap Opening # {}
                     THEN astray \cup {b} ELSE astray
  BY DEF Start
<1>2. PICK x : x = [Free EXCEPT !.pc = "load", !.browser = b, !.kind = k, !.admin = a,
                                !.given = p, !.wanted = q, !.token = cookie[b]]
  OBVIOUS
<1>3. /\ x.pc = "load" /\ x.browser = b /\ x.kind = k /\ x.told = "nothing"
      /\ x.token = cookie[b] /\ x.setCookie = {}
  BY <1>2, FreeIsRequest DEF Request, Free
<1>4. /\ req' = [req EXCEPT ![s] = x] /\ req[s].pc = "free"
      /\ UNCHANGED <<cookie, signed, dead, made, store>>
  BY <1>1, <1>2 DEF Start, tables
<1>5. Saying(x) /\ ~Past(x) /\ Held(x) = {cookie[b]} \ {None}
  BY <1>3 DEF Saying, Past, Held
<1>6. \A r \in Slot : req'[r] = IF r = s THEN x ELSE req[r]
  BY <1>4 DEF IInv, TypeOK
<1>7. Busy(b)' = Busy(b) \cup {s} /\ s \notin Busy(b)
  BY <1>3, <1>4, <1>6 DEF Busy
<1>8. OneHolder'
  <2>1. ASSUME NEW c \in Browser, NEW t \in Token, Has(c, t)' PROVE Has(c, t)
    <3>1. CASE cookie[c] = t
      BY <3>1 DEF Has
    <3>2. ASSUME NEW r \in Busy(c)', t \in Held(req'[r]) PROVE Has(c, t)
      <4>1. CASE r = s
        BY <1>3, <1>5, <1>6, <3>2, <4>1 DEF Has, Busy
      <4>2. CASE r # s
        BY <1>6, <3>2, <4>2 DEF Has, Busy
      <4> QED BY <4>1, <4>2
    <3> QED BY <1>4, <2>1, <3>1, <3>2 DEF Has, Held
  <2> QED BY <1>4, <2>1, HolderStep DEF SInv, IInv, TypeOK
<1>9. ASSUME NEW r \in Slot PROVE Saying(req[r])' /\ NewToken(r)'
  <2>1. CASE r = s
    BY <1>5, <1>6, <2>1 DEF Saying, Past, NewToken
  <2>2. CASE r # s
    <3>1. NewToken(r) /\ Saying(req[r]) /\ req'[r] = req[r]
      BY <1>6, <2>2 DEF SInv
    <3>2. Past(req[r]) /\ req[r].kind # "logout" => req[r].token \notin Held(x)
      BY <1>5, <3>1 DEF NewToken
    <3> QED BY <1>4, <1>6, <3>1, <3>2 DEF NewToken, Saying, Past
  <2> QED BY <2>1, <2>2
<1>10. ASSUME NEW c \in Browser \ {b} PROVE BrowserSound(c)'
  <2>1. c \in astray => c \in astray'
    BY <1>1
  <2> QED BY <1>3, <1>4, <2>1, OthersSound
<1>11. BrowserSound(b)'
  <2>1. SUFFICES ASSUME b \notin astray' PROVE BrowserSound(b)'
    BY DEF BrowserSound
  <2>2. /\ b \notin astray
        /\ \A r \in Busy(b) : k \notin Opening /\ req[r].kind \notin Opening
    BY <1>1, <2>1
  <2>3. \A r \in Busy(b) : InOrder(b, req[r]) /\ req'[r] = req[r]
    BY <1>6, <1>7, <2>2 DEF SInv, BrowserSound, Busy
  <2>4. \A r \in Busy(b) : ~Past(req[r])
    BY <2>2 DEF Past
  <2>5. Told(b)'
    BY <1>4, <2>2, <2>4 DEF SInv, BrowserSound, Told, SignedInAs, Live
  <2>6. InOrder(b, x)'
    BY <1>3, <1>4, <1>5 DEF InOrder
  <2>7. \A r \in Busy(b)' : InOrder(b, req[r])'
    BY <1>4, <1>6, <1>7, <2>3, <2>6 DEF InOrder, Live, Past
  <2>8. \A r \in Busy(b)' : req'[r].kind \in Opening => Busy(b)' = {r}
    BY <1>3, <1>6, <1>7, <2>2, <2>3
  <2> QED BY <2>5, <2>7, <2>8 DEF BrowserSound
<1> QED BY <1>8, <1>9, <1>10, <1>11 DEF SInv

(* A request is over: what is to show of its browser.                      *)
LEMMA OverSInv ==
  ASSUME IInv, SInv, NEW s \in Slot, req[s].pc = "respond",
         NEW b \in Browser, b = req[s].browser,
         req' = [req EXCEPT ![s] = Free],
         UNCHANGED <<store, dead, made>>,
         \A c \in Browser \ {b} :
           /\ cookie'[c] = cookie[c] /\ signed'[c] = signed[c]
           /\ c \in astray => c \in astray',
         cookie'[b] \in {cookie[b], None} \cup req[s].setCookie,
         cookie' \in [Browser -> Token \cup {None}],
         b \notin astray' =>
           /\ Told(b)'
           /\ b \notin astray \/ Busy(b) = {s}
           /\ req[s].kind \notin Opening => cookie'[b] = cookie[b] \/ Busy(b) = {s}
  PROVE  SInv'
<1>1. \A r \in Slot : req'[r] = IF r = s THEN Free ELSE req[r]
  BY DEF IInv, TypeOK
<1>2. Busy(b)' = Busy(b) \ {s} /\ s \in Busy(b)
  BY <1>1, FreeIsRequest DEF Busy
<1>3. OneHolder'
  <2>1. ASSUME NEW c \in Browser, NEW t \in Token, Has(c, t)' PROVE Has(c, t)
    <3>1. CASE cookie'[c] = t
      <4>1. CASE c = b
        BY <1>2, <3>1, <4>1, TokenNotNone DEF Has, Held
      <4>2. CASE c # b
        BY <3>1, <4>2 DEF Has
      <4> QED BY <4>1, <4>2
    <3>2. ASSUME NEW r \in Busy(c)', t \in Held(req'[r]) PROVE Has(c, t)
      BY <1>1, <3>2, FreeSays DEF Has, Busy
    <3> QED BY <2>1, <3>1, <3>2 DEF Has, Held
  <2> QED BY <2>1, HolderStep DEF SInv, IInv, TypeOK
<1>4. ASSUME NEW r \in Slot PROVE Saying(req[r])' /\ NewToken(r)'
  <2>1. CASE r = s
    BY <1>1, <2>1, FreeSays DEF Saying, Past, NewToken
  <2>2. CASE r # s
    <3>1. Saying(req[r])'
      BY <1>1, <2>2 DEF SInv, Saying, Past
    <3>2. SUFFICES ASSUME Past(req[r]), req[r].kind # "logout" PROVE NewToken(r)'
      BY <1>1, <2>2, <3>1 DEF NewToken, Past
    <3>3. NewToken(r) /\ req'[r] = req[r]
      BY <1>1, <2>2 DEF SInv
    <3>4. \A c \in Browser : cookie'[c] # req[r].token
      <4>1. req[r].token \notin Held(req[s]) /\ req[r].token # None
        BY <2>2, <3>2, <3>3, TokenNotNone DEF NewToken
      <4>2. cookie'[b] \in {cookie[b], None} \cup Held(req[s])
        BY DEF Held
      <4> QED BY <3>2, <3>3, <4>1, <4>2 DEF NewToken
    <3>5. \A q \in Slot \ {r} : req[r].token \notin Held(req'[q])
      BY <1>1, <3>2, <3>3, FreeSays DEF NewToken
    <3> QED BY <3>1, <3>2, <3>3, <3>4, <3>5 DEF NewToken
  <2> QED BY <2>1, <2>2
<1>5. ASSUME NEW c \in Browser \ {b} PROVE BrowserSound(c)'
  BY FreeIsRequest, OthersSound
<1>6. BrowserSound(b)'
  <2>1. SUFFICES ASSUME b \notin astray' PROVE BrowserSound(b)'
    BY DEF BrowserSound
  <2>2. CASE Busy(b) = {s}
    BY <1>2, <2>1, <2>2 DEF BrowserSound
  <2>3. CASE Busy(b) # {s}
    <3>1. /\ b \notin astray
          /\ \A r \in Busy(b) : req[r].kind \notin Opening /\ InOrder(b, req[r])
      <4>1. b \notin astray
        BY <2>1, <2>3
      <4>2. \A r \in Busy(b) : req[r].kind \notin Opening
        <5>1. SUFFICES ASSUME NEW r \in Busy(b), req[r].kind \in Opening PROVE FALSE
          OBVIOUS
        <5>2. Busy(b) = {r}
          BY <4>1, <5>1 DEF SInv, BrowserSound
        <5> QED BY <1>2, <2>3, <5>2
      <4> QED BY <4>1, <4>2 DEF SInv, BrowserSound
    <3>2. cookie'[b] = cookie[b] /\ SameSession(b)
      BY <1>2, <2>1, <2>3, <3>1 DEF SameSession
    <3>3. \A r \in Busy(b) \ {s} : req'[r] = req[r]
      BY <1>1 DEF Busy
    <3>4. ASSUME NEW r \in Busy(b)' PROVE InOrder(b, req[r])' /\ req'[r].kind \notin Opening
      <4>1. r \in Busy(b) /\ r # s /\ req'[r] = req[r]
        BY <1>2, <3>3
      <4> QED BY <3>1, <3>2, <4>1, InOrderStays
    <3> QED BY <2>1, <3>4 DEF BrowserSound
  <2> QED BY <2>2, <2>3
<1> QED BY <1>3, <1>4, <1>5, <1>6 DEF SInv

(* What the answer to a login, a logout or a change says after its effect. *)
LEMMA PastAnswer ==
  ASSUME IInv, SInv, NEW s \in Slot, req[s].pc = "respond", Past(req[s])
  PROVE  /\ req[s].kind = "login" => req[s].told = "in"
         /\ req[s].kind = "change" => req[s].told = "changed"
         /\ req[s].kind # "logout" =>
              \E t \in Token :
                /\ req[s].setCookie = {t} /\ t # None /\ store[t] # None
                /\ store[t].admin = req[s].data.admin
<1>1. CASE req[s].kind = "logout"
  BY <1>1
<1>2. CASE req[s].kind # "logout"
  <2>1. PICK t \in Token :
          /\ t = req[s].token /\ req[s].setCookie = {t}
          /\ req[s].told = Success(req[s].kind)
          /\ store[t] # None /\ store[t].admin = req[s].data.admin
    BY <1>2 DEF SInv, NewToken
  <2> QED BY <1>2, <2>1, TokenNotNone DEF Success
<1> QED BY <1>1, <1>2

(* The browser learns what it is; for one with no mishap that is so.       *)
LEMMA ArriveSInv ==
  ASSUME IInv, SInv, NEW s \in Slot, Arrive(s)
  PROVE  SInv'
<1>1. PICK r : r = req[s]
  OBVIOUS
<1>2. /\ r \in Request /\ Handled(r) /\ Saying(r) /\ r.pc = "respond"
      /\ req' = [req EXCEPT ![s] = Free] /\ UNCHANGED <<store, dead, made>>
  BY <1>1 DEF Arrive, IInv, TypeOK, SInv
<1>3. PICK b \in Browser : b = r.browser /\ s \in Busy(b)
  BY <1>1, <1>2, UnderWay
<1>4. PICK k : k = IF r.setCookie = {} THEN cookie[b]
                   ELSE CHOOSE c \in r.setCookie : TRUE
  OBVIOUS
<1>5. k \in {cookie[b]} \cup r.setCookie /\ (r.setCookie # {} => k \in r.setCookie)
  BY <1>4
<1>6. /\ cookie' = [cookie EXCEPT ![b] = k] /\ cookie'[b] = k
      /\ cookie' \in [Browser -> Token \cup {None}]
  <2>1. cookie \in [Browser -> Token \cup {None}] /\ r.setCookie \subseteq Token \cup {None}
    BY <1>2 DEF IInv, TypeOK, Request
  <2>2. cookie' = [cookie EXCEPT ![b] = k]
    BY <1>1, <1>3, <1>4, <2>1 DEF Arrive
  <2> QED BY <1>5, <2>1, <2>2
<1>7. /\ signed' = CASE r.told = "in"  -> [signed EXCEPT ![b] = r.data.admin]
                     [] r.told = "out" -> [signed EXCEPT ![b] = None]
                     [] OTHER -> signed
      /\ astray' = IF r.told = "in" /\ Busy(b) = {s} THEN astray \ {b} ELSE astray
  BY <1>1, <1>3 DEF Arrive
<1>8. /\ r.told = "in" => signed'[b] = r.data.admin
      /\ r.told = "out" => signed'[b] = None
      /\ r.told \notin {"in", "out"} => signed'[b] = signed[b]
      /\ \A c \in Browser \ {b} : signed'[c] = signed[c]
  BY <1>7 DEF IInv, TypeOK
<1>9. ASSUME r.told = "in" PROVE Told(b)'
  <2>1. Past(r) /\ r.kind = "login"
    BY <1>2, <1>9 DEF Saying
  <2>2. k # None /\ store[k] # None /\ store[k].admin = r.data.admin
    BY <1>1, <1>2, <1>5, <2>1, PastAnswer DEF Past
  <2> QED BY <1>2, <1>6, <1>8, <1>9, <2>2 DEF Told, SignedInAs, Live
<1>10. ASSUME b \notin astray, Past(r), r.told # "in" PROVE Told(b)'
  <2>1. InOrder(b, r)
    BY <1>1, <1>2, <1>3, <1>10, UnderWay
  <2>2. CASE r.kind = "logout"
    <3>1. k = None /\ r.told = "out"
      BY <1>5, <1>10, <2>1, <2>2 DEF InOrder
    <3> QED BY <1>6, <1>8, <3>1 DEF Told, SignedInAs, Live
  <2>3. CASE r.kind # "logout"
    <3>1. r.kind = "change" /\ r.told = "changed"
      BY <1>1, <1>2, <1>10, <2>3, PastAnswer DEF Past, Opening
    <3>2. k # None /\ store[k] # None /\ store[k].admin = r.data.admin
      BY <1>1, <1>2, <1>5, <1>10, <2>3, PastAnswer DEF Past
    <3>3. signed'[b] = r.data.admin
      BY <1>8, <1>10, <2>1, <3>1 DEF InOrder
    <3> QED BY <1>2, <1>6, <3>2, <3>3 DEF Told, SignedInAs, Live
  <2> QED BY <2>2, <2>3
<1>11. ASSUME b \notin astray, ~Past(r) PROVE Told(b)' /\ cookie'[b] = cookie[b]
  <2>1. InOrder(b, r)
    BY <1>1, <1>2, <1>3, <1>11, UnderWay
  <2>2. k = cookie[b]
    BY <1>5, <1>11, <2>1 DEF InOrder
  <2>3. Told(b)
    <3>1. CASE r.kind \in Opening
      BY <1>1, <1>2, <1>3, <1>11, <3>1, UnderWay
    <3>2. CASE r.kind \notin Opening
      <4>1. \A q \in Busy(b) : req[q].kind \notin Opening
        <5>1. SUFFICES ASSUME NEW q \in Busy(b), req[q].kind \in Opening PROVE FALSE
          OBVIOUS
        <5>2. Busy(b) = {q}
          BY <1>11, <5>1 DEF SInv, BrowserSound
        <5> QED BY <1>1, <1>3, <3>2, <5>1, <5>2
      <4> QED BY <1>11, <4>1 DEF SInv, BrowserSound, Past
    <3> QED BY <3>1, <3>2
  <2>4. r.told # "in"
    BY <1>2, <1>11 DEF Saying
  <2>5. CASE r.told = "out"
    <3>1. ~Live(cookie[b])
      BY <1>11, <2>1, <2>5 DEF InOrder
    <3> QED BY <1>2, <1>6, <1>8, <2>2, <2>5, <3>1 DEF Told, SignedInAs, Live
  <2>6. CASE r.told # "out"
    BY <1>2, <1>6, <1>8, <2>2, <2>3, <2>4, <2>6 DEF Told, SignedInAs, Live
  <2> QED BY <1>6, <2>2, <2>5, <2>6
<1>12. ASSUME b \notin astray'
       PROVE  /\ Told(b)'
              /\ b \notin astray \/ Busy(b) = {s}
              /\ r.kind \notin Opening => cookie'[b] = cookie[b] \/ Busy(b) = {s}
  <2>1. b \notin astray \/ (r.told = "in" /\ Busy(b) = {s})
    BY <1>7, <1>12
  <2>2. r.kind \notin Opening => ~Past(r)
    BY DEF Past
  <2> QED BY <1>9, <1>10, <1>11, <2>1, <2>2
<1>13. \A c \in Browser \ {b} :
         /\ cookie'[c] = cookie[c] /\ signed'[c] = signed[c]
         /\ c \in astray => c \in astray'
  BY <1>6, <1>7, <1>8 DEF IInv, TypeOK
<1>14. cookie'[b] \in {cookie[b], None} \cup r.setCookie
  BY <1>5, <1>6
<1> QED BY <1>1, <1>2, <1>3, <1>6, <1>12, <1>13, <1>14, OverSInv

LEMMA LoseSInv ==
  ASSUME IInv, SInv, NEW s \in Slot, Lose(s)
  PROVE  SInv'
<1>1. /\ Handled(req[s]) /\ req[s].pc = "respond"
      /\ req' = [req EXCEPT ![s] = Free]
      /\ UNCHANGED <<cookie, signed, store, dead, made>>
  BY DEF Lose, Serving, NoTable, IInv
<1>2. PICK b \in Browser : b = req[s].browser /\ s \in Busy(b)
  BY <1>1, UnderWay
<1>3. astray \subseteq astray'
  BY DEF Lose, Mishap, Fine
<1>4. ASSUME b \notin astray' PROVE Told(b)
  <2>1. b \notin astray
    BY <1>3, <1>4
  <2>2. CASE req[s].kind \in Opening
    <3>1. req[s].told = "nothing"
      BY <1>2, <1>4, <2>2 DEF Lose, Mishap
    <3>2. CASE Past(req[s])
      <4>1. req[s].kind = "logout"
        BY <1>1, <2>2, <3>1, <3>2, PastAnswer DEF Opening
      <4>2. req[s].told = "out"
        BY <1>1, <1>2, <2>1, <3>2, <4>1, UnderWay DEF InOrder
      <4> QED BY <3>1, <4>2
    <3>3. CASE ~Past(req[s])
      BY <1>1, <1>2, <2>1, <2>2, <3>3, UnderWay
    <3> QED BY <3>2, <3>3
  <2>3. CASE req[s].kind \notin Opening
    <3>1. \A q \in Busy(b) : req[q].kind \notin Opening
      <4>1. SUFFICES ASSUME NEW q \in Busy(b), req[q].kind \in Opening PROVE FALSE
        OBVIOUS
      <4>2. Busy(b) = {q}
        BY <2>1, <4>1 DEF SInv, BrowserSound
      <4> QED BY <1>2, <2>3, <4>1, <4>2
    <3> QED BY <2>1, <3>1 DEF SInv, BrowserSound, Past
  <2> QED BY <2>2, <2>3
<1>5. Told(b) => Told(b)'
  BY <1>1 DEF Told, SignedInAs, Live
<1>6. cookie' \in [Browser -> Token \cup {None}]
  BY <1>1 DEF IInv, TypeOK
<1> QED BY <1>1, <1>2, <1>3, <1>4, <1>5, <1>6, OverSInv

LEMMA CrashSInv == IInv /\ SInv /\ Crash => SInv'
<1> SUFFICES ASSUME IInv, SInv, Crash PROVE SInv'
  OBVIOUS
<1>1. /\ \A r \in Slot : req'[r] = Free
      /\ UNCHANGED <<cookie, signed, store, dead, made>>
  BY DEF Crash, Serving, NoTable
<1>2. \A b \in Browser : Busy(b)' = {}
  BY <1>1, FreeIsRequest DEF Busy
<1>3. OneHolder'
  <2>1. \A b \in Browser, t \in Token : Has(b, t)' => Has(b, t)
    BY <1>1, <1>2 DEF Has
  <2> QED BY <1>1, <2>1 DEF SInv, OneHolder
<1>4. \A r \in Slot : Saying(req[r])' /\ NewToken(r)'
  BY <1>1, FreeSays DEF Saying, NewToken, Past
<1>5. ASSUME NEW b \in Browser, b \notin astray' PROVE BrowserSound(b)'
  <2>1. b \notin astray /\ \A s \in Busy(b) : req[s].kind \notin Opening
    BY <1>5 DEF Crash
  <2>2. Told(b)
    BY <2>1 DEF SInv, BrowserSound, Past
  <2>3. Told(b)'
    BY <1>1, <2>2 DEF Told, SignedInAs, Live
  <2> QED BY <1>2, <2>3 DEF BrowserSound
<1> QED BY <1>3, <1>4, <1>5 DEF SInv, BrowserSound

LEMMA ExpireSInv == IInv /\ SInv /\ Expire => SInv'
<1> SUFFICES ASSUME IInv, SInv, Expire PROVE SInv'
  OBVIOUS
<1>1. /\ UNCHANGED <<cookie, signed, store, made, req, astray>>
      /\ dead \subseteq dead'
  BY DEF Expire
<1>2. OneHolder' /\ \A s \in Slot : Saying(req[s])' /\ NewToken(s)'
  BY <1>1 DEF SInv, OneHolder, Has, Busy, Saying, NewToken
<1>3. ASSUME NEW b \in Browser PROVE BrowserSound(b)'
  <2>1. ~Live(cookie[b]) => ~Live(cookie[b])'
    BY <1>1 DEF Live
  <2>2. Told(b) => Told(b)'
    BY <1>1 DEF Told, SignedInAs, Live
  <2>3. \A r : InOrder(b, r) => InOrder(b, r)'
    BY <1>1, <2>1 DEF InOrder
  <2> QED BY <1>1, <2>2, <2>3 DEF SInv, BrowserSound, Busy, InOrder
<1> QED BY <1>2, <1>3 DEF SInv

LEMMA NextSInv == IInv /\ SInv /\ [Next]_vars => SInv'
<1> SUFFICES ASSUME IInv, SInv, [Next]_vars PROVE SInv'
  OBVIOUS
<1>1. ASSUME NEW s \in Slot,
             \/ Start(s) \/ Load(s) \/ Verify(s) \/ Save(s) \/ Renew(s)
             \/ Destroy(s) \/ Commit(s) \/ Arrive(s) \/ Lose(s)
      PROVE  SInv'
  BY <1>1, StartSInv, LoadSInv, VerifySInv, SaveSInv, RenewSInv, DestroySInv,
     CommitSInv, ArriveSInv, LoseSInv
<1>2. CASE UNCHANGED vars
  <2>1. UNCHANGED <<cookie, signed, store, made, req, astray, dead>>
    BY <1>2 DEF vars
  <2> QED BY <2>1 DEF SInv, OneHolder, Has, Busy, Saying, NewToken, BrowserSound,
                      InOrder, Told, SignedInAs, Live
<1> QED BY <1>1, <1>2, CrashSInv, ExpireSInv DEF Next

LEMMA InitSInv == Init => SInv
<1> SUFFICES ASSUME Init PROVE SInv
  OBVIOUS
<1>1. /\ \A r \in Slot : req[r] = Free
      /\ \A b \in Browser : cookie[b] = None /\ signed[b] = None
  BY DEF Init
<1>2. \A b \in Browser : Busy(b) = {} /\ Told(b)
  BY <1>1, FreeIsRequest DEF Busy, Told, SignedInAs, Live
<1>3. OneHolder
  BY <1>1, <1>2, TokenNotNone DEF OneHolder, Has
<1>4. \A r \in Slot : Saying(req[r]) /\ NewToken(r)
  BY <1>1, FreeSays DEF NewToken
<1> QED BY <1>2, <1>3, <1>4 DEF SInv, BrowserSound

(* A browser without requests under way is signed in as the admin it was   *)
(* told, for any number of browsers, admins and overlapping requests and   *)
(* any faults, unless it had a mishap since the login or its session is    *)
(* past 24 hours: only one browser ever has a token, and the token of a    *)
(* login or a change of the password is nobody's until the answer is there.*)
THEOREM SignedInIsAsTold == Spec => []SignedInAsTold
<1>1. SInv => SignedInAsTold
  BY DEF SInv, BrowserSound, Told, SignedInAsTold
<1> QED
  BY <1>1, AlwaysIInv, InitSInv, NextSInv, PTL DEF Spec
=============================================================================
