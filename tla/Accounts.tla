------------------------------ MODULE Accounts ------------------------------
(***************************************************************************)
(* Login, logout, change of the password, and the sessions of the admins:  *)
(* internal/handlers/admin_auth.go and admin_account.go, RequireAdmin of   *)
(* internal/auth, and scs.LoadAndSave, which wraps the whole router.       *)
(*                                                                         *)
(* The session is a blob.  LoadAndSave reads it when a request starts; a   *)
(* handler works on its copy; when the response begins, and only if the    *)
(* copy was changed, it is written back whole under the token it has then. *)
(* Requests of one browser carry the same token and may overlap, and the   *)
(* browser keeps the cookie of the response that came last.                *)
(***************************************************************************)
EXTENDS Naturals, FiniteSets

CONSTANTS
  Browser,
  Admin,
  Password,
  FirstHash,    \* the passwords the accounts were created with
  Slot,         \* requests that may be under way at once
  Fault,        \* a subset of {"db", "dbAck", "lost", "crash", "expiry"}
  MaxTokens,    \* bound on the tokens made
  MaxRequests,  \* bound on the requests started
  None

Token == 1..MaxTokens

(* The blob: admin_id and what goes with it, and the flash message.        *)
Session == [admin : Admin \cup {None}, flash : BOOLEAN]
Fresh == [admin |-> None, flash |-> FALSE]

ASSUME AccountAssumption ==
  /\ FirstHash \in [Admin -> Password]
  /\ Fault \subseteq {"db", "dbAck", "lost", "crash", "expiry"}
  /\ MaxTokens \in Nat
  /\ MaxRequests \in Nat
  /\ None \notin Admin \cup Password \cup Nat \cup Session

(* "work" is any handler that changes rows and leaves a flash message for  *)
(* the next page, "page" any page rendered, a public one too.              *)
Kind == {"login", "logout", "change", "work", "page"}
Opening == {"login", "logout", "change"}

Steps == {"free", "load", "verify", "save", "renew", "destroy", "commit", "respond"}

Request ==
  [pc : Steps, browser : Browser \cup {None}, kind : Kind,
   admin : Admin \cup {None},      \* the account of a login form
   given : Password \cup {None},   \* the current password
   wanted : Password \cup {None},  \* the new one
   token : Token \cup {None}, data : Session,        \* the copy of the session
   setCookie : SUBSET (Token \cup {None}),           \* headers of the response
   told : {"nothing", "in", "out", "changed"}]       \* what it says

Free == [pc |-> "free", browser |-> None, kind |-> "page", admin |-> None,
         given |-> None, wanted |-> None, token |-> None, data |-> Fresh,
         setCookie |-> {}, told |-> "nothing"]

VARIABLES
  hash,      \* password_hash of each admin
  store,     \* the sessions table
  dead,      \* tokens whose 24 hours are over
  cookie,    \* of each browser
  req,       \* the requests under way
  made,      \* tokens made
  started,   \* requests started
  opener,    \* history: the admin whose password opened the session
  ended,     \* history: tokens deleted by a handler
  overtaken, \* history: those a request under way was about to write
  signed,    \* history: whom a browser was told it is signed in as
  astray,    \* history: browsers with a mishap since they last signed in
  believed,  \* history: the password an admin was told is in force
  doubtful   \* history: admins with a mishap in a change of password

vars == <<hash, store, dead, cookie, req, made, started, opener, ended,
          overtaken, signed, astray, believed, doubtful>>
tables == <<hash, store, dead, made, opener, ended, overtaken>>

TypeOK ==
  /\ hash \in [Admin -> Password]
  /\ store \in [Token -> Session \cup {None}]
  /\ dead \subseteq Token
  /\ cookie \in [Browser -> Token \cup {None}]
  /\ req \in [Slot -> Request]
  /\ made \in 0..MaxTokens
  /\ started \in 0..MaxRequests
  /\ opener \in [Token -> Admin \cup {None}]
  /\ ended \subseteq 1..made
  /\ overtaken \subseteq ended
  /\ signed \in [Browser -> Admin \cup {None}]
  /\ astray \subseteq Browser
  /\ believed \in [Admin -> Password]
  /\ doubtful \subseteq Admin
  /\ \A s \in Slot :
       /\ req[s].pc # "free" => req[s].browser \in Browser
       /\ req[s].pc = "commit" =>
            req[s].token \in 1..made /\ req[s].data.admin \in Admin

-----------------------------------------------------------------------------
(* Find of pgxstore: the row, unless its expiry is past.                   *)
Live(t) == t # None /\ t \notin dead /\ store[t] # None

Busy(b) == {s \in Slot : req[s].pc # "free" /\ req[s].browser = b}

Init ==
  /\ hash = FirstHash
  /\ store = [t \in Token |-> None]
  /\ dead = {}
  /\ cookie = [b \in Browser |-> None]
  /\ req = [s \in Slot |-> Free]
  /\ made = 0
  /\ started = 0
  /\ opener = [t \in Token |-> None]
  /\ ended = {}
  /\ overtaken = {}
  /\ signed = [b \in Browser |-> None]
  /\ astray = {}
  /\ believed = FirstHash
  /\ doubtful = {}

(* The browser sends a request, with its cookie.  One that overlaps a      *)
(* login, a logout or a change of the password may come out of step.       *)
Start(s) ==
  /\ req[s].pc = "free"
  /\ started < MaxRequests
  /\ started' = started + 1
  /\ \E b \in Browser, k \in Kind, a \in Admin \cup {None},
        p, q \in Password \cup {None} :
       /\ a # None <=> k = "login"
       /\ p # None <=> k \in {"login", "change"}
       /\ q # None <=> k = "change"
       /\ req' = [req EXCEPT ![s] =
            [Free EXCEPT !.pc = "load", !.browser = b, !.kind = k, !.admin = a,
                         !.given = p, !.wanted = q, !.token = cookie[b]]]
       /\ astray' = IF \E r \in Busy(b) : {k, req[r].kind} \cap Opening # {}
                     THEN astray \cup {b} ELSE astray
  /\ UNCHANGED <<tables, cookie, signed, believed, doubtful>>

(* The browser or the admin may now be mistaken.                           *)
Mishap(s) ==
  /\ astray' = IF req[s].kind \in Opening THEN astray \cup {req[s].browser}
                                          ELSE astray
  /\ doubtful' = IF req[s].kind = "change" THEN doubtful \cup ({req[s].data.admin} \cap Admin)
                                           ELSE doubtful

Fine == UNCHANGED <<astray, doubtful>>

(* What every step of the server leaves alone.                             *)
Serving == UNCHANGED <<dead, cookie, started, signed, believed>>
NoTable == UNCHANGED <<hash, store, made, opener, ended, overtaken>>

Goto(s, pc) == req' = [req EXCEPT ![s] = [@ EXCEPT !.pc = pc]]

(* The request is answered without a write to the session.                 *)
Answer(s, told) ==
  req' = [req EXCEPT ![s] = [@ EXCEPT !.pc = "respond", !.told = told]]

(* RequireAdmin: all but the login itself and the public pages.            *)
Admitted(kind, data) == kind \in {"login", "page"} \/ data.admin # None

(* The first step of each handler, and what it does to its copy.  A page   *)
(* pops the flash message; an error page does so when it is too late, its  *)
(* status being written already.                                           *)
Enter(s, token, data) ==
  LET go(pc, copy) ==
        req' = [req EXCEPT ![s] = [@ EXCEPT !.pc = pc, !.token = token, !.data = copy]]
      k == req[s].kind
  IN \/ k \in {"login", "change"} /\ go("verify", data)
     \/ k = "logout" /\ go("destroy", data)
     \/ k = "work" /\ go("commit", [data EXCEPT !.flash = TRUE])
     \/ k = "page" /\ data.flash /\ go("commit", [data EXCEPT !.flash = FALSE])
     \/ k \in {"work", "page"} /\ go("respond", data)

(* LoadAndSave reads the session; without one the request gets an empty    *)
(* copy and no token.                                                      *)
Load(s) ==
  /\ req[s].pc = "load"
  /\ LET found == Live(req[s].token)
         data == IF found THEN store[req[s].token] ELSE Fresh
     IN \/ /\ Admitted(req[s].kind, data)
           /\ Enter(s, IF found THEN req[s].token ELSE None, data)
        \/ ~Admitted(req[s].kind, data) /\ Answer(s, "out")
        \/ "db" \in Fault /\ Answer(s, "nothing")
  /\ Serving /\ NoTable /\ Fine

(* The checks of the form, FindByEmail and VerifyPassword; the form may be *)
(* refused, and the query fail.                                            *)
Verify(s) ==
  /\ req[s].pc = "verify"
  /\ LET login == req[s].kind = "login"
         a == IF login THEN req[s].admin ELSE req[s].data.admin
     IN \/ hash[a] = req[s].given /\ Goto(s, IF login THEN "renew" ELSE "save")
        \/ Answer(s, "nothing")
  /\ Serving /\ NoTable /\ Fine

(* Changes of the password of a that are stored and not yet answered.      *)
Unanswered(a) ==
  {s \in Slot : /\ req[s].kind = "change" /\ req[s].data.admin = a
                /\ \/ req[s].pc \in {"renew", "commit"}
                   \/ req[s].pc = "respond" /\ req[s].told = "changed"}

(* Mutant: an error of UpdatePassword is only logged.                      *)
Save_Logged(s) ==
  /\ req[s].pc = "save"
  /\ Goto(s, "renew")
  /\ LET a == req[s].data.admin
     IN \/ /\ hash' = [hash EXCEPT ![a] = req[s].wanted]
           /\ doubtful' = IF Unanswered(a) = {} THEN doubtful \ {a}
                                               ELSE doubtful \cup {a}
        \/ "db" \in Fault /\ UNCHANGED <<hash, doubtful>>
  /\ Serving /\ UNCHANGED <<astray, store, made, opener, ended, overtaken>>

(* HashPassword takes its time; then UpdatePassword stores the new one,    *)
(* whatever is there by now.                                               *)
Save(s) ==
  /\ req[s].pc = "save"
  /\ LET a == req[s].data.admin
         stored == hash' = [hash EXCEPT ![a] = req[s].wanted]
     IN \/ /\ stored
           /\ Goto(s, "renew")
           /\ doubtful' = IF Unanswered(a) = {} THEN doubtful \ {a}
                                               ELSE doubtful \cup {a}
           /\ UNCHANGED astray
        \/ "db" \in Fault /\ Answer(s, "nothing") /\ UNCHANGED hash /\ Fine
        \/ "dbAck" \in Fault /\ stored /\ Answer(s, "nothing") /\ Mishap(s)
  /\ Serving /\ UNCHANGED <<store, made, opener, ended, overtaken>>

(* DELETE of a session.  History: whether a request under way is about to  *)
(* write it again.                                                         *)
Delete(s, t) ==
  IF t = None THEN UNCHANGED <<store, ended, overtaken>>
  ELSE /\ store' = [store EXCEPT ![t] = None]
       /\ ended' = ended \cup {t}
       /\ overtaken' =
            IF \E r \in Slot \ {s} : req[r].pc = "commit" /\ req[r].token = t
              THEN overtaken \cup {t} ELSE overtaken \ {t}

(* Mutant: a change of the password starts a session from nothing.         *)
Renewed_Cleared(s, t) ==
  LET copy == IF req[s].kind = "login"
              THEN [req[s].data EXCEPT !.admin = req[s].admin]
              ELSE [Fresh EXCEPT !.flash = TRUE]
  IN /\ req' = [req EXCEPT ![s] =
                  [@ EXCEPT !.pc = "commit", !.token = t, !.data = copy]]
     /\ opener' = [opener EXCEPT ![t] = IF req[s].kind = "login" THEN req[s].admin
                                       ELSE opener[req[s].token]]

(* What RenewToken and the Puts after it leave to be stored: the copy with *)
(* a new token and deadline, and the admin or the flash message.           *)
Renewed(s, t) ==
  LET copy == IF req[s].kind = "login"
              THEN [req[s].data EXCEPT !.admin = req[s].admin]
              ELSE [req[s].data EXCEPT !.flash = TRUE]
  IN /\ req' = [req EXCEPT ![s] =
                  [@ EXCEPT !.pc = "commit", !.token = t, !.data = copy]]
     /\ opener' = [opener EXCEPT ![t] = IF req[s].kind = "login" THEN req[s].admin
                                       ELSE opener[req[s].token]]

(* Mutant: the token is renewed only if there was none.                    *)
Renew_SameToken(s) ==
  /\ req[s].pc = "renew"
  /\ IF req[s].token = None
     THEN made < MaxTokens /\ made' = made + 1 /\ Renewed(s, made + 1)
     ELSE Renewed(s, req[s].token) /\ UNCHANGED made
  /\ Serving /\ Fine /\ UNCHANGED <<hash, store, ended, overtaken>>

(* RenewToken, and the Puts of Login and UpdatePassword.  An error leaves  *)
(* the session as it was, but the password is changed and the admin told.  *)
Renew(s) ==
  LET failed == Answer(s, IF req[s].kind = "change" THEN "changed" ELSE "nothing")
  IN /\ req[s].pc = "renew"
     /\ \/ /\ made < MaxTokens
           /\ made' = made + 1
           /\ Delete(s, req[s].token)
           /\ Renewed(s, made + 1)
           /\ Fine
        \/ /\ "db" \in Fault
           /\ failed
           /\ Fine /\ UNCHANGED <<store, made, opener, ended, overtaken>>
        \/ /\ "dbAck" \in Fault
           /\ Delete(s, req[s].token)
           /\ failed
           /\ astray' = astray \cup {req[s].browser}
           /\ UNCHANGED <<doubtful, made, opener>>
     /\ Serving /\ UNCHANGED hash

(* Mutant: the copy is cleared, and stored.                                *)
Destroy_Clears(s) ==
  /\ req[s].pc = "destroy"
  /\ req' = [req EXCEPT ![s] = [@ EXCEPT !.pc = "commit", !.data = Fresh]]
  /\ Serving /\ NoTable /\ Fine

(* Logout: Destroy, and the cookie cleared.  After an error the admin is   *)
(* back on the dashboard.                                                  *)
Destroy(s) ==
  /\ req[s].pc = "destroy"
  /\ \/ /\ Delete(s, req[s].token)
        /\ req' = [req EXCEPT ![s] =
                     [@ EXCEPT !.pc = "respond", !.token = None, !.data = Fresh,
                               !.setCookie = {None}, !.told = "out"]]
        /\ Fine
     \/ /\ "db" \in Fault
        /\ Answer(s, "nothing")
        /\ Fine /\ UNCHANGED <<store, ended, overtaken>>
     \/ /\ "dbAck" \in Fault
        /\ Delete(s, req[s].token)
        /\ Answer(s, "nothing")
        /\ Mishap(s)
  /\ Serving /\ UNCHANGED <<hash, made, opener>>

Success(kind) ==
  CASE kind = "login"  -> "in"
    [] kind = "change" -> "changed"
    [] OTHER -> "nothing"

(* The response begins: LoadAndSave stores the copy, whatever the row is   *)
(* by now, and sets the cookie.  After an error it answers 500 itself.     *)
Commit(s) ==
  LET stored == store' = [store EXCEPT ![req[s].token] = req[s].data]
  IN /\ req[s].pc = "commit"
     /\ \/ /\ stored
           /\ req' = [req EXCEPT ![s] =
                        [@ EXCEPT !.pc = "respond", !.setCookie = {req[s].token},
                                  !.told = Success(req[s].kind)]]
           /\ Fine
        \/ "db" \in Fault /\ Answer(s, "nothing") /\ Mishap(s) /\ UNCHANGED store
        \/ "dbAck" \in Fault /\ stored /\ Answer(s, "nothing") /\ Mishap(s)
     /\ Serving /\ UNCHANGED <<hash, made, opener, ended, overtaken>>

(* The browser gets the answer.  History: what it was told; a login whose  *)
(* answer comes when nothing else is under way puts everything in order.   *)
Arrive(s) ==
  LET r == req[s]  b == r.browser
  IN /\ r.pc = "respond"
     /\ req' = [req EXCEPT ![s] = Free]
     /\ cookie' = IF r.setCookie = {} THEN cookie
                  ELSE [cookie EXCEPT ![b] = CHOOSE c \in r.setCookie : TRUE]
     /\ signed' = CASE r.told = "in"  -> [signed EXCEPT ![b] = r.data.admin]
                    [] r.told = "out" -> [signed EXCEPT ![b] = None]
                    [] OTHER -> signed
     /\ astray' = IF r.told = "in" /\ Busy(b) = {s} THEN astray \ {b} ELSE astray
     /\ believed' = IF r.told = "changed"
                    THEN [believed EXCEPT ![r.data.admin] = r.wanted] ELSE believed
     /\ UNCHANGED <<hash, store, dead, made, started, opener, ended, overtaken,
                    doubtful>>

(* The connection breaks before the answer is there; the handler runs on   *)
(* until its response begins.                                              *)
Lose(s) ==
  /\ "lost" \in Fault
  /\ req[s].pc = "respond"
  /\ req' = [req EXCEPT ![s] = Free]
  /\ IF req[s].told = "nothing" THEN Fine ELSE Mishap(s)
  /\ Serving /\ NoTable

(* The process is stopped.                                                 *)
Crash ==
  /\ "crash" \in Fault
  /\ \E s \in Slot : req[s].pc # "free"
  /\ req' = [s \in Slot |-> Free]
  /\ astray' = astray \cup {b \in Browser : \E s \in Busy(b) : req[s].kind \in Opening}
  /\ doubtful' = doubtful \cup {a \in Admin : Unanswered(a) # {}}
  /\ Serving /\ NoTable

(* 24 hours after its token was made, whatever was stored since.           *)
Expire ==
  /\ "expiry" \in Fault
  /\ \E t \in 1..made : t \notin dead /\ dead' = dead \cup {t}
  /\ UNCHANGED <<hash, store, cookie, req, made, started, opener, ended,
                 overtaken, signed, astray, believed, doubtful>>

Next ==
  \/ \E s \in Slot :
       \/ Start(s) \/ Load(s) \/ Verify(s) \/ Save(s) \/ Renew(s)
       \/ Destroy(s) \/ Commit(s) \/ Arrive(s) \/ Lose(s)
  \/ Crash
  \/ Expire

Spec == Init /\ [][Next]_vars

-----------------------------------------------------------------------------
(* What is stored under a token is the session of the admin whose password *)
(* opened it: writing the copy back whole never mixes two admins, since    *)
(* every login gets a token no earlier request has.  And a session that    *)
(* was logged out or renewed is there again only if, when it was deleted,  *)
(* a request was under way that went on to write it.                       *)
StoredSessionsSound ==
  \A t \in Token : Live(t) =>
    /\ store[t].admin = opener[t]
    /\ t \in ended => t \in overtaken

SignedInAs(b) == IF Live(cookie[b]) THEN store[cookie[b]].admin ELSE None

(* A browser without requests under way is signed in as the admin it was   *)
(* told: after a login, through every change of the password and every     *)
(* failed request, until the logout.  Excepted are sessions past 24 hours, *)
(* and mishaps since the login: requests beside a logout or a change of    *)
(* the password, a lost answer to one, and a failure in the middle of one. *)
SignedInAsTold ==
  \A b \in Browser \ astray :
    Busy(b) = {} => SignedInAs(b) = signed[b] \/ cookie[b] \in dead

(* The password in force is the one the admin was last told, also when the *)
(* renewal of the session failed; excepted are two changes the second of   *)
(* which is stored before the first is answered, and answers lost.         *)
PasswordAsTold ==
  \A a \in Admin \ doubtful : Unanswered(a) = {} => hash[a] = believed[a]
=============================================================================
