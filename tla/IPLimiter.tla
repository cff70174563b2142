------------------------------ MODULE IPLimiter ------------------------------
(***************************************************************************)
(* ratelimit.IPLimiter: one token bucket per client address, made at the   *)
(* first request of the address and dropped by a background sweep once the *)
(* address has been silent for TTL.  It guards POST /admin/login.          *)
(*                                                                         *)
(* A token is Interval units of credit, so that a bucket gains one unit    *)
(* per unit of time; the float64 of golang.org/x/time/rate is exact here.  *)
(* Allow and cleanup hold the mutex throughout and read the clock under    *)
(* it, so each is one step.  The table is in memory: this is one life of   *)
(* one server process.                                                     *)
(***************************************************************************)
EXTENDS Integers

CONSTANTS
  IP,        \* what clientIP returns, when it returns an address
  Burst,     \* rate.NewLimiter's burst: tokens in a full bucket
  Interval,  \* rate.Every's interval: time that brings one token
  TTL,       \* silence after which a bucket is dropped; period of the sweep
  Absent,    \* the address has no bucket
  Horizon    \* bound on the clock

Full == Burst * Interval

(* main.go: 5 tokens, one per 10 s, and 30 minutes.                        *)
ASSUME QuotaAssumption ==
  /\ Burst \in Nat \ {0}
  /\ Interval \in Nat \ {0}
  /\ TTL \in Nat /\ Full <= TTL
ASSUME HorizonAssumption == Horizon \in Nat

VARIABLES
  now,        \* the monotonic clock
  visitors,   \* the map of the limiter
  nextSweep,  \* when the ticker fires next
  answer,     \* what Allow last returned to each address
  window      \* history: a stretch of time, begun at some admission, and the
              \* credit the address used in it

vars == <<now, visitors, nextSweep, answer, window>>

Visitor == [credit : 0..Full, last : Nat, lastSeen : Nat]

ASSUME AbsentAssumption == Absent \notin Visitor

TypeOK ==
  /\ now \in Nat
  /\ visitors \in [IP -> Visitor \cup {Absent}]
  /\ nextSweep \in Nat
  /\ answer \in [IP -> {"none", "admitted", "refused"}]
  /\ window \in [IP -> [since : 0..now, used : Nat] \cup {Absent}]

Init ==
  /\ now = 0
  /\ visitors = [ip \in IP |-> Absent]
  /\ nextSweep = TTL
  /\ answer = [ip \in IP |-> "none"]
  /\ window = [ip \in IP |-> Absent]

-----------------------------------------------------------------------------
(* rate.Limiter.advance: the credit of a bucket by now.                    *)
Available(v) ==
  LET c == v.credit + (now - v.last) IN IF c < Full THEN c ELSE Full

(* A new bucket is full.                                                   *)
Fresh == [credit |-> Full, last |-> now, lastSeen |-> now]

(* Mutant: a bucket looked up again starts full.                           *)
Bucket_Anew(ip) == Fresh

(* The bucket of an address: made on the spot if there is none.            *)
Bucket(ip) == IF visitors[ip] = Absent THEN Fresh ELSE visitors[ip]

(* The window of ip goes on; it may begin at any admission.                *)
Count(ip) ==
  \/ /\ window[ip] = Absent
     /\ \/ UNCHANGED window
        \/ window' = [window EXCEPT ![ip] = [since |-> now, used |-> Interval]]
  \/ /\ window[ip] # Absent
     /\ window' = [window EXCEPT ![ip] = [since |-> window[ip].since,
                                          used |-> window[ip].used + Interval]]

(* Allow returns true: a token is taken.                                   *)
Admit(ip) ==
  /\ LET b == Bucket(ip)
     IN /\ Available(b) >= Interval
        /\ visitors' = [visitors EXCEPT ![ip] =
             [credit |-> Available(b) - Interval, last |-> now, lastSeen |-> now]]
  /\ answer' = [answer EXCEPT ![ip] = "admitted"]
  /\ Count(ip)
  /\ UNCHANGED <<now, nextSweep>>

(* Mutant: the refused attempt takes a token in advance (Reserve).         *)
Refuse_Reserve(ip) ==
  /\ LET b == Bucket(ip)
     IN /\ Available(b) < Interval
        /\ visitors' = [visitors EXCEPT ![ip] =
             [credit |-> Available(b) - Interval, last |-> now, lastSeen |-> now]]
  /\ answer' = [answer EXCEPT ![ip] = "refused"]
  /\ UNCHANGED <<now, nextSweep, window>>

(* Allow returns false: the bucket keeps its credit and its clock, and the *)
(* address counts as seen.                                                 *)
Refuse(ip) ==
  /\ LET b == Bucket(ip)
     IN /\ Available(b) < Interval
        /\ visitors' = [visitors EXCEPT ![ip] = [b EXCEPT !.lastSeen = now]]
  /\ answer' = [answer EXCEPT ![ip] = "refused"]
  /\ UNCHANGED <<now, nextSweep, window>>

(* Mutant: silence is counted in half.                                     *)
Stale_Early(v) == 2 * (now - v.lastSeen) > TTL

Stale(v) == now - v.lastSeen > TTL

(* cleanup, at a tick of the ticker or later.  The ticker drops ticks that *)
(* find it busy; a sweep that is late enough stands for the dropped ones.  *)
Sweep ==
  /\ now >= nextSweep
  /\ visitors' = [ip \in IP |->
       IF visitors[ip] # Absent /\ Stale(visitors[ip]) THEN Absent
                                                       ELSE visitors[ip]]
  /\ nextSweep' = nextSweep + TTL
  /\ UNCHANGED <<now, answer, window>>

Tick ==
  /\ now < Horizon
  /\ now' = now + 1
  /\ UNCHANGED <<visitors, nextSweep, answer, window>>

Next == Tick \/ Sweep \/ \E ip \in IP : Admit(ip) \/ Refuse(ip)

Spec == Init /\ [][Next]_vars

-----------------------------------------------------------------------------
(* In every stretch of time that starts with an attempt let through, the   *)
(* attempts let through are a burst and one per Interval at most, although *)
(* the sweep forgets buckets and a forgotten address starts anew.          *)
WindowBound ==
  \A ip \in IP : window[ip] # Absent =>
    window[ip].used <= Full + (now - window[ip].since)

(* Refused attempts cost nothing: an address that has been silent for      *)
(* Interval is let through, however often it was refused before.           *)
WaitingHelps ==
  [][\A ip \in IP :
       /\ visitors'[ip] # visitors[ip]
       /\ visitors'[ip] # Absent
       /\ visitors[ip] # Absent => now - visitors[ip].lastSeen >= Interval
       => answer'[ip] = "admitted"]_vars

(* What an address owes to its full bucket.                                *)
Debt(ip) ==
  IF visitors[ip] = Absent THEN 0 ELSE Full - Available(visitors[ip])

Quota == INSTANCE LoginQuota WITH debt <- [ip \in IP |-> Debt(ip)]

(* The limiter forgets buckets, and nobody can tell.                       *)
ImplementsQuota == Quota!Spec
=============================================================================
