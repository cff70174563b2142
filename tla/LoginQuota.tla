----------------------------- MODULE LoginQuota -----------------------------
(***************************************************************************)
(* What the login rate limit promises to each client (cmd/web/main.go,     *)
(* internal/ratelimit): an account that is charged Interval per attempt    *)
(* let through, may owe Full at most, and pays back one unit per unit of   *)
(* time.  No account is ever forgotten.                                    *)
(***************************************************************************)
EXTENDS Naturals

CONSTANTS IP, Interval, Full

VARIABLE debt

Init == debt = [ip \in IP |-> 0]

Charge(ip) ==
  /\ debt[ip] + Interval <= Full
  /\ debt' = [debt EXCEPT ![ip] = @ + Interval]

Repay == debt' = [ip \in IP |-> IF debt[ip] = 0 THEN 0 ELSE debt[ip] - 1]

Next == Repay \/ \E ip \in IP : Charge(ip)

Spec == Init /\ [][Next]_debt
=============================================================================
