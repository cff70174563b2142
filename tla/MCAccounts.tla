----------------------------- MODULE MCAccounts -----------------------------
(* Instances of Accounts for TLC.                                          *)
EXTENDS Accounts, TLC

CONSTANTS b1, a1, a2, p1, p2, r1, r2

(* The passwords the owner gave the accounts.                              *)
Created == a1 :> p1 @@ a2 :> p2

(* Requests come and go alike.                                             *)
Alike == Permutations(Slot)
=============================================================================
