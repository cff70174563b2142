---------------------------- MODULE MCOwnerSetup ----------------------------
(* Instances of OwnerSetup for TLC.                                        *)
EXTENDS OwnerSetup, TLC

CONSTANTS j1, j2, j3, e1, e2

(* Two jobs share the owner's address, the third has another one.          *)
Addresses == (j1 :> e1) @@ (j2 :> e1) @@ (j3 :> e2)
=============================================================================
