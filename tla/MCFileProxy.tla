---------------------------- MODULE MCFileProxy ----------------------------
(* Instances of FileProxy for TLC.                                         *)
EXTENDS FileProxy, TLC

CONSTANTS k1, k2, k3

(* The bytes of a key, and the digit of exp: texts of 2, 3 and 4 bytes,    *)
(* with bits that need the characters 62 and 63.                           *)
KeyText == k1 :> <<251>> @@ k2 :> <<47, 126>> @@ k3 :> <<195, 191, 63>>
Texts == [k \in Key |-> [e \in Exp |-> Append(KeyText[k], 48 + e)]]

(* The signatures begin with 62 and 63.                                    *)
Secrets == {251, 255}

Ahead == {-1, 0, 1}
=============================================================================
