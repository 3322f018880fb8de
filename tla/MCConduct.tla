------------------------------ MODULE MCConduct ------------------------------
(* Conduct with a read and an expensive call over two local days.           *)
EXTENDS Conduct, TLC

CONSTANTS look, selfie

Hands == {look, selfie}
CheapHands == {look}
Looks == {look}
Cools == (look :> 0) @@ (selfie :> 3)
=============================================================================
