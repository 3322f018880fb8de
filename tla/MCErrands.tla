------------------------------ MODULE MCErrands ------------------------------
(* Errands with named pictures, one or two.                                *)
EXTENDS Errands

CONSTANTS p1, p2

One == {p1}
Two == {p1, p2}
=============================================================================
