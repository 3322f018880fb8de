------------------------------ MODULE MCHouse ------------------------------
(* House on two ids: she lives under one, and the other is free for a copy *)
(* or for an archive restored under a new name.                            *)
EXTENDS House

CONSTANTS yuri, mika
MCCharacters == {yuri, mika}
=============================================================================
