------------------------------ MODULE MCParkGate ------------------------------
(* ParkGate with three characters, two of them with a camera on the card,  *)
(* turns of those two, and one off-turn call.                              *)
EXTENDS ParkGate

CONSTANTS yuri, adia, kit, hello, hey, dream

Cast == {yuri, adia, kit}
Duo == {yuri, adia}
Kit == {kit}
None == {}
Hello == {hello}
Lines == {hello, hey}
Dreams == {dream}
HelloOnly == [t \in Hello |-> yuri]
Speaker == [t \in Lines |-> IF t = hello THEN yuri ELSE adia]
=============================================================================
