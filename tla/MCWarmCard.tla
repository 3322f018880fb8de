------------------------------ MODULE MCWarmCard ------------------------------
(* WarmCard with two characters who share a checkpoint, one of whom only   *)
(* stops, and one with a checkpoint of her own.                            *)
EXTENDS WarmCard

CONSTANTS yuri, adia, kit, sdxl, pony, y1, y2, k1

Cast == {yuri, adia, kit}
Checkpoints == {sdxl, pony}
CameraOf == [l \in Cast |-> IF l = kit THEN pony ELSE sdxl]
Film == {y1, y2, k1}
LabOfFilm == [s \in Film |-> IF s = k1 THEN kit ELSE yuri]
=============================================================================
