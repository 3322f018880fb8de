------------------------------- MODULE MCTurns -------------------------------
(* Turns with a text client, a chat of a channel and a voice client, each  *)
(* in a session of its own.                                                *)
EXTENDS Turns

CONSTANTS typed, chatted, spoken
=============================================================================
