----------------------------- MODULE MCMindLoop -----------------------------
(* MindLoop on small instances (the configurations give the constants): a  *)
(* queue shorter than the signals posted, so that the cap overflows, and   *)
(* batches shorter than the queue, so that a backlog takes several ticks.  *)
EXTENDS MindLoop
=============================================================================
