------------------------------ MODULE MCContexts ------------------------------
(* Contexts with a reply and a mind's call on the chat provider and one on *)
(* the utility provider, which share a model.                              *)
EXTENDS Contexts, TLC

CONSTANTS c1, c2, c3, chat, utility, m1, k1, k2, k3, k4

ThreeCalls == {c1, c2, c3}
TwoProviders == {chat, utility}
OneModel == {m1}
SomeContexts == {k1, k2, k3, k4}
TwoOnChat == c1 :> chat @@ c2 :> chat @@ c3 :> utility
SameModel == chat :> m1 @@ utility :> m1
=============================================================================
