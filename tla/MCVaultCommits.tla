---------------------------- MODULE MCVaultCommits ----------------------------
(* VaultCommits with one writer of each kind.                              *)
EXTENDS VaultCommits

CONSTANTS tick, route, turn, forget

Mind == {tick}
Panel == {route}
Chat == {turn}
Forgetting == {forget}
=============================================================================
