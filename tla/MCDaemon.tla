------------------------------- MODULE MCDaemon -------------------------------
(* Daemon with two starts and a stop that may be used again, and an inode  *)
(* for each of the three.                                                  *)
EXTENDS Daemon

CONSTANTS s1, s2, x1, f1, f2, f3

TwoStarts == {s1, s2}
OneStop == {x1}
Inodes == {f1, f2, f3}
=============================================================================
