------------------------------ MODULE InboxSpec ------------------------------
(***************************************************************************)
(* What the signal bus and the tick loop promise together (SPEC 16): an    *)
(* at-least-once inbox.  Signals are numbered as they are posted; a reader *)
(* reads some of what is unsettled; a settled prefix is one every signal   *)
(* of which was read, or was lost because the inbox was full; and a        *)
(* restart empties it.                                                     *)
(***************************************************************************)
EXTENDS Integers

CONSTANT Capacity       \* the most unread signals the inbox holds

VARIABLES
    posted,     \* the signals posted so far are 1..posted
    read,       \* those a reader has read at least once
    lost,       \* those a full inbox let go of
    settled     \* 1..settled will not be read again

vars == <<posted, read, lost, settled>>

Init == /\ posted = 0
        /\ read = {}
        /\ lost = {}
        /\ settled = 0

(* Posting may lose old signals, never one of the newest Capacity.         *)
Post == /\ posted' = posted + 1
        /\ \E k \in 0 .. posted + 1 :
              /\ k = 0 \/ k <= posted + 1 - Capacity
              /\ lost' \subseteq lost \cup 1 .. k
              /\ lost \subseteq lost'
        /\ UNCHANGED <<read, settled>>

(* Reading goes on from a place with nothing unread behind it.             *)
Read == \E from, to \in settled .. posted :
            /\ 1 .. from \subseteq read \cup lost
            /\ read' = read \cup (from + 1 .. to)
            /\ UNCHANGED <<posted, lost, settled>>

Settle == /\ settled' \in settled .. posted
          /\ 1 .. settled' \subseteq read \cup lost
          /\ UNCHANGED <<posted, read, lost>>

Renew == /\ posted' = 0
         /\ read' = {}
         /\ lost' = {}
         /\ settled' = 0

Next == Post \/ Read \/ Settle \/ Renew

Spec == Init /\ [][Next]_vars
=============================================================================
