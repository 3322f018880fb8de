------------------------------ MODULE SignalBus ------------------------------
(***************************************************************************)
(* The inbound queue of the mind (mind/signals.py): producers post from    *)
(* the event loop or from a worker thread, the tick loop reads by offset   *)
(* and releases what it has durably read.                                  *)
(*                                                                         *)
(* A signal is its absolute number in this bus: the k-th signal posted is  *)
(* k.  The list the code keeps is base+1..end, so an offset o stands for   *)
(* the signals 1..o.                                                       *)
(***************************************************************************)
EXTENDS Integers

CONSTANTS
    MaxHeld,        \* MAX_HELD: the most unread signals the queue holds
    BatchLimit,     \* the limit argument of SignalBus.next
    MaxPosted,      \* bound on the signals posted to one bus
    LogFails        \* whether appending to signals.jsonl may raise

ASSUME BusAssumption == /\ MaxHeld \in Nat \ {0}
                        /\ BatchLimit \in Nat \ {0}
                        /\ MaxPosted \in Nat
                        /\ LogFails \in BOOLEAN

VARIABLES
    base,           \* _base: the signals that left the front of the queue
    end,            \* _base + len(_signals): the signals ever posted
    wake,           \* the asyncio.Event the tick loop sleeps on
    hops,           \* wake.set calls handed to the event loop, not yet run
    dropped         \* history: the signals MAX_HELD pushed off the front

busVars == <<base, end, wake, hops, dropped>>

Larger(a, b) == IF a > b THEN a ELSE b
Smaller(a, b) == IF a < b THEN a ELSE b

BusTypeOK == /\ base \in Nat
             /\ end \in Nat
             /\ wake \in BOOLEAN
             /\ hops \in Nat
             /\ dropped \subseteq 1 .. end

BusInit == /\ base = 0
           /\ end = 0
           /\ wake = FALSE
           /\ hops = 0
           /\ dropped = {}

-----------------------------------------------------------------------------
(* What one more signal pushes off the front: the excess over MAX_HELD.    *)
OverflowOffByOne == Larger(0, (end + 1 - base) - MaxHeld + 1)
Overflow == Larger(0, (end + 1 - base) - MaxHeld)

(* The list half of post(), one step under the lock: append, and trim.     *)
Enqueue == /\ end < MaxPosted
           /\ end' = end + 1
           /\ base' = base + Overflow
           /\ dropped' = dropped \cup (base + 1 .. base + Overflow)

(* post() on the event loop, or on a bus no loop is bound to yet.          *)
PostOnLoop == /\ Enqueue
              /\ wake' = TRUE
              /\ UNCHANGED hops

(* post() on a worker thread: the wake travels by call_soon_threadsafe.    *)
PostFromWorker == /\ Enqueue
                  /\ hops' = hops + 1
                  /\ UNCHANGED wake

(* The append to signals.jsonl raises out of post(): the signal is held    *)
(* already, and the wake is never set.                                     *)
PostUnlogged == /\ LogFails
                /\ Enqueue
                /\ UNCHANGED <<wake, hops>>

(* The event loop runs one scheduled wake.set.                             *)
Hop == /\ hops > 0
       /\ hops' = hops - 1
       /\ wake' = TRUE
       /\ UNCHANGED <<base, end, dropped>>

(* next(offset): the offset the read starts from, and the one after it.    *)
ReadFrom(o) == Larger(IF o > end THEN 0 ELSE o, base)
ReadToUnclamped(o) == ReadFrom(o) + BatchLimit
ReadTo(o) == Smaller(ReadFrom(o) + BatchLimit, end)

(* ack(offset): release every signal up to o, never more than is held.     *)
Release(o) == base' = Larger(base, Smaller(o, end))

(* A new process has a new, empty bus.                                     *)
NewBus == /\ base' = 0
          /\ end' = 0
          /\ wake' = FALSE
          /\ hops' = 0
          /\ dropped' = {}
=============================================================================
