------------------------------- MODULE MindLoop -------------------------------
(***************************************************************************)
(* The tick loop of the mind over the signal bus (mind/loop.py): SENSE     *)
(* reads a batch from the cursor, the tick acts on it, REGULATE commits    *)
(* the cursor to engine.json and releases the batch, and the loop sleeps   *)
(* until the cadence elapses or the bus wakes it.  What a tick does with a *)
(* signal is left out; which signals it reads, when, and what a failed     *)
(* tick, a pause, a rebuilt mind or a restart does to them is not.         *)
(***************************************************************************)
EXTENDS SignalBus

CONSTANT MaxEpochs      \* bound on the processes one behaviour goes through

ASSUME EpochAssumption == MaxEpochs \in Nat \ {0}

VARIABLES
    epoch,          \* SignalBus.epoch: which process's queue this is
    pc,             \* where the tick loop is
    offset,         \* MindLoop.offset: the cursor in memory
    batchEnd,       \* new_offset of the tick in flight
    disk,           \* bus_offset and bus_epoch in state/engine.json
    sensed          \* history: the signals of this bus some tick has read

mindVars == <<epoch, pc, offset, batchEnd, disk, sensed>>
vars == <<busVars, mindVars>>

(* absent: no MindLoop object;  paused: the object without its task;       *)
(* starting: run() before its first tick;  acting: between SENSE and the   *)
(* cursor's commit;  committing: the vault commit after it;  asleep.       *)
Alive == {"paused", "starting", "acting", "committing", "asleep"}
Running == Alive \ {"paused"}

Init == /\ BusInit
        /\ epoch = 1
        /\ pc = "absent"
        /\ offset = 0
        /\ batchEnd = 0
        /\ disk = [offset |-> 0, epoch |-> 0]
        /\ sensed = {}

(* _persist(): engine.json gets the cursor and the bus it indexes.         *)
Persist(o) == disk' = [offset |-> o, epoch |-> epoch]

(* run() after a tick: clear the wake, then sleep on it (no await between).*)
Rest == /\ wake' = FALSE
        /\ pc' = "asleep"

-----------------------------------------------------------------------------
(* Producers: the room's turns, presence, the timer board's drain at SENSE *)
(* and a tick's own posts run on the loop; a script or the TTS on a worker.*)
Post == /\ \/ PostOnLoop
           \/ PostFromWorker
           \/ PostUnlogged
        /\ UNCHANGED mindVars

DeliverHop == Hop /\ UNCHANGED mindVars

(* turn_started and turn_ended set the wake and post nothing themselves.   *)
Nudge == /\ pc \in Alive
         /\ wake' = TRUE
         /\ UNCHANGED <<base, end, hops, dropped, mindVars>>

(* MindLoop.__init__, and run() up to its first tick.  The cursor carries  *)
(* over only from the same bus.                                            *)
RestoredFromAnyBus == disk.offset
RestoredNever == 0
RestoredOffset == IF disk.epoch = epoch THEN disk.offset ELSE 0

Build == /\ pc = "absent"
         /\ pc' = "starting"
         /\ offset' = RestoredOffset
         /\ UNCHANGED <<busVars, epoch, batchEnd, disk, sensed>>

(* SENSE: the heartbeat, or an early wake, reads the next batch.           *)
Sense == /\ pc \in {"starting", "asleep"}
         /\ pc' = "acting"
         /\ batchEnd' = ReadTo(offset)
         /\ sensed' = sensed \cup (ReadFrom(offset) + 1 .. ReadTo(offset))
         /\ UNCHANGED <<busVars, epoch, offset, disk>>

(* A post of SENSE's own (a suspend gap, a landed timer, a due wakeup)     *)
(* raises after the append, and ends the tick before it reads anything.    *)
SensePostFails == /\ pc \in {"starting", "asleep"}
                  /\ LogFails
                  /\ Enqueue
                  /\ Rest
                  /\ UNCHANGED <<hops, epoch, offset, batchEnd, disk, sensed>>

(* A write of engine.json outside the commit: a promise review filed mid   *)
(* tick, or a tool call that opens a handed document at any time.          *)
PersistNow == /\ pc \in Alive
              /\ Persist(offset)
              /\ UNCHANGED <<busVars, epoch, pc, offset, batchEnd, sensed>>

(* REGULATE: the cursor moves, then the file, and only then the queue.     *)
CommitTargetEnd == end
CommitTarget == batchEnd

Commit == /\ pc = "acting"
          /\ offset' = CommitTarget
          /\ Persist(CommitTarget)
          /\ Release(CommitTarget)
          /\ pc' = "committing"
          /\ UNCHANGED <<end, wake, hops, dropped, epoch, batchEnd, sensed>>

(* The file could not be written: the cursor has moved in memory, the      *)
(* exception ends the tick before ack().                                   *)
CommitFails == /\ pc = "acting"
               /\ offset' = CommitTarget
               /\ Rest
               /\ UNCHANGED <<base, end, hops, dropped, epoch, batchEnd,
                              disk, sensed>>

(* A tick that raises between SENSE and the commit leaves the cursor.      *)
TickDies == /\ pc = "acting"
            /\ Rest
            /\ UNCHANGED <<base, end, hops, dropped, epoch, offset, batchEnd,
                           disk, sensed>>

(* The vault's git commit is over, or failed: either way the tick is.      *)
EndTick == /\ pc = "committing"
           /\ Rest
           /\ UNCHANGED <<base, end, hops, dropped, epoch, offset, batchEnd,
                          disk, sensed>>

(* set_mind_enabled(False) cancels the task wherever it awaits; the object *)
(* is kept, and set_mind_enabled(True) runs it again.                      *)
Pause == /\ pc \in Running
         /\ pc' = "paused"
         /\ UNCHANGED <<busVars, epoch, offset, batchEnd, disk, sensed>>

Resume == /\ pc = "paused"
          /\ pc' = "starting"
          /\ UNCHANGED <<busVars, epoch, offset, batchEnd, disk, sensed>>

(* The mind is discarded, to be rebuilt on the same live bus: what the     *)
(* epoch check, next() and set_hands_enabled say they allow for.           *)
Discard == /\ pc = "paused"
           /\ pc' = "absent"
           /\ UNCHANGED <<busVars, epoch, offset, batchEnd, disk, sensed>>

(* The process ends, at any point, and another one starts: a new bus, and  *)
(* nothing but engine.json from before.                                    *)
Restart == /\ epoch < MaxEpochs
           /\ epoch' = epoch + 1
           /\ NewBus
           /\ pc' = "absent"
           /\ offset' = 0
           /\ batchEnd' = 0
           /\ sensed' = {}
           /\ UNCHANGED disk

Next == \/ Post
        \/ DeliverHop
        \/ Nudge
        \/ Build
        \/ Sense
        \/ SensePostFails
        \/ PersistNow
        \/ Commit
        \/ CommitFails
        \/ TickDies
        \/ EndTick
        \/ Pause
        \/ Resume
        \/ Discard
        \/ Restart

(* The event loop runs its ready callbacks, the cadence always elapses, a  *)
(* git commit returns, and not every tick fails at the same place forever. *)
Fairness == /\ WF_vars(DeliverHop)
            /\ WF_vars(Sense)
            /\ WF_vars(EndTick)
            /\ SF_vars(Commit)

Spec == Init /\ [][Next]_vars
FairSpec == Spec /\ Fairness

-----------------------------------------------------------------------------
(* The cursor a mind rebuilt now would start from: what is read for good.  *)
Durable == IF disk.epoch = epoch THEN disk.offset ELSE 0

(* The types; a signal sensed was posted, and so was one dropped.          *)
TypeOK == /\ BusTypeOK
          /\ epoch \in 1 .. MaxEpochs
          /\ pc \in Alive \cup {"absent"}
          /\ offset \in Nat
          /\ batchEnd \in Nat
          /\ disk \in [offset : Nat, epoch : Nat]
          /\ sensed \subseteq 1 .. end

(* No cursor ever passes a signal no tick has read: whatever interleaving  *)
(* of posts, failed ticks, pauses, rebuilt minds and restarts, a signal    *)
(* behind the cursor was sensed, or was pushed off by MAX_HELD.  (The      *)
(* restored offset that skipped the one timer landed at boot.)             *)
NothingSkipped ==
    \A i \in 1 .. Larger(offset, Durable) : i \in sensed \cup dropped

(* SPEC 16.4: ack() releases only what the file says has been read, so a   *)
(* tick that dies before its commit finds its batch still held.            *)
ReleasedOnlyWhenDurable ==
    \A i \in 1 .. base : i <= Durable \/ i \in dropped

(* The cap loses the oldest only: a signal lost unread is at least MaxHeld *)
(* behind the newest, and the queue never holds more than that.            *)
LossOnlyAtTheCap ==
    /\ end - base <= MaxHeld
    /\ \A i \in dropped : i <= end - MaxHeld

(* The branch of next() for an offset past the end is for a foreign queue: *)
(* with the epoch check in __init__, no cursor of this bus outruns it.     *)
CursorWithinQueue == offset <= end /\ batchEnd <= end /\ Durable <= end

(* Once a batch is committed, no later tick on this bus reads any of it    *)
(* again, not after a pause nor after the mind is rebuilt.                 *)
NoRereadAfterCommit ==
    [][Sense => ReadFrom(offset) >= Durable]_vars

(* The durable cursor of a bus never moves back.                           *)
DurableNeverRetreats ==
    [][epoch' = epoch => Durable' >= Durable]_vars

(* Every signal is read, or lost at the cap, unless the mind is off: a     *)
(* cleared wake or a worker's late hop delays a signal, never strands it.  *)
EverySignalIsRead ==
    \A i \in 1 .. MaxPosted :
        end >= i ~> i \in sensed \cup dropped \/ pc \in {"absent", "paused"}

(* The abstract inbox: signals read and lost, and the durable cursor.      *)
Inbox == INSTANCE InboxSpec WITH Capacity <- MaxHeld, posted <- end,
                                 read <- sensed, lost <- dropped,
                                 settled <- Durable

(* Seen from outside, bus and loop are the inbox SPEC 16 promises: nothing *)
(* is settled unread except what the full queue lost, oldest first.        *)
ImplementsInbox == Inbox!Spec

(* SPEC 16.1: posting wakes the loop early from any cadence sleep.  A loop *)
(* asleep over a signal no tick has read has its wake set, or about to be. *)
PostWakesTheLoop ==
    pc = "asleep" /\ (\E i \in offset + 1 .. end : i \notin sensed)
        => wake \/ hops > 0
=============================================================================
