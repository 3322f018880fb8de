--------------------------- MODULE MindLoopProofs ---------------------------
(* Proofs about the signal bus and the tick loop's cursor, for every       *)
(* capacity, batch size, number of signals and number of restarts.         *)
EXTENDS MindLoop, TLAPS

(* What makes the safety properties inductive: the queue is a window of    *)
(* bounded width, the file's epoch is never from the future, the memory    *)
(* cursor never lags the durable one, and while a tick is acting, all that *)
(* its commit will settle has been read or lost already.                   *)
Window == base <= end /\ end - base <= MaxHeld

EpochOrder == disk.epoch <= epoch

CursorOrder == Durable <= offset

BatchRead == pc = "acting" =>
                /\ offset <= batchEnd
                /\ \A i \in 1 .. batchEnd : i \in sensed \cup dropped

IInv == /\ TypeOK
        /\ NothingSkipped
        /\ ReleasedOnlyWhenDurable
        /\ LossOnlyAtTheCap
        /\ CursorWithinQueue
        /\ Window
        /\ EpochOrder
        /\ CursorOrder
        /\ BatchRead

USE BusAssumption, EpochAssumption

(* Appending one signal keeps the queue's own part of the invariant: the   *)
(* window, the signals lost, and what left the front.                      *)
LEMMA EnqueueLemma ==
    ASSUME IInv, Enqueue
    PROVE  /\ base' \in Nat /\ end' \in Nat /\ end' = end + 1
           /\ base' <= end' /\ end' - base' <= MaxHeld
           /\ dropped \subseteq dropped'
           /\ dropped' \subseteq 1 .. end'
           /\ \A i \in dropped' : i <= end' - MaxHeld
           /\ \A i \in 1 .. base' : i \in 1 .. base \/ i \in dropped'
<1>1. base \in Nat /\ end \in Nat /\ MaxHeld \in Nat /\ MaxHeld > 0
      /\ base <= end /\ end - base <= MaxHeld /\ dropped \subseteq 1 .. end
  BY DEF IInv, TypeOK, BusTypeOK, Window
<1>2. Overflow \in Nat /\ Overflow <= 1
      /\ (Overflow = 1 => end + 1 - base = MaxHeld + 1)
      /\ (Overflow = 0 => end + 1 - base <= MaxHeld)
  BY <1>1 DEF Overflow, Larger
<1>3. end' = end + 1 /\ base' = base + Overflow
      /\ dropped' = dropped \cup (base + 1 .. base + Overflow)
  BY DEF Enqueue
<1>4. \A i \in dropped : i <= end - MaxHeld
  BY DEF IInv, LossOnlyAtTheCap
<1>5. \A i \in dropped' : i <= end' - MaxHeld
  BY <1>1, <1>2, <1>3, <1>4
<1>6. \A i \in 1 .. base' : i \in 1 .. base \/ i \in dropped'
  BY <1>1, <1>2, <1>3
<1> QED BY <1>1, <1>2, <1>3, <1>5, <1>6

(* The next batch starts at or past the cursor, ends inside the queue, and *)
(* with what is behind the cursor leaves nothing out.                      *)
LEMMA ReadLemma ==
    ASSUME IInv
    PROVE  /\ ReadFrom(offset) \in Nat /\ ReadTo(offset) \in Nat
           /\ Durable <= ReadFrom(offset)
           /\ offset <= ReadTo(offset) /\ ReadTo(offset) <= end
           /\ ReadFrom(offset) <= end
           /\ \A i \in 1 .. ReadFrom(offset) : i \in sensed \cup dropped
           /\ \A i \in 1 .. ReadTo(offset) :
                 i \in sensed \cup (ReadFrom(offset) + 1 .. ReadTo(offset))
                       \cup dropped
<1>1. base \in Nat /\ end \in Nat /\ offset \in Nat /\ Durable \in Nat
      /\ base <= end /\ offset <= end /\ Durable <= offset /\ BatchLimit \in Nat
  BY DEF IInv, TypeOK, BusTypeOK, Window, CursorWithinQueue, CursorOrder, Durable
<1>2. ReadFrom(offset) = (IF offset > base THEN offset ELSE base)
  BY <1>1 DEF ReadFrom, Larger
<1>3. \A i \in 1 .. offset : i \in sensed \cup dropped
  BY <1>1 DEF IInv, NothingSkipped, Larger
<1>4. \A i \in 1 .. base : i \in sensed \cup dropped
  <2> SUFFICES ASSUME NEW i \in 1 .. base, i \notin dropped
               PROVE  i \in sensed \cup dropped
    OBVIOUS
  <2>1. i <= Durable
    BY DEF IInv, ReleasedOnlyWhenDurable
  <2> QED BY <2>1, <1>1, <1>3
<1>5. \A i \in 1 .. ReadFrom(offset) : i \in sensed \cup dropped
  BY <1>1, <1>2, <1>3, <1>4
<1>6. ReadTo(offset) = (IF ReadFrom(offset) + BatchLimit < end
                        THEN ReadFrom(offset) + BatchLimit ELSE end)
  BY DEF ReadTo, Smaller
<1> QED BY <1>1, <1>2, <1>5, <1>6

LEMMA InitLemma == Init => IInv
<1> SUFFICES ASSUME Init PROVE IInv
  OBVIOUS
<1>1. base = 0 /\ end = 0 /\ offset = 0 /\ batchEnd = 0 /\ dropped = {}
      /\ sensed = {} /\ epoch = 1 /\ pc = "absent"
      /\ disk = [offset |-> 0, epoch |-> 0]
  BY DEF Init, BusInit
<1>2. Durable = 0
  BY <1>1 DEF Durable
<1>3. TypeOK
  <2>1. wake \in BOOLEAN /\ hops \in Nat
    BY DEF Init, BusInit
  <2>2. epoch \in 1 .. MaxEpochs
    BY <1>1
  <2>3. disk \in [offset : Nat, epoch : Nat]
    BY <1>1
  <2> QED BY <1>1, <2>1, <2>2, <2>3 DEF TypeOK, BusTypeOK, Alive
<1> QED
  BY <1>1, <1>2, <1>3 DEF IInv, NothingSkipped, ReleasedOnlyWhenDurable,
     LossOnlyAtTheCap, CursorWithinQueue, Window, EpochOrder, CursorOrder,
     BatchRead, Larger

(* A step that only appends a signal, and moves pc at most to asleep.      *)
LEMMA EnqueueKeepsIInv ==
    ASSUME IInv, Enqueue, wake' \in BOOLEAN, hops' \in Nat,
           pc' = pc \/ pc' = "asleep",
           UNCHANGED <<epoch, offset, batchEnd, disk, sensed>>
    PROVE  IInv'
<1>1. /\ base' \in Nat /\ end' \in Nat /\ end' = end + 1
      /\ base' <= end' /\ end' - base' <= MaxHeld
      /\ dropped \subseteq dropped' /\ dropped' \subseteq 1 .. end'
      /\ \A i \in dropped' : i <= end' - MaxHeld
      /\ \A i \in 1 .. base' : i \in 1 .. base \/ i \in dropped'
  BY EnqueueLemma
<1>2. Durable' = Durable /\ Durable \in Nat
  BY DEF Durable, IInv, TypeOK
<1>3. TypeOK'
  BY <1>1 DEF IInv, TypeOK, BusTypeOK, Alive
<1>4. NothingSkipped'
  BY <1>1, <1>2 DEF IInv, NothingSkipped, Larger
<1>5. ReleasedOnlyWhenDurable'
  BY <1>1, <1>2 DEF IInv, ReleasedOnlyWhenDurable
<1>6. LossOnlyAtTheCap' /\ Window'
  BY <1>1 DEF LossOnlyAtTheCap, Window
<1>7. CursorWithinQueue'
  BY <1>1, <1>2 DEF IInv, CursorWithinQueue, TypeOK, BusTypeOK
<1>8. EpochOrder' /\ CursorOrder'
  BY <1>2 DEF IInv, EpochOrder, CursorOrder
<1>9. BatchRead'
  BY <1>1 DEF IInv, BatchRead
<1> QED BY <1>3, <1>4, <1>5, <1>6, <1>7, <1>8, <1>9 DEF IInv

(* A step that leaves the queue, the cursors and the signals read alone,   *)
(* and starts no batch.                                                    *)
LEMMA ControlKeepsIInv ==
    ASSUME IInv, wake' \in BOOLEAN, hops' \in Nat,
           pc' \in Alive \cup {"absent"}, pc' = pc \/ pc' # "acting",
           UNCHANGED <<base, end, dropped, epoch, offset, batchEnd, disk, sensed>>
    PROVE  IInv'
<1>1. Durable' = Durable
  BY DEF Durable
<1>2. TypeOK'
  BY DEF IInv, TypeOK, BusTypeOK
<1>3. NothingSkipped' /\ ReleasedOnlyWhenDurable' /\ LossOnlyAtTheCap'
  BY <1>1 DEF IInv, NothingSkipped, ReleasedOnlyWhenDurable, LossOnlyAtTheCap
<1>4. CursorWithinQueue' /\ Window' /\ EpochOrder' /\ CursorOrder' /\ BatchRead'
  BY <1>1 DEF IInv, CursorWithinQueue, Window, EpochOrder, CursorOrder, BatchRead
<1> QED BY <1>2, <1>3, <1>4 DEF IInv

(* A write of engine.json, or a commit in memory, of a cursor o all of     *)
(* whose signals have been read or lost.                                   *)
LEMMA CursorFacts ==
    ASSUME IInv
    PROVE  /\ offset \in Nat /\ batchEnd \in Nat /\ Durable \in Nat
           /\ epoch \in Nat /\ base \in Nat /\ end \in Nat /\ base <= end
           /\ offset <= end /\ batchEnd <= end /\ Durable <= offset
           /\ \A i \in 1 .. offset : i \in sensed \cup dropped
           /\ pc = "acting" => /\ offset <= batchEnd
                              /\ \A i \in 1 .. batchEnd : i \in sensed \cup dropped
<1>1. offset \in Nat /\ batchEnd \in Nat /\ Durable \in Nat /\ epoch \in Nat
      /\ base \in Nat /\ end \in Nat
  BY DEF IInv, TypeOK, BusTypeOK, Durable
<1>2. \A i \in 1 .. offset : i \in sensed \cup dropped
  BY <1>1 DEF IInv, NothingSkipped, Larger
<1> QED BY <1>1, <1>2 DEF IInv, CursorWithinQueue, CursorOrder, BatchRead, Window

LEMMA NextLemma == IInv /\ [Next]_vars => IInv'
<1> SUFFICES ASSUME IInv, [Next]_vars PROVE IInv'
  OBVIOUS
<1> wake \in BOOLEAN /\ hops \in Nat /\ pc \in Alive \cup {"absent"}
  BY DEF IInv, TypeOK, BusTypeOK
<1>1. CASE Post
  <2>1. Enqueue /\ UNCHANGED <<epoch, pc, offset, batchEnd, disk, sensed>>
    BY <1>1 DEF Post, PostOnLoop, PostFromWorker, PostUnlogged, mindVars
  <2>2. wake' \in BOOLEAN
    BY <1>1 DEF Post, PostOnLoop, PostFromWorker, PostUnlogged
  <2>3. hops' \in Nat
    BY <1>1 DEF Post, PostOnLoop, PostFromWorker, PostUnlogged
  <2> QED BY <2>1, <2>2, <2>3, EnqueueKeepsIInv
<1>2. CASE DeliverHop
  <2>1. hops' \in Nat /\ wake' \in BOOLEAN
    BY <1>2 DEF DeliverHop, Hop
  <2> QED BY <1>2, <2>1, ControlKeepsIInv DEF DeliverHop, Hop, mindVars
<1>3. CASE Nudge
  BY <1>3, ControlKeepsIInv DEF Nudge, mindVars
<1>4. CASE Build
  <2>1. offset' = Durable
    BY <1>4 DEF Build, RestoredOffset, Durable
  <2>2. Durable' = Durable /\ UNCHANGED <<base, end, wake, hops, dropped,
                           epoch, batchEnd, disk, sensed>> /\ pc' = "starting"
    BY <1>4 DEF Build, busVars, Durable
  <2>3. TypeOK'
    BY <2>1, <2>2, CursorFacts DEF IInv, TypeOK, BusTypeOK, Alive
  <2>4. NothingSkipped'
    BY <2>1, <2>2, CursorFacts DEF IInv, NothingSkipped, Larger
  <2>5. ReleasedOnlyWhenDurable' /\ LossOnlyAtTheCap' /\ Window' /\ EpochOrder'
    BY <2>2 DEF IInv, ReleasedOnlyWhenDurable, LossOnlyAtTheCap, Window, EpochOrder
  <2>6. CursorWithinQueue' /\ CursorOrder' /\ BatchRead'
    BY <2>1, <2>2, CursorFacts
       DEF IInv, CursorWithinQueue, CursorOrder, BatchRead
  <2> QED BY <2>3, <2>4, <2>5, <2>6 DEF IInv
<1>5. CASE Sense
  <2>1. /\ batchEnd' = ReadTo(offset)
        /\ sensed' = sensed \cup (ReadFrom(offset) + 1 .. ReadTo(offset))
        /\ UNCHANGED <<base, end, wake, hops, dropped, epoch, offset, disk>>
        /\ pc' = "acting" /\ Durable' = Durable
    BY <1>5 DEF Sense, busVars, Durable
  <2>2. TypeOK'
    <3>1. sensed' \subseteq 1 .. end
      <4>1. sensed \subseteq 1 .. end
        BY DEF IInv, TypeOK
      <4>2. ReadFrom(offset) + 1 .. ReadTo(offset) \subseteq 1 .. end
        BY ReadLemma, CursorFacts
      <4> QED BY <2>1, <4>1, <4>2
    <3>2. batchEnd' \in Nat /\ pc' \in Alive \cup {"absent"}
      BY <2>1, ReadLemma DEF Alive
    <3> QED BY <2>1, <3>1, <3>2 DEF IInv, TypeOK, BusTypeOK
  <2>3. NothingSkipped' /\ ReleasedOnlyWhenDurable' /\ LossOnlyAtTheCap'
        /\ Window' /\ EpochOrder' /\ CursorOrder'
    BY <2>1 DEF IInv, NothingSkipped, ReleasedOnlyWhenDurable,
       LossOnlyAtTheCap, Window, EpochOrder, CursorOrder
  <2>4. CursorWithinQueue' /\ BatchRead'
    BY <2>1, ReadLemma DEF IInv, CursorWithinQueue, BatchRead
  <2> QED BY <2>2, <2>3, <2>4 DEF IInv
<1>6. CASE SensePostFails
  BY <1>6, EnqueueKeepsIInv DEF SensePostFails, Rest
<1>7. CASE PersistNow
  <2>1. /\ disk' = [offset |-> offset, epoch |-> epoch]
        /\ UNCHANGED <<base, end, wake, hops, dropped, epoch, pc, offset,
                       batchEnd, sensed>>
    BY <1>7 DEF PersistNow, Persist, busVars
  <2>2. Durable' = offset
    BY <2>1 DEF Durable
  <2>3. TypeOK'
    BY <2>1, CursorFacts DEF IInv, TypeOK, BusTypeOK
  <2>4. NothingSkipped' /\ CursorOrder' /\ EpochOrder' /\ CursorWithinQueue'
    BY <2>1, <2>2, CursorFacts
       DEF NothingSkipped, CursorOrder, EpochOrder, CursorWithinQueue, Larger
  <2>5. ReleasedOnlyWhenDurable'
    BY <2>1, <2>2, CursorFacts DEF IInv, ReleasedOnlyWhenDurable
  <2>6. LossOnlyAtTheCap' /\ Window' /\ BatchRead'
    BY <2>1 DEF IInv, LossOnlyAtTheCap, Window, BatchRead
  <2> QED BY <2>3, <2>4, <2>5, <2>6 DEF IInv
<1>8. CASE Commit
  <2>1. /\ offset' = batchEnd /\ disk' = [offset |-> batchEnd, epoch |-> epoch]
        /\ pc = "acting" /\ pc' = "committing"
        /\ UNCHANGED <<end, wake, hops, dropped, epoch, batchEnd, sensed>>
    BY <1>8 DEF Commit, CommitTarget, Persist
  <2>2. Durable' = batchEnd
    BY <2>1 DEF Durable
  <2>3. base' = (IF base > batchEnd THEN base ELSE batchEnd)
    BY <1>8, CursorFacts DEF Commit, CommitTarget, Release, Larger, Smaller
  <2>4. TypeOK'
    BY <2>1, <2>3, CursorFacts DEF IInv, TypeOK, BusTypeOK, Alive
  <2>5. NothingSkipped' /\ CursorOrder' /\ EpochOrder' /\ CursorWithinQueue'
    BY <2>1, <2>2, CursorFacts
       DEF NothingSkipped, CursorOrder, EpochOrder, CursorWithinQueue, Larger
  <2>6. ReleasedOnlyWhenDurable'
    BY <2>1, <2>2, <2>3, CursorFacts DEF IInv, ReleasedOnlyWhenDurable
  <2>7. LossOnlyAtTheCap' /\ Window' /\ BatchRead'
    BY <2>1, <2>3, CursorFacts DEF IInv, LossOnlyAtTheCap, Window, BatchRead
  <2> QED BY <2>4, <2>5, <2>6, <2>7 DEF IInv
<1>9. CASE CommitFails
  <2>1. /\ offset' = batchEnd /\ pc = "acting" /\ pc' = "asleep"
        /\ wake' = FALSE /\ Durable' = Durable
        /\ UNCHANGED <<base, end, hops, dropped, epoch, batchEnd, disk, sensed>>
    BY <1>9 DEF CommitFails, CommitTarget, Rest, Durable
  <2>2. TypeOK'
    BY <2>1, CursorFacts DEF IInv, TypeOK, BusTypeOK, Alive
  <2>3. NothingSkipped' /\ CursorOrder' /\ CursorWithinQueue'
    BY <2>1, CursorFacts DEF NothingSkipped, CursorOrder, CursorWithinQueue, Larger
  <2>4. ReleasedOnlyWhenDurable' /\ LossOnlyAtTheCap' /\ Window' /\ EpochOrder'
        /\ BatchRead'
    BY <2>1 DEF IInv, ReleasedOnlyWhenDurable, LossOnlyAtTheCap, Window,
       EpochOrder, BatchRead
  <2> QED BY <2>2, <2>3, <2>4 DEF IInv
<1>10. CASE TickDies
  BY <1>10, ControlKeepsIInv DEF TickDies, Rest, Alive
<1>11. CASE EndTick
  BY <1>11, ControlKeepsIInv DEF EndTick, Rest, Alive
<1>12. CASE Pause
  BY <1>12, ControlKeepsIInv DEF Pause, busVars, Alive
<1>13. CASE Resume
  BY <1>13, ControlKeepsIInv DEF Resume, busVars, Alive
<1>14. CASE Discard
  BY <1>14, ControlKeepsIInv DEF Discard, busVars, Alive
<1>15. CASE Restart
  <2>1. /\ base' = 0 /\ end' = 0 /\ wake' = FALSE /\ hops' = 0 /\ dropped' = {}
        /\ pc' = "absent" /\ offset' = 0 /\ batchEnd' = 0 /\ sensed' = {}
        /\ disk' = disk /\ epoch' = epoch + 1 /\ epoch < MaxEpochs
    BY <1>15 DEF Restart, NewBus
  <2>2. disk.epoch # epoch' /\ disk.epoch <= epoch'
        /\ epoch' \in 1 .. MaxEpochs /\ disk.epoch \in Nat
    BY <2>1 DEF IInv, EpochOrder, TypeOK
  <2>3. Durable' = 0
    BY <2>1, <2>2 DEF Durable
  <2>4. TypeOK'
    BY <2>1, <2>2 DEF IInv, TypeOK, BusTypeOK
  <2> QED
    BY <2>1, <2>2, <2>3, <2>4 DEF IInv, NothingSkipped, ReleasedOnlyWhenDurable,
       LossOnlyAtTheCap, CursorWithinQueue, Window, EpochOrder, CursorOrder,
       BatchRead, Larger
<1>16. CASE UNCHANGED vars
  BY <1>16, ControlKeepsIInv DEF vars, busVars, mindVars
<1> QED
  BY <1>1, <1>2, <1>3, <1>4, <1>5, <1>6, <1>7, <1>8, <1>9, <1>10, <1>11,
     <1>12, <1>13, <1>14, <1>15, <1>16 DEF Next

(* The invariant is inductive.                                             *)
THEOREM Invariance == Spec => []IInv
<1>1. Init => IInv
  BY InitLemma
<1>2. IInv /\ [Next]_vars => IInv'
  BY NextLemma
<1> QED BY <1>1, <1>2, PTL DEF Spec

(* Every state is well typed.                                              *)
THEOREM Typing == Spec => []TypeOK
<1>1. IInv => TypeOK
  BY DEF IInv
<1> QED BY <1>1, Invariance, PTL

(* No cursor, in memory or restored, ever passes an unread signal that was *)
(* not lost at the cap.                                                    *)
THEOREM NothingSkippedSafe == Spec => []NothingSkipped
<1>1. IInv => NothingSkipped
  BY DEF IInv
<1> QED BY <1>1, Invariance, PTL

(* ack() never releases a signal the file does not yet call read.          *)
THEOREM ReleaseSafe == Spec => []ReleasedOnlyWhenDurable
<1>1. IInv => ReleasedOnlyWhenDurable
  BY DEF IInv
<1> QED BY <1>1, Invariance, PTL

(* The full queue loses only what is MaxHeld behind the newest signal.     *)
THEOREM LossSafe == Spec => []LossOnlyAtTheCap
<1>1. IInv => LossOnlyAtTheCap
  BY DEF IInv
<1> QED BY <1>1, Invariance, PTL

(* No cursor of a bus outruns it: next()'s reset to 0 is never taken.      *)
THEOREM CursorSafe == Spec => []CursorWithinQueue
<1>1. IInv => CursorWithinQueue
  BY DEF IInv
<1> QED BY <1>1, Invariance, PTL

(* What was committed is not read again while its bus lives.               *)
THEOREM NoReread == Spec => NoRereadAfterCommit
<1>1. IInv => (Sense => ReadFrom(offset) >= Durable)
  BY ReadLemma, CursorFacts
<1> QED BY <1>1, Invariance, PTL DEF NoRereadAfterCommit

(* The durable cursor of a bus never moves back.                           *)
THEOREM DurableMonotone == Spec => DurableNeverRetreats
<1>1. IInv /\ [Next]_vars => (epoch' = epoch => Durable' >= Durable)
  <2> SUFFICES ASSUME IInv, [Next]_vars, epoch' = epoch
               PROVE  Durable' >= Durable
    OBVIOUS
  <2>1. Durable \in Nat /\ offset >= Durable /\ epoch \in Nat
        /\ (pc = "acting" => batchEnd >= Durable /\ batchEnd \in Nat)
    BY CursorFacts
  <2>2. CASE PersistNow
    BY <2>1, <2>2 DEF PersistNow, Persist, Durable
  <2>3. CASE Commit
    BY <2>1, <2>3 DEF Commit, CommitTarget, Persist, Durable
  <2>4. CASE Restart
    BY <2>1, <2>4 DEF Restart
  <2>5. CASE disk' = disk
    BY <2>1, <2>5 DEF Durable
  <2>6. disk' = disk \/ PersistNow \/ Commit \/ Restart
    BY DEF Next, Post, DeliverHop, Nudge, Build, Sense, SensePostFails,
       CommitFails, TickDies, EndTick, Pause, Resume, Discard, vars, mindVars
  <2> QED BY <2>2, <2>3, <2>4, <2>5, <2>6
<1> QED BY <1>1, Invariance, PTL DEF DurableNeverRetreats, Spec

-----------------------------------------------------------------------------
(* Every step of bus and loop is a step of the abstract inbox, or leaves   *)
(* all it can see unchanged.                                               *)
LEMMA InboxStep == IInv /\ [Next]_vars => [Inbox!Next]_(Inbox!vars)
<1> SUFFICES ASSUME IInv, [Next]_vars PROVE [Inbox!Next]_(Inbox!vars)
  OBVIOUS
<1>1. ASSUME Enqueue, UNCHANGED <<disk, epoch, sensed>>
      PROVE  Inbox!Post
  <2>1. base \in Nat /\ end \in Nat /\ base <= end /\ MaxHeld \in Nat
        /\ end - base <= MaxHeld /\ dropped \subseteq dropped'
    BY <1>1, CursorFacts, EnqueueLemma DEF IInv, Window
  <2>2. end' = end + 1
        /\ dropped' = dropped \cup (base + 1 .. base + Overflow)
        /\ sensed' = sensed /\ Durable' = Durable
    BY <1>1 DEF Enqueue, Durable
  <2>3. Overflow = (IF 0 > (end + 1 - base) - MaxHeld
                    THEN 0 ELSE (end + 1 - base) - MaxHeld)
    BY DEF Overflow, Larger
  <2>4. CASE Overflow = 0
    <3>1. dropped' \subseteq dropped \cup 1 .. 0
      BY <2>1, <2>2, <2>4
    <3> QED BY <2>1, <2>2, <3>1 DEF Inbox!Post
  <2>5. CASE Overflow = 1
    <3>1. base + 1 \in 0 .. end + 1 /\ base + 1 <= end + 1 - MaxHeld
      BY <2>1, <2>3, <2>5
    <3>2. dropped' \subseteq dropped \cup 1 .. base + 1
      BY <2>1, <2>2, <2>5
    <3> QED BY <2>1, <2>2, <3>1, <3>2 DEF Inbox!Post
  <2> QED BY <2>1, <2>3, <2>4, <2>5
<1>2. CASE Post
  BY <1>1, <1>2 DEF Post, PostOnLoop, PostFromWorker, PostUnlogged,
     mindVars, Inbox!Next
<1>3. CASE SensePostFails
  BY <1>1, <1>3 DEF SensePostFails, Inbox!Next
<1>4. CASE Sense
  <2>1. end' = end /\ dropped' = dropped /\ Durable' = Durable
        /\ sensed' = sensed \cup (ReadFrom(offset) + 1 .. ReadTo(offset))
    BY <1>4 DEF Sense, busVars, Durable
  <2>2. ReadFrom(offset) \in Durable .. end /\ ReadTo(offset) \in Durable .. end
    BY ReadLemma, CursorFacts
  <2>3. 1 .. ReadFrom(offset) \subseteq sensed \cup dropped
    BY ReadLemma
  <2> QED BY <2>1, <2>2, <2>3 DEF Inbox!Read, Inbox!Next
<1>5. CASE PersistNow
  <2>1. end' = end /\ dropped' = dropped /\ sensed' = sensed
        /\ Durable' = offset
    BY <1>5 DEF PersistNow, Persist, busVars, Durable
  <2>2. offset \in Durable .. end /\ 1 .. offset \subseteq sensed \cup dropped
    BY CursorFacts
  <2> QED BY <2>1, <2>2 DEF Inbox!Settle, Inbox!Next
<1>6. CASE Commit
  <2>1. end' = end /\ dropped' = dropped /\ sensed' = sensed
        /\ Durable' = batchEnd /\ pc = "acting"
    BY <1>6 DEF Commit, CommitTarget, Persist, Durable
  <2>2. batchEnd \in Durable .. end
        /\ 1 .. batchEnd \subseteq sensed \cup dropped
    BY <2>1, CursorFacts
  <2> QED BY <2>1, <2>2 DEF Inbox!Settle, Inbox!Next
<1>7. CASE Restart
  <2>1. disk' = disk /\ epoch' = epoch + 1 /\ disk.epoch <= epoch
        /\ disk.epoch \in Nat /\ epoch \in Nat
    BY <1>7 DEF Restart, IInv, EpochOrder, TypeOK
  <2>2. Durable' = 0
    BY <2>1 DEF Durable
  <2> QED BY <1>7, <2>2 DEF Restart, NewBus, Inbox!Renew, Inbox!Next
<1>8. CASE UNCHANGED <<end, sensed, dropped, disk, epoch>>
  <2>1. Durable' = Durable
    BY <1>8 DEF Durable
  <2> QED BY <1>8, <2>1 DEF Inbox!vars
<1>9. \/ Post \/ SensePostFails \/ Sense \/ PersistNow \/ Commit \/ Restart
      \/ UNCHANGED <<end, sensed, dropped, disk, epoch>>
  BY DEF Next, DeliverHop, Hop, Nudge, Build, CommitFails, TickDies, EndTick,
     Pause, Resume, Discard, vars, busVars, mindVars
<1> QED BY <1>2, <1>3, <1>4, <1>5, <1>6, <1>7, <1>8, <1>9

(* The bus and the loop implement the at-least-once inbox.                 *)
THEOREM Refinement == Spec => ImplementsInbox
<1>1. Init => Inbox!Init
  BY DEF Init, BusInit, Inbox!Init, Durable
<1>2. IInv /\ [Next]_vars => [Inbox!Next]_(Inbox!vars)
  BY InboxStep
<1> QED BY <1>1, <1>2, Invariance, PTL DEF Spec, ImplementsInbox, Inbox!Spec
=============================================================================
