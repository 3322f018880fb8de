---------------------------- MODULE GateTurnsProofs ----------------------------
(* Proofs about what every turn goes through: the park gate, for every cast*)
(* of characters, any number of turns and off-turn calls, and any number of*)
(* patiences running out; then the conversation itself, for any number of  *)
(* turns and unprompted lines.                                             *)
EXTENDS ParkGate, Turns, SequenceTheorems, TLAPS

-----------------------------------------------------------------------------
(* The park gate.                                                          *)
(*                                                                         *)
(* What makes the safety properties inductive.  A worker's door changes on *)
(* their way follow from where it is.                                      *)
HopsInOrder ==
    \A c \in Characters :
        /\ worker[c] \in {"none", "starting"} => hops[c] = <<>>
        /\ worker[c] = "bare" => hops[c] \in {<<>>, <<Opened>>}
        /\ worker[c] \in {"closing", "parked"} => hops[c] \in {<<>>, <<Shut>>}
        /\ worker[c] = "over" => hops[c] \in {<<>>, <<Opened>>, <<Shut, Opened>>}

(* A parker's door is shut once its close has been run.                    *)
ShutOnceRun ==
    \A c \in Characters :
        worker[c] \in {"closing", "parked"} /\ hops[c] = <<>> => c \in closers

(* A lab that shut the door holds it until its worker decides or is done.  *)
Borrowing == {"starting", "closing", "parked"}
LabHoldsIt ==
    /\ \A c \in Characters : job[c] \in {"turns", "calls"} => c \in closers
    /\ \A c \in quieted : worker[c] # "none"
    /\ \A c \in quieted : worker[c] \in Borrowing => c \in closers

(* From the end of the wait for her turns on, none that was not late is in *)
(* flight; from the end of the wait for calls on, nothing else is either.  *)
TurnsAreOver ==
    \A c \in Characters : job[c] = "calls" =>
        \A t \in Turns : Whose[t] = c /\ turn[t] = "live" => t \in late

CallsAreOver ==
    \A c \in quieted : worker[c] \in Borrowing => Disturbed(c) \subseteq late \cup pressed

IInv == /\ TypeOK
        /\ NoStrandedDoor
        /\ HopsInOrder
        /\ ShutOnceRun
        /\ LabHoldsIt
        /\ TurnsAreOver
        /\ CallsAreOver

USE CardAssumption

(* The invariant at the start.                                             *)
LEMMA InitLemma == Init => IInv
BY SMTT(30) DEF Init, IInv, TypeOK, TurnStates, ThoughtStates, JobStates, WorkerStates,
   NoStrandedDoor, HopsInOrder, ShutOnceRun, LabHoldsIt, TurnsAreOver, CallsAreOver,
   Borrowing, Disturbed

(* A step that only moves calls about, none of which goes through a shut   *)
(* door except a late one.                                                 *)
LEMMA CallsKeepIInv ==
    ASSUME IInv, UNCHANGED <<doorVars, jobVars, quieted>>,
           turn' \in [Turns -> TurnStates],
           thought' \in [Thoughts -> ThoughtStates],
           lates' \in 0 .. MaxLate,
           late' \subseteq Turns \cup Thoughts,
           pressed' \subseteq pressed,
           \A t \in Turns : turn'[t] = "live" =>
               closers = {} \/ t \in late' \/ (turn[t] = "live" /\ t \notin late),
           \A c \in Characters :
               closers # {} /\ Disturbed(c) \subseteq late \cup pressed
                   => Disturbed(c)' \subseteq late' \cup pressed'
    PROVE  IInv'
<1>1. TypeOK'
  BY DEF IInv, TypeOK, doorVars, jobVars
<1>2. NoStrandedDoor' /\ HopsInOrder' /\ ShutOnceRun' /\ LabHoldsIt'
  BY DEF IInv, NoStrandedDoor, HopsInOrder, ShutOnceRun, LabHoldsIt, doorVars, jobVars
<1>3. TurnsAreOver'
  BY DEF IInv, TurnsAreOver, LabHoldsIt, doorVars, jobVars
<1>4. CallsAreOver'
  <2> SUFFICES ASSUME NEW c \in quieted, worker[c] \in Borrowing
               PROVE  Disturbed(c)' \subseteq late' \cup pressed'
    BY DEF CallsAreOver, jobVars
  <2>1. c \in Characters /\ closers # {}
    BY DEF IInv, TypeOK, LabHoldsIt
  <2>2. Disturbed(c) \subseteq late \cup pressed
    BY DEF IInv, CallsAreOver
  <2> QED BY <2>1, <2>2
<1> QED BY <1>1, <1>2, <1>3, <1>4 DEF IInv

(* Each step of a caller.                                                  *)
LEMMA TurnSteps ==
    ASSUME IInv, NEW t \in Turns,
           TurnArrives(t) \/ TurnGoesAnyway(t) \/ TurnPersists(t) \/ TurnEnds(t)
    PROVE  IInv'
<1>1. CASE TurnArrives(t)
  BY <1>1, CallsKeepIInv, SMTT(30) DEF TurnArrives, IInv, TypeOK, TurnStates, doorVars,
     jobVars, history, Disturbed
<1>2. CASE TurnGoesAnyway(t)
  BY <1>2, CallsKeepIInv, SMTT(30) DEF TurnGoesAnyway, GoesAnyway, IInv, TypeOK,
     TurnStates, doorVars, jobVars, history, Disturbed
<1>3. CASE TurnPersists(t)
  BY <1>3, CallsKeepIInv, SMTT(30) DEF TurnPersists, IInv, TypeOK, TurnStates, doorVars,
     jobVars, history, Disturbed
<1>4. CASE TurnEnds(t)
  BY <1>4, CallsKeepIInv, SMTT(30) DEF TurnEnds, Forget, IInv, TypeOK, TurnStates,
     doorVars, jobVars, history, Disturbed
<1> QED BY <1>1, <1>2, <1>3, <1>4

(* Each step of an off-turn call.                                          *)
LEMMA ThoughtSteps ==
    ASSUME IInv, NEW u \in Thoughts,
           ThoughtArrives(u) \/ ThoughtGoesAnyway(u) \/ ThoughtEnds(u)
    PROVE  IInv'
<1>1. CASE ThoughtArrives(u)
  BY <1>1, CallsKeepIInv, SMTT(30) DEF ThoughtArrives, IInv, TypeOK, ThoughtStates,
     doorVars, jobVars, history, Disturbed
<1>2. CASE ThoughtGoesAnyway(u)
  BY <1>2, CallsKeepIInv, SMTT(30) DEF ThoughtGoesAnyway, GoesAnyway, IInv, TypeOK,
     ThoughtStates, doorVars, jobVars, history, Disturbed
<1>3. CASE ThoughtEnds(u)
  BY <1>3, CallsKeepIInv, SMTT(30) DEF ThoughtEnds, Forget, IInv, TypeOK, ThoughtStates,
     doorVars, jobVars, history, Disturbed
<1> QED BY <1>1, <1>2, <1>3

(* A lab moves on, and leaves the door alone.                              *)
LEMMA LabMoves ==
    ASSUME IInv, NEW c \in Characters, NEW j \in JobStates, NEW w \in WorkerStates,
           job' = [job EXCEPT ![c] = j],
           worker' = [worker EXCEPT ![c] = w],
           UNCHANGED <<doorVars, callVars, history>>,
           w # "none" <=> j \in {"rendering", "draining"},
           w = worker[c] \/ (w = "starting" /\ worker[c] = "none"),
           j \in {"turns", "calls"} => job[c] \in {"turns", "calls"},
           c \in closers => j \in {"turns", "calls", "rendering", "draining"},
           j = "calls" => InFlight(c) = {}
    PROVE  IInv'
<1>1. TypeOK'
  BY DEF IInv, TypeOK, doorVars, callVars, history
<1>2. NoStrandedDoor'
  BY DEF IInv, TypeOK, NoStrandedDoor, doorVars
<1>3. HopsInOrder' /\ ShutOnceRun'
  BY DEF IInv, TypeOK, HopsInOrder, ShutOnceRun, doorVars
<1>4. LabHoldsIt'
  BY DEF IInv, TypeOK, LabHoldsIt, doorVars, history
<1>5. TurnsAreOver'
  BY DEF IInv, TypeOK, TurnsAreOver, InFlight, callVars, history
<1>6. CallsAreOver'
  BY DEF IInv, TypeOK, LabHoldsIt, CallsAreOver, Disturbed, callVars, history
<1> QED BY <1>1, <1>2, <1>3, <1>4, <1>5, <1>6 DEF IInv

(* The steps of a lab that leave the door alone.                           *)
LEMMA LabSteps ==
    ASSUME IInv, NEW c \in Characters,
           Shoot(c) \/ TakeLock(c) \/ ReadyToRender(c) \/ TurnsIdle(c)
             \/ CancelQueued(c) \/ CancelRendering(c) \/ Finished(c)
    PROVE  IInv'
<1> USE DEF JobStates, WorkerStates
<1>1. worker[c] \in WorkerStates /\ worker = [worker EXCEPT ![c] = worker[c]]
  BY DEF IInv, TypeOK
<1>2. CASE Shoot(c)
  BY <1>1, <1>2, LabMoves DEF Shoot, IInv, TypeOK, NoStrandedDoor
<1>3. CASE TakeLock(c)
  BY <1>1, <1>3, LabMoves DEF TakeLock, IInv, TypeOK, NoStrandedDoor
<1>4. CASE ReadyToRender(c)
  BY <1>4, LabMoves DEF ReadyToRender, IInv, TypeOK
<1>5. CASE TurnsIdle(c)
  BY <1>1, <1>5, LabMoves DEF TurnsIdle, IInv, TypeOK
<1>6. CASE CancelQueued(c)
  BY <1>1, <1>6, LabMoves DEF CancelQueued, IInv, TypeOK, NoStrandedDoor
<1>7. CASE CancelRendering(c)
  BY <1>1, <1>7, LabMoves DEF CancelRendering, IInv, TypeOK
<1>8. CASE Finished(c)
  BY <1>1, <1>8, LabMoves DEF Finished, IInv, TypeOK, NoStrandedDoor
<1> QED BY <1>2, <1>3, <1>4, <1>5, <1>6, <1>7, <1>8

(* The wait for a quiet moment begins, and ends.                           *)
LEMMA ParkSteps ==
    ASSUME IInv, NEW c \in Characters,
           ReadyToPark(c) \/ CallsIdle(c) \/ QuietWaitBlown(c)
    PROVE  IInv'
<1>1. CASE ReadyToPark(c)
  <2>1. worker[c] = "none" /\ hops[c] = <<>>
    BY <1>1 DEF ReadyToPark, IInv, TypeOK, HopsInOrder
  <2>2. TypeOK' /\ NoStrandedDoor'
    BY <1>1 DEF ReadyToPark, CloseFor, IInv, TypeOK, NoStrandedDoor, JobStates, callVars,
       history
  <2>3. HopsInOrder' /\ ShutOnceRun' /\ LabHoldsIt'
    BY <1>1, <2>1 DEF ReadyToPark, CloseFor, IInv, TypeOK, HopsInOrder, ShutOnceRun,
       LabHoldsIt, history
  <2>4. TurnsAreOver' /\ CallsAreOver'
    BY <1>1 DEF ReadyToPark, CloseFor, IInv, TypeOK, TurnsAreOver, CallsAreOver,
       Disturbed, callVars, history
  <2> QED BY <2>2, <2>3, <2>4 DEF IInv
<1>2. CASE CallsIdle(c) \/ QuietWaitBlown(c)
  <2>1. StartsRender(c) /\ pressed \subseteq pressed' /\ Holders \subseteq pressed'
    BY <1>2 DEF CallsIdle, QuietWaitBlown
  <2>2. pressed' \subseteq Turns \cup Thoughts
    BY <1>2 DEF CallsIdle, QuietWaitBlown, Holders, IInv, TypeOK
  <2>3. TypeOK'
    BY <2>1, <2>2 DEF StartsRender, IInv, TypeOK, JobStates, WorkerStates, doorVars,
       callVars
  <2>4. NoStrandedDoor' /\ HopsInOrder' /\ ShutOnceRun' /\ LabHoldsIt' /\ TurnsAreOver'
    BY <2>1, SMTT(30) DEF StartsRender, IInv, TypeOK, NoStrandedDoor, HopsInOrder,
       ShutOnceRun, LabHoldsIt, TurnsAreOver, Borrowing, doorVars, callVars
  <2>5. CallsAreOver'
    <3> SUFFICES ASSUME NEW d \in quieted', worker'[d] \in Borrowing
                 PROVE  Disturbed(d)' \subseteq late' \cup pressed'
      BY DEF CallsAreOver
    <3>0. Disturbed(d)' = Disturbed(d) /\ late' = late
      BY <2>1 DEF StartsRender, Disturbed, callVars
    <3>1. CASE d = c
      <4>1. \A t \in Turns : Whose[t] = c /\ turn[t] = "live" => t \in late
        BY <2>1 DEF StartsRender, IInv, TurnsAreOver
      <4> QED BY <2>1, <3>0, <3>1, <4>1 DEF Disturbed, Holders
    <3>2. CASE d # c
      <4>1. d \in quieted /\ worker[d] \in Borrowing
        BY <2>1, <3>2 DEF StartsRender, IInv, TypeOK
      <4> QED BY <2>1, <3>0, <4>1 DEF IInv, CallsAreOver
    <3> QED BY <3>1, <3>2
  <2> QED BY <2>3, <2>4, <2>5 DEF IInv
<1> QED BY <1>1, <1>2

(* A worker thread moves on, and its door changes with it.                 *)
LEMMA WorkerMoves ==
    ASSUME IInv, NEW c \in Characters, worker[c] # "none",
           NEW w \in WorkerStates \ {"none"}, NEW h \in Seq({Shut, Opened}),
           worker' = [worker EXCEPT ![c] = w],
           hops' = [hops EXCEPT ![c] = h],
           UNCHANGED <<closers, callVars, job, history>>,
           w \in Borrowing => worker[c] \in Borrowing,
           w = "starting" => h = <<>>,
           w = "bare" => h \in {<<>>, <<Opened>>},
           w \in {"closing", "parked"} => h \in {<<>>, <<Shut>>},
           w = "over" => h \in {<<>>, <<Opened>>, <<Shut, Opened>>},
           w \in {"closing", "parked"} /\ h = <<>> => c \in closers
    PROVE  IInv'
<1>1. TypeOK'
  BY DEF IInv, TypeOK, callVars, history
<1>2. NoStrandedDoor'
  BY DEF IInv, NoStrandedDoor
<1>3. HopsInOrder' /\ ShutOnceRun'
  BY DEF IInv, TypeOK, HopsInOrder, ShutOnceRun, WorkerStates
<1>4. LabHoldsIt' /\ TurnsAreOver' /\ CallsAreOver'
  BY DEF IInv, TypeOK, LabHoldsIt, TurnsAreOver, CallsAreOver, Disturbed,
     callVars, history
<1> QED BY <1>1, <1>2, <1>3, <1>4 DEF IInv

(* Short sequences.                                                        *)
LEMMA One == ASSUME NEW x
             PROVE  /\ Append(<<>>, x) = <<x>> /\ <<x>> # <<>>
                    /\ Head(<<x>>) = x /\ Tail(<<x>>) = <<>>
OBVIOUS

(* A worker hands the loop at most two door changes.                       *)
LEMMA Two == ASSUME NEW x, NEW y
             PROVE  /\ Append(<<x>>, y) = <<x, y>> /\ <<x, y>> # <<>>
                    /\ Head(<<x, y>>) = x /\ Tail(<<x, y>>) = <<y>>
<1>1. <<x>> \in Seq({x, y}) /\ <<x, y>> \in Seq({x, y}) /\ Len(<<x>>) = 1
  OBVIOUS
<1>2. Append(<<x>>, y) = <<x, y>>
  <2> DEFINE s == Append(<<x>>, y)
             u == <<x, y>>
  <2>1. s \in Seq({x, y}) /\ Len(s) = 2 /\ s[1] = x /\ s[2] = y
    BY <1>1, AppendProperties
  <2>2. Len(u) = 2 /\ u[1] = x /\ u[2] = y
    OBVIOUS
  <2> HIDE DEF s, u
  <2>3. s = u
    BY <1>1, <2>1, <2>2, SeqEqual DEF u
  <2> QED BY <2>3 DEF s, u
<1>3. <<x, y>> # <<>> /\ Head(<<x, y>>) = x /\ Tail(<<x, y>>) = <<y>>
  OBVIOUS
<1> QED BY <1>2, <1>3

(* What a worker hands to the loop, in the order it came.                  *)
LEMMA HopFacts ==
    /\ Append(<<>>, Shut) = <<Shut>>
    /\ Append(<<>>, Opened) = <<Opened>>
    /\ Append(<<Shut>>, Opened) = <<Shut, Opened>>
    /\ Head(<<Shut>>) = Shut /\ Head(<<Opened>>) = Opened
    /\ Head(<<Shut, Opened>>) = Shut
    /\ Tail(<<Shut>>) = <<>> /\ Tail(<<Opened>>) = <<>>
    /\ Tail(<<Shut, Opened>>) = <<Opened>>
    /\ <<>> # <<Shut>> /\ <<>> # <<Opened>> /\ <<>> # <<Shut, Opened>>
    /\ <<>> \in Seq({Shut, Opened}) /\ <<Shut>> \in Seq({Shut, Opened})
    /\ <<Opened>> \in Seq({Shut, Opened}) /\ <<Shut, Opened>> \in Seq({Shut, Opened})
<1>1. /\ <<>> \in Seq({Shut, Opened}) /\ <<Shut>> \in Seq({Shut, Opened})
      /\ <<Opened>> \in Seq({Shut, Opened}) /\ <<Shut, Opened>> \in Seq({Shut, Opened})
  OBVIOUS
<1> QED BY <1>1, One, Two

(* Each step of a worker thread.                                           *)
LEMMA WorkerSteps ==
    ASSUME IInv, NEW c \in Characters,
           NoNeedToPark(c) \/ Parks(c) \/ Evicts(c) \/ GivesBack(c) \/ BareRenderEnds(c)
    PROVE  IInv'
<1> USE HopFacts DEF Borrowing, WorkerStates
<1>1. CASE NoNeedToPark(c)
  BY <1>1, WorkerMoves DEF NoNeedToPark, Hops, IInv, TypeOK, HopsInOrder
<1>2. CASE Parks(c)
  BY <1>2, WorkerMoves DEF Parks, Hops, IInv, TypeOK, HopsInOrder
<1>3. CASE Evicts(c)
  <2>1. hops' = [hops EXCEPT ![c] = hops[c]] /\ hops[c] \in Seq({Shut, Opened})
    BY <1>3 DEF Evicts, doorVars, IInv, TypeOK
  <2> QED BY <1>3, <2>1, WorkerMoves DEF Evicts, doorVars, IInv, HopsInOrder, ShutOnceRun
<1>4. CASE GivesBack(c)
  BY <1>4, WorkerMoves DEF GivesBack, Hops, IInv, TypeOK, HopsInOrder
<1>5. CASE BareRenderEnds(c)
  <2>1. hops' = [hops EXCEPT ![c] = hops[c]] /\ hops[c] \in Seq({Shut, Opened})
    BY <1>5 DEF BareRenderEnds, doorVars, IInv, TypeOK
  <2> QED BY <1>5, <2>1, WorkerMoves DEF BareRenderEnds, doorVars, IInv, HopsInOrder
<1> QED BY <1>1, <1>2, <1>3, <1>4, <1>5

(* Opening the door for one camera lets nobody through while another's is  *)
(* shut.                                                                   *)
LEMMA OpensFacts ==
    ASSUME IInv, NEW c \in Characters, Opens(c)
    PROVE  /\ closers' = closers \ {c}
           /\ turn' \in [Turns -> TurnStates]
           /\ thought' \in [Thoughts -> ThoughtStates]
           /\ \A d \in closers \ {c} : UNCHANGED callVars
BY DEF Opens, OpenFor, callVars, IInv, TypeOK, TurnStates, ThoughtStates

(* The door is opened for a camera that is not lent the card.              *)
LEMMA OpensKeepIInv ==
    ASSUME IInv, NEW c \in Characters, Opens(c),
           UNCHANGED <<lates, late, pressed>>,
           hops' \in [Characters -> Seq({Shut, Opened})],
           job' \in [Characters -> JobStates],
           worker' \in [Characters -> WorkerStates],
           quieted' \subseteq quieted,
           \A d \in Characters :
               worker'[d] # "none" <=> job'[d] \in {"rendering", "draining"},
           \A d \in Characters \ {c} :
               hops'[d] = hops[d] /\ job'[d] = job[d] /\ worker'[d] = worker[d],
           worker'[c] \notin Borrowing,
           worker'[c] = "none" => hops'[c] = <<>> /\ c \notin quieted',
           worker'[c] = "bare" => hops'[c] \in {<<>>, <<Opened>>},
           worker'[c] = "over" => hops'[c] \in {<<>>, <<Opened>>, <<Shut, Opened>>},
           job'[c] \notin {"turns", "calls"}
    PROVE  IInv'
<1> USE OpensFacts
<1>1. TypeOK'
  BY DEF IInv, TypeOK
<1>2. NoStrandedDoor'
  BY DEF IInv, TypeOK, NoStrandedDoor
<1>3. HopsInOrder' /\ ShutOnceRun'
  BY DEF IInv, TypeOK, HopsInOrder, ShutOnceRun, Borrowing
<1>4. LabHoldsIt'
  BY DEF IInv, TypeOK, LabHoldsIt, Borrowing
<1>5. TurnsAreOver'
  <2> SUFFICES ASSUME NEW d \in Characters, job'[d] = "calls"
               PROVE  \A t \in Turns : Whose[t] = d /\ turn'[t] = "live" => t \in late'
    BY DEF TurnsAreOver
  <2>1. d # c /\ job[d] = "calls" /\ d \in closers \ {c}
    BY DEF IInv, LabHoldsIt
  <2> QED BY <2>1 DEF IInv, TurnsAreOver, callVars
<1>6. CallsAreOver'
  <2> SUFFICES ASSUME NEW d \in quieted', worker'[d] \in Borrowing
               PROVE  Disturbed(d)' \subseteq late' \cup pressed'
    BY DEF CallsAreOver
  <2>1. d # c /\ worker[d] \in Borrowing /\ d \in quieted /\ d \in closers \ {c}
    BY DEF IInv, TypeOK, LabHoldsIt
  <2> QED BY <2>1 DEF IInv, CallsAreOver, Disturbed, callVars
<1> QED BY <1>1, <1>2, <1>3, <1>4, <1>5, <1>6 DEF IInv

(* Every way out of a job opens the door.                                  *)
LEMMA LeavingSteps ==
    ASSUME IInv, NEW c \in Characters,
           NotReady(c) \/ CancelWaiting(c) \/ RenderEnds(c)
    PROVE  IInv'
<1>1. PICK next \in {"none", "finishing"} : Leaves(c, next)
  BY Zenon DEF NotReady, CancelWaiting, RenderEnds
<1>2. hops[c] = <<>>
  BY DEF NotReady, CancelWaiting, RenderEnds, WorkerDone, IInv, TypeOK, HopsInOrder
<1>3. next \in JobStates /\ "none" \in WorkerStates /\ "none" \notin Borrowing
  BY DEF JobStates, WorkerStates, Borrowing
<1> QED BY <1>1, <1>2, <1>3, OpensKeepIInv DEF Leaves, IInv, TypeOK

(* A worker's door change reaches the loop.                                *)
LEMMA HopSteps ==
    ASSUME IInv, NEW c \in Characters, RunHop(c)
    PROVE  IInv'
<1> USE HopFacts
<1>1. CASE Head(hops[c]) = Shut
  <2>1. worker[c] \in {"closing", "parked", "over"}
    BY <1>1 DEF RunHop, IInv, TypeOK, HopsInOrder, WorkerStates, Shut, Opened
  <2>2. /\ CloseFor(c) /\ hops' = [hops EXCEPT ![c] = Tail(@)]
      /\ UNCHANGED <<jobVars, history>>
    BY <1>1 DEF RunHop
  <2>3. hops'[c] = <<>> \/ (worker[c] = "over" /\ hops'[c] = <<Opened>>)
    <3>1. hops[c] # <<>> /\ Shut # Opened
      BY DEF RunHop, Shut, Opened
    <3>2. hops[c] = <<Shut>> \/ (worker[c] = "over" /\ hops[c] = <<Shut, Opened>>)
      BY <1>1, <2>1, <3>1 DEF IInv, HopsInOrder
    <3>3. hops'[c] = Tail(hops[c])
      BY <2>2 DEF IInv, TypeOK
    <3> QED BY <3>2, <3>3
  <2>4. job[c] \in {"rendering", "draining"}
    BY <2>1 DEF IInv, TypeOK
  <2>5. TypeOK'
    <3>1. Tail(hops[c]) \in Seq({Shut, Opened})
      BY <2>2, <2>3 DEF IInv, TypeOK
    <3> QED BY <2>2, <3>1 DEF CloseFor, IInv, TypeOK, callVars, jobVars, history
  <2>6. NoStrandedDoor' /\ LabHoldsIt'
    BY <2>2, <2>4 DEF CloseFor, IInv, NoStrandedDoor, LabHoldsIt, jobVars, history
  <2>7. HopsInOrder'
    BY <2>1, <2>2, <2>3 DEF IInv, TypeOK, HopsInOrder, jobVars
  <2>8. ShutOnceRun'
    BY <2>2 DEF CloseFor, IInv, TypeOK, ShutOnceRun, jobVars
  <2>9. TurnsAreOver' /\ CallsAreOver'
    BY <2>2 DEF CloseFor, IInv, TurnsAreOver, CallsAreOver, Disturbed, callVars, jobVars,
       history
  <2> QED BY <2>5, <2>6, <2>7, <2>8, <2>9 DEF IInv
<1>2. CASE Head(hops[c]) # Shut
  <2>1. worker[c] \in {"bare", "over"} /\ hops[c] = <<Opened>>
    BY <1>2 DEF RunHop, IInv, TypeOK, HopsInOrder, WorkerStates
  <2>2. Opens(c) /\ hops' = [hops EXCEPT ![c] = <<>>] /\ UNCHANGED <<jobVars, history>>
    BY <1>2, <2>1 DEF RunHop
  <2>3. worker[c] \notin Borrowing /\ job[c] \notin {"turns", "calls"}
    BY <2>1 DEF Borrowing, IInv, TypeOK
  <2> QED BY <2>1, <2>2, <2>3, OpensKeepIInv DEF jobVars, history, IInv, TypeOK
<1> QED BY <1>1, <1>2

-----------------------------------------------------------------------------
(* Every step keeps the invariant.                                         *)
LEMMA StepLemma == IInv /\ [Next]_vars => IInv'
<1> SUFFICES ASSUME IInv, [Next]_vars PROVE IInv'
  OBVIOUS
<1>1. ASSUME NEW t \in Turns,
             TurnArrives(t) \/ TurnGoesAnyway(t) \/ TurnPersists(t) \/ TurnEnds(t)
      PROVE  IInv'
  BY <1>1, TurnSteps
<1>2. ASSUME NEW u \in Thoughts,
             ThoughtArrives(u) \/ ThoughtGoesAnyway(u) \/ ThoughtEnds(u)
      PROVE  IInv'
  BY <1>2, ThoughtSteps
<1>3. ASSUME NEW c \in Characters, RunHop(c)
      PROVE  IInv'
  BY <1>3, HopSteps
<1>4. ASSUME NEW c \in Characters,
             \/ Shoot(c) \/ TakeLock(c) \/ ReadyToRender(c) \/ TurnsIdle(c)
             \/ CancelQueued(c) \/ CancelRendering(c) \/ Finished(c)
      PROVE  IInv'
  BY <1>4, LabSteps
<1>5. ASSUME NEW c \in Characters, NotReady(c) \/ CancelWaiting(c) \/ RenderEnds(c)
      PROVE  IInv'
  BY <1>5, LeavingSteps
<1>6. ASSUME NEW c \in Characters, ReadyToPark(c) \/ CallsIdle(c) \/ QuietWaitBlown(c)
      PROVE  IInv'
  BY <1>6, ParkSteps
<1>7. ASSUME NEW c \in Characters,
             NoNeedToPark(c) \/ Parks(c) \/ Evicts(c) \/ GivesBack(c) \/ BareRenderEnds(c)
      PROVE  IInv'
  BY <1>7, WorkerSteps
<1>8. CASE UNCHANGED vars
  BY <1>8 DEF vars, doorVars, callVars, jobVars, history, IInv, TypeOK, NoStrandedDoor,
     HopsInOrder, ShutOnceRun, LabHoldsIt, TurnsAreOver, CallsAreOver, Disturbed
<1> QED BY <1>1, <1>2, <1>3, <1>4, <1>5, <1>6, <1>7, <1>8 DEF Next

(* The inductive invariant holds in every behaviour.                       *)
THEOREM Invariance == Spec => []IInv
BY InitLemma, StepLemma, PTL DEF Spec

(* The types, and no worker thread is left behind on the card: whatever    *)
(* the number of cameras, a lab's job is over only when its worker is.     *)
THEOREM Typing == Spec => []TypeOK
<1>1. IInv => TypeOK
  BY DEF IInv
<1> QED BY <1>1, Invariance, PTL

(* No way out of a render leaves the door shut with nobody to open it.     *)
THEOREM NoStrandedDoorSafe == Spec => []NoStrandedDoor
<1>1. IInv => NoStrandedDoor
  BY DEF IInv
<1> QED BY <1>1, Invariance, PTL

(* The door stays shut for a loan, whatever any other camera does.         *)
THEOREM DoorSafe == Spec => []DoorShutDuringLoan
<1>1. IInv => DoorShutDuringLoan
  BY DEF IInv, ShutOnceRun, DoorShutDuringLoan
<1> QED BY <1>1, Invariance, PTL

(* A park whose lab waited evicts under no call that did not run out of    *)
(* patience, or that it did not run out of patience with.                  *)
THEOREM LoanIsQuietSafe == Spec => []LoanIsQuiet
<1>1. IInv => LoanIsQuiet
  BY DEF IInv, CallsAreOver, Borrowing, LoanIsQuiet
<1> QED BY <1>1, Invariance, PTL

-----------------------------------------------------------------------------
(* The turns.  First their rows, by themselves: what drawing, admitting and*)
(* taking back a line does to a window that is a run of exchanges.         *)

(* The fields of a row.                                                    *)
Parts == {"turn", "role", "admitted", "drawn", "unwound"}

(* What a row is, and what makes one.                                      *)
LEMMA RowIs ==
    ASSUME NEW w \in Rows
    PROVE  /\ DOMAIN w = Parts /\ w.turn \in AllTurns /\ w.role \in {"user", "assistant"}
           /\ w.admitted \in BOOLEAN /\ w.drawn \in BOOLEAN /\ w.unwound \in BOOLEAN
  BY Zenon DEF Rows, Parts

LEMMA RowMade ==
    ASSUME NEW t \in AllTurns, NEW role \in {"user", "assistant"}, NEW a \in BOOLEAN,
           NEW d \in BOOLEAN, NEW u \in BOOLEAN
    PROVE  [turn |-> t, role |-> role, admitted |-> a, drawn |-> d, unwound |-> u] \in Rows
  BY Zenon DEF Rows

(* A row with its page's half, with its window's half, and taken back.     *)
LEMMA RowChanged ==
    ASSUME NEW w \in Rows, NEW t \in AllTurns
    PROVE  LET d == [w EXCEPT !.drawn = TRUE, !.turn = t]
               a == [w EXCEPT !.admitted = TRUE, !.turn = t]
               u == [w EXCEPT !.unwound = TRUE]
           IN  /\ d \in Rows /\ a \in Rows /\ u \in Rows
               /\ d.turn = t /\ d.role = w.role /\ d.admitted = w.admitted /\ d.drawn
               /\ d.unwound = w.unwound
               /\ a.turn = t /\ a.role = w.role /\ a.admitted /\ a.drawn = w.drawn
               /\ a.unwound = w.unwound
               /\ u.turn = w.turn /\ u.role = w.role /\ u.admitted = w.admitted
               /\ u.drawn = w.drawn /\ u.unwound
  <1>. DEFINE d == [w EXCEPT !.drawn = TRUE, !.turn = t]
              a == [w EXCEPT !.admitted = TRUE, !.turn = t]
              u == [w EXCEPT !.unwound = TRUE]
  <1>1. DOMAIN w = Parts
    BY RowIs
  <1>2. /\ d.turn = t /\ d.role = w.role /\ d.admitted = w.admitted /\ d.drawn = TRUE
        /\ d.unwound = w.unwound
        /\ a.turn = t /\ a.role = w.role /\ a.admitted = TRUE /\ a.drawn = w.drawn
        /\ a.unwound = w.unwound
        /\ u.turn = w.turn /\ u.role = w.role /\ u.admitted = w.admitted
        /\ u.drawn = w.drawn /\ u.unwound = TRUE
    BY <1>1, SMT DEF Parts
  <1>3. d \in Rows
    BY Zenon DEF Rows
  <1>4. a \in Rows
    BY Zenon DEF Rows
  <1>5. u \in Rows
    BY Zenon DEF Rows
  <1>. HIDE DEF d, a, u
  <1>6. d.drawn /\ a.admitted /\ u.unwound
    BY <1>2, Zenon
  <1>. QED
    BY <1>2, <1>3, <1>4, <1>5, <1>6, Zenon DEF d, a, u

(* What the page's half makes of the rows: the newest is t's.              *)
Drawn(rows, new, role, t) ==
    /\ new \in Seq(Rows) /\ Len(new) \in Nat \ {0}
    /\ \A i \in 1 .. Len(new) - 1 : i \in DOMAIN rows /\ new[i] = rows[i]
    /\ new[Len(new)].role = role /\ new[Len(new)].turn = t /\ new[Len(new)].drawn
    /\ \/ /\ Len(new) = Len(rows) + 1 /\ ~new[Len(new)].admitted /\ ~new[Len(new)].unwound
          /\ rows = <<>> \/ rows[Len(rows)].role # role \/ rows[Len(rows)].drawn
       \/ /\ Len(new) = Len(rows) /\ Newest(rows, role) /\ ~rows[Len(rows)].drawn
          /\ new[Len(new)].admitted = rows[Len(rows)].admitted
          /\ new[Len(new)].unwound = rows[Len(rows)].unwound

LEMMA DrawIs ==
    ASSUME NEW rows \in Seq(Rows), NEW role \in {"user", "assistant"}, NEW t \in AllTurns
    PROVE  Drawn(rows, Draw(rows, role, t), role, t)
  <1>. DEFINE new == Draw(rows, role, t)
              m == Len(rows)
  <1>1. CASE Newest(rows, role) /\ ~rows[m].drawn
    <2>. DEFINE w == rows[m]
                d == [w EXCEPT !.drawn = TRUE, !.turn = t]
    <2>1. m \in 1 .. m /\ m \in Nat \ {0} /\ w \in Rows
      BY <1>1, SMT DEF Newest
    <2>2. /\ d \in Rows /\ d.turn = t /\ d.role = w.role /\ d.admitted = w.admitted
          /\ d.drawn /\ d.unwound = w.unwound
      BY <2>1, RowChanged, Zenon
    <2>3. new = [rows EXCEPT ![m] = d]
      BY <1>1, Zenon DEF Draw
    <2>. HIDE DEF d, new
    <2>4. new \in Seq(Rows) /\ Len(new) = m /\ new[m] = d
          /\ \A i \in 1 .. m - 1 : i \in DOMAIN rows /\ new[i] = rows[i]
      BY <2>1, <2>2, <2>3, SMT
    <2>5. d.role = role
      BY <1>1, <2>2, Zenon DEF Newest
    <2>. QED
      BY <1>1, <2>1, <2>2, <2>4, <2>5, Zenon DEF new, Drawn
  <1>2. CASE ~(Newest(rows, role) /\ ~rows[m].drawn)
    <2>. DEFINE w == Row(t, role, FALSE)
    <2>1. w \in Rows /\ w.turn = t /\ w.role = role /\ ~w.admitted /\ w.drawn /\ ~w.unwound
      <3>1. w = [turn |-> t, role |-> role, admitted |-> FALSE, drawn |-> TRUE, unwound |-> FALSE]
        BY Zenon DEF Row
      <3>2. FALSE \in BOOLEAN /\ TRUE \in BOOLEAN
        BY SMT
      <3>3. w \in Rows
        BY <3>1, <3>2, RowMade, Zenon
      <3>4. w.turn = t /\ w.role = role /\ w.admitted = FALSE /\ w.drawn = TRUE /\ w.unwound = FALSE
        BY Zenon DEF Row
      <3>. QED
        BY <3>3, <3>4, Zenon
    <2>2. new = Append(rows, w)
      BY <1>2, Zenon DEF Draw
    <2>. HIDE DEF w, new
    <2>3. /\ new \in Seq(Rows) /\ Len(new) = m + 1 /\ new[m + 1] = w /\ m \in Nat
          /\ \A i \in 1 .. m : i \in DOMAIN rows /\ new[i] = rows[i]
      BY <2>1, <2>2, SMT
    <2>4. (m + 1) - 1 = m /\ m + 1 \in Nat \ {0}
      BY <2>3, SMT
    <2>5. rows = <<>> \/ rows[m].role # role \/ rows[m].drawn
      BY <1>2, Zenon DEF Newest
    <2>. QED
      BY <2>1, <2>3, <2>4, <2>5, Zenon DEF new, Drawn
  <1>. QED
    BY <1>1, <1>2, Zenon

(* What the window's half makes of them.                                   *)
Admitted(rows, new, role, t) ==
    /\ new \in Seq(Rows) /\ Len(new) \in Nat \ {0}
    /\ \A i \in 1 .. Len(new) - 1 : i \in DOMAIN rows /\ new[i] = rows[i]
    /\ new[Len(new)].role = role /\ new[Len(new)].turn = t /\ new[Len(new)].admitted
    /\ \/ /\ Len(new) = Len(rows) + 1 /\ ~new[Len(new)].drawn /\ ~new[Len(new)].unwound
          /\ rows = <<>> \/ rows[Len(rows)].role # role \/ rows[Len(rows)].admitted
       \/ /\ Len(new) = Len(rows) /\ Newest(rows, role) /\ ~rows[Len(rows)].admitted
          /\ new[Len(new)].drawn = rows[Len(rows)].drawn
          /\ new[Len(new)].unwound = rows[Len(rows)].unwound

LEMMA AdmitIs ==
    ASSUME NEW rows \in Seq(Rows), NEW role \in {"user", "assistant"}, NEW t \in AllTurns
    PROVE  Admitted(rows, Admit(rows, role, t), role, t)
  <1>. DEFINE new == Admit(rows, role, t)
              m == Len(rows)
  <1>1. CASE Newest(rows, role) /\ ~rows[m].admitted
    <2>. DEFINE w == rows[m]
                d == [w EXCEPT !.admitted = TRUE, !.turn = t]
    <2>1. m \in 1 .. m /\ m \in Nat \ {0} /\ w \in Rows
      BY <1>1, SMT DEF Newest
    <2>2. /\ d \in Rows /\ d.turn = t /\ d.role = w.role /\ d.admitted
          /\ d.drawn = w.drawn /\ d.unwound = w.unwound
      BY <2>1, RowChanged, Zenon
    <2>3. new = [rows EXCEPT ![m] = d]
      BY <1>1, Zenon DEF Admit
    <2>. HIDE DEF d, new
    <2>4. new \in Seq(Rows) /\ Len(new) = m /\ new[m] = d
          /\ \A i \in 1 .. m - 1 : i \in DOMAIN rows /\ new[i] = rows[i]
      BY <2>1, <2>2, <2>3, SMT
    <2>5. d.role = role
      BY <1>1, <2>2, Zenon DEF Newest
    <2>. QED
      BY <1>1, <2>1, <2>2, <2>4, <2>5, Zenon DEF new, Admitted
  <1>2. CASE ~(Newest(rows, role) /\ ~rows[m].admitted)
    <2>. DEFINE w == Row(t, role, TRUE)
    <2>1. w \in Rows /\ w.turn = t /\ w.role = role /\ w.admitted /\ ~w.drawn /\ ~w.unwound
      <3>1. w = [turn |-> t, role |-> role, admitted |-> TRUE, drawn |-> FALSE, unwound |-> FALSE]
        BY Zenon DEF Row
      <3>2. FALSE \in BOOLEAN /\ TRUE \in BOOLEAN
        BY SMT
      <3>3. w \in Rows
        BY <3>1, <3>2, RowMade, Zenon
      <3>4. w.turn = t /\ w.role = role /\ w.admitted = TRUE /\ w.drawn = FALSE /\ w.unwound = FALSE
        BY Zenon DEF Row
      <3>. QED
        BY <3>3, <3>4, Zenon
    <2>2. new = Append(rows, w)
      BY <1>2, Zenon DEF Admit
    <2>. HIDE DEF w, new
    <2>3. /\ new \in Seq(Rows) /\ Len(new) = m + 1 /\ new[m + 1] = w /\ m \in Nat
          /\ \A i \in 1 .. m : i \in DOMAIN rows /\ new[i] = rows[i]
      BY <2>1, <2>2, SMT
    <2>4. (m + 1) - 1 = m /\ m + 1 \in Nat \ {0}
      BY <2>3, SMT
    <2>5. rows = <<>> \/ rows[m].role # role \/ rows[m].admitted
      BY <1>2, Zenon DEF Newest
    <2>. QED
      BY <2>1, <2>3, <2>4, <2>5, Zenon DEF new, Admitted
  <1>. QED
    BY <1>1, <1>2, Zenon

(* The greatest of a set of numbers that has one.                          *)
LEMMA GreatestIs ==
    ASSUME NEW S \in SUBSET Nat, NEW k \in S, \A i \in S : i <= k
    PROVE  Max(S) = k
  <1>1. \E x \in S : \A y \in S : x >= y
    BY SMT
  <1>2. Max(S) \in S /\ \A y \in S : Max(S) >= y
    BY <1>1, Zenon DEF Max
  <1>. DEFINE m == Max(S)
  <1>. HIDE DEF m
  <1>3. m \in S /\ \A y \in S : m >= y
    BY <1>2, Zenon DEF m
  <1>4. m = k
    BY <1>3, SMT
  <1>. QED
    BY <1>4, Zenon DEF m

LEMMA WindowIs ==
    ASSUME NEW rows \in Seq(Rows), NEW i
    PROVE  i \in Window(rows) <=> /\ i \in Nat \ {0} /\ i <= Len(rows)
                                  /\ rows[i].admitted /\ ~rows[i].unwound
  <1>1. i \in DOMAIN rows <=> i \in Nat \ {0} /\ i <= Len(rows)
    BY SMT
  <1>. QED
    BY <1>1, Zenon DEF Window, InWindow

(* What taking back the last line of the window makes of the rows.         *)
Unwound(rows, new, k) ==
    /\ new \in Seq(Rows) /\ Len(new) = Len(rows)
    /\ \A i \in DOMAIN rows \ {k} : new[i] = rows[i]
    /\ new[k].role = "user" /\ new[k].admitted
    /\ Window(new) = Window(rows) \ {k}

LEMMA UnwindIs ==
    ASSUME NEW rows \in Seq(Rows), NEW k \in Window(rows), \A i \in Window(rows) : i <= k,
           rows[k].role = "user"
    PROVE  Unwound(rows, Unwind(rows), k)
  <1>. DEFINE new == Unwind(rows)
              w == rows[k]
              u == [w EXCEPT !.unwound = TRUE]
  <1>1. Window(rows) \subseteq Nat /\ k \in 1 .. Len(rows) /\ w \in Rows /\ w.admitted
    BY WindowIs, SMT
  <1>2. Max(Window(rows)) = k /\ Window(rows) # {}
    BY <1>1, GreatestIs, Zenon
  <1>3. new = [rows EXCEPT ![k] = u]
    BY <1>2, Zenon DEF Unwind
  <1>4. /\ u \in Rows /\ u.turn = w.turn /\ u.role = w.role /\ u.admitted = w.admitted
        /\ u.drawn = w.drawn /\ u.unwound
    <2>1. w.turn \in AllTurns
      BY <1>1, RowIs, Zenon
    <2>. QED
      BY <1>1, <2>1, RowChanged, Zenon
  <1>. HIDE DEF u, new
  <1>5. /\ new \in Seq(Rows) /\ Len(new) = Len(rows) /\ new[k] = u
        /\ \A i \in DOMAIN rows \ {k} : new[i] = rows[i]
    BY <1>1, <1>3, <1>4, SMT
  <1>6. new[k].admitted /\ new[k].role = "user"
    BY <1>1, <1>4, <1>5, Zenon
  <1>7. Window(new) = Window(rows) \ {k}
    <2>1. ASSUME NEW i PROVE i \in Window(new) <=> i \in Window(rows) /\ i # k
      <3>1. CASE i = k
        BY <1>4, <1>5, <3>1, WindowIs, Zenon
      <3>2. CASE i \in DOMAIN rows \ {k}
        BY <1>5, <3>2, WindowIs, Zenon
      <3>3. CASE i \notin DOMAIN rows
        <4>1. i \notin Nat \ {0} \/ ~(i <= Len(rows))
          BY <3>3, SMT
        <4>. QED
          BY <1>5, <4>1, WindowIs, Zenon
      <3>. QED
        BY <3>1, <3>2, <3>3, Zenon
    <2>. QED
      BY <2>1, Zenon
  <1>. QED
    BY <1>4, <1>5, <1>6, <1>7, Zenon DEF new, Unwound

(* A page's half puts nothing into the window.                             *)
LEMMA DrawKeepsTheWindow ==
    ASSUME NEW rows \in Seq(Rows), NEW role \in {"user", "assistant"}, NEW t \in AllTurns
    PROVE  LET new == Draw(rows, role, t)
           IN  /\ Window(new) = Window(rows)
               /\ \A i \in Window(rows) : /\ new[i].role = rows[i].role
                                          /\ new[i].turn \in {rows[i].turn, t}
                                          /\ i # Len(rows) => new[i].turn = rows[i].turn
  <1>. DEFINE new == Draw(rows, role, t)
              n == Len(new)
  <1>0. Drawn(rows, new, role, t)
    BY DrawIs, Zenon
  <1>. HIDE DEF new
  <1>1. /\ new \in Seq(Rows) /\ n \in Nat \ {0}
        /\ \A i \in 1 .. n - 1 : i \in DOMAIN rows /\ new[i] = rows[i]
        /\ new[n].role = role /\ new[n].turn = t
        /\ \/ n = Len(rows) + 1 /\ ~new[n].admitted
           \/ /\ n = Len(rows) /\ Newest(rows, role)
              /\ new[n].admitted = rows[n].admitted /\ new[n].unwound = rows[n].unwound
    BY <1>0, Zenon DEF Drawn
  <1>. HIDE DEF new
  <1>2. ASSUME NEW i PROVE i \in Window(new) <=> i \in Window(rows)
    <2>1. CASE i \in 1 .. n - 1
      <3>1. i \in Nat \ {0} /\ i <= Len(rows) /\ i <= n
        BY <1>1, <2>1, SMT
      <3>. QED
        BY <1>1, <2>1, <3>1, WindowIs, Zenon
    <2>2. CASE i = n
      <3>1. n = Len(rows) + 1 => ~(n <= Len(rows))
        BY <1>1, SMT
      <3>2. n <= Len(new) /\ (n = Len(rows) => n <= Len(rows))
        BY <1>1, SMT
      <3>. QED
        BY <1>1, <2>2, <3>1, <3>2, WindowIs, Zenon
    <2>3. CASE i \notin 1 .. n
      <3>1. i \in Nat \ {0} => ~(i <= n) /\ ~(i <= Len(rows))
        BY <1>1, <2>3, SMT
      <3>. QED
        BY <1>1, <3>1, WindowIs, Zenon
    <2>4. i \in 1 .. n => i \in 1 .. n - 1 \/ i = n
      BY <1>1, SMT
    <2>. QED
      BY <2>1, <2>2, <2>3, <2>4, Zenon
  <1>3. ASSUME NEW i \in Window(rows)
        PROVE  /\ new[i].role = rows[i].role
               /\ new[i].turn \in {rows[i].turn, t}
               /\ i # Len(rows) => new[i].turn = rows[i].turn
    <2>1. i \in Nat \ {0} /\ i <= Len(rows)
      BY WindowIs, Zenon
    <2>2. \/ i \in 1 .. n - 1
          \/ i = n /\ n = Len(rows)
      BY <1>1, <2>1, SMT
    <2>3. CASE i \in 1 .. n - 1
      <3>1. new[i] = rows[i]
        BY <1>1, <2>3, Zenon
      <3>. QED
        BY <3>1, Zenon
    <2>4. CASE i = n /\ n = Len(rows)
      <3>1. Newest(rows, role)
        BY <1>1, <2>4, SMT
      <3>. QED
        BY <1>1, <2>4, <3>1, Zenon DEF Newest
    <2>. QED
      BY <2>2, <2>3, <2>4
  <1>. QED
    BY <1>2, <1>3, Zenon DEF new

(* ... and moves no line of it off the line it answers.                    *)
LEMMA DrawKeepsExchanges ==
    ASSUME NEW rows \in Seq(Rows), NEW role \in {"user", "assistant"}, NEW t \in AllTurns,
           NEW p, NEW murmurs, Exchanges(rows, p, murmurs),
           Newest(rows, role) /\ ~rows[Len(rows)].drawn =>
               \/ Len(rows) \notin Window(rows) \/ rows[Len(rows)].turn = t
               \/ role = "assistant" /\ t \in murmurs
    PROVE  Exchanges(Draw(rows, role, t), p, murmurs)
  <1>. DEFINE new == Draw(rows, role, t)
              W == Window(rows)
              m == Len(rows)
  <1>1. /\ Window(new) = W
        /\ \A i \in W : /\ new[i].role = rows[i].role
                        /\ i # m => new[i].turn = rows[i].turn
    BY DrawKeepsTheWindow, Zenon
  <1>2. m \in W => \/ new[m].turn = rows[m].turn
                   \/ new[m].role = "assistant" /\ new[m].turn \in murmurs
    <2>1. ASSUME m \in W
          PROVE  \/ new[m] = rows[m]
                 \/ /\ Newest(rows, role) /\ ~rows[m].drawn
                    /\ new[m].role = role /\ new[m].turn = t
      <3>1. m \in Nat \ {0} /\ m \in 1 .. (m + 1) - 1
        BY <2>1, WindowIs, SMT
      <3>2. Drawn(rows, new, role, t)
        BY DrawIs, Zenon
      <3>. HIDE DEF new
      <3>3. CASE Len(new) = m + 1
        BY <3>1, <3>2, <3>3, Zenon DEF Drawn
      <3>4. CASE Len(new) # m + 1
        BY <3>2, <3>4, Zenon DEF Drawn
      <3>. QED
        BY <3>3, <3>4, Zenon
    <2>2. ASSUME m \in W, Newest(rows, role), ~rows[m].drawn, new[m].turn = t, new[m].role = role
          PROVE  \/ new[m].turn = rows[m].turn
                 \/ new[m].role = "assistant" /\ new[m].turn \in murmurs
      BY <2>2, Zenon
    <2>. HIDE DEF new, W, m
    <2>. SUFFICES ASSUME m \in W
                  PROVE  \/ new[m].turn = rows[m].turn
                         \/ new[m].role = "assistant" /\ new[m].turn \in murmurs
      OBVIOUS
    <2>3. CASE new[m] = rows[m]
      BY <2>3, Zenon
    <2>. QED
      BY <2>1, <2>2, <2>3, Zenon
  <1>3. \A i \in W : i <= m /\ i \in Nat
    BY WindowIs, Zenon
  <1>4. m \in Nat
    BY SMT
  <1>. HIDE DEF new, W, m
  <1>5. \A i, j : Adjacent(new, i, j) <=> Adjacent(rows, i, j)
    BY <1>1, Zenon DEF Adjacent, W
  <1>6. ASSUME NEW j \in W
        PROVE  /\ (\A i \in W : j <= i) => new[j].role = "user"
               /\ new[j].role = "user" /\ (\A i \in W : i <= j) => p = new[j].turn
    <2>1. /\ (\A i \in W : j <= i) => rows[j].role = "user"
          /\ rows[j].role = "user" /\ (\A i \in W : i <= j) => p = rows[j].turn
      BY Zenon DEF Exchanges, W
    <2>2. new[j].role = "user" => new[j].turn = rows[j].turn
      BY <1>1, <1>2, Zenon
    <2>. QED
      BY <1>1, <2>1, <2>2, Zenon
  <1>7. ASSUME NEW i \in W, NEW j \in W, Adjacent(rows, i, j)
        PROVE  /\ new[i].role # new[j].role
               /\ new[j].role = "assistant" =>
                      new[j].turn = new[i].turn \/ new[j].turn \in murmurs
    <2>1. /\ rows[i].role # rows[j].role
          /\ rows[j].role = "assistant" =>
                 rows[j].turn = rows[i].turn \/ rows[j].turn \in murmurs
      BY <1>7, Zenon DEF Exchanges, W
    <2>2. i # m
      BY <1>3, <1>4, <1>7, SMT DEF Adjacent
    <2>. QED
      BY <1>1, <1>2, <2>1, <2>2, Zenon
  <1>. QED
    BY <1>1, <1>5, <1>6, <1>7, Zenon DEF Exchanges, new

(* A window that grows by one row: a question, or the answer to its last   *)
(* line.                                                                   *)
Adds(rows, new, n) ==
    /\ n \in Nat /\ Window(new) = Window(rows) \cup {n}
    /\ \A i \in Window(rows) : i \in Nat /\ i < n /\ new[i] = rows[i]

AddsAQuestion(rows, new, n, q) ==
    /\ Adds(rows, new, n) /\ new[n].role = "user" /\ q = new[n].turn
    /\ \A i \in Window(rows) : (\A k \in Window(rows) : k <= i) => rows[i].role # "user"

AddsAnAnswer(rows, new, n) ==
    /\ Adds(rows, new, n) /\ new[n].role = "assistant"
    /\ \E m \in Window(rows) : /\ \A k \in Window(rows) : k <= m
                               /\ rows[m].role = "user" /\ rows[m].turn = new[n].turn

LEMMA Grown ==
    ASSUME NEW rows, NEW new, NEW p, NEW q, NEW murmurs, NEW n, Exchanges(rows, p, murmurs),
           AddsAQuestion(rows, new, n, q) \/ AddsAnAnswer(rows, new, n)
    PROVE  Exchanges(new, q, murmurs)
  <1>. DEFINE W == Window(rows)
  <1>0. /\ \A j \in W :
            /\ (\A i \in W : j <= i) => rows[j].role = "user"
            /\ rows[j].role = "user" /\ (\A i \in W : i <= j) => p = rows[j].turn
        /\ \A i, j \in W : Adjacent(rows, i, j) =>
              /\ rows[i].role # rows[j].role
              /\ rows[j].role = "assistant" =>
                     rows[j].turn = rows[i].turn \/ rows[j].turn \in murmurs
        /\ n \in Nat /\ Window(new) = W \cup {n}
        /\ \A i \in W : i \in Nat /\ i < n /\ new[i] = rows[i]
    BY Zenon DEF Exchanges, AddsAQuestion, AddsAnAnswer, Adds
  <1>1. \/ /\ new[n].role = "user" /\ q = new[n].turn
           /\ \A i \in W : (\A k \in W : k <= i) => rows[i].role # "user"
        \/ /\ new[n].role = "assistant"
           /\ \E m \in W : /\ \A k \in W : k <= m
                           /\ rows[m].role = "user" /\ rows[m].turn = new[n].turn
    BY Zenon DEF AddsAQuestion, AddsAnAnswer
  <1>2. \A i, j \in W : Adjacent(new, i, j) => Adjacent(rows, i, j)
    BY <1>0, Zenon DEF Adjacent, W
  <1>3. \A j \in W : ~Adjacent(new, n, j)
    BY <1>0, SMT DEF Adjacent
  <1>4. \A i \in W : Adjacent(new, i, n) => \A k \in W : k <= i
    BY <1>0, SMT DEF Adjacent
  <1>5. ~Adjacent(new, n, n)
    BY <1>0, SMT DEF Adjacent
  <1>. HIDE DEF W
  <1>6. ASSUME NEW j \in W \cup {n}
        PROVE  /\ (\A i \in W \cup {n} : j <= i) => new[j].role = "user"
               /\ new[j].role = "user" /\ (\A i \in W \cup {n} : i <= j) => q = new[j].turn
    <2>1. CASE j \in W
      <3>1. ~(n <= j)
        BY <1>0, <2>1, SMT
      <3>. QED
        BY <1>0, <2>1, <3>1, Zenon
    <2>2. CASE j = n
      <3>1. (\A i \in W : n <= i) => W = {}
        BY <1>0, SMT
      <3>. QED
        BY <1>1, <2>2, <3>1, Zenon
    <2>. QED
      BY <2>1, <2>2, Zenon
  <1>7. ASSUME NEW i \in W \cup {n}, NEW j \in W \cup {n}, Adjacent(new, i, j)
        PROVE  /\ new[i].role # new[j].role
               /\ new[j].role = "assistant" =>
                      new[j].turn = new[i].turn \/ new[j].turn \in murmurs
    <2>1. CASE i \in W /\ j \in W
      <3>1. Adjacent(rows, i, j)
        BY <1>2, <1>7, <2>1, Zenon
      <3>2. /\ rows[i].role # rows[j].role
            /\ rows[j].role = "assistant" =>
                   rows[j].turn = rows[i].turn \/ rows[j].turn \in murmurs
        BY <1>0, <2>1, <3>1, Zenon
      <3>3. new[i] = rows[i] /\ new[j] = rows[j]
        BY <1>0, <2>1, Zenon
      <3>. QED
        BY <3>2, <3>3
    <2>2. CASE i \in W /\ j = n
      <3>1. \A k \in W : k <= i
        BY <1>4, <1>7, <2>2, Zenon
      <3>2. CASE new[n].role = "user"
        <4>1. rows[i].role # "user"
          BY <1>1, <2>2, <3>1, <3>2
        <4>. QED
          BY <1>0, <2>2, <3>2, <4>1, Zenon
      <3>3. CASE new[n].role = "assistant"
        <4>1. PICK m \in W : /\ \A k \in W : k <= m
                             /\ rows[m].role = "user" /\ rows[m].turn = new[n].turn
          BY <1>1, <3>3
        <4>2. m = i
          BY <1>0, <2>2, <3>1, <4>1, SMT
        <4>. QED
          BY <1>0, <2>2, <3>3, <4>1, <4>2
      <3>. QED
        BY <1>1, <3>2, <3>3, Zenon
    <2>3. CASE i = n
      BY <1>3, <1>5, <1>7, <2>3, Zenon
    <2>. QED
      BY <2>1, <2>2, <2>3, Zenon
  <1>. QED
    BY <1>0, <1>6, <1>7, Zenon DEF Exchanges

(* A window that loses its last line, a question.                          *)
LosesItsQuestion(rows, new, n) ==
    /\ n \in Window(rows) /\ rows[n].role = "user" /\ Window(new) = Window(rows) \ {n}
    /\ \A i \in Window(rows) : i \in Nat /\ i <= n
    /\ \A i \in Window(new) : new[i] = rows[i]

LEMMA Shrunk ==
    ASSUME NEW rows, NEW new, NEW p, NEW q, NEW murmurs, NEW n,
           Exchanges(rows, p, murmurs), LosesItsQuestion(rows, new, n)
    PROVE  Exchanges(new, q, murmurs)
  <1>. DEFINE W == Window(rows)
              V == Window(new)
  <1>0. /\ \A j \in W : (\A i \in W : j <= i) => rows[j].role = "user"
        /\ \A i, j \in W : Adjacent(rows, i, j) =>
              /\ rows[i].role # rows[j].role
              /\ rows[j].role = "assistant" =>
                     rows[j].turn = rows[i].turn \/ rows[j].turn \in murmurs
        /\ V = W \ {n} /\ n \in W /\ rows[n].role = "user"
        /\ \A i \in W : i \in Nat /\ i <= n
        /\ \A i \in V : new[i] = rows[i]
    BY Zenon DEF Exchanges, LosesItsQuestion
  <1>1. \A i, j \in V : Adjacent(new, i, j) => Adjacent(rows, i, j)
    BY <1>0, SMT DEF Adjacent
  <1>2. \A j \in V : (\A i \in V : i <= j) => Adjacent(rows, j, n)
    BY <1>0, SMT DEF Adjacent
  <1>. HIDE DEF W, V
  <1>3. ASSUME NEW j \in V
        PROVE  /\ (\A i \in V : j <= i) => new[j].role = "user"
               /\ new[j].role = "user" /\ (\A i \in V : i <= j) => q = new[j].turn
    <2>1. ASSUME \A i \in V : j <= i, NEW i \in W PROVE j <= i
      BY <1>0, <2>1, Zenon
    <2>2. (\A i \in V : i <= j) => rows[j].role # "user"
      BY <1>0, <1>2, Zenon
    <2>. QED
      BY <1>0, <2>1, <2>2, Zenon
  <1>4. ASSUME NEW i \in V, NEW j \in V, Adjacent(new, i, j)
        PROVE  /\ new[i].role # new[j].role
               /\ new[j].role = "assistant" =>
                      new[j].turn = new[i].turn \/ new[j].turn \in murmurs
    BY <1>0, <1>1, <1>4, Zenon
  <1>. QED
    BY <1>3, <1>4, Zenon DEF Exchanges, V

-----------------------------------------------------------------------------
(* The turn in flight has its question, and nothing else of it, at the end.*)
Awaits(rows, p) ==
    p # None => /\ Len(rows) \in Window(rows)
                /\ rows[Len(rows)].role = "user" /\ rows[Len(rows)].turn = p
                /\ \A i \in Window(rows) : rows[i].turn = p => i = Len(rows)

Taken(rows) == \A i \in DOMAIN rows : rows[i].unwound => rows[i].admitted

Sound(rows, p, murmurs) ==
    /\ rows \in Seq(Rows) /\ p \in AllTurns \cup {None}
    /\ Awaits(rows, p) /\ Taken(rows) /\ Exchanges(rows, p, murmurs)

(* Her last line is one the page has not drawn yet.                        *)
Undrawn(rows) == Newest(rows, "assistant") /\ ~rows[Len(rows)].drawn

(* The turns the window knows of.                                          *)
Seen(rows) == {rows[i].turn : i \in Window(rows)}

LEMMA NoTurn == \A t \in AllTurns : t # None
  BY TurnsAssumption, SMT DEF AllTurns, None

(* The last place of the rows bounds the window.                           *)
LEMMA LastPlace ==
    ASSUME NEW rows \in Seq(Rows)
    PROVE  /\ Len(rows) \in Nat
           /\ \A i \in Window(rows) : i \in Nat \ {0} /\ i <= Len(rows) /\ i \in DOMAIN rows
           /\ \A i \in DOMAIN rows : i \in 1 .. Len(rows)
  <1>1. Len(rows) \in Nat /\ DOMAIN rows = 1 .. Len(rows)
    BY SMT
  <1>2. \A i \in Window(rows) : i \in Nat \ {0} /\ i <= Len(rows)
    BY WindowIs, Zenon
  <1>3. \A i \in Nat \ {0} : i <= Len(rows) => i \in 1 .. Len(rows)
    BY <1>1, SMT
  <1>. QED
    BY <1>1, <1>2, <1>3, Zenon

(* A page's half leaves alone what was taken back.                         *)
LEMMA DrawnTaken ==
    ASSUME NEW rows \in Seq(Rows), NEW new, NEW role, NEW t, Taken(rows),
           Drawn(rows, new, role, t) \/ Admitted(rows, new, role, t)
    PROVE  Taken(new)
  <1>. DEFINE n == Len(new)
  <1>1. /\ new \in Seq(Rows) /\ n \in Nat \ {0}
        /\ \A i \in 1 .. n - 1 : i \in DOMAIN rows /\ new[i] = rows[i]
        /\ \/ ~new[n].unwound
           \/ new[n].admitted
           \/ /\ n = Len(rows) /\ rows # <<>>
              /\ new[n].admitted = rows[n].admitted /\ new[n].unwound = rows[n].unwound
    BY Zenon DEF Drawn, Admitted, Newest
  <1>. HIDE DEF n
  <1>2. n \in DOMAIN new /\ DOMAIN new = 1 .. n
    BY <1>1, SMT DEF n
  <1>3. new[n].unwound => new[n].admitted
    <2>1. n = Len(rows) /\ rows # <<>> => n \in DOMAIN rows
      BY <1>1, SMT
    <2>. QED
      BY <1>1, <2>1, Zenon DEF Taken
  <1>4. \A i \in 1 .. n : i = n \/ i \in 1 .. n - 1
    BY <1>1, SMT
  <1>. QED
    BY <1>1, <1>2, <1>3, <1>4, Zenon DEF Taken

(* A question on the page, with no turn in flight.                         *)
LEMMA AskedSound ==
    ASSUME NEW rows, NEW murmurs, Sound(rows, None, murmurs), NEW t \in AllTurns
    PROVE  LET new == Draw(rows, "user", t)
           IN  Sound(new, None, murmurs) /\ Seen(new) = Seen(rows) /\ ~Undrawn(new)
  <1>. DEFINE new == Draw(rows, "user", t)
              m == Len(rows)
  <1>1. rows \in Seq(Rows) /\ Taken(rows) /\ Exchanges(rows, None, murmurs)
    BY Zenon DEF Sound
  <1>2. Drawn(rows, new, "user", t)
    BY <1>1, DrawIs, Zenon
  <1>3. Newest(rows, "user") => m \notin Window(rows)
    <2>. SUFFICES ASSUME Newest(rows, "user"), m \in Window(rows) PROVE FALSE
      OBVIOUS
    <2>1. \A i \in Window(rows) : i <= m
      BY <1>1, LastPlace, Zenon
    <2>2. None = rows[m].turn
      BY <1>1, <2>1, Zenon DEF Exchanges, Newest
    <2>3. rows[m].turn \in AllTurns
      <3>1. rows[m] \in Rows
        BY <1>1, LastPlace, SMT
      <3>. QED
        BY <3>1, RowIs, Zenon
    <2>. QED
      BY <2>2, <2>3, NoTurn, Zenon
  <1>4. Exchanges(new, None, murmurs)
    BY <1>1, <1>3, DrawKeepsExchanges, Zenon
  <1>5. Taken(new)
    BY <1>1, <1>2, DrawnTaken, Zenon
  <1>6. /\ Window(new) = Window(rows)
        /\ \A i \in Window(rows) : new[i].turn = rows[i].turn
    <2>1. /\ Window(new) = Window(rows)
          /\ \A i \in Window(rows) : i # m => new[i].turn = rows[i].turn
      BY <1>1, DrawKeepsTheWindow, Zenon
    <2>2. m \in Window(rows) => new[m].turn = rows[m].turn
      <3>. SUFFICES ASSUME m \in Window(rows) PROVE new[m] = rows[m]
        BY Zenon
      <3>1. m \in Nat \ {0}
        BY <1>1, LastPlace, Zenon
      <3>2. Len(new) = m + 1
        BY <1>2, <1>3, Zenon DEF Drawn
      <3>3. m \in 1 .. Len(new) - 1
        BY <3>1, <3>2, SMT
      <3>. QED
        BY <1>2, <3>3, Zenon DEF Drawn
    <2>. QED
      BY <2>1, <2>2, Zenon
  <1>7. Seen(new) = Seen(rows)
    BY <1>6, Zenon DEF Seen
  <1>8. ~Undrawn(new) /\ new \in Seq(Rows)
    BY <1>2, Zenon DEF Undrawn, Drawn
  <1>. QED
    BY <1>4, <1>5, <1>7, <1>8, Zenon DEF Sound, Awaits

(* Rows whose last is put into the window, be it new or was it there.       *)
LEMMA Grows ==
    ASSUME NEW rows \in Seq(Rows), NEW new \in Seq(Rows), NEW n \in Nat \ {0}, n = Len(new),
           \A i \in 1 .. n - 1 : i \in DOMAIN rows /\ new[i] = rows[i],
           new[n].admitted, ~new[n].unwound,
           n = Len(rows) + 1 \/ (n = Len(rows) /\ ~rows[n].admitted)
    PROVE  Adds(rows, new, n) /\ \A i \in Window(rows) : i \in 1 .. n - 1
  <1>. DEFINE m == Len(rows)
              W == Window(rows)
  <1>1. rows \in Seq(Rows)
    OBVIOUS
  <1>3. /\ new \in Seq(Rows) /\ n \in Nat \ {0} /\ n = Len(new)
        /\ \A i \in 1 .. n - 1 : i \in DOMAIN rows /\ new[i] = rows[i]
        /\ new[n].admitted
        /\ n = m + 1 \/ (n = m /\ ~rows[n].admitted)
    BY Zenon
  <1>4. ~new[n].unwound
    OBVIOUS
  <1>5. \A i \in W : i \in Nat /\ i < n /\ i \in 1 .. n - 1 /\ new[i] = rows[i]
    <2>1. \A i \in W : i \in Nat \ {0} /\ i <= m /\ rows[i].admitted
      BY <1>1, WindowIs, Zenon
    <2>2. \A i \in W : i # n \/ n = m + 1
      BY <1>3, <2>1, Zenon
    <2>3. m \in Nat
      BY <1>1, LastPlace
    <2>4. \A i \in W : i < n /\ i \in 1 .. n - 1
      BY <1>3, <2>1, <2>2, <2>3, SMT
    <2>. QED
      BY <1>3, <2>1, <2>4, Zenon
  <1>6. Window(new) = W \cup {n}
    <2>1. ASSUME NEW i PROVE i \in Window(new) <=> i \in W \/ i = n
      <3>1. CASE i = n
        <4>1. n <= n
          BY <1>3, SMT
        <4>. QED
          BY <1>3, <1>4, <3>1, <4>1, WindowIs, Zenon
      <3>2. CASE i \in 1 .. n - 1
        <4>1. i \in Nat \ {0} /\ i <= n /\ i <= m
          BY <1>3, <1>1, <3>2, SMT
        <4>2. new[i] = rows[i]
          BY <1>3, <3>2, Zenon
        <4>3. i \in Window(new) <=> new[i].admitted /\ ~new[i].unwound
          BY <1>3, <4>1, WindowIs, Zenon
        <4>4. i \in W <=> rows[i].admitted /\ ~rows[i].unwound
          BY <1>1, <4>1, WindowIs, Zenon
        <4>5. i # n
          BY <1>3, <3>2, SMT
        <4>. QED
          BY <4>2, <4>3, <4>4, <4>5, Zenon
      <3>3. CASE i \notin 1 .. n
        <4>1. i \in Nat \ {0} => ~(i <= n)
          BY <1>3, <3>3, SMT
        <4>2. i \notin 1 .. n - 1 /\ i # n
          BY <1>3, <3>3, SMT
        <4>. QED
          BY <1>3, <1>5, <4>1, <4>2, WindowIs, Zenon
      <3>4. i \in 1 .. n => i = n \/ i \in 1 .. n - 1
        BY <1>3, SMT
      <3>. QED
        BY <3>1, <3>2, <3>3, <3>4, Zenon
    <2>. QED
      BY <2>1, Zenon
  <1>. QED
    BY <1>3, <1>5, <1>6, Zenon DEF Adds

(* A question in the window: its turn is in flight.                        *)
LEMMA OpenedSound ==
    ASSUME NEW rows, NEW murmurs, Sound(rows, None, murmurs), NEW t \in AllTurns,
           t \notin Seen(rows)
    PROVE  LET new == Admit(rows, "user", t)
           IN  Sound(new, t, murmurs) /\ Seen(new) = Seen(rows) \cup {t} /\ ~Undrawn(new)
  <1>. DEFINE new == Admit(rows, "user", t)
              m == Len(rows)
              n == Len(new)
              W == Window(rows)
  <1>1. rows \in Seq(Rows) /\ Taken(rows) /\ Exchanges(rows, None, murmurs)
    BY Zenon DEF Sound
  <1>2. Admitted(rows, new, "user", t)
    BY <1>1, AdmitIs, Zenon
  <1>3. /\ new \in Seq(Rows) /\ n \in Nat \ {0}
        /\ \A i \in 1 .. n - 1 : i \in DOMAIN rows /\ new[i] = rows[i]
        /\ new[n].role = "user" /\ new[n].turn = t /\ new[n].admitted
        /\ \/ n = m + 1 /\ ~new[n].unwound
           \/ n = m /\ rows # <<>> /\ ~rows[n].admitted /\ new[n].unwound = rows[n].unwound
    BY <1>2, Zenon DEF Admitted, Newest
  <1>. HIDE DEF new
  <1>4. ~new[n].unwound
    <2>1. n = m /\ rows # <<>> => n \in DOMAIN rows
      BY <1>1, <1>3, SMT
    <2>. QED
      BY <1>1, <1>3, <2>1, Zenon DEF Taken
  <1>5. Adds(rows, new, n) /\ \A i \in W : i \in 1 .. n - 1
    BY <1>1, <1>3, <1>4, Grows, Zenon
  <1>6. /\ Window(new) = W \cup {n}
        /\ \A i \in W : i \in Nat /\ i < n /\ i \in 1 .. n - 1 /\ new[i] = rows[i]
    BY <1>5, Zenon DEF Adds
  <1>7. \A i \in W : (\A k \in W : k <= i) => rows[i].role # "user"
    <2>. SUFFICES ASSUME NEW i \in W, \A k \in W : k <= i, rows[i].role = "user" PROVE FALSE
      OBVIOUS
    <2>1. None = rows[i].turn
      BY <1>1, Zenon DEF Exchanges
    <2>2. rows[i].turn \in AllTurns
      <3>1. rows[i] \in Rows
        BY <1>1, LastPlace, SMT
      <3>. QED
        BY <3>1, RowIs, Zenon
    <2>. QED
      BY <2>1, <2>2, NoTurn, Zenon
  <1>. HIDE DEF n, m
  <1>8. Exchanges(new, t, murmurs)
    <2>1. n \in Nat /\ new[n].role = "user" /\ t = new[n].turn
      BY <1>3, Zenon DEF n
    <2>3. AddsAQuestion(rows, new, n, t)
      BY <1>5, <1>7, <2>1, Zenon DEF AddsAQuestion
    <2>. QED
      BY <1>1, <2>3, Grown, Zenon
  <1>9. Taken(new)
    BY <1>1, <1>2, DrawnTaken, Zenon DEF new
  <1>10. Awaits(new, t)
    <2>1. \A i \in W : new[i].turn # t
      BY <1>6, Zenon DEF Seen
    <2>. QED
      BY <1>3, <1>6, <2>1, Zenon DEF Awaits, n
  <1>11. Seen(new) = Seen(rows) \cup {t}
    <2>1. \A i \in W : new[i].turn = rows[i].turn
      BY <1>6, Zenon
    <2>2. new[n].turn = t
      BY <1>3, Zenon DEF n
    <2>. QED
      BY <1>6, <2>1, <2>2, SMT DEF Seen
  <1>12. ~Undrawn(new)
    BY <1>3, Zenon DEF Undrawn, Newest, n
  <1>. QED
    BY <1>3, <1>8, <1>9, <1>10, <1>11, <1>12, Zenon DEF Sound, new

(* Rows that only a line outside the window was added to.                  *)
Beside(rows, more) ==
    /\ more \in Seq(Rows) /\ Taken(more) /\ Window(more) = Window(rows)
    /\ \A i \in Window(rows) : more[i] = rows[i]

(* A reply in flight taken back, from under whatever was drawn after it.   *)
LEMMA TakenBack ==
    ASSUME NEW rows, NEW murmurs, NEW p \in AllTurns, Sound(rows, p, murmurs),
           NEW more, Beside(rows, more)
    PROVE  LET new == Unwind(more)
           IN  /\ Sound(new, None, murmurs) /\ Seen(new) \subseteq Seen(rows) \ {p}
               /\ Undrawn(new) => Undrawn(more)
  <1>. DEFINE new == Unwind(more)
              k == Len(rows)
              W == Window(rows)
  <1>1. /\ rows \in Seq(Rows) /\ Awaits(rows, p) /\ Exchanges(rows, p, murmurs) /\ p # None
        /\ more \in Seq(Rows) /\ Taken(more) /\ Window(more) = W
        /\ \A i \in W : more[i] = rows[i]
    BY NoTurn, Zenon DEF Sound, Beside
  <1>2. /\ k \in W /\ rows[k].role = "user" /\ rows[k].turn = p
        /\ \A i \in W : rows[i].turn = p => i = k
    BY <1>1, Zenon DEF Awaits
  <1>3. \A i \in W : i \in Nat /\ i <= k
    BY <1>1, LastPlace, Zenon
  <1>4. /\ new \in Seq(Rows) /\ Len(new) = Len(more)
        /\ \A i \in DOMAIN more \ {k} : new[i] = more[i]
        /\ new[k].role = "user" /\ new[k].admitted
        /\ Window(new) = W \ {k}
    <2>1. k \in Window(more) /\ (\A i \in Window(more) : i <= k) /\ more[k].role = "user"
      BY <1>1, <1>2, <1>3, Zenon
    <2>2. Unwound(more, new, k)
      BY <1>1, <2>1, UnwindIs, Zenon
    <2>. HIDE DEF new, k, W
    <2>. QED
      BY <1>1, <2>2, Zenon DEF Unwound, W
  <1>. HIDE DEF new
  <1>5. \A i \in W \ {k} : i \in DOMAIN more \ {k} /\ new[i] = rows[i]
    <2>1. \A i \in Window(more) : i \in DOMAIN more
      BY <1>1, LastPlace, Zenon
    <2>. QED
      BY <1>1, <1>4, <2>1, Zenon
  <1>. HIDE DEF k
  <1>6. Exchanges(new, None, murmurs)
    <2>1. \A i \in Window(new) : new[i] = rows[i]
      BY <1>4, <1>5, Zenon
    <2>2. LosesItsQuestion(rows, new, k)
      <3>1. /\ k \in Window(rows) /\ rows[k].role = "user" /\ Window(new) = Window(rows) \ {k}
            /\ \A i \in Window(rows) : i \in Nat /\ i <= k
        BY <1>2, <1>3, <1>4
      <3>. QED
        BY <2>1, <3>1 DEF LosesItsQuestion
    <2>. QED
      BY <1>1, <2>2, Shrunk, Zenon
  <1>7. Taken(new)
    <2>1. DOMAIN new = DOMAIN more
      BY <1>1, <1>4, SMT
    <2>. QED
      BY <1>1, <1>4, <2>1, Zenon DEF Taken
  <1>8. Seen(new) \subseteq Seen(rows) \ {p}
    BY <1>2, <1>4, <1>5, SMT DEF Seen
  <1>9. Undrawn(new) => Undrawn(more)
    <2>. SUFFICES ASSUME Undrawn(new) PROVE Undrawn(more)
      OBVIOUS
    <2>1. Len(new) # k /\ new # <<>> /\ Len(new) = Len(more)
      BY <1>4, Zenon DEF Undrawn, Newest
    <2>2. Len(more) \in DOMAIN more \ {k} /\ more # <<>>
      BY <1>1, <1>4, <2>1, SMT
    <2>3. new[Len(new)] = more[Len(more)]
      BY <1>4, <2>2, Zenon
    <2>. QED
      BY <2>2, <2>3, Zenon DEF Undrawn, Newest
  <1>. QED
    BY <1>4, <1>6, <1>7, <1>8, <1>9, Zenon DEF Sound, Awaits, new, k

(* A turn abandoned, with a reply in flight or none.                       *)
LEMMA AbandonedSound ==
    ASSUME NEW rows, NEW murmurs, NEW p, Sound(rows, p, murmurs)
    PROVE  LET new == IF p = None THEN rows ELSE Unwind(rows)
           IN  /\ Sound(new, None, murmurs) /\ Seen(new) \subseteq Seen(rows)
               /\ p # None => Seen(new) \subseteq Seen(rows) \ {p} /\ ~Undrawn(new)
               /\ p = None => new = rows
  <1>1. CASE p = None
    BY <1>1, Zenon
  <1>2. CASE p # None
    <2>1. p \in AllTurns /\ rows \in Seq(Rows) /\ Taken(rows) /\ Awaits(rows, p)
      BY <1>2, Zenon DEF Sound
    <2>2. ~Undrawn(rows)
      BY <1>2, <2>1, Zenon DEF Awaits, Undrawn, Newest
    <2>. DEFINE new == Unwind(rows)
    <2>3. /\ Sound(new, None, murmurs) /\ Seen(new) \subseteq Seen(rows) \ {p}
          /\ Undrawn(new) => Undrawn(rows)
      <3>1. Beside(rows, rows)
        BY <2>1, Zenon DEF Beside
      <3>. QED
        BY <2>1, <3>1, TakenBack, Zenon
    <2>. HIDE DEF new
    <2>4. Seen(rows) \ {p} \subseteq Seen(rows)
      BY Zenon
    <2>5. Seen(new) \subseteq Seen(rows)
      BY <2>3, Zenon
    <2>. QED
      BY <1>2, <2>2, <2>3, <2>5, Zenon DEF new
  <1>. QED
    BY <1>1, <1>2, Zenon

(* Her line on the page, after one of her own or over the row of one.      *)
LEMMA SpokenSound ==
    ASSUME NEW rows, NEW murmurs, Sound(rows, None, murmurs), NEW t \in AllTurns,
           Undrawn(rows) => rows[Len(rows)].turn = t \/ t \in murmurs
    PROVE  LET new == Draw(rows, "assistant", t)
           IN  /\ Sound(new, None, murmurs) /\ Seen(new) \subseteq Seen(rows) \cup {t}
               /\ t \notin murmurs => Seen(new) \subseteq Seen(rows)
               /\ ~Undrawn(new)
  <1>. DEFINE new == Draw(rows, "assistant", t)
              m == Len(rows)
  <1>1. rows \in Seq(Rows) /\ Taken(rows) /\ Exchanges(rows, None, murmurs)
    BY Zenon DEF Sound
  <1>2. Drawn(rows, new, "assistant", t)
    BY <1>1, DrawIs, Zenon
  <1>3. Exchanges(new, None, murmurs)
    <2>1. "assistant" \in {"user", "assistant"}
      OBVIOUS
    <2>2. Newest(rows, "assistant") /\ ~rows[Len(rows)].drawn =>
               \/ Len(rows) \notin Window(rows) \/ rows[Len(rows)].turn = t
               \/ "assistant" = "assistant" /\ t \in murmurs
      BY Zenon DEF Undrawn
    <2>. QED
      BY <1>1, <2>1, <2>2, DrawKeepsExchanges, Zenon
  <1>4. Taken(new)
    BY <1>1, <1>2, DrawnTaken, Zenon
  <1>5. /\ Window(new) = Window(rows)
        /\ \A i \in Window(rows) : /\ new[i].turn \in {rows[i].turn, t}
                                   /\ i # m => new[i].turn = rows[i].turn
    BY <1>1, DrawKeepsTheWindow, Zenon
  <1>6. new \in Seq(Rows) /\ ~Undrawn(new)
    BY <1>2, Zenon DEF Drawn, Undrawn
  <1>7. Undrawn(rows) \/ (m \in Window(rows) => new[m] = rows[m])
    <2>1. CASE Len(new) = m + 1
      <3>1. m \in Window(rows) => m \in 1 .. Len(new) - 1
        BY <1>1, <2>1, LastPlace, SMT
      <3>. QED
        BY <1>2, <3>1, Zenon DEF Drawn
    <2>2. CASE Len(new) # m + 1
      BY <1>2, <2>2, Zenon DEF Drawn, Undrawn
    <2>. QED
      BY <2>1, <2>2, Zenon
  <1>. HIDE DEF new, m
  <1>8. Seen(new) \subseteq Seen(rows) \cup {t}
    BY <1>5, SMT DEF Seen
  <1>9. t \notin murmurs => Seen(new) \subseteq Seen(rows)
    <2>. SUFFICES ASSUME t \notin murmurs PROVE \A i \in Window(rows) : new[i].turn = rows[i].turn
      BY <1>5, SMT DEF Seen
    <2>1. CASE m \in Window(rows)
      <3>1. new[m].turn = rows[m].turn
        <4>1. CASE Undrawn(rows)
          <5>1. rows[m].turn = t
            BY <4>1, Zenon DEF m
          <5>. QED
            BY <1>5, <2>1, <5>1, Zenon
        <4>2. CASE ~Undrawn(rows)
          BY <1>7, <2>1, <4>2, Zenon
        <4>. QED
          BY <4>1, <4>2, Zenon
      <3>. QED
        BY <1>5, <3>1, Zenon
    <2>2. CASE m \notin Window(rows)
      BY <1>5, <2>2, Zenon
    <2>. QED
      BY <2>1, <2>2, Zenon
  <1>. QED
    BY <1>3, <1>4, <1>6, <1>8, <1>9, Zenon DEF Sound, Awaits, new

(* An unprompted line: drawn, and whatever is in flight taken back.        *)
LEMMA MurmuredSound ==
    ASSUME NEW rows, NEW murmurs, NEW p, Sound(rows, p, murmurs), NEW t \in AllTurns,
           t \in murmurs
    PROVE  LET new == IF p = None THEN Draw(rows, "assistant", t)
                                  ELSE Unwind(Draw(rows, "assistant", t))
           IN  /\ Sound(new, None, murmurs) /\ Seen(new) \subseteq Seen(rows) \cup {t}
               /\ p # None => Seen(new) \subseteq Seen(rows) \ {p}
               /\ ~Undrawn(new)
  <1>1. CASE p = None
    BY <1>1, SpokenSound, Zenon
  <1>2. CASE p # None
    <2>. DEFINE more == Draw(rows, "assistant", t)
                m == Len(rows)
                new == Unwind(more)
    <2>1. p \in AllTurns /\ rows \in Seq(Rows) /\ Taken(rows) /\ Awaits(rows, p)
      BY <1>2, Zenon DEF Sound
    <2>2. Drawn(rows, more, "assistant", t)
      BY <2>1, DrawIs, Zenon
    <2>3. ~Newest(rows, "assistant")
      BY <1>2, <2>1, Zenon DEF Awaits, Newest
    <2>4. /\ more \in Seq(Rows) /\ Len(more) = m + 1 /\ ~Undrawn(more)
          /\ \A i \in 1 .. Len(more) - 1 : more[i] = rows[i]
      BY <2>2, <2>3, Zenon DEF Drawn, Undrawn
    <2>5. Taken(more)
      BY <2>1, <2>2, DrawnTaken, Zenon
    <2>6. Window(more) = Window(rows)
      BY <2>1, DrawKeepsTheWindow, Zenon
    <2>7. \A i \in Window(rows) : more[i] = rows[i]
      <3>1. m \in Nat /\ \A i \in Window(rows) : i \in Nat \ {0} /\ i <= m
        BY <2>1, LastPlace, Zenon
      <3>2. \A i \in Window(rows) : i \in 1 .. Len(more) - 1
        BY <2>4, <3>1, SMT
      <3>. QED
        BY <2>4, <3>2, Zenon
    <2>. HIDE DEF more
    <2>8. /\ Sound(new, None, murmurs) /\ Seen(new) \subseteq Seen(rows) \ {p}
          /\ Undrawn(new) => Undrawn(more)
      <3>1. Beside(rows, more)
        BY <2>4, <2>5, <2>6, <2>7, Zenon DEF Beside
      <3>. QED
        BY <2>1, <3>1, TakenBack, Zenon
    <2>. HIDE DEF new
    <2>9. Seen(new) \subseteq Seen(rows) \cup {t}
      BY <2>8, Zenon
    <2>. QED
      BY <1>2, <2>4, <2>8, <2>9, Zenon DEF new, more
  <1>. QED
    BY <1>1, <1>2, Zenon

(* A reply: drawn or not, it is in the window under its question.          *)
Answered(rows, new, murmurs, t) ==
    /\ Sound(new, None, murmurs) /\ Seen(new) \subseteq Seen(rows)
    /\ new[Len(new)].turn = t

LEMMA RepliedSound ==
    ASSUME NEW rows, NEW murmurs, NEW t \in AllTurns, Sound(rows, t, murmurs),
           NEW base, base = rows \/ base = Draw(rows, "assistant", t)
    PROVE  Answered(rows, Admit(base, "assistant", t), murmurs, t)
  <1>. DEFINE new == Admit(base, "assistant", t)
              m == Len(rows)
              n == Len(new)
              W == Window(rows)
  <1>1. /\ rows \in Seq(Rows) /\ Taken(rows) /\ Awaits(rows, t) /\ Exchanges(rows, t, murmurs)
        /\ t # None
    BY NoTurn, Zenon DEF Sound
  <1>2. m \in W /\ rows[m].role = "user" /\ rows[m].turn = t
    BY <1>1, Zenon DEF Awaits
  <1>3. /\ m \in Nat \ {0} /\ rows # <<>>
        /\ \A k \in W : k <= m
    <2>1. m \in Nat \ {0} /\ \A k \in W : k <= m
      BY <1>1, <1>2, LastPlace, Zenon
    <2>. QED
      BY <1>1, <2>1, SMT
  <1>4. ~Newest(rows, "assistant")
    BY <1>2, Zenon DEF Newest
  <1>5. /\ new \in Seq(Rows) /\ n = m + 1 /\ Taken(new)
        /\ \A i \in 1 .. m : i \in DOMAIN rows /\ new[i] = rows[i]
        /\ new[n].role = "assistant" /\ new[n].turn = t /\ new[n].admitted /\ ~new[n].unwound
    <2>1. CASE base = rows
      <3>1. Admitted(rows, new, "assistant", t)
        BY <1>1, <2>1, AdmitIs, Zenon
      <3>2. Taken(new)
        BY <1>1, <3>1, DrawnTaken, Zenon
      <3>3. n = m + 1 /\ ~new[n].unwound
        BY <1>4, <3>1, Zenon DEF Admitted
      <3>4. (m + 1) - 1 = m
        BY <1>3, SMT
      <3>. QED
        BY <3>1, <3>2, <3>3, <3>4, Zenon DEF Admitted
    <2>2. CASE base = Draw(rows, "assistant", t)
      <3>1. Drawn(rows, base, "assistant", t)
        BY <1>1, <2>2, DrawIs, Zenon
      <3>2. Taken(base)
        BY <1>1, <3>1, DrawnTaken, Zenon
      <3>3. /\ base \in Seq(Rows) /\ Len(base) = m + 1
            /\ ~base[Len(base)].admitted /\ ~base[Len(base)].unwound
            /\ base[Len(base)].role = "assistant"
            /\ \A i \in 1 .. Len(base) - 1 : i \in DOMAIN rows /\ base[i] = rows[i]
        BY <1>4, <3>1, Zenon DEF Drawn
      <3>4. Newest(base, "assistant")
        BY <1>3, <3>3, SMT DEF Newest
      <3>5. Admitted(base, new, "assistant", t)
        BY <3>3, AdmitIs, Zenon
      <3>6. Taken(new)
        BY <3>2, <3>3, <3>5, DrawnTaken, Zenon
      <3>7. base # <<>>
        BY <3>4, Zenon DEF Newest
      <3>8. n = m + 1 /\ ~new[n].unwound
        BY <3>3, <3>5, <3>7, Zenon DEF Admitted
      <3>9. (m + 1) - 1 = m
        BY <1>3, SMT
      <3>10. \A i \in 1 .. m : i \in DOMAIN rows /\ new[i] = rows[i]
        BY <3>3, <3>5, <3>8, <3>9, Zenon DEF Admitted
      <3>. QED
        BY <3>5, <3>6, <3>8, <3>10, Zenon DEF Admitted
    <2>. QED
      BY <2>1, <2>2, Zenon
  <1>. HIDE DEF new, m, n
  <1>6. Adds(rows, new, n)
    <2>1. n \in Nat \ {0} /\ n - 1 = m
      BY <1>3, <1>5, SMT
    <2>. QED
      BY <1>1, <1>5, <2>1, Grows, Zenon DEF m, n
  <1>7. AddsAnAnswer(rows, new, n)
    <2>1. rows[m].turn = new[n].turn
      BY <1>2, <1>5, Zenon
    <2>. QED
      BY <1>2, <1>3, <1>5, <1>6, <2>1, Zenon DEF AddsAnAnswer
  <1>8. Exchanges(new, None, murmurs)
    BY <1>1, <1>7, Grown, Zenon
  <1>9. Seen(new) \subseteq Seen(rows)
    <2>1. /\ Window(new) = W \cup {n} /\ m \in W /\ rows[m].turn = new[n].turn
          /\ \A i \in W : new[i].turn = rows[i].turn
      BY <1>2, <1>5, <1>6, Zenon DEF Adds
    <2>2. \A i \in Window(new) : new[i].turn \in Seen(rows)
      BY <2>1, Zenon DEF Seen
    <2>. QED
      BY <2>2, Zenon DEF Seen
  <1>. QED
    BY <1>5, <1>8, <1>9, Zenon DEF Answered, Sound, Awaits, new, n

-----------------------------------------------------------------------------
(* Everything but the rows keeps its type.                                 *)
ControlType ==
    /\ pending \in [Sessions -> AllTurns \cup {None}]
    /\ kind \in [AllTurns -> Kinds \cup {"none"}]
    /\ at \in [AllTurns -> {"new", "settling"} \cup Before \cup After]
    /\ floor \in AllTurns \cup {None} /\ mouth \in AllTurns \cup {None}
    /\ barged \in BOOLEAN /\ room \in {"listening", "yielding", "hearing", "gone"}
    /\ host \in {"up", "stopping", "unplugging", "draining", "closed"}
    /\ wordless \subseteq AllTurns /\ talked \subseteq AllTurns /\ hungUp \subseteq AllTurns
    /\ floor # None => kind[floor] \in TextKinds /\ at[floor] \notin {"new", "queued"} \cup After

(* A turn's pipeline waits for vault_lock once.                            *)
VaultType ==
    /\ vault \in Seq(AllTurns)
    /\ \A i \in DOMAIN vault : at[vault[i]] \in {"settling", "cut"}
    /\ \A i, j \in DOMAIN vault : vault[i] = vault[j] => i = j

KindsOfTurns ==
    /\ \A t \in AllTurns : /\ at[t] = "new" <=> kind[t] = "none"
                           /\ at[t] = "queued" => kind[t] \in TextKinds
                           /\ at[t] = "settling" => kind[t] # "ambient"
    /\ mouth # None => kind[mouth] \in {"voice", "ambient"}

(* A text turn under way has the floor, a voice turn is the last the       *)
(* connection started, and no line is being heard.                         *)
InTurn == {"gate", "assembling", "streaming", "settling"}

OneAtATime ==
    \A t \in AllTurns :
        /\ kind[t] \in TextKinds /\ at[t] \in InTurn => floor = t
        /\ kind[t] = "voice" /\ at[t] \in InTurn => mouth = t /\ room # "hearing"

(* The reply in flight is that of a turn of the session that streams.      *)
OneInFlight ==
    \A s \in Sessions : pending[s] # None =>
        /\ at[pending[s]] = "streaming" /\ kind[pending[s]] # "ambient"
        /\ Session(pending[s]) = s

(* Who is talked over and has not noticed is still the last to speak.      *)
TalkedIsMouth ==
    \A t \in talked : /\ at[t] \in Before \cup {"failed"}
                      /\ at[t] \in Before => mouth = t /\ barged /\ room # "hearing"

NobodyRuns == host \in {"draining", "closed"} => \A t \in AllTurns : ~Running(t)

MemoryShut == host = "closed" => vault = <<>>

ControlInv == /\ ControlType /\ VaultType /\ KindsOfTurns /\ OneAtATime /\ OneInFlight
              /\ TalkedIsMouth /\ NobodyRuns /\ MemoryShut

Moves(t) == \/ Asks(t) \/ TakesTheFloor(t) \/ TurnedAway(t) \/ PassesTheGate(t) \/ Streams(t)
            \/ Fails(t) \/ CallerGivesUp(t) \/ Answers(t) \/ Injects(t) \/ Murmured(t) \/ Stopped(t)
Persists(t) == Replies(t) \/ Spoke(t)
Room == \/ LineComes \/ Hears \/ HearsNothing \/ BargesIn \/ GoesAway
        \/ StopBegins \/ StopWaits \/ StopUnplugs \/ StopCloses

(* A turn that moves, and does not persist.                                *)
LEMMA ControlByMoves == ASSUME ControlInv, NEW t \in AllTurns, Moves(t) PROVE ControlInv'
  <1>. USE NoTurn DEF ControlInv, ControlType, Kinds, TextKinds, Before, After, Sessions, Running, Becomes,
                      Abandon, voice, turnsHistory, InTurn, Session
  <1>1. CASE Asks(t)
    BY <1>1, SMT DEF Asks, Fresh, VaultType, KindsOfTurns, OneAtATime, OneInFlight, TalkedIsMouth,
                     NobodyRuns, MemoryShut
  <1>2. CASE TakesTheFloor(t)
    BY <1>2, SMT DEF TakesTheFloor, VaultType, KindsOfTurns, OneAtATime, OneInFlight, TalkedIsMouth,
                     NobodyRuns, MemoryShut
  <1>3. CASE PassesTheGate(t)
    BY <1>3, SMT DEF PassesTheGate, GoesOn, VaultType, KindsOfTurns, OneAtATime, OneInFlight, TalkedIsMouth,
                     NobodyRuns, MemoryShut
  <1>4. CASE Streams(t)
    BY <1>4, SMT DEF Streams, GoesOn, VaultType, KindsOfTurns, OneAtATime, OneInFlight, TalkedIsMouth,
                     NobodyRuns, MemoryShut
  <1>5. CASE Fails(t)
    BY <1>5, SMT DEF Fails, VaultType, KindsOfTurns, OneAtATime, OneInFlight, TalkedIsMouth,
                     NobodyRuns, MemoryShut
  <1>6. CASE CallerGivesUp(t)
    BY <1>6, SMT DEF CallerGivesUp, VaultType, KindsOfTurns, OneAtATime, OneInFlight, TalkedIsMouth,
                     NobodyRuns, MemoryShut
  <1>7. CASE Answers(t)
    <2>1. at[t] = "new" /\ kind[t] = "none"
      BY <1>7, SMT DEF Answers, Arms, Fresh, KindsOfTurns
    <2>2. ControlType'
      <3>1. /\ kind' = [kind EXCEPT ![t] = "voice"] /\ at' = [at EXCEPT ![t] = "gate"]
            /\ floor' = floor /\ floor # t
        BY <1>7, <2>1, SMT DEF Answers, Arms
      <3>2. /\ kind' \in [AllTurns -> Kinds \cup {"none"}]
            /\ at' \in [AllTurns -> {"new", "settling"} \cup Before \cup After]
        BY <3>1, SMT
      <3>3. floor # None =>
                kind'[floor] \in TextKinds /\ at'[floor] \notin {"new", "queued"} \cup After
        BY <3>1, SMT
      <3>4. /\ pending' = pending /\ mouth' \in AllTurns \cup {None} /\ barged' \in BOOLEAN
            /\ room' \in {"listening", "yielding", "hearing", "gone"} /\ host' = host
            /\ wordless' = wordless /\ talked' = talked /\ hungUp' = hungUp
        BY <1>7, Zenon DEF Answers, Arms
      <3>. QED
        BY <3>1, <3>2, <3>3, <3>4, Zenon
    <2>3. VaultType'
      BY <1>7, <2>1, SMT DEF Answers, Arms, VaultType
    <2>4. KindsOfTurns'
      BY <1>7, <2>1, SMT DEF Answers, Arms, KindsOfTurns
    <2>5. OneAtATime'
      BY <1>7, <2>1, SMT DEF Answers, Arms, KindsOfTurns, OneAtATime
    <2>6. OneInFlight'
      BY <1>7, <2>1, SMT DEF Answers, Arms, OneInFlight
    <2>7. TalkedIsMouth'
      BY <1>7, <2>1, SMT DEF Answers, Arms, KindsOfTurns, TalkedIsMouth
    <2>8. NobodyRuns' /\ MemoryShut'
      BY <1>7, <2>1, SMT DEF Answers, Arms, NobodyRuns, MemoryShut
    <2>. QED
      BY <2>2, <2>3, <2>4, <2>5, <2>6, <2>7, <2>8, Zenon
  <1>8. CASE Injects(t)
    <2>1. at[t] = "new" /\ kind[t] = "none"
      BY <1>8, SMT DEF Injects, Arms, Fresh, KindsOfTurns
    <2>2. ControlType'
      <3>1. /\ kind' = [kind EXCEPT ![t] = "ambient"] /\ at' = [at EXCEPT ![t] = "gate"]
            /\ floor' = floor /\ floor # t
        BY <1>8, <2>1, SMT DEF Injects, Arms
      <3>2. /\ kind' \in [AllTurns -> Kinds \cup {"none"}]
            /\ at' \in [AllTurns -> {"new", "settling"} \cup Before \cup After]
        BY <3>1, SMT
      <3>3. floor # None =>
                kind'[floor] \in TextKinds /\ at'[floor] \notin {"new", "queued"} \cup After
        BY <3>1, SMT
      <3>4. /\ pending' = pending /\ mouth' \in AllTurns \cup {None} /\ barged' \in BOOLEAN
            /\ room' \in {"listening", "yielding", "hearing", "gone"} /\ host' = host
            /\ wordless' = wordless /\ talked' = talked /\ hungUp' = hungUp
        BY <1>8, Zenon DEF Injects, Arms
      <3>. QED
        BY <3>1, <3>2, <3>3, <3>4, Zenon
    <2>3. VaultType'
      BY <1>8, <2>1, SMT DEF Injects, Arms, VaultType
    <2>4. KindsOfTurns'
      BY <1>8, <2>1, SMT DEF Injects, Arms, KindsOfTurns
    <2>5. OneAtATime'
      BY <1>8, <2>1, SMT DEF Injects, Arms, KindsOfTurns, OneAtATime, Speaking
    <2>6. OneInFlight'
      BY <1>8, <2>1, SMT DEF Injects, Arms, OneInFlight
    <2>7. TalkedIsMouth'
      BY <1>8, <2>1, SMT DEF Injects, Arms, KindsOfTurns, TalkedIsMouth, Speaking
    <2>8. NobodyRuns' /\ MemoryShut'
      BY <1>8, <2>1, SMT DEF Injects, Arms, NobodyRuns, MemoryShut
    <2>. QED
      BY <2>2, <2>3, <2>4, <2>5, <2>6, <2>7, <2>8, Zenon
  <1>9. CASE Murmured(t)
    BY <1>9, SMT DEF Murmured, VaultType, KindsOfTurns, OneAtATime, OneInFlight, TalkedIsMouth,
                     NobodyRuns, MemoryShut
  <1>10. CASE Stopped(t)
    BY <1>10, SMT DEF Stopped, Live, Committing, VaultType, KindsOfTurns, OneAtATime, OneInFlight,
                     TalkedIsMouth, NobodyRuns, MemoryShut
  <1>11. CASE TurnedAway(t)
    BY <1>11, SMT DEF TurnedAway, VaultType, KindsOfTurns, OneAtATime, OneInFlight, TalkedIsMouth,
                     NobodyRuns, MemoryShut
  <1>. QED
    BY <1>1, <1>2, <1>3, <1>4, <1>5, <1>6, <1>7, <1>8, <1>9, <1>10, <1>11, Zenon DEF Moves

(* A turn that persists waits for vault_lock if it had a reply in flight.  *)
LEMMA ControlByPersists ==
    ASSUME ControlInv, NEW t \in AllTurns, NEW rows, at[t] = "streaming",
           kind[t] \in TextKinds \cup {"voice"},
           host \in {"up", "stopping"}, Persist(t, rows), UNCHANGED <<kind, voice, host, talked, hungUp>>,
           wordless' \in {wordless, wordless \cup {t}},
           kind[t] = "voice" => ~barged
    PROVE  ControlInv'
  <1>. USE NoTurn DEF ControlInv, ControlType, Kinds, TextKinds, Before, After, Sessions, Running,
                      voice, InTurn, Session, Persist, Becomes
  <1>1. CASE pending[Session(t)] = None
    BY <1>1, SMT DEF VaultType, KindsOfTurns, OneAtATime, OneInFlight, TalkedIsMouth, NobodyRuns,
                     MemoryShut
  <1>2. CASE pending[Session(t)] # None
    <2>1. /\ at' = [at EXCEPT ![t] = "settling"] /\ floor' = floor /\ vault' = Append(vault, t)
          /\ pending' = [pending EXCEPT ![Session(t)] = None]
      BY <1>2, SMT
    <2>2. ControlType'
      BY <2>1, SMT
    <2>3. VaultType'
      BY <2>1, SMT DEF VaultType
    <2>4. KindsOfTurns'
      BY <2>1, SMT DEF KindsOfTurns
    <2>5. OneAtATime'
      BY <2>1, SMT DEF OneAtATime
    <2>6. OneInFlight'
      BY <2>1, SMT DEF OneInFlight, OneAtATime
    <2>7. TalkedIsMouth'
      BY <2>1, SMT DEF TalkedIsMouth, KindsOfTurns, OneAtATime
    <2>8. NobodyRuns' /\ MemoryShut'
      BY <2>1, SMT DEF NobodyRuns, MemoryShut
    <2>. QED
      BY <2>2, <2>3, <2>4, <2>5, <2>6, <2>7, <2>8, Zenon
  <1>. QED
    BY <1>1, <1>2, Zenon

(* vault_lock passes to the next pipeline.                                 *)
LEMMA ControlBySettles == ASSUME ControlInv, Settles PROVE ControlInv'
  <1>. USE NoTurn DEF ControlInv, ControlType, Kinds, TextKinds, Before, After, Sessions, Running,
                      voice, turnsHistory, InTurn, Session
  <1>. DEFINE t == Head(vault)
  <1>1. /\ vault # <<>> /\ vault' = Tail(vault) /\ t \in AllTurns /\ at[t] \in {"settling", "cut"}
        /\ \A i \in DOMAIN vault' : vault'[i] # t
    BY SMT DEF Settles, VaultType
  <1>2. VaultType'
    <2>1. CASE at' = at
      BY <1>1, <2>1, SMT DEF VaultType
    <2>2. CASE at' = [at EXCEPT ![t] = "done"]
      BY <1>1, <2>2, SMT DEF VaultType
    <2>. QED
      BY <2>1, <2>2, SMT DEF Settles, Becomes
  <1>3. /\ UNCHANGED <<kind, mouth, barged, room, host, wordless, talked, hungUp>>
        /\ \/ at' = at /\ floor' = floor /\ pending' = pending
           \/ /\ at[t] = "settling"
              /\ at' = [at EXCEPT ![t] = "done"] /\ floor' = IF floor = t THEN None ELSE floor
              /\ \/ pending' = pending
                 \/ pending' = [pending EXCEPT ![Session(t)] = None]
    BY <1>1, SMT DEF Settles, Becomes, Abandon
  <1>. HIDE DEF t
  <1>4. CASE at' = at /\ floor' = floor /\ pending' = pending
    <2>1. ControlType' /\ KindsOfTurns' /\ OneAtATime' /\ OneInFlight' /\ TalkedIsMouth'
      BY <1>3, <1>4, SMT DEF KindsOfTurns, OneAtATime, OneInFlight, TalkedIsMouth
    <2>2. NobodyRuns' /\ MemoryShut'
      BY <1>1, <1>3, <1>4, SMT DEF NobodyRuns, MemoryShut
    <2>. QED
      BY <1>2, <2>1, <2>2, Zenon
  <1>5. CASE /\ at[t] = "settling"
             /\ at' = [at EXCEPT ![t] = "done"] /\ floor' = IF floor = t THEN None ELSE floor
             /\ \/ pending' = pending
                \/ pending' = [pending EXCEPT ![Session(t)] = None]
    <2>1. ControlType'
      BY <1>1, <1>3, <1>5, SMT
    <2>2. KindsOfTurns'
      BY <1>1, <1>3, <1>5, SMT DEF KindsOfTurns
    <2>3. OneAtATime'
      BY <1>1, <1>3, <1>5, SMT DEF OneAtATime
    <2>4. OneInFlight'
      BY <1>1, <1>3, <1>5, SMT DEF OneInFlight
    <2>5. TalkedIsMouth'
      BY <1>1, <1>3, <1>5, SMT DEF TalkedIsMouth
    <2>6. NobodyRuns' /\ MemoryShut'
      BY <1>1, <1>3, <1>5, SMT DEF NobodyRuns, MemoryShut
    <2>. QED
      BY <1>2, <2>1, <2>2, <2>3, <2>4, <2>5, <2>6, Zenon
  <1>. QED
    BY <1>3, <1>4, <1>5, Zenon

(* The reader of the connection, and Stop.                                 *)
LEMMA ControlByRoom == ASSUME ControlInv, Room PROVE ControlInv'
  <1>. USE NoTurn DEF ControlInv, ControlType, Kinds, TextKinds, Before, After, Sessions, Running,
                      voice, turnsHistory, InTurn, Session, Speaking, TalkOver
  <1>1. /\ UNCHANGED <<pending, kind, at, floor, mouth, vault, wordless, hungUp>>
        /\ \/ talked' = talked
           \/ /\ Speaking /\ barged' /\ at[mouth] \in Before /\ room' # "hearing"
              /\ talked' = talked \cup {mouth}
        /\ room' \in {"listening", "yielding", "hearing", "gone"}
        /\ host' \in {"up", "stopping", "unplugging", "draining", "closed"}
    <2>1. CASE LineComes \/ BargesIn \/ GoesAway
      <3>1. barged' = (barged \/ Speaking)
        BY <2>1, Zenon DEF LineComes, BargesIn, GoesAway
      <3>2. Speaking => barged'
        BY <3>1, Zenon
      <3>3. /\ UNCHANGED <<pending, kind, at, floor, mouth, vault, wordless, hungUp, host>>
            /\ talked' = IF Speaking /\ at[mouth] \in Before THEN talked \cup {mouth} ELSE talked
            /\ room' \in {"yielding", "listening", "gone"}
        <4>. HIDE DEF Speaking
        <4>1. room' = "yielding" \/ (room' = room /\ room = "listening") \/ room' = "gone"
          BY <2>1, Zenon DEF LineComes, BargesIn, GoesAway
        <4>. QED
          BY <2>1, <4>1, SMT DEF LineComes, BargesIn, GoesAway
      <3>. QED
        BY <3>2, <3>3, SMT
    <2>2. CASE Hears \/ HearsNothing \/ StopBegins \/ StopWaits \/ StopUnplugs \/ StopCloses
      BY <2>2, SMT DEF Hears, HearsNothing, StopBegins, StopWaits, StopUnplugs, StopCloses
    <2>. QED
      BY <2>1, <2>2, Zenon DEF Room
  <1>2. barged' \in BOOLEAN /\ (barged => barged')
    <2>1. CASE LineComes \/ BargesIn \/ GoesAway
      <3>1. barged' = (barged \/ Speaking)
        BY <2>1, Zenon DEF LineComes, BargesIn, GoesAway
      <3>. QED
        BY <3>1, Zenon
    <2>2. CASE StopBegins
      BY <2>2, Zenon DEF StopBegins
    <2>3. CASE Hears \/ HearsNothing \/ StopWaits \/ StopUnplugs \/ StopCloses
      <3>1. barged' = barged
        BY <2>3, SMT DEF Hears, HearsNothing, StopWaits, StopUnplugs, StopCloses
      <3>. QED
        BY <3>1, Zenon
    <2>. QED
      BY <2>1, <2>2, <2>3, Zenon DEF Room
  <1>3. room' = "hearing" => room = "hearing" \/ ~Speaking
    BY SMT DEF Room, LineComes, Hears, HearsNothing, BargesIn, GoesAway, StopBegins, StopWaits,
               StopUnplugs, StopCloses, LetGo
  <1>4. /\ host' \in {"draining", "closed"} =>
              host \in {"draining", "closed"} \/ \A t \in AllTurns : ~Running(t)
        /\ host' = "closed" => host = "closed" \/ vault = <<>>
    BY SMT DEF Room, LineComes, Hears, HearsNothing, BargesIn, GoesAway, StopBegins, StopWaits,
               StopUnplugs, StopCloses, Settled
  <1>5. ControlType'
    BY <1>1, <1>2, SMT
  <1>6. VaultType'
    BY <1>1, SMT DEF VaultType
  <1>7. KindsOfTurns' /\ OneInFlight'
    BY <1>1, SMT DEF KindsOfTurns, OneInFlight
  <1>8. OneAtATime'
    BY <1>1, <1>2, <1>3, SMT DEF OneAtATime
  <1>9. TalkedIsMouth'
    BY <1>1, <1>2, <1>3, SMT DEF TalkedIsMouth
  <1>10. NobodyRuns' /\ MemoryShut'
    BY <1>1, <1>4, SMT DEF NobodyRuns, MemoryShut
  <1>. QED
    BY <1>5, <1>6, <1>7, <1>8, <1>9, <1>10, Zenon

(* One step of Turns, whoever takes it.                                    *)
LEMMA TheSteps ==
    ASSUME [TurnsNext]_turnsVars
    PROVE  \/ \E t \in AllTurns : Moves(t) \/ Persists(t)
           \/ Settles \/ Room \/ UNCHANGED turnsVars
  BY Zenon DEF TurnsNext, Pump, Moves, Persists, Room

(* The control of the turns is inductive by itself.                        *)
LEMMA ControlStep == ASSUME ControlInv, [TurnsNext]_turnsVars PROVE ControlInv'
  <1>1. CASE \E t \in AllTurns : Moves(t)
    BY <1>1, ControlByMoves, Zenon
  <1>2. CASE \E t \in AllTurns : Replies(t)
    <2>. PICK t \in AllTurns : Replies(t)
      BY <1>2, Zenon
    <2>. PICK rows : /\ wordless' = IF rows = log[Session(t)] THEN wordless \cup {t} ELSE wordless
                     /\ Persist(t, rows)
      BY Zenon DEF Replies
    <2>1. /\ at[t] = "streaming" /\ kind[t] \in TextKinds
          /\ UNCHANGED <<kind, voice, host, talked, hungUp>>
      BY Zenon DEF Replies
    <2>2. wordless' \in {wordless, wordless \cup {t}}
      BY SMT
    <2>3. /\ kind[t] \in TextKinds \cup {"voice"} /\ kind[t] # "voice"
          /\ host \in {"up", "stopping"}
      BY <2>1, SMT DEF TextKinds, Replies, GoesOn
    <2>. QED
      BY <2>1, <2>2, <2>3, ControlByPersists, Zenon
  <1>3. CASE \E t \in AllTurns : Spoke(t)
    <2>. PICK t \in AllTurns : Spoke(t)
      BY <1>3, Zenon
    <2>. PICK words \in BOOLEAN :
              /\ wordless' = IF words THEN wordless ELSE wordless \cup {t}
              /\ Persist(t, IF words /\ pending[VoiceSession] = None
                            THEN Draw(log[VoiceSession], "assistant", t)
                            ELSE log[VoiceSession])
      BY Zenon DEF Spoke
    <2>1. /\ at[t] = "streaming" /\ kind[t] = "voice" /\ host = "up" /\ ~barged
          /\ UNCHANGED <<kind, voice, host, talked, hungUp>>
      BY Zenon DEF Spoke
    <2>2. wordless' \in {wordless, wordless \cup {t}}
      BY SMT
    <2>3. kind[t] \in TextKinds \cup {"voice"} /\ host \in {"up", "stopping"}
      BY <2>1, SMT
    <2>. QED
      BY <2>1, <2>2, <2>3, ControlByPersists, Zenon
  <1>4. CASE Settles
    BY <1>4, ControlBySettles, Zenon
  <1>5. CASE Room
    BY <1>5, ControlByRoom, Zenon
  <1>6. CASE UNCHANGED turnsVars
    BY <1>6, SMT DEF ControlInv, ControlType, VaultType, KindsOfTurns, OneAtATime, OneInFlight,
                     TalkedIsMouth, NobodyRuns, MemoryShut, Running, Session, turnsVars, voice,
                     turnsHistory
  <1>. QED
    BY <1>1, <1>2, <1>3, <1>4, <1>5, <1>6, TheSteps, Zenon DEF Persists

LEMMA ControlInit == TurnsInit => ControlInv
  <1>. SUFFICES ASSUME TurnsInit PROVE ControlInv
    OBVIOUS
  <1>. USE NoTurn DEF TurnsInit, Kinds, TextKinds, Before, After, Sessions, Running, InTurn, Session
  <1>1. ControlType
    <2>1. barged \in BOOLEAN
      BY Zenon
    <2>. QED
      BY <2>1, SMT DEF ControlType
  <1>2. VaultType
    BY SMT DEF VaultType
  <1>3. KindsOfTurns /\ OneAtATime /\ OneInFlight /\ TalkedIsMouth /\ NobodyRuns /\ MemoryShut
    BY SMT DEF KindsOfTurns, OneAtATime, OneInFlight, TalkedIsMouth, NobodyRuns, MemoryShut
  <1>. QED
    BY <1>1, <1>2, <1>3, Zenon DEF ControlInv

-----------------------------------------------------------------------------
(* A turn the window may know nothing of.                                  *)
Absent == {"new", "queued", "gate", "assembling", "failed"}

(* The window of a session knows no turn that has not begun or did not     *)
(* happen, and of the turns that stream only the one in flight.            *)
NoTrace(s) ==
    \A t \in Seen(log[s]) : /\ at[t] \notin Absent
                            /\ at[t] = "streaming" => pending[s] = t

(* A turn of the session finds no reply that was not drawn but its own.    *)
HersIsDrawn(s) ==
    \A t \in AllTurns : kind[t] # "ambient" /\ Session(t) = s =>
        /\ at[t] \in {"gate", "assembling", "streaming"} => ~Undrawn(log[s])
        /\ kind[t] = "voice" /\ at[t] = "settling" /\ Undrawn(log[s]) =>
               log[s][Len(log[s])].turn = t

Good(s) == Sound(log[s], pending[s], Murmurs) /\ NoTrace(s) /\ HersIsDrawn(s)

(* What makes the properties of the window inductive.                      *)
LogInv == log \in [Sessions -> Seq(Rows)] /\ \A s \in Sessions : Good(s)

(* What the MC instance has too: a session for each kind of client.        *)
SessionsApart == /\ TextSession # ChatSession /\ TextSession # VoiceSession
                 /\ ChatSession # VoiceSession

(* Two turns of one session, neither a murmur, are never both under way.   *)
LEMMA Alone ==
    ASSUME ControlInv, SessionsApart, NEW t \in AllTurns, NEW u \in AllTurns,
           kind[t] # "ambient", at[t] \in InTurn, kind[u] # "ambient", at[u] \in InTurn,
           Session(t) = Session(u)
    PROVE  t = u
  <1>1. kind[t] \in TextKinds \cup {"voice"} /\ kind[u] \in TextKinds \cup {"voice"}
    BY SMT DEF ControlInv, ControlType, KindsOfTurns, Kinds, TextKinds, InTurn
  <1>. QED
    BY <1>1, NoTurn, SMT DEF SessionsApart, ControlInv, OneAtATime, Session, TextKinds

(* A larger set of murmurs takes nothing from a run of exchanges.          *)
LEMMA MoreMurmurs ==
    ASSUME NEW rows, NEW p, NEW few, NEW many, few \subseteq many, Sound(rows, p, few)
    PROVE  Sound(rows, p, many)
  BY Zenon DEF Sound, Exchanges

(* A step that leaves the session's rows and its reply in flight alone,    *)
(* whatever the turns of the other sessions do.                            *)
Aside(s) ==
    /\ log'[s] = log[s] /\ pending'[s] = pending[s]
    /\ \A t \in AllTurns :
          /\ kind'[t] = kind[t] \/ at[t] = "new"
          /\ at'[t] \in Absent => at[t] \in Absent \/ (at[t] = "streaming" /\ pending[s] # t)
          /\ at'[t] = "streaming" => at[t] \in Absent \cup {"streaming"}
          /\ kind'[t] # "ambient" /\ Session(t)' = s =>
                /\ at'[t] \in {"gate", "assembling", "streaming"} =>
                      kind'[t] = kind[t] /\ at[t] \in {"gate", "assembling", "streaming"}
                /\ kind'[t] = "voice" /\ at'[t] = "settling" =>
                      kind'[t] = kind[t] /\ at[t] = "settling"

(* The window knows turns and nothing else.                                *)
LEMMA SeenAreTurns ==
    ASSUME NEW rows, NEW p, NEW murmurs, Sound(rows, p, murmurs)
    PROVE  Seen(rows) \subseteq AllTurns
  <1>1. rows \in Seq(Rows)
    BY Zenon DEF Sound
  <1>2. \A i \in Window(rows) : rows[i] \in Rows
    BY <1>1, SMT DEF Window
  <1>3. \A r \in Rows : r.turn \in AllTurns
    BY RowIs, Zenon
  <1>. QED
    BY <1>2, <1>3, Zenon DEF Seen

(* ... keeps what is known of them.                                        *)
LEMMA StaysGood ==
    ASSUME ControlInv, NEW s \in Sessions, Good(s), Aside(s)
    PROVE  Good(s)'
  <1>1. Murmurs \subseteq Murmurs'
    BY SMT DEF Aside, Murmurs, ControlInv, KindsOfTurns
  <1>2. Sound(log[s], pending[s], Murmurs')
    BY <1>1, MoreMurmurs, Zenon DEF Good
  <1>3. Sound(log[s], pending[s], Murmurs)'
    BY <1>2, SMT DEF Aside
  <1>4. Seen(log[s]) \subseteq AllTurns
    BY SeenAreTurns, Zenon DEF Good
  <1>5. NoTrace(s)'
    <2>1. \A t \in Seen(log[s]) : /\ at'[t] \notin Absent
                                  /\ at'[t] = "streaming" => pending'[s] = t
      BY <1>4, SMT DEF Good, NoTrace, Aside
    <2>2. Seen(log[s])' = Seen(log[s])
      BY SMT DEF Aside
    <2>. QED
      BY <2>1, <2>2, SMT DEF NoTrace
  <1>6. HersIsDrawn(s)'
    <2>1. \A t \in AllTurns : kind'[t] # "ambient" /\ Session(t)' = s =>
              /\ at'[t] \in {"gate", "assembling", "streaming"} => ~Undrawn(log[s])
              /\ kind'[t] = "voice" /\ at'[t] = "settling" /\ Undrawn(log[s]) =>
                     log[s][Len(log[s])].turn = t
      BY SMT DEF Good, HersIsDrawn, Aside, Session
    <2>2. log'[s] = log[s]
      BY Zenon DEF Aside
    <2>. QED
      BY <2>1, <2>2, SMT DEF HersIsDrawn
  <1>. QED
    BY <1>3, <1>5, <1>6, Zenon DEF Good

(* The session whose rows a step changes.                                  *)
Touches(s, new) ==
    /\ log' = [log EXCEPT ![s] = new] /\ Sound(new, pending'[s], Murmurs')
    /\ \A u \in Seen(new) : /\ at'[u] \notin Absent
                            /\ at'[u] = "streaming" => pending'[s] = u
    /\ \A u \in AllTurns : kind'[u] # "ambient" /\ Session(u)' = s =>
          /\ at'[u] \in {"gate", "assembling", "streaming"} => ~Undrawn(new)
          /\ kind'[u] = "voice" /\ at'[u] = "settling" /\ Undrawn(new) => new[Len(new)].turn = u

(* One session is touched, the others are left alone.                      *)
LEMMA Touched ==
    ASSUME ControlInv, LogInv, NEW s \in Sessions, NEW new, Touches(s, new),
           \A r \in Sessions \ {s} : Aside(r)
    PROVE  LogInv'
  <1>1. log' \in [Sessions -> Seq(Rows)] /\ log'[s] = new
    <2>1. new \in Seq(Rows)
      BY Zenon DEF Touches, Sound
    <2>. QED
      BY <2>1, SMT DEF LogInv, Touches
  <1>2. Good(s)'
    BY <1>1, SMT DEF Good, NoTrace, HersIsDrawn, Touches
  <1>3. \A r \in Sessions \ {s} : Good(r)'
    BY StaysGood, Zenon DEF LogInv
  <1>4. \A r \in Sessions : Good(r)'
    BY <1>2, <1>3, Zenon
  <1>. QED
    BY <1>1, <1>4, Zenon DEF LogInv

(* A step that leaves every session's rows alone.                          *)
LEMMA Untouched ==
    ASSUME ControlInv, LogInv, log' = log, \A s \in Sessions : Aside(s)
    PROVE  LogInv'
  BY StaysGood, Zenon DEF LogInv

(* A turn that waits for the floor is in no window.                        *)
LEMMA AsksAside ==
    ASSUME ControlInv, NEW t \in AllTurns, Asks(t), NEW s \in Sessions
    PROVE  Aside(s)
  BY SMT DEF Asks, Fresh, Becomes, Aside, Absent, Session, After, ControlInv, ControlType,
             KindsOfTurns, Sessions

(* A question goes on the page, with no reply in flight: a text turn,      *)
LEMMA TakesTheFloorLog ==
    ASSUME ControlInv, LogInv, SessionsApart, NEW t \in AllTurns, TakesTheFloor(t)
    PROVE  LogInv'
  <1>. DEFINE s == Session(t)
              rows == log[s]
              new == Draw(rows, "user", t)
  <1>1. /\ at[t] = "queued" /\ kind[t] \in TextKinds /\ floor = None
        /\ at' = [at EXCEPT ![t] = "gate"]
        /\ pending' = pending /\ kind' = kind
        /\ log' = [log EXCEPT ![s] = new]
    BY SMT DEF TakesTheFloor, ControlInv, KindsOfTurns
  <1>2. s \in Sessions /\ Good(s) /\ s # VoiceSession
    <2>1. s \in Sessions
      BY Zenon DEF Sessions, Session
    <2>2. s # VoiceSession
      BY <1>1, SMT DEF Session, SessionsApart, TextKinds
    <2>. QED
      BY <2>1, <2>2, Zenon DEF LogInv
  <1>. HIDE DEF new, rows, s
  <1>3. pending[s] = None
    <2>. SUFFICES ASSUME pending[s] # None PROVE FALSE
      OBVIOUS
    <2>. DEFINE u == pending[s]
    <2>1. u \in AllTurns /\ at[u] = "streaming" /\ kind[u] # "ambient" /\ Session(u) = s
      BY <1>2, SMT DEF ControlInv, ControlType, OneInFlight
    <2>. HIDE DEF u
    <2>2. kind[u] \in TextKinds
      BY <1>2, <2>1, SMT DEF ControlInv, ControlType, KindsOfTurns, Kinds, TextKinds, Session
    <2>3. floor = u
      BY <2>1, <2>2, SMT DEF ControlInv, OneAtATime, InTurn
    <2>. QED
      BY <1>1, <2>1, <2>3, NoTurn, SMT
  <1>4. Sound(new, None, Murmurs) /\ Seen(new) = Seen(rows) /\ ~Undrawn(new)
    BY <1>2, <1>3, AskedSound, Zenon DEF Good, new, rows
  <1>5. Seen(rows) \subseteq AllTurns
    BY <1>2, SeenAreTurns, Zenon DEF Good, rows
  <1>6. Touches(s, new)
    <2>1. Murmurs' = Murmurs
      BY <1>1, SMT DEF Murmurs
    <2>2. Sound(new, pending'[s], Murmurs')
      BY <1>1, <1>3, <1>4, <2>1, SMT
    <2>3. \A u \in Seen(new) : at'[u] \notin Absent /\ (at'[u] = "streaming" => pending'[s] = u)
      BY <1>1, <1>2, <1>4, <1>5, SMT DEF Good, NoTrace, Absent, ControlInv, ControlType, rows
    <2>4. \A u \in AllTurns : kind'[u] = "voice" /\ Session(u)' = s => FALSE
      BY <1>1, <1>2, SMT DEF Session
    <2>. QED
      BY <1>1, <1>4, <2>2, <2>3, <2>4, Zenon DEF Touches
  <1>7. \A r \in Sessions \ {s} : Aside(r)
    <2>1. \A r \in Sessions \ {s} : log'[r] = log[r]
      BY <1>1, SMT DEF LogInv
    <2>. QED
      BY <1>1, <2>1, SMT DEF Aside, Absent, ControlInv, ControlType, Session, s
  <1>. QED
    BY <1>2, <1>6, <1>7, Touched, Zenon

(* and a voice turn.                                                       *)
LEMMA AnswersLog ==
    ASSUME ControlInv, LogInv, SessionsApart, NEW t \in AllTurns, Answers(t)
    PROVE  LogInv'
  <1>. DEFINE s == VoiceSession
              rows == log[s]
              new == Draw(rows, "user", t)
  <1>1. /\ at[t] = "new" /\ kind[t] = "none" /\ room = "hearing" /\ at' = [at EXCEPT ![t] = "gate"]
        /\ pending' = pending /\ kind' = [kind EXCEPT ![t] = "voice"]
        /\ log' = [log EXCEPT ![s] = new]
    BY SMT DEF Answers, Arms, Fresh, Becomes, After, ControlInv, KindsOfTurns
  <1>2. s \in Sessions /\ Good(s)
    BY Zenon DEF Sessions, LogInv
  <1>3. pending[s] = None
    BY <1>1, <1>2, NoTurn, SMT DEF ControlInv, ControlType, KindsOfTurns, OneInFlight, OneAtATime,
                                   InTurn, Session, SessionsApart, Kinds, TextKinds
  <1>. HIDE DEF new, rows
  <1>4. Sound(new, None, Murmurs) /\ Seen(new) = Seen(rows) /\ ~Undrawn(new)
    BY <1>2, <1>3, AskedSound, Zenon DEF Good, new, rows
  <1>5. Seen(rows) \subseteq AllTurns
    BY <1>2, SeenAreTurns, Zenon DEF Good, rows
  <1>6. Touches(s, new)
    <2>1. Murmurs' = Murmurs
      BY <1>1, SMT DEF Murmurs, ControlInv, ControlType
    <2>2. Sound(new, pending'[s], Murmurs')
      BY <1>1, <1>3, <1>4, <2>1, SMT
    <2>3. \A u \in Seen(new) : at'[u] \notin Absent /\ (at'[u] = "streaming" => pending'[s] = u)
      BY <1>1, <1>2, <1>4, <1>5, SMT DEF Good, NoTrace, Absent, ControlInv, ControlType, rows
    <2>. QED
      BY <1>1, <1>4, <2>2, <2>3, Zenon DEF Touches
  <1>7. \A r \in Sessions \ {s} : Aside(r)
    <2>1. \A r \in Sessions \ {s} : log'[r] = log[r]
      BY <1>1, SMT DEF LogInv
    <2>. QED
      BY <1>1, <2>1, SMT DEF Aside, Absent, ControlInv, ControlType, Session
  <1>. QED
    BY <1>2, <1>6, <1>7, Touched, Zenon

(* A turn that streams has its question in the window.                     *)
LEMMA StreamsLog ==
    ASSUME ControlInv, LogInv, SessionsApart, NEW t \in AllTurns, Streams(t)
    PROVE  LogInv'
  <1>1. /\ at[t] = "assembling" /\ at' = [at EXCEPT ![t] = "streaming"] /\ kind' = kind
    BY SMT DEF Streams, Becomes, After
  <1>2. CASE kind[t] = "ambient"
    <2>1. log' = log /\ pending' = pending
      BY <1>2, SMT DEF Streams
    <2>2. \A r \in Sessions : Aside(r)
      BY <1>1, <1>2, <2>1, SMT DEF Aside, Absent, ControlInv, ControlType, Session
    <2>. QED
      BY <2>1, <2>2, Untouched, Zenon
  <1>3. CASE kind[t] # "ambient"
    <2>. DEFINE s == Session(t)
                rows == log[s]
                new == Admit(rows, "user", t)
    <2>1. /\ log' = [log EXCEPT ![s] = new]
          /\ pending' = [pending EXCEPT ![s] = t]
      BY <1>3, SMT DEF Streams
    <2>2. s \in Sessions /\ Good(s)
      BY Zenon DEF Sessions, LogInv, Session
    <2>. HIDE DEF s
    <2>3. pending[s] = None
      <3>. SUFFICES ASSUME pending[s] # None PROVE FALSE
        OBVIOUS
      <3>1. pending[s] \in AllTurns /\ at[pending[s]] = "streaming" /\ kind[pending[s]] # "ambient"
            /\ Session(pending[s]) = s
        BY <2>2, SMT DEF ControlInv, ControlType, OneInFlight
      <3>2. pending[s] = t
        BY <1>1, <1>3, <3>1, Alone, SMT DEF InTurn, s
      <3>. QED
        BY <1>1, <3>1, <3>2, SMT
    <2>4. Seen(rows) \subseteq AllTurns /\ t \notin Seen(rows)
      BY <1>1, <2>2, SeenAreTurns, Zenon DEF Good, NoTrace, Absent
    <2>. HIDE DEF new, rows
    <2>5. Sound(new, t, Murmurs) /\ Seen(new) = Seen(rows) \cup {t} /\ ~Undrawn(new)
      BY <2>2, <2>3, <2>4, OpenedSound, Zenon DEF Good, new, rows
    <2>6. Touches(s, new)
      <3>1. Murmurs' = Murmurs /\ pending'[s] = t
        BY <1>1, <2>1, <2>2, SMT DEF Murmurs, ControlInv, ControlType
      <3>2. \A u \in Seen(new) : at'[u] \notin Absent /\ (at'[u] = "streaming" => pending'[s] = u)
        <4>1. \A u \in Seen(rows) : at[u] \notin Absent /\ at[u] # "streaming"
          BY <2>2, <2>3, <2>4, NoTurn, SMT DEF Good, NoTrace, rows
        <4>. QED
          BY <1>1, <2>4, <2>5, <3>1, <4>1, SMT DEF Absent, ControlInv, ControlType
      <3>3. Sound(new, pending'[s], Murmurs')
        BY <2>5, <3>1, SMT
      <3>4. \A u \in AllTurns : kind'[u] # "ambient" /\ Session(u)' = s =>
                /\ at'[u] \in {"gate", "assembling", "streaming"} => ~Undrawn(new)
                /\ kind'[u] = "voice" /\ at'[u] = "settling" /\ Undrawn(new) =>
                      new[Len(new)].turn = u
        BY <2>5, Zenon
      <3>. QED
        BY <2>1, <3>2, <3>3, <3>4, Zenon DEF Touches
    <2>7. \A r \in Sessions \ {s} : Aside(r)
      <3>1. \A r \in Sessions \ {s} : log'[r] = log[r] /\ pending'[r] = pending[r]
        BY <2>1, <2>2, SMT DEF LogInv, ControlInv, ControlType
      <3>. QED
        BY <1>1, <3>1, SMT DEF Aside, Absent, ControlInv, ControlType, Session, s
    <2>. QED
      BY <2>2, <2>6, <2>7, Touched, Zenon
  <1>. QED
    BY <1>2, <1>3, Zenon

(* A turn that did not happen.                                             *)
LEMMA AbandonLog ==
    ASSUME ControlInv, LogInv, NEW t \in AllTurns,
           at[t] \in {"assembling", "streaming", "settling"},
           NEW where, where \in {"failed", "cut"}, where = "failed" <=> at[t] # "settling",
           at' = [at EXCEPT ![t] = where], kind' = kind, Abandon(Session(t), log[Session(t)])
    PROVE  LogInv'
  <1>. DEFINE s == Session(t)
              rows == log[s]
              p == pending[s]
              new == IF p = None THEN rows ELSE Unwind(rows)
  <1>1. /\ log' = [log EXCEPT ![s] = new]
        /\ pending' = [pending EXCEPT ![s] = None]
    BY Zenon DEF Abandon
  <1>2. s \in Sessions /\ Good(s)
    BY Zenon DEF Sessions, LogInv, Session
  <1>. HIDE DEF s
  <1>3. Seen(rows) \subseteq AllTurns
    BY <1>2, SeenAreTurns, Zenon DEF Good
  <1>. HIDE DEF new, rows
  <1>4. /\ Sound(new, None, Murmurs) /\ Seen(new) \subseteq Seen(rows)
        /\ p # None => Seen(new) \subseteq Seen(rows) \ {p} /\ ~Undrawn(new)
        /\ p = None => new = rows
    BY <1>2, AbandonedSound, Zenon DEF Good, new, rows
  <1>5. Murmurs' = Murmurs /\ pending'[s] = None
    BY <1>1, <1>2, SMT DEF Murmurs, ControlInv, ControlType
  <1>6. Touches(s, new)
    <2>1. Sound(new, pending'[s], Murmurs')
      BY <1>4, <1>5, SMT
    <2>2. \A u \in Seen(new) : /\ at[u] \notin Absent /\ at[u] # "streaming" /\ u \in AllTurns
      <3>1. \A u \in Seen(rows) : at[u] \notin Absent /\ (at[u] = "streaming" => p = u)
        BY <1>2, Zenon DEF Good, NoTrace, rows
      <3>2. CASE p = None
        BY <1>3, <1>4, <3>1, <3>2, NoTurn, SMT
      <3>3. CASE p # None
        BY <1>3, <1>4, <3>1, <3>3, SMT
      <3>. QED
        BY <3>2, <3>3, Zenon
    <2>3. \A u \in Seen(new) : at'[u] \notin Absent /\ (at'[u] = "streaming" => pending'[s] = u)
      BY <2>2, SMT DEF Absent, ControlInv, ControlType
    <2>4. \A u \in AllTurns : kind'[u] # "ambient" /\ Session(u)' = s =>
              /\ at'[u] \in {"gate", "assembling", "streaming"} => ~Undrawn(new)
              /\ kind'[u] = "voice" /\ at'[u] = "settling" /\ Undrawn(new) => new[Len(new)].turn = u
      <3>1. CASE p = None
        <4>1. \A u \in AllTurns : kind[u] # "ambient" /\ Session(u) = s =>
                 /\ at[u] \in {"gate", "assembling", "streaming"} => ~Undrawn(new)
                 /\ kind[u] = "voice" /\ at[u] = "settling" /\ Undrawn(new) =>
                       new[Len(new)].turn = u
          BY <1>2, <1>4, <3>1, SMT DEF Good, HersIsDrawn, rows
        <4>2. \A u \in AllTurns : Session(u)' = Session(u)
          BY SMT DEF Session
        <4>. QED
          BY <4>1, <4>2, SMT DEF ControlInv, ControlType
      <3>2. CASE p # None
        BY <1>4, <3>2, Zenon
      <3>. QED
        BY <3>1, <3>2, Zenon
    <2>. QED
      BY <1>1, <2>1, <2>3, <2>4, Zenon DEF Touches
  <1>7. \A r \in Sessions \ {s} : Aside(r)
    <2>1. \A r \in Sessions \ {s} : log'[r] = log[r] /\ pending'[r] = pending[r]
      BY <1>1, <1>2, SMT DEF LogInv, ControlInv, ControlType
    <2>2. at[t] = "streaming" => \A r \in Sessions \ {s} : pending[r] # t
      BY NoTurn, SMT DEF ControlInv, OneInFlight, s
    <2>. QED
      BY <2>1, <2>2, SMT DEF Aside, Absent, ControlInv, ControlType, Session
  <1>. QED
    BY <1>2, <1>6, <1>7, Touched, Zenon

(* An unprompted line is drawn, and takes back whatever is in flight.      *)
LEMMA MurmuredLog ==
    ASSUME ControlInv, LogInv, NEW t \in AllTurns, Murmured(t)
    PROVE  LogInv'
  <1>. DEFINE s == VoiceSession
              rows == log[s]
              p == pending[s]
              new == IF p = None THEN Draw(rows, "assistant", t)
                                 ELSE Unwind(Draw(rows, "assistant", t))
  <1>1. /\ log' = [log EXCEPT ![s] = new]
        /\ pending' = [pending EXCEPT ![s] = None]
    BY Zenon DEF Murmured, Abandon
  <1>2. s \in Sessions /\ Good(s)
    BY Zenon DEF Sessions, LogInv
  <1>3. /\ at[t] = "streaming" /\ kind[t] = "ambient"
        /\ at' = [at EXCEPT ![t] = "done"] /\ kind' = kind
    BY Zenon DEF Murmured, Becomes
  <1>4. Seen(rows) \subseteq AllTurns
    BY <1>2, SeenAreTurns, Zenon DEF Good
  <1>. HIDE DEF new, rows
  <1>5. /\ Sound(new, None, Murmurs) /\ Seen(new) \subseteq Seen(rows) \cup {t}
        /\ p # None => Seen(new) \subseteq Seen(rows) \ {p}
        /\ ~Undrawn(new)
    <2>1. t \in Murmurs
      BY <1>3, Zenon DEF Murmurs
    <2>2. Sound(rows, p, Murmurs)
      BY <1>2, Zenon DEF Good, rows
    <2>. QED
      BY <2>1, <2>2, MurmuredSound, Zenon DEF new
  <1>6. Murmurs' = Murmurs /\ pending'[s] = None
    BY <1>1, <1>2, <1>3, SMT DEF Murmurs, ControlInv, ControlType
  <1>7. Touches(s, new)
    <2>1. Sound(new, pending'[s], Murmurs')
      BY <1>5, <1>6, SMT
    <2>2. \A u \in Seen(rows) : /\ u \in AllTurns /\ at[u] \notin Absent
                                /\ at[u] = "streaming" => p = u
      BY <1>2, <1>4, Zenon DEF Good, NoTrace, rows
    <2>3. \A u \in Seen(new) \ {t} : at[u] \notin Absent /\ at[u] # "streaming" /\ u \in AllTurns
      <3>1. CASE p = None
        BY <1>5, <2>2, <3>1, NoTurn, SMT
      <3>2. CASE p # None
        BY <1>5, <2>2, <3>2, SMT
      <3>. QED
        BY <3>1, <3>2, Zenon
    <2>4. \A u \in Seen(new) : at'[u] \notin Absent /\ (at'[u] = "streaming" => pending'[s] = u)
      BY <1>3, <2>3, SMT DEF Absent, ControlInv, ControlType
    <2>. QED
      BY <1>1, <1>5, <2>1, <2>4, Zenon DEF Touches
  <1>8. \A r \in Sessions \ {s} : Aside(r)
    <2>1. \A r \in Sessions \ {s} : log'[r] = log[r] /\ pending'[r] = pending[r]
      BY <1>1, <1>2, SMT DEF LogInv, ControlInv, ControlType
    <2>. QED
      BY <1>3, <2>1, SMT DEF Aside, Absent, ControlInv, ControlType, Session
  <1>. QED
    BY <1>2, <1>7, <1>8, Touched, Zenon

(* A turn that ends with her line on the page and nothing in flight.       *)
LEMMA DrawnLog ==
    ASSUME ControlInv, LogInv, SessionsApart, NEW t \in AllTurns, kind[t] # "ambient",
           at[t] \in {"streaming", "settling"}, kind[t] \in TextKinds => at[t] = "streaming",
           pending[Session(t)] = None, at' = [at EXCEPT ![t] = "done"], kind' = kind,
           pending' = [pending EXCEPT ![Session(t)] = None],
           NEW new \in {log[Session(t)], Draw(log[Session(t)], "assistant", t)},
           log' = [log EXCEPT ![Session(t)] = new]
    PROVE  LogInv'
  <1>. DEFINE s == Session(t)
              rows == log[s]
  <1>1. s \in Sessions /\ Good(s)
    BY Zenon DEF Sessions, LogInv, Session
  <1>2. Undrawn(rows) => rows[Len(rows)].turn = t
    <2>1. kind[t] = "voice" \/ kind[t] \in TextKinds
      BY SMT DEF ControlInv, ControlType, KindsOfTurns, Kinds, TextKinds
    <2>. QED
      BY <1>1, <2>1, SMT DEF Good, HersIsDrawn
  <1>. HIDE DEF s
  <1>3. Seen(rows) \subseteq AllTurns
    BY <1>1, SeenAreTurns, Zenon DEF Good
  <1>4. Sound(new, None, Murmurs) /\ Seen(new) \subseteq Seen(rows)
    <2>1. Sound(rows, None, Murmurs) /\ t \notin Murmurs
      BY <1>1, SMT DEF Good, s, Murmurs
    <2>2. CASE new = rows
      BY <2>1, <2>2, Zenon
    <2>3. CASE new = Draw(rows, "assistant", t)
      BY <1>2, <2>1, <2>3, SpokenSound, Zenon
    <2>. QED
      BY <2>2, <2>3, Zenon DEF s
  <1>. HIDE DEF rows
  <1>5. Murmurs' = Murmurs /\ pending'[s] = None
    BY <1>1, SMT DEF Murmurs, ControlInv, ControlType, s
  <1>6. Touches(s, new)
    <2>1. Sound(new, pending'[s], Murmurs')
      BY <1>4, <1>5, SMT
    <2>2. \A u \in Seen(new) : at[u] \notin Absent /\ at[u] # "streaming" /\ u \in AllTurns
      BY <1>1, <1>3, <1>4, NoTurn, SMT DEF Good, NoTrace, rows, s
    <2>3. \A u \in Seen(new) : at'[u] \notin Absent /\ (at'[u] = "streaming" => pending'[s] = u)
      BY <2>2, SMT DEF Absent, ControlInv, ControlType
    <2>4. \A u \in AllTurns : kind'[u] # "ambient" /\ Session(u)' = s =>
              at'[u] \notin {"gate", "assembling", "streaming", "settling"}
      <3>. SUFFICES ASSUME NEW u \in AllTurns, kind[u] # "ambient", Session(u) = s,
                           at'[u] \in InTurn
                    PROVE  FALSE
        BY SMT DEF Session, InTurn
      <3>1. u # t /\ at[u] = at'[u]
        BY SMT DEF InTurn, ControlInv, ControlType
      <3>2. u = t
        BY <3>1, Alone, SMT DEF InTurn, s
      <3>. QED
        BY <3>1, <3>2, Zenon
    <2>5. log' = [log EXCEPT ![s] = new]
      BY Zenon DEF s
    <2>. QED
      BY <2>1, <2>3, <2>4, <2>5, Zenon DEF Touches
  <1>7. \A r \in Sessions \ {s} : Aside(r)
    <2>1. \A r \in Sessions \ {s} : log'[r] = log[r] /\ pending'[r] = pending[r]
      BY <1>1, SMT DEF LogInv, ControlInv, ControlType, s
    <2>2. at[t] = "streaming" => \A r \in Sessions \ {s} : pending[r] # t
      BY NoTurn, SMT DEF ControlInv, OneInFlight, s
    <2>. QED
      BY <2>1, <2>2, SMT DEF Aside, Absent, ControlInv, ControlType, Session
  <1>. QED
    BY <1>1, <1>6, <1>7, Touched, Zenon

(* A turn whose reply joins the window.                                    *)
LEMMA RepliedLog ==
    ASSUME ControlInv, LogInv, SessionsApart, NEW t \in AllTurns, kind[t] # "ambient",
           at[t] = "streaming", pending[Session(t)] # None,
           at' = [at EXCEPT ![t] = "settling"], kind' = kind,
           pending' = [pending EXCEPT ![Session(t)] = None],
           NEW base \in {log[Session(t)], Draw(log[Session(t)], "assistant", t)},
           log' = [log EXCEPT ![Session(t)] = Admit(base, "assistant", t)]
    PROVE  LogInv'
  <1>. DEFINE s == Session(t)
              rows == log[s]
              new == Admit(base, "assistant", t)
  <1>1. s \in Sessions /\ Good(s)
    BY Zenon DEF Sessions, LogInv, Session
  <1>2. pending[s] = t
    <2>1. pending[s] \in AllTurns /\ at[pending[s]] = "streaming" /\ kind[pending[s]] # "ambient"
          /\ Session(pending[s]) = s
      BY <1>1, SMT DEF ControlInv, ControlType, OneInFlight
    <2>. QED
      BY <2>1, Alone, SMT DEF InTurn
  <1>3. Seen(rows) \subseteq AllTurns
    BY <1>1, SeenAreTurns, Zenon DEF Good
  <1>4. Sound(new, None, Murmurs) /\ Seen(new) \subseteq Seen(rows) /\ new[Len(new)].turn = t
    <2>1. Sound(rows, t, Murmurs)
      <3>1. Sound(rows, pending[s], Murmurs)
        BY <1>1, Zenon DEF Good
      <3>. HIDE DEF rows, s
      <3>. QED
        BY <1>2, <3>1, Zenon
    <2>2. base = rows \/ base = Draw(rows, "assistant", t)
      OBVIOUS
    <2>. HIDE DEF rows, s
    <2>3. Answered(rows, new, Murmurs, t)
      BY <2>1, <2>2, RepliedSound, Zenon
    <2>. HIDE DEF new
    <2>. QED
      BY <2>3, Zenon DEF Answered
  <1>. HIDE DEF rows, s, new
  <1>5. Murmurs' = Murmurs /\ pending'[s] = None
    BY <1>1, SMT DEF Murmurs, ControlInv, ControlType, s
  <1>6. Touches(s, new)
    <2>1. Sound(new, pending'[s], Murmurs')
      BY <1>4, <1>5, SMT
    <2>2. \A u \in Seen(new) : /\ u \in AllTurns /\ at[u] \notin Absent
                               /\ at[u] = "streaming" => u = t
      BY <1>1, <1>2, <1>3, <1>4, SMT DEF Good, NoTrace, rows
    <2>3. \A u \in Seen(new) : at'[u] \notin Absent /\ (at'[u] = "streaming" => pending'[s] = u)
      BY <2>2, SMT DEF Absent, ControlInv, ControlType
    <2>4. \A u \in AllTurns : kind'[u] # "ambient" /\ Session(u)' = s /\ u # t =>
              at'[u] \notin {"gate", "assembling", "streaming", "settling"}
      <3>. SUFFICES ASSUME NEW u \in AllTurns, kind[u] # "ambient", Session(u) = s, u # t,
                           at'[u] \in InTurn
                    PROVE  FALSE
        BY SMT DEF Session, InTurn
      <3>1. at[u] = at'[u]
        BY SMT DEF InTurn, ControlInv, ControlType
      <3>2. u = t
        BY <3>1, Alone, SMT DEF InTurn, s
      <3>. QED
        BY <3>2, Zenon
    <2>5. log' = [log EXCEPT ![s] = new]
      BY Zenon DEF s, new
    <2>6. at'[t] = "settling"
      BY SMT DEF ControlInv, ControlType
    <2>7. \A u \in AllTurns : kind'[u] # "ambient" /\ Session(u)' = s =>
              /\ at'[u] \in {"gate", "assembling", "streaming"} => ~Undrawn(new)
              /\ kind'[u] = "voice" /\ at'[u] = "settling" /\ Undrawn(new) => new[Len(new)].turn = u
      <3>1. ASSUME NEW u \in AllTurns, kind'[u] # "ambient", Session(u)' = s
            PROVE  /\ at'[u] \notin {"gate", "assembling", "streaming"}
                   /\ at'[u] = "settling" => u = t
        <4>1. CASE u = t
          BY <2>6, <4>1, SMT
        <4>2. CASE u # t
          BY <2>4, <3>1, <4>2, Zenon
        <4>. QED
          BY <4>1, <4>2, Zenon
      <3>. QED
        BY <1>4, <3>1, Zenon
    <2>. QED
      BY <2>1, <2>3, <2>5, <2>7, Zenon DEF Touches
  <1>7. \A r \in Sessions \ {s} : Aside(r)
    <2>1. \A r \in Sessions \ {s} : log'[r] = log[r] /\ pending'[r] = pending[r]
      BY <1>1, SMT DEF LogInv, ControlInv, ControlType, s
    <2>. QED
      BY <2>1, SMT DEF Aside, Absent, ControlInv, ControlType, Session, s
  <1>. QED
    BY <1>1, <1>6, <1>7, Touched, Zenon

(* A clean reply, whichever way brain.persist goes.                        *)
LEMMA PersistsLog ==
    ASSUME ControlInv, LogInv, SessionsApart, NEW t \in AllTurns, kind[t] # "ambient",
           at[t] = "streaming", kind' = kind,
           NEW base \in {log[Session(t)], Draw(log[Session(t)], "assistant", t)}, Persist(t, base)
    PROVE  LogInv'
  <1>1. CASE pending[Session(t)] = None
    <2>1. /\ pending' = [pending EXCEPT ![Session(t)] = None]
          /\ log' = [log EXCEPT ![Session(t)] = base]
          /\ at' = [at EXCEPT ![t] = "done"]
      BY <1>1, Zenon DEF Persist, Becomes
    <2>2. at[t] \in {"streaming", "settling"}
      BY Zenon
    <2>. QED
      BY <1>1, <2>1, <2>2, DrawnLog, Zenon
  <1>2. CASE pending[Session(t)] # None
    <2>1. /\ pending' = [pending EXCEPT ![Session(t)] = None]
          /\ log' = [log EXCEPT ![Session(t)] = Admit(base, "assistant", t)]
          /\ at' = [at EXCEPT ![t] = "settling"]
      BY <1>2, Zenon DEF Persist, Becomes
    <2>. QED
      BY <1>2, <2>1, RepliedLog, Zenon
  <1>. QED
    BY <1>1, <1>2, Zenon

(* A post-turn pipeline ends.                                              *)
LEMMA SettlesLog == ASSUME ControlInv, LogInv, SessionsApart, Settles PROVE LogInv'
  <1>. DEFINE t == Head(vault)
              s == Session(t)
              rows == IF kind[t] = "voice" /\ t \notin wordless
                      THEN Draw(log[s], "assistant", t) ELSE log[s]
  <1>1. t \in AllTurns /\ at[t] \in {"settling", "cut"} /\ kind' = kind
    BY SMT DEF Settles, ControlInv, VaultType
  <1>2. CASE at[t] = "cut"
    <2>1. log' = log /\ pending' = pending /\ at' = at
      BY <1>2, Zenon DEF Settles
    <2>2. \A r \in Sessions : Aside(r)
      BY <1>1, <2>1, SMT DEF Aside, Session
    <2>. QED
      BY <2>1, <2>2, Untouched, Zenon
  <1>3. CASE at[t] = "settling" /\ kind[t] # "voice"
    <2>1. log' = log /\ pending' = pending /\ at' = [at EXCEPT ![t] = "done"]
      BY <1>3, Zenon DEF Settles, Becomes
    <2>2. \A r \in Sessions : Aside(r)
      BY <1>1, <1>3, <2>1, SMT DEF Aside, Session, Absent, ControlInv, ControlType
    <2>. QED
      BY <2>1, <2>2, Untouched, Zenon
  <1>4. CASE at[t] = "settling" /\ kind[t] = "voice"
    <2>1. Abandon(s, rows) /\ at' = [at EXCEPT ![t] = "done"]
      BY <1>4, Zenon DEF Settles, Becomes
    <2>. HIDE DEF t
    <2>2. pending[s] = None
      <3>. SUFFICES ASSUME pending[s] # None PROVE FALSE
        OBVIOUS
      <3>1. s \in Sessions
        BY Zenon DEF Sessions, Session
      <3>2. pending[s] \in AllTurns /\ at[pending[s]] = "streaming" /\ kind[pending[s]] # "ambient"
            /\ Session(pending[s]) = s
        BY <3>1, SMT DEF ControlInv, ControlType, OneInFlight
      <3>3. pending[s] = t
        BY <1>1, <1>4, <3>2, Alone, SMT DEF InTurn
      <3>. QED
        BY <1>4, <3>2, <3>3, SMT
    <2>3. log' = [log EXCEPT ![s] = rows] /\ pending' = [pending EXCEPT ![s] = None]
      BY <2>1, <2>2, Zenon DEF Abandon
    <2>4. rows \in {log[s], Draw(log[s], "assistant", t)}
      BY Zenon
    <2>5. kind[t] # "ambient" /\ kind[t] \notin TextKinds /\ at[t] \in {"streaming", "settling"}
      BY <1>4, SMT DEF TextKinds
    <2>. HIDE DEF rows
    <2>. QED
      BY <1>1, <2>1, <2>2, <2>3, <2>4, <2>5, DrawnLog, Zenon
  <1>. QED
    BY <1>1, <1>2, <1>3, <1>4, Zenon

(* The moves that leave every row alone.                                   *)
LEMMA QuietLog ==
    ASSUME ControlInv, LogInv, NEW t \in AllTurns,
           \/ Asks(t) \/ TurnedAway(t) \/ PassesTheGate(t) \/ Injects(t)
           \/ CallerGivesUp(t) /\ at[t] \notin {"assembling", "streaming"}
           \/ Stopped(t) /\ at[t] \in {"queued", "gate"}
    PROVE  LogInv'
  <1>1. log' = log /\ pending' = pending
    BY Zenon DEF Asks, TurnedAway, PassesTheGate, Injects, CallerGivesUp, Stopped
  <1>2. CASE Asks(t)
    BY <1>1, <1>2, AsksAside, Untouched, Zenon
  <1>3. CASE PassesTheGate(t)
    <2>1. \A s \in Sessions : Aside(s)
      BY <1>1, <1>3, SMT DEF PassesTheGate, Becomes, Aside, Absent, Session, ControlInv, ControlType
    <2>. QED
      BY <1>1, <2>1, Untouched, Zenon
  <1>4. CASE Injects(t)
    <2>1. at[t] = "new" /\ at' = [at EXCEPT ![t] = "gate"] /\ kind' = [kind EXCEPT ![t] = "ambient"]
      BY <1>4, Zenon DEF Injects, Arms, Becomes, Fresh
    <2>2. \A s \in Sessions : Aside(s)
      BY <1>1, <2>1, SMT DEF Aside, Absent, Session, ControlInv, ControlType
    <2>. QED
      BY <1>1, <2>2, Untouched, Zenon
  <1>5. CASE \/ TurnedAway(t)
             \/ CallerGivesUp(t) /\ at[t] \notin {"assembling", "streaming"}
             \/ Stopped(t) /\ at[t] \in {"queued", "gate"}
    <2>1. /\ at[t] \in {"queued", "gate", "settling"} /\ kind' = kind
          /\ \/ at' = [at EXCEPT ![t] = "cut"] /\ at[t] = "settling"
             \/ at' = [at EXCEPT ![t] = "failed"] /\ at[t] # "settling"
      BY <1>5, SMT DEF TurnedAway, CallerGivesUp, Stopped, Running, Before, Becomes
    <2>2. \A s \in Sessions : Aside(s)
      BY <1>1, <2>1, SMT DEF Aside, Absent, Session, ControlInv, ControlType
    <2>. QED
      BY <1>1, <2>2, Untouched, Zenon
  <1>. QED
    BY <1>2, <1>3, <1>4, <1>5, Zenon

(* The moves of a turn that did not happen.                                *)
LEMMA AbandonsLog ==
    ASSUME ControlInv, LogInv, NEW t \in AllTurns,
           \/ Fails(t)
           \/ CallerGivesUp(t) /\ at[t] \in {"assembling", "streaming"}
           \/ Stopped(t) /\ at[t] \notin {"queued", "gate"}
    PROVE  LogInv'
  <1>1. CASE Fails(t)
    <2>1. /\ at[t] \in {"assembling", "streaming", "settling"} /\ at[t] # "settling"
          /\ at' = [at EXCEPT ![t] = "failed"] /\ kind' = kind
          /\ Abandon(Session(t), log[Session(t)])
      BY <1>1, SMT DEF Fails, Becomes
    <2>. QED
      BY <2>1, AbandonLog, Zenon
  <1>2. CASE CallerGivesUp(t) /\ at[t] \in {"assembling", "streaming"}
    <2>1. /\ at[t] \in {"assembling", "streaming", "settling"} /\ at[t] # "settling"
          /\ at' = [at EXCEPT ![t] = "failed"] /\ kind' = kind
      <3>1. /\ at[t] \in {"assembling", "streaming"} /\ kind' = kind
            /\ Becomes(t, IF at[t] = "settling" THEN "cut" ELSE "failed")
        BY <1>2, Zenon DEF CallerGivesUp
      <3>2. (IF at[t] = "settling" THEN "cut" ELSE "failed") = "failed" /\ at[t] # "settling"
        BY <3>1, SMT
      <3>. QED
        BY <3>1, <3>2, Zenon DEF Becomes
    <2>2. Abandon(Session(t), log[Session(t)])
      <3>1. Session(t) = TextSession /\ Abandon(TextSession, log[TextSession])
        BY <1>2, Zenon DEF CallerGivesUp, Session, Running
      <3>. QED
        BY <3>1, Zenon
    <2>. QED
      BY <2>1, <2>2, AbandonLog, Zenon
  <1>3. CASE Stopped(t) /\ at[t] \notin {"queued", "gate"}
    <2>1. /\ at[t] \in {"assembling", "streaming", "settling"} /\ kind' = kind
          /\ Abandon(Session(t), log[Session(t)])
      BY <1>3, SMT DEF Stopped, Running, Before
    <2>2. CASE at[t] = "settling"
      <3>1. at' = [at EXCEPT ![t] = "cut"]
        BY <1>3, <2>2, SMT DEF Stopped, Becomes
      <3>2. "cut" \in {"failed", "cut"} /\ ("cut" = "failed" <=> at[t] # "settling")
        BY <2>2, SMT
      <3>. QED
        BY <2>1, <3>1, <3>2, AbandonLog, Zenon
    <2>3. CASE at[t] # "settling"
      <3>1. at' = [at EXCEPT ![t] = "failed"]
        BY <1>3, <2>3, SMT DEF Stopped, Becomes
      <3>. QED
        BY <2>1, <2>3, <3>1, AbandonLog, Zenon
    <2>. QED
      BY <2>2, <2>3, Zenon
  <1>. QED
    BY <1>1, <1>2, <1>3, Zenon

(* The rows are what LogInv says after every step.                         *)
LEMMA LogStep == ASSUME ControlInv, LogInv, SessionsApart, [TurnsNext]_turnsVars PROVE LogInv'
  <1>1. CASE \E t \in AllTurns : Moves(t)
    <2>. PICK t \in AllTurns : Moves(t)
      BY <1>1, Zenon
    <2>. QED
      BY TakesTheFloorLog, AnswersLog, StreamsLog, MurmuredLog, QuietLog, AbandonsLog, Zenon
         DEF Moves
  <1>2. CASE \E t \in AllTurns : Replies(t)
    <2>. PICK t \in AllTurns : Replies(t)
      BY <1>2, Zenon
    <2>1. at[t] = "streaming" /\ kind[t] # "ambient" /\ kind' = kind
      BY SMT DEF Replies, TextKinds
    <2>2. PICK rows \in {log[Session(t)], Draw(log[Session(t)], "assistant", t)} :
              Persist(t, rows)
      BY Zenon DEF Replies
    <2>. QED
      BY <2>1, <2>2, PersistsLog, Zenon
  <1>3. CASE \E t \in AllTurns : Spoke(t)
    <2>. PICK t \in AllTurns : Spoke(t)
      BY <1>3, Zenon
    <2>1. at[t] = "streaming" /\ kind[t] # "ambient" /\ kind' = kind /\ Session(t) = VoiceSession
      BY SMT DEF Spoke, Session
    <2>2. PICK words \in BOOLEAN :
              Persist(t, IF words /\ pending[VoiceSession] = None
                         THEN Draw(log[VoiceSession], "assistant", t) ELSE log[VoiceSession])
      BY Zenon DEF Spoke
    <2>. DEFINE rows == IF words /\ pending[VoiceSession] = None
                        THEN Draw(log[VoiceSession], "assistant", t) ELSE log[VoiceSession]
    <2>3. rows \in {log[Session(t)], Draw(log[Session(t)], "assistant", t)}
      BY <2>1, Zenon
    <2>4. Persist(t, rows)
      BY <2>2, Zenon
    <2>. HIDE DEF rows
    <2>. QED
      BY <2>1, <2>3, <2>4, PersistsLog, Zenon
  <1>4. CASE Settles
    BY <1>4, SettlesLog, Zenon
  <1>5. CASE Room \/ UNCHANGED turnsVars
    <2>1. UNCHANGED <<log, pending, kind, at>>
      <3>1. CASE Room
        BY <3>1, Zenon DEF Room, LineComes, Hears, HearsNothing, BargesIn, GoesAway, StopBegins,
                           StopWaits, StopUnplugs, StopCloses
      <3>2. CASE UNCHANGED turnsVars
        BY <3>2, SMT DEF turnsVars
      <3>. QED
        BY <1>5, <3>1, <3>2, Zenon
    <2>2. \A s \in Sessions : Aside(s)
      BY <2>1, SMT DEF Aside, Session
    <2>. QED
      BY <2>1, <2>2, Untouched, Zenon
  <1>. QED
    BY <1>1, <1>2, <1>3, <1>4, <1>5, TheSteps, Zenon DEF Persists

(* ... and before the first.                                               *)
LEMMA LogStart == TurnsInit => LogInv
  <1>. SUFFICES ASSUME TurnsInit PROVE LogInv
    OBVIOUS
  <1>1. /\ log = [s \in Sessions |-> <<>>] /\ pending = [s \in Sessions |-> None]
        /\ at = [t \in AllTurns |-> "new"]
    BY Zenon DEF TurnsInit
  <1>2. ASSUME NEW s \in Sessions PROVE Good(s)
    <2>1. log[s] = <<>> /\ pending[s] = None
      BY <1>1, SMT
    <2>2. Window(log[s]) = {}
      BY <2>1, SMT DEF Window
    <2>3. Sound(log[s], pending[s], Murmurs)
      <3>1. log[s] \in Seq(Rows) /\ Taken(log[s])
        BY <2>1, SMT DEF Taken
      <3>2. Exchanges(log[s], pending[s], Murmurs)
        BY <2>2, Zenon DEF Exchanges
      <3>. QED
        BY <2>1, <3>1, <3>2, Zenon DEF Sound, Awaits
    <2>4. NoTrace(s)
      BY <2>2, SMT DEF NoTrace, Seen
    <2>5. HersIsDrawn(s)
      <3>1. \A t \in AllTurns : at[t] = "new"
        BY <1>1, Zenon
      <3>. QED
        BY <3>1, SMT DEF HersIsDrawn
    <2>. QED
      BY <2>3, <2>4, <2>5, Zenon DEF Good
  <1>3. log \in [Sessions -> Seq(Rows)]
    BY <1>1, SMT
  <1>. QED
    BY <1>2, <1>3, Zenon DEF LogInv

(* Whatever is done to rows, they are rows.                                *)
LEMMA RowsAreRows ==
    ASSUME NEW rows \in Seq(Rows), NEW t \in AllTurns
    PROVE  /\ \A role \in {"user", "assistant"} : /\ Draw(rows, role, t) \in Seq(Rows)
                                                 /\ Admit(rows, role, t) \in Seq(Rows)
           /\ Unwind(rows) \in Seq(Rows)
  <1>1. ASSUME NEW role \in {"user", "assistant"}
        PROVE  Draw(rows, role, t) \in Seq(Rows) /\ Admit(rows, role, t) \in Seq(Rows)
    BY DrawIs, AdmitIs, Zenon DEF Drawn, Admitted
  <1>2. Unwind(rows) \in Seq(Rows)
    <2>1. CASE Window(rows) # {} /\ rows[Max(Window(rows))].role = "user"
      <3>. DEFINE k == Max(Window(rows))
                  w == [rows[k] EXCEPT !.unwound = TRUE]
      <3>1. Unwind(rows) = [rows EXCEPT ![k] = w]
        BY <2>1, Zenon DEF Unwind
      <3>2. k \in DOMAIN rows => w \in Rows
        <4>. SUFFICES ASSUME k \in DOMAIN rows PROVE w \in Rows
          OBVIOUS
        <4>1. rows[k] \in Rows /\ t \in AllTurns
          BY SMT
        <4>. QED
          BY <4>1, RowChanged, Zenon
      <3>. HIDE DEF k, w
      <3>3. CASE k \in DOMAIN rows
        <4>1. w \in Rows
          BY <3>2, <3>3, Zenon
        <4>. QED
          BY <3>1, <3>3, <4>1, SMT
      <3>4. CASE k \notin DOMAIN rows
        <4>. DEFINE new == [rows EXCEPT ![k] = w]
        <4>1. DOMAIN new = DOMAIN rows /\ \A i \in DOMAIN rows : new[i] = rows[i]
          BY <3>4, Zenon
        <4>2. rows = [i \in DOMAIN rows |-> rows[i]] /\ new = [i \in DOMAIN rows |-> new[i]]
          BY <4>1, SMT
        <4>3. new = rows
          BY <4>1, <4>2, SMT
        <4>. QED
          BY <3>1, <4>3, Zenon
      <3>. QED
        BY <3>3, <3>4, Zenon
    <2>2. CASE ~(Window(rows) # {} /\ rows[Max(Window(rows))].role = "user")
      BY <2>2, Zenon DEF Unwind
    <2>. QED
      BY <2>1, <2>2, Zenon
  <1>. QED
    BY <1>1, <1>2, Zenon

(* The rows of a session are rows, whichever turn writes them.             *)
Written == log \in [Sessions -> Seq(Rows)]

LEMMA WrittenStep == ASSUME ControlInv, Written, [TurnsNext]_turnsVars PROVE Written'
  <1>1. ASSUME NEW s \in Sessions, NEW new \in Seq(Rows), log' = [log EXCEPT ![s] = new]
        PROVE  Written'
    BY <1>1, SMT DEF Written
  <1>2. ASSUME log' = log PROVE Written'
    BY <1>2, SMT DEF Written
  <1>3. ASSUME NEW t PROVE Session(t) \in Sessions
    BY Zenon DEF Session, Sessions
  <1>4. /\ TextSession \in Sessions /\ VoiceSession \in Sessions
        /\ \A s \in Sessions : log[s] \in Seq(Rows)
    BY SMT DEF Written, Sessions
  <1>5. "user" \in {"user", "assistant"} /\ "assistant" \in {"user", "assistant"}
    BY Zenon
  <1>6. ASSUME NEW s \in Sessions, NEW rows \in Seq(Rows), Abandon(s, rows) PROVE Written'
    <2>1. Unwind(rows) \in Seq(Rows)
      BY <1>6, RowsAreRows, TurnsAssumption, SMT DEF AllTurns
    <2>2. (IF pending[s] = None THEN rows ELSE Unwind(rows)) \in Seq(Rows)
      BY <2>1, Zenon
    <2>. QED
      BY <1>1, <1>6, <2>2, Zenon DEF Abandon
  <1>7. ASSUME NEW t \in AllTurns, NEW rows \in Seq(Rows), Persist(t, rows) PROVE Written'
    BY <1>1, <1>3, <1>5, <1>7, RowsAreRows, Zenon DEF Persist
  <1>8. CASE \E t \in AllTurns : Moves(t)
    <2>. PICK t \in AllTurns : Moves(t)
      BY <1>8, Zenon
    <2>1. CASE Asks(t) \/ TurnedAway(t) \/ PassesTheGate(t) \/ Injects(t)
      BY <1>2, <2>1, Zenon DEF Asks, TurnedAway, PassesTheGate, Injects
    <2>2. CASE TakesTheFloor(t)
      BY <1>1, <1>3, <1>4, <1>5, <2>2, RowsAreRows, Zenon DEF TakesTheFloor
    <2>3. CASE Answers(t)
      BY <1>1, <1>4, <1>5, <2>3, RowsAreRows, Zenon DEF Answers
    <2>4. CASE Streams(t)
      BY <1>1, <1>2, <1>3, <1>4, <1>5, <2>4, RowsAreRows, Zenon DEF Streams
    <2>5. CASE Fails(t) \/ CallerGivesUp(t) \/ Stopped(t)
      BY <1>2, <1>3, <1>4, <1>6, <2>5, Zenon DEF Fails, CallerGivesUp, Stopped
    <2>6. CASE Murmured(t)
      BY <1>4, <1>5, <1>6, <2>6, RowsAreRows, Zenon DEF Murmured
    <2>. QED
      BY <2>1, <2>2, <2>3, <2>4, <2>5, <2>6, Zenon DEF Moves
  <1>9. CASE \E t \in AllTurns : Replies(t)
    <2>. PICK t \in AllTurns : Replies(t)
      BY <1>9, Zenon
    <2>. PICK rows \in {log[Session(t)], Draw(log[Session(t)], "assistant", t)} : Persist(t, rows)
      BY Zenon DEF Replies
    <2>1. rows \in Seq(Rows)
      BY <1>3, <1>4, <1>5, RowsAreRows, Zenon
    <2>. QED
      BY <1>7, <2>1, Zenon
  <1>10. CASE \E t \in AllTurns : Spoke(t)
    <2>. PICK t \in AllTurns : Spoke(t)
      BY <1>10, Zenon
    <2>. PICK words \in BOOLEAN :
              Persist(t, IF words /\ pending[VoiceSession] = None
                         THEN Draw(log[VoiceSession], "assistant", t) ELSE log[VoiceSession])
      BY Zenon DEF Spoke
    <2>. DEFINE rows == IF words /\ pending[VoiceSession] = None
                        THEN Draw(log[VoiceSession], "assistant", t) ELSE log[VoiceSession]
    <2>1. rows \in Seq(Rows)
      BY <1>4, <1>5, RowsAreRows, Zenon
    <2>2. Persist(t, rows)
      BY Zenon
    <2>. HIDE DEF rows
    <2>. QED
      BY <1>7, <2>1, <2>2, Zenon
  <1>11. CASE Settles
    <2>. DEFINE t == Head(vault)
                s == Session(t)
                rows == IF kind[t] = "voice" /\ t \notin wordless
                        THEN Draw(log[s], "assistant", t) ELSE log[s]
    <2>1. t \in AllTurns
      BY <1>11, SMT DEF Settles, ControlInv, VaultType
    <2>2. rows \in Seq(Rows)
      BY <1>3, <1>4, <1>5, <2>1, RowsAreRows, Zenon
    <2>3. log' = log \/ Abandon(s, rows)
      BY <1>11, Zenon DEF Settles
    <2>4. s \in Sessions
      BY <1>3, Zenon
    <2>. HIDE DEF rows, s
    <2>. QED
      BY <1>2, <1>6, <2>2, <2>3, <2>4, Zenon
  <1>12. CASE Room
    BY <1>2, <1>12, Zenon DEF Room, LineComes, Hears, HearsNothing, BargesIn, GoesAway, StopBegins,
                               StopWaits, StopUnplugs, StopCloses
  <1>13. CASE UNCHANGED turnsVars
    BY <1>2, <1>13, SMT DEF turnsVars
  <1>. QED
    BY <1>8, <1>9, <1>10, <1>11, <1>12, <1>13, TheSteps, Zenon DEF Persists

(* The types, whatever the sessions: the rows are rows, the floor is held  *)
(* by a text turn still under way, and what waits for vault_lock is a      *)
(* post-turn pipeline.                                                     *)
THEOREM TurnsTypes == TurnsSpec => []TurnsTypeOK
  <1>1. TurnsInit => ControlInv /\ Written
    BY ControlInit, LogStart, Zenon DEF LogInv, Written
  <1>2. ControlInv /\ Written /\ [TurnsNext]_turnsVars => ControlInv' /\ Written'
    BY ControlStep, WrittenStep, Zenon
  <1>3. ControlInv /\ Written => TurnsTypeOK
    BY Zenon DEF ControlInv, ControlType, VaultType, Written, TurnsTypeOK
  <1>. QED
    BY <1>1, <1>2, <1>3, PTL DEF TurnsSpec

(* Stop leaves no writer behind, whoever gave up on what: her memory is    *)
(* closed with no turn running and no post-turn pipeline left.             *)
THEOREM TurnsClosedUnderNoWriter == TurnsSpec => []ClosedUnderNoWriter
  <1>1. ControlInv => ClosedUnderNoWriter
    BY SMT DEF ControlInv, NobodyRuns, MemoryShut, ClosedUnderNoWriter
  <1>. QED
    BY <1>1, ControlInit, ControlStep, PTL DEF TurnsSpec

(* What the two below rest on, for any number of turns and lines, if the   *)
(* requests, the chat and the voice connection have sessions of their own. *)
THEOREM TurnsInvariance == SessionsApart => (TurnsSpec => [](ControlInv /\ LogInv))
  <1>. SUFFICES ASSUME SessionsApart PROVE TurnsSpec => [](ControlInv /\ LogInv)
    OBVIOUS
  <1>1. TurnsInit => ControlInv /\ LogInv
    BY ControlInit, LogStart, Zenon
  <1>2. ControlInv /\ LogInv /\ [TurnsNext]_turnsVars => ControlInv' /\ LogInv'
    BY ControlStep, LogStep, Zenon
  <1>. QED
    BY <1>1, <1>2, PTL DEF TurnsSpec

(* The next prompt reads a run of exchanges, her line under the line it    *)
(* answers, however the turns of a session, its cancels and the lines the  *)
(* mind puts in between interleave.                                        *)
THEOREM TurnsWindowIsExchanges == SessionsApart => (TurnsSpec => []WindowIsExchanges)
  <1>1. LogInv => WindowIsExchanges
    BY Zenon DEF LogInv, Good, Sound, WindowIsExchanges
  <1>. QED
    BY <1>1, TurnsInvariance, PTL

(* A turn talked over, whatever token the next turn arms, does not happen, *)
(* and no row of the window is its.                                        *)
THEOREM TurnsTalkedOverLeavesNoTrace == SessionsApart => (TurnsSpec => []TalkedOverLeavesNoTrace)
  <1>1. ControlInv /\ LogInv => TalkedOverLeavesNoTrace
    <2>1. ASSUME ControlInv, LogInv, NEW t \in talked, at[t] = "failed", NEW s \in Sessions,
                 NEW i \in Window(log[s]), log[s][i].turn = t
          PROVE  FALSE
      BY <2>1, Zenon DEF LogInv, Good, NoTrace, Seen, Absent
    <2>. QED
      BY <2>1, Zenon DEF ControlInv, TalkedIsMouth, TalkedOverLeavesNoTrace
  <1>. QED
    BY <1>1, TurnsInvariance, PTL
=============================================================================
