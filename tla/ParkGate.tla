------------------------------- MODULE ParkGate -------------------------------
(***************************************************************************)
(* One card, the cameras of several characters, and their brain (SPEC 7.6, *)
(* world/vram.py): a render that needs the card shuts the park gate, waits *)
(* for the calls in flight to end (world/selfies.py, Runtime.              *)
(* wait_turns_idle), evicts the model, renders on a worker thread, brings  *)
(* the model back and opens the gate; turns and off-turn calls wait at the *)
(* gate first, each as long as it can afford to.                           *)
(*                                                                         *)
(* What is free on the card is left out: whether a render needs the loan   *)
(* is a free choice each time the parker asks.                             *)
(***************************************************************************)
EXTENDS Naturals, Sequences

CONSTANTS
    Characters,     \* one runtime, lab and parker each
    Hosted,         \* those whose camera keeps nothing on this card
    Turns,          \* turns, text or voice
    Thoughts,       \* the minds' off-turn model calls
    Whose,          \* the character of each turn
    MaxLate         \* bound on the calls whose patience runs out

ASSUME CardAssumption == /\ Hosted \subseteq Characters
                         /\ Whose \in [Turns -> Characters]
                         /\ Turns \cap Thoughts = {}
                         /\ MaxLate \in Nat

VARIABLES
    closers,        \* ParkGate._closers: the door is shut while there are any
    hops,           \* each parker's door changes on their way to the loop
    turn,           \* where each turn is
    thought,        \* where each off-turn call is
    job,            \* where each lab's render job is
    worker,         \* where that job's worker thread is
    lates

(* History: the calls that went through a shut door when their patience    *)
(* ran out; those a park went ahead under when its own did; the jobs that  *)
(* shut the door and waited before they rendered.                          *)
VARIABLES late, pressed, quieted

doorVars == <<closers, hops>>
callVars == <<turn, thought>>
jobVars == <<job, worker>>
history == <<lates, late, pressed, quieted>>
vars == <<doorVars, callVars, jobVars, history>>

Shut == "shut"
Opened == "opened"

(* "persisting": the reply is committed, and a held model call files it.   *)
TurnStates == {"none", "door", "live", "persisting"}
ThoughtStates == {"none", "door", "held"}

(* "turns", "calls": waiting for a quiet moment;  "rendering": awaiting    *)
(* the worker;  "draining": cancelled, and the worker still at it;         *)
(* "finishing": a failed render hands back its pipeline, a good one is     *)
(* announced, the lock still held.                                         *)
JobStates == {"none", "queued", "ready", "turns", "calls", "rendering",
              "draining", "finishing"}
Locked == JobStates \ {"none", "queued"}
WorkerStates == {"none", "starting", "bare", "closing", "parked", "over"}

(* The types, and that no job leaves a worker thread behind on the card.   *)
TypeOK == /\ closers \subseteq Characters
          /\ hops \in [Characters -> Seq({Shut, Opened})]
          /\ turn \in [Turns -> TurnStates]
          /\ thought \in [Thoughts -> ThoughtStates]
          /\ job \in [Characters -> JobStates]
          /\ worker \in [Characters -> WorkerStates]
          /\ lates \in 0 .. MaxLate
          /\ late \subseteq Turns \cup Thoughts
          /\ pressed \subseteq Turns \cup Thoughts
          /\ quieted \subseteq Characters
          /\ \A c \in Characters :
                worker[c] # "none" <=> job[c] \in {"rendering", "draining"}

Init == /\ closers = {}
        /\ hops = [c \in Characters |-> <<>>]
        /\ turn = [t \in Turns |-> "none"]
        /\ thought = [u \in Thoughts |-> "none"]
        /\ job = [c \in Characters |-> "none"]
        /\ worker = [c \in Characters |-> "none"]
        /\ lates = 0
        /\ late = {} /\ pressed = {} /\ quieted = {}

-----------------------------------------------------------------------------
(* The door.  Opening it resumes every call that waits there, before any   *)
(* job can shut it again: a job hands its lock on and asks the camera      *)
(* first, several turns of the event loop later.                           *)
CloseFor(c) == /\ closers' = closers \cup {c}
               /\ UNCHANGED callVars

OpenForAll(c) == {}
OpenFor(c) == closers \ {c}

Opens(c) ==
    /\ closers' = OpenFor(c)
    /\ IF closers' = {}
       THEN /\ turn' = [t \in Turns |-> IF turn[t] = "door" THEN "live" ELSE turn[t]]
            /\ thought' = [u \in Thoughts |-> IF thought[u] = "door" THEN "held"
                                              ELSE thought[u]]
       ELSE UNCHANGED callVars

(* A worker's close or open, run by the event loop in the order it came.   *)
RunHop(c) == /\ hops[c] # <<>>
             /\ hops' = [hops EXCEPT ![c] = Tail(@)]
             /\ IF Head(hops[c]) = Shut THEN CloseFor(c) ELSE Opens(c)
             /\ UNCHANGED <<jobVars, history>>

-----------------------------------------------------------------------------
(* The callers.  A turn waits at the door, and counts itself in flight     *)
(* only when it is through; so does a utility call, which then holds.      *)
TurnArrives(t) == /\ turn[t] = "none"
                  /\ turn' = [turn EXCEPT ![t] = IF closers = {} THEN "live" ELSE "door"]
                  /\ UNCHANGED <<doorVars, thought, jobVars, history>>

ThoughtArrives(u) == /\ thought[u] = "none"
                     /\ thought' = [thought EXCEPT ![u] = IF closers = {} THEN "held"
                                                          ELSE "door"]
                     /\ UNCHANGED <<doorVars, turn, jobVars, history>>

(* The cap on the wait blows, and the caller goes through anyway.          *)
GoesAnyway(x) == /\ lates < MaxLate
                 /\ lates' = lates + 1
                 /\ late' = late \cup {x}
                 /\ UNCHANGED <<doorVars, jobVars, pressed, quieted>>

TurnGoesAnyway(t) == /\ turn[t] = "door"
                     /\ turn' = [turn EXCEPT ![t] = "live"]
                     /\ GoesAnyway(t)
                     /\ UNCHANGED thought

ThoughtGoesAnyway(u) == /\ thought[u] = "door"
                        /\ thought' = [thought EXCEPT ![u] = "held"]
                        /\ GoesAnyway(u)
                        /\ UNCHANGED turn

Forget(x) == /\ late' = late \ {x}
             /\ pressed' = pressed \ {x}
             /\ UNCHANGED <<lates, quieted>>

(* turn_ended; a text turn that is committed then holds the gate while the *)
(* memory extractor runs, without an await in between.                     *)
TurnPersists(t) == /\ turn[t] = "live"
                   /\ turn' = [turn EXCEPT ![t] = "persisting"]
                   /\ UNCHANGED <<doorVars, thought, jobVars, history>>

TurnEnds(t) == /\ turn[t] \in {"live", "persisting"}
               /\ turn' = [turn EXCEPT ![t] = "none"]
               /\ Forget(t)
               /\ UNCHANGED <<doorVars, thought, jobVars>>

ThoughtEnds(u) == /\ thought[u] = "held"
                  /\ thought' = [thought EXCEPT ![u] = "none"]
                  /\ Forget(u)
                  /\ UNCHANGED <<doorVars, turn, jobVars>>

(* Runtime._turns_in_flight, of one character;  ParkGate._holders, of all. *)
CountedAtTheDoor(c) == {t \in Turns : Whose[t] = c /\ turn[t] \in {"door", "live"}}
InFlight(c) == {t \in Turns : Whose[t] = c /\ turn[t] = "live"}
Holders == {t \in Turns : turn[t] = "persisting"}
             \cup {u \in Thoughts : thought[u] = "held"}

-----------------------------------------------------------------------------
(* The lab.  Cameras on the card share one lock; a hosted one has its own. *)
Shoot(c) == /\ job[c] = "none"
            /\ job' = [job EXCEPT ![c] = "queued"]
            /\ UNCHANGED <<doorVars, callVars, worker, history>>

TakeLock(c) == /\ job[c] = "queued"
               /\ c \notin Hosted =>
                     \A d \in Characters \ Hosted : job[d] \notin Locked
               /\ job' = [job EXCEPT ![c] = "ready"]
               /\ UNCHANGED <<doorVars, callVars, worker, history>>

(* The job is over on the loop: its cleanup opens the door, parked or not. *)
Leaves(c, next) == /\ job' = [job EXCEPT ![c] = next]
                   /\ worker' = [worker EXCEPT ![c] = "none"]
                   /\ quieted' = quieted \ {c}
                   /\ Opens(c)
                   /\ UNCHANGED <<hops, lates, late, pressed>>

NotReady(c) == job[c] = "ready" /\ Leaves(c, "finishing")

(* The camera can run.  A render that must park shuts the door and waits.  *)
ReadyToPark(c) == /\ job[c] = "ready"
                  /\ c \notin Hosted
                  /\ job' = [job EXCEPT ![c] = "turns"]
                  /\ CloseFor(c)
                  /\ UNCHANGED <<hops, worker, history>>

ReadyToRender(c) == /\ job[c] = "ready"
                    /\ job' = [job EXCEPT ![c] = "rendering"]
                    /\ worker' = [worker EXCEPT ![c] = "starting"]
                    /\ UNCHANGED <<doorVars, callVars, history>>

(* wait_turns_idle: her turns first, with no cap, then everyone's calls.   *)
TurnsIdle(c) == /\ job[c] = "turns"
                /\ InFlight(c) = {}
                /\ job' = [job EXCEPT ![c] = "calls"]
                /\ UNCHANGED <<doorVars, callVars, worker, history>>

StartsRender(c) == /\ job[c] = "calls"
                   /\ job' = [job EXCEPT ![c] = "rendering"]
                   /\ worker' = [worker EXCEPT ![c] = "starting"]
                   /\ quieted' = quieted \cup {c}
                   /\ UNCHANGED <<doorVars, callVars, lates, late>>

CallsNotAwaited(c) == StartsRender(c) /\ UNCHANGED pressed
CallsIdle(c) == /\ StartsRender(c)
                /\ Holders = {}
                /\ UNCHANGED pressed

QuietWaitBlown(c) == /\ StartsRender(c)
                     /\ Holders # {}
                     /\ pressed' = pressed \cup Holders

(* A cancelled job opens the door on its way out, but not while its worker *)
(* thread, which nothing can stop, is still on the card.                   *)
CancelQueued(c) == /\ job[c] = "queued"
                   /\ job' = [job EXCEPT ![c] = "none"]
                   /\ UNCHANGED <<doorVars, callVars, worker, history>>

CancelWaiting(c) == job[c] \in {"ready", "turns", "calls"} /\ Leaves(c, "none")

LeavesTheWorker(c) == /\ job[c] = "rendering"
                      /\ job' = [job EXCEPT ![c] = "none"]
                      /\ Opens(c)
                      /\ UNCHANGED <<hops, worker, history>>
CancelRendering(c) == /\ job[c] = "rendering"
                      /\ job' = [job EXCEPT ![c] = "draining"]
                      /\ UNCHANGED <<doorVars, callVars, worker, history>>

(* The worker is done: its door changes have reached the loop before this. *)
WorkerDone(c) == worker[c] = "over" /\ hops[c] = <<>>
RenderEnds(c) == /\ WorkerDone(c)
                 /\ \/ job[c] = "rendering" /\ Leaves(c, "none")
                    \/ job[c] = "rendering" /\ Leaves(c, "finishing")
                    \/ job[c] = "draining" /\ Leaves(c, "none")

Finished(c) == /\ job[c] = "finishing"
               /\ job' = [job EXCEPT ![c] = "none"]
               /\ UNCHANGED <<doorVars, callVars, worker, history>>

-----------------------------------------------------------------------------
(* LLMParker.parked(), on the worker thread: it asks again whether to park,*)
(* and opens the door the lab may have shut if the answer is no by now.    *)
Hops(c, change) == hops' = [hops EXCEPT ![c] = Append(@, change)]

NoNeedToPark(c) == /\ worker[c] = "starting"
                   /\ worker' = [worker EXCEPT ![c] = "bare"]
                   /\ Hops(c, Opened)
                   /\ UNCHANGED <<closers, callVars, job, history>>

Parks(c) == /\ worker[c] = "starting"
            /\ c \notin Hosted
            /\ worker' = [worker EXCEPT ![c] = "closing"]
            /\ Hops(c, Shut)
            /\ UNCHANGED <<closers, callVars, job, history>>

Evicts(c) == /\ worker[c] = "closing"
             /\ worker' = [worker EXCEPT ![c] = "parked"]
             /\ UNCHANGED <<doorVars, callVars, job, history>>

(* The render is done, or died; the model is brought back, or that failed; *)
(* the door opens in every case.                                           *)
GivesBack(c) == /\ worker[c] = "parked"
                /\ worker' = [worker EXCEPT ![c] = "over"]
                /\ Hops(c, Opened)
                /\ UNCHANGED <<closers, callVars, job, history>>

BareRenderEnds(c) == /\ worker[c] = "bare"
                     /\ worker' = [worker EXCEPT ![c] = "over"]
                     /\ UNCHANGED <<doorVars, callVars, job, history>>

Next == \/ \E t \in Turns : \/ TurnArrives(t) \/ TurnGoesAnyway(t)
                            \/ TurnPersists(t) \/ TurnEnds(t)
        \/ \E u \in Thoughts : \/ ThoughtArrives(u) \/ ThoughtGoesAnyway(u)
                               \/ ThoughtEnds(u)
        \/ \E c \in Characters :
              \/ RunHop(c)
              \/ Shoot(c) \/ TakeLock(c) \/ NotReady(c)
              \/ ReadyToPark(c) \/ ReadyToRender(c)
              \/ TurnsIdle(c) \/ CallsIdle(c) \/ QuietWaitBlown(c)
              \/ CancelQueued(c) \/ CancelWaiting(c) \/ CancelRendering(c)
              \/ RenderEnds(c) \/ Finished(c)
              \/ NoNeedToPark(c) \/ Parks(c) \/ Evicts(c)
              \/ GivesBack(c) \/ BareRenderEnds(c)

Spec == Init /\ [][Next]_vars

(* Model calls end, the loop runs its callbacks, thread calls return; the  *)
(* wait for her turns ends when they have ended once (an asyncio.Event).   *)
Fairness ==
    /\ \A t \in Turns : WF_vars(TurnEnds(t))
    /\ \A u \in Thoughts : WF_vars(ThoughtEnds(u))
    /\ \A c \in Characters :
          /\ WF_vars(RunHop(c))
          /\ WF_vars(NotReady(c) \/ ReadyToPark(c) \/ ReadyToRender(c))
          /\ SF_vars(TurnsIdle(c))
          /\ WF_vars(CallsIdle(c) \/ QuietWaitBlown(c))
          /\ WF_vars(RenderEnds(c))
          /\ WF_vars(NoNeedToPark(c) \/ Parks(c))
          /\ WF_vars(Evicts(c) \/ GivesBack(c) \/ BareRenderEnds(c))

FairSpec == Spec /\ Fairness

-----------------------------------------------------------------------------
(* While the model is off the card, the door is shut on the parker's       *)
(* behalf, or the loop is about to shut it: whatever another camera        *)
(* decides, a cancel, or a render that fails.                              *)
DoorShutDuringLoan ==
    \A c \in Characters : worker[c] = "parked" =>
        c \in closers \/ hops[c] # <<>>

(* SPEC 7.6, a gate stuck shut is a companion who stops answering: nobody  *)
(* holds the door but a job that still has its own way out to open it.     *)
NoStrandedDoor ==
    \A c \in closers : job[c] \in {"turns", "calls", "rendering", "draining"}

(* A park whose lab shut the door and waited evicts under no turn of hers, *)
(* persisting or streaming, and under no off-turn call of anyone's, except *)
(* where a patience ran out: the caller's at the door or the park's own.   *)
Disturbed(c) ==
    {t \in Turns : Whose[t] = c /\ turn[t] \in {"live", "persisting"}}
      \cup {u \in Thoughts : thought[u] = "held"}

LoanIsQuiet ==
    \A c \in quieted : worker[c] = "parked" => Disturbed(c) \subseteq late \cup pressed

(* Every turn and call at the door gets through: no render waits for one   *)
(* that waits for the render, and no way out of a job leaves it shut.      *)
EveryCallGetsThrough ==
    /\ \A t \in Turns : turn[t] = "door" ~> turn[t] # "door"
    /\ \A u \in Thoughts : thought[u] = "door" ~> thought[u] # "door"

-----------------------------------------------------------------------------
(* vram.py: the lab waits before parking until no turn is in flight, and   *)
(* the card is everyone's.                                                 *)
NoTurnUnderAPark ==
    \A c \in quieted : worker[c] = "parked" =>
        \A t \in Turns : turn[t] = "live" => t \in late
=============================================================================
