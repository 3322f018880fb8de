------------------------------- MODULE WarmCard -------------------------------
(***************************************************************************)
(* The pipeline a local camera keeps warm on the card (SPEC 7.6a,          *)
(* world/vram.py): one render at a time, process-wide; a slot that names   *)
(* the backend whose weights stay resident and hands them back when another*)
(* backend claims it; and one idle timer that unloads what nobody renders  *)
(* with.  The lab's jobs (world/selfies.py) claim, load, render, keep or   *)
(* release, and arm the timer again; a lab may stop at any moment.         *)
(*                                                                         *)
(* Hosted cameras claim nothing and are left out.  Whether a pipeline may  *)
(* stay warm (what is free on the card, a borrowed brain) is a free choice.*)
(* A release is two steps of its thread: the weights go, then the slot.    *)
(***************************************************************************)
EXTENDS Naturals, FiniteSets

CONSTANTS
    Labs,           \* the characters' selfie labs
    Backends,       \* checkpoints, each shared by the labs that asked for it
    Camera,         \* the backend of each lab
    Shots,          \* render jobs, each used again when it is over
    LabOf,          \* the lab of each shot
    None,           \* no backend
    MaxStrays       \* bound on release threads whose waiter is cancelled

ASSUME WarmAssumption == /\ Camera \in [Labs -> Backends]
                         /\ LabOf \in [Shots -> Labs]
                         /\ None \notin Backends
                         /\ MaxStrays \in Nat

VARIABLES
    slot,           \* _WARM: the backend that holds the card, or None
    pipe,           \* the backends whose pipeline is loaded (_pipe)
    kept,           \* the labs whose last render left it warm (_kept_warm)
    idle,           \* _IDLE_TASK, and the backend it will unload
    job,            \* where each render job is
    worker,         \* where its worker thread is
    ousted,         \* the holder that worker must hand back
    lab,            \* whether each lab is open, stopping or gone
    strays          \* release threads nobody waits for any more

(* History: strays so far; the backends whose slot a stray freed while it  *)
(* was theirs; those whose timer was called off by a job that then never   *)
(* rendered, or by a lab that stopped.                                     *)
VARIABLES strayed, crossed, untimed

card == <<slot, pipe, crossed>>
jobVars == <<job, worker, ousted>>
timer == <<idle, kept, untimed>>
strayVars == <<strays, strayed>>
vars == <<card, jobVars, timer, strayVars, lab>>

JobStates == {"none", "queued", "ready", "rendering", "draining", "failing",
              "failed", "finishing"}
WorkerStates == {"none", "starting", "ousting", "loading", "up", "releasing",
                 "released", "over", "died"}
IdleStates == {"none", "sleeping", "waiting", "unloading", "unloaded"}
LabStates == {"open", "stopping", "releasing", "released", "gone"}

NoTimer == [at |-> "none", of |-> None]

(* The types, and that a worker thread always has a job waiting for it.    *)
TypeOK == /\ slot \in Backends \cup {None}
          /\ pipe \subseteq Backends
          /\ kept \subseteq Labs
          /\ idle \in [at : IdleStates, of : Backends \cup {None}]
          /\ job \in [Shots -> JobStates]
          /\ worker \in [Shots -> WorkerStates]
          /\ ousted \in [Shots -> Backends \cup {None}]
          /\ lab \in [Labs -> LabStates]
          /\ strays \subseteq [id : 1 .. MaxStrays, of : Backends,
                               at : {"unloading", "unloaded"}]
          /\ strayed \in 0 .. MaxStrays
          /\ crossed \subseteq Backends
          /\ untimed \subseteq Backends
          /\ \A s \in Shots : worker[s] # "none" <=> job[s] \in {"rendering", "draining"}

Init == /\ slot = None
        /\ pipe = {}
        /\ kept = {}
        /\ idle = NoTimer
        /\ job = [s \in Shots |-> "none"]
        /\ worker = [s \in Shots |-> "none"]
        /\ ousted = [s \in Shots |-> None]
        /\ lab = [l \in Labs |-> "open"]
        /\ strays = {} /\ strayed = 0
        /\ crossed = {} /\ untimed = {}

BackendOf(s) == Camera[LabOf[s]]

(* Who holds the shared render lock.                                       *)
JobsInside == {s \in Shots : job[s] \notin {"none", "queued"}}
IdleInside == idle.at \in {"unloading", "unloaded"}
LabsInside == {l \in Labs : lab[l] \in {"releasing", "released"}}
LockIsFreeOfJobs == JobsInside = {} /\ LabsInside = {}
LockIsFree == JobsInside = {} /\ ~IdleInside /\ LabsInside = {}

-----------------------------------------------------------------------------
(* _release of a camera on backend b, in a thread.                         *)
Unload(b) == /\ pipe' = pipe \ {b}
             /\ UNCHANGED <<slot, crossed>>

FreeSlot(b) == /\ slot' = IF slot = b THEN None ELSE slot
               /\ UNCHANGED <<pipe, crossed>>

(* A waiter is cancelled while its release thread runs: the thread goes on.*)
LeavesAStray(b, at) ==
    /\ strayed < MaxStrays
    /\ strayed' = strayed + 1
    /\ strays' = strays \cup {[id |-> strayed + 1, of |-> b, at |-> at]}

StrayUnloads(t) == /\ t \in strays /\ t.at = "unloading"
                   /\ strays' = (strays \ {t}) \cup {[t EXCEPT !.at = "unloaded"]}
                   /\ Unload(t.of)
                   /\ UNCHANGED <<jobVars, timer, strayed, lab>>

StrayFreesSlot(t) ==
    /\ t \in strays /\ t.at = "unloaded"
    /\ strays' = strays \ {t}
    /\ slot' = IF slot = t.of THEN None ELSE slot
    /\ crossed' = IF slot = t.of THEN crossed \cup {t.of} ELSE crossed
    /\ UNCHANGED <<pipe, jobVars, timer, strayed, lab>>

-----------------------------------------------------------------------------
(* The idle timer.  Calling it off frees the lock it may hold, and leaves  *)
(* its teardown running.  unarmed: what would have been timed, but for     *)
(* this call.                                                              *)
CancelIdle(unarmed) ==
    /\ idle' = NoTimer
    /\ untimed' = untimed \cup unarmed \cup (pipe \cap {idle.of})
    /\ \/ ~IdleInside /\ UNCHANGED strayVars
       \/ IdleInside /\ LeavesAStray(idle.of, idle.at)

Elapses == /\ idle.at = "sleeping"
           /\ idle' = [idle EXCEPT !.at = "waiting"]
           /\ UNCHANGED <<card, jobVars, kept, untimed, strayVars, lab>>

IdleTakesLock == /\ idle.at = "waiting"
                 /\ LockIsFree
                 /\ idle' = [idle EXCEPT !.at = "unloading"]
                 /\ UNCHANGED <<card, jobVars, kept, untimed, strayVars, lab>>

IdleUnloads == /\ idle.at = "unloading"
               /\ Unload(idle.of)
               /\ idle' = [idle EXCEPT !.at = "unloaded"]
               /\ UNCHANGED <<jobVars, kept, untimed, strayVars, lab>>

IdleEnds == /\ idle.at = "unloaded"
            /\ FreeSlot(idle.of)
            /\ idle' = NoTimer
            /\ UNCHANGED <<jobVars, kept, untimed, strayVars, lab>>

(* _arm_idle_unload, on every way out of the lock: only what this render   *)
(* left warm is timed, and a timer it replaces is called off.              *)
Rearm(s) ==
    IF LabOf[s] \in kept
    THEN /\ idle' = [at |-> "sleeping", of |-> BackendOf(s)]
         /\ untimed' = (untimed \cup (pipe \cap {idle.of})) \ {BackendOf(s)}
    ELSE UNCHANGED <<idle, untimed>>

ArmIdle(s) == Rearm(s)

-----------------------------------------------------------------------------
(* A job.  It calls the timer off before it waits for the lock.            *)
Start(s) == /\ job[s] = "none"
            /\ lab[LabOf[s]] = "open"
            /\ job' = [job EXCEPT ![s] = "queued"]
            /\ kept' = kept \ {LabOf[s]}
            /\ CancelIdle({b \in pipe : LabOf[s] \in kept /\ b = BackendOf(s)})
            /\ UNCHANGED <<card, worker, ousted, lab>>

TakeLock(s) == /\ job[s] = "queued"
               /\ LockIsFree
               /\ job' = [job EXCEPT ![s] = "ready"]
               /\ UNCHANGED <<card, worker, ousted, timer, strayVars, lab>>

(* The ready check, the quiet wait: then the worker thread, or a failure.  *)
NotReady(s) == /\ job[s] = "ready"
               /\ job' = [job EXCEPT ![s] = "failing"]
               /\ UNCHANGED <<card, worker, ousted, timer, strayVars, lab>>

Hires(s) == /\ job[s] = "ready"
            /\ job' = [job EXCEPT ![s] = "rendering"]
            /\ worker' = [worker EXCEPT ![s] = "starting"]
            /\ UNCHANGED <<card, ousted, timer, strayVars, lab>>

RenderIsOver(s) == job[s] = "rendering" /\ worker[s] \in {"over", "died"}

RenderEnds(s) ==
    /\ RenderIsOver(s)
    /\ \/ worker[s] = "over" /\ job' = [job EXCEPT ![s] = "finishing"]
       \/ job' = [job EXCEPT ![s] = "failing"]
    /\ worker' = [worker EXCEPT ![s] = "none"]
    /\ UNCHANGED <<card, ousted, timer, strayVars, lab>>

(* A failed job hands its pipeline back, in a thread, before it leaves.    *)
FailureUnloads(s) == /\ job[s] = "failing"
                     /\ Unload(BackendOf(s))
                     /\ job' = [job EXCEPT ![s] = "failed"]
                     /\ UNCHANGED <<worker, ousted, timer, strayVars, lab>>

Leaves(s) == /\ job' = [job EXCEPT ![s] = "none"]
             /\ worker' = [worker EXCEPT ![s] = "none"]
             /\ ArmIdle(s)
             /\ UNCHANGED <<kept, ousted, lab>>

FailureEnds(s) == /\ job[s] = "failed"
                  /\ FreeSlot(BackendOf(s))
                  /\ Leaves(s)
                  /\ UNCHANGED strayVars

Finished(s) == /\ job[s] = "finishing"
               /\ Leaves(s)
               /\ UNCHANGED <<card, strayVars>>

(* A cancel: at the lock, before the render, while the worker runs (the    *)
(* job waits it out), while a failure's release runs, after a good render. *)
CancelQueued(s) == /\ job[s] = "queued"
                   /\ job' = [job EXCEPT ![s] = "none"]
                   /\ UNCHANGED <<card, worker, ousted, timer, strayVars, lab>>

CancelReady(s) == /\ job[s] = "ready"
                  /\ Leaves(s)
                  /\ UNCHANGED <<card, strayVars>>

LeavesTheWorker(s) == /\ job[s] = "rendering"
                      /\ job' = [job EXCEPT ![s] = "none"]
                      /\ UNCHANGED <<card, worker, ousted, timer, strayVars, lab>>

CancelRendering(s) == /\ job[s] = "rendering"
                      /\ job' = [job EXCEPT ![s] = "draining"]
                      /\ UNCHANGED <<card, worker, ousted, timer, strayVars, lab>>

DrainedIfRendered(s) == /\ job[s] = "draining"
                        /\ worker[s] = "over"
                        /\ Leaves(s)
                        /\ UNCHANGED <<card, strayVars>>

Drained(s) == /\ job[s] = "draining"
              /\ worker[s] \in {"over", "died"}
              /\ Leaves(s)
              /\ UNCHANGED <<card, strayVars>>

CancelFailing(s) ==
    /\ job[s] \in {"failing", "failed"}
    /\ LeavesAStray(BackendOf(s), IF job[s] = "failing" THEN "unloading" ELSE "unloaded")
    /\ Leaves(s)
    /\ UNCHANGED card

-----------------------------------------------------------------------------
(* The worker thread.  claim_card: the slot is taken first, the previous   *)
(* holder's pipeline handed back before this render loads.                 *)
Step(s, from, to) == worker[s] = from /\ worker' = [worker EXCEPT ![s] = to]

Claim(s) ==
    LET b == BackendOf(s) IN
    /\ Step(s, "starting", IF slot \in {None, b} THEN "loading" ELSE "ousting")
    /\ slot' = b
    /\ crossed' = IF slot = None THEN crossed \ {b} ELSE crossed
    /\ kept' = kept \ {LabOf[s]}
    /\ ousted' = [ousted EXCEPT ![s] = IF slot = b THEN None ELSE slot]
    /\ untimed' = untimed \ {b}
    /\ UNCHANGED <<pipe, job, idle, strayVars, lab>>

OustNobody(s) == /\ Step(s, "ousting", "loading")
                 /\ ousted' = [ousted EXCEPT ![s] = None]
                 /\ UNCHANGED <<slot, pipe, crossed, job, timer, strayVars, lab>>

(* The previous holder's _release; its slot is no longer its own to free.  *)
Oust(s) == /\ Step(s, "ousting", "loading")
           /\ pipe' = pipe \ {ousted[s]}
           /\ crossed' = crossed \ {slot}
           /\ ousted' = [ousted EXCEPT ![s] = None]
           /\ UNCHANGED <<slot, job, timer, strayVars, lab>>

Load(s) == /\ Step(s, "loading", "up")
           /\ pipe' = pipe \cup {BackendOf(s)}
           /\ UNCHANGED <<slot, crossed, job, ousted, timer, strayVars, lab>>

(* The card ran out under a resident pipeline: once more, offloaded.       *)
Reload(s) == /\ Step(s, "up", "loading")
             /\ Unload(BackendOf(s))
             /\ UNCHANGED <<job, ousted, timer, strayVars, lab>>

StaysWarm(s) == /\ Step(s, "up", "over")
                /\ kept' = kept \cup {LabOf[s]}
                /\ UNCHANGED <<card, job, ousted, idle, untimed, strayVars, lab>>

(* A loan of the brain's memory, no room, or an error: the thread releases.*)
GivesUp(s) == /\ worker[s] \in {"loading", "up"}
              /\ Unload(BackendOf(s))
              /\ worker' = [worker EXCEPT ![s] = "releasing"]
              /\ UNCHANGED <<job, ousted, timer, strayVars, lab>>

GivesBack(s) == /\ worker[s] = "releasing"
                /\ FreeSlot(BackendOf(s))
                /\ \E to \in {"over", "died"} :
                      worker' = [worker EXCEPT ![s] = to]
                /\ UNCHANGED <<job, ousted, timer, strayVars, lab>>

-----------------------------------------------------------------------------
(* SelfieLab.close: its jobs are cancelled and gone, then the lock, the    *)
(* timer called off, and its backend's weights released.                   *)
Stop(l) == /\ lab[l] = "open"
           /\ lab' = [lab EXCEPT ![l] = "stopping"]
           /\ UNCHANGED <<card, jobVars, timer, strayVars>>

StopTakesLock(l) == /\ lab[l] = "stopping"
                    /\ \A s \in Shots : LabOf[s] = l => job[s] = "none"
                    /\ LockIsFree
                    /\ lab' = [lab EXCEPT ![l] = "releasing"]
                    /\ CancelIdle({})
                    /\ UNCHANGED <<card, jobVars, kept>>

StopUnloads(l) == /\ lab[l] = "releasing"
                  /\ Unload(Camera[l])
                  /\ lab' = [lab EXCEPT ![l] = "released"]
                  /\ UNCHANGED <<jobVars, timer, strayVars>>

StopEnds(l) == /\ lab[l] = "released"
               /\ FreeSlot(Camera[l])
               /\ lab' = [lab EXCEPT ![l] = "gone"]
               /\ UNCHANGED <<jobVars, timer, strayVars>>

Next == \/ Elapses \/ IdleTakesLock \/ IdleUnloads \/ IdleEnds
        \/ \E t \in strays : StrayUnloads(t) \/ StrayFreesSlot(t)
        \/ \E s \in Shots :
              \/ Start(s) \/ TakeLock(s) \/ NotReady(s) \/ Hires(s)
              \/ RenderEnds(s) \/ FailureUnloads(s) \/ FailureEnds(s)
              \/ Finished(s) \/ Drained(s)
              \/ CancelQueued(s) \/ CancelReady(s) \/ CancelRendering(s)
              \/ CancelFailing(s)
              \/ Claim(s) \/ Oust(s) \/ Load(s) \/ Reload(s) \/ StaysWarm(s)
              \/ GivesUp(s) \/ GivesBack(s)
        \/ \E l \in Labs : Stop(l) \/ StopTakesLock(l) \/ StopUnloads(l) \/ StopEnds(l)

Spec == Init /\ [][Next]_vars

(* Threads return and the loop runs what is due: whoever holds the lock    *)
(* leaves it, and a timer that is not called off elapses and gets it.      *)
Fairness ==
    /\ WF_vars(Elapses) /\ WF_vars(IdleTakesLock)
    /\ WF_vars(IdleUnloads \/ IdleEnds)
    /\ \A s \in Shots :
          /\ WF_vars(NotReady(s) \/ Hires(s))
          /\ WF_vars(RenderEnds(s) \/ Drained(s))
          /\ WF_vars(FailureUnloads(s) \/ FailureEnds(s) \/ Finished(s))
          /\ WF_vars(Claim(s) \/ Oust(s) \/ Load(s))
          /\ WF_vars(StaysWarm(s) \/ GivesUp(s) \/ GivesBack(s))
    /\ \A l \in Labs : WF_vars(StopUnloads(l) \/ StopEnds(l))

FairSpec == Spec /\ Fairness

-----------------------------------------------------------------------------
(* SPEC 7.6a, one resident pipeline on the card at a time: whatever jobs   *)
(* fail, are cancelled or stop, but for a backend whose slot a release     *)
(* thread nobody waited for has freed under it.                            *)
OneWarmPipeline == \A b, c \in pipe \ crossed : b = c

(* SPEC 7.6a, a pipeline that stays warm is dropped in the end: it has a   *)
(* timer, or a render of its own is under way; but for one whose timer was *)
(* called off by a job that never came to render, or by a lab that stopped.*)
WarmHasATimer ==
    \A b \in pipe : \/ idle.of = b
                    \/ \E s \in JobsInside : BackendOf(s) = b
                    \/ b \in untimed \cup crossed

(* A render finds its weights where it loaded them: nothing unloads a      *)
(* backend that renders but its own worker, and strays.                    *)
Rendering(b) == \E s \in Shots : BackendOf(s) = b /\ worker[s] = "up"
NotUnloadedUnderARender ==
    [][\A b \in pipe \ pipe' : Rendering(b) => ~Rendering(b)' \/ strays # strays']_vars

(* An armed timer unloads its pipeline, unless a shot or a stop calls it   *)
(* off: the queue for the lock cannot put it off for ever.                 *)
TimerFires == \A b \in Backends : idle.of = b ~> b \notin pipe \/ idle.of # b
=============================================================================
