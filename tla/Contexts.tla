------------------------------- MODULE Contexts -------------------------------
(***************************************************************************)
(* The in-process models (app/providers/gguf.py, admission.py): one llama  *)
(* context per model, built by whichever call needs it first and shared by *)
(* every provider, closed for a render and built again after it.  A call is*)
(* a task on the event loop that works through worker threads; a task that *)
(* is cancelled leaves its thread running.  The park and the unpark run on *)
(* the thread of the render.                                               *)
(*                                                                         *)
(* The calls share one event loop.  Preflights, options, the download and  *)
(* what is generated are left out; a load or a download may fail.          *)
(***************************************************************************)
EXTENDS Naturals, FiniteSets

CONSTANTS
    Calls,              \* completions asked for, each once
    Providers,          \* GGUFChatModel and GGUFUtilityModel objects
    Models,             \* the model files with their options
    Contexts,           \* llama contexts; one nobody refers to is made anew
    None,               \* no context
    ProviderOf,         \* call -> the provider it is made on
    ModelOf,            \* provider -> its model
    QueueLimit,         \* DEFAULT_QUEUE
    MaxParks,           \* bound on renders that park
    MaxCuts             \* bound on calls that are cancelled

ASSUME ContextsAssumption ==
    /\ ProviderOf \in [Calls -> Providers] /\ ModelOf \in [Providers -> Models]
    /\ None \notin Contexts \cup Calls
    /\ QueueLimit \in Nat /\ MaxParks \in Nat /\ MaxCuts \in Nat

VARIABLES
    task,               \* call -> its coroutine
    thread,             \* call -> where the thread that works for it is
    on,                 \* call -> the context it has in hand
    late,               \* calls whose _PARK_WAIT_SECONDS are over
    cuts,
    loaded,             \* provider._loaded
    models,             \* _models
    state,              \* context -> closed, loading or open
    lock,               \* context.lock -> who holds it
    gate, parked,       \* _load_gate, _parked
    park,               \* where the render is
    snapshot, handles,  \* what it has to close or is building, what to build again
    parks

(* History: contexts built in a render window by a call that had waited    *)
(* long enough; a lock taken for a task that was no longer there; a call   *)
(* that found its provider's context gone between two looks at it.         *)
VARIABLES strays, leaked, torn

calling == <<task, thread, on, late, cuts>>
cache == <<loaded, models, state, lock>>
lending == <<gate, parked, park, snapshot, handles, parks>>
history == <<strays, leaked, torn>>
vars == <<calling, cache, lending, history>>

Loading == {"checking", "peeking", "gated", "resolving", "waiting", "building",
            "assigning", "returning"}
Threads == {"none", "locking", "generating"} \cup Loading

Model(c) == ModelOf[ProviderOf[c]]

TypeOK ==
    /\ task \in [Calls -> {"idle", "queued", "active", "over", "cut"}]
    /\ thread \in [Calls -> Threads]
    /\ on \in [Calls -> Contexts \cup {None}] /\ late \subseteq Calls
    /\ cuts \in 0 .. MaxCuts
    /\ loaded \in [Providers -> Contexts \cup {None}]
    /\ models \in [Models -> Contexts \cup {None}]
    /\ state \in [Contexts -> {"closed", "loading", "open"}]
    /\ lock \in [Contexts -> Calls \cup {None}]
    /\ gate \in BOOLEAN /\ parked \in BOOLEAN
    /\ park \in {"off", "declaring", "dropping", "closing", "lent",
                 "raising", "reloading", "rebuilding"}
    /\ snapshot \subseteq Contexts /\ handles \subseteq Models /\ parks \in 0 .. MaxParks
    /\ strays \subseteq Contexts /\ leaked \in BOOLEAN /\ torn \in BOOLEAN

Init == /\ task = [c \in Calls |-> "idle"] /\ thread = [c \in Calls |-> "none"]
        /\ on = [c \in Calls |-> None] /\ late = {} /\ cuts = 0
        /\ loaded = [p \in Providers |-> None] /\ models = [m \in Models |-> None]
        /\ state = [k \in Contexts |-> "closed"] /\ lock = [k \in Contexts |-> None]
        /\ gate = TRUE /\ parked = FALSE /\ park = "off"
        /\ snapshot = {} /\ handles = {} /\ parks = 0
        /\ strays = {} /\ leaked = FALSE /\ torn = FALSE

Moves(c, from, to) == thread[c] = from /\ thread' = [thread EXCEPT ![c] = to]

(* _models_cv is free: only a load keeps it from one step to the next.     *)
Unlocked == park # "rebuilding" /\ \A c \in Calls : thread[c] # "building"

(* A context that nothing refers to any more.                              *)
Fresh == {k \in Contexts : /\ state[k] = "closed" /\ lock[k] = None
                           /\ k \notin snapshot
                           /\ \A c \in Calls : on[c] # k
                           /\ \A p \in Providers : loaded[p] # k
                           /\ \A m \in Models : models[m] # k}

NewContext == CHOOSE k \in Fresh : TRUE

-----------------------------------------------------------------------------
(* inference_admission(): one active, QueueLimit waiting, the rest refused.*)
Active == {c \in Calls : task[c] = "active"}
Queued == {c \in Calls : task[c] = "queued"}

Becomes(c, to) == task' = [task EXCEPT ![c] = to]

Begins(c) == /\ Becomes(c, "active")
             /\ thread' = [thread EXCEPT ![c] = "checking"]

Asks(c) == /\ task[c] = "idle"
           /\ \/ Active = {} /\ Begins(c)
              \/ /\ Active # {} /\ Cardinality(Queued) < QueueLimit
                 /\ Becomes(c, "queued") /\ UNCHANGED thread
              \/ /\ Active # {} /\ Cardinality(Queued) >= QueueLimit
                 /\ Becomes(c, "over") /\ UNCHANGED thread
           /\ UNCHANGED <<cuts, on, late, cache, lending, history>>

IsAdmitted(c) == /\ task[c] = "queued" /\ Active = {}
                 /\ Begins(c)
                 /\ UNCHANGED <<cuts, on, late, cache, lending, history>>

(* The thread is done and hands its result, or its error, to the task if   *)
(* there is one left.                                                      *)
Ends(c) == /\ thread' = [thread EXCEPT ![c] = "none"]
           /\ on' = [on EXCEPT ![c] = None]
           /\ late' = late \ {c}
           /\ Becomes(c, "over")

-----------------------------------------------------------------------------
(* _load(): self._loaded is None or self._loaded.closed, two looks; and a  *)
(* third for what it returns.                                              *)
Looks(c) == /\ \/ loaded[ProviderOf[c]] = None /\ Moves(c, "checking", "gated")
               \/ loaded[ProviderOf[c]] # None /\ Moves(c, "checking", "peeking")
            /\ UNCHANGED <<cuts, task, on, late, cache, lending, history>>

Peeks(c) ==
    /\ thread[c] = "peeking"
    /\ LET k == loaded[ProviderOf[c]]
       IN  \/ k = None /\ Ends(c) /\ torn' = (torn \/ task[c] = "active")
           \/ /\ k # None
              /\ Moves(c, "peeking", IF state[k] = "closed" THEN "gated" ELSE "returning")
              /\ UNCHANGED <<task, on, late, torn>>
    /\ UNCHANGED <<cuts, cache, lending, strays, leaked>>

Returns(c) ==
    /\ thread[c] = "returning"
    /\ LET k == loaded[ProviderOf[c]]
       IN  \/ task[c] # "active" /\ Ends(c) /\ UNCHANGED torn
           \/ task[c] = "active" /\ k = None /\ Ends(c) /\ torn' = TRUE
           \/ /\ task[c] = "active" /\ k # None
              /\ Moves(c, "returning", "locking")
              /\ on' = [on EXCEPT ![c] = k]
              /\ UNCHANGED <<task, late, torn>>
    /\ UNCHANGED <<cuts, cache, lending, strays, leaked>>

(* get_model(): the door, which is advisory, then the download.            *)
PatienceEnds(c) == /\ thread[c] \in {"gated", "resolving", "waiting"} /\ park # "off"
                   /\ late' = late \cup {c}
                   /\ UNCHANGED <<cuts, task, thread, on, cache, lending, history>>

PassesTheDoor(c) == /\ gate \/ c \in late
                    /\ Moves(c, "gated", "resolving")
                    /\ UNCHANGED <<cuts, task, on, late, cache, lending, history>>

(* Under _models_cv: what is resident is used, a render is waited out, and *)
(* a load begins that keeps the lock to its end.                           *)
Finds(c) == /\ models[Model(c)] # None
            /\ thread' = [thread EXCEPT ![c] = "assigning"]
            /\ on' = [on EXCEPT ![c] = models[Model(c)]]
            /\ UNCHANGED <<state, strays>>

Builds(c) == /\ Fresh # {}
             /\ thread' = [thread EXCEPT ![c] = "building"]
             /\ on' = [on EXCEPT ![c] = NewContext]
             /\ state' = [state EXCEPT ![NewContext] = "loading"]
             /\ strays' = IF parked /\ c \in late THEN strays \cup {NewContext} ELSE strays \ {NewContext}

LoadsAtTheDoor(c) == /\ thread[c] = "resolving" /\ Unlocked
                     /\ \/ Finds(c)
                        \/ models[Model(c)] = None /\ Builds(c)
                     /\ UNCHANGED <<cuts, task, late, loaded, models, lock, lending, leaked, torn>>

Enters(c) == /\ thread[c] = "resolving" /\ Unlocked
             /\ \/ Finds(c)
                \/ /\ models[Model(c)] = None /\ parked /\ c \notin late
                   /\ thread' = [thread EXCEPT ![c] = "waiting"]
                   /\ UNCHANGED <<on, state, strays>>
                \/ models[Model(c)] = None /\ (~parked \/ c \in late) /\ Builds(c)
             /\ UNCHANGED <<cuts, task, late, loaded, models, lock, lending, leaked, torn>>

LoadsAnyway(c) == /\ thread[c] = "waiting" /\ Unlocked
                  /\ ~parked \/ c \in late
                  /\ Builds(c)
                  /\ UNCHANGED <<cuts, task, late, loaded, models, lock, lending, leaked, torn>>

Wakes(c) == /\ thread[c] = "waiting" /\ Unlocked
            /\ ~parked \/ c \in late
            /\ \/ Finds(c)
               \/ models[Model(c)] = None /\ Builds(c)
            /\ UNCHANGED <<cuts, task, late, loaded, models, lock, lending, leaked, torn>>

Built(c) == /\ thread[c] = "building"
            /\ state' = [state EXCEPT ![on[c]] = "open"]
            /\ models' = [models EXCEPT ![Model(c)] = on[c]]
            /\ thread' = [thread EXCEPT ![c] = "assigning"]
            /\ UNCHANGED <<cuts, task, on, late, loaded, lock, lending, history>>

(* self._loaded = get_model(...), out of the lock again.                   *)
Assigns(c) == /\ Moves(c, "assigning", "returning")
              /\ loaded' = [loaded EXCEPT ![ProviderOf[c]] = on[c]]
              /\ on' = [on EXCEPT ![c] = None]
              /\ UNCHANGED <<cuts, task, late, models, state, lock, lending, history>>

LoadFails(c) == /\ thread[c] \in {"resolving", "building"}
                /\ state' = [k \in Contexts |-> IF k = on[c] THEN "closed" ELSE state[k]]
                /\ strays' = strays \ {on[c]}
                /\ Ends(c)
                /\ UNCHANGED <<cuts, loaded, models, lock, lending, leaked, torn>>

-----------------------------------------------------------------------------
(* _acquire_current(): the lock, and once more from the top if the context *)
(* was closed on the way; then the generation, which gives the lock back.  *)
Locks(c) ==
    /\ thread[c] = "locking" /\ lock[on[c]] = None
    /\ \/ /\ task[c] = "active" /\ state[on[c]] # "closed"
          /\ lock' = [lock EXCEPT ![on[c]] = c]
          /\ thread' = [thread EXCEPT ![c] = "generating"]
          /\ UNCHANGED <<task, on, late, leaked>>
       \/ /\ task[c] = "active" /\ state[on[c]] = "closed"
          /\ thread' = [thread EXCEPT ![c] = "checking"]
          /\ on' = [on EXCEPT ![c] = None]
          /\ UNCHANGED <<task, late, lock, leaked>>
       \/ /\ task[c] = "cut" /\ Ends(c)
          /\ lock' = [lock EXCEPT ![on[c]] = c] /\ leaked' = TRUE
    /\ UNCHANGED <<cuts, loaded, models, state, lending, strays, torn>>

Generates(c) == /\ thread[c] = "generating"
                /\ lock' = [k \in Contexts |-> IF lock[k] = c THEN None ELSE lock[k]]
                /\ Ends(c)
                /\ UNCHANGED <<cuts, loaded, models, state, lending, history>>

(* Cancelled: a task in the queue leaves it; any other lets the next one   *)
(* in, gives back the lock it generates under, and leaves its thread - or, *)
(* between two chunks, has none - behind.                                  *)
CancelsKeepingTheLock(c) ==
    /\ task[c] \in {"queued", "active"} /\ cuts < MaxCuts /\ cuts' = cuts + 1
    /\ \/ task[c] = "active" /\ Becomes(c, "cut") /\ UNCHANGED <<thread, on, late>>
       \/ thread[c] \in {"none", "generating"} /\ Ends(c)
    /\ UNCHANGED <<cache, lending, history>>

Cancels(c) ==
    /\ task[c] \in {"queued", "active"} /\ cuts < MaxCuts /\ cuts' = cuts + 1
    /\ lock' = [k \in Contexts |-> IF lock[k] = c THEN None ELSE lock[k]]
    /\ \/ task[c] = "active" /\ Becomes(c, "cut") /\ UNCHANGED <<thread, on, late>>
       \/ thread[c] \in {"none", "generating"} /\ Ends(c)
    /\ UNCHANGED <<loaded, models, state, lending, history>>

-----------------------------------------------------------------------------
(* park(): the door, then the word under the lock with the snapshot, then  *)
(* the providers' own references, then every context under its own lock.   *)
Parks == /\ park = "off" /\ parks < MaxParks
         /\ gate' = FALSE /\ park' = "declaring" /\ parks' = parks + 1
         /\ UNCHANGED <<calling, cache, parked, snapshot, handles, history>>

Declares == /\ park = "declaring" /\ Unlocked
            /\ parked' = TRUE /\ park' = "dropping"
            /\ snapshot' = {models[m] : m \in Models} \ {None}
            /\ handles' = {m \in Models : models[m] # None}
            /\ models' = [m \in Models |-> None]
            /\ UNCHANGED <<calling, loaded, state, lock, gate, parks, history>>

Drops == /\ park = "dropping"
         /\ loaded' = [p \in Providers |-> None] /\ park' = "closing"
         /\ UNCHANGED <<calling, models, state, lock, gate, parked, snapshot,
                        handles, parks, history>>

ClosesUnasked(k) == /\ park = "closing" /\ k \in snapshot
                    /\ state' = [state EXCEPT ![k] = "closed"]
                    /\ snapshot' = snapshot \ {k} /\ strays' = strays \ {k}
                    /\ UNCHANGED <<calling, loaded, models, lock, gate, parked, park,
                                   handles, parks, leaked, torn>>

Closes(k) == /\ park = "closing" /\ k \in snapshot /\ lock[k] = None
             /\ state' = [state EXCEPT ![k] = "closed"]
             /\ snapshot' = snapshot \ {k} /\ strays' = strays \ {k}
             /\ UNCHANGED <<calling, loaded, models, lock, gate, parked, park,
                            handles, parks, leaked, torn>>

Lends == /\ park = "closing" /\ snapshot = {}
         /\ park' = "lent"
         /\ UNCHANGED <<calling, cache, gate, parked, snapshot, handles, parks, history>>

(* unpark(): the word, the door, and each context back; one that does not  *)
(* load is left for the next call.                                         *)
Unparks == /\ park = "lent" /\ Unlocked
           /\ parked' = FALSE /\ park' = "raising"
           /\ UNCHANGED <<calling, cache, gate, snapshot, handles, parks, history>>

Raises == /\ park = "raising"
          /\ gate' = TRUE /\ park' = "reloading"
          /\ UNCHANGED <<calling, cache, parked, snapshot, handles, parks, history>>

Reloads(m) ==
    /\ park = "reloading" /\ m \in handles /\ Unlocked
    /\ \/ /\ models[m] # None
          /\ handles' = handles \ {m}
          /\ UNCHANGED <<state, park, snapshot, strays>>
       \/ /\ models[m] = None /\ Fresh # {}
          /\ park' = "rebuilding" /\ snapshot' = {NewContext}
          /\ state' = [state EXCEPT ![NewContext] = "loading"]
          /\ strays' = strays \ {NewContext}
          /\ UNCHANGED handles
    /\ UNCHANGED <<calling, loaded, models, lock, gate, parked, parks, leaked, torn>>

Rebuilt(m, k) ==
    /\ park = "rebuilding" /\ m \in handles /\ models[m] = None /\ k \in snapshot
    /\ park' = "reloading" /\ snapshot' = {} /\ handles' = handles \ {m}
    /\ \/ /\ state' = [state EXCEPT ![k] = "open"]
          /\ models' = [models EXCEPT ![m] = k]
       \/ /\ state' = [state EXCEPT ![k] = "closed"]
          /\ UNCHANGED models
    /\ UNCHANGED <<calling, loaded, lock, gate, parked, parks, history>>

ParkIsOver == /\ park = "reloading" /\ handles = {}
              /\ park' = "off"
              /\ UNCHANGED <<calling, cache, gate, parked, snapshot, handles, parks, history>>

-----------------------------------------------------------------------------
Works(c) == \/ Looks(c) \/ Peeks(c) \/ Returns(c) \/ PassesTheDoor(c) \/ Enters(c)
            \/ Wakes(c) \/ Built(c) \/ Assigns(c) \/ Locks(c) \/ Generates(c)
Rendering == \/ Declares \/ Drops \/ Lends \/ Unparks \/ Raises \/ ParkIsOver
             \/ \E k \in Contexts : Closes(k)
             \/ \E m \in Models : Reloads(m) \/ \E k \in Contexts : Rebuilt(m, k)

Next == \/ \E c \in Calls : \/ Asks(c) \/ IsAdmitted(c) \/ Works(c) \/ Cancels(c)
                            \/ PatienceEnds(c) \/ LoadFails(c)
        \/ Parks \/ Rendering

Spec == Init /\ [][Next]_vars

(* Downloads, loads, generations and renders end, a wait for the card has  *)
(* its deadline, and a free lock or place is taken.                        *)
Fairness == /\ \A c \in Calls : /\ WF_vars(Works(c)) /\ WF_vars(PatienceEnds(c))
                                 /\ WF_vars(IsAdmitted(c))
            /\ WF_vars(Rendering)

FairSpec == Spec /\ Fairness

-----------------------------------------------------------------------------
(* gguf.py: the card belongs to the camera for one render.  Between park() *)
(* and unpark() no context is loading or open, but for what a call built   *)
(* that had waited _PARK_WAIT_SECONDS in all.                              *)
LoanKeepsTheCardClear ==
    park = "lent" => \A k \in Contexts : state[k] \in {"loading", "open"} => k \in strays

(* However calls, parks and reloads meet, every context that holds weights *)
(* is the one its model has in the cache, where the next park finds it, or *)
(* is already being closed.                                                *)
NoWeightsAreLost ==
    \A k \in Contexts : state[k] = "open" => k \in snapshot \/ \E m \in Models : models[m] = k

(* A context is generated on by one call at a time, and not closed under   *)
(* it, but for a generation whose task was cancelled.                      *)
OneVoicePerContext ==
    \A c \in Calls : thread[c] = "generating" /\ task[c] = "active" =>
        /\ state[on[c]] = "open" /\ lock[on[c]] = c
        /\ \A d \in Calls \ {c} : thread[d] = "generating" /\ on[d] = on[c] => task[d] = "cut"

(* Every park, which waits for every generation, and every call that was   *)
(* asked for are over in the end and the gate is open, unless a cancelled  *)
(* call has left a lock held for good.                                     *)
EverythingEnds ==
    <>leaked \/ <>[](park = "off" /\ gate /\ ~parked /\ Active \cup Queued = {})

-----------------------------------------------------------------------------
(* test_gguf_park.py: between park() and unpark(), nothing this process    *)
(* does may put a llama context back.                                      *)
NothingComesBack == park = "lent" => \A k \in Contexts : state[k] \notin {"loading", "open"}

(* park(): each context's own lock waits out a generation already in flight*)
(* before its weights are freed.                                           *)
WeightsOutliveGenerations == \A c \in Calls : thread[c] = "generating" => state[on[c]] # "closed"

(* _acquire_current(): rides out a mid-park swap.                          *)
RidesOutThePark == ~torn

(* A lock that is taken is given back.                                     *)
LocksComeBack == ~leaked
=============================================================================
