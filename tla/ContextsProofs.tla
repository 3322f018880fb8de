--------------------------- MODULE ContextsProofs ---------------------------
(***************************************************************************)
(* The safety properties of Contexts, for every number of calls, providers,*)
(* models, contexts and parks.  What makes them inductive: one load at a   *)
(* time is under way, and nobody but its loader knows the context it makes;*)
(* the cache's place for it stays empty meanwhile; and what is loaded while*)
(* the park has the word was loaded by a call that had waited long enough. *)
(***************************************************************************)
EXTENDS Contexts, TLAPS

(* What a call has in hand, and that only a call under way has a thread.   *)
InHand ==
    \A c \in Calls :
        /\ task[c] \in {"idle", "queued", "over"} => thread[c] = "none"
        /\ IF thread[c] \in {"building", "assigning", "locking", "generating"}
           THEN on[c] \in Contexts ELSE on[c] = None

(* _models_cv: one load at a time, into an empty place of the cache.       *)
LoadsAlone ==
    \A c \in Calls : thread[c] = "building" =>
        /\ park # "rebuilding" /\ models[Model(c)] = None /\ state[on[c]] = "loading"
        /\ \A d \in Calls : thread[d] = "building" => d = c

(* A context that is being loaded has its loader, and nobody else knows it.*)
LoadIsPrivate ==
    \A k \in Contexts : state[k] = "loading" =>
        /\ \/ \E c \in Calls : thread[c] = "building" /\ on[c] = k
           \/ park = "rebuilding" /\ k \in snapshot
        /\ k \notin snapshot \/ park = "rebuilding"
        /\ \A c \in Calls : on[c] = k => thread[c] = "building"
        /\ \A p \in Providers : loaded[p] # k
        /\ \A m \in Models : models[m] # k

(* What the render has in hand, by where it is.                            *)
RenderInHand ==
    /\ park \notin {"dropping", "closing", "rebuilding"} => snapshot = {}
    /\ park = "rebuilding" =>
          \A k \in snapshot : state[k] = "loading" /\ \A j \in snapshot : j = k
    /\ parked <=> park \in {"dropping", "closing", "lent"}

OwnLock == \A c \in Calls : thread[c] = "generating" /\ task[c] = "active" =>
              state[on[c]] = "open" /\ lock[on[c]] = c

LateLoadsOnly ==
    parked => \A k \in Contexts :
                 state[k] = "loading" \/ (state[k] = "open" /\ k \notin snapshot) => k \in strays

IInv == /\ TypeOK /\ InHand /\ LoadsAlone /\ LoadIsPrivate /\ RenderInHand
        /\ OwnLock /\ NoWeightsAreLost /\ LateLoadsOnly

LEMMA Named == /\ \A c \in Calls : ProviderOf[c] \in Providers /\ Model(c) \in Models /\ c # None
               /\ \A k \in Contexts : k # None
               /\ MaxCuts \in Nat /\ MaxParks \in Nat /\ QueueLimit \in Nat
  BY ContextsAssumption, Zenon DEF Model

(* The two places where a context is made.                                 *)
BuildsOn(c, k) ==
    /\ thread' = [thread EXCEPT ![c] = "building"]
    /\ on' = [on EXCEPT ![c] = k]
    /\ state' = [state EXCEPT ![k] = "loading"]
    /\ strays' = IF parked /\ c \in late THEN strays \cup {k} ELSE strays \ {k}

LEMMA EntersFacts ==
    ASSUME NEW c \in Calls, Enters(c) \/ Wakes(c)
    PROVE  /\ thread[c] \in {"resolving", "waiting"} /\ Unlocked
           /\ UNCHANGED <<cuts, task, late, loaded, models, lock, lending, leaked, torn>>
           /\ \/ Finds(c)
              \/ thread' = [thread EXCEPT ![c] = "waiting"] /\ UNCHANGED <<on, state, strays>>
              \/ /\ models[Model(c)] = None /\ (~parked \/ c \in late)
                 /\ \E k \in Fresh : BuildsOn(c, k)
  <1>1. ASSUME Builds(c) PROVE \E k \in Fresh : BuildsOn(c, k)
    <2>1. NewContext \in Fresh
      BY <1>1, Zenon DEF Builds, NewContext
    <2>2. BuildsOn(c, NewContext)
      BY <1>1, Zenon DEF Builds, BuildsOn
    <2>. QED
      BY <2>1, <2>2, Zenon
  <1>2. thread[c] \in {"resolving", "waiting"} /\ Unlocked
    BY Zenon DEF Enters, Wakes
  <1>3. UNCHANGED <<cuts, task, late, loaded, models, lock, lending, leaked, torn>>
    BY Zenon DEF Enters, Wakes
  <1>. QED
    BY <1>1, <1>2, <1>3, Zenon DEF Enters, Wakes

LEMMA ReloadsFacts ==
    ASSUME NEW m \in Models, Reloads(m)
    PROVE  /\ park = "reloading" /\ m \in handles /\ Unlocked
           /\ UNCHANGED <<calling, loaded, models, lock, gate, parked, parks, leaked, torn>>
           /\ \/ handles' = handles \ {m} /\ UNCHANGED <<state, park, snapshot, strays>>
              \/ \E k \in Fresh :
                    /\ park' = "rebuilding" /\ snapshot' = {k}
                    /\ state' = [state EXCEPT ![k] = "loading"]
                    /\ strays' = strays \ {k}
                    /\ UNCHANGED handles
  <1>1. CASE Fresh # {}
    <2>1. NewContext \in Fresh
      BY <1>1, Zenon DEF NewContext
    <2>. QED
      BY <2>1, Zenon DEF Reloads
  <1>2. CASE Fresh = {}
    BY <1>2, Zenon DEF Reloads
  <1>. QED
    BY <1>1, <1>2

(* Types, and who has what in hand.                                        *)
LEMMA TypeStep ==
    ASSUME TypeOK, InHand, [Next]_vars
    PROVE  TypeOK' /\ InHand'
  <1>. USE Named
       DEF TypeOK, InHand, Threads, Loading, calling, cache, lending, history
  <1>1. ASSUME NEW c \in Calls, Asks(c)
        PROVE  TypeOK' /\ InHand'
    BY <1>1, SMT DEF Asks, Begins, Becomes, Active, Queued
  <1>2. ASSUME NEW c \in Calls, IsAdmitted(c)
        PROVE  TypeOK' /\ InHand'
    BY <1>2, SMT DEF IsAdmitted, Begins, Becomes, Active
  <1>3. ASSUME NEW c \in Calls, Looks(c)
        PROVE  TypeOK' /\ InHand'
    BY <1>3, SMT DEF Looks, Moves
  <1>4. ASSUME NEW c \in Calls, Peeks(c)
        PROVE  TypeOK' /\ InHand'
    <2>1. torn' \in BOOLEAN
      BY <1>4, Zenon DEF Peeks, TypeOK
    <2>2. CASE Ends(c)
      BY <1>4, <2>1, <2>2, SMT DEF Peeks, Ends, Becomes
    <2>3. CASE ~Ends(c)
      BY <1>4, <2>1, <2>3, SMT DEF Peeks, Moves
    <2>. QED
      BY <2>2, <2>3
  <1>5. ASSUME NEW c \in Calls, Returns(c)
        PROVE  TypeOK' /\ InHand'
    <2>1. torn' \in BOOLEAN
      BY <1>5, Zenon DEF Returns, TypeOK
    <2>2. CASE Ends(c)
      BY <1>5, <2>1, <2>2, SMT DEF Returns, Ends, Becomes
    <2>3. CASE ~Ends(c)
      BY <1>5, <2>1, <2>3, SMT DEF Returns, Moves
    <2>. QED
      BY <2>2, <2>3
  <1>6. ASSUME NEW c \in Calls, PassesTheDoor(c)
        PROVE  TypeOK' /\ InHand'
    BY <1>6, SMT DEF PassesTheDoor, Moves
  <1>7. ASSUME NEW c \in Calls, Enters(c) \/ Wakes(c)
        PROVE  TypeOK' /\ InHand'
    <2>1. /\ thread[c] \in {"resolving", "waiting"} /\ Unlocked
          /\ UNCHANGED <<cuts, task, late, loaded, models, lock, lending, leaked, torn>>
      BY <1>7, EntersFacts, Zenon
    <2>2. CASE Finds(c)
      BY <2>1, <2>2, SMT DEF Finds
    <2>3. CASE thread' = [thread EXCEPT ![c] = "waiting"] /\ UNCHANGED <<on, state, strays>>
      BY <2>1, <2>3, SMT
    <2>4. ASSUME models[Model(c)] = None, ~parked \/ c \in late,
                 NEW k \in Fresh, BuildsOn(c, k)
          PROVE  TypeOK' /\ InHand'
      BY <2>1, <2>4, SMTT(60) DEF BuildsOn, Fresh, Unlocked
    <2>. QED
      BY <1>7, <2>2, <2>3, <2>4, EntersFacts, Zenon
  <1>8. ASSUME NEW c \in Calls, Built(c)
        PROVE  TypeOK' /\ InHand'
    BY <1>8, SMT DEF Built
  <1>9. ASSUME NEW c \in Calls, Assigns(c)
        PROVE  TypeOK' /\ InHand'
    BY <1>9, SMT DEF Assigns, Moves
  <1>10. ASSUME NEW c \in Calls, Locks(c)
         PROVE  TypeOK' /\ InHand'
    <2>1. leaked' \in BOOLEAN
      BY <1>10, Zenon DEF Locks, TypeOK
    <2>2. CASE Ends(c)
      BY <1>10, <2>1, <2>2, SMT DEF Locks, Ends, Becomes
    <2>3. CASE ~Ends(c)
      BY <1>10, <2>1, <2>3, SMT DEF Locks
    <2>. QED
      BY <2>2, <2>3
  <1>11. ASSUME NEW c \in Calls, Generates(c)
         PROVE  TypeOK' /\ InHand'
    BY <1>11, SMT DEF Generates, Ends, Becomes
  <1>12. ASSUME NEW c \in Calls, Cancels(c)
         PROVE  TypeOK' /\ InHand'
    BY <1>12, SMT DEF Cancels, Ends, Becomes
  <1>13. ASSUME NEW c \in Calls, PatienceEnds(c)
         PROVE  TypeOK' /\ InHand'
    BY <1>13, SMT DEF PatienceEnds
  <1>14. ASSUME NEW c \in Calls, LoadFails(c)
         PROVE  TypeOK' /\ InHand'
    BY <1>14, SMT DEF LoadFails, Ends, Becomes
  <1>15. CASE Parks
    <2>1. gate' \in BOOLEAN
      BY <1>15, Zenon DEF Parks
    <2>. QED
      BY <1>15, <2>1, SMT DEF Parks
  <1>16. CASE Declares
    BY <1>16, SMT DEF Declares, Unlocked
  <1>17. CASE Drops
    BY <1>17, SMT DEF Drops
  <1>18. CASE Lends
    BY <1>18, SMT DEF Lends
  <1>19. CASE Unparks
    <2>1. parked' \in BOOLEAN
      BY <1>19, Zenon DEF Unparks
    <2>. QED
      BY <1>19, <2>1, SMT DEF Unparks
  <1>20. CASE Raises
    BY <1>20, SMT DEF Raises
  <1>21. CASE ParkIsOver
    BY <1>21, SMT DEF ParkIsOver
  <1>22. ASSUME NEW k \in Contexts, Closes(k)
         PROVE  TypeOK' /\ InHand'
    BY <1>22, SMT DEF Closes
  <1>23. ASSUME NEW m \in Models, Reloads(m)
         PROVE  TypeOK' /\ InHand'
    <2>1. CASE handles' = handles \ {m} /\ UNCHANGED <<state, park, snapshot, strays>>
      BY <1>23, <2>1, ReloadsFacts, SMT
    <2>2. ASSUME NEW k \in Fresh,
                 park' = "rebuilding", snapshot' = {k}, strays' = strays \ {k},
                 state' = [state EXCEPT ![k] = "loading"], UNCHANGED handles
          PROVE  TypeOK' /\ InHand'
      BY <1>23, <2>2, ReloadsFacts, SMTT(60) DEF Fresh, Unlocked
    <2>. QED
      BY <1>23, <2>1, <2>2, ReloadsFacts, Zenon
  <1>24. ASSUME NEW m \in Models, NEW k \in Contexts, Rebuilt(m, k)
         PROVE  TypeOK' /\ InHand'
    BY <1>24, SMT DEF Rebuilt
  <1>25. CASE UNCHANGED vars
    BY <1>25, SMT DEF vars
  <1>. QED
    BY <1>1, <1>2, <1>3, <1>4, <1>5, <1>6, <1>7, <1>8, <1>9, <1>10, <1>11, <1>12, <1>13,
       <1>14, <1>15, <1>16, <1>17, <1>18, <1>19, <1>20, <1>21, <1>22, <1>23, <1>24,
       <1>25, Zenon DEF Next, Works, Rendering

(* One load at a time, known to its loader only.                           *)
LEMMA LoadStep ==
    ASSUME TypeOK, InHand, LoadsAlone, LoadIsPrivate, RenderInHand, [Next]_vars
    PROVE  LoadsAlone' /\ LoadIsPrivate' /\ RenderInHand'
  <1>. USE Named
       DEF TypeOK, InHand, LoadsAlone, LoadIsPrivate, RenderInHand, calling, cache,
           lending, history
  <1>1. ASSUME NEW c \in Calls, Asks(c)
        PROVE  LoadsAlone' /\ LoadIsPrivate' /\ RenderInHand'
    BY <1>1, SMT DEF Asks, Begins, Becomes, Active, Queued
  <1>2. ASSUME NEW c \in Calls, IsAdmitted(c)
        PROVE  LoadsAlone' /\ LoadIsPrivate' /\ RenderInHand'
    BY <1>2, SMT DEF IsAdmitted, Begins, Becomes, Active
  <1>3. ASSUME NEW c \in Calls, Looks(c)
        PROVE  LoadsAlone' /\ LoadIsPrivate' /\ RenderInHand'
    BY <1>3, SMT DEF Looks, Moves
  <1>4. ASSUME NEW c \in Calls, Peeks(c)
        PROVE  LoadsAlone' /\ LoadIsPrivate' /\ RenderInHand'
    BY <1>4, SMT DEF Peeks, Moves, Ends, Becomes
  <1>5. ASSUME NEW c \in Calls, Returns(c)
        PROVE  LoadsAlone' /\ LoadIsPrivate' /\ RenderInHand'
    BY <1>5, SMT DEF Returns, Moves, Ends, Becomes
  <1>6. ASSUME NEW c \in Calls, PassesTheDoor(c)
        PROVE  LoadsAlone' /\ LoadIsPrivate' /\ RenderInHand'
    BY <1>6, SMT DEF PassesTheDoor, Moves
  <1>7. ASSUME NEW c \in Calls, Enters(c) \/ Wakes(c)
        PROVE  LoadsAlone' /\ LoadIsPrivate' /\ RenderInHand'
    <2>1. /\ thread[c] \in {"resolving", "waiting"} /\ Unlocked
          /\ UNCHANGED <<cuts, task, late, loaded, models, lock, lending, leaked, torn>>
      BY <1>7, EntersFacts, Zenon
    <2>2. CASE Finds(c)
      BY <2>1, <2>2, SMT DEF Finds
    <2>3. CASE thread' = [thread EXCEPT ![c] = "waiting"] /\ UNCHANGED <<on, state, strays>>
      BY <2>1, <2>3, SMT
    <2>4. ASSUME models[Model(c)] = None, ~parked \/ c \in late,
                 NEW k \in Fresh, BuildsOn(c, k)
          PROVE  LoadsAlone' /\ LoadIsPrivate' /\ RenderInHand'
      BY <2>1, <2>4, SMTT(60) DEF BuildsOn, Fresh, Unlocked
    <2>. QED
      BY <1>7, <2>2, <2>3, <2>4, EntersFacts, Zenon
  <1>8. ASSUME NEW c \in Calls, Built(c)
        PROVE  LoadsAlone' /\ LoadIsPrivate' /\ RenderInHand'
    BY <1>8, SMT DEF Built
  <1>9. ASSUME NEW c \in Calls, Assigns(c)
        PROVE  LoadsAlone' /\ LoadIsPrivate' /\ RenderInHand'
    BY <1>9, SMT DEF Assigns, Moves
  <1>10. ASSUME NEW c \in Calls, Locks(c)
         PROVE  LoadsAlone' /\ LoadIsPrivate' /\ RenderInHand'
    BY <1>10, SMT DEF Locks, Ends, Becomes
  <1>11. ASSUME NEW c \in Calls, Generates(c)
         PROVE  LoadsAlone' /\ LoadIsPrivate' /\ RenderInHand'
    BY <1>11, SMT DEF Generates, Ends, Becomes
  <1>12. ASSUME NEW c \in Calls, Cancels(c)
         PROVE  LoadsAlone' /\ LoadIsPrivate' /\ RenderInHand'
    BY <1>12, SMT DEF Cancels, Ends, Becomes
  <1>13. ASSUME NEW c \in Calls, PatienceEnds(c)
         PROVE  LoadsAlone' /\ LoadIsPrivate' /\ RenderInHand'
    BY <1>13, SMT DEF PatienceEnds
  <1>14. ASSUME NEW c \in Calls, LoadFails(c)
         PROVE  LoadsAlone' /\ LoadIsPrivate' /\ RenderInHand'
    BY <1>14, SMT DEF LoadFails, Ends, Becomes
  <1>15. CASE Parks
    BY <1>15, SMT DEF Parks
  <1>16. CASE Declares
    BY <1>16, SMT DEF Declares, Unlocked
  <1>17. CASE Drops
    BY <1>17, SMT DEF Drops
  <1>18. CASE Lends
    BY <1>18, SMT DEF Lends
  <1>19. CASE Unparks
    BY <1>19, SMT DEF Unparks, Unlocked
  <1>20. CASE Raises
    BY <1>20, SMT DEF Raises
  <1>21. CASE ParkIsOver
    BY <1>21, SMT DEF ParkIsOver
  <1>22. ASSUME NEW k \in Contexts, Closes(k)
         PROVE  LoadsAlone' /\ LoadIsPrivate' /\ RenderInHand'
    BY <1>22, SMT DEF Closes
  <1>23. ASSUME NEW m \in Models, Reloads(m)
         PROVE  LoadsAlone' /\ LoadIsPrivate' /\ RenderInHand'
    <2>1. CASE handles' = handles \ {m} /\ UNCHANGED <<state, park, snapshot, strays>>
      BY <1>23, <2>1, ReloadsFacts, SMT
    <2>2. ASSUME NEW k \in Fresh,
                 park' = "rebuilding", snapshot' = {k}, strays' = strays \ {k},
                 state' = [state EXCEPT ![k] = "loading"], UNCHANGED handles
          PROVE  LoadsAlone' /\ LoadIsPrivate' /\ RenderInHand'
      BY <1>23, <2>2, ReloadsFacts, SMTT(60) DEF Fresh, Unlocked
    <2>. QED
      BY <1>23, <2>1, <2>2, ReloadsFacts, Zenon
  <1>24. ASSUME NEW m \in Models, NEW k \in Contexts, Rebuilt(m, k)
         PROVE  LoadsAlone' /\ LoadIsPrivate' /\ RenderInHand'
    BY <1>24, SMT DEF Rebuilt
  <1>25. CASE UNCHANGED vars
    BY <1>25, SMT DEF vars
  <1>. QED
    BY <1>1, <1>2, <1>3, <1>4, <1>5, <1>6, <1>7, <1>8, <1>9, <1>10, <1>11, <1>12, <1>13,
       <1>14, <1>15, <1>16, <1>17, <1>18, <1>19, <1>20, <1>21, <1>22, <1>23, <1>24,
       <1>25, Zenon DEF Next, Works, Rendering

(* A generation has the lock of a context that nobody closes under it.     *)
LEMMA LockStep ==
    ASSUME TypeOK, InHand, LoadsAlone, LoadIsPrivate, RenderInHand, OwnLock, [Next]_vars
    PROVE  OwnLock'
  <1>. USE Named
       DEF TypeOK, InHand, LoadsAlone, LoadIsPrivate, RenderInHand, OwnLock, calling,
           cache, lending, history
  <1>1. ASSUME NEW c \in Calls, Asks(c)
        PROVE  OwnLock'
    BY <1>1, SMT DEF Asks, Begins, Becomes, Active, Queued
  <1>2. ASSUME NEW c \in Calls, IsAdmitted(c)
        PROVE  OwnLock'
    BY <1>2, SMT DEF IsAdmitted, Begins, Becomes, Active
  <1>3. ASSUME NEW c \in Calls, Looks(c)
        PROVE  OwnLock'
    BY <1>3, SMT DEF Looks, Moves
  <1>4. ASSUME NEW c \in Calls, Peeks(c)
        PROVE  OwnLock'
    BY <1>4, SMT DEF Peeks, Moves, Ends, Becomes
  <1>5. ASSUME NEW c \in Calls, Returns(c)
        PROVE  OwnLock'
    BY <1>5, SMT DEF Returns, Moves, Ends, Becomes
  <1>6. ASSUME NEW c \in Calls, PassesTheDoor(c)
        PROVE  OwnLock'
    BY <1>6, SMT DEF PassesTheDoor, Moves
  <1>7. ASSUME NEW c \in Calls, Enters(c) \/ Wakes(c)
        PROVE  OwnLock'
    <2>1. /\ thread[c] \in {"resolving", "waiting"} /\ Unlocked
          /\ UNCHANGED <<cuts, task, late, loaded, models, lock, lending, leaked, torn>>
      BY <1>7, EntersFacts, Zenon
    <2>2. CASE Finds(c)
      BY <2>1, <2>2, SMT DEF Finds
    <2>3. CASE thread' = [thread EXCEPT ![c] = "waiting"] /\ UNCHANGED <<on, state, strays>>
      BY <2>1, <2>3, SMT
    <2>4. ASSUME models[Model(c)] = None, ~parked \/ c \in late,
                 NEW k \in Fresh, BuildsOn(c, k)
          PROVE  OwnLock'
      BY <2>1, <2>4, SMTT(60) DEF BuildsOn, Fresh, Unlocked
    <2>. QED
      BY <1>7, <2>2, <2>3, <2>4, EntersFacts, Zenon
  <1>8. ASSUME NEW c \in Calls, Built(c)
        PROVE  OwnLock'
    BY <1>8, SMT DEF Built
  <1>9. ASSUME NEW c \in Calls, Assigns(c)
        PROVE  OwnLock'
    BY <1>9, SMT DEF Assigns, Moves
  <1>10. ASSUME NEW c \in Calls, Locks(c)
         PROVE  OwnLock'
    BY <1>10, SMT DEF Locks, Ends, Becomes
  <1>11. ASSUME NEW c \in Calls, Generates(c)
         PROVE  OwnLock'
    BY <1>11, SMT DEF Generates, Ends, Becomes
  <1>12. ASSUME NEW c \in Calls, Cancels(c)
         PROVE  OwnLock'
    BY <1>12, SMT DEF Cancels, Ends, Becomes
  <1>13. ASSUME NEW c \in Calls, PatienceEnds(c)
         PROVE  OwnLock'
    BY <1>13, SMT DEF PatienceEnds
  <1>14. ASSUME NEW c \in Calls, LoadFails(c)
         PROVE  OwnLock'
    <2>1. \A d \in Calls \ {c} : thread'[d] = thread[d] /\ task'[d] = task[d] /\ on'[d] = on[d]
      BY <1>14, SMT DEF LoadFails, Ends, Becomes
    <2>2. thread'[c] = "none" /\ lock' = lock
      BY <1>14, SMT DEF LoadFails, Ends, Becomes
    <2>3. \A k \in Contexts : k # on[c] => state'[k] = state[k]
      BY <1>14, SMT DEF LoadFails
    <2>4. on[c] = None \/ state[on[c]] = "loading"
      BY <1>14, SMT DEF LoadFails
    <2>. QED
      BY <2>1, <2>2, <2>3, <2>4, SMT
  <1>15. CASE Parks
    BY <1>15, SMT DEF Parks
  <1>16. CASE Declares
    BY <1>16, SMT DEF Declares, Unlocked
  <1>17. CASE Drops
    BY <1>17, SMT DEF Drops
  <1>18. CASE Lends
    BY <1>18, SMT DEF Lends
  <1>19. CASE Unparks
    BY <1>19, SMT DEF Unparks, Unlocked
  <1>20. CASE Raises
    BY <1>20, SMT DEF Raises
  <1>21. CASE ParkIsOver
    BY <1>21, SMT DEF ParkIsOver
  <1>22. ASSUME NEW k \in Contexts, Closes(k)
         PROVE  OwnLock'
    BY <1>22, SMT DEF Closes
  <1>23. ASSUME NEW m \in Models, Reloads(m)
         PROVE  OwnLock'
    <2>1. CASE handles' = handles \ {m} /\ UNCHANGED <<state, park, snapshot, strays>>
      BY <1>23, <2>1, ReloadsFacts, SMT
    <2>2. ASSUME NEW k \in Fresh,
                 park' = "rebuilding", snapshot' = {k}, strays' = strays \ {k},
                 state' = [state EXCEPT ![k] = "loading"], UNCHANGED handles
          PROVE  OwnLock'
      BY <1>23, <2>2, ReloadsFacts, SMTT(60) DEF Fresh, Unlocked
    <2>. QED
      BY <1>23, <2>1, <2>2, ReloadsFacts, Zenon
  <1>24. ASSUME NEW m \in Models, NEW k \in Contexts, Rebuilt(m, k)
         PROVE  OwnLock'
    BY <1>24, SMT DEF Rebuilt
  <1>25. CASE UNCHANGED vars
    BY <1>25, SMT DEF vars
  <1>. QED
    BY <1>1, <1>2, <1>3, <1>4, <1>5, <1>6, <1>7, <1>8, <1>9, <1>10, <1>11, <1>12, <1>13,
       <1>14, <1>15, <1>16, <1>17, <1>18, <1>19, <1>20, <1>21, <1>22, <1>23, <1>24,
       <1>25, Zenon DEF Next, Works, Rendering

(* Weights are in the cache or in the hands of the park.                   *)
LEMMA WeightStep ==
    ASSUME TypeOK, InHand, LoadsAlone, LoadIsPrivate, RenderInHand, NoWeightsAreLost,
           LateLoadsOnly, [Next]_vars
    PROVE  NoWeightsAreLost' /\ LateLoadsOnly'
  <1>. USE Named
       DEF TypeOK, InHand, LoadsAlone, LoadIsPrivate, RenderInHand, NoWeightsAreLost,
           LateLoadsOnly, calling, cache, lending, history
  <1>1. ASSUME NEW c \in Calls, Asks(c)
        PROVE  NoWeightsAreLost' /\ LateLoadsOnly'
    BY <1>1, SMT DEF Asks, Begins, Becomes, Active, Queued
  <1>2. ASSUME NEW c \in Calls, IsAdmitted(c)
        PROVE  NoWeightsAreLost' /\ LateLoadsOnly'
    BY <1>2, SMT DEF IsAdmitted, Begins, Becomes, Active
  <1>3. ASSUME NEW c \in Calls, Looks(c)
        PROVE  NoWeightsAreLost' /\ LateLoadsOnly'
    BY <1>3, SMT DEF Looks, Moves
  <1>4. ASSUME NEW c \in Calls, Peeks(c)
        PROVE  NoWeightsAreLost' /\ LateLoadsOnly'
    BY <1>4, SMT DEF Peeks, Moves, Ends, Becomes
  <1>5. ASSUME NEW c \in Calls, Returns(c)
        PROVE  NoWeightsAreLost' /\ LateLoadsOnly'
    BY <1>5, SMT DEF Returns, Moves, Ends, Becomes
  <1>6. ASSUME NEW c \in Calls, PassesTheDoor(c)
        PROVE  NoWeightsAreLost' /\ LateLoadsOnly'
    BY <1>6, SMT DEF PassesTheDoor, Moves
  <1>7. ASSUME NEW c \in Calls, Enters(c) \/ Wakes(c)
        PROVE  NoWeightsAreLost' /\ LateLoadsOnly'
    <2>1. /\ thread[c] \in {"resolving", "waiting"} /\ Unlocked
          /\ UNCHANGED <<cuts, task, late, loaded, models, lock, lending, leaked, torn>>
      BY <1>7, EntersFacts, Zenon
    <2>2. CASE Finds(c)
      BY <2>1, <2>2, SMT DEF Finds
    <2>3. CASE thread' = [thread EXCEPT ![c] = "waiting"] /\ UNCHANGED <<on, state, strays>>
      BY <2>1, <2>3, SMT
    <2>4. ASSUME models[Model(c)] = None, ~parked \/ c \in late,
                 NEW k \in Fresh, BuildsOn(c, k)
          PROVE  NoWeightsAreLost' /\ LateLoadsOnly'
      BY <2>1, <2>4, SMTT(60) DEF BuildsOn, Fresh, Unlocked
    <2>. QED
      BY <1>7, <2>2, <2>3, <2>4, EntersFacts, Zenon
  <1>8. ASSUME NEW c \in Calls, Built(c)
        PROVE  NoWeightsAreLost' /\ LateLoadsOnly'
    BY <1>8, SMT DEF Built
  <1>9. ASSUME NEW c \in Calls, Assigns(c)
        PROVE  NoWeightsAreLost' /\ LateLoadsOnly'
    BY <1>9, SMT DEF Assigns, Moves
  <1>10. ASSUME NEW c \in Calls, Locks(c)
         PROVE  NoWeightsAreLost' /\ LateLoadsOnly'
    BY <1>10, SMT DEF Locks, Ends, Becomes
  <1>11. ASSUME NEW c \in Calls, Generates(c)
         PROVE  NoWeightsAreLost' /\ LateLoadsOnly'
    BY <1>11, SMT DEF Generates, Ends, Becomes
  <1>12. ASSUME NEW c \in Calls, Cancels(c)
         PROVE  NoWeightsAreLost' /\ LateLoadsOnly'
    BY <1>12, SMT DEF Cancels, Ends, Becomes
  <1>13. ASSUME NEW c \in Calls, PatienceEnds(c)
         PROVE  NoWeightsAreLost' /\ LateLoadsOnly'
    BY <1>13, SMT DEF PatienceEnds
  <1>14. ASSUME NEW c \in Calls, LoadFails(c)
         PROVE  NoWeightsAreLost' /\ LateLoadsOnly'
    BY <1>14, SMT DEF LoadFails, Ends, Becomes
  <1>15. CASE Parks
    BY <1>15, SMT DEF Parks
  <1>16. CASE Declares
    BY <1>16, SMT DEF Declares, Unlocked
  <1>17. CASE Drops
    BY <1>17, SMT DEF Drops
  <1>18. CASE Lends
    BY <1>18, SMT DEF Lends
  <1>19. CASE Unparks
    BY <1>19, SMT DEF Unparks, Unlocked
  <1>20. CASE Raises
    BY <1>20, SMT DEF Raises
  <1>21. CASE ParkIsOver
    BY <1>21, SMT DEF ParkIsOver
  <1>22. ASSUME NEW k \in Contexts, Closes(k)
         PROVE  NoWeightsAreLost' /\ LateLoadsOnly'
    BY <1>22, SMT DEF Closes
  <1>23. ASSUME NEW m \in Models, Reloads(m)
         PROVE  NoWeightsAreLost' /\ LateLoadsOnly'
    <2>1. CASE handles' = handles \ {m} /\ UNCHANGED <<state, park, snapshot, strays>>
      BY <1>23, <2>1, ReloadsFacts, SMT
    <2>2. ASSUME NEW k \in Fresh,
                 park' = "rebuilding", snapshot' = {k}, strays' = strays \ {k},
                 state' = [state EXCEPT ![k] = "loading"], UNCHANGED handles
          PROVE  NoWeightsAreLost' /\ LateLoadsOnly'
      BY <1>23, <2>2, ReloadsFacts, SMTT(60) DEF Fresh, Unlocked
    <2>. QED
      BY <1>23, <2>1, <2>2, ReloadsFacts, Zenon
  <1>24. ASSUME NEW m \in Models, NEW k \in Contexts, Rebuilt(m, k)
         PROVE  NoWeightsAreLost' /\ LateLoadsOnly'
    BY <1>24, SMT DEF Rebuilt
  <1>25. CASE UNCHANGED vars
    BY <1>25, SMT DEF vars
  <1>. QED
    BY <1>1, <1>2, <1>3, <1>4, <1>5, <1>6, <1>7, <1>8, <1>9, <1>10, <1>11, <1>12, <1>13,
       <1>14, <1>15, <1>16, <1>17, <1>18, <1>19, <1>20, <1>21, <1>22, <1>23, <1>24,
       <1>25, Zenon DEF Next, Works, Rendering

LEMMA InitHolds == Init => IInv
  <1>. SUFFICES ASSUME Init PROVE IInv
    OBVIOUS
  <1>1. /\ gate \in BOOLEAN /\ parked \in BOOLEAN
        /\ leaked \in BOOLEAN /\ torn \in BOOLEAN
    BY Zenon DEF Init
  <1>2. TypeOK /\ InHand
    BY <1>1, Named, SMT DEF Init, TypeOK, InHand, Threads, Loading
  <1>3. LoadsAlone /\ LoadIsPrivate /\ RenderInHand
    BY SMT DEF Init, LoadsAlone, LoadIsPrivate, RenderInHand
  <1>4. OwnLock /\ NoWeightsAreLost /\ LateLoadsOnly
    BY SMT DEF Init, OwnLock, NoWeightsAreLost, LateLoadsOnly
  <1>. QED
    BY <1>2, <1>3, <1>4 DEF IInv

LEMMA NextKeepsIInv == IInv /\ [Next]_vars => IInv'
  BY TypeStep, LoadStep, LockStep, WeightStep, Zenon DEF IInv

THEOREM Invariance == Spec => []IInv
  BY InitHolds, NextKeepsIInv, PTL DEF Spec

(* Every variable has its type.                                            *)
THEOREM TypeCorrect == Spec => []TypeOK
  <1>1. IInv => TypeOK
    BY DEF IInv
  <1>. QED
    BY <1>1, Invariance, PTL

(* gguf.py: the card belongs to the camera for one render, but for what a  *)
(* call built that had waited _PARK_WAIT_SECONDS.                          *)
THEOREM CardIsClear == Spec => []LoanKeepsTheCardClear
  <1>1. ASSUME IInv PROVE LoanKeepsTheCardClear
    <2>. SUFFICES ASSUME park = "lent", NEW k \in Contexts, state[k] \in {"loading", "open"}
                  PROVE  k \in strays
      BY DEF LoanKeepsTheCardClear
    <2>1. parked /\ snapshot = {}
      BY <1>1, SMT DEF IInv, RenderInHand
    <2>. QED
      BY <1>1, <2>1, SMT DEF IInv, LateLoadsOnly
  <1>. QED
    BY <1>1, Invariance, PTL

(* No weights on the card that no park would find: a load takes the place  *)
(* in the cache it found empty (get_model, park, unpark).                  *)
THEOREM WeightsAreKnown == Spec => []NoWeightsAreLost
  <1>1. IInv => NoWeightsAreLost
    BY DEF IInv
  <1>. QED
    BY <1>1, Invariance, PTL

(* context.lock: one call at a time generates on a context, and a park     *)
(* does not close it under the call (_acquire_current, park).              *)
THEOREM VoicesAreAlone == Spec => []OneVoicePerContext
  <1>1. ASSUME IInv PROVE OneVoicePerContext
    <2>. SUFFICES ASSUME NEW c \in Calls, thread[c] = "generating", task[c] = "active"
                  PROVE  /\ state[on[c]] = "open" /\ lock[on[c]] = c
                         /\ \A d \in Calls \ {c} :
                               thread[d] = "generating" /\ on[d] = on[c] => task[d] = "cut"
      BY DEF OneVoicePerContext
    <2>1. state[on[c]] = "open" /\ lock[on[c]] = c
      BY <1>1, Zenon DEF IInv, OwnLock
    <2>2. ASSUME NEW d \in Calls \ {c}, thread[d] = "generating", on[d] = on[c]
          PROVE  task[d] = "cut"
      <3>1. task[d] # "active"
        BY <1>1, <2>1, <2>2, Zenon DEF IInv, OwnLock
      <3>2. task[d] \notin {"idle", "queued", "over"}
        BY <1>1, <2>2, SMT DEF IInv, InHand
      <3>. QED
        BY <1>1, <2>2, <3>1, <3>2, SMT DEF IInv, TypeOK
    <2>. QED
      BY <2>1, <2>2
  <1>. QED
    BY <1>1, Invariance, PTL

=============================================================================
