---------------------------- MODULE HouseDaemonProofs ----------------------------
(***************************************************************************)
(* Who runs, and where: the safety properties of Daemon, for every number  *)
(* of starts, stops and inodes, and of House, for every set of ids and     *)
(* every number of requests and faults.                                    *)
(*                                                                         *)
(* The daemon: past acquire() a supervisor has the lock of the file it has *)
(* open, that file is the one the path names, and its pid is in it; a      *)
(* server that is alive has its supervisor watching.                       *)
(*                                                                         *)
(* The house: a request that builds or stops a runtime holds the lock of   *)
(* the host, one that moves a tree has held lifecycle_lock since before it *)
(* stopped her, and what a request still has to do is a plan that fits what*)
(* it asked (WellAsked).                                                   *)
(***************************************************************************)
EXTENDS Daemon, House, FiniteSetTheorems, SequenceTheorems, TLAPS

(* Who has a file open: a supervisor from open() to the close of release() *)
(* or of a lost race, a probe from its open() to its close().              *)
FileInHand ==
    /\ \A s \in Supervisors :
          IF at[s] \in {"opening", "gone"} THEN fd[s] = NoOne ELSE fd[s] \in Files
    /\ \A x \in Stops :
          IF at[x] \in {"testing", "untesting", "reading"} THEN fd[x] \in Files ELSE fd[x] = NoOne

FoundIsNamed == \A x \in Stops : at[x] = "found" => aim[x] \in Supervisors

LockIsHeld ==
    \A s \in Supervisors : at[s] \in {"checking", "closing"} \/ Running(s) => owner[fd[s]] = s

NamesItself == \A s \in Supervisors : Running(s) => unlinked \/ path = fd[s]

SignedIt == \A s \in Supervisors : at[s] \in {"arming"} \cup Watching => text[fd[s]] = s

ServerIsWatched ==
    \A s \in Supervisors : Alive(s) => s \in broken \/ at[s] \in {"adopting", "watching"}

DaemonInv == /\ DaemonTypeOK /\ FileInHand /\ FoundIsNamed
              /\ LockIsHeld /\ NamesItself /\ SignedIt /\ ServerIsWatched

(* Where a supervisor is bounds where it is not.                           *)
LEMMA Apart ==
    /\ \A p \in Processes : p # NoOne
    /\ \A f \in Files : f # NoOne
    /\ \A s \in Supervisors : s \in Processes /\ s \notin Stops
    /\ \A x \in Stops : x \in Processes
    /\ \A p \in Processes : p \in Supervisors \/ p \in Stops
  BY DaemonAssumption, Zenon DEF Processes

(* What a supervisor that hears SIGTERM becomes.                           *)
LEMMA HandledIsTyped ==
    ASSUME DaemonTypeOK, NEW s \in Supervisors, Handles(s)
    PROVE  /\ stopping' \in [Supervisors -> BOOLEAN]
           /\ child' \in [Supervisors -> {"none", "up", "asked", "died", "restart"}]
           /\ UNCHANGED <<fd, owner, fast>>
  <1>1. stopping' \in [Supervisors -> BOOLEAN]
    BY Zenon DEF DaemonTypeOK, Handles
  <1>2. UNCHANGED <<fd, owner, fast>>
    BY Zenon DEF Handles
  <1>3. child' \in [Supervisors -> {"none", "up", "asked", "died", "restart"}]
    <2>1. child' = [child EXCEPT ![s] = IF at[s] = "watching" /\ child[s] = "up" THEN "asked"
                                                                             ELSE child[s]]
      BY Zenon DEF Handles
    <2>. QED
      BY <2>1, SMT DEF DaemonTypeOK
  <1>. QED
    BY <1>1, <1>2, <1>3

(* Types, open files and locks: no step touches the lock of another.       *)
LEMMA FileStep == ASSUME DaemonTypeOK, FileInHand, FoundIsNamed, LockIsHeld, [DaemonNext]_daemonVars
                  PROVE  DaemonTypeOK' /\ FileInHand' /\ FoundIsNamed' /\ LockIsHeld'
  <1>. USE Apart, DaemonAssumption
       DEF DaemonTypeOK, FileInHand, FoundIsNamed, LockIsHeld, Running, StartPlaces, StopPlaces, Acquiring, Signing,
             Watching,
             files, watch, asking, history
  <1>1. ASSUME NEW s \in Supervisors, Opens(s)
        PROVE  DaemonTypeOK' /\ FileInHand' /\ FoundIsNamed' /\ LockIsHeld'
    <2>1. CASE path = NoOne
      <3>. DEFINE f == CHOOSE g \in Unused : TRUE
      <3>1. /\ Unused # {} /\ Creates(s, f) /\ Passes(s, "opening", "locking")
            /\ UNCHANGED <<owner, watch, asking, history>>
        BY <1>1, <2>1, Zenon DEF Opens
      <3>2. f \in Files
        BY <3>1, Zenon DEF Unused
      <3>. HIDE DEF f
      <3>. QED
        BY <3>1, <3>2, SMT DEF Creates, Passes
    <2>2. CASE path # NoOne
      BY <1>1, <2>2, SMTT(30) DEF Opens, Passes, Creates, Unused
    <2>. QED
      BY <2>1, <2>2, Zenon
  <1>2. ASSUME NEW s \in Supervisors, Locks(s)
        PROVE  DaemonTypeOK' /\ FileInHand' /\ FoundIsNamed' /\ LockIsHeld'
    BY <1>2, SMT DEF Locks, Passes
  <1>3. ASSUME NEW s \in Supervisors, Refused(s)
        PROVE  DaemonTypeOK' /\ FileInHand' /\ FoundIsNamed' /\ LockIsHeld'
    BY <1>3, SMT DEF Refused, Passes, Closes
  <1>4. ASSUME NEW s \in Supervisors, Acquires(s)
        PROVE  DaemonTypeOK' /\ FileInHand' /\ FoundIsNamed' /\ LockIsHeld'
    BY <1>4, SMT DEF Acquires, Passes
  <1>5. ASSUME NEW s \in Supervisors, TriesAgain(s)
        PROVE  DaemonTypeOK' /\ FileInHand' /\ FoundIsNamed' /\ LockIsHeld'
    BY <1>5, SMT DEF TriesAgain, Passes, Closes
  <1>6. ASSUME NEW s \in Supervisors, Empties(s)
        PROVE  DaemonTypeOK' /\ FileInHand' /\ FoundIsNamed' /\ LockIsHeld'
    BY <1>6, SMT DEF Empties, Passes
  <1>7. ASSUME NEW s \in Supervisors, Signs(s)
        PROVE  DaemonTypeOK' /\ FileInHand' /\ FoundIsNamed' /\ LockIsHeld'
    BY <1>7, SMT DEF Signs, Passes
  <1>8. ASSUME NEW s \in Supervisors, Arms(s)
        PROVE  DaemonTypeOK' /\ FileInHand' /\ FoundIsNamed' /\ LockIsHeld'
    BY <1>8, SMT DEF Arms, Passes
  <1>9. ASSUME NEW s \in Supervisors, Spawns(s)
        PROVE  DaemonTypeOK' /\ FileInHand' /\ FoundIsNamed' /\ LockIsHeld'
    BY <1>9, SMT DEF Spawns, Passes
  <1>10. ASSUME NEW s \in Supervisors, Adopts(s)
         PROVE  DaemonTypeOK' /\ FileInHand' /\ FoundIsNamed' /\ LockIsHeld'
    BY <1>10, SMT DEF Adopts, Passes
  <1>11. ASSUME NEW s \in Supervisors, KillsServer(s)
         PROVE  DaemonTypeOK' /\ FileInHand' /\ FoundIsNamed' /\ LockIsHeld'
    BY <1>11, SMT DEF KillsServer, Alive
  <1>12. ASSUME NEW s \in Supervisors, Reaps(s)
         PROVE  DaemonTypeOK' /\ FileInHand' /\ FoundIsNamed' /\ LockIsHeld'
    BY <1>12, SMT DEF Reaps, Passes, Alive
  <1>13. ASSUME NEW s \in Supervisors, StopsHere(s)
         PROVE  DaemonTypeOK' /\ FileInHand' /\ FoundIsNamed' /\ LockIsHeld'
    BY <1>13, SMT DEF StopsHere, Passes, Forgotten
  <1>14. ASSUME NEW s \in Supervisors, StartsAgain(s)
         PROVE  DaemonTypeOK' /\ FileInHand' /\ FoundIsNamed' /\ LockIsHeld'
    BY <1>14, SMT DEF StartsAgain, Passes, Forgotten
  <1>15. ASSUME NEW s \in Supervisors, Pauses(s)
         PROVE  DaemonTypeOK' /\ FileInHand' /\ FoundIsNamed' /\ LockIsHeld'
    BY <1>15, SMT DEF Pauses, Passes, Forgotten
  <1>16. ASSUME NEW s \in Supervisors, GivesUp(s)
         PROVE  DaemonTypeOK' /\ FileInHand' /\ FoundIsNamed' /\ LockIsHeld'
    BY <1>16, SMT DEF GivesUp, Passes, Forgotten
  <1>17. ASSUME NEW s \in Supervisors, PauseEnds(s)
         PROVE  DaemonTypeOK' /\ FileInHand' /\ FoundIsNamed' /\ LockIsHeld'
    BY <1>17, SMT DEF PauseEnds, Passes
  <1>18. ASSUME NEW s \in Supervisors, Unlinks(s)
         PROVE  DaemonTypeOK' /\ FileInHand' /\ FoundIsNamed' /\ LockIsHeld'
    BY <1>18, SMT DEF Unlinks, Passes
  <1>19. ASSUME NEW s \in Supervisors, LocksOff(s)
         PROVE  DaemonTypeOK' /\ FileInHand' /\ FoundIsNamed' /\ LockIsHeld'
    BY <1>19, SMT DEF LocksOff, Passes, Dies, Closes
  <1>20. ASSUME NEW s \in Supervisors, SpawnFails(s)
         PROVE  DaemonTypeOK' /\ FileInHand' /\ FoundIsNamed' /\ LockIsHeld'
    BY <1>20, SMT DEF SpawnFails, Passes
  <1>21. ASSUME NEW s \in Supervisors, ServerEnds(s)
         PROVE  DaemonTypeOK' /\ FileInHand' /\ FoundIsNamed' /\ LockIsHeld'
    BY <1>21, SMT DEF ServerEnds, Alive
  <1>22. ASSUME NEW s \in Supervisors, StartTimesOut(s)
         PROVE  DaemonTypeOK' /\ FileInHand' /\ FoundIsNamed' /\ LockIsHeld'
    <2>1. CASE Ends(s)
      BY <1>22, <2>1, SMTT(30) DEF StartTimesOut, Closes, Ends, Handles
    <2>2. CASE ~Ends(s)
      BY <1>22, <2>2, HandledIsTyped, SMT DEF StartTimesOut
    <2>. QED
      BY <2>1, <2>2, Zenon
  <1>23. ASSUME NEW s \in Supervisors, IsKilled(s)
         PROVE  DaemonTypeOK' /\ FileInHand' /\ FoundIsNamed' /\ LockIsHeld'
    BY <1>23, SMT DEF IsKilled, Dies, Closes
  <1>24. ASSUME NEW x \in Stops, LooksUp(x)
         PROVE  DaemonTypeOK' /\ FileInHand' /\ FoundIsNamed' /\ LockIsHeld'
    BY <1>24, SMT DEF LooksUp, Passes
  <1>25. ASSUME NEW x \in Stops, ProbeOpens(x)
         PROVE  DaemonTypeOK' /\ FileInHand' /\ FoundIsNamed' /\ LockIsHeld'
    BY <1>25, SMT DEF ProbeOpens, Passes
  <1>26. ASSUME NEW x \in Stops, ProbeTests(x)
         PROVE  DaemonTypeOK' /\ FileInHand' /\ FoundIsNamed' /\ LockIsHeld'
    BY <1>26, SMT DEF ProbeTests, Passes
  <1>27. ASSUME NEW x \in Stops, ProbeUnlocks(x)
         PROVE  DaemonTypeOK' /\ FileInHand' /\ FoundIsNamed' /\ LockIsHeld'
    BY <1>27, SMT DEF ProbeUnlocks, Passes, Closes
  <1>28. ASSUME NEW x \in Stops, ProbeReads(x)
         PROVE  DaemonTypeOK' /\ FileInHand' /\ FoundIsNamed' /\ LockIsHeld'
    BY <1>28, SMT DEF ProbeReads, Passes, Closes
  <1>29. ASSUME NEW x \in Stops, FindsUnlocked(x)
         PROVE  DaemonTypeOK' /\ FileInHand' /\ FoundIsNamed' /\ LockIsHeld'
    BY <1>29, SMT DEF FindsUnlocked, Passes, NamesALiveOne
  <1>30. ASSUME NEW x \in Stops, FindsNobody(x)
         PROVE  DaemonTypeOK' /\ FileInHand' /\ FoundIsNamed' /\ LockIsHeld'
    BY <1>30, SMT DEF FindsNobody, Passes, NamesALiveOne
  <1>31. ASSUME NEW x \in Stops, SaysStopped(x)
         PROVE  DaemonTypeOK' /\ FileInHand' /\ FoundIsNamed' /\ LockIsHeld'
    BY <1>31, SMT DEF SaysStopped, Passes, Forgets, NamesALiveOne
  <1>32. ASSUME NEW x \in Stops, RemovesStale(x)
         PROVE  DaemonTypeOK' /\ FileInHand' /\ FoundIsNamed' /\ LockIsHeld'
    BY <1>32, SMT DEF RemovesStale, Passes, Forgets
  <1>33. ASSUME NEW x \in Stops, Signals(x)
         PROVE  DaemonTypeOK' /\ FileInHand' /\ FoundIsNamed' /\ LockIsHeld'
    <2>. aim[x] \in Supervisors
      BY <1>33, Zenon DEF Signals
    <2>1. CASE Ends(aim[x])
      BY <1>33, <2>1, SMTT(30) DEF Signals, Closes, Ends, Handles
    <2>2. CASE ~Ends(aim[x])
      BY <1>33, <2>2, HandledIsTyped, SMTT(30) DEF Signals
    <2>. QED
      BY <2>1, <2>2, Zenon
  <1>34. ASSUME NEW x \in Stops, CannotSignal(x)
         PROVE  DaemonTypeOK' /\ FileInHand' /\ FoundIsNamed' /\ LockIsHeld'
    BY <1>34, SMT DEF CannotSignal, Passes, Forgets
  <1>35. ASSUME NEW x \in Stops, LooksAgain(x)
         PROVE  DaemonTypeOK' /\ FileInHand' /\ FoundIsNamed' /\ LockIsHeld'
    <2>1. CASE Passes(x, "found", "probing") /\ UNCHANGED legacy
      BY <1>35, <2>1, SMT DEF LooksAgain, Passes, Forgets
    <2>2. CASE Passes(x, "found", "idle") /\ Forgets(x)
      BY <1>35, <2>2, SMT DEF LooksAgain, Passes, Forgets
    <2>. QED
      BY <1>35, <2>1, <2>2, Zenon DEF LooksAgain
  <1>36. CASE UNCHANGED daemonVars
    BY <1>36, SMT DEF daemonVars
  <1>. QED
    BY <1>1, <1>2, <1>3, <1>4, <1>5, <1>6, <1>7, <1>8, <1>9, <1>10, <1>11, <1>12,
       <1>13, <1>14, <1>15, <1>16, <1>17, <1>18, <1>19, <1>20, <1>21, <1>22, <1>23,
       <1>24, <1>25, <1>26, <1>27, <1>28, <1>29, <1>30, <1>31, <1>32, <1>33, <1>34,
       <1>35, <1>36, Zenon DEF DaemonNext, Acquire, Run, Release, Stop

(* The path and the pid: only the holder of a lock writes its file.        *)
LEMMA NameStep == ASSUME DaemonTypeOK, FileInHand, FoundIsNamed, LockIsHeld, NamesItself, SignedIt, [DaemonNext]_daemonVars
                  PROVE  NamesItself' /\ SignedIt'
  <1>. USE Apart, DaemonAssumption
       DEF DaemonTypeOK, FileInHand, FoundIsNamed, LockIsHeld, NamesItself, SignedIt,
             Running, StartPlaces, StopPlaces, Acquiring, Signing,
             Watching, files, watch, asking, history
  <1>1. ASSUME NEW s \in Supervisors, Opens(s)
        PROVE  NamesItself' /\ SignedIt'
    BY <1>1, SMT DEF Opens, Passes, Creates, Unused
  <1>2. ASSUME NEW s \in Supervisors, Locks(s)
        PROVE  NamesItself' /\ SignedIt'
    BY <1>2, SMT DEF Locks, Passes
  <1>3. ASSUME NEW s \in Supervisors, Refused(s)
        PROVE  NamesItself' /\ SignedIt'
    BY <1>3, SMT DEF Refused, Passes, Closes
  <1>4. ASSUME NEW s \in Supervisors, Acquires(s)
        PROVE  NamesItself' /\ SignedIt'
    BY <1>4, SMT DEF Acquires, Passes
  <1>5. ASSUME NEW s \in Supervisors, TriesAgain(s)
        PROVE  NamesItself' /\ SignedIt'
    BY <1>5, SMT DEF TriesAgain, Passes, Closes
  <1>6. ASSUME NEW s \in Supervisors, Empties(s)
        PROVE  NamesItself' /\ SignedIt'
    BY <1>6, SMT DEF Empties, Passes
  <1>7. ASSUME NEW s \in Supervisors, Signs(s)
        PROVE  NamesItself' /\ SignedIt'
    BY <1>7, SMT DEF Signs, Passes
  <1>8. ASSUME NEW s \in Supervisors, Arms(s)
        PROVE  NamesItself' /\ SignedIt'
    BY <1>8, SMT DEF Arms, Passes
  <1>9. ASSUME NEW s \in Supervisors, Spawns(s)
        PROVE  NamesItself' /\ SignedIt'
    BY <1>9, SMT DEF Spawns, Passes
  <1>10. ASSUME NEW s \in Supervisors, Adopts(s)
         PROVE  NamesItself' /\ SignedIt'
    BY <1>10, SMT DEF Adopts, Passes
  <1>11. ASSUME NEW s \in Supervisors, KillsServer(s)
         PROVE  NamesItself' /\ SignedIt'
    BY <1>11, SMT DEF KillsServer, Alive
  <1>12. ASSUME NEW s \in Supervisors, Reaps(s)
         PROVE  NamesItself' /\ SignedIt'
    BY <1>12, SMT DEF Reaps, Passes, Alive
  <1>13. ASSUME NEW s \in Supervisors, StopsHere(s)
         PROVE  NamesItself' /\ SignedIt'
    BY <1>13, SMT DEF StopsHere, Passes, Forgotten
  <1>14. ASSUME NEW s \in Supervisors, StartsAgain(s)
         PROVE  NamesItself' /\ SignedIt'
    BY <1>14, SMT DEF StartsAgain, Passes, Forgotten
  <1>15. ASSUME NEW s \in Supervisors, Pauses(s)
         PROVE  NamesItself' /\ SignedIt'
    BY <1>15, SMT DEF Pauses, Passes, Forgotten
  <1>16. ASSUME NEW s \in Supervisors, GivesUp(s)
         PROVE  NamesItself' /\ SignedIt'
    BY <1>16, SMT DEF GivesUp, Passes, Forgotten
  <1>17. ASSUME NEW s \in Supervisors, PauseEnds(s)
         PROVE  NamesItself' /\ SignedIt'
    BY <1>17, SMT DEF PauseEnds, Passes
  <1>18. ASSUME NEW s \in Supervisors, Unlinks(s)
         PROVE  NamesItself' /\ SignedIt'
    BY <1>18, SMT DEF Unlinks, Passes
  <1>19. ASSUME NEW s \in Supervisors, LocksOff(s)
         PROVE  NamesItself' /\ SignedIt'
    BY <1>19, SMT DEF LocksOff, Passes, Dies, Closes
  <1>20. ASSUME NEW s \in Supervisors, SpawnFails(s)
         PROVE  NamesItself' /\ SignedIt'
    BY <1>20, SMT DEF SpawnFails, Passes
  <1>21. ASSUME NEW s \in Supervisors, ServerEnds(s)
         PROVE  NamesItself' /\ SignedIt'
    BY <1>21, SMT DEF ServerEnds, Alive
  <1>22. ASSUME NEW s \in Supervisors, StartTimesOut(s)
         PROVE  NamesItself' /\ SignedIt'
    BY <1>22, SMT DEF StartTimesOut, Closes, Ends, Handles
  <1>23. ASSUME NEW s \in Supervisors, IsKilled(s)
         PROVE  NamesItself' /\ SignedIt'
    BY <1>23, SMT DEF IsKilled, Dies, Closes
  <1>24. ASSUME NEW x \in Stops, LooksUp(x)
         PROVE  NamesItself' /\ SignedIt'
    BY <1>24, SMT DEF LooksUp, Passes
  <1>25. ASSUME NEW x \in Stops, ProbeOpens(x)
         PROVE  NamesItself' /\ SignedIt'
    BY <1>25, SMT DEF ProbeOpens, Passes
  <1>26. ASSUME NEW x \in Stops, ProbeTests(x)
         PROVE  NamesItself' /\ SignedIt'
    BY <1>26, SMT DEF ProbeTests, Passes
  <1>27. ASSUME NEW x \in Stops, ProbeUnlocks(x)
         PROVE  NamesItself' /\ SignedIt'
    BY <1>27, SMT DEF ProbeUnlocks, Passes, Closes
  <1>28. ASSUME NEW x \in Stops, ProbeReads(x)
         PROVE  NamesItself' /\ SignedIt'
    BY <1>28, SMT DEF ProbeReads, Passes, Closes
  <1>29. ASSUME NEW x \in Stops, FindsUnlocked(x)
         PROVE  NamesItself' /\ SignedIt'
    BY <1>29, SMT DEF FindsUnlocked, Passes, NamesALiveOne
  <1>30. ASSUME NEW x \in Stops, FindsNobody(x)
         PROVE  NamesItself' /\ SignedIt'
    BY <1>30, SMT DEF FindsNobody, Passes, NamesALiveOne
  <1>31. ASSUME NEW x \in Stops, SaysStopped(x)
         PROVE  NamesItself' /\ SignedIt'
    BY <1>31, SMT DEF SaysStopped, Passes, Forgets, NamesALiveOne
  <1>32. ASSUME NEW x \in Stops, RemovesStale(x)
         PROVE  NamesItself' /\ SignedIt'
    <2>1. SignedIt'
      BY <1>32, SMT DEF RemovesStale, Passes
    <2>2. \A s \in Supervisors : at'[s] = at[s] /\ fd'[s] = fd[s]
      BY <1>32, SMT DEF RemovesStale, Passes
    <2>3. \A s \in Supervisors : Running(s) => unlinked'
      BY <1>32, Zenon DEF RemovesStale
    <2>. QED
      BY <2>1, <2>2, <2>3, Zenon
  <1>33. ASSUME NEW x \in Stops, Signals(x)
         PROVE  NamesItself' /\ SignedIt'
    BY <1>33, SMT DEF Signals, Closes, Ends, Handles
  <1>34. ASSUME NEW x \in Stops, CannotSignal(x)
         PROVE  NamesItself' /\ SignedIt'
    BY <1>34, SMT DEF CannotSignal, Passes, Forgets
  <1>35. ASSUME NEW x \in Stops, LooksAgain(x)
         PROVE  NamesItself' /\ SignedIt'
    BY <1>35, SMT DEF LooksAgain, Passes, Forgets
  <1>36. CASE UNCHANGED daemonVars
    BY <1>36, SMT DEF daemonVars
  <1>. QED
    BY <1>1, <1>2, <1>3, <1>4, <1>5, <1>6, <1>7, <1>8, <1>9, <1>10, <1>11, <1>12,
       <1>13, <1>14, <1>15, <1>16, <1>17, <1>18, <1>19, <1>20, <1>21, <1>22, <1>23,
       <1>24, <1>25, <1>26, <1>27, <1>28, <1>29, <1>30, <1>31, <1>32, <1>33, <1>34,
       <1>35, <1>36, Zenon DEF DaemonNext, Acquire, Run, Release, Stop

(* A server outlives the wait of its supervisor only if that was killed.   *)
LEMMA ServerStep == ASSUME DaemonTypeOK, FileInHand, FoundIsNamed, ServerIsWatched, [DaemonNext]_daemonVars
                    PROVE  ServerIsWatched'
  <1>. USE Apart, DaemonAssumption
       DEF DaemonTypeOK, FoundIsNamed, ServerIsWatched, Alive, StartPlaces, StopPlaces, Acquiring, Signing,
             Watching, files, watch, asking, history
  <1>1. ASSUME NEW s \in Supervisors, Opens(s)
        PROVE  ServerIsWatched'
    BY <1>1, SMT DEF Opens, Passes, Creates, Unused
  <1>2. ASSUME NEW s \in Supervisors, Locks(s)
        PROVE  ServerIsWatched'
    BY <1>2, SMT DEF Locks, Passes
  <1>3. ASSUME NEW s \in Supervisors, Refused(s)
        PROVE  ServerIsWatched'
    BY <1>3, SMT DEF Refused, Passes, Closes
  <1>4. ASSUME NEW s \in Supervisors, Acquires(s)
        PROVE  ServerIsWatched'
    BY <1>4, SMT DEF Acquires, Passes
  <1>5. ASSUME NEW s \in Supervisors, TriesAgain(s)
        PROVE  ServerIsWatched'
    BY <1>5, SMT DEF TriesAgain, Passes, Closes
  <1>6. ASSUME NEW s \in Supervisors, Empties(s)
        PROVE  ServerIsWatched'
    BY <1>6, SMT DEF Empties, Passes
  <1>7. ASSUME NEW s \in Supervisors, Signs(s)
        PROVE  ServerIsWatched'
    BY <1>7, SMT DEF Signs, Passes
  <1>8. ASSUME NEW s \in Supervisors, Arms(s)
        PROVE  ServerIsWatched'
    BY <1>8, SMT DEF Arms, Passes
  <1>9. ASSUME NEW s \in Supervisors, Spawns(s)
        PROVE  ServerIsWatched'
    BY <1>9, SMT DEF Spawns, Passes
  <1>10. ASSUME NEW s \in Supervisors, Adopts(s)
         PROVE  ServerIsWatched'
    BY <1>10, SMT DEF Adopts, Passes
  <1>11. ASSUME NEW s \in Supervisors, KillsServer(s)
         PROVE  ServerIsWatched'
    BY <1>11, SMT DEF KillsServer, Alive
  <1>12. ASSUME NEW s \in Supervisors, Reaps(s)
         PROVE  ServerIsWatched'
    BY <1>12, SMT DEF Reaps, Passes, Alive
  <1>13. ASSUME NEW s \in Supervisors, StopsHere(s)
         PROVE  ServerIsWatched'
    BY <1>13, SMT DEF StopsHere, Passes, Forgotten
  <1>14. ASSUME NEW s \in Supervisors, StartsAgain(s)
         PROVE  ServerIsWatched'
    BY <1>14, SMT DEF StartsAgain, Passes, Forgotten
  <1>15. ASSUME NEW s \in Supervisors, Pauses(s)
         PROVE  ServerIsWatched'
    BY <1>15, SMT DEF Pauses, Passes, Forgotten
  <1>16. ASSUME NEW s \in Supervisors, GivesUp(s)
         PROVE  ServerIsWatched'
    BY <1>16, SMT DEF GivesUp, Passes, Forgotten
  <1>17. ASSUME NEW s \in Supervisors, PauseEnds(s)
         PROVE  ServerIsWatched'
    BY <1>17, SMT DEF PauseEnds, Passes
  <1>18. ASSUME NEW s \in Supervisors, Unlinks(s)
         PROVE  ServerIsWatched'
    BY <1>18, SMT DEF Unlinks, Passes
  <1>19. ASSUME NEW s \in Supervisors, LocksOff(s)
         PROVE  ServerIsWatched'
    BY <1>19, SMT DEF LocksOff, Passes, Dies, Closes
  <1>20. ASSUME NEW s \in Supervisors, SpawnFails(s)
         PROVE  ServerIsWatched'
    BY <1>20, SMT DEF SpawnFails, Passes
  <1>21. ASSUME NEW s \in Supervisors, ServerEnds(s)
         PROVE  ServerIsWatched'
    BY <1>21, SMT DEF ServerEnds, Alive
  <1>22. ASSUME NEW s \in Supervisors, StartTimesOut(s)
         PROVE  ServerIsWatched'
    BY <1>22, SMT DEF StartTimesOut, Closes, Ends, Handles
  <1>23. ASSUME NEW s \in Supervisors, IsKilled(s)
         PROVE  ServerIsWatched'
    BY <1>23, SMT DEF IsKilled, Dies, Closes
  <1>24. ASSUME NEW x \in Stops, LooksUp(x)
         PROVE  ServerIsWatched'
    BY <1>24, SMT DEF LooksUp, Passes
  <1>25. ASSUME NEW x \in Stops, ProbeOpens(x)
         PROVE  ServerIsWatched'
    BY <1>25, SMT DEF ProbeOpens, Passes
  <1>26. ASSUME NEW x \in Stops, ProbeTests(x)
         PROVE  ServerIsWatched'
    BY <1>26, SMT DEF ProbeTests, Passes
  <1>27. ASSUME NEW x \in Stops, ProbeUnlocks(x)
         PROVE  ServerIsWatched'
    BY <1>27, SMT DEF ProbeUnlocks, Passes, Closes
  <1>28. ASSUME NEW x \in Stops, ProbeReads(x)
         PROVE  ServerIsWatched'
    BY <1>28, SMT DEF ProbeReads, Passes, Closes
  <1>29. ASSUME NEW x \in Stops, FindsUnlocked(x)
         PROVE  ServerIsWatched'
    BY <1>29, SMT DEF FindsUnlocked, Passes, NamesALiveOne
  <1>30. ASSUME NEW x \in Stops, FindsNobody(x)
         PROVE  ServerIsWatched'
    BY <1>30, SMT DEF FindsNobody, Passes, NamesALiveOne
  <1>31. ASSUME NEW x \in Stops, SaysStopped(x)
         PROVE  ServerIsWatched'
    BY <1>31, SMT DEF SaysStopped, Passes, Forgets, NamesALiveOne
  <1>32. ASSUME NEW x \in Stops, RemovesStale(x)
         PROVE  ServerIsWatched'
    BY <1>32, SMT DEF RemovesStale, Passes, Forgets
  <1>33. ASSUME NEW x \in Stops, Signals(x)
         PROVE  ServerIsWatched'
    BY <1>33, SMT DEF Signals, Closes, Ends, Handles
  <1>34. ASSUME NEW x \in Stops, CannotSignal(x)
         PROVE  ServerIsWatched'
    BY <1>34, SMT DEF CannotSignal, Passes, Forgets
  <1>35. ASSUME NEW x \in Stops, LooksAgain(x)
         PROVE  ServerIsWatched'
    BY <1>35, SMT DEF LooksAgain, Passes, Forgets
  <1>36. CASE UNCHANGED daemonVars
    BY <1>36, SMT DEF daemonVars
  <1>. QED
    BY <1>1, <1>2, <1>3, <1>4, <1>5, <1>6, <1>7, <1>8, <1>9, <1>10, <1>11, <1>12,
       <1>13, <1>14, <1>15, <1>16, <1>17, <1>18, <1>19, <1>20, <1>21, <1>22, <1>23,
       <1>24, <1>25, <1>26, <1>27, <1>28, <1>29, <1>30, <1>31, <1>32, <1>33, <1>34,
       <1>35, <1>36, Zenon DEF DaemonNext, Acquire, Run, Release, Stop

LEMMA DaemonInitHolds == DaemonInit => DaemonInv
  <1>. SUFFICES ASSUME DaemonInit PROVE DaemonInv
    OBVIOUS
  <1>1. /\ unlinked \in BOOLEAN
        /\ stopping \in [Supervisors -> BOOLEAN]
        /\ legacy \in [Stops -> BOOLEAN]
    BY Zenon DEF DaemonInit
  <1>2. DaemonTypeOK
    BY <1>1, Apart, DaemonAssumption, SMT
       DEF DaemonInit, DaemonTypeOK, StartPlaces, StopPlaces, Acquiring, Signing, Watching
  <1>3. FileInHand /\ FoundIsNamed /\ LockIsHeld
    BY Apart, DaemonAssumption, SMT
       DEF DaemonInit, FileInHand, FoundIsNamed, LockIsHeld, Running, Signing, Watching
  <1>4. NamesItself /\ SignedIt /\ ServerIsWatched
    BY Apart, DaemonAssumption, SMT
       DEF DaemonInit, NamesItself, SignedIt, ServerIsWatched, Alive, Running, Signing, Watching
  <1>. QED
    BY <1>2, <1>3, <1>4 DEF DaemonInv

LEMMA NextKeepsDaemonInv == DaemonInv /\ [DaemonNext]_daemonVars => DaemonInv'
  BY FileStep, NameStep, ServerStep, Zenon DEF DaemonInv

THEOREM DaemonInvHolds == DaemonSpec => []DaemonInv
  BY DaemonInitHolds, NextKeepsDaemonInv, PTL DEF DaemonSpec

(* Every variable has its type, and a lock is held by a process that has   *)
(* the file open.                                                          *)
THEOREM DaemonTypeCorrect == DaemonSpec => []DaemonTypeOK
  <1>1. DaemonInv => DaemonTypeOK
    BY DEF DaemonInv
  <1>. QED
    BY <1>1, DaemonInvHolds, PTL

(* SPEC 10.6: starts that race end with one daemon, however many start and *)
(* stop, unless the file was removed under a daemon (daemon.py, cli.py).   *)
THEOREM RacesEndWithOne == DaemonSpec => []OneDaemon
  <1>1. ASSUME DaemonInv PROVE OneDaemon
    <2>. SUFFICES ASSUME NEW s \in Supervisors, NEW t \in Supervisors,
                         Running(s), Running(t), ~unlinked
                  PROVE  s = t
      BY DEF OneDaemon
    <2>1. fd[s] = path /\ fd[t] = path
      BY <1>1, Zenon DEF DaemonInv, NamesItself
    <2>2. owner[fd[s]] = s /\ owner[fd[t]] = t
      BY <1>1, Zenon DEF DaemonInv, LockIsHeld
    <2>. QED
      BY <2>1, <2>2, Zenon
  <1>. QED
    BY <1>1, DaemonInvHolds, PTL

(* "Stopped YuriOS" is true (cli.py): no live server is left behind the    *)
(* daemon it signalled, as a supervisor whose server lives still has its   *)
(* own pid in the file the path names, which the last probe would find.    *)
THEOREM SaidIsSo == DaemonSpec => StoppedMeansStopped
  <1>1. ASSUME DaemonInv, [DaemonNext]_daemonVars
        PROVE  [\A x \in Stops : SaysStopped(x) =>
                   ~Alive(sent[x]) \/ sent[x] \in broken \/ unlinked]_daemonVars
    <2>. SUFFICES ASSUME NEW x \in Stops, SaysStopped(x), Alive(sent[x]),
                         sent[x] \notin broken, ~unlinked
                  PROVE  FALSE
      BY Zenon
    <2>1. sent[x] \in Supervisors /\ ~NamesALiveOne
      BY <1>1, SMT DEF DaemonInv, DaemonTypeOK, SaysStopped
    <2>2. at[sent[x]] \in {"adopting", "watching"}
      BY <1>1, <2>1, Zenon DEF DaemonInv, ServerIsWatched
    <2>3. at[sent[x]] \in Watching /\ at[sent[x]] \notin {"opening", "gone"}
      BY <2>2, SMT DEF Watching
    <2>4. path = fd[sent[x]]
      BY <1>1, <2>1, <2>3, Zenon DEF DaemonInv, NamesItself, Running
    <2>5. text[path] = sent[x]
      BY <1>1, <2>1, <2>3, <2>4, Zenon DEF DaemonInv, SignedIt
    <2>6. path \in Files
      BY <1>1, <2>1, <2>3, <2>4, Zenon DEF DaemonInv, FileInHand
    <2>. QED
      BY <2>1, <2>3, <2>5, <2>6, Apart, Zenon DEF NamesALiveOne
  <1>. QED
    BY <1>1, DaemonInvHolds, PTL DEF DaemonSpec, StoppedMeansStopped

-----------------------------------------------------------------------------
(* Kinds of steps: those that may stand behind another, and those of an   *)
(* edit (save_settings, controls, loop, studio).                          *)
StepSet == [do : Steps, who : Characters]
Later == {"start", "copy"}
Desk == {"save", "retune", "reload"}
DeskOps == {"settings", "controls", "loop", "studio"}

(* A plan that fits what was asked: behind its first step stand only      *)
(* starts and a copy, a copy is a clone's, and whoever is under way has   *)
(* read a row.                                                            *)
WellAsked(q) ==
    /\ DOMAIN q = DOMAIN NotAsked
    /\ q.op \in Ops \cup {"none"} /\ q.edit \in Edits /\ q.rec \in Rows
    /\ q.to \in Characters
    /\ q.todo \in Seq(StepSet)
    /\ \A i \in 2 .. Len(q.todo) : q.todo[i].do \in Later
    /\ \A i \in 1 .. Len(q.todo) : q.todo[i].do \in {"copy", "copying"} => q.op = "clone"
    /\ q.todo # <<>> => q.rec # NoRow
    /\ q.todo # <<>> /\ Head(q.todo).do \in Desk => q.op \in DeskOps

AllWellAsked == DOMAIN req = Requests /\ \A r \in Requests : WellAsked(req[r])

(* A runtime is built or stopped under the lock of the host, and is not   *)
(* served meanwhile (CharacterHost.start, stop).                          *)
UnderWay(r) == At(r, "building") \/ At(r, "stopping")

HostHeld == \A r \in Requests : UnderWay(r) => hostLock = r /\ Who(r) \notin up

(* Clones, archives and purges hold lifecycle_lock from their first step  *)
(* on.                                                                    *)
LifeHeld == \A r \in Requests :
    ~Idle(r) /\ req[r].op \in {"clone", "archive", "purge"} => At(r, "life") \/ lifeLock = r

(* A start began with a row, and no row goes while it builds.             *)
BuildHasRow == \A r \in Requests : At(r, "building") => row[Who(r)] # NoRow

(* The requests that may move a tree away.                                *)
Leaves(r) == req[r].op \in {"archive", "purge"} /\ (At(r, "stop") \/ At(r, "stopping"))

(* Every archive has a row to be restored from.                           *)
KeptRows == \A k \in kept : k.row # NoRow

(* The routes that name nobody are answered by one who is up, or by one   *)
(* who is being stopped.                                                  *)
Answers == up # {} => \/ primary \in up
                      \/ \E s \in Requests : At(s, "stopping") /\ primary = Who(s)

(* What a step is.                                                        *)
LEMMA DoIs == ASSUME NEW s \in Steps, NEW c \in Characters
              PROVE  Do(s, c) \in StepSet /\ Do(s, c).do = s /\ Do(s, c).who = c
  BY SMT DEF Do, StepSet

(* Rows, and the life in them.                                            *)
LEMMA RowIs == ASSUME NEW life \in Lives, NEW h \in BOOLEAN
               PROVE  /\ [life |-> life, hands |-> h] \in Rows
                      /\ [life |-> life, hands |-> h] # NoRow
  <1>1. [life |-> life, hands |-> h] \in Rows
    BY Zenon DEF Rows
  <1>2. life # "none"
    BY SMT DEF Lives
  <1>3. [life |-> life, hands |-> h].life # NoRow.life
    BY <1>2, SMT DEF NoRow
  <1>. QED
    BY <1>1, <1>3, Zenon

LEMMA RowParts == ASSUME NEW w \in Rows, w # NoRow
                PROVE  /\ w.life \in Lives /\ w.hands \in BOOLEAN
                       /\ [w EXCEPT !.life = "on"] \in Rows
                       /\ [w EXCEPT !.life = "on"] # NoRow
  <1>1. w \in [life : Lives, hands : BOOLEAN]
    BY Zenon DEF Rows
  <1>2. PICK l \in Lives, h \in BOOLEAN : w = [life |-> l, hands |-> h]
    BY <1>1, Zenon
  <1>3. [w EXCEPT !.life = "on"] = [life |-> "on", hands |-> h]
    BY <1>2, SMT
  <1>4. w.life = l /\ w.hands = h /\ "on" \in Lives
    BY <1>2, SMT DEF Lives
  <1>. QED
    BY <1>2, <1>3, <1>4, RowIs, Zenon

LEMMA LivingIsARow == ASSUME NEW w \in Rows, w.life \in Lives PROVE w # NoRow
  BY SMT DEF NoRow, Lives

LEMMA NoRowIs == NoRow \in Rows
  BY Zenon DEF Rows

(* A tree without its archive.json has a row.                             *)
LEMMA BareIs == Bare \in Rows /\ Bare # NoRow
  <1>1. "off" \in Lives /\ TRUE \in BOOLEAN
    BY SMT DEF Lives
  <1>. QED
    BY <1>1, RowIs, Zenon DEF Bare

(* A sequence is its head and its tail.                                   *)
LEMMA HeadAndTail == ASSUME NEW S, NEW t \in Seq(S), t # <<>>
                PROVE  /\ Tail(t) \in Seq(S) /\ Len(Tail(t)) = Len(t) - 1
                       /\ Len(t) \in Nat \ {0}
                       /\ Head(t) \in S /\ Head(t) = t[1]
                       /\ \A i \in 1 .. Len(t) - 1 : Tail(t)[i] = t[i + 1]
  BY SMT

(* Steps put in place of the first of a plan.                             *)
LEMMA InPlaceOfTheHead ==
    ASSUME NEW S, NEW t \in Seq(S), t # <<>>, NEW steps \in Seq(S)
    PROVE  LET u == steps \o Tail(t)
           IN /\ u \in Seq(S)
              /\ Len(u) = Len(steps) + Len(t) - 1
              /\ \A i \in 1 .. Len(steps) : u[i] = steps[i]
              /\ \A i \in Len(steps) + 1 .. Len(u) : u[i] = t[i + 1 - Len(steps)]
  BY HeadAndTail, SMT

(* Plans of one step and of none, put together.                           *)
LEMMA Joined == ASSUME NEW x, NEW y
                PROVE  /\ <<>> \o <<>> = <<>> /\ <<>> \o <<x>> = <<x>> /\ <<x>> \o <<>> = <<x>>
                       /\ <<x>> \o <<y>> = <<x, y>>
  <1>1. \A a, b : <<a>> \o <<b>> = <<a, b>>
    <2>. SUFFICES ASSUME NEW a, NEW b PROVE <<a>> \o <<b>> = <<a, b>>
      OBVIOUS
    <2>. DEFINE S == {a, b}
                s == <<a>>
                t == <<b>>
    <2>1. s \in Seq(S) /\ t \in Seq(S) /\ <<a, b>> \in Seq(S) /\ s \o t \in Seq(S)
      BY SMT
    <2>2. Len(s \o t) = 2 /\ (s \o t)[1] = a /\ (s \o t)[2] = b
      BY SMT
    <2>. DEFINE u == s \o t
                v == <<a, b>>
    <2>3. Len(v) = 2 /\ v[1] = a /\ v[2] = b
      BY SMT
    <2>. HIDE DEF S, s, t, u, v
    <2>4. Len(u) = Len(v) /\ \A i \in 1 .. Len(u) : u[i] = v[i]
      BY <2>2, <2>3, SMT DEF u
    <2>5. u \in Seq(S) /\ v \in Seq(S)
      BY <2>1 DEF u, v
    <2>6. u = v
      BY <2>4, <2>5, SeqEqual
    <2>. QED
      BY <2>6 DEF u, v, s, t
  <1>2. \A a : <<>> \o <<a>> = <<a>> /\ <<a>> \o <<>> = <<a>>
    <2>. SUFFICES ASSUME NEW a PROVE <<>> \o <<a>> = <<a>> /\ <<a>> \o <<>> = <<a>>
      OBVIOUS
    <2>1. <<a>> \in Seq({a}) /\ <<>> \in Seq({a})
      BY SMT
    <2>. QED
      BY <2>1, SMT
  <1>. QED
    BY <1>1, <1>2, SMT

(* Steps that may be put in place of the first step of a request that     *)
(* asked op.                                                              *)
GoodSteps(steps, op) ==
    /\ steps \in Seq(StepSet)
    /\ \A i \in 2 .. Len(steps) : steps[i].do \in Later
    /\ \A i \in 1 .. Len(steps) : steps[i].do \in {"copy", "copying"} => op = "clone"

(* The plans the routes make.                                             *)
LEMMA GoodPlans ==
    ASSUME NEW c \in Characters, NEW op
    PROVE  /\ GoodSteps(<<>>, op)
           /\ \A s \in Steps \ {"copy", "copying"} : GoodSteps(<<Do(s, c)>>, op)
           /\ \A s \in Steps \ {"copy", "copying"}, d \in Characters :
                 GoodSteps(<<Do(s, c), Do("start", d)>>, op)
           /\ GoodSteps(<<Do("copy", c)>>, "clone")
           /\ GoodSteps(<<Do("copying", c)>>, "clone")
           /\ GoodSteps(<<Do("stop", c), Do("copy", c)>>, "clone")
  <1>1. Later \subseteq Steps /\ "start" \in Later /\ "copy" \in Later
    BY SMT DEF Later, Steps
  <1>2. \A s \in Steps, d \in Characters : Do(s, d) \in StepSet /\ Do(s, d).do = s
    BY DoIs
  <1>3. GoodSteps(<<>>, op)
    BY SMT DEF GoodSteps
  <1>4. ASSUME NEW s \in Steps, s \in {"copy", "copying"} => op = "clone"
        PROVE  GoodSteps(<<Do(s, c)>>, op)
    BY <1>2, <1>4, SMT DEF GoodSteps
  <1>5. ASSUME NEW s \in Steps, NEW d \in Characters, NEW l \in Later, NEW o,
               s \in {"copy", "copying"} => o = "clone", l = "copy" => o = "clone"
        PROVE  GoodSteps(<<Do(s, c), Do(l, d)>>, o)
    <2>1. /\ Do(s, c) \in StepSet /\ Do(s, c).do = s
          /\ Do(l, d) \in StepSet /\ Do(l, d).do = l
      BY <1>1, <1>2, Zenon
    <2>2. l # "copying"
      BY SMT DEF Later
    <2>. HIDE DEF Do
    <2>. DEFINE ss == <<Do(s, c), Do(l, d)>>
    <2>3. ss \in Seq(StepSet) /\ Len(ss) = 2 /\ ss[1] = Do(s, c) /\ ss[2] = Do(l, d)
      BY <2>1, SMT
    <2>. HIDE DEF ss
    <2>4. \A i \in 2 .. Len(ss) : ss[i].do \in Later
      BY <2>1, <2>3, SMT
    <2>5. \A i \in 1 .. Len(ss) : ss[i].do \in {"copy", "copying"} => o = "clone"
      BY <1>5, <2>1, <2>2, <2>3, SMT
    <2>6. GoodSteps(ss, o)
      BY <2>3, <2>4, <2>5 DEF GoodSteps
    <2>. QED
      BY <2>6 DEF ss
  <1>6. ASSUME NEW s \in Steps, s \in {"copy", "copying"} PROVE GoodSteps(<<Do(s, c)>>, "clone")
    BY <1>2, <1>6, SMT DEF GoodSteps
  <1>7. "copy" \in Steps /\ "copying" \in Steps /\ "stop" \in Steps
    BY SMT DEF Steps
  <1>8. \A s \in Steps \ {"copy", "copying"} : GoodSteps(<<Do(s, c)>>, op)
    BY <1>4, Zenon
  <1>9. \A s \in Steps \ {"copy", "copying"}, d \in Characters :
           GoodSteps(<<Do(s, c), Do("start", d)>>, op)
    <2>. SUFFICES ASSUME NEW s \in Steps \ {"copy", "copying"}, NEW d \in Characters
                  PROVE  GoodSteps(<<Do(s, c), Do("start", d)>>, op)
      OBVIOUS
    <2>1. s \in Steps /\ s \notin {"copy", "copying"} /\ "start" # "copy"
      OBVIOUS
    <2>. QED
      BY <1>1, <1>5, <2>1, Zenon
  <1>10. GoodSteps(<<Do("stop", c), Do("copy", c)>>, "clone")
    BY <1>1, <1>5, <1>7, Zenon
  <1>. QED
    BY <1>3, <1>6, <1>7, <1>8, <1>9, <1>10

(* A plan that fits goes on to a plan that fits.                          *)
LEMMA RestIsWell ==
    ASSUME NEW q, WellAsked(q), q.todo # <<>>, NEW steps, GoodSteps(steps, q.op), NEW u,
           DOMAIN u = DOMAIN NotAsked, u.op = q.op, u.edit = q.edit, u.rec \in Rows,
           u.to \in Characters, u.todo = steps \o Tail(q.todo), u.rec # NoRow,
           steps # <<>> /\ steps[1].do \in Desk => q.op \in DeskOps
    PROVE  /\ WellAsked(u)
           /\ steps # <<>> => u.todo # <<>> /\ Head(u.todo) = steps[1]
           /\ steps = <<>> /\ u.todo # <<>> => Head(u.todo).do \in Later
  <1>1. /\ q.todo \in Seq(StepSet) /\ steps \in Seq(StepSet)
        /\ \A i \in 2 .. Len(q.todo) : q.todo[i].do \in Later
        /\ \A i \in 1 .. Len(q.todo) : q.todo[i].do \in {"copy", "copying"} => q.op = "clone"
        /\ \A i \in 2 .. Len(steps) : steps[i].do \in Later
        /\ \A i \in 1 .. Len(steps) : steps[i].do \in {"copy", "copying"} => q.op = "clone"
    BY Zenon DEF WellAsked, GoodSteps
  <1>2. /\ u.todo \in Seq(StepSet)
        /\ Len(u.todo) = Len(steps) + Len(q.todo) - 1
        /\ \A i \in 1 .. Len(steps) : u.todo[i] = steps[i]
        /\ \A i \in Len(steps) + 1 .. Len(u.todo) : u.todo[i] = q.todo[i + 1 - Len(steps)]
    BY <1>1, InPlaceOfTheHead
  <1>3. Len(steps) \in Nat /\ Len(q.todo) \in Nat \ {0} /\ Len(u.todo) \in Nat
    BY <1>1, <1>2, SMT
  <1>4. \A i \in 2 .. Len(u.todo) : u.todo[i].do \in Later
    <2>. SUFFICES ASSUME NEW i \in 2 .. Len(u.todo) PROVE u.todo[i].do \in Later
      OBVIOUS
    <2>1. CASE i <= Len(steps)
      <3>1. i \in 2 .. Len(steps) /\ i \in 1 .. Len(steps)
        BY <1>3, <2>1, SMT
      <3>. QED
        BY <1>1, <1>2, <3>1, Zenon
    <2>2. CASE i > Len(steps)
      <3>1. i \in Len(steps) + 1 .. Len(u.todo) /\ i + 1 - Len(steps) \in 2 .. Len(q.todo)
        BY <1>2, <1>3, <2>2, SMT
      <3>. QED
        BY <1>1, <1>2, <3>1, Zenon
    <2>. QED
      BY <1>3, <2>1, <2>2, SMT
  <1>5. \A i \in 1 .. Len(u.todo) : u.todo[i].do \in {"copy", "copying"} => u.op = "clone"
    <2>. SUFFICES ASSUME NEW i \in 1 .. Len(u.todo), u.todo[i].do \in {"copy", "copying"}
                  PROVE  q.op = "clone"
      OBVIOUS
    <2>1. CASE i <= Len(steps)
      <3>1. i \in 1 .. Len(steps)
        BY <1>3, <2>1, SMT
      <3>. QED
        BY <1>1, <1>2, <3>1, Zenon
    <2>2. CASE i > Len(steps)
      <3>1. i \in Len(steps) + 1 .. Len(u.todo) /\ i + 1 - Len(steps) \in 1 .. Len(q.todo)
        BY <1>2, <1>3, <2>2, SMT
      <3>. QED
        BY <1>1, <1>2, <3>1, Zenon
    <2>. QED
      BY <1>3, <2>1, <2>2, SMT
  <1>6. steps # <<>> => u.todo # <<>> /\ Head(u.todo) = steps[1]
    <2>1. ASSUME steps # <<>> PROVE u.todo # <<>> /\ Head(u.todo) = steps[1]
      <3>1. Len(steps) > 0 /\ 1 \in 1 .. Len(steps) /\ Len(u.todo) > 0
        BY <1>1, <1>2, <1>3, <2>1, SMT
      <3>2. u.todo[1] = steps[1] /\ Head(u.todo) = u.todo[1]
        BY <1>2, <3>1, HeadAndTail
      <3>. QED
        BY <1>2, <3>1, <3>2, SMT
    <2>. QED
      BY <2>1
  <1>7. steps = <<>> /\ u.todo # <<>> => Head(u.todo).do \in Later
    <2>1. ASSUME steps = <<>>, u.todo # <<>> PROVE Head(u.todo).do \in Later
      <3>1. Len(steps) = 0 /\ Len(u.todo) > 0
        BY <1>2, <2>1, SMT
      <3>2. u.todo[1] = q.todo[2] /\ 2 \in 2 .. Len(q.todo)
        BY <1>2, <1>3, <3>1, SMT
      <3>3. Head(u.todo) = u.todo[1]
        BY <1>2, <2>1, HeadAndTail
      <3>. QED
        BY <1>1, <3>2, <3>3, Zenon
    <2>. QED
      BY <2>1
  <1>8. u.todo # <<>> => u.rec # NoRow
    OBVIOUS
  <1>9. u.todo # <<>> /\ Head(u.todo).do \in Desk => u.op \in DeskOps
    BY <1>6, <1>7, SMT DEF Later, Desk
  <1>. QED
    BY <1>2, <1>4, <1>5, <1>6, <1>7, <1>8, <1>9, SMT DEF WellAsked

(* A request that is left alone is where it was.                          *)
LEMMA OthersStay == ASSUME NEW s, req'[s] = req[s]
                    PROVE  /\ Idle(s)' <=> Idle(s)
                           /\ \A x : At(s, x)' <=> At(s, x)
                           /\ UnderWay(s)' <=> UnderWay(s)
                           /\ Leaves(s)' <=> Leaves(s)
                           /\ Who(s)' = Who(s)
  BY SMT DEF Idle, At, UnderWay, Leaves, Who

(* A request that is over asks nothing.                                   *)
LEMMA Nobody == WellAsked(NotAsked) /\ NotAsked.todo = <<>> /\ NotAsked.op = "none"
  BY HouseAssumption, NoRowIs, SMT DEF WellAsked, NotAsked, Edits, StepSet

(* Becomes touches one request.                                           *)
LEMMA BecomesIs ==
    ASSUME AllWellAsked, NEW r \in Requests, NEW u, WellAsked(u), Becomes(r, u)
    PROVE  /\ AllWellAsked'
           /\ \A s \in Requests \ {r} : req'[s] = req[s]
           /\ req'[r] = IF u.todo = <<>> THEN NotAsked ELSE u
           /\ Idle(r)' <=> u.todo = <<>>
  BY Nobody, SMT DEF AllWellAsked, Becomes, Idle

(* How the actions give a request its next plan, with what it read or     *)
(* built.                                                                 *)
GoesOn(u, r, steps, rec, to, was) ==
    \/ u = Rest(r, steps)
    \/ u = [Rest(r, steps) EXCEPT !.rec = rec]
    \/ u = [Rest(r, steps) EXCEPT !.was = was]
    \/ u = [Rest(r, steps) EXCEPT !.rec = rec, !.to = to]
    \/ u = [Rest(r, steps) EXCEPT !.was = was, !.rec = rec]

(* What such a request reads, field by field.                             *)
LEMMA RestReads ==
    ASSUME AllWellAsked, NEW r \in Requests, NEW steps, NEW rec, NEW to, NEW was, NEW u,
           GoesOn(u, r, steps, rec, to, was)
    PROVE  /\ DOMAIN u = DOMAIN NotAsked /\ u.op = req[r].op /\ u.edit = req[r].edit
           /\ u.todo = steps \o Tail(req[r].todo)
           /\ u.rec = req[r].rec \/ u.rec = rec
           /\ u.to = req[r].to \/ u.to = to
  <1>. DEFINE b == Rest(r, steps)
  <1>1. DOMAIN req[r] = DOMAIN NotAsked
    BY Zenon DEF AllWellAsked, WellAsked
  <1>2. DOMAIN NotAsked = {"op", "who", "to", "edit", "rec", "was", "todo"}
    BY SMT DEF NotAsked
  <1>3. /\ DOMAIN b = {"op", "who", "to", "edit", "rec", "was", "todo"}
        /\ b.op = req[r].op /\ b.edit = req[r].edit
        /\ b.todo = steps \o Tail(req[r].todo) /\ b.rec = req[r].rec /\ b.to = req[r].to
    BY <1>1, <1>2, SMT DEF Rest
  <1>. HIDE DEF b
  <1>. DEFINE good(v) == /\ DOMAIN v = DOMAIN NotAsked /\ v.op = req[r].op
                         /\ v.edit = req[r].edit
                         /\ v.todo = steps \o Tail(req[r].todo)
                         /\ v.rec = req[r].rec \/ v.rec = rec
                         /\ v.to = req[r].to \/ v.to = to
  <1>4. good(b)
    BY <1>2, <1>3, SMT
  <1>5. good([b EXCEPT !.rec = rec])
    BY <1>2, <1>3, SMT
  <1>6. good([b EXCEPT !.was = was])
    BY <1>2, <1>3, SMT
  <1>7. good([b EXCEPT !.rec = rec, !.to = to])
    BY <1>2, <1>3, SMT
  <1>8. good([b EXCEPT !.was = was, !.rec = rec])
    BY <1>2, <1>3, SMT
  <1>9. \/ u = b \/ u = [b EXCEPT !.rec = rec] \/ u = [b EXCEPT !.was = was]
        \/ u = [b EXCEPT !.rec = rec, !.to = to] \/ u = [b EXCEPT !.was = was, !.rec = rec]
    BY Zenon DEF b, GoesOn
  <1>10. good(u)
    <2>. HIDE DEF good
    <2>. QED
      BY <1>4, <1>5, <1>6, <1>7, <1>8, <1>9, Zenon
  <1>. QED
    BY <1>10, Zenon

(* One step of a request.                                                  *)
LEMMA Proceeds ==
    ASSUME AllWellAsked, NEW r \in Requests, ~Idle(r),
           NEW steps, GoodSteps(steps, req[r].op),
           NEW rec \in Rows \ {NoRow}, NEW to \in Characters, NEW was, NEW u,
           GoesOn(u, r, steps, rec, to, was),
           steps # <<>> /\ steps[1].do \in Desk => req[r].op \in DeskOps,
           Becomes(r, u)
    PROVE  /\ AllWellAsked'
           /\ \A s \in Requests \ {r} : req'[s] = req[s]
           /\ ~Idle(r)' => req'[r] = u /\ req'[r].op = req[r].op
           /\ steps # <<>> => ~Idle(r)' /\ Head(req'[r].todo) = steps[1]
           /\ steps = <<>> /\ ~Idle(r)' => Head(req'[r].todo).do \in Later
           /\ Idle(r)' <=> u.todo = <<>>
  <1>1. /\ DOMAIN u = DOMAIN NotAsked /\ u.op = req[r].op /\ u.edit = req[r].edit
        /\ u.todo = steps \o Tail(req[r].todo)
        /\ u.rec = req[r].rec \/ u.rec = rec
        /\ u.to = req[r].to \/ u.to = to
    BY RestReads
  <1>2. WellAsked(req[r]) /\ req[r].todo # <<>>
    BY Zenon DEF AllWellAsked, Idle
  <1>3. u.rec \in Rows /\ u.rec # NoRow /\ u.to \in Characters
    <2>1. req[r].rec \in Rows \ {NoRow} /\ req[r].to \in Characters
      BY <1>2, SMT DEF WellAsked
    <2>2. u.rec \in Rows \ {NoRow}
      BY <1>1, <2>1, Zenon
    <2>. QED
      BY <1>1, <2>1, Zenon
  <1>4. /\ WellAsked(u)
        /\ steps # <<>> => u.todo # <<>> /\ Head(u.todo) = steps[1]
        /\ steps = <<>> /\ u.todo # <<>> => Head(u.todo).do \in Later
    BY <1>1, <1>2, <1>3, RestIsWell, Zenon
  <1>5. /\ AllWellAsked'
        /\ \A s \in Requests \ {r} : req'[s] = req[s]
        /\ req'[r] = IF u.todo = <<>> THEN NotAsked ELSE u
        /\ Idle(r)' <=> u.todo = <<>>
    BY <1>4, BecomesIs, Zenon
  <1>. QED
    BY <1>1, <1>4, <1>5, Zenon

(* lifecycle_lock is free, or a request that is under way has it.         *)
LifeLock == /\ lifeLock \in Requests \cup {None}
            /\ lifeLock # None => ~Idle(lifeLock)

(* What every step of every request keeps.                                *)
Known == AllWellAsked /\ LifeHeld /\ LifeLock

(* What every step of request r leaves: the others as they were.           *)
Turned(r) == Known' /\ \A s \in Requests \ {r} : req'[s] = req[s]
Went(r) == Turned(r) /\ (~Idle(r)' => req'[r].op = req[r].op)

(* No request is the one a free lock names.                               *)
LEMMA NobodyIsZero == None \notin Requests
  BY SMT DEF None, Requests

(* A step that holds lifecycle_lock or does not, and may end the request. *)
LEMMA GoesIs ==
    ASSUME Known, NEW r \in Requests, ~Idle(r), ~At(r, "life"),
           NEW steps, GoodSteps(steps, req[r].op),
           NEW rec \in Rows \ {NoRow}, NEW to \in Characters, NEW was, NEW u,
           GoesOn(u, r, steps, rec, to, was),
           steps # <<>> /\ steps[1].do \in Desk => req[r].op \in DeskOps,
           Goes(r, u)
    PROVE  /\ Went(r)
           /\ steps # <<>> => ~Idle(r)' /\ Head(req'[r].todo) = steps[1]
           /\ steps = <<>> /\ ~Idle(r)' => Head(req'[r].todo).do \in Later
  <1>1. /\ AllWellAsked'
        /\ \A s \in Requests \ {r} : req'[s] = req[s]
        /\ ~Idle(r)' => req'[r] = u /\ req'[r].op = req[r].op
        /\ steps # <<>> => ~Idle(r)' /\ Head(req'[r].todo) = steps[1]
        /\ steps = <<>> /\ ~Idle(r)' => Head(req'[r].todo).do \in Later
        /\ Idle(r)' <=> u.todo = <<>>
    BY Proceeds DEF Known, Goes
  <1>2. lifeLock' = IF lifeLock = r /\ u.todo = <<>> THEN None ELSE lifeLock
    BY Zenon DEF Goes
  <1>3. LifeLock'
    <2>1. lifeLock' \in Requests \cup {None}
      BY <1>2, SMT DEF Known, LifeLock
    <2>2. ASSUME lifeLock' # None PROVE ~Idle(lifeLock)'
      <3>1. lifeLock' = lifeLock /\ lifeLock \in Requests /\ ~Idle(lifeLock)
            /\ (lifeLock = r => u.todo # <<>>)
        BY <1>2, <2>2, SMT DEF Known, LifeLock
      <3>2. CASE lifeLock = r
        BY <1>1, <3>1, <3>2, Zenon DEF Idle
      <3>3. CASE lifeLock # r
        BY <1>1, <3>1, <3>3, SMT DEF Idle
      <3>. QED
        BY <3>2, <3>3
    <2>. QED
      BY <2>1, <2>2 DEF LifeLock
  <1>4. LifeHeld'
    <2>. SUFFICES ASSUME NEW s \in Requests, ~Idle(s)',
                         req'[s].op \in {"clone", "archive", "purge"}
                  PROVE  At(s, "life")' \/ lifeLock' = s
      BY Zenon DEF LifeHeld
    <2>1. CASE s = r
      <3>1. lifeLock = r /\ u.todo # <<>>
        BY <1>1, <2>1, SMT DEF Known, LifeHeld
      <3>. QED
        BY <1>2, <2>1, <3>1, SMT
    <2>2. CASE s # r
      <3>1. req'[s] = req[s]
        BY <1>1, <2>2
      <3>2. At(s, "life") \/ lifeLock = s
        BY <3>1, OthersStay, SMT DEF Known, LifeHeld
      <3>. QED
        BY <1>2, <2>2, <3>1, <3>2, OthersStay, SMT
    <2>. QED
      BY <2>1, <2>2
  <1>. QED
    BY <1>1, <1>3, <1>4, Zenon DEF Known, Went, Turned

(* ... and the request is not at a start, a stop or a way out.            *)
Quietly(r) == Turned(r) /\ ~UnderWay(r)' /\ ~Leaves(r)'

Tame(steps, op) ==
    steps # <<>> => /\ steps[1].do \notin {"building", "stopping"}
                    /\ steps[1].do = "stop" => op \notin {"archive", "purge"}

(* A tame plan leaves it quiet.                                           *)
LEMMA QuietBy ==
    ASSUME NEW r \in Requests, Went(r), NEW steps, Tame(steps, req[r].op),
           steps # <<>> => ~Idle(r)' /\ Head(req'[r].todo) = steps[1],
           steps = <<>> /\ ~Idle(r)' => Head(req'[r].todo).do \in Later
    PROVE  Quietly(r)
  <1>1. ~Idle(r)' => /\ Head(req'[r].todo).do \notin {"building", "stopping"}
                     /\ Head(req'[r].todo).do = "stop" => req[r].op \notin {"archive", "purge"}
    BY SMT DEF Tame, Later
  <1>2. ~UnderWay(r)'
    BY <1>1, SMT DEF UnderWay, At
  <1>3. ~Leaves(r)'
    BY <1>1, SMT DEF Leaves, At, Went
  <1>. QED
    BY <1>2, <1>3, Zenon DEF Quietly, Went

(* Goes with a tame plan, with the rest of the plan, and with a fitting   *)
(* one.                                                                   *)
LEMMA GoesQuietly ==
    ASSUME Known, NEW r \in Requests, ~Idle(r), ~At(r, "life"),
           NEW steps, GoodSteps(steps, req[r].op), Tame(steps, req[r].op),
           NEW rec \in Rows \ {NoRow}, NEW u,
           u = Rest(r, steps) \/ u = [Rest(r, steps) EXCEPT !.rec = rec],
           steps # <<>> /\ steps[1].do \in Desk => req[r].op \in DeskOps,
           Goes(r, u)
    PROVE  Quietly(r)
  <1>1. GoesOn(u, r, steps, rec, Her, FALSE)
    BY Zenon DEF GoesOn
  <1>2. /\ Went(r)
        /\ steps # <<>> => ~Idle(r)' /\ Head(req'[r].todo) = steps[1]
        /\ steps = <<>> /\ ~Idle(r)' => Head(req'[r].todo).do \in Later
    BY <1>1, GoesIs, HouseAssumption, Zenon
  <1>. QED
    BY <1>2, QuietBy, Zenon

LEMMA GoesToTheRest ==
    ASSUME Known, NEW r \in Requests, ~Idle(r), ~At(r, "life"), Goes(r, Rest(r, <<>>))
    PROVE  Quietly(r)
  <1>1. GoodSteps(<<>>, req[r].op)
    BY GoodPlans, HouseAssumption, Zenon
  <1>2. Tame(<<>>, req[r].op)
    BY Zenon DEF Tame
  <1>. QED
    BY <1>1, <1>2, GoesQuietly, BareIs, SMT

(* What a request that is under way is and reads.                         *)
LEMMA WhoIs ==
    ASSUME AllWellAsked, NEW r \in Requests, ~Idle(r)
    PROVE  /\ WellAsked(req[r]) /\ req[r].todo # <<>>
           /\ Who(r) \in Characters /\ Head(req[r].todo).do \in Steps
           /\ req[r].rec \in Rows /\ req[r].rec # NoRow
           /\ req[r].to \in Characters /\ req[r].edit \in Edits
  <1>1. WellAsked(req[r]) /\ req[r].todo # <<>> /\ req[r].todo \in Seq(StepSet)
    BY Zenon DEF AllWellAsked, Idle, WellAsked
  <1>2. Head(req[r].todo) \in StepSet
    BY <1>1, HeadAndTail, Zenon
  <1>3. Head(req[r].todo).do \in Steps /\ Head(req[r].todo).who \in Characters
    BY <1>2, SMT DEF StepSet
  <1>. QED
    BY <1>1, <1>3, Zenon DEF WellAsked, Who

LEMMA AtIs == ASSUME NEW r, NEW x, At(r, x)
              PROVE  ~Idle(r) /\ Head(req[r].todo).do = x /\ \A y : At(r, y) => x = y
  BY SMT DEF At

(* The record an edit writes back is a row (Edited).                      *)
LEMMA SavedIs ==
    ASSUME AllWellAsked, NEW r \in Requests, At(r, "save")
    PROVE  Edited(req[r]) \in Rows /\ Edited(req[r]) # NoRow /\ req[r].op \in DeskOps
  <1>1. req[r].rec \in Rows /\ req[r].rec # NoRow /\ req[r].op \in DeskOps
    BY AtIs, WhoIs, SMT DEF WellAsked, Desk
  <1>2. req[r].rec.life \in Lives /\ req[r].rec.hands \in BOOLEAN
    BY <1>1, RowParts
  <1>. DEFINE q == req[r]
              life == IF q.op \in {"settings", "studio"} /\ q.rec.life = "review" THEN "on"
                      ELSE IF q.edit = "enable" THEN "on"
                      ELSE IF q.edit = "disable" THEN "off" ELSE q.rec.life
              h == IF q.edit \in {"grant", "revoke"} THEN q.edit = "grant" ELSE q.rec.hands
  <1>3. life \in Lives
    BY <1>2, SMT DEF Lives
  <1>4. h \in BOOLEAN
    <2>1. (q.edit = "grant") \in BOOLEAN
      OBVIOUS
    <2>. QED
      BY <1>2, <2>1, Zenon
  <1>5. Edited(q) = [life |-> life, hands |-> h]
    BY Zenon DEF Edited
  <1>. HIDE DEF life, h
  <1>. QED
    BY <1>1, <1>3, <1>4, <1>5, RowIs, Zenon

(* A plan that a request may go on with, and is tame.                     *)
Fitting(steps, op) ==
    /\ GoodSteps(steps, op) /\ Tame(steps, op)
    /\ steps # <<>> /\ steps[1].do \in Desk => op \in DeskOps

(* The plans of the edits, and of what follows a start, a stop or a copy. *)
LEMMA FittingPlans ==
    ASSUME NEW c \in Characters, NEW d \in Characters, NEW op
    PROVE  /\ Fitting(<<>>, op) /\ Fitting(<<Do("start", c)>>, op)
           /\ Fitting(<<Do("start", c), Do("start", d)>>, op)
           /\ op \in DeskOps => /\ Fitting(<<Do("stop", c)>>, op) /\ Fitting(Restart(c), op)
                                /\ Fitting(<<Do("retune", c)>>, op)
                                /\ Fitting(<<Do("reload", c)>>, op)
  <1>1. {"start", "stop", "retune", "reload"} \subseteq Steps \ {"copy", "copying"}
    BY SMT DEF Steps
  <1>2. /\ GoodSteps(<<>>, op) /\ GoodSteps(<<Do("start", c)>>, op)
        /\ GoodSteps(<<Do("start", c), Do("start", d)>>, op)
        /\ GoodSteps(<<Do("stop", c)>>, op) /\ GoodSteps(<<Do("stop", c), Do("start", c)>>, op)
        /\ GoodSteps(<<Do("retune", c)>>, op) /\ GoodSteps(<<Do("reload", c)>>, op)
    <2>1. /\ GoodSteps(<<>>, op)
          /\ \A s \in Steps \ {"copy", "copying"} : GoodSteps(<<Do(s, c)>>, op)
          /\ \A s \in Steps \ {"copy", "copying"} : GoodSteps(<<Do(s, c), Do("start", c)>>, op)
          /\ \A s \in Steps \ {"copy", "copying"} : GoodSteps(<<Do(s, c), Do("start", d)>>, op)
      BY GoodPlans, Zenon
    <2>. HIDE DEF GoodSteps, Do
    <2>. QED
      BY <1>1, <2>1, SMT
  <1>3. \A s \in Steps, e \in Characters : Do(s, e).do = s
    BY DoIs
  <1>4. "start" \in Steps /\ "stop" \in Steps /\ "retune" \in Steps /\ "reload" \in Steps
    BY SMT DEF Steps
  <1>. HIDE DEF Do
  <1>5. ASSUME NEW s \in {"start", "stop", "retune", "reload"}, NEW steps, steps[1] = Do(s, c),
               s # "start" => op \in DeskOps, GoodSteps(steps, op)
        PROVE  Fitting(steps, op)
    <2>1. steps[1].do = s
      BY <1>3, <1>4, <1>5, SMT
    <2>2. Tame(steps, op)
      BY <1>5, <2>1, SMT DEF Tame, DeskOps
    <2>. QED
      BY <1>5, <2>1, <2>2, SMT DEF Fitting, Desk
  <1>6. Fitting(<<>>, op)
    BY <1>2, Zenon DEF Fitting, Tame
  <1>. QED
    BY <1>2, <1>5, <1>6, SMT DEF Restart

(* What is left to do once the record is written.                         *)
LEMMA OnwardFits ==
    ASSUME NEW q, q.op \in DeskOps, NEW c \in Characters, NEW new
    PROVE  Fitting(Onward(q, c, new), q.op)
  <1>. DEFINE ok(s) == Fitting(s, q.op)
  <1>. HIDE DEF Do, Restart
  <1>1. /\ ok(<<>>) /\ ok(<<Do("start", c)>>) /\ ok(<<Do("stop", c)>>) /\ ok(Restart(c))
        /\ ok(<<Do("retune", c)>>) /\ ok(<<Do("reload", c)>>)
    BY FittingPlans, Zenon
  <1>. DEFINE v == Onward(q, c, new)
              st == <<Do("start", c)>>
              sp == <<Do("stop", c)>>
              rs == Restart(c)
              rt == <<Do("retune", c)>>
              rl == <<Do("reload", c)>>
  <1>. SUFFICES ok(v)
    BY Zenon DEF ok
  <1>. HIDE DEF ok
  <1>2. CASE q.op = "studio"
    <2>1. v = rl
      BY <1>2, SMT DEF Onward
    <2>. QED
      BY <1>1, <2>1, Zenon
  <1>3. CASE q.op = "settings" /\ c \in up
    <2>1. q.op # "studio"
      BY <1>3
    <2>2. CASE new.life # "on"
      <3>1. v = sp
        BY <1>3, <2>1, <2>2, SMT DEF Onward
      <3>. QED
        BY <1>1, <3>1, Zenon
    <2>3. CASE new.life = "on" /\ q.edit = "rebuild"
      <3>1. v = rs
        BY <1>3, <2>1, <2>3, SMT DEF Onward
      <3>. QED
        BY <1>1, <3>1, Zenon
    <2>4. CASE new.life = "on" /\ q.edit # "rebuild"
      <3>1. v = rt
        BY <1>3, <2>1, <2>4, SMT DEF Onward
      <3>. QED
        BY <1>1, <3>1, Zenon
    <2>. QED
      BY <2>2, <2>3, <2>4
  <1>4. CASE q.op = "controls"
    <2>1. q.op # "studio" /\ ~(q.op = "settings" /\ c \in up)
      BY <1>4
    <2>2. CASE q.edit = "rebuild" /\ c \in up
      <3>1. v = rs
        BY <1>4, <2>1, <2>2, SMT DEF Onward
      <3>. QED
        BY <1>1, <3>1, Zenon
    <2>3. CASE ~(q.edit = "rebuild" /\ c \in up)
      <3>1. v = <<>>
        BY <1>4, <2>1, <2>3, SMT DEF Onward
      <3>. QED
        BY <1>1, <3>1, Zenon
    <2>. QED
      BY <2>2, <2>3
  <1>5. CASE q.op \notin {"studio", "controls"} /\ ~(q.op = "settings" /\ c \in up)
    <2>1. q.op # "studio" /\ q.op # "controls"
      BY <1>5
    <2>2. CASE c \notin up /\ new.life = "on"
      <3>1. v = st
        BY <1>5, <2>1, <2>2, SMT DEF Onward
      <3>. QED
        BY <1>1, <3>1, Zenon
    <2>3. CASE ~(c \notin up /\ new.life = "on")
      <3>1. v = <<>>
        BY <1>5, <2>1, <2>3, SMT DEF Onward
      <3>. QED
        BY <1>1, <3>1, Zenon
    <2>. QED
      BY <2>2, <2>3
  <1>. HIDE DEF v
  <1>. QED
    BY <1>2, <1>3, <1>4, <1>5, SMT

(* A request that goes on with a fitting plan.                            *)
LEMMA FitQuietly ==
    ASSUME Known, NEW r \in Requests, ~Idle(r), ~At(r, "life"),
           NEW steps, Fitting(steps, req[r].op), NEW rec \in Rows \ {NoRow},
           Goes(r, Rest(r, steps)) \/ Goes(r, [Rest(r, steps) EXCEPT !.rec = rec])
    PROVE  Quietly(r)
  <1>1. /\ GoodSteps(steps, req[r].op) /\ Tame(steps, req[r].op)
        /\ steps # <<>> /\ steps[1].do \in Desk => req[r].op \in DeskOps
    BY Zenon DEF Fitting
  <1>2. CASE Goes(r, Rest(r, steps))
    BY <1>1, <1>2, GoesQuietly, SMT
  <1>3. CASE Goes(r, [Rest(r, steps) EXCEPT !.rec = rec])
    BY <1>1, <1>3, GoesQuietly, SMT
  <1>. QED
    BY <1>2, <1>3

(* The edits (save_settings, controls, loop, studio_save).                *)
LEMMA DeskQuietly ==
    ASSUME Known, NEW r \in Requests, Saves(r) \/ Retunes(r) \/ Reloads(r)
    PROVE  Quietly(r) /\ ~UnderWay(r) /\ ~Leaves(r)
  <1>1. PICK x \in Desk : At(r, x)
    BY Zenon DEF Saves, Retunes, Reloads, Desk
  <1>2. ~UnderWay(r) /\ ~Leaves(r) /\ ~Idle(r) /\ ~At(r, "life")
    BY <1>1, AtIs, SMT DEF UnderWay, Leaves, Desk
  <1>3. /\ Who(r) \in Characters /\ req[r].op \in DeskOps
    BY <1>1, <1>2, AtIs, WhoIs, SMT DEF Known, WellAsked
  <1>4. CASE Saves(r)
    <2>1. At(r, "save")
      BY <1>4, Zenon DEF Saves
    <2>2. Edited(req[r]) \in Rows \ {NoRow}
      BY <2>1, SavedIs, Zenon DEF Known
    <2>3. \/ Goes(r, [Rest(r, Onward(req[r], Who(r), Edited(req[r]))) EXCEPT !.rec = Edited(req[r])])
          \/ Goes(r, Rest(r, <<>>))
      BY <1>4, SMT DEF Saves
    <2>4. Fitting(Onward(req[r], Who(r), Edited(req[r])), req[r].op)
      BY <1>3, OnwardFits, Zenon
    <2>5. CASE Goes(r, [Rest(r, Onward(req[r], Who(r), Edited(req[r]))) EXCEPT !.rec = Edited(req[r])])
      BY <1>2, <2>2, <2>4, <2>5, FitQuietly
    <2>6. CASE Goes(r, Rest(r, <<>>))
      BY <1>2, <2>6, GoesToTheRest
    <2>. QED
      BY <1>2, <2>3, <2>5, <2>6
  <1>5. CASE Retunes(r)
    BY <1>2, <1>5, GoesToTheRest, Zenon DEF Retunes
  <1>6. CASE Reloads(r)
    <2>. DEFINE steps == IF Who(r) \in up THEN Restart(Who(r))
                         ELSE IF req[r].rec.life = "on" THEN <<Do("start", Who(r))>> ELSE <<>>
    <2>1. Goes(r, Rest(r, steps))
      BY <1>6, SMT DEF Reloads
    <2>2. Fitting(steps, req[r].op)
      <3>1. /\ Fitting(Restart(Who(r)), req[r].op) /\ Fitting(<<>>, req[r].op)
            /\ Fitting(<<Do("start", Who(r))>>, req[r].op)
        BY <1>3, FittingPlans, Zenon
      <3>. QED
        BY <3>1, Zenon
    <2>. HIDE DEF steps
    <2>. QED
      BY <1>2, <2>1, <2>2, FitQuietly, BareIs
  <1>. QED
    BY <1>4, <1>5, <1>6

(* The registry has a row or none for every id.                           *)
RowType == row \in [Characters -> Rows]

(* The first step of a plan that goes on with one step for c.              *)
LEMMA GoesToOne ==
    ASSUME Known, NEW r \in Requests, ~Idle(r), ~At(r, "life"),
           NEW s \in Steps, NEW c \in Characters, NEW rec \in Rows \ {NoRow}, NEW to \in Characters,
           NEW was, NEW u, NEW steps, steps = <<Do(s, c)>>, GoesOn(u, r, steps, rec, to, was),
           s \in {"copy", "copying"} => req[r].op = "clone",
           s \notin Desk, Goes(r, u)
    PROVE  Went(r) /\ ~Idle(r)' /\ Who(r)' = c /\ Head(req'[r].todo).do = s
  <1>1. Do(s, c).do = s /\ Do(s, c).who = c
    BY DoIs
  <1>2. steps # <<>> /\ steps[1] = Do(s, c)
    OBVIOUS
  <1>3. GoodSteps(steps, req[r].op)
    <2>1. CASE s \in {"copy", "copying"}
      <3>1. GoodSteps(<<Do("copy", c)>>, "clone") /\ GoodSteps(<<Do("copying", c)>>, "clone")
        BY GoodPlans, Zenon
      <3>2. s = "copy" \/ s = "copying"
        BY <2>1
      <3>. QED
        BY <2>1, <3>1, <3>2, Zenon
    <2>2. CASE s \notin {"copy", "copying"}
      <3>1. \A x \in Steps \ {"copy", "copying"} : GoodSteps(<<Do(x, c)>>, req[r].op)
        BY GoodPlans, Zenon
      <3>2. s \in Steps \ {"copy", "copying"}
        BY <2>2
      <3>. QED
        BY <3>1, <3>2, Zenon
    <2>. QED
      BY <2>1, <2>2, Zenon
  <1>5. Went(r) /\ ~Idle(r)' /\ Head(req'[r].todo) = Do(s, c)
    <2>1. steps[1].do = s
      BY <1>1, <1>2, Zenon
    <2>. QED
      BY <1>2, <1>3, <2>1, GoesIs
  <1>6. Who(r)' = c
    BY <1>1, <1>5, Zenon DEF Who
  <1>. QED
    BY <1>1, <1>5, <1>6, Zenon

(* CharacterHost.start, as it takes the lock and as it ends.              *)
LEMMA StartTakesIs ==
    ASSUME Known, RowType, NEW r \in Requests, StartTakes(r)
    PROVE  /\ ~UnderWay(r) /\ ~Leaves(r) /\ hostLock = None
           /\ \/ Quietly(r) /\ hostLock' = None
              \/ /\ Went(r) /\ At(r, "building")' /\ Who(r)' = Who(r) /\ hostLock' = r
                 /\ Who(r) \notin up /\ row[Who(r)] # NoRow /\ ~Leaves(r)'
  <1>1. At(r, "start") /\ hostLock = None
    BY Zenon DEF StartTakes
  <1>2. ~UnderWay(r) /\ ~Leaves(r) /\ ~Idle(r) /\ ~At(r, "life")
    BY <1>1, AtIs, SMT DEF UnderWay, Leaves
  <1>3. Who(r) \in Characters
    BY <1>2, WhoIs DEF Known
  <1>4. CASE MayStart(Who(r))
    <2>. DEFINE c == Who(r)
                steps == <<Do("building", c)>>
                u == [Rest(r, steps) EXCEPT !.rec = row[c]]
    <2>1. hostLock' = r /\ Goes(r, u)
      BY <1>4, SMT DEF StartTakes, Holds
    <2>2. c \notin up /\ row[c].life \in Lives /\ row[c] \in Rows /\ row[c] # NoRow
      <3>1. c \notin up /\ row[c].life = "on"
        BY <1>4, Zenon DEF MayStart
      <3>2. row[c] \in Rows
        BY <1>3, Zenon DEF RowType
      <3>. QED
        BY <3>1, <3>2, LivingIsARow, SMT DEF Lives
    <2>3. GoesOn(u, r, steps, row[c], Her, FALSE)
      BY Zenon DEF GoesOn
    <2>4. "building" \in Steps /\ "building" \notin Desk
      BY SMT DEF Steps, Desk
    <2>9. steps = <<Do("building", c)>>
      OBVIOUS
    <2>8. c = Who(r) /\ c \in Characters
      BY <1>3
    <2>. HIDE DEF u, steps, c
    <2>7. /\ "building" \in {"copy", "copying"} => req[r].op = "clone"
          /\ Her \in Characters /\ row[c] \in Rows \ {NoRow}
      BY <2>2, HouseAssumption, SMT
    <2>5. Went(r) /\ ~Idle(r)' /\ Who(r)' = c /\ Head(req'[r].todo).do = "building"
      BY <1>2, <1>3, <2>1, <2>2, <2>3, <2>4, <2>9, <2>7, <2>8, GoesToOne, HouseAssumption, Zenon
    <2>6. At(r, "building")' /\ ~Leaves(r)'
      BY <2>5, SMT DEF At, Leaves
    <2>. QED
      BY <1>1, <1>2, <2>1, <2>2, <2>5, <2>6, <2>8
  <1>5. CASE ~MayStart(Who(r))
    <2>1. hostLock' = None /\ Goes(r, Rest(r, <<>>))
      BY <1>5, Zenon DEF StartTakes, LetsGo
    <2>. QED
      BY <1>1, <1>2, <2>1, GoesToTheRest
  <1>. QED
    BY <1>4, <1>5

LEMMA StartedIs ==
    ASSUME Known, NEW r \in Requests, Started(r)
    PROVE  At(r, "building") /\ Quietly(r) /\ hostLock' = None /\ ~Leaves(r)
  <1>1. At(r, "building") /\ Goes(r, Rest(r, <<>>)) /\ hostLock' = None
    BY Zenon DEF Started, LetsGo
  <1>2. ~Idle(r) /\ ~At(r, "life") /\ ~Leaves(r)
    BY <1>1, AtIs, SMT DEF Leaves
  <1>. QED
    BY <1>1, <1>2, GoesToTheRest

(* CharacterHost.stop, and what its caller does before it awaits again.   *)
LEMMA AfterStopIs ==
    ASSUME Known, NEW r \in Requests, ~Idle(r), ~At(r, "life"), AfterStop(r, Who(r))
    PROVE  Quietly(r)
  <1>1. Who(r) \in Characters
    BY WhoIs DEF Known
  <1>2. \/ Goes(r, Rest(r, <<>>))
        \/ Goes(r, Rest(r, IF req[r].was THEN <<Do("start", Who(r))>> ELSE <<>>))
    BY Zenon DEF AfterStop, Moves, PutsBack
  <1>3. CASE Goes(r, Rest(r, <<>>))
    BY <1>3, GoesToTheRest
  <1>4. CASE Goes(r, Rest(r, IF req[r].was THEN <<Do("start", Who(r))>> ELSE <<>>))
    <2>. DEFINE steps == IF req[r].was THEN <<Do("start", Who(r))>> ELSE <<>>
    <2>1. Fitting(steps, req[r].op)
      <3>1. Fitting(<<Do("start", Who(r))>>, req[r].op) /\ Fitting(<<>>, req[r].op)
        BY <1>1, FittingPlans, Zenon
      <3>. QED
        BY <3>1, Zenon
    <2>2. Goes(r, Rest(r, steps))
      BY <1>4
    <2>. HIDE DEF steps
    <2>. QED
      BY <2>1, <2>2, FitQuietly, BareIs
  <1>. QED
    BY <1>2, <1>3, <1>4

LEMMA StopTakesIs ==
    ASSUME Known, NEW r \in Requests, StopTakes(r)
    PROVE  /\ At(r, "stop") /\ ~UnderWay(r) /\ hostLock = None
           /\ \/ /\ Quietly(r) /\ hostLock' = None /\ Who(r) \notin up /\ up' = up
                 /\ AfterStop(r, Who(r)) /\ HandsOver(Who(r))
              \/ /\ Went(r) /\ At(r, "stopping")' /\ Who(r)' = Who(r) /\ hostLock' = r
                 /\ Who(r) \in up /\ up' = up \ {Who(r)} /\ Leaves(r)' = Leaves(r)
                 /\ UNCHANGED <<disk, primary, torn>>
  <1>1. At(r, "stop") /\ hostLock = None
    BY Zenon DEF StopTakes, LockFree
  <1>2. ~UnderWay(r) /\ ~Idle(r) /\ ~At(r, "life")
    BY <1>1, AtIs, SMT DEF UnderWay
  <1>3. Who(r) \in Characters
    BY <1>2, WhoIs DEF Known
  <1>4. CASE Who(r) \in up
    <2>. DEFINE c == Who(r)
                steps == <<Do("stopping", c)>>
                u == Rest(r, steps)
    <2>1. hostLock' = r /\ Goes(r, u) /\ up' = up \ {c} /\ UNCHANGED <<disk, primary, torn>>
      BY <1>4, SMT DEF StopTakes, Holds
    <2>2. GoesOn(u, r, steps, Bare, Her, FALSE)
      BY Zenon DEF GoesOn
    <2>3. "stopping" \in Steps /\ "stopping" \notin Desk
      BY SMT DEF Steps, Desk
    <2>9. steps = <<Do("stopping", c)>>
      OBVIOUS
    <2>8. c = Who(r) /\ c \in Characters
      BY <1>3
    <2>. HIDE DEF u, steps, c
    <2>7. /\ "stopping" \in {"copy", "copying"} => req[r].op = "clone"
          /\ Her \in Characters /\ Bare \in Rows \ {NoRow}
      BY BareIs, HouseAssumption, SMT
    <2>4. Went(r) /\ ~Idle(r)' /\ Who(r)' = c /\ Head(req'[r].todo).do = "stopping"
      BY <1>2, <1>3, <2>1, <2>2, <2>3, <2>9, <2>7, <2>8, GoesToOne, HouseAssumption, Zenon
    <2>5. At(r, "stopping")'
      BY <2>4, SMT DEF At
    <2>6. Leaves(r)' = Leaves(r)
      <3>1. req'[r].op = req[r].op
        BY <2>4, Zenon DEF Went
      <3>. QED
        BY <1>1, <2>5, <3>1, Zenon DEF Leaves
    <2>. QED
      BY <1>1, <1>2, <1>4, <2>1, <2>4, <2>5, <2>6, <2>8
  <1>5. CASE Who(r) \notin up
    <2>1. hostLock' = None /\ AfterStop(r, Who(r)) /\ HandsOver(Who(r)) /\ up' = up
      BY <1>5, SMT DEF StopTakes, LetsGo
    <2>. QED
      BY <1>1, <1>2, <1>5, <2>1, AfterStopIs
  <1>. QED
    BY <1>4, <1>5

LEMMA StoppedIs ==
    ASSUME Known, NEW r \in Requests, Stopped(r)
    PROVE  /\ At(r, "stopping") /\ Quietly(r) /\ hostLock' = None /\ up' = up
           /\ AfterStop(r, Who(r)) /\ HandsOver(Who(r))
  <1>1. /\ At(r, "stopping") /\ hostLock' = None /\ up' = up
        /\ AfterStop(r, Who(r)) /\ HandsOver(Who(r))
    BY Zenon DEF Stopped, LetsGo
  <1>2. ~Idle(r) /\ ~At(r, "life")
    BY <1>1, AtIs, SMT
  <1>. QED
    BY <1>1, <1>2, AfterStopIs

(* `async with lifecycle_lock`: the request that takes it has it.         *)
LEMMA TakesIs ==
    ASSUME Known, NEW r \in Requests, At(r, "life"), lifeLock = None,
           NEW steps, GoodSteps(steps, req[r].op), NEW rec \in Rows \ {NoRow}, NEW was, NEW u,
           GoesOn(u, r, steps, rec, Her, was),
           steps # <<>> /\ steps[1].do \in Desk => req[r].op \in DeskOps,
           Becomes(r, u), Locked(r)
    PROVE  /\ Went(r)
           /\ steps # <<>> => ~Idle(r)' /\ Head(req'[r].todo) = steps[1]
           /\ steps = <<>> /\ ~Idle(r)' => Head(req'[r].todo).do \in Later
  <1>1. ~Idle(r)
    BY AtIs
  <1>2. /\ AllWellAsked'
        /\ \A s \in Requests \ {r} : req'[s] = req[s]
        /\ ~Idle(r)' => req'[r] = u /\ req'[r].op = req[r].op
        /\ steps # <<>> => ~Idle(r)' /\ Head(req'[r].todo) = steps[1]
        /\ steps = <<>> /\ ~Idle(r)' => Head(req'[r].todo).do \in Later
    BY <1>1, Proceeds, HouseAssumption DEF Known
  <1>3. lifeLock' = IF Idle(r)' THEN None ELSE r
    BY Zenon DEF Locked, Idle
  <1>4. LifeLock'
    BY <1>3, SMT DEF LifeLock
  <1>5. LifeHeld'
    <2>. SUFFICES ASSUME NEW s \in Requests, ~Idle(s)',
                         req'[s].op \in {"clone", "archive", "purge"}
                  PROVE  At(s, "life")' \/ lifeLock' = s
      BY Zenon DEF LifeHeld
    <2>1. CASE s = r
      BY <1>3, <2>1, SMT
    <2>2. CASE s # r
      <3>1. req'[s] = req[s]
        BY <1>2, <2>2
      <3>2. At(s, "life")
        BY <3>1, OthersStay, NobodyIsZero, SMT DEF Known, LifeHeld
      <3>. QED
        BY <3>1, <3>2, OthersStay
    <2>. QED
      BY <2>1, <2>2
  <1>. QED
    BY <1>2, <1>4, <1>5, Zenon DEF Known, Went, Turned

(* ... with a plan that fits.                                             *)
LEMMA TakesQuietly ==
    ASSUME Known, NEW r \in Requests, At(r, "life"), lifeLock = None,
           NEW steps, Fitting(steps, req[r].op), NEW was, NEW u,
           GoesOn(u, r, steps, Bare, Her, was), Becomes(r, u), Locked(r)
    PROVE  Quietly(r)
  <1>1. /\ GoodSteps(steps, req[r].op) /\ Tame(steps, req[r].op)
        /\ steps # <<>> /\ steps[1].do \in Desk => req[r].op \in DeskOps
    BY Zenon DEF Fitting
  <1>2. /\ Went(r)
        /\ steps # <<>> => ~Idle(r)' /\ Head(req'[r].todo) = steps[1]
        /\ steps = <<>> /\ ~Idle(r)' => Head(req'[r].todo).do \in Later
    BY <1>1, BareIs, TakesIs
  <1>. QED
    BY <1>1, <1>2, QuietBy, Zenon

(* A clone, an archive or a purge takes lifecycle_lock.                   *)
LEMMA TakesLifeIs ==
    ASSUME Known, RowType, NEW r \in Requests, TakesLife(r)
    PROVE  /\ At(r, "life") /\ ~UnderWay(r) /\ ~Leaves(r)
           /\ \/ Quietly(r)
              \/ Turned(r) /\ ~UnderWay(r)'
  <1>1. At(r, "life") /\ lifeLock = None /\ Locked(r)
    BY Zenon DEF TakesLife
  <1>2. ~UnderWay(r) /\ ~Leaves(r) /\ ~Idle(r)
    BY <1>1, AtIs, SMT DEF UnderWay, Leaves
  <1>3. Who(r) \in Characters
    BY <1>2, WhoIs DEF Known
  <1>. DEFINE c == Who(r)
              was == c \in up
  <1>4. CASE req[r].op = "clone"
    <2>. DEFINE stop == IF was THEN <<Do("stop", c)>> ELSE <<>>
                steps == stop \o <<Do("copy", c)>>
                u == [Rest(r, steps) EXCEPT !.was = was]
    <2>1. Becomes(r, u)
      BY <1>4, Zenon DEF TakesLife
    <2>2. GoesOn(u, r, steps, Bare, Her, was)
      BY Zenon DEF GoesOn
    <2>3. steps = <<Do("copy", c)>> \/ steps = <<Do("stop", c), Do("copy", c)>>
      <3>. HIDE DEF Do
      <3>1. stop = <<>> \/ stop = <<Do("stop", c)>>
        BY Zenon
      <3>. HIDE DEF stop
      <3>. QED
        BY <3>1, Joined, Zenon
    <2>4. GoodSteps(<<Do("copy", c)>>, "clone") /\ GoodSteps(<<Do("stop", c), Do("copy", c)>>, "clone")
      BY <1>3, GoodPlans, Zenon
    <2>5. GoodSteps(steps, req[r].op)
      BY <1>4, <2>3, <2>4, Zenon
    <2>6. steps # <<>> /\ steps[1].do \in {"copy", "stop"}
      <3>1. Do("copy", c).do = "copy" /\ Do("stop", c).do = "stop"
        BY SMT DEF Do
      <3>. HIDE DEF Do, steps
      <3>. QED
        BY <2>3, <3>1, SMT
    <2>7. Tame(steps, req[r].op)
      BY <1>4, <2>6, SMT DEF Tame
    <2>8. Fitting(steps, req[r].op)
      BY <2>5, <2>6, <2>7, SMT DEF Fitting, Desk
    <2>. HIDE DEF u, steps, was
    <2>9. Quietly(r)
      BY <1>1, <2>1, <2>2, <2>8, TakesQuietly, Zenon
    <2>. QED
      BY <1>1, <1>2, <2>9
  <1>5. CASE req[r].op # "clone" /\ row[c] = NoRow
    <2>. DEFINE u == Rest(r, <<>>)
    <2>1. Becomes(r, u)
      BY <1>5, Zenon DEF TakesLife
    <2>2. GoesOn(u, r, <<>>, Bare, Her, was)
      BY Zenon DEF GoesOn
    <2>3. Fitting(<<>>, req[r].op)
      BY <1>3, FittingPlans
    <2>. HIDE DEF u, was
    <2>4. Quietly(r)
      BY <1>1, <2>1, <2>2, <2>3, TakesQuietly, Zenon
    <2>. QED
      BY <1>1, <1>2, <2>4
  <1>6. CASE req[r].op # "clone" /\ row[c] # NoRow
    <2>. DEFINE steps == <<Do("stop", c)>>
                rec == row[c]
                u == [Rest(r, steps) EXCEPT !.was = was, !.rec = rec]
    <2>1. Becomes(r, u)
      BY <1>6, Zenon DEF TakesLife
    <2>2. GoesOn(u, r, steps, rec, Her, was)
      BY Zenon DEF GoesOn
    <2>3. rec \in Rows \ {NoRow}
      BY <1>3, <1>6, SMT DEF RowType
    <2>4. GoodSteps(steps, req[r].op)
      <3>1. \A s \in Steps \ {"copy", "copying"} : GoodSteps(<<Do(s, c)>>, req[r].op)
        BY <1>3, GoodPlans, Zenon
      <3>2. "stop" \in Steps \ {"copy", "copying"}
        BY SMT DEF Steps
      <3>. QED
        BY <3>1, <3>2, Zenon
    <2>5. /\ steps # <<>> /\ steps[1] = Do("stop", c) /\ Do("stop", c).do = "stop"
          /\ Do("stop", c).who = c
      <3>1. Do("stop", c).do = "stop" /\ Do("stop", c).who = c
        BY SMT DEF Do
      <3>2. steps # <<>> /\ steps[1] = Do("stop", c)
        OBVIOUS
      <3>. QED
        BY <3>1, <3>2, Zenon
    <2>6. c = Who(r)
      OBVIOUS
    <2>. HIDE DEF u, steps, was, c, rec
    <2>7. steps[1].do \notin Desk
      BY <2>5, SMT DEF Desk
    <2>8. Went(r) /\ ~Idle(r)' /\ Head(req'[r].todo) = Do("stop", c)
      BY <1>1, <2>1, <2>2, <2>3, <2>4, <2>5, <2>7, TakesIs
    <2>9. Who(r)' = c /\ ~UnderWay(r)'
      BY <2>5, <2>8, SMT DEF Who, UnderWay, At
    <2>. QED
      BY <1>1, <1>2, <1>6, <2>6, <2>8, <2>9, Zenon DEF Went
  <1>. QED
    BY <1>4, <1>5, <1>6

(* A restore is over, or goes on to a start.                              *)
LEMMA RestoresIs ==
    ASSUME Known, NEW r \in Requests, Restores(r)
    PROVE  /\ At(r, "life") /\ ~UnderWay(r) /\ ~Leaves(r) /\ Quietly(r)
  <1>1. At(r, "life") /\ lifeLock = None /\ Locked(r)
    BY Zenon DEF Restores
  <1>2. ~UnderWay(r) /\ ~Leaves(r) /\ ~Idle(r)
    BY <1>1, AtIs, SMT DEF UnderWay, Leaves
  <1>3. req[r].to \in Characters
    BY <1>2, WhoIs DEF Known
  <1>4. PICK steps : /\ steps = <<>> \/ steps = <<Do("start", req[r].to)>>
                     /\ Becomes(r, Rest(r, steps))
    <2>1. \/ Becomes(r, Rest(r, <<>>))
          \/ Becomes(r, Rest(r, IF req[r].edit = "enable" THEN <<Do("start", req[r].to)>> ELSE <<>>))
      BY Zenon DEF Restores
    <2>. QED
      BY <2>1, Zenon
  <1>5. Fitting(<<>>, req[r].op) /\ Fitting(<<Do("start", req[r].to)>>, req[r].op)
    BY <1>3, FittingPlans, Zenon
  <1>6. Fitting(steps, req[r].op)
    BY <1>4, <1>5, Zenon
  <1>. DEFINE u == Rest(r, steps)
  <1>7. GoesOn(u, r, steps, Bare, Her, FALSE) /\ Becomes(r, u)
    BY <1>4, Zenon DEF GoesOn
  <1>. HIDE DEF u
  <1>. QED
    BY <1>1, <1>2, <1>6, <1>7, TakesQuietly, Zenon

(* After a copy only starts are left.                                     *)
LEMMA CopyOverIs ==
    ASSUME Known, NEW r \in Requests, ~Idle(r), ~At(r, "life"),
           NEW c \in Characters, NEW ok, CopyOver(r, c, ok)
    PROVE  Quietly(r)
  <1>1. req[r].to \in Characters
    BY WhoIs DEF Known
  <1>. DEFINE a == IF req[r].was THEN <<Do("start", c)>> ELSE <<>>
              b == IF ok /\ req[r].rec.life = "on" THEN <<Do("start", req[r].to)>> ELSE <<>>
              steps == a \o b
  <1>2. Goes(r, Rest(r, steps))
    BY Zenon DEF CopyOver
  <1>3. /\ Fitting(<<>>, req[r].op) /\ Fitting(<<Do("start", c)>>, req[r].op)
        /\ Fitting(<<Do("start", req[r].to)>>, req[r].op)
        /\ Fitting(<<Do("start", c), Do("start", req[r].to)>>, req[r].op)
    BY <1>1, FittingPlans, Zenon
  <1>. HIDE DEF Do
  <1>4. (a = <<Do("start", c)>> \/ a = <<>>) /\ (b = <<Do("start", req[r].to)>> \/ b = <<>>)
    BY Zenon
  <1>. HIDE DEF a, b
  <1>5. \/ steps = <<>> \/ steps = <<Do("start", c)>> \/ steps = <<Do("start", req[r].to)>>
        \/ steps = <<Do("start", c), Do("start", req[r].to)>>
    BY <1>4, Joined, Zenon
  <1>. HIDE DEF steps
  <1>6. Fitting(steps, req[r].op)
    BY <1>3, <1>5, Zenon
  <1>. QED
    BY <1>2, <1>6, FitQuietly, BareIs

(* Only a clone copies.                                                   *)
LEMMA CloneIs ==
    ASSUME AllWellAsked, NEW r \in Requests, At(r, "copy") \/ At(r, "copying")
    PROVE  /\ req[r].op = "clone" /\ ~UnderWay(r) /\ ~Leaves(r) /\ ~Idle(r) /\ ~At(r, "life")
           /\ Who(r) \in Characters
           /\ At(r, "copying") => req[r].rec # NoRow
  <1>1. ~UnderWay(r) /\ ~Leaves(r) /\ ~Idle(r) /\ ~At(r, "life")
    BY AtIs, SMT DEF UnderWay, Leaves
  <1>2. /\ WellAsked(req[r]) /\ req[r].todo # <<>> /\ Who(r) \in Characters
        /\ req[r].todo \in Seq(StepSet)
    BY <1>1, WhoIs DEF WellAsked
  <1>3. Head(req[r].todo) = req[r].todo[1] /\ 1 \in 1 .. Len(req[r].todo)
    BY <1>2, HeadAndTail, SMT
  <1>4. Head(req[r].todo).do \in {"copy", "copying"}
    BY AtIs, SMT
  <1>5. req[r].op = "clone"
    BY <1>2, <1>3, <1>4, Zenon DEF WellAsked
  <1>6. At(r, "copying") => req[r].rec # NoRow
    BY <1>2, SMT DEF WellAsked, At
  <1>. QED
    BY <1>1, <1>2, <1>5, <1>6

(* The copy begins with the row it read, and ends with that row written.  *)
LEMMA CopyBeginsIs ==
    ASSUME Known, RowType, NEW r \in Requests, CopyBegins(r)
    PROVE  /\ ~UnderWay(r) /\ ~Leaves(r) /\ Quietly(r)
  <1>1. At(r, "copy")
    BY Zenon DEF CopyBegins
  <1>2. /\ req[r].op = "clone" /\ ~UnderWay(r) /\ ~Leaves(r) /\ ~Idle(r) /\ ~At(r, "life")
        /\ Who(r) \in Characters
    BY <1>1, CloneIs DEF Known
  <1>3. CASE CopyOver(r, Who(r), FALSE)
    BY <1>2, <1>3, CopyOverIs
  <1>4. ASSUME NEW to \in Characters, row[Who(r)] # NoRow,
               Goes(r, [Rest(r, <<Do("copying", Who(r))>>) EXCEPT !.rec = row[Who(r)], !.to = to])
        PROVE  Quietly(r)
    <2>. DEFINE c == Who(r)
                steps == <<Do("copying", c)>>
                rec == row[c]
                u == [Rest(r, steps) EXCEPT !.rec = rec, !.to = to]
    <2>1. GoesOn(u, r, steps, rec, to, FALSE) /\ Goes(r, u) /\ steps = <<Do("copying", c)>>
      BY <1>4, Zenon DEF GoesOn
    <2>3. "copying" \in Steps /\ "copying" \notin Desk
      BY SMT DEF Steps, Desk
    <2>4. c \in Characters /\ rec \in Rows \ {NoRow}
      BY <1>2, <1>4, SMT DEF RowType
    <2>5. req[r].op = "clone"
      BY <1>2
    <2>. HIDE DEF u, steps, rec, c
    <2>6. Went(r) /\ ~Idle(r)' /\ Head(req'[r].todo).do = "copying"
      BY <1>2, <2>1, <2>3, <2>4, <2>5, GoesToOne, Zenon
    <2>7. ~UnderWay(r)' /\ ~Leaves(r)'
      BY <2>6, SMT DEF UnderWay, Leaves, At
    <2>. QED
      BY <2>6, <2>7, Zenon DEF Quietly, Went
  <1>. QED
    BY <1>2, <1>3, <1>4, Zenon DEF CopyBegins

LEMMA CopyEndsIs ==
    ASSUME Known, NEW r \in Requests, CopyEnds(r)
    PROVE  /\ ~UnderWay(r) /\ ~Leaves(r) /\ Quietly(r)
           /\ At(r, "copying") /\ req[r].rec \in Rows /\ req[r].rec # NoRow /\ req[r].to \in Characters
  <1>1. At(r, "copying") /\ (CopyOver(r, Who(r), TRUE) \/ CopyOver(r, Who(r), FALSE))
    BY Zenon DEF CopyEnds
  <1>2. /\ ~UnderWay(r) /\ ~Leaves(r) /\ ~Idle(r) /\ ~At(r, "life")
        /\ Who(r) \in Characters /\ req[r].rec # NoRow
    BY <1>1, CloneIs DEF Known
  <1>3. req[r].rec \in Rows /\ req[r].to \in Characters
    BY <1>2, WhoIs DEF Known
  <1>4. Quietly(r)
    BY <1>1, <1>2, CopyOverIs
  <1>. QED
    BY <1>1, <1>2, <1>3, <1>4

(* A request comes in.                                                    *)
LEMMA ComesIs ==
    ASSUME Known, NEW r \in Requests, Idle(r), NEW q, WellAsked(q), Becomes(r, q),
           lifeLock' = lifeLock,
           q.op \in {"clone", "archive", "purge"} => q.todo = <<>> \/ Head(q.todo).do = "life"
    PROVE  Turned(r)
  <1>1. /\ AllWellAsked'
        /\ \A s \in Requests \ {r} : req'[s] = req[s]
        /\ req'[r] = IF q.todo = <<>> THEN NotAsked ELSE q
    BY BecomesIs DEF Known
  <1>2. LifeLock'
    BY <1>1, SMT DEF Known, LifeLock, Idle
  <1>3. LifeHeld'
    <2>. SUFFICES ASSUME NEW s \in Requests, ~Idle(s)',
                         req'[s].op \in {"clone", "archive", "purge"}
                  PROVE  At(s, "life")' \/ lifeLock' = s
      BY Zenon DEF LifeHeld
    <2>1. CASE s = r
      BY <1>1, <2>1, Nobody, SMT DEF Idle, At
    <2>2. CASE s # r
      <3>1. req'[s] = req[s]
        BY <1>1, <2>2
      <3>. QED
        BY <3>1, OthersStay, SMT DEF Known, LifeHeld
    <2>. QED
      BY <2>1, <2>2
  <1>. QED
    BY <1>1, <1>2, <1>3, Zenon DEF Known, Turned

(* The first step of what is asked.                                       *)
LEMMA OpeningIs ==
    ASSUME NEW op \in Ops, NEW c \in Characters
    PROVE  \/ Opening(op, c) = <<>> /\ op \notin {"clone", "archive", "purge"}
           \/ \E s \in {"save", "life", "stop", "start"} :
                 /\ Opening(op, c) = <<Do(s, c)>>
                 /\ s = "save" => op \in DeskOps
                 /\ op \in {"clone", "archive", "purge"} => s = "life"
  <1>. HIDE DEF Do
  <1>1. CASE op \in {"settings", "controls", "loop", "studio"}
    <2>1. Opening(op, c) = <<Do("save", c)>>
      BY <1>1, SMT DEF Opening
    <2>2. op \in DeskOps /\ op \notin {"clone", "archive", "purge"}
      BY <1>1, SMT DEF DeskOps
    <2>. QED
      BY <2>1, <2>2, Zenon
  <1>2. CASE op \in {"clone", "archive", "purge"}
    <2>1. Opening(op, c) = <<Do("life", c)>>
      BY <1>2, SMT DEF Opening
    <2>. QED
      BY <2>1, SMT
  <1>3. CASE op = "stop"
    <2>1. Opening(op, c) = <<Do("stop", c)>>
      BY <1>3, SMT DEF Opening
    <2>. QED
      BY <1>3, <2>1, SMT
  <1>4. CASE op \notin {"settings", "controls", "loop", "studio", "clone", "archive", "purge", "stop"}
    <2>1. CASE c \in up
      <3>1. Opening(op, c) = <<>>
        BY <1>4, <2>1, SMT DEF Opening
      <3>. QED
        BY <1>4, <3>1, SMT
    <2>2. CASE c \notin up
      <3>1. Opening(op, c) = <<Do("start", c)>>
        BY <1>4, <2>2, SMT DEF Opening
      <3>. QED
        BY <1>4, <3>1, SMT
    <2>. QED
      BY <2>1, <2>2
  <1>. QED
    BY <1>1, <1>2, <1>3, <1>4, SMT

(* A request of one step or none fits what it asks.                       *)
LEMMA AskedWell ==
    ASSUME NEW q, DOMAIN q = DOMAIN NotAsked, q.op \in Ops, q.edit \in Edits, q.rec \in Rows,
           q.rec # NoRow, q.to \in Characters,
           \/ q.todo = <<>> /\ q.op \notin {"clone", "archive", "purge"}
           \/ \E s \in {"save", "life", "stop", "start"}, c \in Characters :
                 /\ q.todo = <<Do(s, c)>>
                 /\ s = "save" => q.op \in DeskOps
                 /\ q.op \in {"clone", "archive", "purge"} => s = "life"
    PROVE  /\ WellAsked(q)
           /\ q.op \in {"clone", "archive", "purge"} => q.todo = <<>> \/ Head(q.todo).do = "life"
           /\ q.todo # <<>> => Head(q.todo).do \in {"save", "life", "stop", "start"}
  <1>1. CASE q.todo = <<>>
    BY <1>1, SMT DEF WellAsked, StepSet
  <1>2. ASSUME NEW s \in {"save", "life", "stop", "start"}, NEW c \in Characters,
               q.todo = <<Do(s, c)>>, s = "save" => q.op \in DeskOps,
               q.op \in {"clone", "archive", "purge"} => s = "life"
        PROVE  /\ WellAsked(q)
               /\ q.op \in {"clone", "archive", "purge"} => Head(q.todo).do = "life"
               /\ Head(q.todo).do \in {"save", "life", "stop", "start"}
    <2>1. s \in Steps
      BY <1>2, SMT DEF Steps
    <2>2. Do(s, c) \in StepSet /\ Do(s, c).do = s
      BY <2>1, DoIs
    <2>. HIDE DEF Do
    <2>3. /\ q.todo \in Seq(StepSet) /\ Len(q.todo) = 1 /\ q.todo[1] = Do(s, c)
          /\ Head(q.todo) = Do(s, c)
      BY <1>2, <2>2, SMT
    <2>. QED
      BY <1>2, <2>2, <2>3, SMT DEF WellAsked, Desk
  <1>. QED
    BY <1>1, <1>2, SMT

(* A request that comes is at no start, stop or way out.                  *)
LEMMA AsksIs ==
    ASSUME Known, RowType, KeptRows, kept \subseteq [who : Characters, tree : Trees, row : Rows],
           NEW r \in Requests, Asks(r) \/ AsksToRestore(r)
    PROVE  /\ Idle(r) /\ Turned(r) /\ ~UnderWay(r)' /\ ~Leaves(r)' /\ ~UnderWay(r) /\ ~Leaves(r)
  <1>1. Idle(r) /\ lifeLock' = lifeLock
    BY Zenon DEF Asks, AsksToRestore, Comes
  <1>2. ~UnderWay(r) /\ ~Leaves(r)
    BY <1>1, SMT DEF UnderWay, Leaves, At
  <1>3. PICK q : /\ Becomes(r, q) /\ WellAsked(q)
                 /\ q.op \in {"clone", "archive", "purge"} => q.todo = <<>> \/ Head(q.todo).do = "life"
                 /\ q.todo # <<>> => Head(q.todo).do \in {"save", "life", "stop", "start"}
    <2>0. DOMAIN NotAsked = {"op", "who", "to", "edit", "rec", "was", "todo"}
          /\ NotAsked.to = Her /\ NotAsked.edit = "none"
      BY SMT DEF NotAsked
    <2>1. CASE Asks(r)
      <3>1. PICK c \in Characters, op \in Ops \ {"restore"} : \E edit \in EditsOf(op) :
                /\ row[c] # NoRow
                /\ Becomes(r, [NotAsked EXCEPT !.op = op, !.who = c, !.edit = edit, !.rec = row[c],
                                               !.todo = Opening(op, c)])
        BY <2>1, Zenon DEF Asks
      <3>2. PICK edit \in EditsOf(op) :
                /\ row[c] # NoRow
                /\ Becomes(r, [NotAsked EXCEPT !.op = op, !.who = c, !.edit = edit, !.rec = row[c],
                                               !.todo = Opening(op, c)])
        BY <3>1
      <3>. DEFINE todo == Opening(op, c)
                  rec == row[c]
                  q == [NotAsked EXCEPT !.op = op, !.who = c, !.edit = edit, !.rec = rec,
                                        !.todo = todo]
      <3>3. edit \in Edits /\ rec \in Rows /\ rec # NoRow /\ op \in Ops
        BY <3>2, SMT DEF EditsOf, Edits, RowType
      <3>4. \/ todo = <<>> /\ op \notin {"clone", "archive", "purge"}
            \/ \E s \in {"save", "life", "stop", "start"} :
                 /\ todo = <<Do(s, c)>>
                 /\ s = "save" => op \in DeskOps
                 /\ op \in {"clone", "archive", "purge"} => s = "life"
        BY OpeningIs
      <3>. HIDE DEF todo, rec
      <3>5. /\ DOMAIN q = DOMAIN NotAsked /\ q.op = op /\ q.edit = edit /\ q.rec = rec
            /\ q.to = Her /\ q.todo = todo
        BY <2>0, SMT
      <3>6. Becomes(r, q)
        BY <3>2 DEF todo, rec
      <3>. HIDE DEF q
      <3>7. \/ q.todo = <<>> /\ q.op \notin {"clone", "archive", "purge"}
            \/ \E s \in {"save", "life", "stop", "start"}, d \in Characters :
                 /\ q.todo = <<Do(s, d)>>
                 /\ s = "save" => q.op \in DeskOps
                 /\ q.op \in {"clone", "archive", "purge"} => s = "life"
        BY <3>3, <3>4, <3>5, Zenon
      <3>8. /\ q.op \in Ops /\ q.edit \in Edits /\ q.rec \in Rows /\ q.rec # NoRow /\ q.to \in Characters
        BY <3>3, <3>5, HouseAssumption
      <3>. QED
        BY <3>5, <3>6, <3>7, <3>8, AskedWell
    <2>2. CASE AsksToRestore(r)
      <3>1. PICK k \in kept, c \in Characters, edit \in {"none", "enable"} :
                Becomes(r, [NotAsked EXCEPT !.op = "restore", !.who = k.who, !.to = c,
                                 !.edit = edit, !.rec = k.row, !.todo = <<Do("life", c)>>])
        BY <2>2, Zenon DEF AsksToRestore
      <3>. DEFINE todo == <<Do("life", c)>>
                  rec == k.row
                  who == k.who
                  q == [NotAsked EXCEPT !.op = "restore", !.who = who, !.to = c,
                                 !.edit = edit, !.rec = rec, !.todo = todo]
      <3>2. rec \in Rows /\ rec # NoRow /\ edit \in Edits /\ "restore" \in Ops
        BY SMT DEF Edits, Ops, KeptRows
      <3>3. todo = <<Do("life", c)>>
        OBVIOUS
      <3>. HIDE DEF todo, rec, who
      <3>5. /\ DOMAIN q = DOMAIN NotAsked /\ q.op = "restore" /\ q.edit = edit /\ q.rec = rec
            /\ q.to = c /\ q.todo = todo
        BY <2>0, SMT
      <3>6. Becomes(r, q)
        BY <3>1 DEF todo, rec, who
      <3>. HIDE DEF q
      <3>7. \E s \in {"save", "life", "stop", "start"}, d \in Characters :
                 /\ q.todo = <<Do(s, d)>>
                 /\ s = "save" => q.op \in DeskOps
                 /\ q.op \in {"clone", "archive", "purge"} => s = "life"
        <4>1. "life" \in {"save", "life", "stop", "start"} /\ "life" # "save"
          OBVIOUS
        <4>. QED
          BY <3>3, <3>5, <4>1, Zenon
      <3>8. /\ q.op \in Ops /\ q.edit \in Edits /\ q.rec \in Rows /\ q.rec # NoRow /\ q.to \in Characters
        BY <3>2, <3>5
      <3>. QED
        BY <3>5, <3>6, <3>7, <3>8, AskedWell
    <2>. QED
      BY <2>1, <2>2
  <1>4. Turned(r)
    BY <1>1, <1>3, ComesIs
  <1>5. req'[r] = IF q.todo = <<>> THEN NotAsked ELSE q
    BY <1>3, BecomesIs DEF Known
  <1>6. \/ Idle(r)'
        \/ /\ Head(req'[r].todo).do \in {"save", "life", "stop", "start"}
           /\ Head(req'[r].todo).do = "stop" => req'[r].op \notin {"clone", "archive", "purge"}
    BY <1>3, <1>5, Nobody, SMT DEF Idle
  <1>7. ~UnderWay(r)' /\ ~Leaves(r)'
    BY <1>6, SMT DEF UnderWay, Leaves, At
  <1>. QED
    BY <1>1, <1>2, <1>4, <1>7

(* After a crash nobody asks anything and nothing is held.                *)
LEMMA CrashIs ==
    ASSUME Crash
    PROVE  Known' /\ \A r \in Requests : Idle(r)' /\ ~UnderWay(r)' /\ ~Leaves(r)'
  <1>1. /\ DOMAIN req' = Requests /\ \A r \in Requests : req'[r] = NotAsked
        /\ lifeLock' = None
    BY Zenon DEF Crash
  <1>2. \A r \in Requests : Idle(r)'
    BY <1>1, Nobody, SMT DEF Idle
  <1>3. \A r \in Requests : ~UnderWay(r)' /\ ~Leaves(r)'
    BY <1>2, SMT DEF UnderWay, Leaves, At
  <1>4. AllWellAsked'
    BY <1>1, Nobody, Zenon DEF AllWellAsked
  <1>5. LifeHeld' /\ LifeLock'
    BY <1>1, <1>2, SMT DEF LifeHeld, LifeLock
  <1>. QED
    BY <1>2, <1>3, <1>4, <1>5, Zenon DEF Known

(* The lock of the host is free, or the request that has it is building or*)
(* stopping.                                                              *)
Host == /\ hostLock \in Requests \cup {None} /\ (hostLock # None => UnderWay(hostLock))
        /\ HostHeld

(* What a step may do with the lock of the host.                           *)
KeepsOut(r) == ~UnderWay(r) /\ ~UnderWay(r)' /\ hostLock' = hostLock /\ up' = up
LeavesHost(r) == hostLock \in {None, r} /\ hostLock' = None /\ ~UnderWay(r)'
TakesHost(r) == /\ hostLock = None /\ ~UnderWay(r) /\ hostLock' = r /\ UnderWay(r)'
                /\ Who(r)' \notin up'

(* Whichever of the three it does, the lock stays in one hand.            *)
LEMMA HostStays ==
    ASSUME Host, NEW r \in Requests, Turned(r), KeepsOut(r) \/ LeavesHost(r) \/ TakesHost(r)
    PROVE  Host'
  <1>1. \A s \in Requests \ {r} : (UnderWay(s)' <=> UnderWay(s)) /\ Who(s)' = Who(s)
    BY OthersStay DEF Turned
  <1>2. \A s \in Requests : UnderWay(s) => hostLock = s /\ Who(s) \notin up
    BY Zenon DEF Host, HostHeld
  <1>3. /\ hostLock \in Requests \cup {None} /\ (hostLock # None => UnderWay(hostLock))
        /\ None \notin Requests
    BY NobodyIsZero, Zenon DEF Host
  <1>4. CASE KeepsOut(r)
    <2>1. hostLock' # None => UnderWay(hostLock)'
      <3>1. ASSUME hostLock' # None PROVE UnderWay(hostLock)'
        <4>1. hostLock \in Requests \ {r} /\ hostLock' = hostLock /\ UnderWay(hostLock)
          BY <1>3, <1>4, <3>1, SMT DEF KeepsOut
        <4>2. PICK h \in Requests \ {r} : h = hostLock
          BY <4>1
        <4>3. UnderWay(h)' /\ hostLock' = h
          BY <1>1, <4>1, <4>2, Zenon
        <4>. QED
          BY <4>3, SMT DEF UnderWay, At, Idle
      <3>. QED
        BY <3>1
    <2>2. HostHeld'
      BY <1>1, <1>2, <1>4, SMT DEF KeepsOut, HostHeld
    <2>. QED
      BY <1>3, <1>4, <2>1, <2>2, Zenon DEF KeepsOut, Host
  <1>5. CASE LeavesHost(r)
    <2>1. \A s \in Requests : ~UnderWay(s)'
      BY <1>1, <1>2, <1>3, <1>5, SMT DEF LeavesHost
    <2>. QED
      BY <1>5, <2>1, SMT DEF LeavesHost, Host, HostHeld
  <1>6. CASE TakesHost(r)
    <2>1. \A s \in Requests \ {r} : ~UnderWay(s)'
      BY <1>1, <1>2, <1>3, <1>6, SMT DEF TakesHost
    <2>2. HostHeld'
      BY <1>6, <2>1, SMT DEF TakesHost, HostHeld
    <2>3. UnderWay(hostLock)'
      BY <1>6, SMT DEF TakesHost, UnderWay, At, Idle
    <2>. QED
      BY <1>6, <2>2, <2>3, SMT DEF TakesHost, Host
  <1>. QED
    BY <1>4, <1>5, <1>6

(* A request comes, or goes on by a step.                                  *)
MovesOn(r) == Asks(r) \/ AsksToRestore(r) \/ Step(r)

(* Everything but the requests and the locks keeps its type.              *)
DataType ==
    /\ row \in [Characters -> Rows] /\ board \in [Characters -> Trees \cup {"none"}]
    /\ kept \subseteq [who : Characters, tree : Trees, row : Rows]
    /\ up \subseteq Characters /\ hands \in [Characters -> BOOLEAN]
    /\ primary \in Characters \cup {None}
    /\ cloning \subseteq Characters /\ torn \subseteq Characters

(* All that is kept.                                                      *)
HouseInv == /\ DataType /\ Known /\ Host
            /\ BuildHasRow /\ KeptRows /\ RowAndTreeAgree /\ Answers

(* Whoever moves, the others stay, and what is known stays known.         *)
LEMMA Turns == ASSUME HouseInv, NEW r \in Requests, MovesOn(r) PROVE Turned(r)
  <1>1. /\ Known /\ RowType /\ KeptRows /\ kept \subseteq [who : Characters, tree : Trees, row : Rows]
    BY Zenon DEF HouseInv, DataType, RowType
  <1>2. CASE Asks(r) \/ AsksToRestore(r)
    BY <1>1, <1>2, AsksIs, Zenon
  <1>3. CASE Step(r)
    <2>1. \/ Saves(r) \/ Retunes(r) \/ Reloads(r) \/ StartTakes(r) \/ Started(r)
          \/ StopTakes(r) \/ Stopped(r) \/ TakesLife(r) \/ Restores(r) \/ CopyBegins(r) \/ CopyEnds(r)
      BY <1>3, Zenon DEF Step
    <2>2. Quietly(r) \/ Went(r) => Turned(r)
      BY Zenon DEF Quietly, Went
    <2>. QED
      BY <1>1, <2>1, <2>2, DeskQuietly, StartTakesIs, StartedIs, StopTakesIs, StoppedIs, TakesLifeIs,
         RestoresIs, CopyBeginsIs, CopyEndsIs, Zenon
  <1>. QED
    BY <1>2, <1>3 DEF MovesOn

(* One step per action: in, out or neither.                               *)
LEMMA HostStep == ASSUME HouseInv, NEW r \in Requests, MovesOn(r) PROVE Host'
  <1>1. /\ Known /\ RowType /\ KeptRows /\ kept \subseteq [who : Characters, tree : Trees, row : Rows]
        /\ Host /\ HostHeld
    BY Zenon DEF HouseInv, DataType, RowType, Host
  <1>2. KeepsOut(r) \/ LeavesHost(r) \/ TakesHost(r)
    <2>1. CASE Asks(r) \/ AsksToRestore(r)
      <3>1. ~UnderWay(r)' /\ ~UnderWay(r)
        BY <1>1, <2>1, AsksIs, Zenon
      <3>2. hostLock' = hostLock /\ up' = up
        <4>1. UNCHANGED <<serving, hostLock>>
          BY <2>1, Zenon DEF Asks, AsksToRestore
        <4>. QED
          BY <4>1, SMT DEF serving
      <3>. QED
        BY <3>1, <3>2 DEF KeepsOut
    <2>2. CASE Saves(r) \/ Retunes(r) \/ Reloads(r)
      <3>1. ~UnderWay(r)' /\ ~UnderWay(r)
        BY <1>1, <2>2, DeskQuietly, Zenon DEF Quietly
      <3>2. hostLock' = hostLock /\ up' = up
        BY <2>2, SMT DEF Saves, Retunes, Reloads, serving
      <3>. QED
        BY <3>1, <3>2 DEF KeepsOut
    <2>3. CASE StartTakes(r)
      <3>1. up' = up
        BY <2>3, SMT DEF StartTakes, serving
      <3>2. /\ ~UnderWay(r) /\ hostLock = None
            /\ \/ Quietly(r) /\ hostLock' = None
               \/ /\ At(r, "building")' /\ Who(r)' = Who(r) /\ hostLock' = r /\ Who(r) \notin up
        BY <1>1, <2>3, StartTakesIs, Zenon
      <3>. QED
        BY <3>1, <3>2, SMT DEF LeavesHost, TakesHost, Quietly, UnderWay
    <2>4. CASE Started(r)
      <3>1. hostLock = r
        BY <1>1, <2>4, StartedIs, SMT DEF HostHeld, UnderWay
      <3>2. hostLock' = None /\ ~UnderWay(r)'
        BY <1>1, <2>4, StartedIs, Zenon DEF Quietly
      <3>. QED
        BY <3>1, <3>2 DEF LeavesHost
    <2>5. CASE StopTakes(r)
      <3>1. /\ ~UnderWay(r) /\ hostLock = None
            /\ \/ Quietly(r) /\ hostLock' = None
               \/ /\ At(r, "stopping")' /\ Who(r)' = Who(r) /\ hostLock' = r
                  /\ up' = up \ {Who(r)}
        BY <1>1, <2>5, StopTakesIs, Zenon
      <3>. QED
        BY <3>1, SMT DEF LeavesHost, TakesHost, Quietly, UnderWay
    <2>6. CASE Stopped(r)
      <3>1. hostLock = r
        BY <1>1, <2>6, StoppedIs, SMT DEF HostHeld, UnderWay
      <3>2. hostLock' = None /\ ~UnderWay(r)'
        BY <1>1, <2>6, StoppedIs, Zenon DEF Quietly
      <3>. QED
        BY <3>1, <3>2 DEF LeavesHost
    <2>7. CASE TakesLife(r) \/ Restores(r) \/ CopyBegins(r) \/ CopyEnds(r)
      <3>1. ~UnderWay(r)' /\ ~UnderWay(r)
        BY <1>1, <2>7, TakesLifeIs, RestoresIs, CopyBeginsIs, CopyEndsIs, Zenon DEF Quietly
      <3>2. hostLock' = hostLock /\ up' = up
        <4>1. UNCHANGED <<serving, hostLock>>
          BY <2>7, Zenon DEF TakesLife, Restores, CopyBegins, CopyEnds
        <4>. QED
          BY <4>1, SMT DEF serving
      <3>. QED
        BY <3>1, <3>2 DEF KeepsOut
    <2>. QED
      BY <2>1, <2>2, <2>3, <2>4, <2>5, <2>6, <2>7, Zenon DEF MovesOn, Step
  <1>. QED
    BY <1>1, <1>2, Turns, HostStays, Zenon

(* The registry, the trees and the archives.                              *)
DiskOK == /\ row \in [Characters -> Rows] /\ board \in [Characters -> Trees \cup {"none"}]
          /\ kept \subseteq [who : Characters, tree : Trees, row : Rows]
          /\ torn \subseteq Characters
          /\ KeptRows /\ RowAndTreeAgree

(* Nobody but the one on her way out loses her row or her tree.            *)
NobodyLeaves ==
    \A c \in Characters : /\ row[c] # NoRow => row'[c] # NoRow
                          /\ board[c] # "none" => board'[c] # "none"

(* Nothing is written.                                                    *)
LEMMA DiskSame == ASSUME DiskOK, UNCHANGED <<disk, torn>> PROVE DiskOK' /\ NobodyLeaves
  BY SMT DEF DiskOK, disk, KeptRows, RowAndTreeAgree, NobodyLeaves

(* A row is written over one, or over none: then her tree may be away.    *)
LEMMA RowWritten ==
    ASSUME DiskOK, NEW c \in Characters, NEW w \in Rows, w # NoRow,
           row' = [row EXCEPT ![c] = w], board' = board, kept' = kept,
           torn' = IF row[c] = NoRow THEN torn \cup {c} ELSE torn
    PROVE  DiskOK' /\ NobodyLeaves
  <1>1. row' \in [Characters -> Rows] /\ row'[c] = w /\ \A d \in Characters \ {c} : row'[d] = row[d]
    BY SMT DEF DiskOK
  <1>2. torn' \subseteq Characters /\ KeptRows'
    BY SMT DEF DiskOK, KeptRows
  <1>3. NobodyLeaves
    BY <1>1, SMT DEF NobodyLeaves
  <1>4. RowAndTreeAgree'
    BY <1>1, SMT DEF DiskOK, RowAndTreeAgree
  <1>. QED
    BY <1>1, <1>2, <1>3, <1>4, SMT DEF DiskOK

LEMMA AwayIs ==
    ASSUME DiskOK, NEW q, q.rec \in Rows, q.rec # NoRow, NEW c \in Characters,
           board[c] # "none", NEW written
    PROVE  /\ Away(q, c, written) \subseteq [who : Characters, tree : Trees, row : Rows]
           /\ \A k \in Away(q, c, written) : k.row # NoRow
  <1>. DEFINE w == IF written THEN q.rec ELSE Bare
              k0 == [who |-> c, tree |-> board[c], row |-> w]
  <1>1. board[c] \in Trees
    BY SMT DEF DiskOK
  <1>2. w \in Rows /\ w # NoRow
    BY BareIs, Zenon
  <1>3. Away(q, c, written) \in {kept, kept \cup {k0}}
    BY Zenon DEF Away
  <1>. HIDE DEF w
  <1>4. k0 \in [who : Characters, tree : Trees, row : Rows] /\ k0.row = w
    BY <1>1, <1>2, SMT
  <1>. HIDE DEF k0
  <1>. QED
    BY <1>2, <1>3, <1>4, SMT DEF DiskOK, KeptRows

(* The tree is renamed away and the row dropped, or put back, or left     *)
(* torn.                                                                  *)
LEMMA MovesIs ==
    ASSUME DiskOK, NEW r, req[r].rec \in Rows, req[r].rec # NoRow,
           NEW c \in Characters, Moves(r, c)
    PROVE  /\ DiskOK'
           /\ \A d \in Characters \ {c} : row'[d] = row[d] /\ board'[d] = board[d]
  <1>1. CASE PutsBack(r, c)
    <2>1. UNCHANGED <<disk, torn>>
      BY <1>1, Zenon DEF PutsBack
    <2>. QED
      BY <2>1, DiskSame, SMT DEF disk
  <1>2. CASE ~PutsBack(r, c)
    <2>1. /\ board[c] # "none" /\ board' = [board EXCEPT ![c] = "none"]
          /\ \/ /\ row' = [row EXCEPT ![c] = NoRow] /\ torn' = torn
                /\ kept' = Away(req[r], c, TRUE) \/ kept' = Away(req[r], c, FALSE)
             \/ /\ kept' = Away(req[r], c, TRUE) /\ torn' = torn \cup {c} /\ row' = row
      BY <1>2, Zenon DEF Moves
    <2>2. /\ board' = [board EXCEPT ![c] = "none"]
          /\ \/ row' = [row EXCEPT ![c] = NoRow] /\ torn' = torn
             \/ torn' = torn \cup {c} /\ row' = row
      BY <2>1, Zenon
    <2>3. /\ kept' \subseteq [who : Characters, tree : Trees, row : Rows]
          /\ \A k \in kept' : k.row # NoRow
      BY <2>1, AwayIs, Zenon
    <2>4. /\ board' \in [Characters -> Trees \cup {"none"}] /\ board'[c] = "none"
          /\ \A d \in Characters \ {c} : board'[d] = board[d]
      BY <2>2, SMT DEF DiskOK
    <2>5. /\ row' \in [Characters -> Rows] /\ (row'[c] = NoRow \/ c \in torn')
          /\ \A d \in Characters \ {c} : row'[d] = row[d]
      BY <2>2, NoRowIs, SMT DEF DiskOK
    <2>6. torn' \subseteq Characters /\ torn \subseteq torn'
      BY <2>2, SMT DEF DiskOK
    <2>7. RowAndTreeAgree'
      BY <2>4, <2>5, <2>6, SMT DEF DiskOK, RowAndTreeAgree
    <2>8. KeptRows'
      BY <2>3 DEF KeptRows
    <2>. QED
      BY <2>3, <2>4, <2>5, <2>6, <2>7, <2>8, Zenon DEF DiskOK
  <1>. QED
    BY <1>1, <1>2

(* What a stop leaves of the disk.                                        *)
LEMMA AfterStopDisk ==
    ASSUME DiskOK, AllWellAsked, NEW r \in Requests,
           At(r, "stop") \/ At(r, "stopping"), AfterStop(r, Who(r))
    PROVE  /\ DiskOK'
           /\ NobodyLeaves \/ (Leaves(r) /\ \A d \in Characters \ {Who(r)} :
                                            row'[d] = row[d] /\ board'[d] = board[d])
  <1>1. Who(r) \in Characters /\ req[r].rec \in Rows /\ req[r].rec # NoRow
    BY AtIs, WhoIs
  <1>2. CASE req[r].op \in {"archive", "purge"}
    <2>1. Leaves(r)
      BY <1>2, SMT DEF Leaves
    <2>2. Moves(r, Who(r))
      BY <1>2, Zenon DEF AfterStop
    <2>. QED
      BY <1>1, <2>1, <2>2, MovesIs
  <1>3. CASE req[r].op \notin {"archive", "purge"}
    <2>1. UNCHANGED <<disk, torn>>
      BY <1>3, SMT DEF AfterStop
    <2>. QED
      BY <2>1, DiskSame
  <1>. QED
    BY <1>2, <1>3

(* The one request that may take a row away, and all else it leaves.       *)
TakesAway(r) ==
    /\ Leaves(r) /\ Quietly(r) /\ hostLock' = None /\ up' = up
    /\ \/ hostLock = None /\ Who(r) \notin up
       \/ hostLock = r /\ At(r, "stopping")
    /\ \A d \in Characters \ {Who(r)} : row'[d] = row[d] /\ board'[d] = board[d]

(* One step per action.                                                   *)
LEMMA DiskStep ==
    ASSUME HouseInv, NEW r \in Requests, MovesOn(r)
    PROVE  DiskOK' /\ (NobodyLeaves \/ TakesAway(r))
  <1>1. /\ DiskOK /\ Known /\ AllWellAsked /\ BuildHasRow /\ HostHeld
        /\ KeptRows /\ RowAndTreeAgree
    BY Zenon DEF HouseInv, DiskOK, DataType, Known, Host
  <1>2. /\ row \in [Characters -> Rows] /\ board \in [Characters -> Trees \cup {"none"}]
        /\ kept \subseteq [who : Characters, tree : Trees, row : Rows] /\ torn \subseteq Characters
    BY <1>1, Zenon DEF DiskOK
  <1>3. CASE Asks(r)
    <2>1. PICK c \in Characters, op \in Ops \ {"restore"} :
              /\ row[c] # NoRow
              /\ row' = IF op = "approve" THEN [row EXCEPT ![c].life = "on"] ELSE row
      BY <1>3, Zenon DEF Asks
    <2>2. UNCHANGED <<board, kept, torn>>
      BY <1>3, Zenon DEF Asks
    <2>3. CASE op = "approve"
      <3>1. row[c] \in Rows
        BY <1>2
      <3>. DEFINE w == [row[c] EXCEPT !.life = "on"]
      <3>2. w \in Rows /\ w # NoRow
        BY <2>1, <3>1, RowParts
      <3>3. row' = [row EXCEPT ![c] = w]
        BY <2>1, <2>3, SMT
      <3>. HIDE DEF w
      <3>. QED
        <4>1. torn' = IF row[c] = NoRow THEN torn \cup {c} ELSE torn
          BY <2>1, <2>2, SMT
        <4>. QED
          BY <1>1, <2>2, <3>2, <3>3, <4>1, RowWritten
    <2>4. CASE op # "approve"
      <3>1. UNCHANGED <<disk, torn>>
        BY <2>1, <2>2, <2>4, SMT DEF disk
      <3>. QED
        BY <1>1, <3>1, DiskSame
    <2>. QED
      BY <2>3, <2>4
  <1>4. CASE AsksToRestore(r)
    <2>1. UNCHANGED <<disk, torn>>
      BY <1>4, SMT DEF AsksToRestore
    <2>. QED
      BY <1>1, <2>1, DiskSame
  <1>5. CASE Saves(r)
    <2>. DEFINE c == Who(r)
                new == Edited(req[r])
    <2>1. At(r, "save")
      BY <1>5, Zenon DEF Saves
    <2>2. new \in Rows /\ new # NoRow /\ c \in Characters
      BY <1>1, <2>1, SavedIs, AtIs, WhoIs
    <2>3. /\ UNCHANGED <<board, kept>>
          /\ \/ row' = [row EXCEPT ![c] = new] /\ torn' = IF row[c] = NoRow THEN torn \cup {c} ELSE torn
             \/ UNCHANGED <<row, torn>>
      BY <1>5, SMT DEF Saves
    <2>. HIDE DEF c, new
    <2>4. CASE row' = [row EXCEPT ![c] = new] /\ torn' = IF row[c] = NoRow THEN torn \cup {c} ELSE torn
      BY <1>1, <2>2, <2>3, <2>4, RowWritten
    <2>5. CASE UNCHANGED <<row, torn>>
      BY <1>1, <2>3, <2>5, DiskSame, SMT DEF disk
    <2>. QED
      BY <2>3, <2>4, <2>5
  <1>6. CASE Retunes(r) \/ Reloads(r) \/ StartTakes(r) \/ TakesLife(r) \/ CopyBegins(r)
    <2>1. UNCHANGED <<disk, torn>>
      BY <1>6, Zenon DEF Retunes, Reloads, StartTakes, TakesLife, CopyBegins
    <2>. QED
      BY <1>1, <2>1, DiskSame
  <1>7. CASE Started(r)
    <2>. DEFINE c == Who(r)
    <2>1. At(r, "building") /\ c \in Characters /\ row[c] # NoRow
      BY <1>1, <1>7, StartedIs, AtIs, WhoIs, SMT DEF BuildHasRow
    <2>2. /\ UNCHANGED <<row, kept, torn>>
          /\ \/ board' = board
             \/ board[c] = "none" /\ board' = [board EXCEPT ![c] = "ghost"]
      BY <1>7, SMT DEF Started
    <2>. HIDE DEF c
    <2>3. CASE board' = board
      BY <1>1, <2>2, <2>3, DiskSame, SMT DEF disk
    <2>4. CASE board[c] = "none" /\ board' = [board EXCEPT ![c] = "ghost"]
      <3>1. /\ board' \in [Characters -> Trees \cup {"none"}] /\ board'[c] # "none"
            /\ \A d \in Characters \ {c} : board'[d] = board[d]
        BY <1>2, <2>1, <2>4, SMT DEF Trees
      <3>2. RowAndTreeAgree' /\ NobodyLeaves
        BY <1>1, <2>1, <2>2, <3>1, SMT DEF RowAndTreeAgree, NobodyLeaves
      <3>. QED
        BY <1>1, <1>2, <2>2, <3>1, <3>2, SMT DEF DiskOK, KeptRows
    <2>. QED
      BY <2>2, <2>3, <2>4
  <1>8. CASE StopTakes(r)
    <2>1. /\ At(r, "stop") /\ hostLock = None
          /\ \/ /\ Quietly(r) /\ hostLock' = None /\ Who(r) \notin up /\ up' = up
                /\ AfterStop(r, Who(r))
             \/ UNCHANGED <<disk, torn>>
      BY <1>1, <1>8, StopTakesIs, Zenon
    <2>2. CASE UNCHANGED <<disk, torn>>
      BY <1>1, <2>2, DiskSame
    <2>3. CASE /\ Quietly(r) /\ hostLock' = None /\ Who(r) \notin up /\ up' = up
               /\ AfterStop(r, Who(r))
      BY <1>1, <2>1, <2>3, AfterStopDisk, Zenon DEF TakesAway
    <2>. QED
      BY <2>1, <2>2, <2>3
  <1>9. CASE Stopped(r)
    <2>1. /\ At(r, "stopping") /\ hostLock = r
          /\ Quietly(r) /\ hostLock' = None /\ up' = up /\ AfterStop(r, Who(r))
      BY <1>1, <1>9, StoppedIs, SMT DEF HostHeld, UnderWay
    <2>. QED
      BY <1>1, <2>1, AfterStopDisk, Zenon DEF TakesAway
  <1>10. CASE Restores(r)
    <2>. DEFINE c == req[r].to
    <2>1. c \in Characters
      BY <1>1, <1>10, RestoresIs, AtIs, WhoIs
    <2>2. \/ UNCHANGED <<disk, torn>>
          \/ \E k \in kept :
               /\ row[c] = NoRow /\ board[c] = "none"
               /\ kept' = kept \ {k} /\ board' = [board EXCEPT ![c] = k.tree]
               /\ \/ /\ torn' = torn
                     /\ \/ row' = [row EXCEPT ![c] = k.row]
                        \/ row' = [row EXCEPT ![c] = [k.row EXCEPT !.life = "on"]]
                  \/ torn' = torn \cup {c} /\ row' = row
      <3>1. \/ UNCHANGED <<disk, torn>>
            \/ \E k \in {x \in kept : x.who = req[r].who /\ x.row = req[r].rec} :
               /\ row[c] = NoRow /\ board[c] = "none"
               /\ kept' = kept \ {k} /\ board' = [board EXCEPT ![c] = k.tree]
               /\ \/ /\ torn' = torn
                     /\ \/ row' = [row EXCEPT ![c] = IF req[r].edit = "enable"
                                                     THEN [k.row EXCEPT !.life = "on"] ELSE k.row]
                        \/ row' = [row EXCEPT ![c] = k.row]
                  \/ torn' = torn \cup {c} /\ row' = row
        BY <1>10, Zenon DEF Restores, Free
      <3>. QED
        BY <3>1, Zenon
    <2>3. CASE UNCHANGED <<disk, torn>>
      BY <1>1, <2>3, DiskSame
    <2>4. ASSUME NEW k \in kept, row[c] = NoRow, board[c] = "none", kept' = kept \ {k},
                 board' = [board EXCEPT ![c] = k.tree],
                 NEW w, w = k.row \/ w = [k.row EXCEPT !.life = "on"],
                 \/ torn' = torn /\ row' = [row EXCEPT ![c] = w]
                 \/ torn' = torn \cup {c} /\ row' = row
          PROVE  DiskOK' /\ NobodyLeaves
      <3>. HIDE DEF c
      <3>1. k.row \in Rows /\ k.tree \in Trees /\ k.row # NoRow
        BY <1>1, <1>2, <2>4, SMT DEF KeptRows
      <3>2. w \in Rows /\ w # NoRow
        BY <2>4, <3>1, RowParts, Zenon
      <3>3. /\ board' \in [Characters -> Trees \cup {"none"}] /\ board'[c] # "none"
            /\ \A d \in Characters \ {c} : board'[d] = board[d]
        BY <1>2, <2>1, <2>4, <3>1, SMT DEF Trees
      <3>4. /\ row' \in [Characters -> Rows] /\ (row'[c] # NoRow \/ c \in torn')
            /\ \A d \in Characters \ {c} : row'[d] = row[d]
        BY <1>2, <2>1, <2>4, <3>2, SMT
      <3>5. /\ kept' \subseteq [who : Characters, tree : Trees, row : Rows] /\ KeptRows'
            /\ torn' \subseteq Characters /\ torn \subseteq torn'
        BY <1>1, <1>2, <2>1, <2>4, SMT DEF KeptRows
      <3>6. RowAndTreeAgree' /\ NobodyLeaves
        BY <1>1, <2>4, <3>3, <3>4, <3>5, SMT DEF RowAndTreeAgree, NobodyLeaves
      <3>. QED
        BY <3>3, <3>4, <3>5, <3>6, Zenon DEF DiskOK
    <2>. HIDE DEF c
    <2>5. CASE \E k \in kept :
               /\ row[c] = NoRow /\ board[c] = "none"
               /\ kept' = kept \ {k} /\ board' = [board EXCEPT ![c] = k.tree]
               /\ \/ /\ torn' = torn
                     /\ \/ row' = [row EXCEPT ![c] = k.row]
                        \/ row' = [row EXCEPT ![c] = [k.row EXCEPT !.life = "on"]]
                  \/ torn' = torn \cup {c} /\ row' = row
      <3>1. PICK k \in kept :
               /\ row[c] = NoRow /\ board[c] = "none"
               /\ kept' = kept \ {k} /\ board' = [board EXCEPT ![c] = k.tree]
               /\ \/ /\ torn' = torn
                     /\ \/ row' = [row EXCEPT ![c] = k.row]
                        \/ row' = [row EXCEPT ![c] = [k.row EXCEPT !.life = "on"]]
                  \/ torn' = torn \cup {c} /\ row' = row
        BY <2>5
      <3>. DEFINE w1 == k.row
                  w2 == [k.row EXCEPT !.life = "on"]
      <3>2. \/ torn' = torn /\ row' = [row EXCEPT ![c] = w1]
            \/ torn' = torn /\ row' = [row EXCEPT ![c] = w2]
            \/ torn' = torn \cup {c} /\ row' = row
        BY <3>1
      <3>3. /\ w1 = k.row \/ w1 = [k.row EXCEPT !.life = "on"]
            /\ w2 = k.row \/ w2 = [k.row EXCEPT !.life = "on"]
        OBVIOUS
      <3>. HIDE DEF w1, w2
      <3>. QED
        BY <2>4, <3>1, <3>2, <3>3
    <2>. QED
      BY <2>2, <2>3, <2>5, Zenon
  <1>11. CASE CopyEnds(r)
    <2>. DEFINE c == req[r].to
    <2>1. c \in Characters /\ req[r].rec \in Rows /\ req[r].rec # NoRow
      BY <1>1, <1>11, CopyEndsIs
    <2>2. /\ UNCHANGED <<kept, torn>>
          /\ \/ /\ row' = [row EXCEPT ![c] = req[r].rec]
                /\ board' = [board EXCEPT ![c] = "copied"]
             \/ UNCHANGED <<row, board>>
      BY <1>11, Zenon DEF CopyEnds
    <2>. HIDE DEF c
    <2>3. CASE UNCHANGED <<row, board>>
      BY <1>1, <2>2, <2>3, DiskSame, SMT DEF disk
    <2>4. CASE row' = [row EXCEPT ![c] = req[r].rec] /\ board' = [board EXCEPT ![c] = "copied"]
      <3>1. /\ board' \in [Characters -> Trees \cup {"none"}] /\ board'[c] # "none"
            /\ \A d \in Characters \ {c} : board'[d] = board[d]
        BY <1>2, <2>1, <2>4, SMT DEF Trees
      <3>2. /\ row' \in [Characters -> Rows] /\ row'[c] # NoRow
            /\ \A d \in Characters \ {c} : row'[d] = row[d]
        BY <1>2, <2>1, <2>4, SMT
      <3>3. RowAndTreeAgree' /\ NobodyLeaves
        BY <1>1, <2>2, <3>1, <3>2, SMT DEF RowAndTreeAgree, NobodyLeaves
      <3>. QED
        BY <1>1, <1>2, <2>2, <3>1, <3>2, <3>3, SMT DEF DiskOK, KeptRows
    <2>. QED
      BY <2>2, <2>3, <2>4
  <1>. QED
    BY <1>3, <1>4, <1>5, <1>6, <1>7, <1>8, <1>9, <1>10, <1>11, Zenon DEF MovesOn, Step

(* A row that a start counts on stays: a request that takes one away      *)
(* leaves the lock of the host free.                                      *)
LEMMA RowsHeld ==
    ASSUME HouseInv, NEW r \in Requests, MovesOn(r)
    PROVE  BuildHasRow'
  <1>1. /\ Known /\ AllWellAsked /\ BuildHasRow
        /\ KeptRows /\ RowType /\ kept \subseteq [who : Characters, tree : Trees, row : Rows]
    BY Zenon DEF HouseInv, DataType, Known, RowType
  <1>2. \A s \in Requests \ {r} : req'[s] = req[s]
    BY Turns, Zenon DEF Turned
  <1>3. NobodyLeaves \/ TakesAway(r)
    BY DiskStep
  <1>4. \A s \in Requests : UnderWay(s)' => hostLock' = s
    BY HostStep, Zenon DEF Host, HostHeld
  (* the mover's own row *)
  <1>5. At(r, "building")' => row'[Who(r)'] # NoRow
    <2>1. CASE Asks(r) \/ AsksToRestore(r)
      <3>1. ~UnderWay(r)'
        BY <1>1, <2>1, AsksIs
      <3>. QED
        BY <3>1 DEF UnderWay
    <2>2. CASE Quietly(r)
      BY <2>2 DEF Quietly, UnderWay
    <2>3. CASE StartTakes(r)
      <3>1. CASE Quietly(r)
        BY <2>2, <3>1
      <3>2. CASE Who(r)' = Who(r) /\ row[Who(r)] # NoRow
        <4>1. row' = row
          BY <2>3, SMT DEF StartTakes, disk
        <4>. QED
          BY <3>2, <4>1
      <3>. QED
        BY <1>1, <2>3, <3>1, <3>2, StartTakesIs
    <2>4. CASE StopTakes(r)
      <3>1. CASE Quietly(r)
        BY <2>2, <3>1
      <3>2. CASE At(r, "stopping")'
        BY <3>2, AtIs, SMT DEF At
      <3>. QED
        BY <1>1, <2>4, <3>1, <3>2, StopTakesIs, Zenon
    <2>5. CASE TakesLife(r)
      <3>1. ~UnderWay(r)'
        BY <1>1, <2>5, TakesLifeIs, Zenon DEF Quietly
      <3>. QED
        BY <3>1 DEF UnderWay
    <2>. QED
      BY <1>1, <2>1, <2>2, <2>3, <2>4, <2>5, DeskQuietly, StartedIs, StoppedIs, RestoresIs,
         CopyBeginsIs, CopyEndsIs, Zenon DEF MovesOn, Step
  <1>6. ASSUME NEW s \in Requests \ {r}, At(s, "building")' PROVE row'[Who(s)'] # NoRow
    <2>1. At(s, "building") /\ Who(s)' = Who(s) /\ hostLock' = s
      BY <1>2, <1>4, <1>6, OthersStay DEF UnderWay
    <2>2. row[Who(s)] # NoRow /\ Who(s) \in Characters
      BY <1>1, <2>1, AtIs, WhoIs DEF BuildHasRow
    <2>3. NobodyLeaves
      BY <1>3, <2>1, NobodyIsZero, Zenon DEF TakesAway
    <2>. QED
      BY <2>1, <2>2, <2>3, Zenon DEF NobodyLeaves
  <1>. QED
    BY <1>5, <1>6, Zenon DEF BuildHasRow

(* Who is up, with which hands, and who answers.                          *)
Serving == /\ up \subseteq Characters /\ hands \in [Characters -> BOOLEAN]
           /\ primary \in Characters \cup {None} /\ cloning \subseteq Characters
           /\ Answers

(* A record has hands or not.                                             *)
LEMMA RecHands == ASSUME NEW w \in Rows PROVE w.hands \in BOOLEAN
  <1>1. NoRow.hands \in BOOLEAN
    BY Zenon DEF NoRow
  <1>2. CASE w = NoRow
    BY <1>1, <1>2, Zenon
  <1>. QED
    BY <1>2, RowParts, Zenon

LEMMA HandsSet ==
    ASSUME NEW f \in [Characters -> BOOLEAN], NEW c, NEW b \in BOOLEAN
    PROVE  [f EXCEPT ![c] = b] \in [Characters -> BOOLEAN]
  OBVIOUS

(* Nothing changes for the routes that name nobody.                       *)
LEMMA AnswersStay ==
    ASSUME Answers, NEW r \in Requests, Turned(r), ~UnderWay(r), up' = up, primary' = primary
    PROVE  Answers'
  <1>1. \A s \in Requests \ {r} : (At(s, "stopping")' <=> At(s, "stopping")) /\ Who(s)' = Who(s)
    BY OthersStay DEF Turned
  <1>2. ~At(r, "stopping")
    BY Zenon DEF UnderWay
  <1>. QED
    BY <1>1, <1>2, SMT DEF Answers

(* One step per action.                                                   *)
LEMMA ServingStep ==
    ASSUME HouseInv, NEW r \in Requests, MovesOn(r)
    PROVE  Serving'
  <1>1. /\ Known /\ AllWellAsked /\ HostHeld /\ Answers /\ HostHeld
        /\ KeptRows /\ RowType /\ kept \subseteq [who : Characters, tree : Trees, row : Rows]
    BY Zenon DEF HouseInv, DataType, Known, Host, RowType
  <1>2. /\ up \subseteq Characters /\ hands \in [Characters -> BOOLEAN]
        /\ primary \in Characters \cup {None} /\ cloning \subseteq Characters
    BY Zenon DEF HouseInv, DataType
  <1>3. Turned(r)
    BY Turns
  <1>4. \A s \in Requests \ {r} : (At(s, "stopping")' <=> At(s, "stopping")) /\ Who(s)' = Who(s)
    BY <1>3, OthersStay DEF Turned
  <1>5. \A s \in Requests : At(s, "stopping") => hostLock = s
    BY <1>1, Zenon DEF HostHeld, UnderWay
  <1>6. CASE Asks(r) \/ AsksToRestore(r)
    <2>1. UNCHANGED <<serving, cloning>>
      BY <1>6, Zenon DEF Asks, AsksToRestore
    <2>2. ~UnderWay(r)
      BY <1>1, <1>6, AsksIs
    <2>3. up' = up /\ primary' = primary /\ hands' = hands /\ cloning' = cloning
      BY <2>1, SMT DEF serving
    <2>4. Answers'
      BY <1>1, <1>3, <2>2, <2>3, AnswersStay
    <2>. QED
      BY <1>2, <2>3, <2>4, Zenon DEF Serving
  <1>7. CASE Saves(r) \/ Retunes(r) \/ Reloads(r)
    <2>1. up' = up /\ primary' = primary /\ cloning' = cloning
      BY <1>7, SMT DEF Saves, Retunes, Reloads, serving
    <2>2. ~UnderWay(r)
      BY <1>1, <1>7, DeskQuietly
    <2>3. Answers'
      BY <1>1, <1>3, <2>1, <2>2, AnswersStay
    <2>4. hands' \in [Characters -> BOOLEAN]
      <3>1. CASE Saves(r)
        <4>1. At(r, "save")
          BY <3>1, Zenon DEF Saves
        <4>2. Edited(req[r]).hands \in BOOLEAN
          BY <1>1, <4>1, SavedIs, RecHands
        <4>3. hands' = hands \/ hands' = [hands EXCEPT ![Who(r)] = Edited(req[r]).hands]
          BY <3>1, Zenon DEF Saves
        <4>. QED
          BY <1>2, <4>2, <4>3, HandsSet
      <3>2. CASE Retunes(r)
        <4>1. At(r, "retune")
          BY <3>2, Zenon DEF Retunes
        <4>2. req[r].rec.hands \in BOOLEAN
          BY <1>1, <4>1, AtIs, WhoIs, RecHands
        <4>3. hands' = hands \/ hands' = [hands EXCEPT ![Who(r)] = req[r].rec.hands]
          BY <3>2, Zenon DEF Retunes
        <4>. QED
          BY <1>2, <4>2, <4>3, HandsSet
      <3>3. CASE Reloads(r)
        BY <1>2, <3>3, SMT DEF Reloads, serving
      <3>. QED
        BY <1>7, <3>1, <3>2, <3>3
    <2>. QED
      BY <1>2, <2>1, <2>3, <2>4, Zenon DEF Serving
  <1>8. CASE StartTakes(r)
    <2>1. UNCHANGED <<serving, cloning>>
      BY <1>8, Zenon DEF StartTakes
    <2>2. up' = up /\ primary' = primary /\ hands' = hands /\ cloning' = cloning
      BY <2>1, SMT DEF serving
    <2>3. ~UnderWay(r)
      BY <1>1, <1>8, StartTakesIs
    <2>4. Answers'
      BY <1>1, <1>3, <2>2, <2>3, AnswersStay
    <2>. QED
      BY <1>2, <2>2, <2>4, Zenon DEF Serving
  <1>9. CASE Started(r)
    <2>. DEFINE c == Who(r)
    <2>1. At(r, "building") /\ c \in Characters /\ req[r].rec.hands \in BOOLEAN
      BY <1>1, <1>9, StartedIs, AtIs, WhoIs, RecHands
    <2>2. /\ cloning' = cloning
          /\ \/ /\ up' = up \cup {c} /\ hands' = [hands EXCEPT ![c] = req[r].rec.hands]
                /\ primary' = IF primary \in up THEN primary ELSE c
             \/ UNCHANGED serving
      BY <1>9, Zenon DEF Started
    <2>3. \A s \in Requests : ~At(s, "stopping")
      <3>1. hostLock = r
        BY <1>1, <2>1, Zenon DEF HostHeld, UnderWay
      <3>. QED
        BY <1>5, <2>1, <3>1, AtIs, SMT
    <2>4. CASE UNCHANGED serving
      <3>1. up' = up /\ primary' = primary /\ hands' = hands
        BY <2>4, SMT DEF serving
      <3>2. Answers'
        BY <1>1, <2>3, <3>1, SMT DEF Answers
      <3>. QED
        BY <1>2, <2>2, <3>1, <3>2, Zenon DEF Serving
    <2>5. CASE /\ up' = up \cup {c} /\ hands' = [hands EXCEPT ![c] = req[r].rec.hands]
               /\ primary' = IF primary \in up THEN primary ELSE c
      <3>1. hands' \in [Characters -> BOOLEAN]
        BY <1>2, <2>1, <2>5, HandsSet
      <3>2. primary' \in up' /\ up' \subseteq Characters /\ primary' \in Characters \cup {None}
        BY <1>2, <2>1, <2>5, SMT
      <3>3. Answers'
        BY <3>2, Zenon DEF Answers
      <3>. QED
        BY <1>2, <2>2, <3>1, <3>2, <3>3, Zenon DEF Serving
    <2>. QED
      BY <2>2, <2>4, <2>5
  <1>10. ASSUME NEW c, HandsOver(c), up' = up, UNCHANGED <<hands, cloning>>,
                up # {} => primary \in up \/ primary = c
         PROVE  Serving'
    <2>1. /\ primary' = primary \/ primary' = None \/ primary' \in up
          /\ up # {} => primary' \in up
      BY <1>10, SMT DEF HandsOver
    <2>2. Answers'
      BY <1>10, <2>1, SMT DEF Answers
    <2>. QED
      BY <1>2, <1>10, <2>1, <2>2, SMT DEF Serving
  <1>11. CASE StopTakes(r)
    <2>. DEFINE c == Who(r)
    <2>1. /\ At(r, "stop") /\ hostLock = None
          /\ \/ c \notin up /\ up' = up /\ HandsOver(c)
             \/ /\ At(r, "stopping")' /\ Who(r)' = c
                /\ c \in up /\ up' = up \ {c} /\ primary' = primary
      BY <1>1, <1>11, StopTakesIs, Zenon
    <2>2. hands' = hands /\ cloning' = cloning
      BY <1>11, Zenon DEF StopTakes
    <2>3. up # {} => primary \in up
      BY <1>1, <1>5, <2>1, NobodyIsZero, SMT DEF Answers
    <2>4. CASE c \notin up /\ up' = up /\ HandsOver(c)
      BY <1>10, <2>2, <2>3, <2>4
    <2>5. CASE At(r, "stopping")' /\ Who(r)' = c /\ up' = up \ {c} /\ primary' = primary
      <3>1. Answers'
        BY <2>3, <2>5, SMT DEF Answers
      <3>. QED
        BY <1>2, <2>2, <2>5, <3>1, SMT DEF Serving
    <2>. QED
      BY <2>1, <2>4, <2>5
  <1>12. CASE Stopped(r)
    <2>1. At(r, "stopping") /\ hostLock = r /\ up' = up /\ HandsOver(Who(r))
      BY <1>1, <1>5, <1>12, StoppedIs
    <2>2. hands' = hands /\ cloning' = cloning
      BY <1>12, Zenon DEF Stopped
    <2>3. up # {} => primary \in up \/ primary = Who(r)
      BY <1>1, <1>5, <2>1, SMT DEF Answers
    <2>. QED
      BY <1>10, <2>1, <2>2, <2>3
  <1>13. CASE TakesLife(r) \/ Restores(r) \/ CopyBegins(r) \/ CopyEnds(r)
    <2>1. UNCHANGED serving
      BY <1>13, Zenon DEF TakesLife, Restores, CopyBegins, CopyEnds
    <2>2. up' = up /\ primary' = primary /\ hands' = hands
      BY <2>1, SMT DEF serving
    <2>3. ~UnderWay(r) /\ Who(r) \in Characters
      <3>1. ~UnderWay(r) /\ ~Idle(r)
        <4>1. At(r, "life") \/ At(r, "copy") \/ At(r, "copying")
          BY <1>13, Zenon DEF TakesLife, Restores, CopyBegins, CopyEnds
        <4>. QED
          BY <4>1, AtIs, SMT DEF UnderWay
      <3>. QED
        BY <1>1, <3>1, WhoIs
    <2>4. Answers'
      BY <1>1, <1>3, <2>2, <2>3, AnswersStay
    <2>5. cloning' \in {cloning, cloning \cup {Who(r)}, cloning \ {Who(r)}}
      BY <1>13, Zenon DEF TakesLife, Restores, CopyBegins, CopyEnds, CopyOver
    <2>6. cloning' \subseteq Characters
      BY <1>2, <2>3, <2>5, SMT
    <2>. QED
      BY <1>2, <2>2, <2>4, <2>6, Zenon DEF Serving
  <1>. QED
    BY <1>6, <1>7, <1>8, <1>9, <1>11, <1>12, <1>13, Zenon DEF MovesOn, Step

(* What a crash may leave of the disk.                                     *)
LEMMA LeftIs ==
    ASSUME HouseInv, NEW left \in LeftBehind
    PROVE  /\ left.board \in [Characters -> Trees \cup {"none"}]
           /\ left.kept \subseteq [who : Characters, tree : Trees, row : Rows]
           /\ \A k \in left.kept : k.row # NoRow
           /\ torn \subseteq left.torn /\ left.torn \subseteq Characters
           /\ \A c \in Characters \ left.torn : left.board[c] = board[c]
           /\ \A c \in Characters : board[c] # "none" /\ left.board[c] = "none" =>
                 \E r \in Moving : Who(r) = c
  <1>1. /\ DiskOK /\ AllWellAsked
        /\ board \in [Characters -> Trees \cup {"none"}] /\ KeptRows
        /\ kept \subseteq [who : Characters, tree : Trees, row : Rows] /\ torn \subseteq Characters
        /\ row \in [Characters -> Rows]
    BY Zenon DEF HouseInv, DiskOK, DataType, Known
  <1>2. CASE left = [board |-> board, kept |-> kept, torn |-> torn]
    BY <1>1, <1>2, SMT DEF KeptRows
  <1>3. ASSUME NEW r \in Moving, NEW written \in BOOLEAN,
               left = [board |-> [board EXCEPT ![Who(r)] = "none"], torn |-> torn \cup {Who(r)},
                       kept |-> Away(req[r], Who(r), written)]
        PROVE  /\ left.board \in [Characters -> Trees \cup {"none"}]
               /\ left.kept \subseteq [who : Characters, tree : Trees, row : Rows]
               /\ \A k \in left.kept : k.row # NoRow
               /\ torn \subseteq left.torn /\ left.torn \subseteq Characters
               /\ \A c \in Characters \ left.torn : left.board[c] = board[c]
               /\ \A c \in Characters : board[c] # "none" /\ left.board[c] = "none" => Who(r) = c
    <2>. DEFINE d == Who(r)
                away == Away(req[r], d, written)
                nb == [board EXCEPT ![d] = "none"]
    <2>1. r \in Requests /\ At(r, "stopping") /\ Leaves(r) /\ board[d] # "none"
      BY SMT DEF Moving, Leaves
    <2>2. d \in Characters /\ req[r].rec \in Rows /\ req[r].rec # NoRow
      BY <1>1, <2>1, AtIs, WhoIs
    <2>3. /\ away \subseteq [who : Characters, tree : Trees, row : Rows]
          /\ \A k \in away : k.row # NoRow
      BY <1>1, <2>1, <2>2, AwayIs, Zenon
    <2>. HIDE DEF d, away
    <2>4. /\ nb \in [Characters -> Trees \cup {"none"}] /\ nb[d] = "none"
          /\ \A c \in Characters \ {d} : nb[c] = board[c]
      BY <1>1, <2>2, SMT
    <2>. HIDE DEF nb
    <2>5. left = [board |-> nb, torn |-> torn \cup {d}, kept |-> away]
      BY <1>3 DEF nb, d, away
    <2>6. left.board = nb /\ left.torn = torn \cup {d} /\ left.kept = away
      BY <2>5, SMT
    <2>7. \A c \in Characters : board[c] # "none" /\ left.board[c] = "none" => d = c
      BY <2>4, <2>6, SMT
    <2>. QED
      BY <1>1, <2>2, <2>3, <2>4, <2>6, <2>7, SMT DEF d
  <1>4. ASSUME NEW r \in Copying,
               left = [board |-> [board EXCEPT ![req[r].to] = "copied"],
                       torn |-> torn \cup {req[r].to}, kept |-> kept]
        PROVE  /\ left.board \in [Characters -> Trees \cup {"none"}]
               /\ left.kept \subseteq [who : Characters, tree : Trees, row : Rows]
               /\ \A k \in left.kept : k.row # NoRow
               /\ torn \subseteq left.torn /\ left.torn \subseteq Characters
               /\ \A c \in Characters \ left.torn : left.board[c] = board[c]
               /\ \A c \in Characters : board[c] # "none" => left.board[c] # "none"
    <2>. DEFINE d == req[r].to
                nb == [board EXCEPT ![d] = "copied"]
    <2>1. d \in Characters
      BY <1>1, AtIs, WhoIs, Zenon DEF Copying
    <2>. HIDE DEF d
    <2>2. /\ nb \in [Characters -> Trees \cup {"none"}] /\ nb[d] # "none"
          /\ \A c \in Characters \ {d} : nb[c] = board[c]
      BY <1>1, <2>1, SMT DEF Trees
    <2>. HIDE DEF nb
    <2>3. left = [board |-> nb, torn |-> torn \cup {d}, kept |-> kept]
      BY <1>4 DEF nb, d
    <2>4. left.board = nb /\ left.torn = torn \cup {d} /\ left.kept = kept
      BY <2>3, SMT
    <2>. QED
      BY <1>1, <2>1, <2>2, <2>4, SMT DEF KeptRows
  <1>5. \/ left = [board |-> board, kept |-> kept, torn |-> torn]
        \/ \E r \in Moving, written \in BOOLEAN :
             left = [board |-> [board EXCEPT ![Who(r)] = "none"], torn |-> torn \cup {Who(r)},
                     kept |-> Away(req[r], Who(r), written)]
        \/ \E r \in Copying :
             left = [board |-> [board EXCEPT ![req[r].to] = "copied"],
                     torn |-> torn \cup {req[r].to}, kept |-> kept]
    BY SMT DEF LeftBehind
  <1>6. CASE \E r \in Moving, written \in BOOLEAN :
             left = [board |-> [board EXCEPT ![Who(r)] = "none"], torn |-> torn \cup {Who(r)},
                     kept |-> Away(req[r], Who(r), written)]
    BY <1>3, <1>6
  <1>7. CASE \E r \in Copying :
             left = [board |-> [board EXCEPT ![req[r].to] = "copied"],
                     torn |-> torn \cup {req[r].to}, kept |-> kept]
    <2>1. /\ left.board \in [Characters -> Trees \cup {"none"}]
          /\ left.kept \subseteq [who : Characters, tree : Trees, row : Rows]
          /\ \A k \in left.kept : k.row # NoRow
          /\ torn \subseteq left.torn /\ left.torn \subseteq Characters
          /\ \A c \in Characters \ left.torn : left.board[c] = board[c]
          /\ \A c \in Characters : board[c] # "none" => left.board[c] # "none"
      BY <1>4, <1>7
    <2>. QED
      BY <2>1, Zenon
  <1>. QED
    BY <1>2, <1>5, <1>6, <1>7

(* A crash loses the requests and the locks, and keeps the rest.          *)
LEMMA CrashKeeps == ASSUME HouseInv, Crash PROVE HouseInv'
  <1>1. Known' /\ \A r \in Requests : Idle(r)' /\ ~UnderWay(r)' /\ ~Leaves(r)'
    BY CrashIs
  <1>2. /\ row \in [Characters -> Rows] /\ board \in [Characters -> Trees \cup {"none"}]
        /\ hands \in [Characters -> BOOLEAN] /\ RowAndTreeAgree
    BY Zenon DEF HouseInv, DataType
  <1>3. PICK left \in LeftBehind :
          /\ kept' = left.kept /\ torn' = left.torn
          /\ board' = [c \in Characters |-> IF c \in up' /\ left.board[c] = "none" THEN "ghost"
                                            ELSE left.board[c]]
    BY Zenon DEF Crash
  <1>4. /\ left.board \in [Characters -> Trees \cup {"none"}]
        /\ left.kept \subseteq [who : Characters, tree : Trees, row : Rows]
        /\ \A k \in left.kept : k.row # NoRow
        /\ torn \subseteq left.torn /\ left.torn \subseteq Characters
        /\ \A c \in Characters \ left.torn : left.board[c] = board[c]
    BY LeftIs
  <1>5. /\ row' = row /\ up' \in SUBSET {c \in Characters : row[c].life = "on"}
        /\ hands' = [c \in Characters |-> IF c \in up' THEN row[c].hands ELSE hands[c]]
        /\ primary' \in IF up' # {} THEN up' ELSE {None} \cup {c \in Characters : row[c].life = "on"}
        /\ hostLock' = None /\ cloning' = {}
    BY Zenon DEF Crash
  <1>6. up' \subseteq Characters /\ \A c \in up' : row[c] # NoRow
    BY <1>2, <1>5, LivingIsARow, SMT DEF Lives
  <1>7. hands' \in [Characters -> BOOLEAN]
    <2>1. \A c \in Characters : row[c].hands \in BOOLEAN /\ hands[c] \in BOOLEAN
      BY <1>2, RecHands
    <2>2. \A c \in Characters : (IF c \in up' THEN row[c].hands ELSE hands[c]) \in BOOLEAN
      BY <2>1, Zenon
    <2>. QED
      BY <1>5, <2>2, Zenon
  <1>8. primary' \in Characters \cup {None} /\ (up' # {} => primary' \in up')
    BY <1>5, <1>6, SMT
  <1>9. /\ board' \in [Characters -> Trees \cup {"none"}]
        /\ \A c \in Characters : board'[c] = IF c \in up' /\ left.board[c] = "none" THEN "ghost"
                                            ELSE left.board[c]
    BY <1>3, <1>4, SMT DEF Trees
  <1>10. RowAndTreeAgree'
    BY <1>2, <1>3, <1>4, <1>5, <1>6, <1>9, SMT DEF RowAndTreeAgree
  <1>11. KeptRows' /\ Answers' /\ BuildHasRow'
    <2>1. \A r \in Requests : ~At(r, "building")'
      BY <1>1 DEF UnderWay
    <2>. QED
      BY <1>1, <1>3, <1>4, <1>8, <2>1, Zenon DEF KeptRows, Answers, BuildHasRow
  <1>12. Host'
    BY <1>1, <1>5, SMT DEF Host, HostHeld
  <1>13. DataType'
    BY <1>2, <1>3, <1>4, <1>5, <1>6, <1>7, <1>8, <1>9, SMT DEF DataType
  <1>. QED
    BY <1>1, <1>10, <1>11, <1>12, <1>13, Zenon DEF HouseInv

(* Before the first request.                                              *)
LEMMA HouseInit == ASSUME Init PROVE HouseInv
  <1>1. PICK life \in Lives :
           row = [c \in Characters |-> IF c = Her THEN [life |-> life, hands |-> TRUE] ELSE NoRow]
    BY Zenon DEF Init
  <1>. DEFINE w == [life |-> life, hands |-> TRUE]
  <1>2. w \in Rows /\ w # NoRow
    BY RowIs, Zenon
  <1>3. row = [c \in Characters |-> IF c = Her THEN w ELSE NoRow]
    BY <1>1
  <1>. HIDE DEF w
  <1>4. /\ row \in [Characters -> Rows]
        /\ \A c \in Characters : (row[c] = NoRow) = (c # Her)
    BY <1>2, <1>3, NoRowIs, SMT
  <1>5. /\ board = [c \in Characters |-> IF c = Her THEN "hers" ELSE "none"]
        /\ kept = {} /\ cloning = {} /\ torn = {}
        /\ up \in IF row[Her].life = "on" THEN {{}, {Her}} ELSE {{}}
        /\ hands = [c \in Characters |-> row[c].hands]
        /\ primary = IF row[Her].life = "on" THEN Her ELSE None
        /\ hostLock = None /\ lifeLock = None
        /\ req = [r \in Requests |-> NotAsked]
    BY Zenon DEF Init
  <1>6. /\ DOMAIN req = Requests /\ \A r \in Requests : req[r] = NotAsked
    BY <1>5
  <1>7. \A r \in Requests : Idle(r) /\ ~UnderWay(r) /\ ~Leaves(r) /\ ~At(r, "building")
    BY <1>6, Nobody, SMT DEF Idle, UnderWay, Leaves, At
  <1>8. Known /\ Host
    <2>1. AllWellAsked
      BY <1>6, Nobody, Zenon DEF AllWellAsked
    <2>. QED
      BY <1>5, <1>7, <2>1, SMT DEF Known, Host, HostHeld, LifeHeld, LifeLock
  <1>9. /\ board \in [Characters -> Trees \cup {"none"}]
        /\ \A c \in Characters : (board[c] = "none") = (c # Her)
    BY <1>5, SMT DEF Trees
  <1>10. hands \in [Characters -> BOOLEAN]
    <2>1. \A c \in Characters : row[c].hands \in BOOLEAN
      BY <1>4, RecHands
    <2>. QED
      BY <1>5, <2>1, Zenon
  <1>11. up \subseteq Characters /\ (up # {} => primary \in up) /\ primary \in Characters \cup {None}
    BY <1>5, HouseAssumption, SMT
  <1>12. DataType
    BY <1>4, <1>5, <1>9, <1>10, <1>11, SMT DEF DataType
  <1>13. RowAndTreeAgree /\ Answers /\ KeptRows /\ BuildHasRow
    BY <1>4, <1>5, <1>7, <1>9, <1>11, SMT
       DEF RowAndTreeAgree, Answers, KeptRows, BuildHasRow
  <1>. QED
    BY <1>8, <1>12, <1>13, Zenon DEF HouseInv

(* Every step keeps what is kept.                                         *)
LEMMA HouseStep == ASSUME HouseInv, [Next]_vars PROVE HouseInv'
  <1>1. ASSUME NEW r \in Requests, MovesOn(r) PROVE HouseInv'
    <2>1. Known'
      BY <1>1, Turns, Zenon DEF Turned
    <2>2. DiskOK' /\ Serving' /\ Host' /\ BuildHasRow'
      BY <1>1, DiskStep, ServingStep, HostStep, RowsHeld
    <2>. QED
      BY <2>1, <2>2, Zenon DEF HouseInv, DataType, DiskOK, Serving
  <1>2. CASE Crash
    BY <1>2, CrashKeeps
  <1>3. CASE UNCHANGED vars
    <2>1. /\ row' = row /\ board' = board /\ kept' = kept /\ up' = up /\ hands' = hands
          /\ primary' = primary /\ hostLock' = hostLock /\ lifeLock' = lifeLock
          /\ cloning' = cloning /\ req' = req /\ torn' = torn
      BY <1>3, SMT DEF vars, disk, serving
    <2>2. Known'
      BY <2>1, SMT DEF HouseInv, Known, AllWellAsked, LifeHeld, LifeLock, Idle, At
    <2>3. Host' /\ BuildHasRow'
      BY <2>1, SMT DEF HouseInv, Host, HostHeld, BuildHasRow, UnderWay, Leaves, At,
                       Idle, Who
    <2>4. DataType' /\ KeptRows' /\ RowAndTreeAgree'
      BY <2>1, SMT DEF HouseInv, DataType, KeptRows, RowAndTreeAgree
    <2>5. Answers'
      BY <2>1, SMT DEF HouseInv, Answers, At, Idle, Who
    <2>. QED
      BY <2>2, <2>3, <2>4, <2>5, Zenon DEF HouseInv
  <1>. QED
    BY <1>1, <1>2, <1>3, Zenon DEF Next, MovesOn

(* Every variable of the house keeps its type, a lock's holder is under   *)
(* way, and what is under way knows what it asked (hosting.py,            *)
(* switchboard.py).                                                       *)
THEOREM HouseTypeCorrect == Spec => []TypeOK
  <1>1. HouseInv => TypeOK
    <2>. SUFFICES ASSUME HouseInv PROVE TypeOK
      OBVIOUS
    <2>1. /\ DataType /\ AllWellAsked /\ LifeLock
          /\ hostLock \in Requests \cup {None} /\ (hostLock # None => UnderWay(hostLock))
      BY Zenon DEF HouseInv, Known, Host
    <2>2. \A r \in Requests : req[r].op \in Ops \cup {"none"} /\ req[r].edit \in Edits
      BY <2>1, Zenon DEF AllWellAsked, WellAsked
    <2>. QED
      BY <2>1, <2>2, Zenon DEF TypeOK, DataType, LifeLock, UnderWay
  <1>. QED
    BY <1>1, HouseInit, HouseStep, PTL DEF Spec

(* Who holds the lock of the host is one, and she is not served.          *)
LEMMA OneLive == ASSUME HostHeld, NEW c PROVE Live(c) <= 1
  <1>1. CASE \A r \in Requests : UnderWay(r) => Who(r) # c
    <2>1. {r \in Requests : /\ At(r, "building") \/ At(r, "stopping")
                            /\ Who(r) = c} = {}
      BY <1>1, SMT DEF UnderWay
    <2>. QED
      BY <2>1, FS_EmptySet, SMT DEF Live
  <1>2. CASE \E r \in Requests : UnderWay(r) /\ Who(r) = c
    <2>1. PICK r \in Requests : UnderWay(r) /\ Who(r) = c
      BY <1>2
    <2>2. c \notin up /\ \A s \in Requests : UnderWay(s) => s = r
      BY <2>1, SMT DEF HostHeld
    <2>3. {s \in Requests : /\ At(s, "building") \/ At(s, "stopping")
                            /\ Who(s) = c} = {r}
      BY <2>1, <2>2, SMT DEF UnderWay
    <2>4. Cardinality({r}) = 1
      BY FS_Singleton
    <2>. QED
      BY <2>2, <2>3, <2>4, SMT DEF Live
  <1>. QED
    BY <1>1, <1>2

(* One runtime at a time on a tree, served, being built or being stopped  *)
(* (CharacterHost.start and stop, SPEC 29.4, 29.5), for every set of ids  *)
(* and any number of requests, failures and crashes.                      *)
THEOREM OneRuntimeATree == Spec => []OneRuntime
  <1>1. HouseInv => OneRuntime
    BY OneLive, Zenon DEF HouseInv, Host, OneRuntime
  <1>. QED
    BY <1>1, HouseInit, HouseStep, PTL DEF Spec

(* The board lists her when her tree is there and only then, but where a  *)
(* second failure, a crash between the two writes or a save begun before  *)
(* she left has parted them (registry.py, clone.py, archive.py).          *)
THEOREM RowsHaveTrees == Spec => []RowAndTreeAgree
  <1>1. HouseInv => RowAndTreeAgree
    BY Zenon DEF HouseInv
  <1>. QED
    BY <1>1, HouseInit, HouseStep, PTL DEF Spec

(* Whenever somebody is up and nobody is on the way down, the routes that *)
(* name no character are answered by one who is up                        *)
(* (CharacterHost.primary).                                               *)
THEOREM PrimaryIsUp == Spec => []SomebodyAnswers
  <1>1. HouseInv => SomebodyAnswers
    BY Zenon DEF HouseInv, Answers, SomebodyAnswers
  <1>. QED
    BY <1>1, HouseInit, HouseStep, PTL DEF Spec

(* QuietMoves, of one step.                                               *)
Quiet == \A c \in Characters :
           board[c] # "none" /\ board'[c] = "none" =>
             /\ ~CopiedFrom(c) /\ c \notin up /\ Live(c)' = 0
             /\ \A r \in Requests : At(r, "building") => Who(r) # c

(* Whoever moves a tree away holds both locks, and has seen her stopped.  *)
LEMMA QuietStep == ASSUME HouseInv, HouseInv', [Next]_vars PROVE Quiet
  <1>1. /\ Known /\ AllWellAsked /\ HostHeld /\ LifeHeld /\ DiskOK /\ RowAndTreeAgree
        /\ HostHeld'
    BY Zenon DEF HouseInv, Known, Host, DataType, DiskOK
  <1>. SUFFICES ASSUME NEW c \in Characters, board[c] # "none", board'[c] = "none"
                PROVE  /\ ~CopiedFrom(c) /\ c \notin up /\ Live(c)' = 0
                       /\ \A r \in Requests : At(r, "building") => Who(r) # c
    BY Zenon DEF Quiet
  (* the one who leaves holds both locks *)
  <1>2. PICK r \in Requests : /\ Leaves(r) /\ hostLock' = None /\ c \notin up /\ c \notin up'
                              /\ hostLock = None \/ (hostLock = r /\ At(r, "stopping"))
    <2>1. ASSUME NEW r \in Requests, MovesOn(r)
          PROVE  /\ Leaves(r) /\ hostLock' = None /\ c \notin up /\ c \notin up'
                 /\ hostLock = None \/ (hostLock = r /\ At(r, "stopping"))
      <3>1. NobodyLeaves \/ TakesAway(r)
        BY <2>1, DiskStep
      <3>2. ~NobodyLeaves
        BY SMT DEF NobodyLeaves
      <3>3. TakesAway(r)
        BY <3>1, <3>2
      <3>4. c = Who(r)
        BY <3>3, Zenon DEF TakesAway
      <3>5. At(r, "stopping") => Who(r) \notin up
        BY <1>1, Zenon DEF HostHeld, UnderWay
      <3>. QED
        BY <3>3, <3>4, <3>5, Zenon DEF TakesAway
    <2>2. ASSUME Crash
          PROVE  \E r \in Requests :
                    /\ Leaves(r) /\ hostLock' = None /\ c \notin up /\ c \notin up'
                    /\ hostLock = r /\ At(r, "stopping")
      <3>1. PICK left \in LeftBehind :
              board' = [d \in Characters |-> IF d \in up' /\ left.board[d] = "none" THEN "ghost"
                                             ELSE left.board[d]]
        BY <2>2, Zenon DEF Crash
      <3>2. c \notin up' /\ left.board[c] = "none"
        BY <3>1, SMT
      <3>3. PICK r \in Moving : Who(r) = c
        BY <3>2, LeftIs
      <3>4. r \in Requests /\ Leaves(r) /\ At(r, "stopping")
        BY SMT DEF Moving, Leaves
      <3>5. hostLock = r /\ c \notin up
        BY <1>1, <3>3, <3>4, Zenon DEF HostHeld, UnderWay
      <3>6. hostLock' = None
        BY <2>2, Zenon DEF Crash
      <3>. QED
        BY <3>2, <3>4, <3>5, <3>6
    <2>3. ~UNCHANGED vars
      BY SMT DEF vars, disk
    <2>. QED
      BY <2>1, <2>2, <2>3, Zenon DEF Next, MovesOn
  <1>3. Live(c)' = 0
    <2>1. \A s \in Requests : ~UnderWay(s)'
      BY <1>1, <1>2, NobodyIsZero, Zenon DEF HostHeld
    <2>2. {s \in Requests : /\ At(s, "building") \/ At(s, "stopping")
                            /\ Who(s) = c}' = {}
      BY <2>1, SMT DEF UnderWay
    <2>. QED
      BY <1>2, <2>2, FS_EmptySet, SMT DEF Live
  <1>4. ~CopiedFrom(c)
    <2>. SUFFICES ASSUME NEW s \in Requests, At(s, "copying") PROVE FALSE
      BY Zenon DEF CopiedFrom
    <2>1. req[s].op = "clone" /\ ~Idle(s) /\ ~At(s, "life") /\ ~Leaves(s)
      BY <1>1, CloneIs
    <2>2. lifeLock = s
      BY <1>1, <2>1, SMT DEF LifeHeld
    <2>3. lifeLock = r
      BY <1>1, <1>2, AtIs, SMT DEF LifeHeld, Leaves
    <2>. QED
      BY <1>2, <2>1, <2>2, <2>3
  <1>5. \A s \in Requests : ~At(s, "building")
    BY <1>1, <1>2, AtIs, NobodyIsZero, SMT DEF HostHeld, UnderWay
  <1>. QED
    BY <1>2, <1>3, <1>4, <1>5

(* A tree is renamed away only when nothing runs on it or is built on it, *)
(* and it is not being copied (archive.py, SPEC 36.3).                    *)
THEOREM TreesMoveQuietly == Spec => QuietMoves
  <1>1. HouseInv /\ HouseInv' /\ [Next]_vars => [Quiet]_vars
    BY QuietStep
  <1>. QED
    BY <1>1, HouseInit, HouseStep, PTL DEF Spec, QuietMoves, Quiet
=============================================================================
