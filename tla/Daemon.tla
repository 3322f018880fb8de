-------------------------------- MODULE Daemon --------------------------------
(***************************************************************************)
(* The process that holds her (SPEC 10.6): the pid file that is a lock, the*)
(* supervisor that takes it and keeps `python -m yurios.world` up          *)
(* (daemon.py), and `yurios stop`, which finds the holder by probing the   *)
(* lock and signals it (cli.py).  Every one is a process of its own, and   *)
(* between any two of its system calls another may act.                    *)
(*                                                                         *)
(* A start is a supervisor that runs once; a pid is the supervisor that had*)
(* it.  A file is an inode: the path names one or none, and a process may  *)
(* hold open, or have locked, one the path no longer names.  Logs and the  *)
(* record of the last exit are left out.                                   *)
(***************************************************************************)
EXTENDS Naturals, FiniteSets

CONSTANTS
    Supervisors,        \* starts, each of which may win the runtime
    Stops,              \* `yurios stop`s, each used again when it is over
    Files,              \* inodes the pid file may have
    NoOne,               \* no process, no file
    MaxFast             \* MAX_FAST_FAILURES

Processes == Supervisors \cup Stops

ASSUME DaemonAssumption ==
    /\ Supervisors \cap Stops = {}
    /\ NoOne \notin Processes \cup Files
    /\ MaxFast \in Nat

VARIABLES
    path,               \* the file .yurios/yurios.pid names
    owner,              \* file -> who has its flock
    text,               \* file -> the pid written in it
    fd,                 \* process -> the file it has open
    at,                 \* process -> where it is
    child,              \* supervisor -> its server
    stopping,           \* Supervisor.stopping
    fast,               \* starts in a row that died young
    aim,                \* stop -> the pid it read
    sent,               \* stop -> the supervisor it has signalled
    legacy              \* stop -> the pid was read without the lock

(* History: a file was removed under a daemon that held it; supervisors    *)
(* that were killed or could not spawn.                                    *)
VARIABLES unlinked, broken

files == <<path, owner, text>>
watch == <<child, stopping, fast>>
asking == <<aim, sent, legacy>>
history == <<unlinked, broken>>
daemonVars == <<files, fd, at, watch, asking, history>>

Acquiring == {"opening", "locking", "checking"}
Signing == {"emptying", "signing", "arming"}
Watching == {"spawning", "adopting", "watching", "weighing", "pausing"}
StartPlaces == {"leaving", "closing", "gone"} \cup Acquiring \cup Signing \cup Watching
StopPlaces == {"idle", "probing", "testing", "untesting", "reading", "unseen", "found", "stale"}

(* Past acquire() and not yet past its release.                            *)
Running(s) == at[s] \in Signing \cup Watching \cup {"leaving"}
Alive(s) == child[s] \in {"up", "asked"}

(* The types, and that a file is locked by a process that has it open.     *)
DaemonTypeOK ==
    /\ path \in Files \cup {NoOne}
    /\ owner \in [Files -> Processes \cup {NoOne}]
    /\ text \in [Files -> Supervisors \cup {NoOne}]
    /\ fd \in [Processes -> Files \cup {NoOne}]
    /\ \A f \in Files : owner[f] # NoOne => fd[owner[f]] = f
    /\ at \in [Processes -> StartPlaces \cup StopPlaces]
    /\ \A s \in Supervisors : at[s] \in StartPlaces
    /\ \A x \in Stops : at[x] \in StopPlaces
    /\ child \in [Supervisors -> {"none", "up", "asked", "died", "restart"}]
    /\ stopping \in [Supervisors -> BOOLEAN]
    /\ fast \in [Supervisors -> 0 .. MaxFast + 1]
    /\ aim \in [Stops -> Supervisors \cup {NoOne}]
    /\ sent \in [Stops -> Supervisors \cup {NoOne}]
    /\ legacy \in [Stops -> BOOLEAN]
    /\ unlinked \in BOOLEAN /\ broken \subseteq Supervisors

DaemonInit == /\ path = NoOne
              /\ owner = [f \in Files |-> NoOne] /\ text = [f \in Files |-> NoOne]
              /\ fd = [p \in Processes |-> NoOne]
              /\ at = [p \in Processes |-> IF p \in Supervisors THEN "opening" ELSE "idle"]
              /\ child = [s \in Supervisors |-> "none"]
              /\ stopping = [s \in Supervisors |-> FALSE]
              /\ fast = [s \in Supervisors |-> 0]
              /\ aim = [x \in Stops |-> NoOne] /\ sent = [x \in Stops |-> NoOne]
              /\ legacy = [x \in Stops |-> FALSE]
              /\ unlinked = FALSE /\ broken = {}

Passes(p, from, to) == at[p] = from /\ at' = [at EXCEPT ![p] = to]

(* Closing a file gives up its lock.                                       *)
Closes(p) == /\ fd' = [fd EXCEPT ![p] = NoOne]
             /\ owner' = [f \in Files |-> IF owner[f] = p THEN NoOne ELSE owner[f]]

(* ... and what it knew is gone with it.                                   *)
Dies(s) == /\ Closes(s)
           /\ stopping' = [stopping EXCEPT ![s] = FALSE]
           /\ fast' = [fast EXCEPT ![s] = 0]

(* What a stop held in hand goes with it.                                  *)
Forgets(x) == /\ aim' = [aim EXCEPT ![x] = NoOne]
              /\ sent' = [sent EXCEPT ![x] = NoOne]
              /\ legacy' = [legacy EXCEPT ![x] = FALSE]

-----------------------------------------------------------------------------
(* acquire(): open or create, lock without waiting, and see whether the    *)
(* file that is locked is still the one the path names, _LOCK_RETRIES times*)
(* at most.  A new file is an inode nobody has open; which, tells nothing. *)
Unused == {f \in Files : \A p \in Processes : fd[p] # f}

Creates(s, f) == /\ path' = f
                 /\ fd' = [fd EXCEPT ![s] = f]
                 /\ text' = [text EXCEPT ![f] = NoOne]

Opens(s) == /\ Passes(s, "opening", "locking")
            /\ \/ path = NoOne /\ Unused # {} /\ Creates(s, CHOOSE f \in Unused : TRUE)
               \/ /\ path # NoOne /\ fd' = [fd EXCEPT ![s] = path]
                  /\ UNCHANGED <<path, text>>
            /\ UNCHANGED <<owner, watch, asking, history>>

Locks(s) == /\ Passes(s, "locking", "checking")
            /\ owner[fd[s]] = NoOne
            /\ owner' = [owner EXCEPT ![fd[s]] = s]
            /\ UNCHANGED <<path, text, fd, watch, asking, history>>

(* Somebody has it: a daemon, or a probe that is about to let it go.       *)
Refused(s) == /\ Passes(s, "locking", "gone")
              /\ owner[fd[s]] # NoOne
              /\ Closes(s)
              /\ UNCHANGED <<path, text, watch, asking, history>>

TakesAnyFile(s) == /\ Passes(s, "checking", "emptying")
                   /\ UNCHANGED <<files, fd, watch, asking, history>>

Acquires(s) == /\ Passes(s, "checking", "emptying")
               /\ path = fd[s]
               /\ UNCHANGED <<files, fd, watch, asking, history>>

TriesAgain(s) == /\ Passes(s, "checking", "opening") \/ Passes(s, "checking", "gone")
                 /\ path # fd[s]
                 /\ Closes(s)
                 /\ UNCHANGED <<path, text, watch, asking, history>>

(* The pid goes in after the lock, and the handlers after the pid.         *)
Empties(s) == /\ Passes(s, "emptying", "signing")
              /\ text' = [text EXCEPT ![fd[s]] = NoOne]
              /\ UNCHANGED <<path, owner, fd, watch, asking, history>>

Signs(s) == /\ Passes(s, "signing", "arming")
            /\ text' = [text EXCEPT ![fd[s]] = s]
            /\ UNCHANGED <<path, owner, fd, watch, asking, history>>

Arms(s) == /\ Passes(s, "arming", "spawning")
           /\ UNCHANGED <<files, fd, watch, asking, history>>

(* Lock.release(): the path first, then the lock.                          *)
Unlinks(s) == /\ Passes(s, "leaving", "closing")
              /\ path' = NoOne
              /\ UNCHANGED <<owner, text, fd, watch, asking, history>>

LocksOff(s) == /\ Passes(s, "closing", "gone")
               /\ Dies(s)
               /\ UNCHANGED <<path, text, child, asking, history>>

-----------------------------------------------------------------------------
(* run(): spawn, and only then know the child by name; wait; weigh how it  *)
(* ended; pause and spawn again.                                           *)
Spawns(s) == /\ Passes(s, "spawning", "adopting")
             /\ child' = [child EXCEPT ![s] = "up"]
             /\ UNCHANGED <<files, fd, stopping, fast, asking, history>>

SpawnFails(s) == /\ Passes(s, "spawning", "leaving")
                 /\ broken' = broken \cup {s}
                 /\ UNCHANGED <<files, fd, watch, asking, unlinked>>

Adopts(s) == /\ Passes(s, "adopting", "watching")
             /\ UNCHANGED <<files, fd, watch, asking, history>>

(* The server dies or does as it was asked, or ends itself with the code   *)
(* that says it wants to be started again.                                 *)
ServerEnds(s) == /\ Alive(s)
                 /\ \E how \in {"died", "restart"} : child' = [child EXCEPT ![s] = how]
                 /\ UNCHANGED <<files, fd, at, stopping, fast, asking, history>>

(* CHILD_STOP_TIMEOUT has passed since the supervisor was told to stop.    *)
KillsIfAsked(s) == /\ at[s] = "watching" /\ child[s] = "asked"
                   /\ child' = [child EXCEPT ![s] = "died"]
                   /\ UNCHANGED <<files, fd, at, stopping, fast, asking, history>>

KillsServer(s) == /\ at[s] = "watching" /\ stopping[s] /\ Alive(s)
                  /\ child' = [child EXCEPT ![s] = "died"]
                  /\ UNCHANGED <<files, fd, at, stopping, fast, asking, history>>

LeavesServer(s) == /\ IF stopping[s] THEN Passes(s, "watching", "leaving")
                      ELSE Passes(s, "watching", "weighing") /\ ~Alive(s)
                   /\ UNCHANGED <<files, fd, watch, asking, history>>

Reaps(s) == /\ Passes(s, "watching", "weighing")
            /\ ~Alive(s)
            /\ UNCHANGED <<files, fd, watch, asking, history>>

(* self.child = None.                                                      *)
Forgotten(s) == child' = [child EXCEPT ![s] = "none"]

StopsHere(s) == /\ stopping[s]
                /\ Passes(s, "weighing", "leaving") /\ Forgotten(s)
                /\ UNCHANGED <<files, fd, stopping, fast, asking, history>>

(* A restart she asked for is not a death: no pause, nothing counted.      *)
StartsAgain(s) == /\ ~stopping[s] /\ child[s] = "restart"
                  /\ Passes(s, "weighing", "spawning") /\ Forgotten(s)
                  /\ UNCHANGED <<files, fd, stopping, fast, asking, history>>

Pauses(s) == /\ ~stopping[s] /\ child[s] = "died"
             /\ \E n \in {0, fast[s] + 1} : n <= MaxFast /\ fast' = [fast EXCEPT ![s] = n]
             /\ Passes(s, "weighing", "pausing") /\ Forgotten(s)
             /\ UNCHANGED <<files, fd, stopping, asking, history>>

GivesUp(s) == /\ ~stopping[s] /\ child[s] = "died" /\ fast[s] = MaxFast
              /\ fast' = [fast EXCEPT ![s] = @ + 1]
              /\ Passes(s, "weighing", "leaving") /\ Forgotten(s)
              /\ UNCHANGED <<files, fd, stopping, asking, history>>

PauseEnds(s) == /\ \/ stopping[s] /\ Passes(s, "pausing", "leaving")
                   \/ ~stopping[s] /\ Passes(s, "pausing", "spawning")
                /\ UNCHANGED <<files, fd, watch, asking, history>>

(* SIGTERM: before the handlers are there it ends the process; after, it   *)
(* marks the supervisor and reaches the server it knows by name.           *)
Ends(s) == at[s] \in Acquiring \cup Signing

Handles(s) == /\ ~Ends(s)
              /\ stopping' = [stopping EXCEPT ![s] = TRUE]
              /\ child' = [child EXCEPT ![s] =
                     IF at[s] = "watching" /\ @ = "up" THEN "asked" ELSE @]
              /\ UNCHANGED <<fd, owner, fast>>

(* The start that launched it saw no ready server in time.                 *)
StartTimesOut(s) ==
    /\ at[s] # "gone"
    /\ \/ Ends(s) /\ at' = [at EXCEPT ![s] = "gone"] /\ Closes(s) /\ UNCHANGED watch
       \/ Handles(s) /\ UNCHANGED at
    /\ UNCHANGED <<path, text, asking, history>>

(* The supervisor dies outright: the kernel drops the lock and the file    *)
(* stays; a server of its own goes on without it.                          *)
IsKilled(s) == /\ at[s] # "gone"
               /\ at' = [at EXCEPT ![s] = "gone"]
               /\ Dies(s)
               /\ broken' = broken \cup {s}
               /\ UNCHANGED <<path, text, child, asking, unlinked>>

-----------------------------------------------------------------------------
(* running_pid(): try the lock, and read the pid of whoever has it.        *)
LooksUp(x) == /\ Passes(x, "idle", "probing")
              /\ UNCHANGED <<files, fd, watch, asking, history>>

ProbeOpens(x) == /\ IF path = NoOne
                    THEN Passes(x, "probing", "unseen") /\ UNCHANGED fd
                    ELSE Passes(x, "probing", "testing") /\ fd' = [fd EXCEPT ![x] = path]
                 /\ UNCHANGED <<files, watch, asking, history>>

ProbeTests(x) == /\ at[x] = "testing"
                 /\ IF owner[fd[x]] = NoOne
                    THEN /\ Passes(x, "testing", "untesting")
                         /\ owner' = [owner EXCEPT ![fd[x]] = x]
                    ELSE Passes(x, "testing", "reading") /\ UNCHANGED owner
                 /\ UNCHANGED <<path, text, fd, watch, asking, history>>

ProbeUnlocks(x) == /\ Passes(x, "untesting", "unseen")
                   /\ Closes(x)
                   /\ UNCHANGED <<path, text, watch, asking, history>>

ProbeReads(x) == /\ at[x] = "reading"
                 /\ IF text[fd[x]] # NoOne
                    THEN /\ Passes(x, "reading", "found")
                         /\ aim' = [aim EXCEPT ![x] = text[fd[x]]]
                    ELSE Passes(x, "reading", "unseen") /\ UNCHANGED aim
                 /\ Closes(x)
                 /\ UNCHANGED <<path, text, watch, sent, legacy, history>>

(* unlocked_pid(): the file names a live process that is a YuriOS one.     *)
NamesALiveOne == path # NoOne /\ text[path] # NoOne /\ at[text[path]] # "gone"

FindsUnlocked(x) == /\ Passes(x, "unseen", "found")
                    /\ NamesALiveOne
                    /\ aim' = [aim EXCEPT ![x] = text[path]]
                    /\ legacy' = [legacy EXCEPT ![x] = @ \/ sent[x] = NoOne]
                    /\ UNCHANGED <<files, fd, watch, sent, history>>

(* Nobody: the file is an abandoned one, or a stop has seen its daemon go. *)
FindsNobody(x) == /\ sent[x] = NoOne \/ legacy[x]
                  /\ Passes(x, "unseen", "stale")
                  /\ ~NamesALiveOne
                  /\ UNCHANGED <<files, fd, watch, asking, history>>

SaysStopped(x) == /\ sent[x] # NoOne /\ ~legacy[x]
                  /\ Passes(x, "unseen", "idle") /\ Forgets(x)
                  /\ ~NamesALiveOne
                  /\ UNCHANGED <<files, fd, watch, history>>

RemovesStale(x) == /\ Passes(x, "stale", "idle") /\ Forgets(x)
                   /\ path' = NoOne
                   /\ unlinked' = (unlinked \/ \E s \in Supervisors : Running(s) /\ fd[s] = path)
                   /\ UNCHANGED <<owner, text, fd, watch, broken>>

(* command_stop(): one SIGTERM, then the probe again until the lock is     *)
(* free, or 25 s have passed.                                              *)
Signals(x) ==
    /\ at[x] = "found" /\ sent[x] = NoOne
    /\ at[aim[x]] # "gone"
    /\ sent' = [sent EXCEPT ![x] = aim[x]] /\ aim' = [aim EXCEPT ![x] = NoOne]
    /\ \/ /\ Ends(aim[x]) /\ Closes(aim[x])
          /\ at' = [at EXCEPT ![aim[x]] = "gone", ![x] = "probing"]
          /\ UNCHANGED watch
       \/ Handles(aim[x]) /\ at' = [at EXCEPT ![x] = "probing"]
    /\ UNCHANGED <<path, text, legacy, history>>

CannotSignal(x) == /\ Passes(x, "found", "idle") /\ sent[x] = NoOne
                   /\ at[aim[x]] = "gone"
                   /\ Forgets(x)
                   /\ UNCHANGED <<files, fd, watch, history>>

LooksAgain(x) == /\ sent[x] # NoOne
                 /\ \/ /\ Passes(x, "found", "probing")
                       /\ aim' = [aim EXCEPT ![x] = NoOne]
                       /\ UNCHANGED <<sent, legacy>>
                    \/ Passes(x, "found", "idle") /\ Forgets(x)
                 /\ UNCHANGED <<files, fd, watch, history>>

Acquire(s) == \/ Opens(s) \/ Locks(s) \/ Refused(s) \/ Acquires(s)
              \/ TriesAgain(s) \/ Empties(s) \/ Signs(s) \/ Arms(s)
Run(s) == \/ Spawns(s) \/ Adopts(s) \/ KillsServer(s) \/ Reaps(s) \/ StopsHere(s)
          \/ StartsAgain(s) \/ Pauses(s) \/ GivesUp(s) \/ PauseEnds(s)
Release(s) == Unlinks(s) \/ LocksOff(s)
Stop(x) == \/ LooksUp(x) \/ ProbeOpens(x) \/ ProbeTests(x) \/ ProbeUnlocks(x)
           \/ ProbeReads(x) \/ FindsUnlocked(x) \/ FindsNobody(x) \/ SaysStopped(x)
           \/ RemovesStale(x) \/ Signals(x) \/ CannotSignal(x) \/ LooksAgain(x)

DaemonNext == \/ \E s \in Supervisors : \/ Acquire(s) \/ Run(s) \/ Release(s)
                                        \/ SpawnFails(s) \/ ServerEnds(s)
                                        \/ StartTimesOut(s) \/ IsKilled(s)
              \/ \E x \in Stops : Stop(x)

DaemonSpec == DaemonInit /\ [][DaemonNext]_daemonVars

(* A supervisor that is not killed goes on, and its deadlines pass.        *)
DaemonFairness == \A s \in Supervisors : WF_daemonVars(Run(s)) /\ WF_daemonVars(Release(s))

DaemonFairSpec == DaemonSpec /\ DaemonFairness

-----------------------------------------------------------------------------
(* SPEC 10.6: starts that race end with one daemon, unless a stop that had *)
(* found nobody removed the file of one that came after its look.          *)
OneDaemon == \A s, t \in Supervisors : Running(s) /\ Running(t) => s = t \/ unlinked

(* "Stopped YuriOS" is true: the daemon it signalled has no server left,   *)
(* however other starts and stops came between the probes; but for a server*)
(* whose supervisor was killed, or a file removed under the daemon.        *)
StoppedMeansStopped ==
    [][\A x \in Stops : SaysStopped(x) =>
          ~Alive(sent[x]) \/ sent[x] \in broken \/ unlinked]_daemonVars

(* SPEC 10.6, something must put her back up: a server that ended unasked  *)
(* is started again, unless a stop came or MAX_FAST_FAILURES starts and    *)
(* one more died young in a row.                                           *)
PutBackUp ==
    \A s \in Supervisors :
        at[s] = "weighing" /\ ~stopping[s] ~>
            child[s] = "up" \/ stopping[s] \/ fast[s] > MaxFast \/ s \in broken

(* A stop that reached the supervisor ends with it gone, though the signal *)
(* may miss the server and the server may not heed it.                     *)
StopEnds == \A s \in Supervisors : stopping[s] ~> at[s] = "gone"

-----------------------------------------------------------------------------
(* SPEC 10.6: two starts MUST end with one daemon, whoever stops meanwhile.*)
OneDaemonAlways == \A s, t \in Supervisors : Running(s) /\ Running(t) => s = t

(* daemon.py, on CHILD_STOP_TIMEOUT: a server is killed only when it did   *)
(* not heed the SIGTERM it had.                                            *)
AskedBeforeKilled == [][\A s \in Supervisors : KillsServer(s) => child[s] = "asked"]_daemonVars
=============================================================================
