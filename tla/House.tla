-------------------------------- MODULE House --------------------------------
(***************************************************************************)
(* The house: the registry of characters, the runtimes one process keeps   *)
(* for them, and the board's requests that start, stop, edit, clone,       *)
(* archive, restore and purge them (world/host/hosting.py, switchboard.py, *)
(* studio.py, characters/registry.py, clone.py, archive.py).               *)
(*                                                                         *)
(* Requests share one event loop.  A request is a list of steps, each as   *)
(* long as the code runs without awaiting; CharacterHost._lock serialises  *)
(* starts and stops, and lifecycle_lock the requests that move trees.      *)
(***************************************************************************)
EXTENDS Naturals, Sequences, FiniteSets

CONSTANTS
    Characters,         \* the ids a character may live under
    Her,                \* the one who is there at the start
    AtOnce,             \* bound: requests under way at once
    MaxRequests,        \* bound: requests in a run
    MaxFaults           \* bound: failed writes, renames and starts, and crashes

ASSUME HouseAssumption ==
    Her \in Characters /\ AtOnce \in Nat \ {0} /\ MaxRequests \in Nat /\ MaxFaults \in Nat

Requests == 1 .. AtOnce
None == 0
Lives == {"on", "off", "review"}       \* enabled; disabled; waiting on review
NoRow == [life |-> "none", hands |-> FALSE]
Rows == [life : Lives, hands : BOOLEAN] \cup {NoRow}
Trees == {"hers", "copied", "ghost"}    \* a ghost: made anew by a start

VARIABLES
    row,                \* character -> her row of the registry
    board,              \* character -> the tree under characters/<id>
    kept,               \* the archives: whose, which tree, the row in archive.json
    up,                 \* CharacterHost.apps
    hands,              \* character -> what her runtime was last granted
    primary,            \* who answers the routes that name nobody
    hostLock,           \* the request that holds CharacterHost._lock
    lifeLock,           \* the request that holds lifecycle_lock
    cloning,            \* CharacterHost._cloning
    req,                \* request -> what it asked and has still to do
    asked, faults,      \* bounds: requests and faults so far
    torn                \* history: ids whose row and tree a fault or a stale save parted

serving == <<up, hands, primary>>
disk == <<row, board, kept>>
vars == <<disk, serving, hostLock, lifeLock, cloning, req, asked, faults, torn>>

Ops == {"settings", "controls", "loop", "studio", "approve", "start", "stop",
        "clone", "archive", "purge", "restore"}
Edits == {"none", "enable", "disable", "grant", "revoke", "rebuild"}
Steps == {"save", "retune", "reload", "start", "building", "stop", "stopping",
          "life", "copy", "copying"}
Do(step, c) == [do |-> step, who |-> c]
NotAsked == [op |-> "none", who |-> Her, to |-> Her, edit |-> "none", rec |-> NoRow,
             was |-> FALSE, todo |-> <<>>]

Idle(r) == req[r].todo = <<>>
At(r, step) == ~Idle(r) /\ Head(req[r].todo).do = step
Who(r) == Head(req[r].todo).who
(* The runtimes of c there are: served, being built, or being stopped.     *)
Live(c) == (IF c \in up THEN 1 ELSE 0)
           + Cardinality({r \in Requests : /\ At(r, "building") \/ At(r, "stopping")
                                           /\ Who(r) = c})

TypeOK ==
    /\ row \in [Characters -> Rows] /\ board \in [Characters -> Trees \cup {"none"}]
    /\ kept \subseteq [who : Characters, tree : Trees, row : Rows]
    /\ up \subseteq Characters /\ hands \in [Characters -> BOOLEAN]
    /\ primary \in Characters \cup {None}
    /\ hostLock \in Requests \cup {None} /\ lifeLock \in Requests \cup {None}
    /\ hostLock # None => At(hostLock, "building") \/ At(hostLock, "stopping")
    /\ lifeLock # None => ~Idle(lifeLock)
    /\ cloning \subseteq Characters /\ torn \subseteq Characters
    /\ \A r \in Requests : req[r].op \in Ops \cup {"none"} /\ req[r].edit \in Edits

Init == /\ \E life \in Lives :           \* her hands are on out of the box
               row = [c \in Characters |-> IF c = Her THEN [life |-> life, hands |-> TRUE] ELSE NoRow]
        /\ board = [c \in Characters |-> IF c = Her THEN "hers" ELSE "none"]
        /\ kept = {} /\ cloning = {} /\ torn = {} /\ asked = 0 /\ faults = 0
        /\ up \in IF row[Her].life = "on" THEN {{}, {Her}} ELSE {{}}
        /\ hands = [c \in Characters |-> row[c].hands]
        /\ primary = IF row[Her].life = "on" THEN Her ELSE None
        /\ hostLock = None /\ lifeLock = None
        /\ req = [r \in Requests |-> NotAsked]

(* CharacterHost._lock, from one step to the next.                         *)
HoldsNot(r) == UNCHANGED hostLock
Holds(r) == hostLock' = r
LetsGoAtItsLast(r) == hostLock' = IF Len(req[r].todo) > 1 THEN r ELSE None
LetsGo(r) == hostLock' = None

Fault(n) == faults + n <= MaxFaults /\ faults' = faults + n
NoFault == UNCHANGED faults

(* The request goes on with the steps given in place of the one it is at;  *)
(* after its last it is forgotten and leaves `async with lifecycle_lock`.  *)
Rest(r, steps) == [req[r] EXCEPT !.todo = steps \o Tail(@)]
Becomes(r, q) == req' = [req EXCEPT ![r] = IF q.todo = <<>> THEN NotAsked ELSE q]
GoesHolding(r, q) == Becomes(r, q) /\ UNCHANGED lifeLock
Goes(r, q) ==
    /\ Becomes(r, q)
    /\ lifeLock' = IF lifeLock = r /\ q.todo = <<>> THEN None ELSE lifeLock
-----------------------------------------------------------------------------
(* A request is read and answered up to its first await: `require`, and the*)
(* copy of the record that an edit will write back whole.                  *)
EditsOf(op) == CASE op = "settings" -> Edits
                 [] op = "controls" -> {"grant", "revoke", "rebuild"}
                 [] op = "studio" -> {"rebuild"}
                 [] OTHER -> {"none"}
Opening(op, c) == CASE op \in {"settings", "controls", "loop", "studio"} -> <<Do("save", c)>>
                    [] op \in {"clone", "archive", "purge"} -> <<Do("life", c)>>
                    [] op = "stop" -> <<Do("stop", c)>>
                    [] OTHER -> IF c \in up THEN <<>> ELSE <<Do("start", c)>>

Comes(r) ==
    /\ Idle(r) /\ \A s \in 1 .. r - 1 : ~Idle(s)
    /\ asked < MaxRequests /\ asked' = asked + 1

Asks(r) ==
    /\ Comes(r)
    /\ \E c \in Characters, op \in Ops \ {"restore"} : \E edit \in EditsOf(op) :
           /\ row[c] # NoRow /\ (op = "start" => row[c].life = "on")
           /\ row' = IF op = "approve" THEN [row EXCEPT ![c].life = "on"] ELSE row
           /\ Becomes(r, [NotAsked EXCEPT !.op = op, !.who = c, !.edit = edit, !.rec = row[c],
                                          !.todo = Opening(op, c)])
    /\ UNCHANGED <<board, kept, serving, hostLock, lifeLock, cloning, faults, torn>>

(* Restore names an archive that is there, and may give another id.        *)
AsksToRestore(r) ==
    /\ Comes(r)
    /\ \E k \in kept, c \in Characters, edit \in {"none", "enable"} :
           Becomes(r, [NotAsked EXCEPT !.op = "restore", !.who = k.who, !.to = c, !.edit = edit,
                                       !.rec = k.row, !.todo = <<Do("life", c)>>])
    /\ UNCHANGED <<disk, serving, hostLock, lifeLock, cloning, faults, torn>>
-----------------------------------------------------------------------------
(* What the edit makes of the record read at the start: a save of her      *)
(* profile or her card is also the review.                                 *)
Edited(q) ==
    [life |-> IF q.op \in {"settings", "studio"} /\ q.rec.life = "review" THEN "on"
              ELSE IF q.edit = "enable" THEN "on"
              ELSE IF q.edit = "disable" THEN "off" ELSE q.rec.life,
     hands |-> IF q.edit \in {"grant", "revoke"} THEN q.edit = "grant" ELSE q.rec.hands]

(* What is left to do once the record is written.                          *)
Restart(c) == <<Do("stop", c), Do("start", c)>>
Onward(q, c, new) ==
    CASE q.op = "studio" -> <<Do("reload", c)>>
      [] q.op = "settings" /\ c \in up ->
            IF new.life # "on" THEN <<Do("stop", c)>>
            ELSE IF q.edit = "rebuild" THEN Restart(c) ELSE <<Do("retune", c)>>
      [] q.op = "controls" -> IF q.edit = "rebuild" /\ c \in up THEN Restart(c) ELSE <<>>
      [] OTHER -> IF c \notin up /\ new.life = "on" THEN <<Do("start", c)>> ELSE <<>>

(* The body has arrived (and the card edit is committed): the whole record *)
(* is upserted, or the write fails and the file's rows are read back.      *)
Saves(r) ==
    /\ At(r, "save")
    /\ LET c == Who(r)
           q == req[r]
           new == Edited(q)
       IN \/ /\ row' = [row EXCEPT ![c] = new]
             /\ torn' = IF row[c] = NoRow THEN torn \cup {c} ELSE torn
             /\ hands' = IF q.op = "controls" /\ q.edit # "rebuild" /\ c \in up
                         THEN [hands EXCEPT ![c] = new.hands] ELSE hands
             /\ Goes(r, [Rest(r, Onward(q, c, new)) EXCEPT !.rec = new])
             /\ NoFault
          \/ Fault(1) /\ Goes(r, Rest(r, <<>>)) /\ UNCHANGED <<row, hands, torn>>
    /\ UNCHANGED <<board, kept, up, primary, hostLock, cloning>>

(* save_settings after `await host.retune`: the live switches.             *)
Retunes(r) ==
    /\ At(r, "retune")
    /\ hands' = IF Who(r) \in up /\ req[r].edit \in {"grant", "revoke"}
                THEN [hands EXCEPT ![Who(r)] = req[r].rec.hands] ELSE hands
    /\ Goes(r, Rest(r, <<>>))
    /\ UNCHANGED <<disk, up, primary, hostLock, cloning, faults, torn>>

(* studio_save after the commit.                                           *)
Reloads(r) ==
    /\ At(r, "reload")
    /\ LET c == Who(r)
       IN Goes(r, Rest(r, IF c \in up THEN Restart(c)
                          ELSE IF req[r].rec.life = "on" THEN <<Do("start", c)>> ELSE <<>>))
    /\ UNCHANGED <<disk, serving, hostLock, cloning, faults, torn>>
-----------------------------------------------------------------------------
(* CharacterHost.start: refused while she is cloned, disabled or unknown;  *)
(* nothing to do when she is up; else create_app, in a thread, under the   *)
(* lock, with the record as it was read here.                              *)
MayStart(c) == c \notin cloning /\ c \notin up /\ row[c].life = "on"

StartTakes(r) ==
    /\ At(r, "start") /\ hostLock = None
    /\ LET c == Who(r)
       IN IF MayStart(c)
          THEN /\ Holds(r)
               /\ Goes(r, [Rest(r, <<Do("building", c)>>) EXCEPT !.rec = row[c]])
          ELSE LetsGo(r) /\ Goes(r, Rest(r, <<>>))
    /\ UNCHANGED <<disk, serving, cloning, faults, torn>>

Started(r) ==
    /\ At(r, "building")
    /\ LET c == Who(r)
       IN \/ /\ up' = up \cup {c} /\ hands' = [hands EXCEPT ![c] = req[r].rec.hands]
             /\ primary' = IF primary \in up THEN primary ELSE c
             /\ board' = IF board[c] = "none" THEN [board EXCEPT ![c] = "ghost"] ELSE board
             /\ NoFault
          \/ /\ IF board[c] = "none" THEN NoFault ELSE Fault(1)
             /\ UNCHANGED <<serving, board>>
    /\ LetsGo(r) /\ Goes(r, Rest(r, <<>>))
    /\ UNCHANGED <<row, kept, cloning, torn>>

(* Archive and purge: the tree is renamed away and the row dropped, with no*)
(* await since the stop.  A rename that fails leaves all as it was; a row  *)
(* that cannot be dropped brings the tree back, unless that fails too.     *)
(* What is kept of a row is what was read of it before the stop, or what   *)
(* record_from_tree makes of a tree whose archive.json was not written.    *)
Bare == [life |-> "off", hands |-> TRUE]
Away(q, c, written) ==
    IF q.op = "archive"
    THEN kept \cup {[who |-> c, tree |-> board[c], row |-> IF written THEN q.rec ELSE Bare]}
    ELSE kept

LeavesIt(r, c) ==
    /\ Fault(1) /\ board' = [board EXCEPT ![c] = "none"] /\ UNCHANGED <<row, kept, torn>>
    /\ Goes(r, Rest(r, <<>>))
PutsBack(r, c) ==
    /\ \/ board[c] = "none" /\ NoFault
       \/ Fault(1)
    /\ UNCHANGED <<disk, torn>>
    /\ Goes(r, Rest(r, IF req[r].was THEN <<Do("start", c)>> ELSE <<>>))

Moves(r, c) ==
    \/ PutsBack(r, c)
    \/ /\ board[c] # "none"
       /\ board' = [board EXCEPT ![c] = "none"]
       /\ \/ /\ row' = [row EXCEPT ![c] = NoRow] /\ UNCHANGED torn
             /\ \/ NoFault /\ kept' = Away(req[r], c, TRUE)
                \/ req[r].op = "archive" /\ Fault(1) /\ kept' = Away(req[r], c, FALSE)
          \/ /\ Fault(2) /\ kept' = Away(req[r], c, TRUE)
             /\ torn' = torn \cup {c} /\ UNCHANGED row
       /\ Goes(r, Rest(r, <<>>))

(* CharacterHost.stop, and what its caller does before it awaits again.    *)
AfterStop(r, c) ==
    IF req[r].op \in {"archive", "purge"} THEN Moves(r, c)
    ELSE Goes(r, Rest(r, <<>>)) /\ UNCHANGED <<disk, faults, torn>>
KeepsThePlace(c) == UNCHANGED primary
HandsOver(c) == primary' \in IF primary # c THEN {primary} ELSE IF up = {} THEN {None} ELSE up

LockFree(c) == hostLock = None
StopTakes(r) ==
    /\ At(r, "stop") /\ LockFree(Who(r))
    /\ LET c == Who(r)
       IN IF c \in up
          THEN /\ up' = up \ {c} /\ Holds(r)
               /\ Goes(r, Rest(r, <<Do("stopping", c)>>))
               /\ UNCHANGED <<disk, primary, faults, torn>>
          ELSE AfterStop(r, c) /\ HandsOver(c) /\ LetsGo(r) /\ UNCHANGED up
    /\ UNCHANGED <<hands, cloning>>

Stopped(r) ==
    /\ At(r, "stopping")
    /\ AfterStop(r, Who(r)) /\ HandsOver(Who(r)) /\ LetsGo(r)
    /\ UNCHANGED <<up, hands, cloning>>
-----------------------------------------------------------------------------
(* `async with lifecycle_lock`, up to the next await.  Archive and purge   *)
(* look her up here, once (404 when she has left meanwhile), and keep the  *)
(* record across the stop.                                                 *)
Locked(r) == lifeLock' = IF req'[r].todo = <<>> THEN None ELSE r
Free(c) == row[c] = NoRow /\ board[c] = "none"

TakesLife(r) ==
    /\ At(r, "life") /\ lifeLock = None /\ req[r].op # "restore"
    /\ LET c == Who(r)
           was == c \in up
           stop == IF was THEN <<Do("stop", c)>> ELSE <<>>
       IN \/ /\ req[r].op = "clone" /\ cloning' = cloning \cup {c}
             /\ Becomes(r, [Rest(r, stop \o <<Do("copy", c)>>) EXCEPT !.was = was])
          \/ /\ req[r].op # "clone" /\ row[c] # NoRow
             /\ Becomes(r, [Rest(r, <<Do("stop", c)>>) EXCEPT !.was = was, !.rec = row[c]])
             /\ UNCHANGED cloning
          \/ /\ req[r].op # "clone" /\ row[c] = NoRow
             /\ Becomes(r, Rest(r, <<>>)) /\ UNCHANGED cloning
    /\ Locked(r)
    /\ UNCHANGED <<disk, serving, hostLock, faults, torn>>

(* Restore: the id must be free and the archive still there; the tree is   *)
(* renamed back, then the row added, or the tree put away again.           *)
Restores(r) ==
    /\ At(r, "life") /\ lifeLock = None /\ req[r].op = "restore"
    /\ LET q == req[r]
           ks == {k \in kept : k.who = q.who /\ k.row = q.rec}
           c == q.to
           then(steps) == Becomes(r, Rest(r, steps))
       IN \/ /\ ~Free(c) \/ ks = {}
             /\ then(<<>>) /\ NoFault /\ UNCHANGED <<disk, torn>>
          \/ Free(c) /\ ks # {} /\ Fault(1) /\ then(<<>>) /\ UNCHANGED <<disk, torn>>
          \/ \E k \in ks :
               /\ Free(c) /\ kept' = kept \ {k} /\ board' = [board EXCEPT ![c] = k.tree]
               /\ \/ /\ NoFault /\ UNCHANGED torn
                     /\ row' = [row EXCEPT ![c] = IF q.edit = "enable" THEN [k.row EXCEPT !.life = "on"]
                                                  ELSE k.row]
                     /\ then(IF q.edit = "enable" THEN <<Do("start", c)>> ELSE <<>>)
                  \/ /\ q.edit = "enable" /\ Fault(1) /\ UNCHANGED torn
                     /\ row' = [row EXCEPT ![c] = k.row] /\ then(<<>>)
                  \/ Fault(2) /\ torn' = torn \cup {c} /\ UNCHANGED row /\ then(<<>>)
    /\ Locked(r)
    /\ UNCHANGED <<serving, hostLock, cloning>>

(* The copy: a free id and the source's row are read as it begins; it is   *)
(* published when the thread is through.  The source is started again      *)
(* first, whatever came of the copy, and the copy only if it is there.     *)
CopyOver(r, c, ok) ==
    /\ cloning' = cloning \ {c}
    /\ Goes(r, Rest(r, (IF req[r].was THEN <<Do("start", c)>> ELSE <<>>)
                       \o (IF ok /\ req[r].rec.life = "on" THEN <<Do("start", req[r].to)>> ELSE <<>>)))

CopyBegins(r) ==
    /\ At(r, "copy")
    /\ LET c == Who(r)
       IN \/ /\ row[c] # NoRow /\ board[c] # "none"
             /\ \E to \in {d \in Characters : Free(d)} :
                    Goes(r, [Rest(r, <<Do("copying", c)>>) EXCEPT !.rec = row[c], !.to = to])
             /\ UNCHANGED cloning
          \/ /\ row[c] = NoRow \/ board[c] = "none" \/ \A d \in Characters : ~Free(d)
             /\ CopyOver(r, c, FALSE)
    /\ UNCHANGED <<disk, serving, hostLock, faults, torn>>

CopyEnds(r) ==
    /\ At(r, "copying")
    /\ LET c == Who(r)
           to == req[r].to
       IN \/ /\ row[to] = NoRow /\ row' = [row EXCEPT ![to] = req[r].rec]
             /\ board' = [board EXCEPT ![to] = "copied"]
             /\ CopyOver(r, c, TRUE) /\ NoFault
          \/ /\ IF row[to] = NoRow THEN Fault(1) ELSE NoFault
             /\ CopyOver(r, c, FALSE) /\ UNCHANGED <<row, board>>
    /\ UNCHANGED <<kept, serving, hostLock, torn>>
-----------------------------------------------------------------------------
(* The process dies and comes up again: start_all brings up whom the       *)
(* registry says.  It may die between a rename and what goes with it, the  *)
(* archive.json and the row.                                               *)
Moving == {r \in Requests : At(r, "stopping") /\ req[r].op \in {"archive", "purge"}
                            /\ board[Who(r)] # "none"}
Copying == {r \in Requests : At(r, "copying")}
LeftBehind ==
    {[board |-> board, kept |-> kept, torn |-> torn]}
    \cup {[board |-> [board EXCEPT ![Who(r)] = "none"], torn |-> torn \cup {Who(r)},
           kept |-> Away(req[r], Who(r), written)] : r \in Moving, written \in BOOLEAN}
    \cup {[board |-> [board EXCEPT ![req[r].to] = "copied"], torn |-> torn \cup {req[r].to},
           kept |-> kept] : r \in Copying}

Crash ==
    /\ Fault(1) /\ UNCHANGED row
    /\ up' \in SUBSET {c \in Characters : row[c].life = "on"}
    /\ hands' = [c \in Characters |-> IF c \in up' THEN row[c].hands ELSE hands[c]]
    /\ primary' \in IF up' # {} THEN up' ELSE {None} \cup {c \in Characters : row[c].life = "on"}
    /\ \E left \in LeftBehind :
          /\ kept' = left.kept /\ torn' = left.torn
          /\ board' = [c \in Characters |-> IF c \in up' /\ left.board[c] = "none" THEN "ghost"
                                            ELSE left.board[c]]
    /\ hostLock' = None /\ lifeLock' = None /\ cloning' = {}
    /\ req' = [r \in Requests |-> NotAsked] /\ UNCHANGED asked

Step(r) ==
    /\ \/ Saves(r) \/ Retunes(r) \/ Reloads(r)
       \/ StartTakes(r) \/ Started(r) \/ StopTakes(r) \/ Stopped(r)
       \/ TakesLife(r) \/ Restores(r) \/ CopyBegins(r) \/ CopyEnds(r)
    /\ UNCHANGED asked

Next == (\E r \in Requests : Asks(r) \/ AsksToRestore(r) \/ Step(r)) \/ Crash

Spec == Init /\ [][Next]_vars

(* The loop runs a request that is ready, the lock goes to one who waits   *)
(* for it, and a start, a stop and a copy come to an end.                  *)
FairSpec == Spec /\ \A r \in Requests : WF_vars(Step(r))
-----------------------------------------------------------------------------
(* One runtime at a time on a tree: served, being built or being stopped   *)
(* (SPEC 29.4, 29.5: two on one Vault would interleave their commits).     *)
OneRuntime == \A c \in Characters : Live(c) <= 1

(* A tree is renamed away only when nothing runs on it: not the runtime    *)
(* that was up, not one that a start in flight was still building, and not *)
(* while a clone is being copied from it.  (In a crash nothing runs.)      *)
CopiedFrom(c) == \E r \in Requests : At(r, "copying") /\ Who(r) = c
QuietMoves ==
    [][\A c \in Characters :
         board[c] # "none" /\ board'[c] = "none" =>
             /\ ~CopiedFrom(c) /\ c \notin up /\ Live(c)' = 0
             /\ \A r \in Requests : At(r, "building") => Who(r) # c]_vars

(* The board lists her when her tree is there and only then, whatever      *)
(* failed on the way, save where a second failure, a crash between the two *)
(* writes or a save that was begun before she left has parted them.        *)
RowAndTreeAgree ==
    \A c \in Characters \ torn : (row[c] = NoRow) = (board[c] = "none")

(* Whenever somebody is up and nobody is on the way down, the routes that  *)
(* name no character are answered by one who is up.                        *)
SomebodyAnswers ==
    up # {} /\ (\A r \in Requests : ~At(r, "stopping")) => primary \in up

(* Two locks and requests that wait for both: every request is answered.   *)
Answered == \A r \in Requests : ~Idle(r) ~> Idle(r)

(* main.py, set_hands_enabled: start seeds the runtime from her record, and*)
(* it "must not come back with the hands she was refused".                 *)
RefusedHandsStayDown ==
    (\A r \in Requests : Idle(r)) =>
        \A c \in up : hands[c] => row[c].hands

(* SPEC 36.3, switchboard.py: a clone copies a quiet tree.                 *)
QuietCopies == \A c \in Characters : CopiedFrom(c) => Live(c) = 0
=============================================================================
