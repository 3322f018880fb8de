---------------------------- MODULE TimerPromise ----------------------------
(***************************************************************************)
(* A timer as a promise (SPEC 7.5): set_timer puts it on the TimerBoard    *)
(* (world/tools/timers.py) and its file, the board lands it, SENSE turns   *)
(* the landing into a signal, the tick announces it by voice or in chat    *)
(* and acknowledges it, and REFLECT may mirror the promise as a goal       *)
(* (mind/loop.py, mind/acts.py).  Ticks may die, the mind may be paused,   *)
(* the process may crash, and the file may fail to be written.             *)
(*                                                                         *)
(* What a label or a line says is left out.  Each timer is set once, by a  *)
(* turn of its own; whether that turn's reply holds an explicit promise, a *)
(* soft one (judged later by the utility model) or none is a constant.     *)
(***************************************************************************)
EXTENDS Integers, Sequences, FiniteSets

CONSTANTS
    Timers,         \* the timers that may be set
    Explicit,       \* those whose turn makes an explicit promise
    Soft,           \* those whose turn makes one that needs a review
    MaxCrashes,     \* bound on the process's restarts
    MaxFaults       \* bound on dead ticks, pauses and saves that failed

ASSUME TimerAssumption ==
    /\ Explicit \subseteq Timers /\ Soft \subseteq Timers
    /\ Explicit \cap Soft = {}
    /\ IsFiniteSet(Timers)
    /\ MaxCrashes \in Nat /\ MaxFaults \in Nat

VARIABLES
    elapsed,        \* the timers whose due time has passed
    file,           \* timers.json
    board,          \* TimerBoard._timers
    landed,         \* those of them marked landed
    due,            \* TimerBoard.due: landed, not yet a signal
    inbox,          \* the unread signals: <<"timer", t>> or <<"turn", t>>
    batch,          \* the signals the tick in flight has read
    announce,       \* MindLoop._pending_announce
    voice,          \* announcements handed to a voice session, being spoken
    delivered,      \* MindLoop.delivered_timers
    reviews,        \* MindLoop.promise_reviews
    reviewing,      \* the review popped for the utility call in flight
    disk,           \* delivered_timers and promise_reviews in engine.json
    goal,           \* the goal mirroring each timer, in goals.md
    pc,             \* where the tick loop is
    talking,        \* the turns in flight, each named by the timer it set
    engaged,        \* a turn is running or the settle period after one
    crashes, faults

(* History variables: what a reader outside the program has seen.          *)
VARIABLES
    started,        \* timers ever set
    written,        \* timers that were ever on the file
    handed,         \* announcements posted to chat or given to a voice
    spoken,         \* how often each reached the person, up to 2
    expired,        \* timers a boot dropped as stale
    forgotten,      \* deliveries a crash took from delivered_timers
    owedReview      \* soft promises taken for review, not yet judged

boardVars == <<file, board, landed, due>>
mindVars == <<inbox, batch, announce, delivered, reviews, reviewing, disk, goal, pc>>
roomVars == <<elapsed, talking, engaged, voice>>
countVars == <<crashes, faults>>
history == <<started, written, handed, spoken, expired, forgotten, owedReview>>
vars == <<boardVars, mindVars, roomVars, countVars, history>>

Signals == {"timer", "turn"} \X Timers
TimersIn(S) == {t \in Timers : <<"timer", t>> \in S}
TurnsIn(S) == {t \in Timers : <<"turn", t>> \in S}

(* The orders in which a set of landings can have been queued.             *)
Orders(S) == {q \in [1 .. Cardinality(S) -> S] : \A t \in S : \E i \in DOMAIN q : q[i] = t}

(* The types: what is landed is on the board, what is queued as due has    *)
(* landed, and a batch is part of the inbox.                               *)
TypeOK ==
    /\ elapsed \subseteq Timers
    /\ file \subseteq Timers /\ board \subseteq Timers
    /\ landed \subseteq board /\ due \subseteq landed
    /\ inbox \subseteq Signals /\ batch \subseteq inbox
    /\ announce \in Seq(Timers)
    /\ voice \subseteq Timers
    /\ delivered \subseteq Timers /\ reviews \subseteq Timers
    /\ reviewing \subseteq Timers
    /\ disk \in [delivered : SUBSET Timers, reviews : SUBSET Timers]
    /\ goal \in [Timers -> {"none", "open", "done"}]
    /\ pc \in {"starting", "asleep", "announcing", "reviewing", "acting", "paused"}
    /\ engaged \in BOOLEAN
    /\ talking \subseteq Timers
    /\ crashes \in 0 .. MaxCrashes /\ faults \in 0 .. MaxFaults
    /\ spoken \in [Timers -> 0 .. 2]
    /\ \A S \in {started, written, handed, expired, forgotten, owedReview} :
          S \subseteq Timers

Init ==
    /\ elapsed = {}
    /\ file = {} /\ board = {} /\ landed = {} /\ due = {}
    /\ inbox = {} /\ batch = {} /\ announce = <<>> /\ voice = {}
    /\ delivered = {} /\ reviews = {} /\ reviewing = {}
    /\ disk = [delivered |-> {}, reviews |-> {}]
    /\ goal = [t \in Timers |-> "none"]
    /\ pc = "starting"
    /\ talking = {} /\ engaged = FALSE
    /\ crashes = 0 /\ faults = 0
    /\ started = {} /\ written = {} /\ handed = {}
    /\ spoken = [t \in Timers |-> 0]
    /\ expired = {} /\ forgotten = {} /\ owedReview = {}

-----------------------------------------------------------------------------
(* The clock passes a due time.                                            *)
Elapse(t) == /\ t \in started \ elapsed
             /\ elapsed' = elapsed \cup {t}
             /\ UNCHANGED <<boardVars, mindVars, talking, engaged, voice,
                            countVars, history>>

(* _save(): the whole board, best effort.                                  *)
Save(b) == /\ \/ file' = b /\ UNCHANGED faults
              \/ file' = file /\ faults < MaxFaults /\ faults' = faults + 1
           /\ written' = written \cup file'

(* A turn calls set_timer: the host adds it to the board.                  *)
SetTimer(t) ==
    /\ t \notin started
    /\ started' = started \cup {t}
    /\ board' = board \cup {t}
    /\ Save(board')
    /\ talking' = talking \cup {t}
    /\ engaged' = TRUE
    /\ UNCHANGED <<landed, due, mindVars, elapsed, voice, crashes,
                   handed, spoken, expired, forgotten, owedReview>>

(* The turn ends, and its exchange is posted for REFLECT.                  *)
TurnCommitted(t) ==
    /\ t \in talking
    /\ talking' = talking \ {t}
    /\ inbox' = inbox \cup {<<"turn", t>>}
    /\ UNCHANGED <<boardVars, batch, announce, delivered, reviews, reviewing,
                   disk, goal, pc, elapsed, engaged, voice, countVars,
                   history>>

Settle == /\ engaged /\ talking = {} /\ voice = {}
          /\ engaged' = FALSE
          /\ UNCHANGED <<boardVars, mindVars, elapsed, talking, voice,
                         countVars, history>>

(* poll(): every elapsed timer lands on the queue; it stays on the file.   *)
Ready == {t \in board \ landed : t \in elapsed}

PollTakesOff == /\ Ready # {}
                /\ due' = due \cup Ready
                /\ board' = board \ Ready
                /\ file' = board'
                /\ goal' = [t \in Timers |-> IF t \in Ready /\ goal[t] = "open"
                                             THEN "done" ELSE goal[t]]
                /\ UNCHANGED <<landed, inbox, batch, announce, delivered, reviews,
                               reviewing, disk, pc, roomVars, countVars, history>>
Poll == /\ Ready # {}
        /\ landed' = landed \cup Ready
        /\ due' = due \cup Ready
        /\ UNCHANGED <<file, board, mindVars, roomVars, countVars, history>>

-----------------------------------------------------------------------------
(* file_promise_candidate: the goal mirroring t, done at once when t has   *)
(* been announced already.                                                 *)
FiledBlindly(t) == "open"
Filed(t) == IF t \in delivered THEN "done" ELSE "open"

Persist == disk' = [delivered |-> delivered', reviews |-> reviews']

(* SENSE: landed timers become signals, the batch is read and folded in.   *)
(* A soft promise is written to engine.json before the batch is committed. *)
Fold ==
    LET read == inbox \cup ({"timer"} \X due)
        soft == (TurnsIn(read) \cap Soft) \ reviews
    IN  /\ pc \in {"starting", "asleep"}
        /\ due' = {}
        /\ inbox' = read
        /\ batch' = read
        /\ \E q \in Orders(TimersIn(read)) : announce' = announce \o q
        /\ goal' = [t \in Timers |->
                       IF t \in TurnsIn(read) \cap Explicit THEN Filed(t)
                       ELSE goal[t]]
        /\ owedReview' = owedReview \cup soft
        /\ IF soft = {} THEN UNCHANGED disk
           ELSE disk' = [delivered |-> delivered, reviews |-> reviews \cup soft]
        /\ UNCHANGED <<file, board, landed, delivered, elapsed, talking,
                       engaged, voice, countVars, started, written, handed,
                       spoken, expired, forgotten>>

FoldedReviews == reviews \cup
    (TurnsIn(inbox \cup ({"timer"} \X due)) \cap Soft)

(* A tick acts on one thing: an announcement if one is pending and nobody  *)
(* is mid conversation, else a promise review, or whatever outranks both.  *)
MayAnnounce == announce' # <<>> /\ ~engaged /\ voice = {}

AnnounceTick == /\ Fold
                /\ MayAnnounce
                /\ pc' = "announcing"
                /\ reviews' = FoldedReviews
                /\ UNCHANGED reviewing

ReviewTick == /\ Fold
              /\ ~MayAnnounce
              /\ pc' = "reviewing"
              /\ \E t \in FoldedReviews :
                    /\ reviewing' = {t}
                    /\ reviews' = FoldedReviews \ {t}

OtherTick == /\ Fold
             /\ pc' = "acting"
             /\ reviews' = FoldedReviews
             /\ UNCHANGED reviewing

(* ack(), then delivered_timers, then every open goal of this timer.       *)
AckNothing(t) == UNCHANGED <<board, landed, file, written, faults>>
Ack(t) == IF t \in landed
          THEN /\ board' = board \ {t}
               /\ landed' = landed \ {t}
               /\ Save(board')
          ELSE UNCHANGED <<board, landed, file, written, faults>>

Complete(t) == /\ Ack(t)
               /\ delivered' = delivered \cup {t}
               /\ goal' = [goal EXCEPT ![t] = IF @ = "open" THEN "done" ELSE @]

Popped == Tail(announce)

Delivers(t) == /\ pc = "announcing"
               /\ t = Head(announce)
               /\ announce' = Popped
               /\ Complete(t)
               /\ handed' = handed \cup {t}
               /\ pc' = "acting"
               /\ UNCHANGED <<due, inbox, batch, reviews, reviewing, disk,
                              elapsed, talking, engaged, crashes,
                              started, expired, forgotten, owedReview>>

Hear(t) == spoken' = [spoken EXCEPT ![t] = IF @ = 2 THEN 2 ELSE @ + 1]

(* announce(): a voice session that is free starts a task that will speak  *)
(* the line; the promise is completed at once.                             *)
HandToVoice(t) == /\ voice = {} /\ talking = {}
                  /\ Delivers(t)
                  /\ voice' = {t}
                  /\ UNCHANGED spoken

(* announce(): no mouth, so the line is composed and posted in chat.       *)
PostLine(t) == /\ Delivers(t)
               /\ Hear(t)
               /\ UNCHANGED voice

(* announce(): nothing composed, or an exception: the promise stays queued.*)
DroppedUnsaid == Tail(announce)
StillQueued == announce

ComposeFails == /\ pc = "announcing"
                /\ pc' = "acting"
                /\ announce' = StillQueued
                /\ UNCHANGED <<boardVars, inbox, batch, delivered, reviews,
                               reviewing, disk, goal, roomVars, countVars,
                               history>>

(* The voice task: the stream speaks the line to its end, or it fails, is  *)
(* talked over, or loses its socket, and nothing is said.                  *)
VoiceEnds(t) == /\ t \in voice
                /\ voice' = {}
                /\ engaged' = TRUE
                /\ UNCHANGED <<boardVars, mindVars, elapsed, talking,
                               countVars, started, written, handed, expired,
                               forgotten, owedReview>>

VoiceSays(t) == VoiceEnds(t) /\ Hear(t)
VoiceFails(t) == VoiceEnds(t) /\ UNCHANGED spoken

-----------------------------------------------------------------------------
(* promise_review(): the utility model files a goal, finds none, or fails. *)
ReviewEnds == /\ pc = "reviewing"
              /\ pc' = "acting"
              /\ reviewing' = {}
              /\ UNCHANGED <<boardVars, inbox, batch, announce, delivered, disk,
                             roomVars, countVars, started, written, handed,
                             spoken, expired, forgotten>>

ReviewFiles == /\ ReviewEnds
               /\ goal' = [t \in Timers |-> IF t \in reviewing THEN Filed(t)
                                            ELSE goal[t]]
               /\ owedReview' = owedReview \ reviewing
               /\ UNCHANGED reviews

ReviewFindsNone == /\ ReviewEnds
                   /\ owedReview' = owedReview \ reviewing
                   /\ UNCHANGED <<goal, reviews>>

ReviewFails == /\ ReviewEnds
               /\ reviews' = reviews \cup reviewing
               /\ UNCHANGED <<goal, owedReview>>

(* REGULATE: persist, release the batch, and sleep.                        *)
Commit == /\ pc = "acting"
          /\ pc' = "asleep"
          /\ inbox' = inbox \ batch
          /\ batch' = {}
          /\ UNCHANGED <<delivered, reviews>>
          /\ Persist
          /\ UNCHANGED <<boardVars, announce, reviewing, goal, elapsed,
                         talking, engaged, voice, countVars, history>>

(* A tool call that opens a handed document persists at any time.          *)
PersistNow == /\ UNCHANGED <<delivered, reviews>>
              /\ Persist
              /\ UNCHANGED <<boardVars, inbox, batch, announce, reviewing, goal,
                             pc, roomVars, countVars, history>>

(* The journal cannot be written: the tick dies with its batch unread.     *)
TickDies == /\ pc = "acting"
            /\ faults < MaxFaults
            /\ faults' = faults + 1
            /\ pc' = "asleep"
            /\ batch' = {}
            /\ UNCHANGED <<boardVars, inbox, announce, delivered, reviews,
                           reviewing, disk, goal, elapsed, talking,
                           engaged, voice, crashes, history>>

(* set_mind_enabled(False) cancels the tick where it awaits, and (True)    *)
(* runs the same MindLoop again.                                           *)
Pause == /\ pc # "paused"
         /\ faults < MaxFaults
         /\ faults' = faults + 1
         /\ pc' = "paused"
         /\ batch' = {}
         /\ reviewing' = {}
         /\ UNCHANGED <<boardVars, inbox, announce, delivered, reviews, disk,
                        goal, roomVars, crashes, history>>

Resume == /\ pc = "paused"
          /\ pc' = "starting"
          /\ UNCHANGED <<boardVars, inbox, batch, announce, delivered, reviews,
                         reviewing, disk, goal, roomVars, countVars, history>>

(* The process dies and boots: timers.json without the timers a day past   *)
(* due, engine.json and goals.md are all there is.                         *)
LoadedNothingLanded(old) == file \ elapsed
Loaded(old) == file \ old

Crash == /\ crashes < MaxCrashes
         /\ crashes' = crashes + 1
         /\ \E old \in SUBSET elapsed :
               /\ expired \subseteq old
               /\ board' = Loaded(old)
               /\ expired' = expired \cup (file \cap old)
         /\ landed' = {}
         /\ due' = {} /\ inbox' = {} /\ batch' = {} /\ announce' = <<>>
         /\ voice' = {} /\ talking' = {} /\ engaged' = FALSE
         /\ delivered' = disk.delivered
         /\ reviews' = disk.reviews
         /\ reviewing' = {}
         /\ pc' = "starting"
         /\ forgotten' = forgotten \cup (delivered \ disk.delivered)
         /\ UNCHANGED <<file, disk, goal, elapsed, faults, started, written,
                        handed, spoken, owedReview>>

Next == \/ \E t \in Timers :
              \/ Elapse(t) \/ SetTimer(t) \/ TurnCommitted(t)
              \/ HandToVoice(t) \/ PostLine(t) \/ VoiceSays(t) \/ VoiceFails(t)
        \/ Settle \/ Poll
        \/ AnnounceTick \/ ReviewTick \/ OtherTick
        \/ ComposeFails
        \/ ReviewFiles \/ ReviewFindsNone \/ ReviewFails
        \/ Commit \/ PersistNow \/ TickDies
        \/ Pause \/ Resume
        \/ Crash

Spec == Init /\ [][Next]_vars

(* Time passes and the board polls; turns and voice tasks end; the mind is *)
(* switched on again and its ticks end; of the ticks that could announce,  *)
(* or compose the line, not all choose or fail otherwise forever.          *)
Fairness ==
    /\ \A t \in Timers : WF_vars(Elapse(t)) /\ WF_vars(TurnCommitted(t))
    /\ \A t \in Timers : WF_vars(VoiceSays(t) \/ VoiceFails(t))
    /\ WF_vars(Settle) /\ WF_vars(Poll) /\ WF_vars(Resume)
    /\ WF_vars(Commit)
    /\ WF_vars(ReviewFiles \/ ReviewFindsNone \/ ReviewFails)
    /\ WF_vars(AnnounceTick \/ ReviewTick \/ OtherTick)
    /\ SF_vars(AnnounceTick)
    /\ WF_vars(\E t \in Timers : HandToVoice(t) \/ PostLine(t) \/ ComposeFails)
    /\ SF_vars(\E t \in Timers : HandToVoice(t) \/ PostLine(t))

FairSpec == Spec /\ Fairness

-----------------------------------------------------------------------------
(* SPEC 7.5, landing is not delivery: a timer that ever reached the file   *)
(* is on it until its announcement was handed over, however often saving   *)
(* failed or the process died, unless a boot found it a day overdue.       *)
OnFileUntilHandedOver == written \subseteq file \cup handed \cup expired

(* Between poll() and ack() the promise crosses three queues, all in       *)
(* memory: a landed timer is always in one of them, through dead ticks,    *)
(* pauses and re-read batches.                                             *)
Carried == \A t \in landed : \/ t \in due
                              \/ <<"timer", t>> \in inbox
                              \/ \E i \in DOMAIN announce : announce[i] = t

(* A mirrored goal closes only after the announcement was handed over.     *)
GoalClosesAfterHandover == \A t \in Timers : goal[t] = "done" => t \in handed

(* The board is the sole executor of a mirrored goal: an open one has its  *)
(* timer on the board, however late REFLECT filed it, unless a boot found  *)
(* the timer stale or never saved, or a crash took its delivery from       *)
(* delivered_timers.                                                       *)
OpenGoalHasItsTimer ==
    \A t \in Timers : goal[t] = "open" =>
        t \in board \cup expired \cup forgotten \/ t \notin written

(* An announcement is repeated only for a reason: a dead or cancelled tick *)
(* whose batch was read again, or a boot from a file that was not written. *)
RepeatedOnlyAfterFault ==
    \A t \in Timers : spoken[t] > 1 => faults > 0

(* A timer on the file is announced in the end, or found stale at a boot.  *)
EveryPromiseHandedOver ==
    \A t \in Timers : t \in file ~> t \in handed \cup expired

(* The promise as a person sees it: where each timer stands.               *)
Standing == [t \in Timers |-> CASE t \in handed -> "kept"
                                [] t \in expired \ handed -> "expired"
                                [] t \in file \ (handed \cup expired) -> "owed"
                                [] t \in board \ (file \cup handed \cup expired) -> "promised"
                                [] OTHER -> IF t \in started THEN "lost" ELSE "unset"]

Promise == INSTANCE PromiseSpec WITH Promises <- Timers, standing <- Standing

(* Board, queues, ticks and boots implement the promise of SPEC 7.5: once  *)
(* owed, it is kept or, found too old, expires; it is never lost.          *)
ImplementsPromise == Promise!Spec

-----------------------------------------------------------------------------
(* SPEC 7.5: a timer stays on the file until its announcement is           *)
(* delivered, so that a failed compose remains owed; never zero times.     *)
NeverZeroTimes ==
    \A t \in written : t \in file \cup voice \cup expired \/ spoken[t] > 0

(* SPEC 22.1a: a pending review is retained, across retry and restart,     *)
(* until the utility model has judged it.                                  *)
ReviewRetained == owedReview \subseteq reviews \cup reviewing
=============================================================================
