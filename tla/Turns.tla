-------------------------------- MODULE Turns --------------------------------
(***************************************************************************)
(* One character's turns (world/turns.py, world/routes/voice_ws.py,        *)
(* desktop/voice/turn.py, world/channels/telegram.py): text turns that     *)
(* queue on one lock, those of requests and those of a channel that polls; *)
(* the turns and the unprompted lines of one voice connection; and         *)
(* Runtime.stop_async, which cancels or finishes them before her memory is *)
(* closed.                                                                 *)
(*                                                                         *)
(* A line of the conversation is one row with two halves (app/             *)
(* conversation.py, app/sessions.py): the page draws it, and the window the*)
(* next prompt is built from admits it; either half may come first.  A turn*)
(* that did not happen is abandoned: its line leaves the window and stays  *)
(* on the page.                                                            *)
(***************************************************************************)
EXTENDS Naturals, Sequences, FiniteSetsExt

CONSTANTS
    MaxTurns,           \* bound: turns and unprompted lines in a run
    TextSession,        \* the session of the requests' text turns
    ChatSession,        \* the session of the channel's chat
    VoiceSession        \* the session of the voice connection

ASSUME TurnsAssumption == MaxTurns \in Nat \ {0}

AllTurns == 1 .. MaxTurns
None == 0
Sessions == {TextSession, ChatSession, VoiceSession}
TextKinds == {"text", "channel"}
Kinds == TextKinds \cup {"voice", "ambient"}
Before == {"queued", "gate", "assembling", "streaming"}
After == {"done", "failed", "cut"}

VARIABLES
    log,                \* session -> the rows of the conversation
    pending,            \* session -> the reply in flight (BrainAdapter._pending)
    kind,               \* turn -> what it is
    at,                 \* turn -> how far it has come
    floor,              \* the text turn that holds TextTurns._lock
    mouth,              \* turn_task: the connection's last turn
    barged,             \* TurnController._cancel is set
    room,               \* where the connection's reader is
    vault,              \* post-turn pipelines, in the order they take vault_lock
    host                \* how far Stop has come

(* History: turns that came to no words; turns talked over before they     *)
(* ended; text turns whose caller gave up on them.                         *)
VARIABLES wordless, talked, hungUp

voice == <<mouth, barged, room>>
turnsHistory == <<wordless, talked, hungUp>>
turnsVars == <<log, pending, kind, at, floor, voice, vault, host, turnsHistory>>

Row(t, role, admitted) == [turn |-> t, role |-> role, admitted |-> admitted,
                           drawn |-> ~admitted, unwound |-> FALSE]
Rows == [turn : AllTurns, role : {"user", "assistant"}, admitted : BOOLEAN,
         drawn : BOOLEAN, unwound : BOOLEAN]

(* The types, and that the floor is held by a text turn still under way.   *)
TurnsTypeOK ==
    /\ log \in [Sessions -> Seq(Rows)]
    /\ pending \in [Sessions -> AllTurns \cup {None}]
    /\ kind \in [AllTurns -> Kinds \cup {"none"}]
    /\ at \in [AllTurns -> {"new", "settling"} \cup Before \cup After]
    /\ floor \in AllTurns \cup {None}
    /\ floor # None => kind[floor] \in TextKinds /\ at[floor] \notin {"new", "queued"} \cup After
    /\ mouth \in AllTurns \cup {None} /\ barged \in BOOLEAN
    /\ room \in {"listening", "yielding", "hearing", "gone"}
    /\ vault \in Seq(AllTurns)
    /\ \A i \in DOMAIN vault : at[vault[i]] \in {"settling", "cut"}
    /\ host \in {"up", "stopping", "unplugging", "draining", "closed"}
    /\ wordless \subseteq AllTurns /\ talked \subseteq AllTurns /\ hungUp \subseteq AllTurns

TurnsInit ==
    /\ log = [s \in Sessions |-> <<>>]
    /\ pending = [s \in Sessions |-> None]
    /\ kind = [t \in AllTurns |-> "none"] /\ at = [t \in AllTurns |-> "new"]
    /\ floor = None /\ mouth = None /\ barged = FALSE /\ room = "listening"
    /\ vault = <<>> /\ host = "up"
    /\ wordless = {} /\ talked = {} /\ hungUp = {}

Session(t) == CASE kind[t] = "text" -> TextSession
                [] kind[t] = "channel" -> ChatSession
                [] OTHER -> VoiceSession
Running(t) == at[t] \in Before \cup {"settling"}
Fresh(t) == at[t] = "new" /\ \A u \in AllTurns : u < t => at[u] # "new"

-----------------------------------------------------------------------------
(* The rows.  The half that comes second finds the session's newest row.   *)
Newest(rows, role) == rows # <<>> /\ rows[Len(rows)].role = role

(* Runtime.post_message: the page's half.                                  *)
Draw(rows, role, t) ==
    IF Newest(rows, role) /\ ~rows[Len(rows)].drawn
    THEN [rows EXCEPT ![Len(rows)] = [@ EXCEPT !.drawn = TRUE, !.turn = t]]
    ELSE Append(rows, Row(t, role, FALSE))

(* SessionStore.append_message: the window's half.                         *)
Admit(rows, role, t) ==
    IF Newest(rows, role) /\ ~rows[Len(rows)].admitted
    THEN [rows EXCEPT ![Len(rows)] = [@ EXCEPT !.admitted = TRUE, !.turn = t]]
    ELSE Append(rows, Row(t, role, TRUE))

InWindow(row) == row.admitted /\ ~row.unwound

(* The window: the places of the rows the next prompt is built from.       *)
Window(rows) == {i \in DOMAIN rows : InWindow(rows[i])}

Kept(rows) == rows

(* SessionStore.drop_last(session, "user").                                *)
Unwind(rows) ==
    IF Window(rows) # {} /\ rows[Max(Window(rows))].role = "user"
    THEN [rows EXCEPT ![Max(Window(rows))] = [@ EXCEPT !.unwound = TRUE]]
    ELSE rows

(* brain.abandon: a no-op unless the session has a reply in flight.        *)
Abandon(s, rows) ==
    /\ log' = [log EXCEPT ![s] = IF pending[s] = None THEN rows ELSE Unwind(rows)]
    /\ pending' = [pending EXCEPT ![s] = None]

KeepsTheFloor(t, where) == /\ at' = [at EXCEPT ![t] = where]
                           /\ floor' = floor

Becomes(t, where) ==
    /\ at' = [at EXCEPT ![t] = where]
    /\ floor' = IF floor = t /\ where \in After THEN None ELSE floor

-----------------------------------------------------------------------------
(* Stop cancels the tasks of live turns, but knows nothing of a channel's  *)
(* poll task until it stops the channels: its turn goes on in the meantime.*)
GoesOn(t) == host = "up" \/ (host = "stopping" /\ kind[t] = "channel")

(* Text turns.  A request comes in, or a message in the channel's chat, one*)
(* at a time, and its turn waits for the lock.                             *)
Asks(t) == /\ Fresh(t)
           /\ \/ host = "up" /\ kind' = [kind EXCEPT ![t] = "text"]
              \/ /\ host \in {"up", "stopping"}
                 /\ \A u \in AllTurns : kind[u] = "channel" => ~Running(u)
                 /\ kind' = [kind EXCEPT ![t] = "channel"]
           /\ Becomes(t, "queued")
           /\ UNCHANGED <<log, pending, voice, vault, host, turnsHistory>>

TakesTheFloor(t) == /\ host = "up" /\ at[t] = "queued" /\ floor = None
                    /\ at' = [at EXCEPT ![t] = "gate"]
                    /\ floor' = t
                    /\ log' = [log EXCEPT ![Session(t)] = Draw(@, "user", t)]
                    /\ UNCHANGED <<pending, kind, voice, vault, host, turnsHistory>>

(* Once Stop has begun, a turn that gets the lock is turned away.          *)
TurnedAway(t) == /\ host # "up" /\ GoesOn(t) /\ at[t] = "queued" /\ floor = None
                 /\ Becomes(t, "failed")
                 /\ UNCHANGED <<log, pending, kind, voice, vault, host, turnsHistory>>

(* Every turn: the park gate, turn_started, then stream_reply assembles a  *)
(* prompt and, for a reply, admits the user's line to the window.          *)
PassesTheGate(t) ==
    /\ GoesOn(t) /\ at[t] = "gate"
    /\ Becomes(t, "assembling")
    /\ UNCHANGED <<log, pending, kind, voice, vault, host, turnsHistory>>

Streams(t) ==
    /\ GoesOn(t) /\ at[t] = "assembling"
    /\ Becomes(t, "streaming")
    /\ IF kind[t] = "ambient" THEN UNCHANGED <<log, pending>>
       ELSE /\ log' = [log EXCEPT ![Session(t)] = Admit(@, "user", t)]
            /\ pending' = [pending EXCEPT ![Session(t)] = t]
    /\ UNCHANGED <<kind, voice, vault, host, turnsHistory>>

(* The brain fails, the reply is empty, the caller or the room has gone, or*)
(* she was talked over: the turn did not happen.                           *)
Fails(t) == /\ at[t] \in {"assembling", "streaming"}
            /\ Becomes(t, "failed")
            /\ Abandon(Session(t), log[Session(t)])
            /\ UNCHANGED <<kind, voice, vault, host, turnsHistory>>

(* brain.persist takes the reply in flight, and returns at once when there *)
(* is none; else her line is admitted and the post-turn pipeline starts.   *)
Persist(t, rows) ==
    /\ pending' = [pending EXCEPT ![Session(t)] = None]
    /\ IF pending[Session(t)] = None
       THEN /\ log' = [log EXCEPT ![Session(t)] = rows]
            /\ Becomes(t, "done")
            /\ UNCHANGED vault
       ELSE /\ log' = [log EXCEPT ![Session(t)] = Admit(rows, "assistant", t)]
            /\ vault' = Append(vault, t)
            /\ Becomes(t, "settling")

(* A clean text reply is drawn, then persisted.  With no words, but a hand *)
(* run, there is nothing to draw.                                          *)
Replies(t) ==
    /\ GoesOn(t) /\ at[t] = "streaming" /\ kind[t] \in TextKinds
    /\ \E rows \in {log[Session(t)], Draw(log[Session(t)], "assistant", t)} :
           /\ wordless' = IF rows = log[Session(t)] THEN wordless \cup {t} ELSE wordless
           /\ Persist(t, rows)
    /\ UNCHANGED <<kind, voice, host, talked, hungUp>>

(* /api/chat/cancel, or a caller that hangs up: wherever the turn is.      *)
CallerGivesUp(t) ==
    /\ kind[t] = "text" /\ Running(t) /\ host \in {"up", "stopping"}
    /\ hungUp' = hungUp \cup {t}
    /\ Becomes(t, IF at[t] = "settling" THEN "cut" ELSE "failed")
    /\ IF at[t] \in {"assembling", "streaming"}
       THEN Abandon(TextSession, log[TextSession])
       ELSE UNCHANGED <<log, pending>>
    /\ UNCHANGED <<kind, voice, vault, host, wordless, talked>>

-----------------------------------------------------------------------------
(* The voice connection.  A typed or spoken line first stops the turn in   *)
(* flight and waits for it to let go (stop_turn), then is heard.           *)
Speaking == mouth # None /\ Running(mouth)
TalkOver == /\ barged' = (barged \/ Speaking)
            /\ talked' = IF Speaking /\ at[mouth] \in Before
                         THEN talked \cup {mouth} ELSE talked

LineComes == /\ host = "up" /\ room = "listening"
             /\ room' = "yielding"
             /\ TalkOver
             /\ UNCHANGED <<log, pending, kind, at, floor, mouth, vault, host, wordless, hungUp>>

AtOnce == TRUE
LetGo == ~Speaking

Hears == /\ host = "up" /\ room = "yielding" /\ LetGo
         /\ room' = "hearing"
         /\ UNCHANGED <<log, pending, kind, at, floor, mouth, barged, vault, host, turnsHistory>>

HearsNothing == /\ host = "up" /\ room = "hearing"
                /\ room' = "listening"
                /\ UNCHANGED <<log, pending, kind, at, floor, mouth, barged, vault, host,
                               turnsHistory>>

(* run_turn arms a fresh cancel token for whoever speaks next.             *)
Arms(t, what) == /\ Fresh(t)
                 /\ kind' = [kind EXCEPT ![t] = what]
                 /\ Becomes(t, "gate")
                 /\ mouth' = t /\ barged' = FALSE

Answers(t) == /\ host = "up" /\ room = "hearing"
              /\ Arms(t, "voice")
              /\ room' = "listening"
              /\ log' = [log EXCEPT ![VoiceSession] = Draw(@, "user", t)]
              /\ UNCHANGED <<pending, vault, host, turnsHistory>>

(* The mind speaks through the connection, unless it is busy.              *)
Injects(t) == /\ host = "up" /\ room # "gone" /\ ~Speaking
              /\ Arms(t, "ambient")
              /\ UNCHANGED <<log, pending, room, vault, host, turnsHistory>>

BargesIn == /\ host = "up" /\ room = "listening" /\ Speaking /\ ~barged
            /\ TalkOver
            /\ UNCHANGED <<log, pending, kind, at, floor, mouth, room, vault, host,
                           wordless, hungUp>>

GoesAway == /\ host = "up" /\ room = "listening"
            /\ room' = "gone"
            /\ TalkOver
            /\ UNCHANGED <<log, pending, kind, at, floor, mouth, vault, host, wordless, hungUp>>

(* A clean spoken reply is persisted first, and drawn on `done`.           *)
Spoke(t) == /\ host = "up" /\ at[t] = "streaming" /\ kind[t] = "voice" /\ ~barged
            /\ \E words \in BOOLEAN :
                   /\ wordless' = IF words THEN wordless ELSE wordless \cup {t}
                   /\ Persist(t, IF words /\ pending[VoiceSession] = None
                                 THEN Draw(log[VoiceSession], "assistant", t)
                                 ELSE log[VoiceSession])
            /\ UNCHANGED <<kind, voice, host, talked, hungUp>>

(* An unprompted line is drawn and not persisted; its pump abandons too.   *)
Murmured(t) == /\ host = "up" /\ at[t] = "streaming" /\ kind[t] = "ambient" /\ ~barged
               /\ Becomes(t, "done")
               /\ Abandon(VoiceSession, Draw(log[VoiceSession], "assistant", t))
               /\ UNCHANGED <<kind, voice, vault, host, turnsHistory>>

-----------------------------------------------------------------------------
(* The post-turn pipeline at the head of vault_lock ends.  Its turn, if it *)
(* still waits, ends with it; a voice turn draws her line now.             *)
Settles ==
    /\ vault # <<>> /\ vault' = Tail(vault)
    /\ LET t == Head(vault)
           s == Session(t)
           rows == IF kind[t] = "voice" /\ t \notin wordless
                   THEN Draw(log[s], "assistant", t) ELSE log[s]
       IN  IF at[t] = "cut" THEN UNCHANGED <<log, pending, at, floor>>
           ELSE /\ Becomes(t, "done")
                /\ IF kind[t] = "voice" THEN Abandon(s, rows) ELSE UNCHANGED <<log, pending>>
    /\ UNCHANGED <<kind, voice, host, turnsHistory>>

(* Runtime.stop_async: every live turn that is not committing is cancelled,*)
(* the room with them, and waited for; then the channels are stopped, their*)
(* turn cancelled and waited for; then it waits for vault_lock.            *)
StopBegins == /\ host = "up" /\ host' = "stopping"
              /\ room' = "gone" /\ barged' = TRUE
              /\ UNCHANGED <<log, pending, kind, at, floor, mouth, vault, turnsHistory>>

(* committing() counts a task that start_live_task has admitted.           *)
Live(t) == kind[t] # "channel"
NeverPast(t) == FALSE
Committing(t) == kind[t] = "text" /\ at[t] = "settling"

Stopped(t) ==
    /\ Running(t)
    /\ \/ host = "stopping" /\ Live(t) /\ ~Committing(t)
       \/ host = "unplugging" /\ ~Live(t)
    /\ Becomes(t, IF at[t] = "settling" THEN "cut" ELSE "failed")
    /\ IF at[t] \in {"queued", "gate"} THEN UNCHANGED <<log, pending>>
       ELSE Abandon(Session(t), log[Session(t)])
    /\ UNCHANGED <<kind, voice, vault, host, turnsHistory>>

StopWaits == /\ host = "stopping" /\ \A t \in AllTurns : Running(t) => ~Live(t)
             /\ host' = "unplugging"
             /\ UNCHANGED <<log, pending, kind, at, floor, voice, vault, turnsHistory>>

StopUnplugs == /\ host = "unplugging" /\ \A t \in AllTurns : ~Running(t)
               /\ host' = "draining"
               /\ UNCHANGED <<log, pending, kind, at, floor, voice, vault, turnsHistory>>

Unsettled == TRUE
Settled == vault = <<>>

StopCloses == /\ host = "draining" /\ Settled
              /\ host' = "closed"
              /\ UNCHANGED <<log, pending, kind, at, floor, voice, vault, turnsHistory>>

Pump(t) == \/ TakesTheFloor(t) \/ TurnedAway(t) \/ PassesTheGate(t) \/ Streams(t)
           \/ Fails(t) \/ Replies(t) \/ Spoke(t) \/ Murmured(t) \/ Stopped(t)

TurnsNext ==
    \/ \E t \in AllTurns : \/ Pump(t) \/ Asks(t) \/ CallerGivesUp(t)
                           \/ Answers(t) \/ Injects(t)
    \/ LineComes \/ Hears \/ HearsNothing \/ BargesIn \/ GoesAway
    \/ Settles \/ StopBegins \/ StopWaits \/ StopUnplugs \/ StopCloses

TurnsSpec == TurnsInit /\ [][TurnsNext]_turnsVars

(* The event loop runs what is ready, and a post-turn worker ends.         *)
TurnsFairness ==
    /\ \A t \in AllTurns : WF_turnsVars(Pump(t))
    /\ WF_turnsVars(Settles)
    /\ WF_turnsVars(StopWaits) /\ WF_turnsVars(StopUnplugs) /\ WF_turnsVars(StopCloses)

TurnsFairSpec == TurnsSpec /\ TurnsFairness

-----------------------------------------------------------------------------
(* Two rows of the window with none of it between them.                    *)
Adjacent(rows, i, j) == i < j /\ ~\E k \in Window(rows) : i < k /\ k < j

Murmurs == {t \in AllTurns : kind[t] = "ambient"}

(* A window of rows, with the turn p in flight: a question opens it, hers  *)
(* and the person's lines take turns, each of hers answers the line above  *)
(* it (or is a murmur), and a question with no answer yet is p's.          *)
Exchanges(rows, p, murmurs) ==
    /\ \A j \in Window(rows) :
          /\ (\A i \in Window(rows) : j <= i) => rows[j].role = "user"
          /\ rows[j].role = "user" /\ (\A i \in Window(rows) : i <= j) => p = rows[j].turn
    /\ \A i, j \in Window(rows) : Adjacent(rows, i, j) =>
          /\ rows[i].role # rows[j].role
          /\ rows[j].role = "assistant" =>
                 rows[j].turn = rows[i].turn \/ rows[j].turn \in murmurs

(* The next prompt never reads a question she still owes an answer to: the *)
(* window is a run of exchanges, her line under the line it answers, and a *)
(* last line alone is the one she is answering now (SPEC 9.6).  A row whose*)
(* reply was not drawn may have been lost to her next unprompted line.     *)
WindowIsExchanges == \A s \in Sessions : Exchanges(log[s], pending[s], Murmurs)

(* A turn that was talked over, or whose listener left, leaves no trace in *)
(* her memory, whatever token the next turn arms (voice/turn.py).          *)
TalkedOverLeavesNoTrace ==
    \A t \in talked :
        /\ at[t] \in Before \cup {"failed"}
        /\ at[t] = "failed" =>
               \A s \in Sessions : \A i \in Window(log[s]) : log[s][i].turn # t

(* Her memory is closed under no writer: no turn runs and no post-turn     *)
(* pipeline is left, not even one whose turn a cancel walked away from     *)
(* (SPEC 29.5).                                                            *)
ClosedUnderNoWriter ==
    host = "closed" => vault = <<>> /\ \A t \in AllTurns : ~Running(t)

(* A request's reply that is on the page is past cancelling by Stop: its   *)
(* turn runs to its end, unless its own caller gives up on it (SPEC 29.5). *)
PostedIsFinished ==
    \A t \in AllTurns : (kind[t] = "text" /\ at[t] = "settling")
                         ~> (at[t] = "done" \/ t \in hungUp)

(* What SPEC 29.5 says of every text turn: only its caller cuts it once its*)
(* reply has posted.  Not so of a channel's turn: Stop does not know its   *)
(* task as a live one, and stop_all cancels it with the poll.              *)
EveryPostedIsFinished ==
    \A t \in AllTurns : kind[t] \in TextKinds /\ at[t] = "cut" => t \in hungUp

(* What app/conversation.py says of the window: a murmur is drawn, and the *)
(* next prompt does not see it.  Not so for one that follows a reply with  *)
(* no words: it is drawn over that reply's row.                            *)
MurmurStaysOutOfTheWindow ==
    \A s \in Sessions : \A i \in Window(log[s]) : log[s][i].turn \notin Murmurs

(* What voice_ws.py says of abandon: a no-op for an unprompted line.  Not  *)
(* so for one let in while the next line was being heard: it rolls back the*)
(* turn that is running, and her reply is on the page and nowhere else.    *)
ShownIsRemembered ==
    \A t \in AllTurns : at[t] = "done" /\ kind[t] # "ambient" =>
        \E i \in Window(log[Session(t)]) :
            log[Session(t)][i].role = "user" /\ log[Session(t)][i].turn = t
=============================================================================
