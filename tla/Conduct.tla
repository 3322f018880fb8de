------------------------------- MODULE Conduct -------------------------------
(***************************************************************************)
(* What she does unasked, and what bounds it: her hands (mind/hands.py,    *)
(* mind/handwork.py), reached for by the tick and by a night started by    *)
(* hand at the same time, and the messages she sends of her own accord     *)
(* (Gate 2, acts.reach_out).  Both are capped by the local day, a call is  *)
(* not repeated within its cooldown, the owner's switch and a conversation *)
(* stop her hands at once, and nothing goes out in quiet hours.  The counts*)
(* live in memory and reach engine.json when a tick ends.                  *)
(*                                                                         *)
(* Time is cut into three parts of a day: the small hours, the open hours  *)
(* and the late ones.  A tool is its calls: two calls with the same        *)
(* arguments are one call.  Which goal is worked, the score of Gate 2, the *)
(* pressure on the budget and the guard's rate limits are free choices.    *)
(***************************************************************************)
EXTENDS Integers, FiniteSets

CONSTANTS
    Calls,              \* tool and arguments
    NoCall,
    Cheap,              \* those of the cheap class
    Reads,              \* those that only read (READ_ONLY), never cooling
    Cooldown,           \* parts of a day before each call may be repeated
    CallsPerDay,        \* MIND_TOOL_CALLS_PER_DAY
    MessagesPerDay,     \* MIND_MAX_INTERRUPTS_PER_DAY
    HandsPerStep,       \* MIND_GOAL_MAX_HANDS
    MaxTime,            \* bound on the clock
    MaxFaults           \* bound on crashes and failed model calls

ASSUME ConductAssumption ==
    /\ Cheap \subseteq Calls /\ Reads \subseteq Cheap /\ NoCall \notin Calls
    /\ Cooldown \in [Calls -> Nat]
    /\ \E c \in Calls : \A d \in Calls : Cooldown[d] <= Cooldown[c]
    /\ {CallsPerDay, MessagesPerDay, HandsPerStep, MaxTime, MaxFaults} \subseteq Nat

VARIABLES
    now,                \* the clock
    room,               \* what her hands see: "off" while the owner's switch
                        \* is, "talking", "company" or "empty"
    at,                 \* what the tick and a night by hand are doing
    offered,            \* the calls each was offered before its model call
    left,               \* the calls left to its step
    call,               \* the call each has out
    since,              \* when the tick began to compose
    books,              \* hands.spent, hands.ledger, loop.interrupts and
                        \* loop.reconsidered_on
    disk                \* the books as engine.json has them

(* History.  made and sent: the calls and messages of the local day, those *)
(* no tick has saved yet, those a crash forgot, and the pictures sent whose*)
(* words then failed; lastMade: when each call went out, and likewise.     *)
VARIABLES made, sent, lastMade, faults

clock == <<now, room>>
Rooms == {"off", "talking", "company", "empty"}
steps == <<at, offered, left, call, since>>
history == <<made, sent, lastMade, faults>>
vars == <<clock, steps, books, disk, history>>

Actors == {"tick", "night"}
Never == -1
Today == now \div 3
Quiet(t) == t % 3 # 1
Messaging == {"composing", "captioning"}

Tally == [day : Never .. MaxTime \div 3, count : Nat]
Times == [Calls -> Never .. MaxTime]
Books == [spent : Tally, ledger : Times, interrupts : Tally,
          rolled : Never .. MaxTime \div 3]
NewTally(d) == [day |-> d, count |-> 0]

(* The types, and that only the tick writes to people.                     *)
TypeOK ==
    /\ now \in 0 .. MaxTime /\ room \in Rooms
    /\ at \in [Actors -> {"idle", "thinking", "calling", "ending"} \cup Messaging]
    /\ at["night"] \notin Messaging \cup {"ending"}
    /\ offered \in [Actors -> SUBSET Calls]
    /\ left \in [Actors -> 0 .. HandsPerStep]
    /\ call \in [Actors -> Calls \cup {NoCall}]
    /\ since \in 0 .. MaxTime
    /\ books \in Books /\ disk \in Books
    /\ made \in [day : Nat, unsaved : Nat, forgotten : Nat]
    /\ sent \in [day : Nat, unsaved : Nat, forgotten : Nat, loose : Nat]
    /\ lastMade \in [time : Times, unsaved : SUBSET Calls, forgotten : SUBSET Calls]
    /\ faults \in 0 .. MaxFaults

Init == /\ now = 0 /\ room = "empty"
        /\ at = [a \in Actors |-> "idle"]
        /\ offered = [a \in Actors |-> {}]
        /\ left = [a \in Actors |-> 0]
        /\ call = [a \in Actors |-> NoCall]
        /\ since = 0
        /\ books = [spent |-> NewTally(Never), ledger |-> [c \in Calls |-> Never],
                    interrupts |-> NewTally(Never), rolled |-> Never]
        /\ disk = books
        /\ made = [day |-> 0, unsaved |-> 0, forgotten |-> 0]
        /\ sent = [day |-> 0, unsaved |-> 0, forgotten |-> 0, loose |-> 0]
        /\ lastMade = [time |-> books.ledger, unsaved |-> {}, forgotten |-> {}]
        /\ faults = 0

Goes(a, from, to) == at[a] = from /\ at' = [at EXCEPT ![a] = to]

-----------------------------------------------------------------------------
(* The world: the hours pass, people come and go, and so does the switch.  *)
(* A compose is over within one part of the day.                           *)
TimePasses ==
    /\ now < MaxTime
    /\ at["tick"] \in Messaging => since = now
    /\ now' = now + 1
    /\ IF Today' = Today
       THEN UNCHANGED <<made, sent>>
       ELSE /\ made' = [day |-> 0, unsaved |-> 0, forgotten |-> 0]
            /\ sent' = [day |-> 0, unsaved |-> 0, forgotten |-> 0, loose |-> 0]
    /\ UNCHANGED <<room, steps, books, disk, lastMade, faults>>

RoomChanges == /\ room' \in Rooms \ {room}
               /\ UNCHANGED <<now, steps, books, disk, history>>

-----------------------------------------------------------------------------
(* The ledger of her hands.                                                *)
CountToday == IF books.spent.day = Today THEN books.spent.count ELSE 0

Offer == IF room \in {"off", "talking"} \/ CountToday >= CallsPerDay THEN {}
         ELSE {c \in Calls : c \in Cheap \/ room = "empty"}

Cooling(c) == /\ c \notin Reads
              /\ books.ledger[c] # Never
              /\ now - books.ledger[c] < Cooldown[c]

CheckIsTheOffer(a, c) == c \in offered[a] /\ ~Cooling(c)

(* check(): the offer again, as things stand now, and the cooldown.        *)
Check(a, c) == c \in Offer /\ ~Cooling(c)

Spend(c) ==
    [books EXCEPT !.spent = [day |-> Today, count |-> CountToday + 1],
                  !.ledger[c] = IF c \in Reads THEN @ ELSE now]

(* roll(), at the day's first tick: what has cooled for good is forgotten. *)
PrunedAfter(age) == [c \in Calls |-> IF now - books.ledger[c] < age
                                     THEN books.ledger[c] ELSE Never]
Longest == CHOOSE n \in {Cooldown[c] : c \in Calls} :
              \A c \in Calls : Cooldown[c] <= n

RollShort == IF books.rolled = Today THEN books
             ELSE [books EXCEPT
                     !.spent = IF @.day = Today THEN @ ELSE NewTally(Today),
                     !.ledger = PrunedAfter(1),
                     !.rolled = Today]

Rolled == IF books.rolled = Today THEN books
          ELSE [books EXCEPT
                  !.spent = IF @.day = Today THEN @ ELSE NewTally(Today),
                  !.ledger = PrunedAfter(Longest),
                  !.rolled = Today]

-----------------------------------------------------------------------------
(* A step: hands are offered, the model asked; while it answers with a call*)
(* the call is dispatched and the model asked again.                       *)
StepBegins(a) ==
    /\ Goes(a, "idle", "thinking")
    /\ books' = IF a = "tick" THEN Rolled ELSE books
    /\ offered' = [offered EXCEPT ![a] = Offer]
    /\ left' = [left EXCEPT ![a] = HandsPerStep]
    /\ UNCHANGED <<clock, call, since, disk, history>>

ReachesPastTheCap(a) == /\ at[a] = "thinking" /\ offered[a] # {}
                        /\ left' = [left EXCEPT ![a] = @ - 1]
                        /\ UNCHANGED <<clock, offered, since, disk>>

Reaches(a) == /\ at[a] = "thinking" /\ left[a] > 0 /\ offered[a] # {}
              /\ left' = [left EXCEPT ![a] = @ - 1]
              /\ UNCHANGED <<clock, offered, since, disk>>

(* A call she fumbled, or that check() refuses.                            *)
Refused(a) == /\ Reaches(a)
              /\ UNCHANGED <<at, call, books, history>>

GoesOut(c) == /\ made' = [made EXCEPT !.day = @ + 1, !.unsaved = @ + 1]
              /\ lastMade' = [lastMade EXCEPT !.time[c] = now,
                                             !.unsaved = @ \cup {c},
                                             !.forgotten = @ \ {c}]
              /\ UNCHANGED <<sent, faults>>

(* Booked before it goes out; the guard's rate limit may still refuse it.  *)
Dispatched(a, c) ==
    /\ Reaches(a)
    /\ c \in offered[a] /\ Check(a, c)
    /\ books' = Spend(c)
    /\ \/ /\ at' = [at EXCEPT ![a] = "calling"]
          /\ call' = [call EXCEPT ![a] = c]
          /\ GoesOut(c)
       \/ UNCHANGED <<at, call, history>>

(* An answer, an error or a timeout.                                       *)
CallReturns(a) == /\ Goes(a, "calling", "thinking")
                  /\ call' = [call EXCEPT ![a] = NoCall]
                  /\ UNCHANGED <<clock, offered, left, since, books, disk, history>>

StepEnds(a) == /\ Goes(a, "thinking", IF a = "tick" THEN "ending" ELSE "idle")
               /\ offered' = [offered EXCEPT ![a] = {}]
               /\ left' = [left EXCEPT ![a] = 0]
               /\ UNCHANGED <<clock, call, since, books, disk, history>>

-----------------------------------------------------------------------------
(* Gate 2, on the tick: the day rolls, then the two hard gates.            *)
Interrupts == IF books.interrupts.day = Today THEN books.interrupts
              ELSE NewTally(Today)
GateIsOpenAtAnyHour == Interrupts.count < MessagesPerDay
GateIsOpen == Interrupts.count < MessagesPerDay /\ ~Quiet(now)

GateRuns(to) == /\ Goes("tick", "idle", to)
                /\ books' = [Rolled EXCEPT !.interrupts = Interrupts]
                /\ since' = IF to = "ending" THEN since ELSE now
                /\ UNCHANGED <<clock, offered, left, call, disk>>

StaysQuiet == GateRuns("ending") /\ UNCHANGED history

Composes == GateIsOpen /\ GateRuns("composing") /\ UNCHANGED history

GoesToThem == sent' = [sent EXCEPT !.day = @ + 1, !.unsaved = @ + 1]
Count == books' = [books EXCEPT !.interrupts.count = @ + 1]

Composed(from) == Goes("tick", from, "ending") /\ since' = 0

(* A picture she would speak over goes first.                              *)
SendsPictureFirst == /\ GateIsOpen /\ GateRuns("captioning")
                     /\ GoesToThem
                     /\ UNCHANGED <<made, lastMade, faults>>

WordsCome == /\ Composed("composing")
             /\ GoesToThem /\ Count
             /\ UNCHANGED <<clock, offered, left, call, disk, made, lastMade, faults>>

NoWords == /\ Composed("composing")
           /\ UNCHANGED <<clock, offered, left, call, books, disk, history>>

CaptionedForFree == /\ Composed("captioning")
                    /\ UNCHANGED <<clock, offered, left, call, books, disk, history>>

Captioned == /\ Composed("captioning")
             /\ Count
             /\ UNCHANGED <<clock, offered, left, call, disk, history>>

-----------------------------------------------------------------------------
(* The end of a tick saves the books, and so does a document she opened.   *)
Save == /\ disk' = books
        /\ made' = [made EXCEPT !.unsaved = 0]
        /\ sent' = [sent EXCEPT !.unsaved = IF at["tick"] = "captioning" THEN 1 ELSE 0]
        /\ lastMade' = [lastMade EXCEPT !.unsaved = {}]
        /\ UNCHANGED <<clock, books, faults>>

TickEnds == /\ Goes("tick", "ending", "idle")
            /\ Save
            /\ UNCHANGED <<offered, left, call, since>>

Opened == Save /\ disk # books /\ UNCHANGED steps

(* The model raises: the act, or the night, is over.                       *)
Fails(a) ==
    /\ faults < MaxFaults /\ faults' = faults + 1
    /\ at[a] \in {"thinking"} \cup Messaging
    /\ at' = [at EXCEPT ![a] = IF a = "tick" THEN "ending" ELSE "idle"]
    /\ offered' = [offered EXCEPT ![a] = {}]
    /\ left' = [left EXCEPT ![a] = 0]
    /\ sent' = IF at[a] = "captioning"
               THEN [sent EXCEPT !.loose = @ + 1, !.unsaved = @ - 1]
               ELSE sent
    /\ since' = IF a = "tick" THEN 0 ELSE since
    /\ UNCHANGED <<clock, call, books, disk, made, lastMade>>

Crash ==
    /\ faults < MaxFaults /\ faults' = faults + 1
    /\ at' = [a \in Actors |-> "idle"]
    /\ offered' = [a \in Actors |-> {}]
    /\ left' = [a \in Actors |-> 0]
    /\ call' = [a \in Actors |-> NoCall]
    /\ books' = disk
    /\ made' = [made EXCEPT !.forgotten = @ + made.unsaved, !.unsaved = 0]
    /\ sent' = [sent EXCEPT !.forgotten = @ + sent.unsaved, !.unsaved = 0]
    /\ lastMade' = [lastMade EXCEPT !.forgotten = @ \cup lastMade.unsaved,
                                   !.unsaved = {}]
    /\ since' = 0
    /\ UNCHANGED <<clock, disk>>

Next == \/ TimePasses \/ RoomChanges
        \/ \E a \in Actors : \/ StepBegins(a) \/ Refused(a)
                             \/ \E c \in Calls : Dispatched(a, c)
                             \/ CallReturns(a) \/ StepEnds(a) \/ Fails(a)
        \/ StaysQuiet \/ Composes \/ SendsPictureFirst
        \/ WordsCome \/ NoWords \/ Captioned
        \/ TickEnds \/ Opened \/ Crash

Spec == Init /\ [][Next]_vars

-----------------------------------------------------------------------------
(* SPEC 26.3, MIND_TOOL_CALLS_PER_DAY: whoever reaches, tick or night, and *)
(* wherever midnight falls, the calls of a local day are within the cap,   *)
(* but for those a crash took from the count before a tick saved it.       *)
HandsDay == INSTANCE AllowanceSpec WITH Cap <- CallsPerDay, day <- Today,
                used <- made.day, unbooked <- made.forgotten
HandsKeepTheCap == HandsDay!Spec

(* SPEC 18.2, MIND_MAX_INTERRUPTS_PER_DAY: likewise the messages, but also *)
(* for pictures sent whose words then failed.                              *)
MessagesDay == INSTANCE AllowanceSpec WITH Cap <- MessagesPerDay, day <- Today,
                   used <- sent.day, unbooked <- sent.forgotten + sent.loose
MessagesKeepTheCap == MessagesDay!Spec

(* SPEC 26.3: the switch, a conversation and a full room stop a call even  *)
(* when they come after the hand was offered; and a call is not made again *)
(* within its cooldown, but for one whose booking a crash forgot.          *)
CallsInTheirPlace ==
    [][\A a \in Actors, c \in Calls : call[a] # c /\ call'[a] = c =>
         /\ room \notin {"off", "talking"} /\ (c \in Cheap \/ room = "empty")
         /\ \/ c \in Reads \cup lastMade.forgotten
            \/ lastMade.time[c] = Never
            \/ now - lastMade.time[c] >= Cooldown[c]]_vars

(* SPEC 18.2: nothing she starts goes out in quiet hours, but a line she   *)
(* was already composing when they began.                                  *)
QuietHoursKept ==
    [][sent'.day > sent.day => ~Quiet(now) \/ (~Quiet(since) /\ since < now)]_vars

(* SPEC 18.2, the hard daily cap: only a crash lets one more message out.  *)
CapOnMessages == sent.day <= MessagesPerDay + sent.forgotten
=============================================================================
