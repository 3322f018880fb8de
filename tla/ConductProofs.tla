---------------------------- MODULE ConductProofs ----------------------------
(***************************************************************************)
(* The caps of Conduct for every cap, every set of calls and any number of *)
(* crashes.  Each count is carried by an invariant of its own: what was    *)
(* done today is at most what the books hold, and what the books would hold*)
(* after a crash, but for what that crash forgets.                         *)
(***************************************************************************)
EXTENDS Conduct, TLAPS

Tool(b) == IF b.spent.day = Today THEN b.spent.count ELSE 0
Talk(b) == IF b.interrupts.day = Today THEN b.interrupts.count ELSE 0
OnItsWay == IF at["tick"] = "captioning" THEN 1 ELSE 0

HandsCounted ==
    /\ made.forgotten + made.unsaved <= made.day
    /\ made.day <= Tool(books) + made.forgotten
    /\ made.day <= Tool(disk) + made.forgotten + made.unsaved

MessagesCounted ==
    /\ sent.forgotten + sent.unsaved + sent.loose <= sent.day
    /\ sent.day <= Talk(books) + OnItsWay + sent.forgotten + sent.loose
    /\ sent.day <= Talk(disk) + sent.unsaved + sent.forgotten + sent.loose
    /\ at["tick"] = "captioning" => sent.unsaved >= 1

(* A compose keeps to the open hours it began in and to the hour after, and*)
(* its place under the cap waits for it.                                   *)
ComposeInOpenHours ==
    at["tick"] \in Messaging =>
        /\ ~Quiet(since) /\ since <= now /\ now <= since + 1
        /\ books.interrupts.day = Today
        /\ books.interrupts.count < MessagesPerDay

(* The ledger is no older than the last call, and what it has forgotten has*)
(* cooled.                                                                 *)
Remembers(b, c) ==
    IF b.ledger[c] = Never
    THEN lastMade.time[c] = Never \/ now - lastMade.time[c] >= Cooldown[c]
    ELSE lastMade.time[c] <= b.ledger[c]

LedgerIsKept ==
    /\ \A c \in Calls : lastMade.time[c] <= now
    /\ \A c \in Calls \ (Reads \cup lastMade.forgotten) : Remembers(books, c)
    /\ \A c \in Calls \ (Reads \cup lastMade.forgotten \cup lastMade.unsaved) :
           Remembers(disk, c)

IInv == TypeOK /\ HandsCounted /\ MessagesCounted /\ ComposeInOpenHours /\ LedgerIsKept

-----------------------------------------------------------------------------
(* A part of a day later it is the same day or the next, and the open hours*)
(* of a day are not its last part.                                         *)
LEMMA DayTurns ==
    ASSUME NEW t \in Nat
    PROVE  /\ t \div 3 \in Nat
           /\ (t + 1) \div 3 \in {t \div 3, t \div 3 + 1}
           /\ ~Quiet(t) => (t + 1) \div 3 = t \div 3
           /\ t <= MaxTime => t \div 3 <= MaxTime \div 3
  BY ConductAssumption, SMT DEF Quiet

LEMMA LongestIsLongest ==
    Longest \in Nat /\ \A c \in Calls : Cooldown[c] <= Longest
  <1>. DEFINE lengths == {Cooldown[c] : c \in Calls}
  <1>1. PICK d \in Calls : \A c \in Calls : Cooldown[c] <= Cooldown[d]
    BY ConductAssumption
  <1>2. Cooldown[d] \in lengths /\ lengths \subseteq Nat
    BY ConductAssumption
  <1>3. \E n \in lengths : \A c \in Calls : Cooldown[c] <= n
    BY <1>1, <1>2
  <1>. QED
    BY <1>2, <1>3, Zenon DEF Longest

-----------------------------------------------------------------------------
LEMMA BooksWritten ==
    ASSUME NEW b \in Books, NEW s \in Tally, NEW l \in Times,
           NEW r \in Never .. MaxTime \div 3
    PROVE  [b EXCEPT !.spent = s, !.ledger = l, !.rolled = r] \in Books
  BY Zenon DEF Books

(* The morning's roll changes no count of the day, and forgets of the      *)
(* ledger only what has cooled.                                            *)
LEMMA RollKeeps ==
    ASSUME TypeOK
    PROVE  /\ Rolled \in Books
           /\ Tool(Rolled) = Tool(books)
           /\ Rolled.interrupts = books.interrupts
           /\ \A c \in Calls : Remembers(books, c) => Remembers(Rolled, c)
  <1>. USE ConductAssumption, LongestIsLongest DEF TypeOK, Never, Times
  <1>1. Today \in Nat /\ Today <= MaxTime \div 3 /\ MaxTime \div 3 \in Nat
    BY DayTurns, SMT DEF Today
  <1>2. PrunedAfter(Longest) \in Times
    BY SMT DEF PrunedAfter, Books
  <1>3. Rolled \in Books
    <2>1. (IF books.spent.day = Today THEN books.spent ELSE NewTally(Today)) \in Tally
      BY <1>1, SMT DEF Books, Tally, NewTally
    <2>2. Today \in Never .. MaxTime \div 3
      BY <1>1, SMT
    <2>. HIDE DEF Times, Never
    <2>. QED
      BY <1>2, <2>1, <2>2, BooksWritten DEF Rolled, TypeOK
  <1>4. Tool(Rolled) = Tool(books)
    BY <1>1, <1>2, SMT DEF Rolled, Books, Tally, NewTally, Tool
  <1>5. Rolled.interrupts = books.interrupts
    BY <1>1, SMT DEF Rolled, Books
  <1>6. ASSUME NEW c \in Calls, Remembers(books, c)
        PROVE  Remembers(Rolled, c)
    <2>1. CASE books.rolled = Today
      BY <2>1, <1>6 DEF Rolled
    <2>2. CASE books.rolled # Today
      <3>1. Rolled.ledger = PrunedAfter(Longest)
        BY <2>2, SMT DEF Rolled, Books
      <3>2. /\ books.ledger[c] \in -1 .. MaxTime /\ lastMade.time[c] \in -1 .. MaxTime
            /\ now \in Nat /\ Cooldown[c] \in Nat /\ Cooldown[c] <= Longest
        BY SMT DEF Books
      <3>3. Rolled.ledger[c] = IF now - books.ledger[c] < Longest
                               THEN books.ledger[c] ELSE -1
        BY <3>1, Zenon DEF PrunedAfter
      <3>. QED
        BY <1>6, <3>2, <3>3, SMT DEF Remembers
    <2>. QED
      BY <2>1, <2>2
  <1>. QED
    BY <1>3, <1>4, <1>5, <1>6

(* A call booked, a gate run, a message counted.                           *)
LEMMA SpendBooks ==
    ASSUME TypeOK, NEW c \in Calls
    PROVE  /\ Spend(c) \in Books
           /\ Spend(c).spent = [day |-> Today, count |-> CountToday + 1]
           /\ Spend(c).interrupts = books.interrupts
           /\ Spend(c).ledger = [books.ledger EXCEPT ![c] = IF c \in Reads THEN @ ELSE now]
           /\ CountToday \in Nat /\ CountToday = Tool(books)
  <1>. USE ConductAssumption DEF TypeOK
  <1>1. Today \in 0 .. MaxTime \div 3
    BY DayTurns, SMT DEF Today
  <1>2. CountToday \in Nat /\ CountToday = Tool(books)
    BY SMT DEF CountToday, Tool, Books, Tally
  <1>3. [day |-> Today, count |-> CountToday + 1] \in Tally
    BY <1>1, <1>2, SMT DEF Tally, Never
  <1>. DEFINE led == [books.ledger EXCEPT ![c] = IF c \in Reads THEN @ ELSE now]
  <1>4. led \in Times
    BY SMT DEF Books, Times, Never
  <1>5. Spend(c) = [books EXCEPT !.spent = [day |-> Today, count |-> CountToday + 1],
                                 !.ledger = led]
    BY SMT DEF Spend, Books
  <1>6. Spend(c) \in Books
    BY <1>3, <1>4, <1>5, Zenon DEF Books
  <1>. QED
    BY <1>2, <1>5, <1>6, SMT DEF Books

LEMMA GateBooks ==
    ASSUME TypeOK
    PROVE  /\ Interrupts \in Tally /\ Interrupts.day = Today
           /\ Interrupts.count = Talk(books)
           /\ [Rolled EXCEPT !.interrupts = Interrupts] \in Books
           /\ [Rolled EXCEPT !.interrupts = Interrupts].interrupts = Interrupts
           /\ [Rolled EXCEPT !.interrupts = Interrupts].spent = Rolled.spent
           /\ [Rolled EXCEPT !.interrupts = Interrupts].ledger = Rolled.ledger
  <1>. USE ConductAssumption, RollKeeps DEF TypeOK
  <1>1. Today \in 0 .. MaxTime \div 3
    BY DayTurns, SMT DEF Today
  <1>2. Interrupts \in Tally /\ Interrupts.day = Today /\ Interrupts.count = Talk(books)
    BY <1>1, SMT DEF Interrupts, Tally, NewTally, Talk, Books, Never
  <1>3. [Rolled EXCEPT !.interrupts = Interrupts] \in Books
    BY <1>2, Zenon DEF Books
  <1>. QED
    BY <1>2, <1>3, SMT DEF Books

LEMMA CountBooks ==
    ASSUME TypeOK
    PROVE  LET b == [books EXCEPT !.interrupts.count = @ + 1]
           IN  /\ b \in Books /\ b.spent = books.spent /\ b.ledger = books.ledger
               /\ b.interrupts.day = books.interrupts.day
               /\ b.interrupts.count = books.interrupts.count + 1
  <1>. DEFINE n == [books.interrupts EXCEPT !.count = @ + 1]
              b == [books EXCEPT !.interrupts.count = @ + 1]
  <1>1. n \in Tally /\ n.day = books.interrupts.day
        /\ n.count = books.interrupts.count + 1
    BY SMT DEF TypeOK, Books, Tally
  <1>2. b = [books EXCEPT !.interrupts = n]
    BY SMT DEF TypeOK, Books
  <1>3. b \in Books
    BY <1>1, <1>2, Zenon DEF Books, TypeOK
  <1>. HIDE DEF n
  <1>. QED
    BY <1>1, <1>2, <1>3, SMT DEF TypeOK, Books

LEMMA InitHolds == Init => IInv
  <1>. SUFFICES ASSUME Init PROVE IInv
    OBVIOUS
  <1>1. MaxTime \div 3 \in Nat
    BY DayTurns, ConductAssumption
  <1>2. TypeOK
    BY <1>1, ConductAssumption, SMT
    DEF Init, TypeOK, Rooms, Actors, Messaging, Books, Tally, Times, NewTally, Never
  <1>3. HandsCounted /\ MessagesCounted /\ ComposeInOpenHours
    BY DayTurns, SMT
    DEF Init, HandsCounted, MessagesCounted, ComposeInOpenHours, Tool, Talk, OnItsWay,
        Actors, Messaging, NewTally, Today, Never
  <1>4. LedgerIsKept
    BY ConductAssumption, SMT DEF Init, LedgerIsKept, Remembers, Never
  <1>. QED
    BY <1>2, <1>3, <1>4 DEF IInv

-----------------------------------------------------------------------------
(* What the history records may become.                                    *)
LEMMA HistoryWritten ==
    ASSUME TypeOK, NEW u \in Nat, NEW f \in Nat, NEW d \in Nat
    PROVE  /\ [made EXCEPT !.day = d, !.unsaved = u] \in [day : Nat, unsaved : Nat, forgotten : Nat]
           /\ [made EXCEPT !.unsaved = u] \in [day : Nat, unsaved : Nat, forgotten : Nat]
           /\ [made EXCEPT !.forgotten = f, !.unsaved = u]
                  \in [day : Nat, unsaved : Nat, forgotten : Nat]
           /\ [sent EXCEPT !.day = d, !.unsaved = u]
                  \in [day : Nat, unsaved : Nat, forgotten : Nat, loose : Nat]
           /\ [sent EXCEPT !.unsaved = u]
                  \in [day : Nat, unsaved : Nat, forgotten : Nat, loose : Nat]
           /\ [sent EXCEPT !.forgotten = f, !.unsaved = u]
                  \in [day : Nat, unsaved : Nat, forgotten : Nat, loose : Nat]
           /\ [sent EXCEPT !.loose = f, !.unsaved = u]
                  \in [day : Nat, unsaved : Nat, forgotten : Nat, loose : Nat]
  BY Zenon DEF TypeOK

LEMMA TypeStep == ASSUME TypeOK, MessagesCounted, [Next]_vars PROVE TypeOK'
  <1>. USE ConductAssumption DEF TypeOK, steps, clock, history
  <1>. DEFINE M == [day : Nat, unsaved : Nat, forgotten : Nat]
              S == [day : Nat, unsaved : Nat, forgotten : Nat, loose : Nat]
              L == [time : Times, unsaved : SUBSET Calls, forgotten : SUBSET Calls]
  <1>0. /\ made.day \in Nat /\ made.unsaved \in Nat /\ made.forgotten \in Nat
        /\ sent.day \in Nat /\ sent.unsaved \in Nat /\ sent.forgotten \in Nat
        /\ sent.loose \in Nat
    BY SMT
  <1>0b. /\ made.day + 1 \in Nat /\ made.unsaved + 1 \in Nat
         /\ sent.day + 1 \in Nat /\ sent.unsaved + 1 \in Nat
         /\ made.forgotten + made.unsaved \in Nat /\ sent.forgotten + sent.unsaved \in Nat
         /\ 0 \in Nat /\ 1 \in Nat
    BY <1>0, SMT
  <1>1. CASE TimePasses
    <2>1. made' \in M /\ sent' \in S
      BY <1>1, SMT DEF TimePasses
    <2>. QED
      BY <1>1, <2>1, SMT DEF TimePasses
  <1>2. CASE RoomChanges
    BY <1>2, SMT DEF RoomChanges
  <1>3. ASSUME NEW a \in Actors, StepBegins(a) PROVE TypeOK'
    <2>1. books' \in Books
      BY <1>3, RollKeeps, Zenon DEF StepBegins
    <2>2. Offer \subseteq Calls
      BY Zenon DEF Offer
    <2>. QED
      BY <1>3, <2>1, <2>2, SMT DEF StepBegins, Goes, Actors, Messaging
  <1>4. ASSUME NEW a \in Actors, Refused(a) PROVE TypeOK'
    BY <1>4, SMT DEF Refused, Reaches
  <1>5. ASSUME NEW a \in Actors, NEW c \in Calls, Dispatched(a, c) PROVE TypeOK'
    <2>1. books' \in Books
      BY <1>5, SpendBooks, Zenon DEF Dispatched
    <2>2. CASE GoesOut(c)
      <3>1. made' \in M
        BY <1>0b, <2>2, HistoryWritten, Zenon DEF GoesOut
      <3>2. [lastMade.time EXCEPT ![c] = now] \in Times
        BY SMT DEF Times, Never
      <3>3. lastMade.unsaved \cup {c} \in SUBSET Calls
            /\ lastMade.forgotten \ {c} \in SUBSET Calls
        BY SMT
      <3>4. lastMade' = [lastMade EXCEPT !.time = [lastMade.time EXCEPT ![c] = now],
                                         !.unsaved = lastMade.unsaved \cup {c},
                                         !.forgotten = lastMade.forgotten \ {c}]
        BY <2>2, SMT DEF GoesOut
      <3>5. lastMade' \in L
        BY <3>2, <3>3, <3>4, Zenon
      <3>6. sent' = sent /\ faults' = faults
        BY <2>2, Zenon DEF GoesOut
      <3>. QED
        BY <1>5, <2>1, <3>1, <3>5, <3>6, SMT DEF Dispatched, Reaches, Actors, Messaging
    <2>3. CASE UNCHANGED history
      BY <1>5, <2>1, <2>3, SMT DEF Dispatched, Reaches, Actors, Messaging
    <2>. QED
      BY <1>5, <2>2, <2>3, Zenon DEF Dispatched
  <1>6. ASSUME NEW a \in Actors, CallReturns(a) \/ StepEnds(a) PROVE TypeOK'
    BY <1>6, SMT DEF CallReturns, StepEnds, Goes, Actors, Messaging
  <1>7. ASSUME NEW a \in Actors, Fails(a) PROVE TypeOK'
    <2>1. sent' \in S
      <3>1. CASE at[a] = "captioning"
        <4>1. sent.loose + 1 \in Nat /\ sent.unsaved - 1 \in Nat
          BY <1>0, <3>1, SMT DEF MessagesCounted, Actors, Messaging
        <4>. QED
          BY <1>7, <3>1, <4>1, HistoryWritten, Zenon DEF Fails
      <3>2. CASE at[a] # "captioning"
        BY <1>7, <3>2 DEF Fails
      <3>. QED
        BY <3>1, <3>2
    <2>. QED
      BY <1>7, <2>1, SMT DEF Fails, Actors, Messaging
  <1>8. ASSUME NEW to \in {"ending", "composing", "captioning"}, GateRuns(to),
               made' = made, lastMade' = lastMade, faults' = faults, sent' \in S
        PROVE  TypeOK'
    <2>1. books' \in Books
      BY <1>8, GateBooks, Zenon DEF GateRuns
    <2>. QED
      BY <1>8, <2>1, SMT DEF GateRuns, Goes, Actors, Messaging
  <1>9. CASE StaysQuiet \/ Composes
    BY <1>8, <1>9 DEF StaysQuiet, Composes
  <1>10. CASE SendsPictureFirst
    <2>1. sent' \in S
      BY <1>0b, <1>10, HistoryWritten, Zenon DEF SendsPictureFirst, GoesToThem
    <2>. QED
      BY <1>8, <1>10, <2>1 DEF SendsPictureFirst
  <1>11. CASE WordsCome
    <2>1. books' \in Books
      BY <1>11, CountBooks, Zenon DEF WordsCome, Count
    <2>2. sent' \in S
      BY <1>0b, <1>11, HistoryWritten, Zenon DEF WordsCome, GoesToThem
    <2>. QED
      BY <1>11, <2>1, <2>2, SMT DEF WordsCome, Composed, Goes, Actors, Messaging
  <1>12. CASE NoWords
    BY <1>12, SMT DEF NoWords, Composed, Goes, Actors, Messaging
  <1>13. CASE Captioned
    <2>1. books' \in Books
      BY <1>13, CountBooks, Zenon DEF Captioned, Count
    <2>. QED
      BY <1>13, <2>1, SMT DEF Captioned, Composed, Goes, Actors, Messaging
  <1>14. ASSUME Save PROVE made' \in M /\ sent' \in S /\ lastMade' \in L
                           /\ disk' \in Books /\ books' = books
                           /\ now' = now /\ room' = room /\ faults' = faults
    <2>1. made' \in M /\ sent' \in S
      <3>1. made' \in M
        BY <1>0b, <1>14, HistoryWritten, Zenon DEF Save
      <3>2. CASE at["tick"] = "captioning"
        BY <1>0b, <1>14, <3>2, HistoryWritten, Zenon DEF Save
      <3>3. CASE at["tick"] # "captioning"
        BY <1>0b, <1>14, <3>3, HistoryWritten, Zenon DEF Save
      <3>. QED
        BY <3>1, <3>2, <3>3
    <2>2. lastMade' \in L
      BY <1>14, Zenon DEF Save
    <2>. QED
      BY <1>14, <2>1, <2>2, Zenon DEF Save
  <1>15. CASE TickEnds
    <2>1. Save
      BY <1>15 DEF TickEnds
    <2>. QED
      BY <1>14, <1>15, <2>1, SMT DEF TickEnds, Goes, Actors, Messaging
  <1>16. CASE Opened
    <2>1. Save
      BY <1>16 DEF Opened
    <2>. QED
      BY <1>14, <1>16, <2>1, SMT DEF Opened
  <1>17. CASE Crash
    <2>1. made' \in M /\ sent' \in S
      BY <1>0, <1>0b, <1>17, HistoryWritten, Zenon DEF Crash
    <2>2. lastMade.forgotten \cup lastMade.unsaved \in SUBSET Calls
      BY SMT
    <2>3. lastMade' \in L
      BY <1>17, <2>2, Zenon DEF Crash
    <2>. QED
      BY <1>17, <2>1, <2>3, SMT DEF Crash, Actors, Messaging
  <1>18. CASE UNCHANGED vars
    BY <1>18, Zenon DEF vars
  <1>. QED
    BY <1>1, <1>2, <1>3, <1>4, <1>5, <1>6, <1>7, <1>9, <1>10, <1>11, <1>12, <1>13,
       <1>15, <1>16, <1>17, <1>18, Zenon DEF Next

-----------------------------------------------------------------------------
(* The clock moves by itself, and no other step moves it; and a step that  *)
(* does not dispatch, save or crash leaves what the caps count alone.      *)
Elsewhere == \/ RoomChanges
             \/ \E a \in Actors : \/ StepBegins(a) \/ Refused(a) \/ CallReturns(a)
                                  \/ StepEnds(a)
             \/ StaysQuiet \/ Composes \/ NoWords
             \/ UNCHANGED vars

LEMMA ElsewhereKeeps ==
    ASSUME TypeOK, Elsewhere
    PROVE  /\ now' = now /\ disk' = disk
           /\ made' = made /\ sent' = sent /\ lastMade' = lastMade
           /\ Tool(books') = Tool(books)
           /\ Talk(books') = Talk(books)
           /\ \A c \in Calls : Remembers(books, c) => Remembers(books', c)
  <1>. DEFINE Kept == /\ now' = now /\ disk' = disk
                      /\ made' = made /\ sent' = sent /\ lastMade' = lastMade
              Same(b) == /\ Tool(b) = Tool(books) /\ Talk(b) = Talk(books)
                         /\ \A c \in Calls : Remembers(books, c) => Remembers(b, c)
  <1>1. Same(books)
    OBVIOUS
  <1>2. Same(Rolled)
    BY RollKeeps DEF Talk
  <1>3. Same([Rolled EXCEPT !.interrupts = Interrupts])
    BY <1>2, GateBooks, Zenon DEF Tool, Talk, Remembers
  <1>4. CASE RoomChanges \/ NoWords \/ UNCHANGED vars
    BY <1>1, <1>4, Zenon DEF RoomChanges, NoWords, vars, clock, history
  <1>5. ASSUME NEW a \in Actors, StepBegins(a) PROVE Kept /\ Same(books')
    BY <1>1, <1>2, <1>5, Zenon DEF StepBegins, clock, history
  <1>6. ASSUME NEW a \in Actors, Refused(a) \/ CallReturns(a) \/ StepEnds(a)
        PROVE  Kept /\ Same(books')
    BY <1>1, <1>6, Zenon DEF Refused, Reaches, CallReturns, StepEnds, clock, history
  <1>7. CASE StaysQuiet \/ Composes
    BY <1>3, <1>7, Zenon DEF StaysQuiet, Composes, GateRuns, clock, history
  <1>. QED
    BY <1>4, <1>5, <1>6, <1>7, Zenon DEF Elsewhere

LEMMA ClockKeeps ==
    ASSUME TypeOK, TimePasses
    PROVE  /\ books' = books /\ disk' = disk /\ lastMade' = lastMade /\ at' = at
           /\ now' = now + 1 /\ Today' \in {Today, Today + 1}
           /\ Today' = Today => made' = made /\ sent' = sent
           /\ Today' # Today =>
                  /\ made' = [day |-> 0, unsaved |-> 0, forgotten |-> 0]
                  /\ sent' = [day |-> 0, unsaved |-> 0, forgotten |-> 0, loose |-> 0]
  <1>1. now \in Nat /\ now' = now + 1
    BY ConductAssumption, SMT DEF TypeOK, TimePasses
  <1>2. Today' \in {Today, Today + 1}
    BY <1>1, DayTurns DEF Today
  <1>. QED
    BY <1>1, <1>2, Zenon DEF TimePasses, steps

(* Her hands: the count holds, and each step is one the allowance allows.  *)
LEMMA HandsStep ==
    ASSUME TypeOK, HandsCounted, [Next]_vars
    PROVE  HandsCounted' /\ [HandsDay!Next]_(HandsDay!vars)
  <1>. USE ConductAssumption DEF HandsCounted, HandsDay!vars
  <1>. DEFINE OK == HandsCounted' /\ [HandsDay!Next]_(HandsDay!vars)
  <1>0. /\ made.day \in Nat /\ made.unsaved \in Nat /\ made.forgotten \in Nat
        /\ Tool(books) \in Nat /\ Tool(disk) \in Nat
        /\ made \in [day : Nat, unsaved : Nat, forgotten : Nat]
    BY SMT DEF TypeOK, Tool, Books, Tally
  <1>1. ASSUME now' = now, made' = made, disk' = disk, Tool(books') = Tool(books)
        PROVE  OK
    <2>1. Today' = Today /\ Tool(books)' = Tool(books) /\ Tool(disk)' = Tool(disk)
      BY <1>1 DEF Today, Tool
    <2>. QED
      BY <1>1, <2>1
  <1>2. CASE Elsewhere
    BY <1>1, <1>2, ElsewhereKeeps
  <1>3. CASE TimePasses
    <2>1. CASE Today' = Today
      BY <2>1, <1>3, ClockKeeps DEF Tool
    <2>2. CASE Today' # Today
      <3>1. /\ made'.day = 0 /\ made'.unsaved = 0 /\ made'.forgotten = 0
            /\ Today' = Today + 1
        BY <2>2, <1>3, ClockKeeps
      <3>2. Tool(books)' \in Nat /\ Tool(disk)' \in Nat
        BY <1>3, ClockKeeps, SMT DEF TypeOK, Tool, Books, Tally
      <3>3. HandsDay!Midnight
        BY <3>1 DEF HandsDay!Midnight
      <3>. QED
        BY <3>1, <3>2, <3>3, SMT DEF HandsDay!Next
    <2>. QED
      BY <2>1, <2>2
  <1>4. ASSUME NEW a \in Actors, NEW c \in Calls, Dispatched(a, c) PROVE OK
    <2>1. /\ now' = now /\ disk' = disk /\ Tool(books') = Tool(books) + 1
          /\ Tool(books) < CallsPerDay
      <3>1. now' = now /\ disk' = disk /\ books' = Spend(c) /\ c \in Offer
        BY <1>4, Zenon DEF Dispatched, Reaches, Check, clock
      <3>2. Tool(books') = CountToday + 1
        <4>1. Spend(c).spent = [day |-> Today, count |-> CountToday + 1]
          BY SpendBooks, Zenon
        <4>. QED
          BY <3>1, <4>1, SMT DEF Tool
      <3>3. CountToday < CallsPerDay
        <4>1. ~(CountToday >= CallsPerDay)
          BY <3>1, Zenon DEF Offer
        <4>2. CountToday \in Nat /\ CallsPerDay \in Nat
          BY SpendBooks
        <4>. QED
          BY <4>1, <4>2, SMT
      <3>. QED
        BY <3>1, <3>2, <3>3, SpendBooks
    <2>2. Today' = Today /\ Tool(books)' = Tool(books) + 1 /\ Tool(disk)' = Tool(disk)
      BY <2>1 DEF Today, Tool
    <2>3. CASE GoesOut(c)
      <3>1. /\ made'.day = made.day + 1 /\ made'.unsaved = made.unsaved + 1
            /\ made'.forgotten = made.forgotten
        BY <1>0, <2>3, SMT DEF GoesOut
      <3>2. HandsDay!Use
        BY <1>0, <2>1, <2>2, <3>1, SMT DEF HandsDay!Use
      <3>. QED
        BY <1>0, <2>2, <3>1, <3>2, SMT DEF HandsDay!Next
    <2>4. CASE UNCHANGED history
      BY <1>0, <2>2, <2>4, SMT DEF history
    <2>. QED
      BY <1>4, <2>3, <2>4, Zenon DEF Dispatched
  <1>5. ASSUME NEW a \in Actors, Fails(a) PROVE OK
    BY <1>1, <1>5, Zenon DEF Fails, clock
  <1>6. CASE SendsPictureFirst
    BY <1>1, <1>6, GateBooks, RollKeeps, Zenon DEF SendsPictureFirst, GateRuns, clock, Tool
  <1>7. CASE WordsCome \/ Captioned
    BY <1>1, <1>7, CountBooks, Zenon DEF WordsCome, Captioned, Count, clock, history, Tool
  <1>8. CASE TickEnds \/ Opened
    <2>1. /\ now' = now /\ disk' = books /\ books' = books
          /\ made' = [made EXCEPT !.unsaved = 0]
      BY <1>8, Zenon DEF TickEnds, Opened, Save, clock
    <2>2. /\ made'.day = made.day /\ made'.unsaved = 0 /\ made'.forgotten = made.forgotten
      BY <1>0, <2>1, SMT
    <2>3. Today' = Today /\ Tool(books)' = Tool(books) /\ Tool(disk)' = Tool(books)
      BY <2>1 DEF Today, Tool
    <2>. QED
      BY <1>0, <2>2, <2>3, SMT
  <1>9. CASE Crash
    <2>1. /\ now' = now /\ disk' = disk /\ books' = disk
          /\ made' = [made EXCEPT !.forgotten = @ + made.unsaved, !.unsaved = 0]
      BY <1>9, Zenon DEF Crash, clock
    <2>2. /\ made'.day = made.day /\ made'.unsaved = 0
          /\ made'.forgotten = made.forgotten + made.unsaved
      BY <1>0, <2>1, SMT
    <2>3. Today' = Today /\ Tool(books)' = Tool(disk) /\ Tool(disk)' = Tool(disk)
      BY <2>1 DEF Today, Tool
    <2>4. HandsDay!Unbook
      BY <1>0, <2>2, <2>3, SMT DEF HandsDay!Unbook
    <2>. QED
      BY <1>0, <2>2, <2>3, <2>4, SMT DEF HandsDay!Next
  <1>. QED
    BY <1>2, <1>3, <1>4, <1>5, <1>6, <1>7, <1>8, <1>9, Zenon DEF Next, Elsewhere

-----------------------------------------------------------------------------
(* A step of her hands is no step of Gate 2.                               *)
LEMMA HandsAreNotGate ==
    ASSUME TypeOK, NEW a \in Actors,
           \/ StepBegins(a) \/ Refused(a) \/ CallReturns(a) \/ StepEnds(a)
           \/ \E c \in Calls : Dispatched(a, c)
    PROVE  /\ now' = now /\ since' = since /\ sent' = sent /\ disk' = disk
           /\ books'.interrupts = books.interrupts
           /\ \/ at'["tick"] = at["tick"]
              \/ at["tick"] \notin Messaging /\ at'["tick"] \notin Messaging
  <1>. USE DEF clock, history, Messaging
  <1>. DEFINE Kept == /\ now' = now /\ since' = since /\ sent' = sent /\ disk' = disk
                      /\ books'.interrupts = books.interrupts
              Quietly == \/ at'["tick"] = at["tick"]
                         \/ at["tick"] \notin Messaging /\ at'["tick"] \notin Messaging
  <1>0. "tick" \in Actors /\ at \in [Actors -> {"idle", "thinking", "calling", "ending",
                                              "composing", "captioning"}]
    BY SMT DEF TypeOK, Actors
  <1>1. ASSUME StepBegins(a) PROVE Kept /\ Quietly
    <2>1. Kept
      BY <1>1, RollKeeps, Zenon DEF StepBegins
    <2>2. Quietly
      BY <1>0, <1>1, SMT DEF StepBegins, Goes
    <2>. QED
      BY <2>1, <2>2
  <1>2. ASSUME Refused(a) \/ CallReturns(a) \/ StepEnds(a) PROVE Kept /\ Quietly
    <2>1. Kept
      BY <1>2, Zenon DEF Refused, Reaches, CallReturns, StepEnds
    <2>2. Quietly
      BY <1>0, <1>2, SMT DEF Refused, CallReturns, StepEnds, Goes
    <2>. QED
      BY <2>1, <2>2
  <1>3. ASSUME NEW c \in Calls, Dispatched(a, c) PROVE Kept /\ Quietly
    <2>1. Kept
      BY <1>3, SpendBooks, Zenon DEF Dispatched, Reaches, GoesOut
    <2>2. Quietly
      BY <1>0, <1>3, SMT DEF Dispatched, Reaches
    <2>. QED
      BY <2>1, <2>2
  <1>. QED
    BY <1>1, <1>2, <1>3, Zenon

(* Messages: the count holds, each is one the allowance allows, and one    *)
(* goes out only in open hours or from a compose that began in them.       *)
InHours == sent'.day > sent.day => ~Quiet(now) \/ (~Quiet(since) /\ since < now)

LEMMA MessagesStep ==
    ASSUME TypeOK, MessagesCounted, ComposeInOpenHours, [Next]_vars
    PROVE  /\ MessagesCounted' /\ ComposeInOpenHours'
           /\ [MessagesDay!Next]_(MessagesDay!vars)
           /\ [InHours]_vars
  <1>. USE ConductAssumption DEF MessagesCounted, MessagesDay!vars
  <1>. DEFINE OK == /\ MessagesCounted' /\ ComposeInOpenHours'
                    /\ [MessagesDay!Next]_(MessagesDay!vars)
                    /\ InHours
              S == [day : Nat, unsaved : Nat, forgotten : Nat, loose : Nat]
  <1>0. /\ sent \in S /\ Talk(books) \in Nat /\ Talk(disk) \in Nat
        /\ sent.day \in Nat /\ sent.unsaved \in Nat /\ sent.forgotten \in Nat
        /\ sent.loose \in Nat /\ MessagesPerDay \in Nat
        /\ now \in Nat /\ since \in Nat
        /\ books.interrupts.day \in Int /\ books.interrupts.count \in Nat
        /\ "tick" \in Actors
        /\ at \in [Actors -> {"idle", "thinking", "calling", "ending",
                              "composing", "captioning"}]
    BY SMT DEF TypeOK, Talk, Books, Tally, Never, Actors, Messaging
  <1>1. ASSUME now' = now, sent' = sent, disk' = disk, Talk(books') = Talk(books),
               OnItsWay' = OnItsWay
        PROVE  MessagesCounted' /\ UNCHANGED MessagesDay!vars /\ InHours
    <2>1. Today' = Today /\ Talk(books)' = Talk(books) /\ Talk(disk)' = Talk(disk)
      BY <1>1 DEF Today, Talk
    <2>2. at'["tick"] = "captioning" <=> at["tick"] = "captioning"
      BY <1>1, SMT DEF OnItsWay
    <2>. QED
      BY <1>0, <1>1, <2>1, <2>2, SMT DEF InHours
  <1>2. ASSUME now' = now, since' = since, books'.interrupts = books.interrupts,
               at'["tick"] \in Messaging => at["tick"] \in Messaging
        PROVE  ComposeInOpenHours'
    BY <1>2, Zenon DEF ComposeInOpenHours, Today
  <1>3. ASSUME at'["tick"] \notin Messaging PROVE ComposeInOpenHours'
    BY <1>3, Zenon DEF ComposeInOpenHours
  <1>4. CASE RoomChanges \/ UNCHANGED vars
    <2>1. /\ now' = now /\ sent' = sent /\ disk' = disk /\ books' = books
          /\ since' = since /\ at' = at
      BY <1>4, Zenon DEF RoomChanges, vars, clock, steps, history
    <2>. QED
      BY <1>1, <1>2, <2>1, Zenon DEF OnItsWay
  <1>5. ASSUME NEW a \in Actors,
               \/ StepBegins(a) \/ Refused(a) \/ CallReturns(a) \/ StepEnds(a)
               \/ \E c \in Calls : Dispatched(a, c)
        PROVE  OK
    <2>1. Talk(books') = Talk(books) /\ OnItsWay' = OnItsWay
      BY <1>5, HandsAreNotGate, Zenon DEF Talk, OnItsWay, Messaging
    <2>2. at'["tick"] \in Messaging => at["tick"] \in Messaging
      BY <1>5, HandsAreNotGate, Zenon
    <2>. QED
      BY <1>1, <1>2, <1>5, <2>1, <2>2, HandsAreNotGate
  <1>6. CASE TimePasses
    <2>1. CASE at["tick"] \in Messaging
      <3>1. since = now /\ ~Quiet(now) /\ books.interrupts.day = Today
        BY <1>6, <2>1, Zenon DEF TimePasses, ComposeInOpenHours
      <3>2. Today' = Today
        BY <1>0, <1>6, <3>1, DayTurns, ClockKeeps, Zenon DEF Today
      <3>3. MessagesCounted' /\ UNCHANGED MessagesDay!vars /\ InHours
        BY <1>0, <1>6, <3>2, ClockKeeps, SMT DEF Talk, OnItsWay, InHours
      <3>4. ComposeInOpenHours'
        <4>1. since' = now /\ now' = now + 1 /\ books' = books /\ at' = at
          BY <1>6, <3>1, ClockKeeps, Zenon DEF TimePasses, steps
        <4>2. ~Quiet(since)' /\ (since <= now)' /\ (now <= since + 1)'
          BY <1>0, <3>1, <4>1, SMT DEF Quiet
        <4>. QED
          BY <2>1, <3>1, <3>2, <4>1, <4>2, Zenon DEF ComposeInOpenHours
      <3>. QED
        BY <3>3, <3>4
    <2>2. CASE at["tick"] \notin Messaging
      <3>1. ComposeInOpenHours'
        BY <1>3, <1>6, <2>2, ClockKeeps
      <3>2. CASE Today' = Today
        BY <1>0, <1>6, <3>1, <3>2, ClockKeeps, SMT DEF Talk, OnItsWay, InHours
      <3>3. CASE Today' # Today
        <4>1. /\ sent'.day = 0 /\ sent'.unsaved = 0 /\ sent'.forgotten = 0
              /\ sent'.loose = 0 /\ Today' = Today + 1
          BY <1>6, <3>3, ClockKeeps
        <4>2. Talk(books)' \in Nat /\ Talk(disk)' \in Nat /\ OnItsWay' = 0
          <5>1. books.interrupts.count \in Nat /\ disk.interrupts.count \in Nat
            BY SMT DEF TypeOK, Books, Tally
          <5>. QED
            BY <1>0, <1>6, <2>2, <5>1, ClockKeeps, Zenon DEF Talk, OnItsWay, Messaging
        <4>3. at'["tick"] # "captioning"
          BY <1>6, <2>2, ClockKeeps, Zenon DEF Messaging
        <4>4. MessagesDay!Midnight
          BY <4>1 DEF MessagesDay!Midnight
        <4>. QED
          BY <1>0, <3>1, <4>1, <4>2, <4>3, <4>4, SMT DEF MessagesDay!Next, InHours
      <3>. QED
        BY <3>2, <3>3
    <2>. QED
      BY <2>1, <2>2
  <1>7. ASSUME NEW a \in Actors, Fails(a) PROVE OK
    <2>1. now' = now /\ books' = books /\ disk' = disk
      BY <1>7, Zenon DEF Fails, clock
    <2>2. Talk(books') = Talk(books) /\ Today' = Today
          /\ Talk(books)' = Talk(books) /\ Talk(disk)' = Talk(disk)
      BY <2>1 DEF Talk, Today
    <2>3. CASE at[a] # "captioning"
      <3>1. sent' = sent
        BY <1>7, <2>3 DEF Fails
      <3>2. /\ at'["tick"] = "captioning" <=> at["tick"] = "captioning"
            /\ at'["tick"] \in Messaging => at["tick"] \in Messaging /\ since' = since
        BY <1>0, <1>7, <2>3, SMT DEF Fails, Messaging
      <3>3. OnItsWay' = OnItsWay
        BY <3>2, Zenon DEF OnItsWay
      <3>. QED
        BY <1>1, <1>2, <1>3, <2>1, <2>2, <3>1, <3>2, <3>3, Zenon
    <2>4. CASE at[a] = "captioning"
      <3>1. a = "tick" /\ at'["tick"] = "ending" /\ OnItsWay = 1 /\ OnItsWay' = 0
        BY <1>0, <1>7, <2>4, SMT DEF Fails, TypeOK, Actors, Messaging, OnItsWay
      <3>2. /\ sent'.day = sent.day /\ sent'.forgotten = sent.forgotten
            /\ sent'.loose = sent.loose + 1 /\ sent'.unsaved = sent.unsaved - 1
        BY <1>0, <1>7, <2>4, SMT DEF Fails
      <3>3. sent.unsaved >= 1
        BY <2>4, <3>1
      <3>4. MessagesDay!Unbook
        BY <1>0, <2>2, <3>2, <3>3, SMT DEF MessagesDay!Unbook
      <3>5. MessagesCounted' /\ InHours
        BY <1>0, <2>2, <3>1, <3>2, <3>3, SMT DEF InHours
      <3>6. ComposeInOpenHours'
        BY <1>3, <3>1, Zenon DEF Messaging
      <3>. QED
        BY <3>4, <3>5, <3>6 DEF MessagesDay!Next
    <2>. QED
      BY <2>3, <2>4
  <1>8. ASSUME NEW to \in {"ending", "composing", "captioning"}, GateRuns(to)
        PROVE  /\ now' = now /\ disk' = disk /\ at["tick"] = "idle" /\ at'["tick"] = to
               /\ books'.interrupts = Interrupts
               /\ Talk(books)' = Talk(books) /\ Talk(disk)' = Talk(disk)
               /\ Today' = Today
               /\ to # "ending" => since' = now
    <2>1. /\ now' = now /\ disk' = disk /\ books'.interrupts = Interrupts
          /\ to # "ending" => since' = now
      BY <1>8, GateBooks, Zenon DEF GateRuns, clock
    <2>2. at["tick"] = "idle" /\ at'["tick"] = to
      BY <1>0, <1>8, SMT DEF GateRuns, Goes
    <2>3. Today' = Today /\ Talk(disk)' = Talk(disk)
      BY <2>1 DEF Today, Talk
    <2>4. Talk(books)' = Talk(books)
      BY <2>1, <2>3, GateBooks, Zenon DEF Talk
    <2>. QED
      BY <2>1, <2>2, <2>3, <2>4
  <1>9. ASSUME NEW to \in {"composing", "captioning"}, GateRuns(to), GateIsOpen
        PROVE  ComposeInOpenHours'
    <2>1. ~Quiet(now) /\ Interrupts.count < MessagesPerDay /\ Interrupts.day = Today
      BY <1>9, GateBooks, Zenon DEF GateIsOpen
    <2>2. now' = now /\ since' = now /\ books'.interrupts = Interrupts /\ Today' = Today
      BY <1>8, <1>9
    <2>3. (since <= now)' /\ (now <= since + 1)'
      BY <1>0, <2>2, SMT
    <2>4. ~Quiet(since)'
      BY <2>1, <2>2, Zenon DEF Quiet
    <2>. QED
      BY <2>1, <2>2, <2>3, <2>4, Zenon DEF ComposeInOpenHours
  <1>10. CASE StaysQuiet
    <2>1. GateRuns("ending") /\ sent' = sent
      BY <1>10 DEF StaysQuiet, history
    <2>. QED
      BY <1>0, <1>3, <1>8, <2>1, SMT DEF Messaging, OnItsWay, InHours
  <1>11. CASE Composes
    <2>1. GateRuns("composing") /\ GateIsOpen /\ sent' = sent
      BY <1>11 DEF Composes, history
    <2>2. ComposeInOpenHours'
      BY <1>9, <2>1
    <2>. QED
      BY <1>0, <1>8, <2>1, <2>2, SMT DEF OnItsWay, InHours
  <1>12. CASE SendsPictureFirst
    <2>1. GateRuns("captioning") /\ GateIsOpen
          /\ sent' = [sent EXCEPT !.day = @ + 1, !.unsaved = @ + 1]
      BY <1>12, Zenon DEF SendsPictureFirst, GoesToThem
    <2>2. ComposeInOpenHours'
      BY <1>9, <2>1
    <2>3. /\ sent'.day = sent.day + 1 /\ sent'.unsaved = sent.unsaved + 1
          /\ sent'.forgotten = sent.forgotten /\ sent'.loose = sent.loose
      BY <1>0, <2>1, SMT
    <2>4. /\ Today' = Today /\ Talk(books)' = Talk(books) /\ Talk(disk)' = Talk(disk)
          /\ OnItsWay = 0 /\ OnItsWay' = 1
      BY <1>8, <2>1, Zenon DEF OnItsWay
    <2>5. Talk(books) < MessagesPerDay /\ ~Quiet(now)
      BY <2>1, GateBooks, Zenon DEF GateIsOpen
    <2>6. MessagesDay!Use
      BY <1>0, <2>3, <2>4, <2>5, SMT DEF MessagesDay!Use
    <2>7. MessagesCounted' /\ InHours
      BY <1>0, <2>3, <2>4, <2>5, SMT DEF InHours
    <2>. QED
      BY <2>2, <2>6, <2>7 DEF MessagesDay!Next
  <1>13. ASSUME NEW from \in {"composing", "captioning"}, Composed(from), now' = now,
                disk' = disk
         PROVE  /\ at["tick"] = from /\ at'["tick"] = "ending"
                /\ ComposeInOpenHours' /\ OnItsWay' = 0
                /\ Today' = Today /\ Talk(disk)' = Talk(disk)
                /\ Talk(books) = books.interrupts.count
                /\ books.interrupts.count < MessagesPerDay
                /\ Count => Talk(books)' = Talk(books) + 1
    <2>1. at["tick"] = from /\ at'["tick"] = "ending"
      BY <1>0, <1>13, SMT DEF Composed, Goes
    <2>2. Today' = Today /\ Talk(disk)' = Talk(disk)
      BY <1>13 DEF Today, Talk
    <2>3. books.interrupts.day = Today /\ books.interrupts.count < MessagesPerDay
      BY <2>1, Zenon DEF ComposeInOpenHours, Messaging
    <2>4. Count => Talk(books)' = Talk(books) + 1
      BY <2>2, <2>3, CountBooks, Zenon DEF Count, Talk
    <2>. QED
      BY <1>3, <2>1, <2>2, <2>3, <2>4, Zenon DEF Messaging, OnItsWay, Talk
  <1>14. CASE WordsCome
    <2>1. /\ Composed("composing") /\ now' = now /\ disk' = disk /\ Count
          /\ sent' = [sent EXCEPT !.day = @ + 1, !.unsaved = @ + 1]
      BY <1>14, Zenon DEF WordsCome, GoesToThem, clock
    <2>2. /\ sent'.day = sent.day + 1 /\ sent'.unsaved = sent.unsaved + 1
          /\ sent'.forgotten = sent.forgotten /\ sent'.loose = sent.loose
      BY <1>0, <2>1, SMT
    <2>3. /\ at["tick"] = "composing" /\ at'["tick"] = "ending"
          /\ ComposeInOpenHours' /\ OnItsWay' = 0
          /\ Today' = Today /\ Talk(disk)' = Talk(disk)
          /\ Talk(books) < MessagesPerDay /\ Talk(books)' = Talk(books) + 1
      BY <1>13, <2>1
    <2>4. OnItsWay = 0 /\ ~Quiet(since) /\ since <= now
      BY <2>3, Zenon DEF OnItsWay, ComposeInOpenHours, Messaging
    <2>5. MessagesDay!Use
      BY <1>0, <2>2, <2>3, <2>4, SMT DEF MessagesDay!Use
    <2>6. MessagesCounted'
      BY <1>0, <2>2, <2>3, <2>4, SMT
    <2>7. InHours
      <3>1. CASE since = now
        BY <2>4, <3>1 DEF InHours
      <3>2. CASE since # now
        <4>1. since <= now /\ since \in Nat /\ now \in Nat
          BY <1>0, <2>4
        <4>2. since < now
          BY <3>2, <4>1, SMT
        <4>. QED
          BY <2>4, <4>2 DEF InHours
      <3>. QED
        BY <3>1, <3>2
    <2>. QED
      BY <2>3, <2>5, <2>6, <2>7 DEF MessagesDay!Next
  <1>15. CASE NoWords
    <2>1. /\ Composed("composing") /\ now' = now /\ disk' = disk /\ books' = books
          /\ sent' = sent
      BY <1>15, Zenon DEF NoWords, clock, history
    <2>2. /\ at["tick"] = "composing" /\ ComposeInOpenHours' /\ OnItsWay' = 0
      BY <1>13, <2>1
    <2>3. OnItsWay' = OnItsWay
      BY <2>2 DEF OnItsWay
    <2>. QED
      BY <1>1, <2>1, <2>2, <2>3
  <1>16. CASE Captioned
    <2>1. /\ Composed("captioning") /\ now' = now /\ disk' = disk /\ Count
          /\ sent' = sent
      BY <1>16, Zenon DEF Captioned, clock, history
    <2>2. /\ at["tick"] = "captioning" /\ at'["tick"] = "ending"
          /\ ComposeInOpenHours' /\ OnItsWay' = 0
          /\ Today' = Today /\ Talk(disk)' = Talk(disk)
          /\ Talk(books)' = Talk(books) + 1
      BY <1>13, <2>1
    <2>3. OnItsWay = 1
      BY <2>2 DEF OnItsWay
    <2>4. MessagesCounted' /\ InHours
      BY <1>0, <2>1, <2>2, <2>3, SMT DEF InHours
    <2>. QED
      BY <2>1, <2>2, <2>4
  <1>17. CASE TickEnds \/ Opened
    <2>1. /\ now' = now /\ disk' = books /\ books' = books
          /\ sent' = [sent EXCEPT !.unsaved = OnItsWay]
      BY <1>17, Zenon DEF TickEnds, Opened, Save, clock, OnItsWay
    <2>2. /\ sent'.day = sent.day /\ sent'.unsaved = OnItsWay
          /\ sent'.forgotten = sent.forgotten /\ sent'.loose = sent.loose
      BY <1>0, <2>1, SMT
    <2>3. Today' = Today /\ Talk(books)' = Talk(books) /\ Talk(disk)' = Talk(books)
      BY <2>1 DEF Today, Talk
    <2>4. \/ at'["tick"] = at["tick"] /\ since' = since
          \/ at'["tick"] = "idle" /\ at["tick"] = "ending"
      BY <1>0, <1>17, SMT DEF TickEnds, Opened, Goes, steps
    <2>5. ComposeInOpenHours'
      <3>1. CASE at'["tick"] = at["tick"] /\ since' = since
        BY <1>2, <2>1, <3>1
      <3>2. CASE at'["tick"] = "idle"
        BY <1>3, <3>2, Zenon DEF Messaging
      <3>. QED
        BY <2>4, <3>1, <3>2
    <2>6. MessagesCounted' /\ InHours
      BY <1>0, <2>2, <2>3, <2>4, SMT DEF InHours, OnItsWay
    <2>. QED
      BY <2>2, <2>3, <2>5, <2>6
  <1>18. CASE Crash
    <2>1. /\ now' = now /\ disk' = disk /\ books' = disk
          /\ sent' = [sent EXCEPT !.forgotten = @ + sent.unsaved, !.unsaved = 0]
          /\ at' = [a \in Actors |-> "idle"]
      BY <1>18, Zenon DEF Crash, clock
    <2>2. /\ sent'.day = sent.day /\ sent'.unsaved = 0 /\ sent'.loose = sent.loose
          /\ sent'.forgotten = sent.forgotten + sent.unsaved
      BY <1>0, <2>1, SMT
    <2>3. Today' = Today /\ Talk(books)' = Talk(disk) /\ Talk(disk)' = Talk(disk)
      BY <2>1 DEF Today, Talk
    <2>4. at'["tick"] = "idle" /\ OnItsWay' = 0
      BY <1>0, <2>1, Zenon DEF OnItsWay
    <2>5. ComposeInOpenHours'
      BY <1>3, <2>4, Zenon DEF Messaging
    <2>6. MessagesDay!Unbook
      BY <1>0, <2>2, <2>3, SMT DEF MessagesDay!Unbook
    <2>7. MessagesCounted' /\ InHours
      BY <1>0, <2>2, <2>3, <2>4, SMT DEF InHours
    <2>. QED
      BY <2>5, <2>6, <2>7 DEF MessagesDay!Next
  <1>. QED
    BY <1>4, <1>5, <1>6, <1>7, <1>10, <1>11, <1>12, <1>14, <1>15, <1>16, <1>17, <1>18,
       Zenon DEF Next

-----------------------------------------------------------------------------
(* The ledger: what it holds, what it has pruned and what a crash gives    *)
(* back keep a call out of its cooldown.                                   *)
InPlace == \A a \in Actors, c \in Calls : call[a] # c /\ call'[a] = c =>
             /\ room \notin {"off", "talking"} /\ (c \in Cheap \/ room = "empty")
             /\ \/ c \in Reads \cup lastMade.forgotten
                \/ lastMade.time[c] = Never
                \/ now - lastMade.time[c] >= Cooldown[c]

LEMMA LedgerStep ==
    ASSUME TypeOK, LedgerIsKept, [Next]_vars
    PROVE  LedgerIsKept' /\ [InPlace]_vars
  <1>. DEFINE Same(b) == \A c \in Calls : Remembers(books, c) => Remembers(b, c)
  <1>0. /\ now \in Nat
        /\ \A c \in Calls : /\ books.ledger[c] \in Int /\ disk.ledger[c] \in Int
                            /\ lastMade.time[c] \in Int /\ Cooldown[c] \in Nat
        /\ books.ledger \in [Calls -> Int]
        /\ lastMade \in [time : Times, unsaved : SUBSET Calls, forgotten : SUBSET Calls]
        /\ lastMade.time \in [Calls -> Int]
        /\ call \in [Actors -> Calls \cup {NoCall}] /\ NoCall \notin Calls
    BY ConductAssumption, SMT DEF TypeOK, Books, Times, Never
  <1>1. ASSUME now' = now, disk' = disk, lastMade' = lastMade, Same(books')
        PROVE  LedgerIsKept'
    BY <1>1, Zenon DEF LedgerIsKept, Remembers
  <1>2. ASSUME \A a \in Actors : call'[a] \in {call[a], NoCall} PROVE InPlace
    BY <1>0, <1>2, Zenon DEF InPlace
  <1>3. CASE Elsewhere
    <2>1. LedgerIsKept'
      BY <1>1, <1>3, ElsewhereKeeps
    <2>2. CASE UNCHANGED vars
      BY <2>1, <2>2
    <2>3. CASE \E a \in Actors : CallReturns(a)
      <3>1. \A a \in Actors : call'[a] \in {call[a], NoCall}
        BY <1>0, <2>3, SMT DEF CallReturns
      <3>. QED
        BY <1>2, <2>1, <3>1
    <2>4. CASE ~ \E a \in Actors : CallReturns(a)
      <3>1. CASE call' = call
        BY <1>2, <2>1, <3>1
      <3>2. call' = call \/ UNCHANGED vars
        BY <1>3, <2>4, Zenon
        DEF Elsewhere, RoomChanges, StepBegins, Refused, StepEnds, StaysQuiet, Composes,
            NoWords, GateRuns, steps
      <3>. QED
        BY <2>2, <3>1, <3>2
    <2>. QED
      BY <2>3, <2>4
  <1>4. CASE TimePasses
    <2>1. now' = now + 1 /\ books' = books /\ disk' = disk /\ lastMade' = lastMade
      BY <1>4, ClockKeeps
    <2>2. ASSUME NEW c \in Calls
          PROVE  /\ Remembers(books, c) => Remembers(books, c)'
                 /\ Remembers(disk, c) => Remembers(disk, c)'
      <3>1. Remembers(books, c) =>
                IF books.ledger[c] = Never
                THEN lastMade.time[c] = Never \/ now + 1 - lastMade.time[c] >= Cooldown[c]
                ELSE lastMade.time[c] <= books.ledger[c]
        BY <1>0, SMT DEF Remembers
      <3>2. Remembers(disk, c) =>
                IF disk.ledger[c] = Never
                THEN lastMade.time[c] = Never \/ now + 1 - lastMade.time[c] >= Cooldown[c]
                ELSE lastMade.time[c] <= disk.ledger[c]
        BY <1>0, SMT DEF Remembers
      <3>. QED
        BY <1>0, <2>1, <3>1, <3>2, SMT DEF Remembers, Never
    <2>3. \A c \in Calls : lastMade'.time[c] <= now'
      BY <1>0, <2>1, SMT DEF LedgerIsKept
    <2>4. LedgerIsKept'
      BY <2>1, <2>2, <2>3, Zenon DEF LedgerIsKept
    <2>. QED
      BY <1>2, <1>4, <2>4, Zenon DEF TimePasses, steps
  <1>5. ASSUME NEW a \in Actors, NEW c \in Calls, Dispatched(a, c)
        PROVE  LedgerIsKept' /\ InPlace
    <2>1. /\ now' = now /\ disk' = disk /\ c \in Offer /\ ~Cooling(c)
          /\ books'.ledger = [books.ledger EXCEPT ![c] = IF c \in Reads THEN @ ELSE now]
      BY <1>5, SpendBooks, Zenon DEF Dispatched, Reaches, Check, clock
    <2>2. \A d \in Calls \ {c} : books'.ledger[d] = books.ledger[d]
      BY <1>0, <2>1, SMT
    <2>3. c \notin Reads => books'.ledger[c] = now
      BY <1>0, <2>1, SMT
    <2>4. ASSUME GoesOut(c) PROVE LedgerIsKept'
      <3>1. /\ lastMade'.unsaved = lastMade.unsaved \cup {c}
            /\ lastMade'.forgotten = lastMade.forgotten \ {c}
            /\ lastMade'.time = [lastMade.time EXCEPT ![c] = now]
        BY <1>0, <2>4, SMT DEF GoesOut
      <3>2. /\ \A d \in Calls \ {c} : lastMade'.time[d] = lastMade.time[d]
            /\ lastMade'.time[c] = now
        BY <1>0, <3>1, SMT
      <3>3. \A d \in Calls : lastMade'.time[d] <= now'
        BY <1>0, <2>1, <3>2, SMT DEF LedgerIsKept
      <3>4. c \notin Reads => Remembers(books, c)'
        BY <1>0, <2>1, <2>3, <3>2, SMT DEF Remembers, Never
      <3>5. \A d \in Calls \ {c} : /\ Remembers(books, d) => Remembers(books, d)'
                                   /\ Remembers(disk, d) => Remembers(disk, d)'
        BY <2>1, <2>2, <3>2, Zenon DEF Remembers
      <3>6. LedgerIsKept'
        <4>1. ASSUME NEW d \in Calls, d \notin Reads \cup lastMade'.forgotten
              PROVE  Remembers(books, d)'
          BY <3>1, <3>4, <3>5, <4>1, Zenon DEF LedgerIsKept
        <4>2. ASSUME NEW d \in Calls,
                     d \notin Reads \cup lastMade'.forgotten \cup lastMade'.unsaved
              PROVE  Remembers(disk, d)'
          BY <3>1, <3>5, <4>2, Zenon DEF LedgerIsKept
        <4>. QED
          BY <3>3, <4>1, <4>2, Zenon DEF LedgerIsKept, Remembers
      <3>. QED
        BY <3>6
    <2>5. ASSUME UNCHANGED history PROVE LedgerIsKept'
      <3>1. lastMade' = lastMade
        BY <2>5 DEF history
      <3>2. Remembers(books', c) \/ c \in Reads
        BY <1>0, <2>3, SMT DEF Remembers, LedgerIsKept, Never
      <3>3. \A d \in Calls \ {c} : Remembers(books, d) => Remembers(books', d)
        BY <2>2, Zenon DEF Remembers
      <3>4. LedgerIsKept'
        <4>1. ASSUME NEW d \in Calls, d \notin Reads \cup lastMade.forgotten
              PROVE  Remembers(books', d)
          BY <3>2, <3>3, <4>1, Zenon DEF LedgerIsKept
        <4>2. \A d \in Calls : lastMade'.time[d] <= now'
          BY <2>1, <3>1 DEF LedgerIsKept
        <4>3. ASSUME NEW d \in Calls, d \notin Reads \cup lastMade.forgotten
              PROVE  Remembers(books, d)'
          BY <2>1, <3>1, <4>1, <4>3, Zenon DEF Remembers
        <4>4. ASSUME NEW d \in Calls,
                     d \notin Reads \cup lastMade.forgotten \cup lastMade.unsaved
              PROVE  Remembers(disk, d)'
          BY <2>1, <3>1, <4>4, Zenon DEF LedgerIsKept, Remembers
        <4>. QED
          BY <3>1, <4>2, <4>3, <4>4, Zenon DEF LedgerIsKept, Remembers
      <3>. QED
        BY <3>4
    <2>6. /\ room \notin {"off", "talking"} /\ (c \in Cheap \/ room = "empty")
          /\ \/ c \in Reads \cup lastMade.forgotten
             \/ lastMade.time[c] = Never
             \/ now - lastMade.time[c] >= Cooldown[c]
      <3>1. room \notin {"off", "talking"} /\ (c \in Cheap \/ room = "empty")
        BY <2>1, Zenon DEF Offer
      <3>2. \/ c \in Reads \/ books.ledger[c] = Never
            \/ now - books.ledger[c] >= Cooldown[c]
        BY <1>0, <2>1, SMT DEF Cooling
      <3>3. c \in Reads \cup lastMade.forgotten \/ Remembers(books, c)
        BY Zenon DEF LedgerIsKept
      <3>4. \/ c \in Reads \cup lastMade.forgotten
            \/ lastMade.time[c] = Never
            \/ now - lastMade.time[c] >= Cooldown[c]
        BY <1>0, <3>2, <3>3, SMT DEF Remembers, Never
      <3>. QED
        BY <3>1, <3>4
    <2>7. \A b \in Actors, d \in Calls : call[b] # d /\ call'[b] = d => d = c
      BY <1>0, <1>5, SMT DEF Dispatched
    <2>. QED
      BY <1>5, <2>4, <2>5, <2>6, <2>7, Zenon DEF Dispatched, InPlace
  <1>6. ASSUME NEW a \in Actors, Fails(a) PROVE LedgerIsKept' /\ InPlace
    BY <1>1, <1>2, <1>6, Zenon DEF Fails, clock
  <1>7. CASE SendsPictureFirst
    <2>1. Same([Rolled EXCEPT !.interrupts = Interrupts])
      BY RollKeeps, GateBooks, Zenon DEF Remembers
    <2>. QED
      BY <1>1, <1>2, <1>7, <2>1, Zenon DEF SendsPictureFirst, GateRuns, clock
  <1>8. CASE WordsCome \/ Captioned
    <2>1. books'.ledger = books.ledger
      BY <1>8, CountBooks, Zenon DEF WordsCome, Captioned, Count
    <2>2. Same(books')
      BY <2>1, Zenon DEF Remembers
    <2>. QED
      BY <1>1, <1>2, <1>8, <2>2, Zenon DEF WordsCome, Captioned, clock, history
  <1>9. CASE TickEnds \/ Opened
    <2>1. /\ now' = now /\ disk' = books /\ books' = books /\ call' = call
          /\ lastMade' = [lastMade EXCEPT !.unsaved = {}]
      BY <1>9, Zenon DEF TickEnds, Opened, Save, clock, steps
    <2>2. /\ lastMade'.time = lastMade.time /\ lastMade'.forgotten = lastMade.forgotten
          /\ lastMade'.unsaved = {}
      BY <1>0, <2>1, SMT
    <2>3. LedgerIsKept'
      BY <2>1, <2>2, Zenon DEF LedgerIsKept, Remembers
    <2>. QED
      BY <1>2, <2>1, <2>3
  <1>10. CASE Crash
    <2>1. /\ now' = now /\ disk' = disk /\ books' = disk
          /\ call' = [a \in Actors |-> NoCall]
          /\ lastMade' = [lastMade EXCEPT !.forgotten = @ \cup lastMade.unsaved,
                                         !.unsaved = {}]
      BY <1>10, Zenon DEF Crash, clock
    <2>2. /\ lastMade'.time = lastMade.time /\ lastMade'.unsaved = {}
          /\ lastMade'.forgotten = lastMade.forgotten \cup lastMade.unsaved
      BY <1>0, <2>1, SMT
    <2>3. LedgerIsKept'
      BY <2>1, <2>2, Zenon DEF LedgerIsKept, Remembers
    <2>4. \A a \in Actors : call'[a] = NoCall
      BY <2>1, Zenon
    <2>. QED
      BY <1>2, <2>3, <2>4
  <1>. QED
    BY <1>3, <1>4, <1>5, <1>6, <1>7, <1>8, <1>9, <1>10, Zenon DEF Next, Elsewhere

-----------------------------------------------------------------------------
LEMMA IInvHolds == Spec => []IInv
  <1>1. IInv /\ [Next]_vars => IInv'
    BY TypeStep, HandsStep, MessagesStep, LedgerStep DEF IInv
  <1>. QED
    BY InitHolds, <1>1, PTL DEF Spec

(* Every variable of the model stays in its type, and only the tick ever   *)
(* writes to people (loop._act, handwork.work).                            *)
THEOREM TypeCorrect == Spec => []TypeOK
  BY IInvHolds, PTL DEF IInv

(* Hands.spend and check, by tick and by night: the calls of a local day   *)
(* implement the daily allowance, whatever the cap and wherever midnight   *)
(* and the crashes fall.                                                   *)
THEOREM HandsCapped == Spec => HandsKeepTheCap
  <1>1. Init => HandsDay!Init
    BY ConductAssumption, DayTurns, SMT DEF Init, HandsDay!Init, Today
  <1>2. IInv /\ [Next]_vars => [HandsDay!Next]_(HandsDay!vars)
    BY HandsStep DEF IInv
  <1>. QED
    BY <1>1, <1>2, IInvHolds, PTL DEF Spec, HandsKeepTheCap, HandsDay!Spec

(* acts.reach_out and policy.score_interrupt: likewise her messages, each  *)
(* picture whose words failed being one more.                              *)
THEOREM MessagesCapped == Spec => MessagesKeepTheCap
  <1>1. Init => MessagesDay!Init
    BY ConductAssumption, DayTurns, SMT DEF Init, MessagesDay!Init, Today
  <1>2. IInv /\ [Next]_vars => [MessagesDay!Next]_(MessagesDay!vars)
    BY MessagesStep DEF IInv
  <1>. QED
    BY <1>1, <1>2, IInvHolds, PTL DEF Spec, MessagesKeepTheCap, MessagesDay!Spec

(* Hands.check at the dispatch: no call into a conversation, under the     *)
(* owner's switch or, when it is not cheap, in company; and none again     *)
(* within its cooldown that a crash did not take from the ledger.          *)
THEOREM CallsAreInPlace == Spec => CallsInTheirPlace
  <1>1. IInv /\ [Next]_vars => [InPlace]_vars
    BY LedgerStep DEF IInv
  <1>. QED
    BY <1>1, IInvHolds, PTL DEF Spec, CallsInTheirPlace, InPlace

(* policy.quiet_hour: what she starts goes out in open hours, or at the    *)
(* end of a compose they saw begin.                                        *)
THEOREM QuietHoursHold == Spec => QuietHoursKept
  <1>1. IInv /\ [Next]_vars => [InHours]_vars
    BY MessagesStep DEF IInv
  <1>. QED
    BY <1>1, IInvHolds, PTL DEF Spec, QuietHoursKept, InHours
=============================================================================
