-------------------------- MODULE TimerPromiseProofs --------------------------
(***************************************************************************)
(* The safety properties of TimerPromise and its refinement of PromiseSpec,*)
(* for every set of timers and any number of crashes and faults.  What     *)
(* makes them inductive: what a batch has read is queued for announcement  *)
(* while it lasts, what is queued is on the board or was handed over, and  *)
(* every timer the file ever had is on the board or accounted for.         *)
(***************************************************************************)
EXTENDS TimerPromise, SequenceTheorems, FiniteSetTheorems, TLAPS

Said == {announce[i] : i \in DOMAIN announce}

AnnouncesSomething == pc = "announcing" => announce # <<>>

(* While a batch is in flight its landings are queued for announcement, or *)
(* landed again.                                                           *)
BatchIsQueued == \A t \in landed : <<"timer", t>> \in batch => t \in due \/ t \in Said

LandedIsCarried == \A t \in landed : t \in due \/ <<"timer", t>> \in inbox \/ t \in Said

(* A landing is queued once, and nothing on its way lands again.           *)
DueIsNew == \A t \in Timers : t \in due \/ t \in board \ landed =>
                ~(<<"timer", t>> \in inbox \/ t \in Said)

(* Nothing is known of a timer that was not set.                           *)
OnlySet == file \cup board \cup handed \cup expired \subseteq started /\ file \subseteq written

(* What is on its way is on the board or was handed over, and not expired. *)
QueuedStands ==
    /\ expired \cap board = {}
    /\ \A t \in Timers : t \in due \/ <<"timer", t>> \in inbox \/ t \in Said =>
          t \in board \cup handed /\ t \notin expired

(* delivered_timers and its copy in engine.json.                           *)
DeliveryIsRemembered ==
    /\ disk.delivered \subseteq delivered /\ delivered \subseteq handed
    /\ handed \subseteq delivered \cup forgotten

FileIsOnBoard == file \subseteq board \cup handed \cup expired

WrittenIsAccounted == written \subseteq board \cup delivered \cup expired \cup forgotten

OpenIsUndelivered == \A t \in Timers : goal[t] = "open" => t \notin delivered

IInv == /\ TypeOK /\ AnnouncesSomething
        /\ BatchIsQueued /\ LandedIsCarried /\ DueIsNew
        /\ OnlySet /\ QueuedStands
        /\ DeliveryIsRemembered /\ FileIsOnBoard /\ OnFileUntilHandedOver /\ WrittenIsAccounted
        /\ GoalClosesAfterHandover /\ OpenIsUndelivered

(* What a step may add to what a reader outside has seen, to the board and *)
(* to the file.                                                            *)
Grows == /\ started \subseteq started' /\ handed \subseteq handed' /\ expired \subseteq expired'
         /\ handed' \subseteq handed \cup board
         /\ expired' \subseteq expired \cup file
         /\ started' \subseteq started \cup board'
         /\ \A t \in board' : t \in board \/ t \in file \/ t \notin started
         /\ file' \subseteq file \cup board' /\ written \subseteq written'

LEMMA Given == MaxCrashes \in Nat /\ MaxFaults \in Nat
  BY TimerAssumption

(* The queue and what it says.                                             *)
LEMMA SaidFacts == /\ UNCHANGED announce => UNCHANGED Said
                   /\ announce' = <<>> => Said' = {}
  <1>1. UNCHANGED announce => UNCHANGED Said
    BY Zenon DEF Said
  <1>2. announce' = <<>> => Said' = {}
    BY SMT DEF Said
  <1>. QED
    BY <1>1, <1>2

(* What an order of a set of landings adds to the queue.                   *)
LEMMA OrderFacts ==
    ASSUME NEW S \in SUBSET Timers, NEW q \in Orders(S), announce \in Seq(Timers),
           announce' = announce \o q
    PROVE  announce' \in Seq(Timers) /\ Said' = Said \cup S
           /\ (announce # <<>> => announce' # <<>>)
  <1>1. IsFiniteSet(S) /\ Cardinality(S) \in Nat
    BY TimerAssumption, FS_Subset, FS_CardinalityType
  <1>2. q \in Seq(S) /\ Len(q) = Cardinality(S)
    <2>1. q \in [1 .. Cardinality(S) -> S]
      BY Zenon DEF Orders
    <2>2. q \in Seq(S)
      BY <1>1, <2>1, SeqDef, Zenon
    <2>. QED
      BY <1>1, <2>1, <2>2, SMT
  <1>3. q \in Seq(Timers)
    BY <1>2, SMT
  <1>4. \A s \in S : \E i \in 1 .. Len(q) : q[i] = s
    BY <1>1, <1>2, SMT DEF Orders
  <1>5. /\ announce' \in Seq(Timers) /\ Len(announce') = Len(announce) + Len(q)
        /\ \A i \in 1 .. Len(announce) : announce'[i] = announce[i]
        /\ \A i \in 1 .. Len(q) : announce'[Len(announce) + i] = q[i]
    BY <1>3, SMT
  <1>6. /\ DOMAIN announce = 1 .. Len(announce) /\ DOMAIN announce' = 1 .. Len(announce')
        /\ DOMAIN q = 1 .. Len(q) /\ Len(announce) \in Nat /\ Len(q) \in Nat
    BY <1>3, <1>5, SMT
  <1>7. ASSUME NEW i \in 1 .. Len(announce')
        PROVE  announce'[i] \in Said \cup S
    <2>1. CASE i \in 1 .. Len(announce)
      BY <1>5, <1>6, <2>1, Zenon DEF Said
    <2>2. CASE i \notin 1 .. Len(announce)
      <3>1. i - Len(announce) \in 1 .. Len(q) /\ i = Len(announce) + (i - Len(announce))
        BY <1>5, <1>6, <2>2, SMT
      <3>. DEFINE j == i - Len(announce)
      <3>2. announce'[i] = q[j] /\ j \in 1 .. Len(q)
        BY <1>5, <3>1, Zenon
      <3>3. q[j] \in S
        BY <1>2, <3>2, SMT
      <3>. QED
        BY <3>2, <3>3
    <2>. QED
      BY <2>1, <2>2
  <1>8. ASSUME NEW s \in Said \cup S
        PROVE  s \in Said'
    <2>1. CASE s \in Said
      <3>1. PICK i \in 1 .. Len(announce) : s = announce[i]
        BY <1>6, <2>1, Zenon DEF Said
      <3>2. i \in 1 .. Len(announce') /\ announce'[i] = s
        BY <1>5, <1>6, <3>1, SMT
      <3>. QED
        BY <1>6, <3>2, Zenon DEF Said
    <2>2. CASE s \in S
      <3>1. PICK i \in 1 .. Len(q) : q[i] = s
        BY <1>4, <2>2, Zenon
      <3>2. Len(announce) + i \in 1 .. Len(announce')
        BY <1>5, <1>6, <3>1, SMT
      <3>3. announce'[Len(announce) + i] = s
        BY <1>5, <3>1, Zenon
      <3>. QED
        BY <1>6, <3>2, <3>3, Zenon DEF Said
    <2>. QED
      BY <2>1, <2>2
  <1>9. Said' = Said \cup S
    BY <1>6, <1>7, <1>8, Zenon DEF Said
  <1>10. announce # <<>> => announce' # <<>>
    BY <1>5, <1>6, SMT
  <1>. QED
    BY <1>5, <1>9, <1>10

(* What SENSE does, an order being any.                                    *)
LEMMA FoldFacts ==
    ASSUME TypeOK, Fold
    PROVE  /\ pc \in {"starting", "asleep"} /\ due' = {} /\ batch' = inbox'
           /\ inbox' \subseteq Signals
           /\ \A t \in Timers : <<"timer", t>> \in inbox' <=> <<"timer", t>> \in inbox \/ t \in due
           /\ announce' \in Seq(Timers) /\ Said \subseteq Said'
           /\ \A t \in Timers : t \in Said' <=> t \in Said \/ <<"timer", t>> \in inbox'
           /\ \E files \in SUBSET Timers :
                 goal' = [t \in Timers |-> IF t \in files THEN Filed(t) ELSE goal[t]]
           /\ owedReview' \subseteq Timers
           /\ disk' \in [delivered : SUBSET Timers, reviews : SUBSET Timers]
           /\ disk'.delivered = disk.delivered \/ disk'.delivered = delivered
           /\ FoldedReviews \subseteq Timers
           /\ UNCHANGED <<file, board, landed, delivered, elapsed, talking,
                          engaged, voice, countVars, started, written, handed,
                          spoken, expired, forgotten>>
  <1>. DEFINE read == inbox \cup ({"timer"} \X due)
              soft == (TurnsIn(read) \cap Soft) \ reviews
  <1>1. /\ pc \in {"starting", "asleep"} /\ due' = {} /\ batch' = read /\ inbox' = read
        /\ UNCHANGED <<file, board, landed, delivered, elapsed, talking,
                       engaged, voice, countVars, started, written, handed,
                       spoken, expired, forgotten>>
    BY Zenon DEF Fold
  <1>2. PICK q \in Orders(TimersIn(read)) : announce' = announce \o q
    BY Zenon DEF Fold
  <1>3. /\ goal' = [t \in Timers |-> IF t \in TurnsIn(read) \cap Explicit THEN Filed(t) ELSE goal[t]]
        /\ owedReview' = owedReview \cup soft
        /\ disk' = disk \/ disk' = [delivered |-> delivered, reviews |-> reviews \cup soft]
    BY Zenon DEF Fold
  <1>4. read \subseteq Signals
    BY SMT DEF TypeOK, Signals
  <1>5. \A t \in Timers : <<"timer", t>> \in read <=> <<"timer", t>> \in inbox \/ t \in due
    BY SMT
  <1>6. TimersIn(read) \in SUBSET Timers /\ TurnsIn(read) \in SUBSET Timers
    BY Zenon DEF TimersIn, TurnsIn
  <1>7. announce' \in Seq(Timers) /\ Said' = Said \cup TimersIn(read)
    BY <1>2, <1>6, OrderFacts, Zenon DEF TypeOK
  <1>8. \A t \in Timers : t \in Said' <=> t \in Said \/ <<"timer", t>> \in inbox'
    BY <1>1, <1>7, Zenon DEF TimersIn
  <1>9. FoldedReviews \subseteq Timers /\ soft \in SUBSET Timers
    BY <1>6, Zenon DEF FoldedReviews, TypeOK, TurnsIn
  <1>10. owedReview' \subseteq Timers
    BY <1>3, <1>9, Zenon DEF TypeOK
  <1>11. disk' \in [delivered : SUBSET Timers, reviews : SUBSET Timers]
         /\ (disk'.delivered = disk.delivered \/ disk'.delivered = delivered)
    <2>1. CASE disk' = disk
      BY <2>1, Zenon DEF TypeOK
    <2>2. CASE disk' = [delivered |-> delivered, reviews |-> reviews \cup soft]
      <3>1. delivered \in SUBSET Timers /\ reviews \cup soft \in SUBSET Timers
        BY <1>9, Zenon DEF TypeOK
      <3>. QED
        BY <2>2, <3>1, Zenon
    <2>. QED
      BY <1>3, <2>1, <2>2, Zenon
  <1>12. \E files \in SUBSET Timers :
            goal' = [t \in Timers |-> IF t \in files THEN Filed(t) ELSE goal[t]]
    <2>1. TurnsIn(read) \cap Explicit \in SUBSET Timers
      BY <1>6, Zenon
    <2>. QED
      BY <1>3, <2>1, Zenon
  <1>. HIDE DEF read, soft
  <1>. QED
    BY <1>1, <1>4, <1>5, <1>7, <1>8, <1>9, <1>10, <1>11, <1>12, Zenon

(* What a hand-over does; whether the file could be written is open.       *)
Delivered(t) ==
    /\ announce' \in Seq(Timers) /\ t \in Said /\ Said' \subseteq Said
    /\ \A s \in Said : s = t \/ s \in Said'
    /\ landed' = landed \ {t} /\ delivered' = delivered \cup {t} /\ handed' = handed \cup {t}
    /\ board' = IF t \in landed THEN board \ {t} ELSE board
    /\ \/ file' = file /\ written' = written \cup file
       \/ file' = board' /\ written' = written \cup board'
       \/ file' = file /\ written' = written
    /\ faults' \in 0 .. MaxFaults
    /\ goal' = [goal EXCEPT ![t] = IF goal[t] = "open" THEN "done" ELSE goal[t]]
    /\ pc = "announcing" /\ pc' = "acting"
    /\ UNCHANGED <<due, inbox, batch, reviews, reviewing, disk, elapsed, talking,
                   engaged, crashes, started, expired, forgotten, owedReview>>

LEMMA DeliversFacts ==
    ASSUME TypeOK, AnnouncesSomething, NEW t \in Timers, Delivers(t)
    PROVE  Delivered(t)
  <1>1. announce # <<>> /\ announce \in Seq(Timers) /\ t = Head(announce) /\ announce' = Tail(announce)
    BY SMT DEF Delivers, AnnouncesSomething, TypeOK, Popped
  <1>2. /\ announce' \in Seq(Timers) /\ DOMAIN announce = 1 .. Len(announce)
        /\ DOMAIN announce' = 1 .. Len(announce') /\ Len(announce') = Len(announce) - 1
        /\ Len(announce) \in Nat \ {0} /\ t = announce[1]
        /\ \A i \in 1 .. Len(announce') : announce'[i] = announce[i + 1]
    BY <1>1, SMT
  <1>3. t \in Said
    <2>1. 1 \in DOMAIN announce
      BY <1>2, SMT
    <2>. QED
      BY <1>2, <2>1, Zenon DEF Said
  <1>4. ASSUME NEW s \in Said' PROVE s \in Said
    <2>1. PICK i \in 1 .. Len(announce') : s = announce'[i]
      BY <1>2, <1>4, Zenon DEF Said
    <2>2. i + 1 \in 1 .. Len(announce) /\ s = announce[i + 1]
      BY <1>2, <2>1, SMT
    <2>. QED
      BY <1>2, <2>2, Zenon DEF Said
  <1>5. ASSUME NEW s \in Said PROVE s = t \/ s \in Said'
    <2>1. PICK i \in 1 .. Len(announce) : s = announce[i]
      BY <1>2, <1>5, Zenon DEF Said
    <2>2. CASE i = 1
      BY <1>2, <2>1, <2>2, Zenon
    <2>3. CASE i # 1
      <3>1. i - 1 \in 1 .. Len(announce') /\ announce'[i - 1] = s
        BY <1>2, <2>1, <2>3, SMT
      <3>. QED
        BY <1>2, <3>1, Zenon DEF Said
    <2>. QED
      BY <2>2, <2>3
  <1>6. /\ delivered' = delivered \cup {t} /\ handed' = handed \cup {t}
        /\ goal' = [goal EXCEPT ![t] = IF goal[t] = "open" THEN "done" ELSE goal[t]]
        /\ pc = "announcing" /\ pc' = "acting"
        /\ UNCHANGED <<due, inbox, batch, reviews, reviewing, disk, elapsed, talking,
                       engaged, crashes, started, expired, forgotten, owedReview>>
    BY Zenon DEF Delivers, Complete
  <1>7. /\ landed' = landed \ {t}
        /\ board' = IF t \in landed THEN board \ {t} ELSE board
        /\ \/ file' = file /\ written' = written \cup file
           \/ file' = board' /\ written' = written \cup board'
           \/ file' = file /\ written' = written
        /\ faults' \in 0 .. MaxFaults
    BY Given, SMT DEF Delivers, Complete, Ack, Save, TypeOK
  <1>. QED
    BY <1>2, <1>3, <1>4, <1>5, <1>6, <1>7, Zenon DEF Delivered

(* Types, and that a hand-over has a line to hand over.                    *)
LEMMA TypeStep ==
    ASSUME TypeOK, AnnouncesSomething, DueIsNew, [Next]_vars
    PROVE  TypeOK' /\ AnnouncesSomething'
  <1>. USE Given, SaidFacts
       DEF TypeOK, AnnouncesSomething, DueIsNew, boardVars, mindVars, roomVars,
           countVars, history
  <1>1. ASSUME NEW t \in Timers, Elapse(t)
        PROVE  TypeOK' /\ AnnouncesSomething'
    BY <1>1, SMT DEF Elapse
  <1>2. ASSUME NEW t \in Timers, SetTimer(t)
        PROVE  TypeOK' /\ AnnouncesSomething'
    BY <1>2, SMT DEF SetTimer, Save
  <1>3. ASSUME NEW t \in Timers, TurnCommitted(t)
        PROVE  TypeOK' /\ AnnouncesSomething'
    <2>1. inbox' \subseteq Signals
      BY <1>3, SMT DEF TurnCommitted, Signals
    <2>. QED
      BY <1>3, <2>1, SMT DEF TurnCommitted
  <1>4. ASSUME NEW t \in Timers, HandToVoice(t)
        PROVE  TypeOK' /\ AnnouncesSomething'
    <2>1. Delivers(t) /\ voice' = {t} /\ UNCHANGED spoken
      BY <1>4, Zenon DEF HandToVoice
    <2>2. Delivered(t)
      BY <2>1, DeliversFacts, Zenon
    <2>3. t \in Said /\ Said' \subseteq Said
      BY <2>1, <2>2, Zenon DEF Delivered
    <2>4. t \notin due
      BY <2>1, <2>2, <2>3, Zenon
    <2>5. due' = due /\ landed' = landed \ {t} /\ board' = IF t \in landed THEN board \ {t} ELSE board
      BY <2>1, <2>2, Zenon DEF Delivered
    <2>6. landed' \subseteq board' /\ due' \subseteq landed' /\ board' \subseteq Timers
      BY <2>1, <2>2, <2>4, <2>5, SMT
    <2>7. file' \subseteq Timers /\ written' \subseteq Timers /\ handed' \subseteq Timers
      BY <2>1, <2>2, SMT DEF Delivered
    <2>8. goal' \in [Timers -> {"none", "open", "done"}]
      BY <2>1, <2>2, SMT DEF Delivered
    <2>9. spoken' \in [Timers -> 0 .. 2] /\ voice' \subseteq Timers
      BY <2>1, <2>2, SMT DEF Hear
    <2>. QED
      BY <2>1, <2>2, <2>3, <2>4, <2>5, <2>6, <2>7, <2>8, <2>9, SMT DEF Delivered
  <1>5. ASSUME NEW t \in Timers, PostLine(t)
        PROVE  TypeOK' /\ AnnouncesSomething'
    <2>1. Delivers(t) /\ UNCHANGED voice /\ Hear(t)
      BY <1>5, Zenon DEF PostLine
    <2>2. Delivered(t)
      BY <2>1, DeliversFacts, Zenon
    <2>3. t \in Said /\ Said' \subseteq Said
      BY <2>1, <2>2, Zenon DEF Delivered
    <2>4. t \notin due
      BY <2>1, <2>2, <2>3, Zenon
    <2>5. due' = due /\ landed' = landed \ {t} /\ board' = IF t \in landed THEN board \ {t} ELSE board
      BY <2>1, <2>2, Zenon DEF Delivered
    <2>6. landed' \subseteq board' /\ due' \subseteq landed' /\ board' \subseteq Timers
      BY <2>1, <2>2, <2>4, <2>5, SMT
    <2>7. file' \subseteq Timers /\ written' \subseteq Timers /\ handed' \subseteq Timers
      BY <2>1, <2>2, SMT DEF Delivered
    <2>8. goal' \in [Timers -> {"none", "open", "done"}]
      BY <2>1, <2>2, SMT DEF Delivered
    <2>9. spoken' \in [Timers -> 0 .. 2] /\ voice' \subseteq Timers
      BY <2>1, <2>2, SMT DEF Hear
    <2>. QED
      BY <2>1, <2>2, <2>3, <2>4, <2>5, <2>6, <2>7, <2>8, <2>9, SMT DEF Delivered
  <1>6. ASSUME NEW t \in Timers, VoiceSays(t)
        PROVE  TypeOK' /\ AnnouncesSomething'
    BY <1>6, SMT DEF VoiceSays, Hear, VoiceEnds
  <1>7. ASSUME NEW t \in Timers, VoiceFails(t)
        PROVE  TypeOK' /\ AnnouncesSomething'
    BY <1>7, SMT DEF VoiceFails, VoiceEnds
  <1>8. CASE Settle
    <2>1. engaged' \in BOOLEAN
      BY <1>8, Zenon DEF Settle
    <2>. QED
      BY <1>8, <2>1, SMT DEF Settle
  <1>9. CASE Poll
    BY <1>9, SMT DEF Poll, Ready
  <1>10. CASE AnnounceTick
    <2>. Fold
      BY <1>10, Zenon DEF AnnounceTick
    <2>. QED
      BY <1>10, FoldFacts, SMT DEF AnnounceTick, MayAnnounce, Filed
  <1>11. CASE ReviewTick
    <2>. Fold
      BY <1>11, Zenon DEF ReviewTick
    <2>. QED
      BY <1>11, FoldFacts, SMT DEF ReviewTick, MayAnnounce, Filed
  <1>12. CASE OtherTick
    <2>. Fold
      BY <1>12, Zenon DEF OtherTick
    <2>. QED
      BY <1>12, FoldFacts, SMT DEF OtherTick, MayAnnounce, Filed
  <1>13. CASE ComposeFails
    BY <1>13, SMT DEF ComposeFails, StillQueued
  <1>14. CASE ReviewFiles
    BY <1>14, SMT DEF ReviewFiles, ReviewEnds, Filed
  <1>15. CASE ReviewFindsNone
    BY <1>15, SMT DEF ReviewFindsNone, ReviewEnds
  <1>16. CASE ReviewFails
    BY <1>16, SMT DEF ReviewFails, ReviewEnds
  <1>17. CASE Commit
    BY <1>17, SMT DEF Commit, Persist
  <1>18. CASE PersistNow
    BY <1>18, SMT DEF PersistNow, Persist
  <1>19. CASE TickDies
    BY <1>19, SMT DEF TickDies
  <1>20. CASE Pause
    BY <1>20, SMT DEF Pause
  <1>21. CASE Resume
    BY <1>21, SMT DEF Resume
  <1>22. CASE Crash
    <2>1. engaged' \in BOOLEAN
      BY <1>22, Zenon DEF Crash
    <2>2. /\ disk.delivered \subseteq Timers /\ disk.reviews \subseteq Timers
          /\ announce' \in Seq(Timers) /\ spoken' = spoken /\ disk' = disk
      BY <1>22, SMT DEF Crash
    <2>3. /\ board' \subseteq Timers /\ expired' \subseteq Timers
      BY <1>22, SMT DEF Crash, Loaded
    <2>4. crashes' \in 0 .. MaxCrashes
      BY <1>22, SMT DEF Crash
    <2>. QED
      BY <1>22, <2>1, <2>2, <2>3, <2>4, SMT DEF Crash
  <1>23. CASE UNCHANGED vars
    BY <1>23, SMT DEF vars
  <1>. QED
    BY <1>1, <1>2, <1>3, <1>4, <1>5, <1>6, <1>7, <1>8, <1>9, <1>10, <1>11, <1>12, <1>13,
       <1>14, <1>15, <1>16, <1>17, <1>18, <1>19, <1>20, <1>21, <1>22, <1>23,
       Zenon DEF Next

(* A landing is carried by one queue or the next.                          *)
LEMMA QueueStep ==
    ASSUME TypeOK, AnnouncesSomething, BatchIsQueued, LandedIsCarried, [Next]_vars
    PROVE  BatchIsQueued' /\ LandedIsCarried'
  <1>. USE Given, SaidFacts
       DEF TypeOK, AnnouncesSomething, BatchIsQueued, LandedIsCarried, boardVars,
           mindVars, roomVars, countVars, history
  <1>1. ASSUME NEW t \in Timers, Elapse(t)
        PROVE  BatchIsQueued' /\ LandedIsCarried'
    BY <1>1, SMT DEF Elapse
  <1>2. ASSUME NEW t \in Timers, SetTimer(t)
        PROVE  BatchIsQueued' /\ LandedIsCarried'
    BY <1>2, SMT DEF SetTimer, Save
  <1>3. ASSUME NEW t \in Timers, TurnCommitted(t)
        PROVE  BatchIsQueued' /\ LandedIsCarried'
    BY <1>3, SMT DEF TurnCommitted
  <1>4. ASSUME NEW t \in Timers, HandToVoice(t)
        PROVE  BatchIsQueued' /\ LandedIsCarried'
    <2>1. Delivers(t) /\ voice' = {t} /\ UNCHANGED spoken
      BY <1>4, Zenon DEF HandToVoice
    <2>2. Delivered(t)
      BY <2>1, DeliversFacts, Zenon
    <2>. QED
      BY <2>1, <2>2, SMT DEF Delivered
  <1>5. ASSUME NEW t \in Timers, PostLine(t)
        PROVE  BatchIsQueued' /\ LandedIsCarried'
    <2>1. Delivers(t) /\ UNCHANGED voice /\ Hear(t)
      BY <1>5, Zenon DEF PostLine
    <2>2. Delivered(t)
      BY <2>1, DeliversFacts, Zenon
    <2>. QED
      BY <2>1, <2>2, SMT DEF Delivered, Hear
  <1>6. ASSUME NEW t \in Timers, VoiceSays(t)
        PROVE  BatchIsQueued' /\ LandedIsCarried'
    BY <1>6, SMT DEF VoiceSays, Hear, VoiceEnds
  <1>7. ASSUME NEW t \in Timers, VoiceFails(t)
        PROVE  BatchIsQueued' /\ LandedIsCarried'
    BY <1>7, SMT DEF VoiceFails, VoiceEnds
  <1>8. CASE Settle
    BY <1>8, SMT DEF Settle
  <1>9. CASE Poll
    BY <1>9, SMT DEF Poll, Ready
  <1>10. CASE AnnounceTick
    <2>. Fold
      BY <1>10, Zenon DEF AnnounceTick
    <2>. QED
      BY <1>10, FoldFacts, SMT DEF AnnounceTick, MayAnnounce, Filed
  <1>11. CASE ReviewTick
    <2>. Fold
      BY <1>11, Zenon DEF ReviewTick
    <2>. QED
      BY <1>11, FoldFacts, SMT DEF ReviewTick, MayAnnounce, Filed
  <1>12. CASE OtherTick
    <2>. Fold
      BY <1>12, Zenon DEF OtherTick
    <2>. QED
      BY <1>12, FoldFacts, SMT DEF OtherTick, MayAnnounce, Filed
  <1>13. CASE ComposeFails
    BY <1>13, SMT DEF ComposeFails, StillQueued
  <1>14. CASE ReviewFiles
    BY <1>14, SMT DEF ReviewFiles, ReviewEnds, Filed
  <1>15. CASE ReviewFindsNone
    BY <1>15, SMT DEF ReviewFindsNone, ReviewEnds
  <1>16. CASE ReviewFails
    BY <1>16, SMT DEF ReviewFails, ReviewEnds
  <1>17. CASE Commit
    BY <1>17, SMT DEF Commit, Persist
  <1>18. CASE PersistNow
    BY <1>18, SMT DEF PersistNow, Persist
  <1>19. CASE TickDies
    BY <1>19, SMT DEF TickDies
  <1>20. CASE Pause
    BY <1>20, SMT DEF Pause
  <1>21. CASE Resume
    BY <1>21, SMT DEF Resume
  <1>22. CASE Crash
    BY <1>22, SMT DEF Crash, Loaded
  <1>23. CASE UNCHANGED vars
    BY <1>23, SMT DEF vars
  <1>. QED
    BY <1>1, <1>2, <1>3, <1>4, <1>5, <1>6, <1>7, <1>8, <1>9, <1>10, <1>11, <1>12, <1>13,
       <1>14, <1>15, <1>16, <1>17, <1>18, <1>19, <1>20, <1>21, <1>22, <1>23,
       Zenon DEF Next

(* A timer lands once between two boots.                                   *)
LEMMA NewStep ==
    ASSUME TypeOK, AnnouncesSomething, OnlySet, QueuedStands, DueIsNew, [Next]_vars
    PROVE  DueIsNew'
  <1>. USE Given, SaidFacts
       DEF TypeOK, AnnouncesSomething, OnlySet, QueuedStands, DueIsNew, boardVars,
           mindVars, roomVars, countVars, history
  <1>1. ASSUME NEW t \in Timers, Elapse(t)
        PROVE  DueIsNew'
    BY <1>1, SMT DEF Elapse
  <1>2. ASSUME NEW t \in Timers, SetTimer(t)
        PROVE  DueIsNew'
    BY <1>2, SMT DEF SetTimer, Save
  <1>3. ASSUME NEW t \in Timers, TurnCommitted(t)
        PROVE  DueIsNew'
    BY <1>3, SMT DEF TurnCommitted
  <1>4. ASSUME NEW t \in Timers, HandToVoice(t)
        PROVE  DueIsNew'
    <2>1. Delivers(t) /\ voice' = {t} /\ UNCHANGED spoken
      BY <1>4, Zenon DEF HandToVoice
    <2>2. Delivered(t)
      BY <2>1, DeliversFacts, Zenon
    <2>. QED
      BY <2>1, <2>2, SMT DEF Delivered
  <1>5. ASSUME NEW t \in Timers, PostLine(t)
        PROVE  DueIsNew'
    <2>1. Delivers(t) /\ UNCHANGED voice /\ Hear(t)
      BY <1>5, Zenon DEF PostLine
    <2>2. Delivered(t)
      BY <2>1, DeliversFacts, Zenon
    <2>. QED
      BY <2>1, <2>2, SMT DEF Delivered, Hear
  <1>6. ASSUME NEW t \in Timers, VoiceSays(t)
        PROVE  DueIsNew'
    BY <1>6, SMT DEF VoiceSays, Hear, VoiceEnds
  <1>7. ASSUME NEW t \in Timers, VoiceFails(t)
        PROVE  DueIsNew'
    BY <1>7, SMT DEF VoiceFails, VoiceEnds
  <1>8. CASE Settle
    BY <1>8, SMT DEF Settle
  <1>9. CASE Poll
    BY <1>9, SMT DEF Poll, Ready
  <1>10. CASE AnnounceTick
    <2>. Fold
      BY <1>10, Zenon DEF AnnounceTick
    <2>. QED
      BY <1>10, FoldFacts, SMT DEF AnnounceTick, MayAnnounce, Filed
  <1>11. CASE ReviewTick
    <2>. Fold
      BY <1>11, Zenon DEF ReviewTick
    <2>. QED
      BY <1>11, FoldFacts, SMT DEF ReviewTick, MayAnnounce, Filed
  <1>12. CASE OtherTick
    <2>. Fold
      BY <1>12, Zenon DEF OtherTick
    <2>. QED
      BY <1>12, FoldFacts, SMT DEF OtherTick, MayAnnounce, Filed
  <1>13. CASE ComposeFails
    BY <1>13, SMT DEF ComposeFails, StillQueued
  <1>14. CASE ReviewFiles
    BY <1>14, SMT DEF ReviewFiles, ReviewEnds, Filed
  <1>15. CASE ReviewFindsNone
    BY <1>15, SMT DEF ReviewFindsNone, ReviewEnds
  <1>16. CASE ReviewFails
    BY <1>16, SMT DEF ReviewFails, ReviewEnds
  <1>17. CASE Commit
    BY <1>17, SMT DEF Commit, Persist
  <1>18. CASE PersistNow
    BY <1>18, SMT DEF PersistNow, Persist
  <1>19. CASE TickDies
    BY <1>19, SMT DEF TickDies
  <1>20. CASE Pause
    BY <1>20, SMT DEF Pause
  <1>21. CASE Resume
    BY <1>21, SMT DEF Resume
  <1>22. CASE Crash
    BY <1>22, SMT DEF Crash, Loaded
  <1>23. CASE UNCHANGED vars
    BY <1>23, SMT DEF vars
  <1>. QED
    BY <1>1, <1>2, <1>3, <1>4, <1>5, <1>6, <1>7, <1>8, <1>9, <1>10, <1>11, <1>12, <1>13,
       <1>14, <1>15, <1>16, <1>17, <1>18, <1>19, <1>20, <1>21, <1>22, <1>23,
       Zenon DEF Next

(* Whatever is on its way is on the board or was handed over.              *)
LEMMA StandStep ==
    ASSUME TypeOK, AnnouncesSomething, OnlySet, QueuedStands, [Next]_vars
    PROVE  OnlySet' /\ QueuedStands'
  <1>. USE Given, SaidFacts
       DEF TypeOK, AnnouncesSomething, OnlySet, QueuedStands, boardVars, mindVars,
           roomVars, countVars, history
  <1>1. ASSUME NEW t \in Timers, Elapse(t)
        PROVE  OnlySet' /\ QueuedStands'
    BY <1>1, SMT DEF Elapse
  <1>2. ASSUME NEW t \in Timers, SetTimer(t)
        PROVE  OnlySet' /\ QueuedStands'
    BY <1>2, SMT DEF SetTimer, Save
  <1>3. ASSUME NEW t \in Timers, TurnCommitted(t)
        PROVE  OnlySet' /\ QueuedStands'
    BY <1>3, SMT DEF TurnCommitted
  <1>4. ASSUME NEW t \in Timers, HandToVoice(t)
        PROVE  OnlySet' /\ QueuedStands'
    <2>1. Delivers(t) /\ voice' = {t} /\ UNCHANGED spoken
      BY <1>4, Zenon DEF HandToVoice
    <2>2. Delivered(t)
      BY <2>1, DeliversFacts, Zenon
    <2>3. t \in started /\ t \notin expired /\ Said' \subseteq Said
      BY <2>1, <2>2, Zenon DEF Delivered
    <2>4. OnlySet'
      BY <2>1, <2>2, <2>3, SMT DEF Delivered
    <2>5. expired' = expired /\ inbox' = inbox /\ due' = due /\ board' \subseteq board
      BY <2>1, <2>2, SMT DEF Delivered
    <2>6. board \cup handed \subseteq board' \cup handed'
      BY <2>1, <2>2, SMT DEF Delivered
    <2>7. QueuedStands'
      BY <2>1, <2>2, <2>3, <2>5, <2>6, SMT
    <2>. QED
      BY <2>1, <2>2, <2>3, <2>4, <2>5, <2>6, <2>7, SMT DEF Delivered
  <1>5. ASSUME NEW t \in Timers, PostLine(t)
        PROVE  OnlySet' /\ QueuedStands'
    <2>1. Delivers(t) /\ UNCHANGED voice /\ Hear(t)
      BY <1>5, Zenon DEF PostLine
    <2>2. Delivered(t)
      BY <2>1, DeliversFacts, Zenon
    <2>3. t \in started /\ t \notin expired /\ Said' \subseteq Said
      BY <2>1, <2>2, Zenon DEF Delivered
    <2>4. OnlySet'
      BY <2>1, <2>2, <2>3, SMT DEF Delivered
    <2>5. expired' = expired /\ inbox' = inbox /\ due' = due /\ board' \subseteq board
      BY <2>1, <2>2, SMT DEF Delivered
    <2>6. board \cup handed \subseteq board' \cup handed'
      BY <2>1, <2>2, SMT DEF Delivered
    <2>7. QueuedStands'
      BY <2>1, <2>2, <2>3, <2>5, <2>6, SMT
    <2>. QED
      BY <2>1, <2>2, <2>3, <2>4, <2>5, <2>6, <2>7, SMT DEF Delivered
  <1>6. ASSUME NEW t \in Timers, VoiceSays(t)
        PROVE  OnlySet' /\ QueuedStands'
    BY <1>6, SMT DEF VoiceSays, Hear, VoiceEnds
  <1>7. ASSUME NEW t \in Timers, VoiceFails(t)
        PROVE  OnlySet' /\ QueuedStands'
    BY <1>7, SMT DEF VoiceFails, VoiceEnds
  <1>8. CASE Settle
    BY <1>8, SMT DEF Settle
  <1>9. CASE Poll
    BY <1>9, SMT DEF Poll, Ready
  <1>10. CASE AnnounceTick
    <2>. Fold
      BY <1>10, Zenon DEF AnnounceTick
    <2>. QED
      BY <1>10, FoldFacts, SMT DEF AnnounceTick, MayAnnounce, Filed
  <1>11. CASE ReviewTick
    <2>. Fold
      BY <1>11, Zenon DEF ReviewTick
    <2>. QED
      BY <1>11, FoldFacts, SMT DEF ReviewTick, MayAnnounce, Filed
  <1>12. CASE OtherTick
    <2>. Fold
      BY <1>12, Zenon DEF OtherTick
    <2>. QED
      BY <1>12, FoldFacts, SMT DEF OtherTick, MayAnnounce, Filed
  <1>13. CASE ComposeFails
    BY <1>13, SMT DEF ComposeFails, StillQueued
  <1>14. CASE ReviewFiles
    BY <1>14, SMT DEF ReviewFiles, ReviewEnds, Filed
  <1>15. CASE ReviewFindsNone
    BY <1>15, SMT DEF ReviewFindsNone, ReviewEnds
  <1>16. CASE ReviewFails
    BY <1>16, SMT DEF ReviewFails, ReviewEnds
  <1>17. CASE Commit
    BY <1>17, SMT DEF Commit, Persist
  <1>18. CASE PersistNow
    BY <1>18, SMT DEF PersistNow, Persist
  <1>19. CASE TickDies
    BY <1>19, SMT DEF TickDies
  <1>20. CASE Pause
    BY <1>20, SMT DEF Pause
  <1>21. CASE Resume
    BY <1>21, SMT DEF Resume
  <1>22. CASE Crash
    BY <1>22, SMT DEF Crash, Loaded
  <1>23. CASE UNCHANGED vars
    BY <1>23, SMT DEF vars
  <1>. QED
    BY <1>1, <1>2, <1>3, <1>4, <1>5, <1>6, <1>7, <1>8, <1>9, <1>10, <1>11, <1>12, <1>13,
       <1>14, <1>15, <1>16, <1>17, <1>18, <1>19, <1>20, <1>21, <1>22, <1>23,
       Zenon DEF Next

(* Every timer of the file is accounted for.                               *)
LEMMA AccountStep ==
    ASSUME TypeOK, AnnouncesSomething, DeliveryIsRemembered, FileIsOnBoard,
           OnFileUntilHandedOver, WrittenIsAccounted, [Next]_vars
    PROVE  /\ DeliveryIsRemembered' /\ FileIsOnBoard'
           /\ OnFileUntilHandedOver' /\ WrittenIsAccounted'
  <1>. USE Given, SaidFacts
       DEF TypeOK, AnnouncesSomething, DeliveryIsRemembered, FileIsOnBoard,
           OnFileUntilHandedOver, WrittenIsAccounted, boardVars, mindVars, roomVars,
           countVars, history
  <1>1. ASSUME NEW t \in Timers, Elapse(t)
        PROVE  /\ DeliveryIsRemembered' /\ FileIsOnBoard'
           /\ OnFileUntilHandedOver' /\ WrittenIsAccounted'
    BY <1>1, SMT DEF Elapse
  <1>2. ASSUME NEW t \in Timers, SetTimer(t)
        PROVE  /\ DeliveryIsRemembered' /\ FileIsOnBoard'
           /\ OnFileUntilHandedOver' /\ WrittenIsAccounted'
    BY <1>2, SMT DEF SetTimer, Save
  <1>3. ASSUME NEW t \in Timers, TurnCommitted(t)
        PROVE  /\ DeliveryIsRemembered' /\ FileIsOnBoard'
           /\ OnFileUntilHandedOver' /\ WrittenIsAccounted'
    BY <1>3, SMT DEF TurnCommitted
  <1>4. ASSUME NEW t \in Timers, HandToVoice(t)
        PROVE  /\ DeliveryIsRemembered' /\ FileIsOnBoard'
           /\ OnFileUntilHandedOver' /\ WrittenIsAccounted'
    <2>1. Delivers(t) /\ voice' = {t} /\ UNCHANGED spoken
      BY <1>4, Zenon DEF HandToVoice
    <2>2. Delivered(t)
      BY <2>1, DeliversFacts, Zenon
    <2>. QED
      BY <2>1, <2>2, SMT DEF Delivered
  <1>5. ASSUME NEW t \in Timers, PostLine(t)
        PROVE  /\ DeliveryIsRemembered' /\ FileIsOnBoard'
           /\ OnFileUntilHandedOver' /\ WrittenIsAccounted'
    <2>1. Delivers(t) /\ UNCHANGED voice /\ Hear(t)
      BY <1>5, Zenon DEF PostLine
    <2>2. Delivered(t)
      BY <2>1, DeliversFacts, Zenon
    <2>. QED
      BY <2>1, <2>2, SMT DEF Delivered, Hear
  <1>6. ASSUME NEW t \in Timers, VoiceSays(t)
        PROVE  /\ DeliveryIsRemembered' /\ FileIsOnBoard'
           /\ OnFileUntilHandedOver' /\ WrittenIsAccounted'
    BY <1>6, SMT DEF VoiceSays, Hear, VoiceEnds
  <1>7. ASSUME NEW t \in Timers, VoiceFails(t)
        PROVE  /\ DeliveryIsRemembered' /\ FileIsOnBoard'
           /\ OnFileUntilHandedOver' /\ WrittenIsAccounted'
    BY <1>7, SMT DEF VoiceFails, VoiceEnds
  <1>8. CASE Settle
    BY <1>8, SMT DEF Settle
  <1>9. CASE Poll
    BY <1>9, SMT DEF Poll, Ready
  <1>10. CASE AnnounceTick
    <2>. Fold
      BY <1>10, Zenon DEF AnnounceTick
    <2>. QED
      BY <1>10, FoldFacts, SMT DEF AnnounceTick, MayAnnounce, Filed
  <1>11. CASE ReviewTick
    <2>. Fold
      BY <1>11, Zenon DEF ReviewTick
    <2>. QED
      BY <1>11, FoldFacts, SMT DEF ReviewTick, MayAnnounce, Filed
  <1>12. CASE OtherTick
    <2>. Fold
      BY <1>12, Zenon DEF OtherTick
    <2>. QED
      BY <1>12, FoldFacts, SMT DEF OtherTick, MayAnnounce, Filed
  <1>13. CASE ComposeFails
    BY <1>13, SMT DEF ComposeFails, StillQueued
  <1>14. CASE ReviewFiles
    BY <1>14, SMT DEF ReviewFiles, ReviewEnds, Filed
  <1>15. CASE ReviewFindsNone
    BY <1>15, SMT DEF ReviewFindsNone, ReviewEnds
  <1>16. CASE ReviewFails
    BY <1>16, SMT DEF ReviewFails, ReviewEnds
  <1>17. CASE Commit
    BY <1>17, SMT DEF Commit, Persist
  <1>18. CASE PersistNow
    BY <1>18, SMT DEF PersistNow, Persist
  <1>19. CASE TickDies
    BY <1>19, SMT DEF TickDies
  <1>20. CASE Pause
    BY <1>20, SMT DEF Pause
  <1>21. CASE Resume
    BY <1>21, SMT DEF Resume
  <1>22. CASE Crash
    BY <1>22, SMT DEF Crash, Loaded
  <1>23. CASE UNCHANGED vars
    BY <1>23, SMT DEF vars
  <1>. QED
    BY <1>1, <1>2, <1>3, <1>4, <1>5, <1>6, <1>7, <1>8, <1>9, <1>10, <1>11, <1>12, <1>13,
       <1>14, <1>15, <1>16, <1>17, <1>18, <1>19, <1>20, <1>21, <1>22, <1>23,
       Zenon DEF Next

(* A goal is filed open only for what was not delivered.                   *)
LEMMA GoalStep ==
    ASSUME TypeOK, AnnouncesSomething, DeliveryIsRemembered, GoalClosesAfterHandover,
           OpenIsUndelivered, [Next]_vars
    PROVE  GoalClosesAfterHandover' /\ OpenIsUndelivered'
  <1>. USE Given, SaidFacts
       DEF TypeOK, AnnouncesSomething, DeliveryIsRemembered, GoalClosesAfterHandover,
           OpenIsUndelivered, boardVars, mindVars, roomVars, countVars, history
  <1>1. ASSUME NEW t \in Timers, Elapse(t)
        PROVE  GoalClosesAfterHandover' /\ OpenIsUndelivered'
    BY <1>1, SMT DEF Elapse
  <1>2. ASSUME NEW t \in Timers, SetTimer(t)
        PROVE  GoalClosesAfterHandover' /\ OpenIsUndelivered'
    BY <1>2, SMT DEF SetTimer, Save
  <1>3. ASSUME NEW t \in Timers, TurnCommitted(t)
        PROVE  GoalClosesAfterHandover' /\ OpenIsUndelivered'
    BY <1>3, SMT DEF TurnCommitted
  <1>4. ASSUME NEW t \in Timers, HandToVoice(t)
        PROVE  GoalClosesAfterHandover' /\ OpenIsUndelivered'
    <2>1. Delivers(t) /\ voice' = {t} /\ UNCHANGED spoken
      BY <1>4, Zenon DEF HandToVoice
    <2>2. Delivered(t)
      BY <2>1, DeliversFacts, Zenon
    <2>. QED
      BY <2>1, <2>2, SMT DEF Delivered
  <1>5. ASSUME NEW t \in Timers, PostLine(t)
        PROVE  GoalClosesAfterHandover' /\ OpenIsUndelivered'
    <2>1. Delivers(t) /\ UNCHANGED voice /\ Hear(t)
      BY <1>5, Zenon DEF PostLine
    <2>2. Delivered(t)
      BY <2>1, DeliversFacts, Zenon
    <2>. QED
      BY <2>1, <2>2, SMT DEF Delivered, Hear
  <1>6. ASSUME NEW t \in Timers, VoiceSays(t)
        PROVE  GoalClosesAfterHandover' /\ OpenIsUndelivered'
    BY <1>6, SMT DEF VoiceSays, Hear, VoiceEnds
  <1>7. ASSUME NEW t \in Timers, VoiceFails(t)
        PROVE  GoalClosesAfterHandover' /\ OpenIsUndelivered'
    BY <1>7, SMT DEF VoiceFails, VoiceEnds
  <1>8. CASE Settle
    BY <1>8, SMT DEF Settle
  <1>9. CASE Poll
    BY <1>9, SMT DEF Poll, Ready
  <1>10. CASE AnnounceTick
    <2>. Fold
      BY <1>10, Zenon DEF AnnounceTick
    <2>. QED
      BY <1>10, FoldFacts, SMT DEF AnnounceTick, MayAnnounce, Filed
  <1>11. CASE ReviewTick
    <2>. Fold
      BY <1>11, Zenon DEF ReviewTick
    <2>. QED
      BY <1>11, FoldFacts, SMT DEF ReviewTick, MayAnnounce, Filed
  <1>12. CASE OtherTick
    <2>. Fold
      BY <1>12, Zenon DEF OtherTick
    <2>. QED
      BY <1>12, FoldFacts, SMT DEF OtherTick, MayAnnounce, Filed
  <1>13. CASE ComposeFails
    BY <1>13, SMT DEF ComposeFails, StillQueued
  <1>14. CASE ReviewFiles
    BY <1>14, SMT DEF ReviewFiles, ReviewEnds, Filed
  <1>15. CASE ReviewFindsNone
    BY <1>15, SMT DEF ReviewFindsNone, ReviewEnds
  <1>16. CASE ReviewFails
    BY <1>16, SMT DEF ReviewFails, ReviewEnds
  <1>17. CASE Commit
    BY <1>17, SMT DEF Commit, Persist
  <1>18. CASE PersistNow
    BY <1>18, SMT DEF PersistNow, Persist
  <1>19. CASE TickDies
    BY <1>19, SMT DEF TickDies
  <1>20. CASE Pause
    BY <1>20, SMT DEF Pause
  <1>21. CASE Resume
    BY <1>21, SMT DEF Resume
  <1>22. CASE Crash
    BY <1>22, SMT DEF Crash, Loaded
  <1>23. CASE UNCHANGED vars
    BY <1>23, SMT DEF vars
  <1>. QED
    BY <1>1, <1>2, <1>3, <1>4, <1>5, <1>6, <1>7, <1>8, <1>9, <1>10, <1>11, <1>12, <1>13,
       <1>14, <1>15, <1>16, <1>17, <1>18, <1>19, <1>20, <1>21, <1>22, <1>23,
       Zenon DEF Next

(* What a reader outside has seen, and what may come on board or on file.  *)
LEMMA GrowthStep ==
    ASSUME TypeOK, AnnouncesSomething, OnlySet, QueuedStands, [Next]_vars
    PROVE  Grows
  <1>. USE Given, SaidFacts
       DEF TypeOK, OnlySet, QueuedStands, Grows, boardVars, mindVars, roomVars,
           countVars, history
  <1>1. ASSUME NEW t \in Timers, Elapse(t)
        PROVE  Grows
    BY <1>1, SMT DEF Elapse
  <1>2. ASSUME NEW t \in Timers, SetTimer(t)
        PROVE  Grows
    BY <1>2, SMT DEF SetTimer, Save
  <1>3. ASSUME NEW t \in Timers, TurnCommitted(t)
        PROVE  Grows
    BY <1>3, SMT DEF TurnCommitted
  <1>4. ASSUME NEW t \in Timers, HandToVoice(t)
        PROVE  Grows
    <2>1. Delivers(t) /\ voice' = {t} /\ UNCHANGED spoken
      BY <1>4, Zenon DEF HandToVoice
    <2>2. Delivered(t)
      BY <2>1, DeliversFacts, Zenon
    <2>3. t \in board \cup handed /\ handed' = handed \cup {t}
      BY <2>1, <2>2, Zenon DEF Delivered
    <2>4. /\ UNCHANGED <<started, expired>> /\ board' \subseteq board
          /\ file' = file \/ file' = board'
          /\ written \subseteq written'
      BY <2>1, <2>2, SMT DEF Delivered
    <2>. QED
      BY <2>1, <2>2, <2>3, <2>4, SMT
  <1>5. ASSUME NEW t \in Timers, PostLine(t)
        PROVE  Grows
    <2>1. Delivers(t) /\ UNCHANGED voice /\ Hear(t)
      BY <1>5, Zenon DEF PostLine
    <2>2. Delivered(t)
      BY <2>1, DeliversFacts, Zenon
    <2>3. t \in board \cup handed /\ handed' = handed \cup {t}
      BY <2>1, <2>2, Zenon DEF Delivered
    <2>4. /\ UNCHANGED <<started, expired>> /\ board' \subseteq board
          /\ file' = file \/ file' = board'
          /\ written \subseteq written'
      BY <2>1, <2>2, SMT DEF Delivered
    <2>. QED
      BY <2>1, <2>2, <2>3, <2>4, SMT
  <1>6. ASSUME NEW t \in Timers, VoiceSays(t)
        PROVE  Grows
    BY <1>6, SMT DEF VoiceSays, Hear, VoiceEnds
  <1>7. ASSUME NEW t \in Timers, VoiceFails(t)
        PROVE  Grows
    BY <1>7, SMT DEF VoiceFails, VoiceEnds
  <1>8. CASE Settle
    BY <1>8, SMT DEF Settle
  <1>9. CASE Poll
    BY <1>9, SMT DEF Poll, Ready
  <1>10. CASE AnnounceTick
    <2>. Fold
      BY <1>10, Zenon DEF AnnounceTick
    <2>. QED
      BY <1>10, FoldFacts, SMT DEF AnnounceTick, MayAnnounce, Filed
  <1>11. CASE ReviewTick
    <2>. Fold
      BY <1>11, Zenon DEF ReviewTick
    <2>. QED
      BY <1>11, FoldFacts, SMT DEF ReviewTick, MayAnnounce, Filed
  <1>12. CASE OtherTick
    <2>. Fold
      BY <1>12, Zenon DEF OtherTick
    <2>. QED
      BY <1>12, FoldFacts, SMT DEF OtherTick, MayAnnounce, Filed
  <1>13. CASE ComposeFails
    BY <1>13, SMT DEF ComposeFails, StillQueued
  <1>14. CASE ReviewFiles
    BY <1>14, SMT DEF ReviewFiles, ReviewEnds, Filed
  <1>15. CASE ReviewFindsNone
    BY <1>15, SMT DEF ReviewFindsNone, ReviewEnds
  <1>16. CASE ReviewFails
    BY <1>16, SMT DEF ReviewFails, ReviewEnds
  <1>17. CASE Commit
    BY <1>17, SMT DEF Commit, Persist
  <1>18. CASE PersistNow
    BY <1>18, SMT DEF PersistNow, Persist
  <1>19. CASE TickDies
    BY <1>19, SMT DEF TickDies
  <1>20. CASE Pause
    BY <1>20, SMT DEF Pause
  <1>21. CASE Resume
    BY <1>21, SMT DEF Resume
  <1>22. CASE Crash
    BY <1>22, SMT DEF Crash, Loaded
  <1>23. CASE UNCHANGED vars
    BY <1>23, SMT DEF vars
  <1>. QED
    BY <1>1, <1>2, <1>3, <1>4, <1>5, <1>6, <1>7, <1>8, <1>9, <1>10, <1>11, <1>12, <1>13,
       <1>14, <1>15, <1>16, <1>17, <1>18, <1>19, <1>20, <1>21, <1>22, <1>23,
       Zenon DEF Next

LEMMA InitHolds == Init => IInv
  <1>. SUFFICES ASSUME Init PROVE IInv
    OBVIOUS
  <1>1. Said = {} /\ announce \in Seq(Timers)
    BY SMT DEF Init, Said
  <1>2. engaged \in BOOLEAN /\ disk \in [delivered : SUBSET Timers, reviews : SUBSET Timers]
    BY Zenon DEF Init
  <1>3. TypeOK /\ AnnouncesSomething
    BY <1>1, <1>2, Given, SMT DEF Init, TypeOK, AnnouncesSomething
  <1>4. BatchIsQueued /\ LandedIsCarried /\ DueIsNew
    BY <1>1, SMT DEF Init, BatchIsQueued, LandedIsCarried, DueIsNew
  <1>5. OnlySet /\ QueuedStands
    BY <1>1, SMT DEF Init, OnlySet, QueuedStands
  <1>6. DeliveryIsRemembered /\ FileIsOnBoard /\ OnFileUntilHandedOver /\ WrittenIsAccounted
    BY SMT DEF Init, DeliveryIsRemembered, FileIsOnBoard, OnFileUntilHandedOver,
               WrittenIsAccounted
  <1>7. GoalClosesAfterHandover /\ OpenIsUndelivered
    BY SMT DEF Init, GoalClosesAfterHandover, OpenIsUndelivered
  <1>. QED
    BY <1>3, <1>4, <1>5, <1>6, <1>7 DEF IInv

LEMMA NextKeepsIInv == IInv /\ [Next]_vars => IInv'
  BY TypeStep, QueueStep, NewStep, StandStep, AccountStep, GoalStep, Zenon DEF IInv

THEOREM Invariance == Spec => []IInv
  BY InitHolds, NextKeepsIInv, PTL DEF Spec

(* Every variable has its type, and a queue holds what has landed.         *)
THEOREM TypeCorrect == Spec => []TypeOK
  <1>1. IInv => TypeOK
    BY DEF IInv
  <1>. QED
    BY <1>1, Invariance, PTL

(* SPEC 7.5, landing is not delivery (world/tools/timers.py).              *)
THEOREM StaysOnFile == Spec => []OnFileUntilHandedOver
  <1>1. IInv => OnFileUntilHandedOver
    BY DEF IInv
  <1>. QED
    BY <1>1, Invariance, PTL

(* A landed timer is in one of the three queues from poll() to ack().      *)
THEOREM LandedIsNeverDropped == Spec => []Carried
  <1>1. IInv => Carried
    BY Zenon DEF IInv, LandedIsCarried, Carried, Said
  <1>. QED
    BY <1>1, Invariance, PTL

(* A mirrored goal closes after the hand-over (complete_timer_promise).    *)
THEOREM ClosesAfter == Spec => []GoalClosesAfterHandover
  <1>1. IInv => GoalClosesAfterHandover
    BY DEF IInv
  <1>. QED
    BY <1>1, Invariance, PTL

(* An open mirrored goal has the timer that will close it on the board     *)
(* (file_promise_candidate, TimerBoard._load).                             *)
THEOREM OpenHasTimer == Spec => []OpenGoalHasItsTimer
  <1>1. IInv => OpenGoalHasItsTimer
    <2>. SUFFICES ASSUME IInv, NEW t \in Timers, goal[t] = "open", t \in written
                  PROVE  t \in board \cup expired \cup forgotten
      BY DEF OpenGoalHasItsTimer
    <2>. QED
      BY Zenon DEF IInv, WrittenIsAccounted, OpenIsUndelivered
  <1>. QED
    BY <1>1, Invariance, PTL

-----------------------------------------------------------------------------
(* Where a timer stands, read from the five sets.                          *)
StandsAs(t, st) ==
    /\ t \in handed => st = "kept"
    /\ t \notin handed /\ t \in expired => st = "expired"
    /\ t \notin handed \cup expired /\ t \in file => st = "owed"
    /\ t \notin handed \cup expired \cup file /\ t \in board => st = "promised"
    /\ t \notin handed \cup expired \cup file \cup board /\ t \in started => st = "lost"
    /\ t \notin handed \cup expired \cup file \cup board \cup started => st = "unset"

LEMMA PromiseStep == IInv /\ IInv' /\ Grows => Promise!Next
  <1>. SUFFICES ASSUME IInv, IInv', Grows, NEW t \in Timers
                PROVE  \/ Standing'[t] = Standing[t]
                       \/ <<Standing[t], Standing'[t]>> \in Promise!Steps
    BY Zenon DEF Promise!Next
  <1>1. StandsAs(t, Standing[t]) /\ StandsAs(t, Standing[t])'
    BY SMT DEF StandsAs, Standing
  <1>2. /\ t \in file \cup board \cup handed \cup expired => t \in started
        /\ t \in expired => t \notin board
        /\ t \in file => t \in file' \cup handed' \cup expired'
    BY SMT DEF IInv, OnlySet, QueuedStands, OnFileUntilHandedOver, Grows
  <1>3. CASE t \in handed
    BY <1>1, <1>3, SMT DEF StandsAs, Grows
  <1>4. CASE t \notin handed /\ t \in expired
    BY <1>1, <1>2, <1>4, SMT DEF StandsAs, Grows
  <1>5. CASE t \notin handed \cup expired /\ t \in file
    BY <1>1, <1>2, <1>5, SMT DEF StandsAs, Grows, Promise!Steps
  <1>6. CASE t \notin handed \cup expired \cup file /\ t \in board
    BY <1>1, <1>2, <1>6, SMT DEF StandsAs, Grows, Promise!Steps
  <1>7. CASE t \notin handed \cup expired \cup file \cup board /\ t \in started
    BY <1>1, <1>7, SMT DEF StandsAs, Grows
  <1>8. CASE t \notin started
    BY <1>1, <1>2, <1>8, SMT DEF StandsAs, Grows, Promise!Steps
  <1>. QED
    BY <1>3, <1>4, <1>5, <1>6, <1>7, <1>8, Zenon

(* Board, queues, ticks and boots implement the promise of SPEC 7.5: what  *)
(* is owed is kept or, found too old, expires, and is never lost.          *)
THEOREM PromiseIsImplemented == Spec => ImplementsPromise
  <1>1. Init => Promise!Init
    BY SMT DEF Init, Standing, Promise!Init
  <1>2. IInv /\ IInv' /\ [Next]_vars => [Promise!Next]_Standing
    <2>1. IInv /\ [Next]_vars => Grows
      BY GrowthStep, Zenon DEF IInv
    <2>. QED
      BY <2>1, PromiseStep, Zenon
  <1>. QED
    BY <1>1, <1>2, Invariance, PTL DEF Spec, ImplementsPromise, Promise!Spec

-----------------------------------------------------------------------------
(* Why a line is spoken once while no tick dies, nothing is paused and     *)
(* every save succeeds.  Such a run never reads a batch twice, its file    *)
(* follows its board, and its queue holds nothing twice.                   *)
Distinct == \A i, j \in DOMAIN announce : announce[i] = announce[j] => i = j

QueuedOnce == faults = 0 => Distinct /\ Said \subseteq landed

FileFollows == faults = 0 => board \subseteq file /\ file \cap handed = {}

ReadOnce == faults = 0 =>
    /\ pc # "paused" /\ (pc \in {"starting", "asleep"} => batch = {})
    /\ \A t \in Timers : <<"timer", t>> \in inbox => <<"timer", t>> \in batch

HeardOnce == faults = 0 =>
    /\ voice \subseteq handed
    /\ \A t \in Timers : /\ spoken[t] > 0 => t \in handed \ voice
                         /\ spoken[t] < 2

(* An order of a set of landings names each of them once.                  *)
LEMMA OrderIsDistinct ==
    ASSUME NEW S \in SUBSET Timers, NEW q \in Orders(S)
    PROVE  \A i, j \in DOMAIN q : q[i] = q[j] => i = j
  <1>. DEFINE n == Cardinality(S)
  <1>1. IsFiniteSet(S) /\ n \in Nat
    BY TimerAssumption, FS_Subset, FS_CardinalityType
  <1>2. IsFiniteSet(1 .. n) /\ Cardinality(1 .. n) = n
    <2>1. Cardinality(1 .. n) = IF 1 > n THEN 0 ELSE n - 1 + 1
      BY <1>1, FS_Interval, SMT
    <2>. QED
      BY <1>1, <2>1, FS_Interval, SMT
  <1>3. q \in Surjection(1 .. n, S)
    BY Zenon DEF Orders, Surjection
  <1>4. q \in Injection(1 .. n, S)
    BY <1>2, <1>3, FS_SurjSameCardinalityImpliesInj, Zenon
  <1>. QED
    <2>1. DOMAIN q = 1 .. n
      BY Zenon DEF Orders
    <2>. QED
      BY <1>4, <2>1, Zenon DEF Injection, IsInjective

(* SENSE queues nothing twice when what it reads is not queued.            *)
LEMMA FoldIsDistinct ==
    ASSUME TypeOK, Fold, Distinct,
           \A t \in Timers : <<"timer", t>> \in inbox' => t \notin Said
    PROVE  Distinct'
  <1>. DEFINE S == TimersIn(inbox')
  <1>1. PICK q \in Orders(S) : announce' = announce \o q
    BY Zenon DEF Fold
  <1>2. S \in SUBSET Timers /\ S \cap Said = {}
    BY Zenon DEF TimersIn
  <1>3. \A i, j \in DOMAIN q : q[i] = q[j] => i = j
    BY <1>2, OrderIsDistinct, Zenon
  <1>. HIDE DEF S
  <1>4. q \in Seq(S) /\ \A i \in DOMAIN q : q[i] \in S
    <2>1. IsFiniteSet(S) /\ Cardinality(S) \in Nat
      BY <1>2, TimerAssumption, FS_Subset, FS_CardinalityType
    <2>2. q \in [1 .. Cardinality(S) -> S]
      BY Zenon DEF Orders
    <2>. QED
      BY <2>1, <2>2, SeqDef, Zenon
  <1>5. \A i \in DOMAIN announce : announce[i] \in Said
    BY Zenon DEF Said
  <1>6. announce \in Seq(Timers)
    BY Zenon DEF TypeOK
  <1>7. /\ DOMAIN announce = 1 .. Len(announce) /\ DOMAIN q = 1 .. Len(q)
        /\ Len(announce) \in Nat /\ Len(q) \in Nat
        /\ DOMAIN announce' = 1 .. Len(announce) + Len(q)
        /\ \A i \in 1 .. Len(announce) : announce'[i] = announce[i]
        /\ \A i \in 1 .. Len(announce) + Len(q) :
              i > Len(announce) => announce'[i] = q[i - Len(announce)]
    BY <1>1, <1>4, <1>6, SMT
  <1>. SUFFICES ASSUME NEW i \in DOMAIN announce', NEW j \in DOMAIN announce',
                       announce'[i] = announce'[j]
                PROVE  i = j
    BY Zenon DEF Distinct
  <1>8. ASSUME NEW k \in DOMAIN announce', k > Len(announce)
        PROVE  k - Len(announce) \in DOMAIN q /\ announce'[k] \in S
    BY <1>4, <1>7, <1>8, SMT
  <1>9. ASSUME NEW k \in DOMAIN announce', ~(k > Len(announce))
        PROVE  k \in DOMAIN announce /\ announce'[k] \in Said
    BY <1>5, <1>7, <1>9, SMT
  <1>10. CASE i > Len(announce) /\ j > Len(announce)
    <2>1. q[i - Len(announce)] = q[j - Len(announce)]
      BY <1>7, <1>10, SMT
    <2>2. i - Len(announce) = j - Len(announce)
      BY <1>3, <1>8, <1>10, <2>1, Zenon
    <2>. QED
      BY <1>7, <2>2, SMT
  <1>11. CASE ~(i > Len(announce)) /\ ~(j > Len(announce))
    BY <1>7, <1>9, <1>11, Zenon DEF Distinct
  <1>. QED
    BY <1>2, <1>8, <1>9, <1>10, <1>11, Zenon

(* What a hand-over takes off a queue that holds nothing twice.            *)
LEMMA DeliversOnce ==
    ASSUME TypeOK, AnnouncesSomething, NEW t \in Timers, Delivers(t), Distinct
    PROVE  Distinct' /\ t \notin Said'
  <1>1. announce # <<>> /\ announce \in Seq(Timers) /\ t = Head(announce)
        /\ announce' = Tail(announce)
    BY SMT DEF Delivers, AnnouncesSomething, TypeOK, Popped
  <1>2. /\ DOMAIN announce = 1 .. Len(announce) /\ Len(announce) \in Nat \ {0}
        /\ DOMAIN announce' = 1 .. Len(announce) - 1 /\ t = announce[1]
        /\ \A i \in 1 .. Len(announce) - 1 : announce'[i] = announce[i + 1]
    BY <1>1, SMT
  <1>3. Distinct'
    BY <1>2, SMT DEF Distinct
  <1>4. ASSUME NEW i \in DOMAIN announce', announce'[i] = t
        PROVE  FALSE
    BY <1>2, <1>4, SMT DEF Distinct
  <1>. QED
    BY <1>3, <1>4, Zenon DEF Said

(* What a hand-over saves, when saving succeeds.                           *)
LEMMA DeliversSaves ==
    ASSUME TypeOK, NEW t \in Timers, Delivers(t), faults' = 0
    PROVE  faults = 0 /\ (t \in landed => file' = board')
  BY Given, SMT DEF Delivers, Complete, Ack, Save, TypeOK

(* The four together.                                                      *)
Once == QueuedOnce /\ FileFollows /\ ReadOnce /\ HeardOnce

(* What names the queue only.                                              *)
LEMMA DistinctStays == UNCHANGED announce => UNCHANGED Distinct
  BY Zenon DEF Distinct

(* A tick that starts reads only what has just landed.                     *)
LEMMA OnceFold ==
    ASSUME TypeOK, DueIsNew, Once, Fold, pc' \notin {"starting", "asleep", "paused"}
    PROVE  Once'
  <1>. SUFFICES ASSUME faults' = 0
                PROVE  Once'
    BY Zenon DEF Once, QueuedOnce, FileFollows, ReadOnce, HeardOnce
  <1>1. faults = 0 /\ UNCHANGED <<file, board, landed, handed, voice, spoken>>
    BY FoldFacts, Zenon DEF countVars
  <1>2. \A t \in Timers : <<"timer", t>> \notin inbox
    <2>1. pc \in {"starting", "asleep"}
      BY FoldFacts, Zenon
    <2>2. batch = {}
      BY <1>1, <2>1, Zenon DEF Once, ReadOnce
    <2>. QED
      BY <1>1, <2>2, Zenon DEF Once, ReadOnce
  <1>3. \A t \in Timers : <<"timer", t>> \in inbox' => t \in due
    BY <1>2, FoldFacts, Zenon
  <1>4. Distinct'
    BY <1>1, <1>3, FoldIsDistinct, Zenon DEF Once, QueuedOnce, DueIsNew
  <1>5. \A s \in Said' : s \in Timers
    BY FoldFacts, SMT DEF Said
  <1>6. Said' \subseteq landed'
    <2>. SUFFICES ASSUME NEW s \in Said'
                  PROVE  s \in landed
      BY <1>1, Zenon
    <2>1. s \in Timers /\ (s \in Said \/ <<"timer", s>> \in inbox')
      BY <1>5, FoldFacts, Zenon
    <2>. QED
      BY <1>1, <1>3, <2>1, Zenon DEF Once, QueuedOnce, TypeOK
  <1>7. ReadOnce'
    BY FoldFacts, Zenon DEF ReadOnce
  <1>. QED
    BY <1>1, <1>4, <1>6, <1>7, Zenon DEF Once, QueuedOnce, FileFollows, HeardOnce

(* Without a fault no batch is read twice and nothing is queued twice.     *)
LEMMA OnceStep ==
    ASSUME TypeOK, AnnouncesSomething, DueIsNew, OnlySet, Once, [Next]_vars
    PROVE  Once'
  <1>. USE Given, SaidFacts, DistinctStays
       DEF TypeOK, AnnouncesSomething, OnlySet, Once, QueuedOnce, FileFollows,
           ReadOnce, HeardOnce, boardVars, mindVars, roomVars, countVars, history
  <1>1. ASSUME NEW t \in Timers, Elapse(t)
        PROVE  Once'
    BY <1>1, SMT DEF Elapse
  <1>2. ASSUME NEW t \in Timers, SetTimer(t)
        PROVE  Once'
    BY <1>2, SMT DEF SetTimer, Save
  <1>3. ASSUME NEW t \in Timers, TurnCommitted(t)
        PROVE  Once'
    BY <1>3, SMT DEF TurnCommitted
  <1>4. ASSUME NEW t \in Timers, HandToVoice(t)
        PROVE  Once'
    <2>1. Delivers(t) /\ voice' = {t} /\ UNCHANGED spoken
      BY <1>4, Zenon DEF HandToVoice
    <2>2. Delivered(t)
      BY <2>1, DeliversFacts, Zenon
    <2>. SUFFICES ASSUME faults' = 0
                  PROVE  Once'
      BY Zenon DEF Once
    <2>3. faults = 0 /\ (t \in landed => file' = board')
      BY <2>1, DeliversSaves, Zenon
    <2>4. Distinct' /\ t \notin Said'
      BY <2>1, <2>3, DeliversOnce, Zenon
    <2>5. t \in landed /\ t \notin handed /\ t \notin voice /\ spoken[t] = 0
      BY <2>2, <2>3, SMT DEF Delivered
    <2>6. QueuedOnce' /\ FileFollows' /\ ReadOnce'
      BY <2>2, <2>3, <2>4, <2>5, SMT DEF Delivered
    <2>7. HeardOnce'
      BY <2>1, <2>2, <2>3, <2>5, SMT DEF Delivered, Hear
    <2>. QED
      BY <2>6, <2>7, Zenon
  <1>5. ASSUME NEW t \in Timers, PostLine(t)
        PROVE  Once'
    <2>1. Delivers(t) /\ UNCHANGED voice /\ Hear(t)
      BY <1>5, Zenon DEF PostLine
    <2>2. Delivered(t)
      BY <2>1, DeliversFacts, Zenon
    <2>. SUFFICES ASSUME faults' = 0
                  PROVE  Once'
      BY Zenon DEF Once
    <2>3. faults = 0 /\ (t \in landed => file' = board')
      BY <2>1, DeliversSaves, Zenon
    <2>4. Distinct' /\ t \notin Said'
      BY <2>1, <2>3, DeliversOnce, Zenon
    <2>5. t \in landed /\ t \notin handed /\ t \notin voice /\ spoken[t] = 0
      BY <2>2, <2>3, SMT DEF Delivered
    <2>6. QueuedOnce' /\ FileFollows' /\ ReadOnce'
      BY <2>2, <2>3, <2>4, <2>5, SMT DEF Delivered
    <2>7. HeardOnce'
      BY <2>1, <2>2, <2>3, <2>5, SMT DEF Delivered, Hear
    <2>. QED
      BY <2>6, <2>7, Zenon
  <1>6. ASSUME NEW t \in Timers, VoiceSays(t)
        PROVE  Once'
    BY <1>6, SMT DEF VoiceSays, Hear, VoiceEnds
  <1>7. ASSUME NEW t \in Timers, VoiceFails(t)
        PROVE  Once'
    BY <1>7, SMT DEF VoiceFails, VoiceEnds
  <1>8. CASE Settle
    BY <1>8, SMT DEF Settle
  <1>9. CASE Poll
    BY <1>9, SMT DEF Poll, Ready
  <1>10. CASE AnnounceTick
    <2>1. Fold /\ pc' \notin {"starting", "asleep", "paused"}
      BY <1>10, Zenon DEF AnnounceTick
    <2>. QED
      BY <2>1, OnceFold, Zenon
  <1>11. CASE ReviewTick
    <2>1. Fold /\ pc' \notin {"starting", "asleep", "paused"}
      BY <1>11, Zenon DEF ReviewTick
    <2>. QED
      BY <2>1, OnceFold, Zenon
  <1>12. CASE OtherTick
    <2>1. Fold /\ pc' \notin {"starting", "asleep", "paused"}
      BY <1>12, Zenon DEF OtherTick
    <2>. QED
      BY <2>1, OnceFold, Zenon
  <1>13. CASE ComposeFails
    BY <1>13, SMT DEF ComposeFails, StillQueued
  <1>14. CASE ReviewFiles
    BY <1>14, SMT DEF ReviewFiles, ReviewEnds
  <1>15. CASE ReviewFindsNone
    BY <1>15, SMT DEF ReviewFindsNone, ReviewEnds
  <1>16. CASE ReviewFails
    BY <1>16, SMT DEF ReviewFails, ReviewEnds
  <1>17. CASE Commit
    BY <1>17, SMT DEF Commit
  <1>18. CASE PersistNow
    BY <1>18, SMT DEF PersistNow
  <1>19. CASE TickDies
    BY <1>19, SMT DEF TickDies
  <1>20. CASE Pause
    BY <1>20, SMT DEF Pause
  <1>21. CASE Resume
    BY <1>21, SMT DEF Resume
  <1>22. CASE Crash
    BY <1>22, SMT DEF Crash, Loaded, Distinct
  <1>23. CASE UNCHANGED vars
    BY <1>23, SMT DEF vars
  <1>. QED
    BY <1>1, <1>2, <1>3, <1>4, <1>5, <1>6, <1>7, <1>8, <1>9, <1>10, <1>11, <1>12, <1>13,
       <1>14, <1>15, <1>16, <1>17, <1>18, <1>19, <1>20, <1>21, <1>22, <1>23,
       Zenon DEF Next

(* A line is repeated only for a dead, paused or unsaved tick, whatever    *)
(* the number of restarts (TimerBoard.ack, MindLoop._announce_pending).    *)
THEOREM RepeatedForAReason == Spec => []RepeatedOnlyAfterFault
  <1>1. Init => Once
    BY SMT DEF Init, Once, QueuedOnce, FileFollows, ReadOnce, HeardOnce, Distinct, Said
  <1>2. IInv /\ Once /\ [Next]_vars => Once'
    BY OnceStep, Zenon DEF IInv
  <1>3. IInv /\ Once => RepeatedOnlyAfterFault
    BY SMT DEF IInv, TypeOK, Once, HeardOnce, RepeatedOnlyAfterFault
  <1>. QED
    BY <1>1, <1>2, <1>3, Invariance, PTL DEF Spec
=============================================================================
