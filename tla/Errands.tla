------------------------------- MODULE Errands -------------------------------
(***************************************************************************)
(* The goals of the mind and what carries a product to the person (SPEC    *)
(* 16, 18.2a, 18.2b, 22): a task is worked in steps, starts renders it     *)
(* does not await, queues messages it waits on, hands its picture to a     *)
(* reach-out errand on the way out, and Gate 2 delivers, or the            *)
(* conversation shows the picture itself (mind/acts.py, mind/goalwork.py,  *)
(* mind/goals.py, mind/loop.py, world/brain.py, world/selfies.py).         *)
(*                                                                         *)
(* One task, and whatever goals come of it.  A goal's id is its line in    *)
(* goals.md.  Words, scores, cooldowns and times are left out: any goal a  *)
(* tick may act on may be chosen, any wakeup may be due, an open-minded    *)
(* goal may be stale, and Gate 2 may rule either way.                      *)
(***************************************************************************)
EXTENDS Integers, Sequences, FiniteSets

CONSTANTS
    Pictures,       \* the pictures that may be taken, one render each
    NoPicture,
    MaxGoals,       \* bound on the lines of goals.md
    MaxLetGo,       \* bound on the goals the owner lets go of
    MaxMishaps,     \* bound on dead ticks, pauses and restarts together
    Overlap,        \* whether the conversation acts while a tick awaits
    ActsFail        \* whether a model call inside an act may raise

ASSUME ErrandsAssumption ==
    /\ IsFiniteSet(Pictures) /\ NoPicture \notin Pictures
    /\ MaxGoals \in Nat \ {0}
    /\ MaxLetGo \in Nat /\ MaxMishaps \in Nat
    /\ Overlap \in BOOLEAN /\ ActsFail \in BOOLEAN

VARIABLES
    goals,          \* goals.md, durable at every write
    wakeups,        \* MindLoop.wakeups: the goals with a wake scheduled
    disk,           \* wakeups in engine.json
    inbox,          \* the signals no committed tick has read, oldest first
    taken,          \* how many of them the tick in flight has read
    renders,        \* the lab's tasks
    asked,          \* the pictures some render was ever started for
    gallery,        \* the mind's pictures on the shelf
    pc,             \* where the tick loop is
    cur,            \* the goal the act in flight is about
    copy,           \* the Goal object that act holds
    letGo, mishaps

(* History: how often each picture was posted (up to 2); the goals whose   *)
(* wakeup a crash took; the pictures the code leaves on the shelf, to be   *)
(* shown from there or never (replaced on their goal, landed on a goal     *)
(* that had handed one on before, held by one that closed when its message *)
(* was delivered, or lost from the queue by a crash); and those posted by  *)
(* an act that never ended, shown while an act held them or before their   *)
(* completion was read, or read in a batch twice.                          *)
VARIABLES sent, cut, shelved, muddled

mind == <<goals, wakeups, shelved>>
queue == <<inbox, taken>>
labVars == <<renders, asked, gallery>>
act == <<pc, cur, copy>>
counts == <<letGo, mishaps>>
history == <<sent, cut, muddled>>
errandVars == <<mind, disk, queue, labVars, act, counts, history>>

OpenStates == {"pending", "active", "waiting"}

Goal == [origin : {"promise", "filed", "told", "followup", "stray"},
         of : (0 .. MaxGoals) \cup Pictures,
         commitment : {"single-minded", "open-minded", "blind"},
         state : OpenStates \cup {"done", "abandoned"},
         picture : Pictures \cup {NoPicture},    \* Goal.product
         shown : BOOLEAN,                        \* product.deliver is chat
         offered : BOOLEAN,                      \* meta.offered
         telling : 0 .. MaxGoals,                \* meta.telling.goal
         completes : BOOLEAN]                    \* meta.telling.completes

NewGoal(origin, of, commitment, p) ==
    [origin |-> origin, of |-> of, commitment |-> commitment,
     state |-> "pending", picture |-> p, shown |-> FALSE, offered |-> FALSE,
     telling |-> 0, completes |-> FALSE]

(* followup:<goal>, or followup:<render> for a stray picture.             *)
IsFollowUp(goal) == goal.origin \in {"followup", "stray"}
IsTask(goal) == goal.origin \in {"promise", "filed"}
Undelivered(goal) == goal.picture # NoPicture /\ ~goal.shown

-----------------------------------------------------------------------------
(* The mind's bookkeeping, as operators on m: its goals and its wakeups,   *)
(* and the history of its pictures.                                        *)
Mind == [goals |-> goals, wakeups |-> wakeups, shelved |-> shelved]
Becomes(m) == /\ Len(m.goals) <= MaxGoals
              /\ goals' = m.goals
              /\ wakeups' = m.wakeups
              /\ shelved' = m.shelved

Open(m, g) == g \in DOMAIN m.goals /\ m.goals[g].state \in OpenStates
Written(m, g, goal) == [m EXCEPT !.goals = [@ EXCEPT ![g] = goal]]
Moved(m, g, s) == Written(m, g, [m.goals[g] EXCEPT !.state = s])
Asleep(m, g) == [m EXCEPT !.wakeups = @ \ {g}]
WokenLater(m, g) == [m EXCEPT !.wakeups = @ \cup {g}]

(* GoalStore.add of a goal that names its parent: one open per parent.     *)
Carrying(m, goal) == {g \in DOMAIN m.goals : /\ Open(m, g)
                                             /\ m.goals[g].origin = goal.origin
                                             /\ m.goals[g].of = goal.of}
Added(m, goal) == IF Carrying(m, goal) # {} THEN m
                  ELSE [m EXCEPT !.goals = Append(@, goal)]

(* offer_the_picture(goal), goal being the copy the caller holds of g.     *)
OfferedNever(m, g, goal) == m
OfferThePicture(m, g, goal) ==
    IF ~Undelivered(goal) \/ goal.offered THEN m
    ELSE LET n == Added(m, NewGoal("followup", g, "single-minded", goal.picture))
         IN  Written(n, g, [n.goals[g] EXCEPT !.offered = TRUE])

(* offer_to_tell: the picture, or the news that a promise is kept.         *)
OfferToTell(m, g, goal) ==
    IF goal.picture # NoPicture THEN OfferThePicture(m, g, goal)
    ELSE IF goal.origin = "promise"
         THEN Added(m, NewGoal("followup", g, "open-minded", NoPicture))
         ELSE m

(* picture_shown: on every goal holding p, and its open follow-ups done.   *)
Seen(goal, p) ==
    IF goal.picture # p THEN goal
    ELSE [goal EXCEPT !.shown = TRUE,
                      !.state = IF IsFollowUp(goal) /\ goal.state \in OpenStates
                                THEN "done" ELSE @]
PictureShown(m, p) ==
    IF p = NoPicture THEN m
    ELSE [m EXCEPT !.goals = [g \in DOMAIN m.goals |-> Seen(m.goals[g], p)]]

(* telling_for and settle_telling: the parent still waiting on message t.  *)
Awaited(m, t) == /\ m.goals[t].origin = "told"
                 /\ Open(m, m.goals[t].of)
                 /\ m.goals[m.goals[t].of].telling = t

ResumeAfterTelling(m, g, delivered) ==
    LET goal == m.goals[g]
        kept == delivered /\ goal.completes
        n == Written(m, g, [goal EXCEPT !.state = IF kept THEN "done" ELSE "active",
                                        !.telling = 0,
                                        !.completes = FALSE])
    IN  IF kept THEN [n EXCEPT !.shelved = @ \cup ({goal.picture} \ {NoPicture})]
        ELSE n

SettleTelling(m, t, delivered) ==
    IF Awaited(m, t) THEN ResumeAfterTelling(m, m.goals[t].of, delivered) ELSE m

-----------------------------------------------------------------------------
(* SENSE's handlers.  wake_goal:                                           *)
WakeGoal(m, g) ==
    IF ~Open(m, g) \/ m.goals[g].state # "waiting" THEN m
    ELSE IF m.goals[g].telling # 0 /\ Open(m, m.goals[g].telling) THEN m
    ELSE Moved(m, g, "active")

(* adopt_stray_picture: only the mind's, and only one not in the chat yet. *)
AdoptStrayPicture(m, sig) ==
    IF sig.picture = NoPicture \/ sig.chat THEN m
    ELSE Added(m, NewGoal("stray", sig.picture, "single-minded", sig.picture))

(* land_dispatched: the goal waiting on the render is active again.        *)
Holding(m, g, sig) ==
    LET goal == m.goals[g]
        left == {goal.picture} \cup (IF goal.offered THEN {sig.picture} ELSE {})
    IN  IF sig.picture = NoPicture THEN m
        ELSE [Written(m, g, [goal EXCEPT !.picture = sig.picture, !.shown = sig.chat])
                 EXCEPT !.shelved = @ \cup (left \ {NoPicture})]
LandedAnyhow(m, sig) ==
    IF sig.goal \in DOMAIN m.goals
    THEN Asleep(Holding(Moved(m, sig.goal, "active"), sig.goal, sig), sig.goal)
    ELSE AdoptStrayPicture(m, sig)
LandDispatched(m, sig) ==
    IF ~Open(m, sig.goal) THEN AdoptStrayPicture(m, sig)
    ELSE IF sig.completes /\ sig.picture # NoPicture
    THEN Asleep(Holding(Moved(m, sig.goal, "done"), sig.goal, sig), sig.goal)
    ELSE IF m.goals[sig.goal].state # "waiting" THEN AdoptStrayPicture(m, sig)
    ELSE Asleep(Holding(Moved(m, sig.goal, "active"), sig.goal, sig), sig.goal)

(* goal_decision: the owner lets a goal go.                                *)
LetGoOf(m, g) ==
    IF ~Open(m, g) THEN m
    ELSE LET offer == OfferThePicture(m, g, m.goals[g])
         IN  SettleTelling(Asleep(Moved(offer, g, "abandoned"), g), g, FALSE)

Folded(m, sig) == CASE sig.type = "wakeup" -> WakeGoal(m, sig.goal)
                    [] sig.type = "task_completion" -> LandDispatched(m, sig)
                    [] sig.type = "goal_decision" -> LetGoOf(m, sig.goal)
FoldedIn(m, batch) ==
    LET after[i \in 0 .. Len(batch)] ==
            IF i = 0 THEN m ELSE Folded(after[i - 1], batch[i])
    IN  after[Len(batch)]

(* reconsider and rescue_pictures (the day's rollover, a suspend gap).     *)
Sweepable(m) == {g \in DOMAIN m.goals :
                    /\ m.goals[g].state \in {"pending", "waiting"}
                    /\ m.goals[g].commitment = "open-minded"}
Dropped(m, stale) ==
    [m EXCEPT !.goals = [g \in DOMAIN m.goals |->
                            IF g \in stale
                            THEN [m.goals[g] EXCEPT !.state = "abandoned"]
                            ELSE m.goals[g]]]
Rescue(m, g, stale) == IF g \in stale THEN OfferThePicture(m, g, m.goals[g]) ELSE m
Rescued(m, stale) ==
    LET after[g \in 0 .. Len(m.goals)] ==
            IF g = 0 THEN m ELSE Rescue(after[g - 1], g, stale)
    IN  after[Len(m.goals)]
Reconsidered(m, stale) == Rescued(Dropped(m, stale), stale)

(* settle_strays: a message nobody waits on is let go; a goal waiting on a *)
(* message no longer open is resumed.                                      *)
SettleStray(m, g) ==
    IF ~Open(m, g) THEN m
    ELSE IF m.goals[g].origin = "told"
    THEN IF Awaited(m, g) THEN m
         ELSE Asleep(Moved(OfferThePicture(m, g, m.goals[g]), g, "abandoned"), g)
    ELSE IF /\ m.goals[g].state = "waiting"
            /\ m.goals[g].telling # 0
            /\ ~Open(m, m.goals[g].telling)
    THEN ResumeAfterTelling(m, g, FALSE)
    ELSE m
SettleNothing(m) == m
SettleStrays(m) ==
    LET after[g \in 0 .. Len(m.goals)] ==
            IF g = 0 THEN m ELSE SettleStray(after[g - 1], g)
    IN  after[Len(m.goals)]

-----------------------------------------------------------------------------
ErrandsInit ==
        /\ \E origin \in {"promise", "filed"} :
              goals = <<NewGoal(origin, 0, IF origin = "promise" THEN "single-minded"
                                          ELSE "open-minded", NoPicture)>>
        /\ wakeups = {} /\ disk = {}
        /\ inbox = <<>> /\ taken = 0
        /\ renders = {} /\ asked = {} /\ gallery = {}
        /\ pc = "asleep" /\ cur = 0 /\ copy = <<>>
        /\ letGo = 0 /\ mishaps = 0
        /\ sent = [p \in Pictures |-> 0]
        /\ cut = {} /\ shelved = {} /\ muddled = {}

(* The completed pictures in the queue no tick has folded in.              *)
UnreadPictures == {inbox[i].picture : i \in {j \in taken + 1 .. Len(inbox) :
                                                inbox[j].type = "task_completion"}}

Signal(type, g) == [type |-> type, goal |-> g]
Awaiting == pc \in {"working", "suggesting", "speaking"}

(* SENSE: due wakes become signals in the order they fell due, the whole   *)
(* queue is folded in (with a suspend gap's sweep ahead of the new wakes), *)
(* and the rollover's sweep and settle_strays follow before anything acts. *)
Sense ==
    /\ pc = "asleep"
    /\ \E due \in SUBSET wakeups : \E order \in [1 .. Cardinality(due) -> due] :
          LET woken == [i \in 1 .. Cardinality(due) |-> Signal("wakeup", order[i])]
              queued == FoldedIn([Mind EXCEPT !.wakeups = @ \ due], inbox)
          IN  /\ \A g \in due : \E i \in 1 .. Cardinality(due) : order[i] = g
              /\ inbox' = inbox \o woken
              /\ taken' = Len(inbox')
              /\ \E gap \in SUBSET Sweepable(queued) :
                    LET sensed == FoldedIn(Reconsidered(queued, gap), woken)
                    IN  \E stale \in SUBSET Sweepable(sensed) :
                           Becomes(SettleStrays(Reconsidered(sensed, stale)))
    /\ pc' = "deciding"
    /\ UNCHANGED <<disk, labVars, cur, copy, counts, history>>

(* Everyone but the tick itself acts between its awaits.                   *)
Elsewhere == pc # "deciding"

-----------------------------------------------------------------------------
(* ACT: one goal not waiting is acted on, or none.                         *)
Workable(g) == /\ pc = "deciding"
               /\ Open(Mind, g)
               /\ goals[g].state # "waiting"

Begin(g, where) == /\ pc' = where
                   /\ cur' = g
                   /\ copy' = goals'[g]
End == /\ pc' = "reflecting"
       /\ cur' = 0
       /\ copy' = <<>>

Rest == /\ pc = "deciding"
        /\ End
        /\ UNCHANGED <<mind, disk, queue, labVars, counts, history>>

(* goal_work, up to the model call it awaits.                              *)
StartWork(g) == /\ Workable(g)
                /\ IsTask(goals[g])
                /\ Becomes(Moved(Mind, g, "active"))
                /\ Begin(g, "working")
                /\ UNCHANGED <<disk, queue, labVars, counts, history>>

(* goal_work, from the step's end: what it says of goals goes by its copy  *)
(* of the goal, and the state it ends in is written whatever came between. *)
WorkEnds(m) == /\ pc = "working"
               /\ Becomes(m)
               /\ End
               /\ UNCHANGED <<disk, queue, gallery, counts, history>>

Continue == /\ WorkEnds(Moved(Mind, cur, "active"))
            /\ UNCHANGED <<renders, asked>>

Finish == /\ WorkEnds(Moved(OfferToTell(Mind, cur, copy), cur, "done"))
          /\ UNCHANGED <<renders, asked>>

ParkedForGood(m, g) == Moved(m, g, "waiting")
Parked(m, g) == WokenLater(Moved(m, g, "waiting"), g)

ParkAtHorizon == /\ WorkEnds(Parked(OfferThePicture(Mind, cur, copy), cur))
                 /\ UNCHANGED <<renders, asked>>

AbandonAtHorizon ==
    /\ pc = "working" /\ copy.commitment = "open-minded"
    /\ WorkEnds(Moved(OfferThePicture(Mind, cur, copy), cur, "abandoned"))
    /\ UNCHANGED <<renders, asked>>

(* A hand that starts a render: the lab has it, and the goal waits.        *)
Render(p, g, chat, completes) ==
    [picture |-> p, goal |-> g, chat |-> chat, completes |-> completes]
Starts(r) == /\ r.picture \notin asked
             /\ asked' = asked \cup {r.picture}
             /\ renders' = renders \cup {r}

Dispatch(p) == /\ WorkEnds(Parked(Mind, cur))
               /\ Starts(Render(p, cur, FALSE, FALSE))

(* queue_telling, and the step that ends on it.                            *)
Told(m, g) ==
    LET n == Added(m, NewGoal("told", g, "blind", NoPicture))
        t == CHOOSE x \in Carrying(n, [origin |-> "told", of |-> g]) : TRUE
        parent == m.goals[g]
    IN  IF Undelivered(parent) /\ ~parent.offered
        THEN [id |-> t,
              mind |-> Written(Written(n, t, [n.goals[t] EXCEPT !.picture = parent.picture,
                                                                !.shown = FALSE]),
                               g, [parent EXCEPT !.offered = TRUE])]
        ELSE [id |-> t, mind |-> n]

Tell(completes) ==
    /\ LET told == Told(Mind, cur)
       IN  WorkEnds(Written(told.mind, cur,
                            [told.mind.goals[cur] EXCEPT !.state = "waiting",
                                                         !.telling = told.id,
                                                         !.completes = completes]))
    /\ UNCHANGED <<renders, asked>>

(* A model call raises out of the act: ACT notes it, and the tick goes on. *)
ActFails == /\ ActsFail
            /\ Awaiting
            /\ muddled' = IF pc = "speaking" THEN muddled \cup {copy.picture} ELSE muddled
            /\ End
            /\ UNCHANGED <<mind, disk, queue, labVars, counts, sent, cut>>

(* A night job, or free time, points the camera with no goal behind it.    *)
ShootForNoGoal(p) == /\ pc = "deciding"
                     /\ Starts(Render(p, 0, FALSE, FALSE))
                     /\ End
                     /\ UNCHANGED <<mind, disk, queue, gallery, counts, history>>

-----------------------------------------------------------------------------
(* reach_out.  Gate 2 rules on an errand that is not waiting.              *)
Errand(g) == Workable(g) /\ ~IsTask(goals[g])
Decided(g) == goals[g].origin = "told"

Held(m) == /\ Becomes(m)
           /\ End
           /\ UNCHANGED <<disk, queue, labVars, counts, history>>

HoldUntilTheGateOpens(g) == Errand(g) /\ Held(Parked(Mind, g))
HoldBelowThreshold(g) == Errand(g) /\ ~Decided(g) /\ Held(Mind)
LetGoQuietly(g) == /\ Errand(g)
                   /\ goals[g].commitment = "open-minded"
                   /\ goals[g].picture = NoPicture
                   /\ Held(Moved(Mind, g, "abandoned"))

Posts(p) == sent' = [sent EXCEPT ![p] = IF @ = 2 THEN 2 ELSE @ + 1]
PostsWhatItHolds(goal) == IF goal.picture = NoPicture THEN UNCHANGED sent
                          ELSE Posts(goal.picture)

Delivered(m, g, p) == PictureShown(Moved(m, g, "done"), p)

(* SUGGEST, decided words: posted as they are, with the picture riding.    *)
DeliverWords(g) ==
    /\ Errand(g) /\ Decided(g)
    /\ PostsWhatItHolds(goals[g])
    /\ Becomes(SettleTelling(Delivered(Mind, g, goals[g].picture), g, TRUE))
    /\ End
    /\ UNCHANGED <<disk, queue, labVars, counts, cut, muddled>>

(* SUGGEST: the line is composed first, and posted with the picture.       *)
StartSuggest(g) == /\ Errand(g) /\ ~Decided(g)
                   /\ Becomes(Mind)
                   /\ Begin(g, "suggesting")
                   /\ UNCHANGED <<disk, queue, labVars, counts, history>>

Suggest == /\ pc = "suggesting"
           /\ PostsWhatItHolds(copy)
           /\ Becomes(Delivered(Mind, cur, copy.picture))
           /\ End
           /\ UNCHANGED <<disk, queue, labVars, counts, cut, muddled>>

(* SPEAK: the picture is posted first, then the line is spoken or composed.*)
StartSpeak(g) == /\ Errand(g) /\ ~Decided(g)
                 /\ Becomes(Mind)
                 /\ PostsWhatItHolds(goals[g])
                 /\ Begin(g, "speaking")
                 /\ UNCHANGED <<disk, queue, labVars, counts, cut, muddled>>

Speak == /\ pc = "speaking"
         /\ Becomes(Delivered(Mind, cur, copy.picture))
         /\ End
         /\ UNCHANGED <<disk, queue, labVars, counts, history>>

(* Either way, no words and no picture is nothing delivered.               *)
NoWords == /\ pc \in {"suggesting", "speaking"}
           /\ copy.picture = NoPicture
           /\ Held(Mind)

-----------------------------------------------------------------------------
(* The lab: a render ends, well or not, and posts its completion.  One the *)
(* conversation asked for is in the chat by then.                          *)
RenderLands(r) ==
    /\ Elsewhere
    /\ r \in renders
    /\ renders' = renders \ {r}
    /\ inbox' = Append(inbox, [type |-> "task_completion", goal |-> r.goal,
                               picture |-> r.picture, chat |-> r.chat,
                               completes |-> r.completes])
    /\ IF r.chat THEN Posts(r.picture) /\ UNCHANGED gallery
                 ELSE gallery' = gallery \cup {r.picture} /\ UNCHANGED sent
    /\ UNCHANGED <<mind, disk, taken, asked, act, counts, cut, muddled>>

RenderFails(r) ==
    /\ Elsewhere
    /\ r \in renders
    /\ renders' = renders \ {r}
    /\ inbox' = Append(inbox, [type |-> "task_completion", goal |-> r.goal,
                               picture |-> NoPicture, chat |-> r.chat,
                               completes |-> r.completes])
    /\ UNCHANGED <<mind, disk, taken, asked, gallery, act, counts, history>>

(* The conversation: she takes a picture in a reply, for a goal or none.   *)
InConversation == Elsewhere /\ (Overlap \/ ~Awaiting)

ChatTakesPicture(p, g, completes) ==
    /\ InConversation
    /\ g = 0 \/ Open(Mind, g)
    /\ completes => g # 0
    /\ Starts(Render(p, g, TRUE, completes))
    /\ UNCHANGED <<mind, disk, queue, gallery, act, counts, history>>

(* show_held_picture, by the goal that holds it or by the picture.         *)
Shows(m, p) == /\ InConversation
               /\ Posts(p)
               /\ Becomes(PictureShown(m, p))
               /\ muddled' = IF (Awaiting /\ copy.picture = p) \/ p \in UnreadPictures
                             THEN muddled \cup {p} ELSE muddled
               /\ UNCHANGED <<disk, queue, labVars, act, counts, cut>>

ShowHeldPicture(g) == /\ Open(Mind, g)
                      /\ Undelivered(goals[g])
                      /\ Shows(Moved(Mind, g, "done"), goals[g].picture)

ShowUnsent(p) == /\ p \in gallery
                 /\ sent[p] = 0
                 /\ Shows(Mind, p)

(* The owner lets a goal go from its page.                                 *)
LetGo(g) == /\ Elsewhere
            /\ letGo < MaxLetGo
            /\ Open(Mind, g)
            /\ letGo' = letGo + 1
            /\ inbox' = Append(inbox, Signal("goal_decision", g))
            /\ UNCHANGED <<mind, disk, taken, labVars, act, mishaps, history>>

-----------------------------------------------------------------------------
(* REGULATE: wakeups to engine.json, and the batch is read.                *)
CommitKeepingTaken == /\ pc = "reflecting"
                      /\ pc' = "asleep"
                      /\ disk' = wakeups
                      /\ inbox' = SubSeq(inbox, taken + 1, Len(inbox))
                      /\ UNCHANGED <<mind, labVars, taken, cur, copy, counts, history>>
Commit == /\ pc = "reflecting"
          /\ pc' = "asleep"
          /\ disk' = wakeups
          /\ inbox' = SubSeq(inbox, taken + 1, Len(inbox))
          /\ taken' = 0
          /\ UNCHANGED <<mind, labVars, cur, copy, counts, history>>

(* A handed document opened in conversation persists at once.              *)
PersistNow == /\ Elsewhere
              /\ disk' = wakeups
              /\ UNCHANGED <<mind, queue, labVars, act, counts, history>>

(* The batch of a tick that does not commit will be folded in again.       *)
ReadAgain == {inbox[i].picture : i \in {j \in 1 .. taken :
                                            inbox[j].type = "task_completion"}}
Mishap == mishaps < MaxMishaps /\ mishaps' = mishaps + 1

Lost == /\ Mishap
        /\ taken' = 0
        /\ cur' = 0 /\ copy' = <<>>
        /\ muddled' = muddled \cup ReadAgain
                              \cup (IF pc = "speaking" THEN {copy.picture} ELSE {})
        /\ UNCHANGED <<mind, disk, inbox, labVars, letGo, sent, cut>>

(* The journal cannot be written: the tick dies.                           *)
TickDies == pc = "reflecting" /\ pc' = "asleep" /\ Lost

(* set_mind_enabled(False) cancels the tick where it awaits; (True) runs   *)
(* the loop again.                                                         *)
Pause == pc \notin {"deciding", "paused"} /\ pc' = "paused" /\ Lost

Resume == /\ pc = "paused"
          /\ pc' = "asleep"
          /\ UNCHANGED <<mind, disk, queue, labVars, cur, copy, counts,
                         history>>

(* The process dies: the queue, the lab's tasks and every wakeup not in    *)
(* engine.json are gone; goals.md, the gallery and the chat are not.       *)
Crash == /\ Elsewhere
         /\ Mishap
         /\ wakeups' = disk
         /\ cut' = cut \cup {g \in wakeups \ disk : goals[g].state = "waiting"}
         /\ shelved' = shelved \cup (UnreadPictures \ {NoPicture})
         /\ muddled' = IF pc = "speaking" THEN muddled \cup {copy.picture} ELSE muddled
         /\ inbox' = <<>> /\ taken' = 0
         /\ renders' = {}
         /\ pc' = "asleep" /\ cur' = 0 /\ copy' = <<>>
         /\ UNCHANGED <<goals, disk, asked, gallery, letGo, sent>>

ErrandsNext ==
        \/ Sense \/ Rest
        \/ \E g \in DOMAIN goals :
              \/ StartWork(g)
              \/ HoldUntilTheGateOpens(g) \/ HoldBelowThreshold(g) \/ LetGoQuietly(g)
              \/ DeliverWords(g) \/ StartSuggest(g) \/ StartSpeak(g)
              \/ ShowHeldPicture(g) \/ LetGo(g)
        \/ Continue \/ Finish \/ ParkAtHorizon \/ AbandonAtHorizon
        \/ \E completes \in BOOLEAN : Tell(completes)
        \/ Suggest \/ Speak \/ NoWords \/ ActFails
        \/ \E p \in Pictures :
              \/ Dispatch(p) \/ ShootForNoGoal(p) \/ ShowUnsent(p)
              \/ \E g \in 0 .. Len(goals), completes \in BOOLEAN :
                    ChatTakesPicture(p, g, completes)
        \/ \E r \in renders : RenderLands(r) \/ RenderFails(r)
        \/ Commit \/ PersistNow \/ TickDies \/ Pause \/ Resume \/ Crash

ErrandsSpec == ErrandsInit /\ [][ErrandsNext]_errandVars

-----------------------------------------------------------------------------
(* The types, and that a tick holds a goal's copy exactly while it awaits. *)
ErrandsTypeOK ==
    /\ goals \in Seq(Goal) /\ Len(goals) \in 1 .. MaxGoals
    /\ wakeups \subseteq DOMAIN goals /\ disk \subseteq DOMAIN goals
    /\ taken \in 0 .. Len(inbox)
    /\ pc \in {"asleep", "deciding", "working", "suggesting", "speaking",
               "reflecting", "paused"}
    /\ IF Awaiting THEN cur \in DOMAIN goals /\ copy \in Goal
                   ELSE cur = 0 /\ copy = <<>>
    /\ gallery \subseteq asked /\ asked \subseteq Pictures
    /\ \A r \in renders : r.picture \notin gallery /\ r.goal \in 0 .. Len(goals)
    /\ sent \in [Pictures -> 0 .. 2]
    /\ letGo \in 0 .. MaxLetGo
    /\ mishaps \in 0 .. MaxMishaps

(* wake_goal: a goal invisible to every gate is worse than one that failed.*)
(* A waiting goal has a wakeup, whatever else may bring it back sooner (a  *)
(* render, its completion), or waits for a message; only a crash takes the *)
(* wakeup, when it comes before engine.json has it.                        *)
WaitingHasAWayBack ==
    \A g \in DOMAIN goals :
        goals[g].state = "waiting" => g \in wakeups \cup cut \/ goals[g].telling # 0

HandedOn(p) == \E g \in DOMAIN goals : Open(Mind, g) /\ goals[g].picture = p

(* Every picture of the mind's that was never posted is somebody's to      *)
(* send: its completion is unread, or an open goal holds it, or it is one  *)
(* of those the code leaves on the shelf.                                  *)
NoPictureStranded ==
    \A p \in gallery : sent[p] = 0 =>
        p \in UnreadPictures \/ HandedOn(p) \/ p \in shelved

(* picture_shown: no errand stays open for one of hers already in the chat,*)
(* whichever door delivered it and whoever else held it, unless an act, a  *)
(* batch read twice or an unread completion came between.                  *)
NoErrandForASeenPicture ==
    \A g \in DOMAIN goals :
        LET p == goals[g].picture
        IN  /\ Open(Mind, g)
            /\ IsFollowUp(goals[g])
            /\ p \in gallery
            => \/ sent[p] = 0
               \/ p \in muddled
               \/ pc = "speaking" /\ copy.picture = p

(* SPEC 18.2b: decided words go out only while the goal they came from is  *)
(* still waiting on them, whatever the rollover, the owner or the lab did  *)
(* to that goal since.                                                     *)
WordsAreStillAwaited ==
    [][\A g \in DOMAIN goals : DeliverWords(g) => Awaited(Mind, g)]_errandVars

(* A goal once done or let go of comes back only through the step that was *)
(* working on it: no wakeup, no late completion, no ended message.         *)
ClosedStaysClosed ==
    [][\A g \in DOMAIN goals :
          goals[g].state \notin OpenStates /\ goals'[g].state \in OpenStates
              => pc = "working" /\ cur = g]_errandVars

-----------------------------------------------------------------------------
(* SPEC 18.2a: a delivery through either door reaches every holder, so the *)
(* same picture is not sent again.                                         *)
SentAtMostOnce == \A p \in Pictures : sent[p] <= 1

(* SPEC 18.2a: however a goal ends, one holding an undelivered picture     *)
(* hands it on.                                                            *)
EveryHolderHandsOn ==
    \A g \in DOMAIN goals :
        ~Open(Mind, g) /\ Undelivered(goals[g]) /\ sent[goals[g].picture] = 0
            => HandedOn(goals[g].picture)

(* SPEC 18.2b: the goal a message came from is not done before the message *)
(* is delivered.                                                           *)
NotDoneBeforeDelivered ==
    [][Finish => goals[cur].telling = 0 \/ ~Open(Mind, goals[cur].telling)]_errandVars
=============================================================================
