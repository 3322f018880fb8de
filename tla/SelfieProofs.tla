---------------------------- MODULE SelfieProofs ----------------------------
(***************************************************************************)
(* A selfie, from the goal that wants it to the card that renders it: the  *)
(* safety properties of Errands, for any number of pictures and goals, and *)
(* of WarmCard, for every set of labs, backends and shots.                 *)
(*                                                                         *)
(* Errands: what holds of goals.md between any two of its rewrites (Sound, *)
(* with the goals being closed left out) is shown of every operator that   *)
(* rewrites it, together with what the operator leaves alone (Keeps, Calms,*)
(* Stills).  The passes over a batch, over what is stale and over the lines*)
(* go by the least number for which the claim would fail.  The invariant   *)
(* then adds the queue, the lab, the act in flight and the disk.           *)
(*                                                                         *)
(* WarmCard: the render lock has one holder, and a pipeline is the slot's, *)
(* or is being ousted by who took the slot, or had its slot freed by a     *)
(* stray release.                                                          *)
(***************************************************************************)
EXTENDS Errands, WarmCard, FiniteSetTheorems, SequenceTheorems, WellFoundedInduction, TLAPS

-----------------------------------------------------------------------------
(* A line of goals.md without the bound on the number of lines.            *)
Origins == {"promise", "filed", "told", "followup", "stray"}
Shut == {"done", "abandoned"}
Parts == {"origin", "of", "commitment", "state", "picture", "shown", "offered",
          "telling", "completes"}
Line == [origin : Origins, of : Nat \cup Pictures,
         commitment : {"single-minded", "open-minded", "blind"},
         state : OpenStates \cup Shut, picture : Pictures \cup {NoPicture},
         shown : BOOLEAN, offered : BOOLEAN, telling : Nat, completes : BOOLEAN]

LEMMA LineIs ==
    ASSUME NEW x \in Line
    PROVE  /\ DOMAIN x = Parts /\ x.origin \in Origins /\ x.of \in Nat \cup Pictures
           /\ x.commitment \in {"single-minded", "open-minded", "blind"}
           /\ x.state \in OpenStates \cup Shut /\ x.picture \in Pictures \cup {NoPicture}
           /\ x.shown \in BOOLEAN /\ x.offered \in BOOLEAN
           /\ x.telling \in Nat /\ x.completes \in BOOLEAN
  BY Zenon DEF Line, Parts

LEMMA NewLine ==
    ASSUME NEW origin \in Origins, NEW of \in Nat \cup Pictures,
           NEW commitment \in {"single-minded", "open-minded", "blind"},
           NEW p \in Pictures \cup {NoPicture}
    PROVE  LET x == NewGoal(origin, of, commitment, p)
           IN  /\ x \in Line /\ x.origin = origin /\ x.of = of /\ x.state = "pending"
               /\ x.picture = p /\ x.telling = 0 /\ ~x.shown /\ ~x.offered
<1> DEFINE x == NewGoal(origin, of, commitment, p)
<1>1. "pending" \in OpenStates \cup Shut /\ 0 \in Nat /\ FALSE \in BOOLEAN
  BY DEF OpenStates
<1>2. x \in Line
  BY <1>1, Zenon DEF Line, NewGoal
<1>3. x.origin = origin /\ x.of = of /\ x.state = "pending" /\ x.picture = p
      /\ x.telling = 0 /\ x.shown = FALSE /\ x.offered = FALSE
  BY Zenon DEF NewGoal
<1> HIDE DEF x
<1> QED BY <1>2, <1>3, Zenon DEF x

(* What a line keeps when it is rewritten.                                 *)
Named(x, y) == y.origin = x.origin /\ y.of = x.of /\ y.commitment = x.commitment

(* The ways a line is rewritten, each with what it leaves alone.           *)
LEMMA LineMoved ==
    ASSUME NEW x \in Line, NEW s \in OpenStates \cup Shut
    PROVE  LET y == [x EXCEPT !.state = s]
           IN  /\ y \in Line /\ Named(x, y) /\ y.state = s /\ y.picture = x.picture
               /\ y.shown = x.shown /\ y.offered = x.offered /\ y.telling = x.telling
               /\ y.completes = x.completes
<1> DEFINE y == [x EXCEPT !.state = s]
<1>1. y \in Line
  BY Zenon DEF Line
<1> QED BY <1>1, LineIs, SMT DEF Named, Parts

LEMMA LineOffered ==
    ASSUME NEW x \in Line
    PROVE  LET y == [x EXCEPT !.offered = TRUE]
           IN  /\ y \in Line /\ Named(x, y) /\ y.state = x.state /\ y.picture = x.picture
               /\ y.shown = x.shown /\ y.offered /\ y.telling = x.telling
               /\ y.completes = x.completes
<1> DEFINE y == [x EXCEPT !.offered = TRUE]
<1>1. y \in Line
  BY Zenon DEF Line
<1>2. Named(x, y) /\ y.state = x.state /\ y.picture = x.picture
      /\ y.shown = x.shown /\ y.offered = TRUE /\ y.telling = x.telling
      /\ y.completes = x.completes
  BY LineIs, SMT DEF Named, Parts
<1> HIDE DEF y
<1> QED BY <1>1, <1>2, Zenon DEF y

LEMMA LineResumed ==
    ASSUME NEW x \in Line, NEW s \in OpenStates \cup Shut
    PROVE  LET y == [x EXCEPT !.state = s, !.telling = 0, !.completes = FALSE]
           IN  /\ y \in Line /\ Named(x, y) /\ y.state = s /\ y.picture = x.picture
               /\ y.shown = x.shown /\ y.offered = x.offered /\ y.telling = 0
<1> DEFINE y == [x EXCEPT !.state = s, !.telling = 0, !.completes = FALSE]
<1>0. 0 \in Nat /\ FALSE \in BOOLEAN
  OBVIOUS
<1>1. y \in Line
  BY <1>0, Zenon DEF Line
<1> QED BY <1>1, LineIs, SMT DEF Named, Parts

LEMMA LineSeen ==
    ASSUME NEW x \in Line, NEW p
    PROVE  LET y == Seen(x, p)
           IN  /\ y \in Line /\ Named(x, y) /\ y.picture = x.picture
               /\ y.offered = x.offered /\ y.telling = x.telling
               /\ x.picture # p => y = x
               /\ y.state = x.state \/ (y.state = "done" /\ IsFollowUp(x) /\ x.picture = p)
               /\ y.shown = x.shown \/ x.picture = p
               /\ x.shown => y.shown
<1> DEFINE y == Seen(x, p)
           s == IF IsFollowUp(x) /\ x.state \in OpenStates THEN "done" ELSE x.state
<1>1. CASE x.picture # p
  <2>1. y = x
    BY <1>1, Zenon DEF Seen
  <2> HIDE DEF y
  <2>2. y \in Line /\ Named(x, y) /\ y.picture = x.picture /\ y.offered = x.offered
        /\ y.telling = x.telling /\ y.state = x.state /\ y.shown = x.shown
    BY <2>1, Zenon DEF Named
  <2>3. x.shown => y.shown
    BY <2>1, Zenon
  <2>4. y.state = x.state \/ (y.state = "done" /\ IsFollowUp(x) /\ x.picture = p)
    BY <2>2
  <2>5. y.shown = x.shown \/ x.picture = p
    BY <2>2
  <2>6. x.picture # p => y = x
    BY <2>1
  <2> QED BY <2>2, <2>3, <2>4, <2>5, <2>6, Zenon DEF y
<1>2. CASE x.picture = p
  <2>1. s \in OpenStates \cup Shut
        /\ (s = x.state \/ (s = "done" /\ IsFollowUp(x)))
    <3>1. x.state \in OpenStates \cup Shut /\ "done" \in OpenStates \cup Shut
      BY LineIs, Zenon DEF Shut
    <3> DEFINE C == IsFollowUp(x) /\ x.state \in OpenStates
    <3>0. s = IF C THEN "done" ELSE x.state
      OBVIOUS
    <3> HIDE DEF s, C
    <3>2. CASE C
      <4>1. s = "done"
        BY <3>0, <3>2, SMT
      <4> QED BY <3>1, <3>2, <4>1, Zenon DEF C
    <3>3. CASE ~C
      <4>1. s = x.state
        BY <3>0, <3>3, SMT
      <4> QED BY <3>1, <4>1, Zenon
    <3> QED BY <3>2, <3>3, Zenon
  <2>2. y = [x EXCEPT !.shown = TRUE, !.state = s]
    BY <1>2, Zenon DEF Seen
  <2> HIDE DEF s
  <2>3. y \in Line
    BY <2>1, <2>2, Zenon DEF Line
  <2>4. Named(x, y) /\ y.picture = x.picture /\ y.offered = x.offered
        /\ y.telling = x.telling /\ y.state = s /\ y.shown = TRUE
    BY <2>2, LineIs, SMT DEF Named, Parts
  <2> HIDE DEF y
  <2>5. y.shown
    BY <2>4, Zenon
  <2> QED BY <1>2, <2>1, <2>3, <2>4, <2>5, Zenon DEF y
<1> QED BY <1>1, <1>2, Zenon

-----------------------------------------------------------------------------
(* The mind's bookkeeping, and what each of its primitive steps does.      *)
IsMind(m) ==
    /\ DOMAIN m = {"goals", "wakeups", "shelved"}
    /\ m.goals \in Seq(Line)
    /\ m.wakeups \subseteq DOMAIN m.goals
    /\ m.shelved \subseteq Pictures

LEMMA MindIs ==
    ASSUME NEW m, IsMind(m)
    PROVE  /\ Len(m.goals) \in Nat /\ DOMAIN m.goals = 1 .. Len(m.goals)
           /\ \A g \in DOMAIN m.goals : m.goals[g] \in Line /\ g \in Nat
<1> HIDE DEF Line
<1> QED BY LenProperties, ElementOfSeq DEF IsMind

(* n has m's lines but for g's, which is y.                                *)
OneLine(m, n, g, y) ==
    /\ IsMind(n)
    /\ Len(n.goals) = Len(m.goals)
    /\ DOMAIN n.goals = DOMAIN m.goals
    /\ n.goals[g] = y
    /\ \A h \in DOMAIN m.goals : h # g => n.goals[h] = m.goals[h]

LEMMA WrittenIs ==
    ASSUME NEW m, IsMind(m), NEW g \in DOMAIN m.goals, NEW y \in Line
    PROVE  /\ OneLine(m, Written(m, g, y), g, y)
           /\ Written(m, g, y).wakeups = m.wakeups
           /\ Written(m, g, y).shelved = m.shelved
<1> DEFINE n == Written(m, g, y)
<1>1. n.goals = [m.goals EXCEPT ![g] = y] /\ n.wakeups = m.wakeups /\ n.shelved = m.shelved
      /\ DOMAIN n = {"goals", "wakeups", "shelved"}
  BY DEF Written, IsMind
<1>2. [m.goals EXCEPT ![g] = y] \in Seq(Line)
      /\ Len([m.goals EXCEPT ![g] = y]) = Len(m.goals)
  BY ExceptSeq DEF IsMind
<1>3. /\ m.goals \in Seq(Line) /\ m.wakeups \subseteq DOMAIN m.goals
      /\ m.shelved \subseteq Pictures
  BY DEF IsMind
<1> HIDE DEF n
<1> HIDE DEF Line
<1> QED BY <1>1, <1>2, <1>3 DEF n, OneLine, IsMind

(* A goal is added unless an open one carries its parent already.          *)
AddedLine(m, n, goal) ==
    /\ IsMind(n)
    /\ n.wakeups = m.wakeups /\ n.shelved = m.shelved
    /\ \A h \in DOMAIN m.goals : h \in DOMAIN n.goals /\ n.goals[h] = m.goals[h]
    /\ \/ n = m /\ Carrying(m, goal) # {}
       \/ /\ Carrying(m, goal) = {}
          /\ Len(n.goals) = Len(m.goals) + 1
          /\ DOMAIN n.goals = 1 .. (Len(m.goals) + 1)
          /\ n.goals[Len(m.goals) + 1] = goal

LEMMA AddedIs ==
    ASSUME NEW m, IsMind(m), NEW goal \in Line
    PROVE  AddedLine(m, Added(m, goal), goal)
<1> DEFINE n == Added(m, goal)
<1>1. CASE Carrying(m, goal) # {}
  <2>1. n = m
    BY <1>1 DEF Added
  <2> QED BY <1>1, <2>1 DEF AddedLine
<1>2. CASE Carrying(m, goal) = {}
  <2>1. n.goals = Append(m.goals, goal) /\ n.wakeups = m.wakeups /\ n.shelved = m.shelved
        /\ DOMAIN n = {"goals", "wakeups", "shelved"}
    BY <1>2 DEF Added, IsMind
  <2>2. m.goals \in Seq(Line) /\ m.wakeups \subseteq DOMAIN m.goals
        /\ m.shelved \subseteq Pictures
    BY DEF IsMind
  <2> HIDE DEF Line, n
  <2>3. /\ n.goals \in Seq(Line) /\ Len(n.goals) = Len(m.goals) + 1
        /\ \A h \in 1 .. Len(m.goals) : n.goals[h] = m.goals[h]
        /\ n.goals[Len(m.goals) + 1] = goal
    BY <2>1, <2>2, AppendProperties
  <2>4. DOMAIN m.goals = 1 .. Len(m.goals) /\ Len(m.goals) \in Nat
        /\ DOMAIN n.goals = 1 .. (Len(m.goals) + 1)
    BY <2>2, <2>3, LenProperties
  <2>5. IsMind(n)
    BY <2>1, <2>2, <2>3, <2>4 DEF IsMind
  <2>6. \A h \in DOMAIN m.goals : h \in DOMAIN n.goals /\ n.goals[h] = m.goals[h]
    BY <2>3, <2>4
  <2>7. AddedLine(m, n, goal)
    BY <1>2, <2>1, <2>3, <2>4, <2>5, <2>6 DEF AddedLine
  <2> QED BY <2>7 DEF n
<1> QED BY <1>1, <1>2

-----------------------------------------------------------------------------
(* What holds of the mind whenever SENSE, an act or the conversation has   *)
(* finished with it, and, but for the goals of R it is in the middle of    *)
(* closing, at every step between.  U is the mind's pictures never posted, *)
(* A every picture that has landed.                                        *)
Live(m, U) == U \ m.shelved
Stands(m, R, h) == Open(m, h) \/ h \in R

(* A later line that stands holds g's picture, where that matters.         *)
Passed(m, U, R, g) ==
    m.goals[g].picture \in Live(m, U) =>
        \E h \in DOMAIN m.goals : /\ h > g
                                  /\ m.goals[h].picture = m.goals[g].picture
                                  /\ Stands(m, R, h)

(* A line names an earlier one, its render, or nothing.                    *)
Rooted(m, A) ==
    \A g \in DOMAIN m.goals :
        /\ m.goals[g].origin \in {"told", "followup"} => m.goals[g].of \in 1 .. (g - 1)
        /\ m.goals[g].origin = "told" => IsTask(m.goals[m.goals[g].of])
        /\ IsTask(m.goals[g]) => m.goals[g].of = 0
        /\ m.goals[g].origin = "stray" => m.goals[g].of \in A
        /\ m.goals[g].picture \in A \cup {NoPicture}
        /\ m.goals[g].telling \in 0 .. Len(m.goals)

(* Whoever closes, or has handed its picture on, has it held further down. *)
HandsOn(m, U, R) ==
    \A g \in DOMAIN m.goals :
        m.goals[g].offered \/ ~Stands(m, R, g) => Passed(m, U, R, g)

(* A goal with a follow-up has handed its picture on, unless it closed     *)
(* with none to hand on.                                                   *)
NoNews(m, g) ==
    \A f \in DOMAIN m.goals :
        m.goals[f].origin = "followup" /\ m.goals[f].of = g => m.goals[g].offered
OneFollowUp(m) ==
    \A g \in DOMAIN m.goals :
        NoNews(m, g) \/ (~Open(m, g) /\ m.goals[g].picture = NoPicture)

(* A message holds a picture only once its goal has handed one on.         *)
WordsHoldWhatIsOffered(m, U) ==
    \A t \in DOMAIN m.goals :
        m.goals[t].origin = "told" /\ m.goals[t].picture \in U =>
            m.goals[m.goals[t].of].offered

(* An open errand has handed nothing on.                                   *)
ErrandsHoldOn(m, R) ==
    \A g \in DOMAIN m.goals :
        Open(m, g) /\ ~IsTask(m.goals[g]) /\ g \notin R => ~m.goals[g].offered

(* A stray's errand holds the picture it was adopted for.                  *)
StraysHoldTheirs(m, U) ==
    \A g \in DOMAIN m.goals :
        m.goals[g].origin = "stray" /\ m.goals[g].of \in Live(m, U) =>
            m.goals[g].picture = m.goals[g].of

ShownIsSent(m, U) == \A g \in DOMAIN m.goals : m.goals[g].shown => m.goals[g].picture \notin U

Sound(m, U, A, R) ==
    /\ IsMind(m) /\ Len(m.goals) > 0 /\ A \subseteq Pictures /\ U \subseteq A
    /\ Rooted(m, A) /\ HandsOn(m, U, R) /\ OneFollowUp(m) /\ WordsHoldWhatIsOffered(m, U)
    /\ ErrandsHoldOn(m, R) /\ StraysHoldTheirs(m, U) /\ ShownIsSent(m, U)

(* A line rewritten without touching its picture.                          *)
LEMMA RewriteSound ==
    ASSUME NEW U, NEW A, NEW R, NEW m, Sound(m, U, A, R),
           NEW g \in DOMAIN m.goals, NEW y \in Line, NEW n,
           OneLine(m, n, g, y), n.shelved = m.shelved,
           Named(m.goals[g], y), y.picture = m.goals[g].picture,
           y.telling \in 0 .. Len(m.goals),
           m.goals[g].offered => y.offered,
           y.shown => m.goals[g].shown,
           y.state \in OpenStates => Open(m, g) \/ NoNews(m, g),
           y.state \in OpenStates /\ ~IsTask(y) /\ g \notin R => ~y.offered,
           y.offered \/ (y.state \notin OpenStates /\ g \notin R) => Passed(m, U, R, g)
    PROVE  Sound(n, U, A, R)
<1> DEFINE x == m.goals[g]
<1>1. IsMind(m) /\ IsMind(n) /\ DOMAIN n.goals = DOMAIN m.goals
      /\ Len(n.goals) = Len(m.goals) /\ n.goals[g] = y
      /\ \A h \in DOMAIN m.goals : h # g => n.goals[h] = m.goals[h]
  BY DEF Sound, OneLine
<1>2. /\ Len(m.goals) \in Nat /\ DOMAIN m.goals = 1 .. Len(m.goals)
  BY <1>1, MindIs
<1>3. \A h \in DOMAIN m.goals : /\ n.goals[h].origin = m.goals[h].origin
                                /\ n.goals[h].of = m.goals[h].of
                                /\ n.goals[h].picture = m.goals[h].picture
                                /\ (m.goals[h].offered => n.goals[h].offered)
                                /\ (n.goals[h].shown => m.goals[h].shown)
                                /\ (IsTask(n.goals[h]) <=> IsTask(m.goals[h]))
  BY <1>1, SMT DEF Named, IsTask
<1>4. \A h \in DOMAIN m.goals : h # g => (Open(n, h) <=> Open(m, h))
  BY <1>1 DEF Open
<1>5. Open(n, g) <=> y.state \in OpenStates
  BY <1>1 DEF Open
<1> HIDE DEF Line
<1>6. Rooted(n, A)
  <2>1. ASSUME NEW h \in DOMAIN m.goals
        PROVE  /\ n.goals[h].origin \in {"told", "followup"} => n.goals[h].of \in 1 .. (h - 1)
               /\ n.goals[h].origin = "told" => IsTask(n.goals[n.goals[h].of])
               /\ IsTask(n.goals[h]) => n.goals[h].of = 0
               /\ n.goals[h].origin = "stray" => n.goals[h].of \in A
               /\ n.goals[h].picture \in A \cup {NoPicture}
               /\ n.goals[h].telling \in 0 .. Len(n.goals)
    <3>0. Rooted(m, A)
      BY DEF Sound
    <3>1. m.goals[h].origin \in {"told", "followup"} => m.goals[h].of \in DOMAIN m.goals
      BY <3>0, <1>2 DEF Rooted
    <3>2. n.goals[h].telling \in 0 .. Len(n.goals)
      BY <3>0, <1>1, <1>2 DEF Rooted
    <3> QED BY <3>0, <3>1, <3>2, <1>3 DEF Rooted
  <2> QED BY <2>1, <1>1 DEF Rooted
<1>7. Live(n, U) = Live(m, U)
  BY DEF Live
<1>8. HandsOn(n, U, R)
  <2>1. ASSUME NEW h \in DOMAIN m.goals, n.goals[h].offered \/ ~Stands(n, R, h),
               n.goals[h].picture \in Live(n, U)
        PROVE  Passed(m, U, R, h)
    <3>1. CASE h = g
      BY <2>1, <3>1, <1>1, <1>5 DEF Stands
    <3>2. CASE h # g
      BY <2>1, <3>2, <1>1, <1>4 DEF Stands, Sound, HandsOn
    <3> QED BY <3>1, <3>2
  <2>2. ASSUME NEW h \in DOMAIN m.goals, n.goals[h].offered \/ ~Stands(n, R, h),
               n.goals[h].picture \in Live(n, U)
        PROVE  \E k \in DOMAIN n.goals : k > h /\ n.goals[k].picture = n.goals[h].picture
                                         /\ Stands(n, R, k)
    <3>1. PICK k \in DOMAIN m.goals : k > h /\ m.goals[k].picture = m.goals[h].picture
                                     /\ Stands(m, R, k)
      BY <2>1, <2>2, <1>3, <1>7 DEF Passed
    <3>2. CASE Stands(n, R, k)
      BY <3>1, <3>2, <1>1, <1>3
    <3>3. CASE ~Stands(n, R, k)
      <4>1. k = g /\ y.state \notin OpenStates /\ g \notin R
        BY <3>1, <3>3, <1>4, <1>5 DEF Stands
      <4>2. Passed(m, U, R, g)
        BY <4>1
      <4>3. PICK j \in DOMAIN m.goals : j > g /\ m.goals[j].picture = m.goals[g].picture
                                       /\ Stands(m, R, j)
        BY <4>1, <4>2, <3>1, <2>2, <1>3, <1>7 DEF Passed
      <4>4. Stands(n, R, j) /\ j > h
        BY <4>1, <4>3, <3>1, <1>2, <1>4 DEF Stands
      <4> QED BY <4>1, <4>3, <4>4, <3>1, <1>1, <1>3
    <3> QED BY <3>2, <3>3
  <2> QED BY <2>2, <1>1 DEF HandsOn, Passed
<1>9. OneFollowUp(n)
  <2>1. ASSUME NEW h \in DOMAIN m.goals
        PROVE  NoNews(n, h) \/ (~Open(n, h) /\ n.goals[h].picture = NoPicture)
    <3>1. NoNews(m, h) => NoNews(n, h)
      BY <1>1, <1>3 DEF NoNews
    <3>2. NoNews(m, h) \/ (~Open(m, h) /\ m.goals[h].picture = NoPicture)
      BY DEF Sound, OneFollowUp
    <3> QED BY <3>1, <3>2, <1>3, <1>4, <1>5
  <2> QED BY <2>1, <1>1 DEF OneFollowUp
<1>10. WordsHoldWhatIsOffered(n, U)
  BY <1>1, <1>2, <1>3 DEF Sound, Rooted, WordsHoldWhatIsOffered
<1>11. ErrandsHoldOn(n, R)
  BY <1>1, <1>3, <1>4, <1>5 DEF Sound, ErrandsHoldOn
<1>12. StraysHoldTheirs(n, U)
  BY <1>1, <1>3, <1>7 DEF Sound, StraysHoldTheirs
<1>13. ShownIsSent(n, U)
  BY <1>1, <1>3 DEF Sound, ShownIsSent
<1>14. Len(n.goals) > 0
  BY <1>1 DEF Sound
<1> QED BY <1>1, <1>6, <1>8, <1>9, <1>10, <1>11, <1>12, <1>13, <1>14 DEF Sound

(* A line rewritten and another added at the end.                          *)
Grown(m, n, g, y, z) ==
    /\ IsMind(n)
    /\ Len(n.goals) = Len(m.goals) + 1
    /\ n.goals[g] = y
    /\ n.goals[Len(m.goals) + 1] = z
    /\ \A h \in DOMAIN m.goals : h # g => n.goals[h] = m.goals[h]

LEMMA GrowSound ==
    ASSUME NEW U, NEW A, NEW R, NEW m, Sound(m, U, A, R),
           NEW g \in DOMAIN m.goals, NEW y \in Line, NEW z \in Line, NEW n,
           Grown(m, n, g, y, z), n.shelved = m.shelved,
           Named(m.goals[g], y), y.picture = m.goals[g].picture,
           y.telling \in 0 .. Len(m.goals) + 1,
           m.goals[g].offered => y.offered,
           y.shown => m.goals[g].shown,
           y.state \in OpenStates => Open(m, g) \/ NoNews(m, g),
           y.state \in OpenStates /\ ~IsTask(y) /\ g \notin R => ~y.offered,
           y.offered \/ (y.state \notin OpenStates /\ g \notin R) =>
               Passed(m, U, R, g) \/ z.picture = y.picture,
           z.state = "pending", ~z.offered, ~z.shown, z.telling = 0, ~IsTask(z),
           z.picture \in A \cup {NoPicture},
           z.origin \in {"told", "followup"} => z.of \in DOMAIN m.goals,
           z.origin = "told" => /\ IsTask(m.goals[z.of])
                                /\ z.picture \in U => z.of = g /\ y.offered,
           z.origin = "followup" =>
               /\ z.of = g
               /\ y.offered \/ (y.state \notin OpenStates /\ y.picture = NoPicture),
           z.origin = "stray" => z.of \in A /\ z.picture = z.of
    PROVE  Sound(n, U, A, R)
<1> DEFINE N == Len(m.goals) + 1
<1>1. /\ IsMind(m) /\ IsMind(n) /\ Len(n.goals) = N /\ n.goals[g] = y /\ n.goals[N] = z
      /\ \A h \in DOMAIN m.goals : h # g => n.goals[h] = m.goals[h]
      /\ ~z.offered /\ ~z.shown /\ z.telling = 0
  BY DEF Sound, Grown
<1>2. /\ Len(m.goals) \in Nat /\ DOMAIN m.goals = 1 .. Len(m.goals)
      /\ DOMAIN n.goals = 1 .. N
      /\ \A h \in DOMAIN n.goals : h \in DOMAIN m.goals \/ h = N
      /\ DOMAIN m.goals \subseteq DOMAIN n.goals /\ N \in DOMAIN n.goals
      /\ N \notin DOMAIN m.goals /\ \A h \in DOMAIN m.goals : N > h
  BY <1>1, MindIs
<1> HIDE DEF Line, N
<1>3. \A h \in DOMAIN m.goals : /\ n.goals[h].origin = m.goals[h].origin
                                /\ n.goals[h].of = m.goals[h].of
                                /\ n.goals[h].picture = m.goals[h].picture
                                /\ (m.goals[h].offered => n.goals[h].offered)
                                /\ (n.goals[h].shown => m.goals[h].shown)
                                /\ (IsTask(n.goals[h]) <=> IsTask(m.goals[h]))
  BY <1>1, SMT DEF Named, IsTask
<1>4. \A h \in DOMAIN m.goals : h # g => (Open(n, h) <=> Open(m, h))
  BY <1>1, <1>2 DEF Open
<1>5. (Open(n, g) <=> y.state \in OpenStates) /\ Open(n, N)
  BY <1>1, <1>2 DEF Open, OpenStates
<1>6. Rooted(n, A)
  <2>1. ASSUME NEW h \in DOMAIN m.goals
        PROVE  /\ n.goals[h].origin \in {"told", "followup"} => n.goals[h].of \in 1 .. (h - 1)
               /\ n.goals[h].origin = "told" => IsTask(n.goals[n.goals[h].of])
               /\ IsTask(n.goals[h]) => n.goals[h].of = 0
               /\ n.goals[h].origin = "stray" => n.goals[h].of \in A
               /\ n.goals[h].picture \in A \cup {NoPicture}
               /\ n.goals[h].telling \in 0 .. Len(n.goals)
    <3>1. m.goals[h].origin \in {"told", "followup"} => m.goals[h].of \in DOMAIN m.goals
      BY <1>2 DEF Sound, Rooted
    <3>2. n.goals[h].telling \in 0 .. Len(n.goals)
      BY <1>1, <1>2 DEF Sound, Rooted, N
    <3> QED BY <3>1, <3>2, <1>3 DEF Sound, Rooted
  <2>2. /\ n.goals[N].origin \in {"told", "followup"} => n.goals[N].of \in 1 .. (N - 1)
        /\ n.goals[N].origin = "told" => IsTask(n.goals[n.goals[N].of])
        /\ IsTask(n.goals[N]) => n.goals[N].of = 0
        /\ n.goals[N].origin = "stray" => n.goals[N].of \in A
        /\ n.goals[N].picture \in A \cup {NoPicture}
        /\ n.goals[N].telling \in 0 .. Len(n.goals)
    BY <1>1, <1>2, <1>3 DEF N
  <2> QED BY <2>1, <2>2, <1>2 DEF Rooted
<1>7. Live(n, U) = Live(m, U)
  BY DEF Live
<1>8. HandsOn(n, U, R)
  <2>1. ASSUME NEW h \in DOMAIN m.goals, n.goals[h].offered \/ ~Stands(n, R, h),
               n.goals[h].picture \in Live(n, U)
        PROVE  Passed(m, U, R, h) \/ z.picture = n.goals[h].picture
    <3>1. CASE h = g
      BY <2>1, <3>1, <1>1, <1>5 DEF Stands
    <3>2. CASE h # g
      BY <2>1, <3>2, <1>1, <1>4 DEF Stands, Sound, HandsOn
    <3> QED BY <3>1, <3>2
  <2>2. ASSUME NEW h \in DOMAIN m.goals, n.goals[h].offered \/ ~Stands(n, R, h),
               n.goals[h].picture \in Live(n, U)
        PROVE  \E k \in DOMAIN n.goals : k > h /\ n.goals[k].picture = n.goals[h].picture
                                         /\ Stands(n, R, k)
    <3>0. CASE z.picture = n.goals[h].picture
      BY <3>0, <1>1, <1>2, <1>5 DEF Stands
    <3>1. CASE z.picture # n.goals[h].picture
      <4>1. PICK k \in DOMAIN m.goals : k > h /\ m.goals[k].picture = m.goals[h].picture
                                       /\ Stands(m, R, k)
        BY <2>1, <2>2, <3>1, <1>3, <1>7 DEF Passed
      <4>2. CASE Stands(n, R, k)
        BY <4>1, <4>2, <1>2, <1>3
      <4>3. CASE ~Stands(n, R, k)
        <5>1. k = g /\ y.state \notin OpenStates /\ g \notin R
          BY <4>1, <4>3, <1>4, <1>5 DEF Stands
        <5>2. z.picture # y.picture
          BY <5>1, <4>1, <3>1, <1>1, <1>3
        <5>3. Passed(m, U, R, g)
          BY <5>1, <5>2
        <5>4. PICK j \in DOMAIN m.goals : j > g /\ m.goals[j].picture = m.goals[g].picture
                                         /\ Stands(m, R, j)
          BY <5>1, <5>3, <4>1, <2>2, <1>3, <1>7 DEF Passed
        <5>5. Stands(n, R, j) /\ j > h
          BY <5>1, <5>4, <4>1, <1>2, <1>4 DEF Stands
        <5> QED BY <5>1, <5>4, <5>5, <4>1, <1>2, <1>3
      <4> QED BY <4>2, <4>3
    <3> QED BY <3>0, <3>1
  <2>3. ~(n.goals[N].offered \/ ~Stands(n, R, N))
    BY <1>1, <1>5 DEF Stands
  <2>4. ASSUME NEW h \in DOMAIN n.goals, n.goals[h].offered \/ ~Stands(n, R, h)
        PROVE  Passed(n, U, R, h)
    BY <2>2, <2>3, <2>4, <1>2 DEF Passed
  <2> QED BY <2>4 DEF HandsOn
<1>9. OneFollowUp(n)
  <2>0. NoNews(n, N)
    <3> SUFFICES ASSUME NEW f \in DOMAIN n.goals,
                        n.goals[f].origin = "followup", n.goals[f].of = N
                 PROVE  FALSE
      BY DEF NoNews
    <3>1. CASE f \in DOMAIN m.goals
      BY <3>1, <1>2, <1>3 DEF Sound, Rooted
    <3>2. CASE f = N
      BY <3>2, <1>1, <1>2
    <3> QED BY <3>1, <3>2, <1>2
  <2>1. ASSUME NEW h \in DOMAIN m.goals
        PROVE  NoNews(n, h) \/ (~Open(n, h) /\ n.goals[h].picture = NoPicture)
    <3>1. CASE z.origin = "followup" /\ z.of = h
      BY <3>1, <1>1, <1>2, <1>5 DEF NoNews
    <3>2. CASE ~(z.origin = "followup" /\ z.of = h)
      <4>1. NoNews(m, h) => NoNews(n, h)
        BY <3>2, <1>1, <1>2, <1>3 DEF NoNews
      <4>2. NoNews(m, h) \/ (~Open(m, h) /\ m.goals[h].picture = NoPicture)
        BY DEF Sound, OneFollowUp
      <4> QED BY <4>1, <4>2, <1>3, <1>4, <1>5
    <3> QED BY <3>1, <3>2
  <2> QED BY <2>0, <2>1, <1>2 DEF OneFollowUp
<1>10. WordsHoldWhatIsOffered(n, U)
  <2>1. \A h \in DOMAIN m.goals : m.goals[h].origin = "told" => m.goals[h].of \in DOMAIN m.goals
    BY <1>2 DEF Sound, Rooted
  <2> QED BY <2>1, <1>1, <1>2, <1>3 DEF Sound, WordsHoldWhatIsOffered
<1>11. ErrandsHoldOn(n, R)
  BY <1>1, <1>2, <1>3, <1>4, <1>5 DEF Sound, ErrandsHoldOn
<1>12. StraysHoldTheirs(n, U)
  BY <1>1, <1>2, <1>3, <1>7 DEF Sound, StraysHoldTheirs
<1>13. ShownIsSent(n, U)
  BY <1>1, <1>2, <1>3 DEF Sound, ShownIsSent
<1>14. Len(n.goals) > 0
  BY <1>1, <1>2 DEF N
<1> QED BY <1>1, <1>6, <1>8, <1>9, <1>10, <1>11, <1>12, <1>13, <1>14 DEF Sound

-----------------------------------------------------------------------------
(* What a step leaves of the mind it starts from: every line under its     *)
(* name, and every picture somewhere.                                      *)
Safe(m, p) == p \in m.shelved \/ \E h \in DOMAIN m.goals : m.goals[h].picture = p

Keeps(m, n, U) ==
    /\ m.shelved \subseteq n.shelved
    /\ \A g \in DOMAIN m.goals : /\ g \in DOMAIN n.goals
                                 /\ Named(m.goals[g], n.goals[g])
                                 /\ m.goals[g].picture \in U => Safe(n, m.goals[g].picture)

(* ...and, in SENSE, nothing new waits, nothing closed opens again, and no *)
(* message is added.                                                       *)
Calms(m, n) ==
    /\ \A g \in DOMAIN n.goals :
          n.goals[g].state = "waiting" => /\ g \in DOMAIN m.goals
                                          /\ m.goals[g].state = "waiting"
                                          /\ n.goals[g].telling = m.goals[g].telling
                                          /\ g \in m.wakeups => g \in n.wakeups
    /\ \A g \in DOMAIN m.goals : ~Open(m, g) => ~Open(n, g)
    /\ \A g \in DOMAIN n.goals : n.goals[g].origin = "told" => g \in DOMAIN m.goals

LEMMA KeepsOn ==
    ASSUME NEW U, NEW m, NEW n, NEW k, Keeps(m, n, U), Keeps(n, k, U)
    PROVE  Keeps(m, k, U)
  BY DEF Keeps, Named, Safe

LEMMA CalmsOn ==
    ASSUME NEW U, NEW m, NEW n, NEW k, Calms(m, n), Calms(n, k),
           Keeps(m, n, U), Keeps(n, k, U)
    PROVE  Calms(m, k)
<1>1. /\ \A g \in DOMAIN m.goals : g \in DOMAIN n.goals
      /\ \A g \in DOMAIN n.goals : k.goals[g].origin = n.goals[g].origin
  BY DEF Keeps, Named
<1>2. /\ \A g \in DOMAIN k.goals : k.goals[g].origin = "told" => g \in DOMAIN m.goals
      /\ \A g \in DOMAIN m.goals : ~Open(m, g) => ~Open(k, g)
  BY <1>1 DEF Calms
<1>3. \A g \in DOMAIN k.goals :
          k.goals[g].state = "waiting" => /\ g \in DOMAIN m.goals
                                          /\ m.goals[g].state = "waiting"
                                          /\ k.goals[g].telling = m.goals[g].telling
                                          /\ g \in m.wakeups => g \in k.wakeups
  BY DEF Calms
<1> QED BY <1>2, <1>3 DEF Calms

LEMMA KeepsItself ==
    ASSUME NEW U, NEW m
    PROVE  Keeps(m, m, U) /\ Calms(m, m)
  BY DEF Keeps, Calms, Named, Safe

LEMMA KeepsLines ==
    ASSUME NEW U, NEW m, NEW n, Keeps(m, n, U)
    PROVE  DOMAIN m.goals \subseteq DOMAIN n.goals
  BY DEF Keeps

(* Wakeups and what is shelved do not disturb the lines.                   *)
LEMMA SameLinesSound ==
    ASSUME NEW U, NEW A, NEW R, NEW m, Sound(m, U, A, R),
           NEW n, IsMind(n), n.goals = m.goals, m.shelved \subseteq n.shelved
    PROVE  Sound(n, U, A, R) /\ Keeps(m, n, U)
<1>1. Live(n, U) \subseteq Live(m, U) /\ \A g : Open(n, g) <=> Open(m, g)
  BY DEF Live, Open
<1>2. Rooted(n, A) /\ WordsHoldWhatIsOffered(n, U) /\ ErrandsHoldOn(n, R) /\ ShownIsSent(n, U)
  BY <1>1 DEF Sound, Rooted, WordsHoldWhatIsOffered, ErrandsHoldOn, ShownIsSent
<1>3. OneFollowUp(n)
  BY <1>1 DEF Sound, OneFollowUp, NoNews
<1>4. HandsOn(n, U, R)
  BY <1>1 DEF Sound, HandsOn, Passed, Stands
<1>5. StraysHoldTheirs(n, U)
  BY <1>1 DEF Sound, StraysHoldTheirs
<1>6. Keeps(m, n, U)
  BY DEF Keeps, Named, Safe
<1> QED BY <1>2, <1>3, <1>4, <1>5, <1>6 DEF Sound

LEMMA AsleepIs ==
    ASSUME NEW m, IsMind(m), NEW g
    PROVE  /\ IsMind(Asleep(m, g)) /\ Asleep(m, g).goals = m.goals
           /\ Asleep(m, g).shelved = m.shelved /\ Asleep(m, g).wakeups = m.wakeups \ {g}
  BY DEF Asleep, IsMind

LEMMA WokenLaterIs ==
    ASSUME NEW m, IsMind(m), NEW g \in DOMAIN m.goals
    PROVE  LET n == WokenLater(m, g)
           IN  /\ IsMind(n) /\ n.goals = m.goals
               /\ n.shelved = m.shelved /\ n.wakeups = m.wakeups \cup {g}
  BY DEF WokenLater, IsMind

LEMMA WidenSound ==
    ASSUME NEW U, NEW A, NEW R, NEW m, Sound(m, U, A, R), NEW g
    PROVE  Sound(m, U, A, R \cup {g})
<1>1. HandsOn(m, U, R \cup {g})
  BY DEF Sound, HandsOn, Passed, Stands
<1>2. ErrandsHoldOn(m, R \cup {g})
  BY DEF Sound, ErrandsHoldOn
<1> QED BY <1>1, <1>2 DEF Sound

LEMMA ReleaseSound ==
    ASSUME NEW U, NEW A, NEW R, NEW m, Sound(m, U, A, R),
           NEW g \in DOMAIN m.goals, ~Open(m, g), Passed(m, U, R, g)
    PROVE  Sound(m, U, A, R \ {g})
<1>1. \A h \in DOMAIN m.goals : h \in Nat
  BY MindIs DEF Sound
<1>2. ASSUME NEW h \in DOMAIN m.goals, Passed(m, U, R, h)
      PROVE  Passed(m, U, R \ {g}, h)
  BY <1>1, <1>2 DEF Passed, Stands
<1>3. HandsOn(m, U, R \ {g})
  BY <1>2 DEF Sound, HandsOn, Stands
<1>4. ErrandsHoldOn(m, R \ {g})
  BY DEF Sound, ErrandsHoldOn
<1> QED BY <1>3, <1>4 DEF Sound

(* Many lines closed, or marked shown, at once: those of Q, and those that *)
(* hold what was posted.                                                   *)
Closes(m, n, U, Q) ==
    /\ IsMind(n) /\ Len(n.goals) = Len(m.goals) /\ n.shelved = m.shelved
    /\ \A h \in DOMAIN m.goals :
          /\ Named(m.goals[h], n.goals[h])
          /\ n.goals[h].picture = m.goals[h].picture
          /\ n.goals[h].offered = m.goals[h].offered
          /\ n.goals[h].telling = m.goals[h].telling
          /\ n.goals[h].shown => m.goals[h].shown \/ m.goals[h].picture \notin U
          /\ Open(n, h) => Open(m, h)
          /\ Open(m, h) => Open(n, h) \/ h \in Q \/ m.goals[h].picture \notin U

LEMMA MapSound ==
    ASSUME NEW U, NEW A, NEW R, NEW Q, NEW m, Sound(m, U, A, R), R \subseteq Q,
           NEW n, Closes(m, n, U, Q)
    PROVE  Sound(n, U, A, Q) /\ Keeps(m, n, U)
<1> USE DEF Closes
<1>1. IsMind(m) /\ DOMAIN n.goals = DOMAIN m.goals /\ Live(n, U) = Live(m, U)
      /\ DOMAIN m.goals = 1 .. Len(m.goals) /\ Len(m.goals) \in Nat
  BY MindIs DEF Sound, Live
<1>2. Rooted(n, A)
  <2>0. Rooted(m, A)
    BY DEF Sound
  <2>1. \A h \in DOMAIN m.goals : m.goals[h].origin = "told" => m.goals[h].of \in DOMAIN m.goals
    BY <2>0, <1>1 DEF Rooted
  <2>2. \A h \in DOMAIN m.goals : IsTask(n.goals[h]) <=> IsTask(m.goals[h])
    BY DEF Named, IsTask
  <2>3. ASSUME NEW h \in DOMAIN m.goals
        PROVE  /\ n.goals[h].origin \in {"told", "followup"} => n.goals[h].of \in 1 .. (h - 1)
               /\ n.goals[h].origin = "told" => IsTask(n.goals[n.goals[h].of])
               /\ IsTask(n.goals[h]) => n.goals[h].of = 0
               /\ n.goals[h].origin = "stray" => n.goals[h].of \in A
               /\ n.goals[h].picture \in A \cup {NoPicture}
               /\ n.goals[h].telling \in 0 .. Len(n.goals)
    BY <2>0, <2>1, <2>2 DEF Rooted, Named
  <2> QED BY <2>3, <1>1 DEF Rooted
<1>3. HandsOn(n, U, Q)
  <2> SUFFICES ASSUME NEW h \in DOMAIN m.goals, n.goals[h].offered \/ ~Stands(n, Q, h),
                      n.goals[h].picture \in Live(n, U)
               PROVE  \E k \in DOMAIN n.goals : k > h /\ n.goals[k].picture = n.goals[h].picture
                                                /\ Stands(n, Q, k)
    BY <1>1 DEF HandsOn, Passed
  <2>1. Passed(m, U, R, h)
    BY DEF Sound, HandsOn, Stands, Live
  <2>2. PICK k \in DOMAIN m.goals : k > h /\ m.goals[k].picture = m.goals[h].picture
                                   /\ Stands(m, R, k)
    BY <2>1, <1>1 DEF Passed
  <2>3. Stands(n, Q, k)
    BY <2>2, <1>1 DEF Stands, Live
  <2> QED BY <2>2, <2>3, <1>1
<1>4. OneFollowUp(n)
  BY <1>1 DEF Sound, OneFollowUp, NoNews, Named
<1>5. WordsHoldWhatIsOffered(n, U)
  <2>1. \A h \in DOMAIN m.goals : m.goals[h].origin = "told" => m.goals[h].of \in DOMAIN m.goals
    BY <1>1 DEF Sound, Rooted
  <2> QED BY <2>1, <1>1 DEF Sound, WordsHoldWhatIsOffered, Named
<1>6. ErrandsHoldOn(n, Q)
  BY <1>1 DEF Sound, ErrandsHoldOn, Named, IsTask
<1>7. StraysHoldTheirs(n, U)
  BY <1>1 DEF Sound, StraysHoldTheirs, Named
<1>8. ShownIsSent(n, U)
  BY <1>1 DEF Sound, ShownIsSent
<1>9. Keeps(m, n, U)
  BY <1>1 DEF Keeps, Safe
<1> QED BY <1>1, <1>2, <1>3, <1>4, <1>5, <1>6, <1>7, <1>8, <1>9 DEF Sound

-----------------------------------------------------------------------------
(* GoalStore.set_state.                                                    *)
Restated(m, n, g, s) ==
    /\ IsMind(n) /\ Len(n.goals) = Len(m.goals) /\ DOMAIN n.goals = DOMAIN m.goals
    /\ \A h \in DOMAIN m.goals : h # g => n.goals[h] = m.goals[h]
    /\ n.goals[g] \in Line /\ Named(m.goals[g], n.goals[g])
    /\ n.goals[g].state = s
    /\ n.goals[g].picture = m.goals[g].picture
    /\ n.goals[g].shown = m.goals[g].shown
    /\ n.goals[g].offered = m.goals[g].offered
    /\ n.goals[g].telling = m.goals[g].telling
    /\ n.goals[g].completes = m.goals[g].completes
    /\ n.wakeups = m.wakeups /\ n.shelved = m.shelved

LEMMA MovedIs ==
    ASSUME NEW m, IsMind(m), NEW g \in DOMAIN m.goals, NEW s \in OpenStates \cup Shut
    PROVE  Restated(m, Moved(m, g, s), g, s)
<1> DEFINE x == m.goals[g]
           y == [x EXCEPT !.state = s]
           n == Moved(m, g, s)
<1>1. x \in Line
  BY MindIs
<1>2. /\ y \in Line /\ Named(x, y) /\ y.state = s /\ y.picture = x.picture
      /\ y.shown = x.shown /\ y.offered = x.offered /\ y.telling = x.telling
      /\ y.completes = x.completes
  BY <1>1, LineMoved
<1>3. n = Written(m, g, y)
  BY DEF Moved
<1> HIDE DEF y, n, Line
<1>4. OneLine(m, n, g, y) /\ n.wakeups = m.wakeups /\ n.shelved = m.shelved
  BY <1>2, <1>3, WrittenIs
<1>5. Restated(m, n, g, s)
  BY <1>2, <1>4 DEF Restated, OneLine
<1> QED BY <1>5 DEF n

LEMMA MovedSound ==
    ASSUME NEW U, NEW A, NEW R, NEW m, Sound(m, U, A, R),
           NEW g \in DOMAIN m.goals, NEW s \in OpenStates \cup Shut, NEW n,
           Restated(m, n, g, s),
           s \in OpenStates => Open(m, g) \/ (IsTask(m.goals[g]) /\ NoNews(m, g)),
           s \in Shut /\ g \notin R => Passed(m, U, R, g)
    PROVE  Sound(n, U, A, R) /\ Keeps(m, n, U)
<1> DEFINE y == n.goals[g]
<1>1. OneLine(m, n, g, y) /\ y \in Line /\ Named(m.goals[g], y) /\ n.shelved = m.shelved
      /\ y.picture = m.goals[g].picture
  BY DEF Restated, OneLine
<1>2. y.offered = m.goals[g].offered /\ y.shown = m.goals[g].shown
  BY DEF Restated
<1>3. y.telling \in 0 .. Len(m.goals)
  BY DEF Restated, Sound, Rooted
<1>4. y.state = s /\ (s \in Shut <=> s \notin OpenStates)
  BY DEF Restated, Shut, OpenStates
<1>5. y.state \in OpenStates /\ ~IsTask(y) /\ g \notin R => ~y.offered
  BY <1>1, <1>2, <1>4 DEF Sound, ErrandsHoldOn, Named, IsTask
<1>6. y.offered \/ (y.state \notin OpenStates /\ g \notin R) => Passed(m, U, R, g)
  BY <1>2, <1>4 DEF Sound, HandsOn
<1>7. y.state \in OpenStates => Open(m, g) \/ NoNews(m, g)
  BY <1>4
<1>8. Keeps(m, n, U)
  BY DEF Restated, Keeps, Safe, Named
<1> HIDE DEF y, Line
<1> QED BY <1>1, <1>2, <1>3, <1>5, <1>6, <1>7, <1>8, RewriteSound

LEMMA RestatedCalms ==
    ASSUME NEW m, NEW g \in DOMAIN m.goals, NEW s, NEW n, Restated(m, n, g, s),
           s # "waiting", s \in OpenStates => Open(m, g)
    PROVE  Calms(m, n)
  BY DEF Restated, Calms, Open, Named

-----------------------------------------------------------------------------
(* offer_the_picture changes one mark, and may add one open follow-up.     *)
Offers(m, n, g) ==
    /\ IsMind(n) /\ n.wakeups = m.wakeups /\ n.shelved = m.shelved
    /\ \A h \in DOMAIN m.goals : h \in DOMAIN n.goals /\ (h # g => n.goals[h] = m.goals[h])
    /\ \A h \in DOMAIN n.goals : h \notin DOMAIN m.goals =>
           n.goals[h].origin = "followup" /\ n.goals[h].state = "pending"
    /\ n.goals[g] \in Line /\ Named(m.goals[g], n.goals[g])
    /\ n.goals[g].state = m.goals[g].state
    /\ n.goals[g].picture = m.goals[g].picture
    /\ n.goals[g].telling = m.goals[g].telling

(* The copy of g an act goes by, which may miss that its picture was shown.*)
CopyOf(m, g, goal) ==
    /\ goal.picture = m.goals[g].picture
    /\ goal.offered = m.goals[g].offered
    /\ goal.shown => m.goals[g].shown

LEMMA OfferIs ==
    ASSUME NEW U, NEW A, NEW R, NEW m, Sound(m, U, A, R), NEW g \in DOMAIN m.goals,
           NEW goal, CopyOf(m, g, goal),
           IsTask(m.goals[g]) \/ g \in R,
           NoNews(m, g) \/ m.goals[g].picture = NoPicture
    PROVE  LET n == OfferThePicture(m, g, goal)
           IN  /\ Sound(n, U, A, R) /\ Passed(n, U, R, g) /\ Keeps(m, n, U) /\ Calms(m, n)
               /\ Offers(m, n, g)
               /\ NoNews(m, g) => NoNews(n, g)
<1> DEFINE n == OfferThePicture(m, g, goal)
           x == m.goals[g]
<1>0. /\ IsMind(m) /\ x \in Line /\ Len(m.goals) \in Nat /\ DOMAIN m.goals = 1 .. Len(m.goals)
      /\ x.picture \in Pictures \cup {NoPicture} /\ U \subseteq Pictures /\ g \in Nat
  BY MindIs, LineIs DEF Sound
<1>1. CASE ~Undelivered(goal) \/ goal.offered
  <2>1. n = m
    BY <1>1 DEF OfferThePicture
  <2>2. Passed(m, U, R, g)
    <3>1. CASE goal.offered
      BY <3>1 DEF Sound, HandsOn, CopyOf
    <3>2. CASE ~Undelivered(goal)
      <4>1. x.picture = NoPicture \/ x.shown
        BY <3>2 DEF Undelivered, CopyOf
      <4>2. x.picture \notin U
        BY <4>1, <1>0, ErrandsAssumption DEF Sound, ShownIsSent
      <4> QED BY <4>2 DEF Passed, Live
    <3> QED BY <1>1, <3>1, <3>2
  <2>3. Offers(m, m, g)
    BY <1>0 DEF Offers, Named
  <2> HIDE DEF n
  <2> QED BY <2>1, <2>2, <2>3, KeepsItself DEF n
<1>2. CASE Undelivered(goal) /\ ~goal.offered
  <2> DEFINE f == NewGoal("followup", g, "single-minded", goal.picture)
             a == Added(m, f)
             y == [a.goals[g] EXCEPT !.offered = TRUE]
             N == Len(m.goals) + 1
  <2>1. n = Written(a, g, y)
    BY <1>2 DEF OfferThePicture
  <2>2. x.picture = goal.picture /\ x.picture # NoPicture /\ ~x.offered
    BY <1>2 DEF Undelivered, CopyOf
  <2>3. f \in Line /\ f.origin = "followup" /\ f.of = g /\ f.state = "pending"
        /\ f.picture = x.picture /\ f.telling = 0 /\ ~f.shown /\ ~f.offered
    BY <1>0, <2>2, NewLine DEF Origins
  <2> HIDE DEF f
  <2>4. Carrying(m, f) = {}
    BY <2>2, <2>3 DEF Carrying, NoNews
  <2>5. AddedLine(m, a, f)
    BY <1>0, <2>3, AddedIs
  <2> HIDE DEF a, n
  <2>6. /\ IsMind(a) /\ a.wakeups = m.wakeups /\ a.shelved = m.shelved
        /\ \A h \in DOMAIN m.goals : h \in DOMAIN a.goals /\ a.goals[h] = m.goals[h]
        /\ Len(a.goals) = N /\ DOMAIN a.goals = 1 .. N /\ a.goals[N] = f
    BY <2>4, <2>5 DEF AddedLine
  <2>7. /\ y \in Line /\ Named(x, y) /\ y.state = x.state /\ y.picture = x.picture
        /\ y.shown = x.shown /\ y.offered /\ y.telling = x.telling
    BY <1>0, <2>6, LineOffered
  <2> HIDE DEF y, Line
  <2>8. OneLine(a, n, g, y) /\ n.wakeups = a.wakeups /\ n.shelved = a.shelved
    BY <2>1, <2>6, <2>7, WrittenIs
  <2>9. /\ Grown(m, n, g, y, f) /\ N # g /\ N \in DOMAIN n.goals /\ N > g
        /\ n.shelved = m.shelved /\ n.wakeups = m.wakeups
        /\ DOMAIN n.goals = 1 .. N /\ n.goals[g] = y /\ n.goals[N] = f
        /\ \A h \in DOMAIN m.goals : h \in DOMAIN n.goals /\ (h # g => n.goals[h] = m.goals[h])
    BY <1>0, <2>6, <2>8 DEF Grown, OneLine
  <2>10. x.telling \in 0 .. Len(m.goals) /\ x.picture \in A \cup {NoPicture}
    BY DEF Sound, Rooted
  <2>11. IsTask(y) <=> IsTask(x)
    BY <2>7 DEF Named, IsTask
  <2>12. y.state \in OpenStates => Open(m, g) \/ NoNews(m, g)
    BY <2>7 DEF Open
  <2>13. Sound(n, U, A, R)
    <3>1. y.telling \in 0 .. Len(m.goals) + 1 /\ ~IsTask(f)
      BY <2>3, <2>7, <2>10, <1>0 DEF IsTask
    <3> QED BY <2>2, <2>3, <2>7, <2>9, <2>10, <2>11, <2>12, <3>1, GrowSound
  <2>14. Passed(n, U, R, g)
    BY <2>3, <2>7, <2>9 DEF Passed, Stands, Open, OpenStates
  <2>15. Offers(m, n, g)
    BY <1>0, <2>3, <2>7, <2>8, <2>9 DEF Offers, OneLine
  <2>16. Keeps(m, n, U)
    BY <2>7, <2>9 DEF Keeps, Safe, Named
  <2>17. Calms(m, n)
    BY <1>0, <2>3, <2>7, <2>9 DEF Calms, Open, Named
  <2>18. NoNews(n, g)
    BY <2>7, <2>9 DEF NoNews
  <2> QED BY <2>13, <2>14, <2>15, <2>16, <2>17, <2>18 DEF n
<1> QED BY <1>1, <1>2

-----------------------------------------------------------------------------
(* A goal that is open hands its picture on and is closed.                 *)
LEMMA HandedOnAndShut ==
    ASSUME NEW U, NEW A, NEW m, Sound(m, U, A, {}), NEW g, Open(m, g)
    PROVE  LET n == OfferThePicture(m, g, m.goals[g])
               k == Moved(n, g, "abandoned")
           IN  /\ Sound(k, U, A, {}) /\ Keeps(m, k, U) /\ Calms(m, k) /\ ~Open(k, g)
               /\ Offers(m, n, g) /\ Restated(n, k, g, "abandoned")
<1> DEFINE n == OfferThePicture(m, g, m.goals[g])
           k == Moved(n, g, "abandoned")
<1>1. g \in DOMAIN m.goals /\ NoNews(m, g) /\ CopyOf(m, g, m.goals[g])
  BY DEF Open, Sound, OneFollowUp, CopyOf
<1>2. Sound(m, U, A, {g})
  <2>1. Sound(m, U, A, {} \cup {g})
    BY WidenSound
  <2>2. {} \cup {g} = {g}
    OBVIOUS
  <2> HIDE DEF Sound
  <2> QED BY <2>1, <2>2
<1>3. /\ Sound(n, U, A, {g}) /\ Passed(n, U, {g}, g) /\ Keeps(m, n, U) /\ Calms(m, n)
      /\ Offers(m, n, g)
  BY <1>1, <1>2, OfferIs
<1> HIDE DEF n
<1>4. g \in DOMAIN n.goals /\ IsMind(n) /\ "abandoned" \in OpenStates \cup Shut
      /\ "abandoned" \notin OpenStates /\ "abandoned" # "waiting"
  BY <1>1, <1>3 DEF Sound, Keeps, OpenStates, Shut
<1>5. Restated(n, k, g, "abandoned")
  BY <1>4, MovedIs
<1> HIDE DEF k
<1>6. Sound(k, U, A, {g}) /\ Keeps(n, k, U)
  BY <1>3, <1>4, <1>5, MovedSound DEF Shut
<1>7. ~Open(k, g) /\ g \in DOMAIN k.goals
  BY <1>4, <1>5 DEF Restated, Open
<1>8. Passed(k, U, {g}, g)
  <2>1. ASSUME k.goals[g].picture \in Live(k, U)
        PROVE  \E h \in DOMAIN k.goals : /\ h > g /\ k.goals[h].picture = k.goals[g].picture
                                         /\ Stands(k, {g}, h)
    <3>1. n.goals[g].picture \in Live(n, U) /\ k.goals[g].picture = n.goals[g].picture
      BY <2>1, <1>5 DEF Restated, Live
    <3>2. PICK h \in DOMAIN n.goals : h > g /\ n.goals[h].picture = n.goals[g].picture
                                     /\ Stands(n, {g}, h)
      BY <3>1, <1>3 DEF Passed
    <3>3. h \in Nat /\ g \in Nat
      BY <1>4, MindIs
    <3>4. h # g /\ k.goals[h] = n.goals[h] /\ h \in DOMAIN k.goals
      BY <1>5, <3>2, <3>3 DEF Restated
    <3> QED BY <3>1, <3>2, <3>4 DEF Stands, Open
  <2> QED BY <2>1 DEF Passed
<1>9. Sound(k, U, A, {})
  <2>1. Sound(k, U, A, {g} \ {g})
    BY <1>6, <1>7, <1>8, ReleaseSound
  <2>2. {g} \ {g} = {}
    OBVIOUS
  <2> QED BY <2>1, <2>2
<1>10. Keeps(m, k, U) /\ Calms(m, k)
  <2>1. Calms(n, k)
    BY <1>4, <1>5, RestatedCalms
  <2> QED BY <2>1, <1>3, <1>6, KeepsOn, CalmsOn
<1> QED BY <1>3, <1>5, <1>7, <1>9, <1>10 DEF n, k

(* resume_after_telling: the goal is active again, or done with the words  *)
(* that completed it.                                                      *)
LEMMA ResumeIs ==
    ASSUME NEW U, NEW A, NEW m, Sound(m, U, A, {}), NEW g, Open(m, g), NEW d \in BOOLEAN
    PROVE  LET n == ResumeAfterTelling(m, g, d)
           IN  /\ Sound(n, U, A, {}) /\ Keeps(m, n, U) /\ Calms(m, n)
               /\ n.wakeups = m.wakeups /\ Len(n.goals) = Len(m.goals)
               /\ \A h \in DOMAIN m.goals : h # g => n.goals[h] = m.goals[h]
<1> DEFINE x == m.goals[g]
           ends == d /\ x.completes
           s == IF ends THEN "done" ELSE "active"
           y == [x EXCEPT !.state = s, !.telling = 0, !.completes = FALSE]
           w == Written(m, g, y)
           n == ResumeAfterTelling(m, g, d)
<1>1. /\ g \in DOMAIN m.goals /\ IsMind(m) /\ x \in Line /\ x.picture \in Pictures \cup {NoPicture}
      /\ Len(m.goals) \in Nat /\ NoNews(m, g)
  BY MindIs, LineIs DEF Sound, Open, OneFollowUp
<1>2. n = IF ends THEN [w EXCEPT !.shelved = @ \cup ({x.picture} \ {NoPicture})] ELSE w
  BY DEF ResumeAfterTelling
<1>3. s \in OpenStates \cup Shut /\ (ends => s \in Shut) /\ (~ends => s \in OpenStates)
      /\ s # "waiting" /\ 0 \in Nat /\ FALSE \in BOOLEAN
  BY DEF OpenStates, Shut
<1> HIDE DEF ends, s, n, x, Line
<1>4. /\ y \in Line /\ Named(x, y) /\ y.state = s /\ y.picture = x.picture
      /\ y.shown = x.shown /\ y.offered = x.offered /\ y.telling = 0
  BY <1>1, <1>3, LineResumed
<1> HIDE DEF y
<1> USE DEF x
<1>5. OneLine(m, w, g, y) /\ w.wakeups = m.wakeups /\ w.shelved = m.shelved
  BY <1>1, <1>4, WrittenIs
<1> HIDE DEF w
<1>6. IsTask(y) <=> IsTask(x)
  BY <1>4 DEF Named, IsTask
<1>61. y.telling \in 0 .. Len(m.goals) /\ (~IsTask(x) => ~x.offered)
  BY <1>1, <1>4 DEF Sound, ErrandsHoldOn
<1>7. OneLine(m, n, g, y) /\ n.wakeups = m.wakeups /\ m.shelved \subseteq n.shelved
      /\ (ends => x.picture \in n.shelved \cup {NoPicture})
      /\ (~ends => n = w)
  <2>1. CASE ends
    <3>1. n = [w EXCEPT !.shelved = @ \cup ({x.picture} \ {NoPicture})]
      BY <1>2, <2>1
    <3>2. n.goals = w.goals /\ n.wakeups = w.wakeups
          /\ n.shelved = w.shelved \cup ({x.picture} \ {NoPicture})
          /\ DOMAIN n = {"goals", "wakeups", "shelved"}
      BY <3>1, <1>5 DEF OneLine, IsMind
    <3>3. IsMind(n)
      BY <3>2, <1>1, <1>5 DEF OneLine, IsMind
    <3> QED BY <2>1, <3>2, <3>3, <1>5 DEF OneLine
  <2>2. CASE ~ends
    BY <2>2, <1>2, <1>5
  <2> QED BY <2>1, <2>2
<1>8. Sound(n, U, A, {})
  <2>1. CASE ~ends
    <3>1. y.offered \/ (y.state \notin OpenStates /\ g \notin {}) => Passed(m, U, {}, g)
      BY <2>1, <1>1, <1>3, <1>4 DEF Sound, HandsOn
    <3>2. Sound(w, U, A, {})
      BY <2>1, <1>1, <1>3, <1>4, <1>5, <1>6, <1>61, <3>1, RewriteSound
    <3> QED BY <2>1, <3>2, <1>7
  <2>2. CASE ends
    (* what it holds is shelved first *)
    <3> DEFINE q == [goals |-> m.goals, wakeups |-> m.wakeups, shelved |-> n.shelved]
    <3>1. IsMind(q)
      BY <1>1, <1>7 DEF IsMind, OneLine
    <3>2. q.goals = m.goals /\ q.shelved = n.shelved
      OBVIOUS
    <3> HIDE DEF q
    <3>3. Sound(q, U, A, {})
      BY <3>1, <3>2, <1>7, SameLinesSound
    <3>4. OneLine(q, n, g, y) /\ Open(q, g)
      BY <1>7, <3>2 DEF OneLine, Open
    <3>5. Passed(q, U, {}, g)
      <4>1. NoPicture \notin U
        BY ErrandsAssumption DEF Sound
      <4> QED BY <2>2, <4>1, <3>2, <1>7 DEF Passed, Live
    <3> QED BY <3>2, <3>3, <3>4, <3>5, <1>1, <1>4, <1>6, <1>61, RewriteSound
  <2> QED BY <2>1, <2>2
<1>9. Keeps(m, n, U)
  BY <1>1, <1>4, <1>7 DEF OneLine, Keeps, Safe, Named
<1>10. Calms(m, n)
  BY <1>1, <1>3, <1>4, <1>7 DEF OneLine, Calms, Named, Open
<1> QED BY <1>7, <1>8, <1>9, <1>10 DEF n, OneLine

LEMMA SettleIs ==
    ASSUME NEW U, NEW A, NEW m, Sound(m, U, A, {}), NEW t, NEW d \in BOOLEAN
    PROVE  LET n == SettleTelling(m, t, d)
           IN  Sound(n, U, A, {}) /\ Keeps(m, n, U) /\ Calms(m, n) /\ n.wakeups = m.wakeups
<1>1. CASE Awaited(m, t)
  <2>1. Open(m, m.goals[t].of)
    BY <1>1 DEF Awaited
  <2>2. SettleTelling(m, t, d) = ResumeAfterTelling(m, m.goals[t].of, d)
    BY <1>1 DEF SettleTelling
  <2> QED BY <2>1, <2>2, ResumeIs
<1>2. CASE ~Awaited(m, t)
  <2>1. SettleTelling(m, t, d) = m
    BY <1>2 DEF SettleTelling
  <2> QED BY <2>1, KeepsItself
<1> QED BY <1>1, <1>2

-----------------------------------------------------------------------------
(* A signal of the queue, and what is so once it is folded in: its goal    *)
(* waits on nothing but a message, and its picture is somewhere.           *)
SignalOK(m, U, A, sig) ==
    /\ sig.type \in {"wakeup", "task_completion", "goal_decision"}
    /\ sig.type # "task_completion" => sig.goal \in DOMAIN m.goals
    /\ sig.type = "task_completion" =>
          /\ sig.picture \in A \cup {NoPicture}
          /\ sig.chat \in BOOLEAN
          /\ sig.chat => sig.picture \notin U
          /\ sig.completes => sig.chat
          /\ ~sig.chat /\ sig.goal \in DOMAIN m.goals /\ sig.picture # NoPicture =>
                IsTask(m.goals[sig.goal])

Taken(n, U, sig) ==
    /\ sig.goal \in DOMAIN n.goals /\ n.goals[sig.goal].state = "waiting" =>
          n.goals[sig.goal].telling # 0
    /\ sig.type = "task_completion" /\ sig.picture \in U => Safe(n, sig.picture)

LEMMA StillTaken ==
    ASSUME NEW U, NEW m, NEW n, NEW sig, Taken(m, U, sig), Keeps(m, n, U), Calms(m, n)
    PROVE  Taken(n, U, sig)
<1>1. Safe(m, sig.picture) /\ sig.picture \in U => Safe(n, sig.picture)
  BY DEF Keeps, Safe
<1> QED BY <1>1 DEF Taken, Calms

LEMMA SignalStillOK ==
    ASSUME NEW U, NEW A, NEW m, NEW n, NEW sig, SignalOK(m, U, A, sig), Keeps(m, n, U),
           sig.goal \in DOMAIN n.goals => sig.goal \in DOMAIN m.goals \/ sig.type # "task_completion"
    PROVE  SignalOK(n, U, A, sig)
  BY DEF SignalOK, Keeps, Named, IsTask

LEMMA WakeIs ==
    ASSUME NEW U, NEW A, NEW m, Sound(m, U, A, {}), NEW g \in DOMAIN m.goals
    PROVE  LET n == WakeGoal(m, g)
           IN  /\ Sound(n, U, A, {}) /\ Keeps(m, n, U) /\ Calms(m, n)
               /\ n.goals[g].state = "waiting" => n.goals[g].telling # 0
<1> DEFINE n == WakeGoal(m, g)
<1>1. CASE n = m /\ (~Open(m, g) \/ m.goals[g].state # "waiting" \/ m.goals[g].telling # 0)
  <2>1. m.goals[g].state = "waiting" => m.goals[g].telling # 0
    BY <1>1 DEF Open, OpenStates
  <2> QED BY <1>1, <2>1, KeepsItself
<1>2. CASE n = Moved(m, g, "active") /\ Open(m, g)
  <2>1. IsMind(m) /\ "active" \in OpenStates /\ "active" \notin Shut /\ "active" # "waiting"
        /\ "active" \in OpenStates \cup Shut
    BY DEF Sound, OpenStates, Shut
  <2>2. Restated(m, Moved(m, g, "active"), g, "active")
    BY <2>1, MovedIs
  <2> HIDE DEF n
  <2>3. Restated(m, n, g, "active")
    BY <2>2, <1>2
  <2>4. Sound(n, U, A, {}) /\ Keeps(m, n, U)
    BY <2>1, <2>3, <1>2, MovedSound
  <2>5. Calms(m, n)
    BY <2>1, <2>3, <1>2, RestatedCalms
  <2>6. n.goals[g].state # "waiting"
    BY <2>1, <2>3 DEF Restated
  <2> QED BY <2>4, <2>5, <2>6 DEF n
<1>3. \/ n = m /\ (~Open(m, g) \/ m.goals[g].state # "waiting" \/ m.goals[g].telling # 0)
      \/ n = Moved(m, g, "active") /\ Open(m, g)
  BY DEF WakeGoal
<1> QED BY <1>1, <1>2, <1>3

(* A goal that is nobody's news is added at the end.                       *)
LEMMA AddSound ==
    ASSUME NEW U, NEW A, NEW m, Sound(m, U, A, {}), NEW z \in Line, NEW n,
           AddedLine(m, n, z), Carrying(m, z) = {},
           z.state = "pending", ~z.offered, ~z.shown, z.telling = 0,
           z.picture \in A \cup {NoPicture},
           \/ z.origin = "stray" /\ z.of \in A /\ z.picture = z.of
           \/ /\ z.origin = "told" /\ z.of \in DOMAIN m.goals
              /\ IsTask(m.goals[z.of]) /\ z.picture \notin U
    PROVE  /\ Sound(n, U, A, {}) /\ Keeps(m, n, U)
           /\ Len(n.goals) = Len(m.goals) + 1 /\ DOMAIN n.goals = 1 .. Len(n.goals)
           /\ n.goals[Len(n.goals)] = z
<1> DEFINE y == m.goals[1]
<1> HIDE DEF Line
<1>1. IsMind(m) /\ Len(m.goals) \in Nat /\ DOMAIN m.goals = 1 .. Len(m.goals)
      /\ 1 \in DOMAIN m.goals /\ y \in Line
  BY MindIs DEF Sound
<1>2. /\ IsMind(n) /\ n.shelved = m.shelved /\ n.wakeups = m.wakeups
      /\ Len(n.goals) = Len(m.goals) + 1
      /\ DOMAIN n.goals = 1 .. (Len(m.goals) + 1)
      /\ n.goals[Len(m.goals) + 1] = z
      /\ \A h \in DOMAIN m.goals : h \in DOMAIN n.goals /\ n.goals[h] = m.goals[h]
  BY <1>1 DEF AddedLine
<1>3. Grown(m, n, 1, y, z)
  BY <1>1, <1>2 DEF Grown
<1>4. /\ Named(m.goals[1], y) /\ y.picture = m.goals[1].picture
      /\ y.telling \in 0 .. Len(m.goals) + 1
      /\ y.state \in OpenStates => Open(m, 1)
      /\ y.state \in OpenStates /\ ~IsTask(y) => ~y.offered
      /\ y.offered \/ y.state \notin OpenStates => Passed(m, U, {}, 1)
  <2>1. y.telling \in 0 .. Len(m.goals)
    BY <1>1 DEF Sound, Rooted
  <2>2. y.state \in OpenStates <=> Open(m, 1)
    BY <1>1 DEF Open
  <2>3. Open(m, 1) /\ ~IsTask(y) => ~y.offered
    BY <1>1 DEF Sound, ErrandsHoldOn
  <2>4. y.offered \/ ~Open(m, 1) => Passed(m, U, {}, 1)
    BY <1>1 DEF Sound, HandsOn, Stands
  <2> QED BY <2>1, <2>2, <2>3, <2>4, <1>1 DEF Named
<1>5. /\ z.origin \in {"told", "followup"} => z.of \in DOMAIN m.goals
      /\ z.origin = "told" => IsTask(m.goals[z.of]) /\ z.picture \notin U
      /\ z.origin # "followup" /\ ~IsTask(z)
      /\ z.origin = "stray" => z.of \in A /\ z.picture = z.of
  BY DEF IsTask
<1>6. Sound(n, U, A, {})
  <2> HIDE DEF y
  <2>1. y = m.goals[1]
    BY DEF y
  <2> QED BY <1>1, <1>2, <1>3, <1>4, <1>5, <2>1, GrowSound
<1>7. Keeps(m, n, U)
  BY <1>2 DEF Keeps, Safe, Named
<1> QED BY <1>2, <1>6, <1>7

LEMMA AdoptIs ==
    ASSUME NEW U, NEW A, NEW m, Sound(m, U, A, {}),
           NEW sig, SignalOK(m, U, A, sig), sig.type = "task_completion"
    PROVE  LET n == AdoptStrayPicture(m, sig)
           IN  /\ Sound(n, U, A, {}) /\ Keeps(m, n, U) /\ Calms(m, n)
               /\ sig.picture \in U => Safe(n, sig.picture)
               /\ \A g \in DOMAIN m.goals : n.goals[g] = m.goals[g]
<1> DEFINE n == AdoptStrayPicture(m, sig)
           p == sig.picture
<1>0. U \subseteq A /\ A \subseteq Pictures /\ NoPicture \notin Pictures /\ IsMind(m)
      /\ p \in A \cup {NoPicture} /\ (sig.chat => p \notin U)
  BY ErrandsAssumption DEF Sound, SignalOK
<1>1. CASE p = NoPicture \/ sig.chat
  <2>1. n = m /\ p \notin U
    BY <1>0, <1>1 DEF AdoptStrayPicture
  <2> QED BY <2>1, KeepsItself
<1>2. CASE ~(p = NoPicture \/ sig.chat)
  <2> DEFINE z == NewGoal("stray", p, "single-minded", p)
  <2>1. n = Added(m, z)
    BY <1>2 DEF AdoptStrayPicture
  <2>0. p \in A /\ p \in Nat \cup Pictures /\ p \in Pictures \cup {NoPicture}
        /\ "stray" \in Origins /\ "single-minded" \in {"single-minded", "open-minded", "blind"}
    BY <1>0, <1>2 DEF Origins
  <2>2. z \in Line /\ z.origin = "stray" /\ z.of = p /\ z.state = "pending" /\ z.picture = p
        /\ z.telling = 0 /\ ~z.shown /\ ~z.offered
    <3> HIDE DEF p, Line, n
    <3> QED BY <2>0, NewLine
  <2> HIDE DEF z, n, Line
  <2>3. AddedLine(m, n, z)
    BY <1>0, <2>1, <2>2, AddedIs
  <2>4. CASE n = m /\ Carrying(m, z) # {}
    <3>1. PICK h \in DOMAIN m.goals : m.goals[h].origin = "stray" /\ m.goals[h].of = p
      BY <2>2, <2>4 DEF Carrying
    <3>2. p \in U => Safe(m, p)
      BY <3>1 DEF Sound, StraysHoldTheirs, Live, Safe
    <3> QED BY <2>4, <3>2, KeepsItself DEF n
  <2>5. CASE Len(n.goals) = Len(m.goals) + 1
    <3>1. IsMind(m) /\ Len(m.goals) \in Nat /\ DOMAIN m.goals = 1 .. Len(m.goals)
          /\ Len(m.goals) # Len(m.goals) + 1
      BY <1>0, MindIs
    <3>2. /\ Carrying(m, z) = {}
          /\ \A h \in DOMAIN m.goals : h \in DOMAIN n.goals /\ n.goals[h] = m.goals[h]
          /\ n.wakeups = m.wakeups
      BY <2>3, <2>5, <3>1 DEF AddedLine
    <3>3. /\ Sound(n, U, A, {}) /\ Keeps(m, n, U)
          /\ Len(n.goals) = Len(m.goals) + 1 /\ DOMAIN n.goals = 1 .. Len(n.goals)
          /\ n.goals[Len(n.goals)] = z
      BY <2>0, <2>2, <2>3, <3>2, AddSound
    <3>4. Calms(m, n)
      BY <3>1, <3>2, <3>3, <2>2 DEF Calms, Open
    <3>5. Safe(n, p)
      BY <3>1, <3>3, <2>2 DEF Safe
    <3> QED BY <3>2, <3>3, <3>4, <3>5 DEF n
  <2> QED BY <2>3, <2>4, <2>5 DEF AddedLine
<1> QED BY <1>1, <1>2

-----------------------------------------------------------------------------
(* land_dispatched, and what it puts on the goal.                          *)
Holds(m, n, g, sig) ==
    /\ OneLine(m, n, g, n.goals[g])
    /\ n.goals[g] \in Line /\ Named(m.goals[g], n.goals[g])
    /\ n.goals[g].state = m.goals[g].state
    /\ n.goals[g].offered = m.goals[g].offered
    /\ n.goals[g].telling = m.goals[g].telling
    /\ n.wakeups = m.wakeups
    /\ sig.picture # NoPicture => n.goals[g].picture = sig.picture

LEMMA HoldingIs ==
    ASSUME NEW U, NEW A, NEW R, NEW m, Sound(m, U, A, R), NEW g \in DOMAIN m.goals,
           NEW sig, NoNews(m, g), Stands(m, R, g),
           sig.picture \in A \cup {NoPicture}, sig.chat \in BOOLEAN,
           sig.chat => sig.picture \notin U,
           ~sig.chat /\ sig.picture # NoPicture => IsTask(m.goals[g])
    PROVE  LET n == Holding(m, g, sig)
           IN  /\ Sound(n, U, A, R) /\ Keeps(m, n, U) /\ Calms(m, n) /\ Holds(m, n, g, sig)
               /\ sig.picture \in U => Safe(n, sig.picture)
<1> DEFINE n == Holding(m, g, sig)
           x == m.goals[g]
           p == sig.picture
           y == [x EXCEPT !.picture = p, !.shown = sig.chat]
           w == Written(m, g, y)
           left == {x.picture} \cup (IF x.offered THEN {p} ELSE {})
<1>0. /\ IsMind(m) /\ x \in Line /\ Len(m.goals) \in Nat /\ DOMAIN m.goals = 1 .. Len(m.goals)
      /\ U \subseteq A /\ A \subseteq Pictures /\ x.picture \in Pictures \cup {NoPicture}
      /\ NoPicture \notin Pictures /\ p \in Pictures \cup {NoPicture}
  BY MindIs, LineIs, ErrandsAssumption DEF Sound
<1>1. CASE p = NoPicture
  <2>1. n = m /\ p \notin U
    BY <1>0, <1>1 DEF Holding
  <2>2. Holds(m, m, g, sig)
    BY <1>0, <1>1 DEF Holds, OneLine, Named
  <2> HIDE DEF n
  <2> QED BY <2>1, <2>2, KeepsItself DEF n
<1>2. CASE p # NoPicture
  <2>1. n = [w EXCEPT !.shelved = @ \cup (left \ {NoPicture})]
    BY <1>2 DEF Holding
  <2>2. /\ y \in Line /\ Named(x, y) /\ y.state = x.state /\ y.picture = p
        /\ y.shown = sig.chat /\ y.offered = x.offered /\ y.telling = x.telling
    <3> DEFINE b == sig.chat
    <3>1. x \in Line /\ p \in Pictures \cup {NoPicture} /\ b \in BOOLEAN
      BY <1>0
    <3> HIDE DEF p, x, b, Line
    <3> DEFINE v == [x EXCEPT !.picture = p, !.shown = b]
    <3>2. v \in Line
      BY <3>1, Zenon DEF Line
    <3>3. Named(x, v) /\ v.state = x.state /\ v.picture = p
          /\ v.shown = b /\ v.offered = x.offered /\ v.telling = x.telling
      BY <3>1, LineIs, SMT DEF Named, Parts
    <3> HIDE DEF v
    <3>4. y = v
      BY DEF v, b
    <3>5. v.shown = sig.chat
      BY <3>3 DEF b
    <3> HIDE DEF y
    <3> QED BY <3>2, <3>3, <3>4, <3>5
  <2>3. y.shown => p \notin U
    BY <2>2, Zenon
  <2>4. ~sig.chat => IsTask(x)
    BY <1>2
  <2> HIDE DEF y, Line, n
  <2>5. OneLine(m, w, g, y) /\ w.wakeups = m.wakeups /\ w.shelved = m.shelved
    BY <1>0, <2>2, WrittenIs
  <2> HIDE DEF w
  <2>51. /\ left \ {NoPicture} \subseteq Pictures
         /\ x.picture # NoPicture => x.picture \in left \ {NoPicture}
         /\ (x.offered => p \in left \ {NoPicture})
    BY <1>0, <1>2
  <2> HIDE DEF left
  <2>6. /\ OneLine(m, n, g, y) /\ n.wakeups = m.wakeups
        /\ n.shelved = m.shelved \cup (left \ {NoPicture})
    <3>1. n.goals = w.goals /\ n.wakeups = w.wakeups
          /\ n.shelved = w.shelved \cup (left \ {NoPicture})
          /\ DOMAIN n = {"goals", "wakeups", "shelved"}
      BY <2>1, <2>5 DEF OneLine, IsMind
    <3>2. IsMind(n)
      BY <3>1, <1>0, <2>5, <2>51 DEF OneLine, IsMind
    <3> QED BY <3>1, <3>2, <2>5 DEF OneLine
  <2>7. /\ IsMind(n) /\ DOMAIN n.goals = DOMAIN m.goals /\ Len(n.goals) = Len(m.goals)
        /\ n.goals[g] = y /\ \A h \in DOMAIN m.goals : h # g => n.goals[h] = m.goals[h]
        /\ m.shelved \subseteq n.shelved
        /\ x.picture \notin Live(n, U) /\ (x.offered => p \notin Live(n, U))
        /\ Live(n, U) \subseteq Live(m, U)
    BY <1>0, <2>6, <2>51 DEF OneLine, Live
  <2>8. \A h \in DOMAIN m.goals : /\ n.goals[h].origin = m.goals[h].origin
                                  /\ n.goals[h].of = m.goals[h].of
                                  /\ n.goals[h].state = m.goals[h].state
                                  /\ n.goals[h].offered = m.goals[h].offered
                                  /\ n.goals[h].telling = m.goals[h].telling
                                  /\ (IsTask(n.goals[h]) <=> IsTask(m.goals[h]))
                                  /\ (Open(n, h) <=> Open(m, h))
                                  /\ (Stands(n, R, h) <=> Stands(m, R, h))
    <3>1. \A h \in DOMAIN m.goals : /\ n.goals[h].origin = m.goals[h].origin
                                    /\ n.goals[h].of = m.goals[h].of
                                    /\ n.goals[h].state = m.goals[h].state
                                    /\ n.goals[h].offered = m.goals[h].offered
                                    /\ n.goals[h].telling = m.goals[h].telling
      BY <2>2, <2>7 DEF Named
    <3>2. \A h \in DOMAIN m.goals : Open(n, h) <=> Open(m, h)
      BY <3>1, <2>7 DEF Open
    <3> QED BY <3>1, <3>2 DEF IsTask, Stands
  <2>9. Rooted(n, A)
    <3>1. \A h \in DOMAIN m.goals : m.goals[h].origin = "told" => m.goals[h].of \in DOMAIN m.goals
      BY <1>0 DEF Sound, Rooted
    <3>2. ASSUME NEW h \in DOMAIN m.goals
          PROVE  /\ n.goals[h].origin \in {"told", "followup"} => n.goals[h].of \in 1 .. (h - 1)
                 /\ n.goals[h].origin = "told" => IsTask(n.goals[n.goals[h].of])
                 /\ IsTask(n.goals[h]) => n.goals[h].of = 0
                 /\ n.goals[h].origin = "stray" => n.goals[h].of \in A
                 /\ n.goals[h].telling \in 0 .. Len(n.goals)
      BY <3>1, <2>7, <2>8 DEF Sound, Rooted
    <3>3. \A h \in DOMAIN m.goals : n.goals[h].picture \in A \cup {NoPicture}
      BY <2>2, <2>7 DEF Sound, Rooted
    <3> QED BY <3>2, <3>3, <2>7 DEF Rooted
  <2>10. HandsOn(n, U, R)
    <3> SUFFICES ASSUME NEW h \in DOMAIN m.goals, n.goals[h].offered \/ ~Stands(n, R, h),
                        n.goals[h].picture \in Live(n, U)
                 PROVE  \E k \in DOMAIN m.goals : k > h /\ n.goals[k].picture = n.goals[h].picture
                                                  /\ Stands(n, R, k)
      BY <2>7 DEF HandsOn, Passed
    <3>1. h # g
      BY <2>2, <2>7, <2>8
    <3>2. Passed(m, U, R, h)
      BY <2>8 DEF Sound, HandsOn
    <3>3. PICK k \in DOMAIN m.goals : k > h /\ m.goals[k].picture = m.goals[h].picture
                                     /\ Stands(m, R, k)
      BY <3>1, <3>2, <2>7 DEF Passed
    <3>4. k # g
      BY <3>1, <3>3, <2>7
    <3> QED BY <3>1, <3>3, <3>4, <2>7, <2>8
  <2>11. OneFollowUp(n)
    <3>1. \A h \in DOMAIN m.goals : NoNews(m, h) <=> NoNews(n, h)
      BY <2>7, <2>8 DEF NoNews
    <3> QED BY <3>1, <2>7, <2>8 DEF Sound, OneFollowUp
  <2>12. WordsHoldWhatIsOffered(n, U)
    <3>1. \A h \in DOMAIN m.goals : m.goals[h].origin = "told" => m.goals[h].of \in DOMAIN m.goals
      BY <1>0 DEF Sound, Rooted
    <3>2. p \in U => ~(x.origin = "told")
      BY <2>4 DEF IsTask
    <3> QED BY <3>1, <3>2, <2>2, <2>7, <2>8 DEF Sound, WordsHoldWhatIsOffered
  <2>13. ErrandsHoldOn(n, R)
    BY <2>7, <2>8 DEF Sound, ErrandsHoldOn
  <2>14. StraysHoldTheirs(n, U)
    BY <2>7, <2>8 DEF Sound, StraysHoldTheirs
  <2>15. ShownIsSent(n, U)
    BY <2>2, <2>3, <2>7 DEF Sound, ShownIsSent
  <2>16. Sound(n, U, A, R)
    BY <2>7, <2>9, <2>10, <2>11, <2>12, <2>13, <2>14, <2>15 DEF Sound
  <2>17. Keeps(m, n, U)
    <3>1. NoPicture \notin U /\ \A h \in DOMAIN m.goals : Named(m.goals[h], n.goals[h])
      BY <1>0, <2>2, <2>7 DEF Named
    <3>2. x.picture \in U => x.picture \in n.shelved
      BY <2>6, <2>51, <3>1
    <3> QED BY <3>1, <3>2, <2>7 DEF Keeps, Safe
  <2>18. Calms(m, n)
    BY <2>6, <2>7, <2>8 DEF Calms
  <2>19. Holds(m, n, g, sig)
    BY <2>2, <2>6, <2>7 DEF Holds
  <2>20. Safe(n, p)
    BY <2>2, <2>7 DEF Safe
  <2> QED BY <2>16, <2>17, <2>18, <2>19, <2>20 DEF n
<1> QED BY <1>1, <1>2

LEMMA AsleepSound ==
    ASSUME NEW U, NEW A, NEW R, NEW m, Sound(m, U, A, R), NEW g,
           g \in DOMAIN m.goals => m.goals[g].state # "waiting"
    PROVE  LET n == Asleep(m, g)
           IN  Sound(n, U, A, R) /\ Keeps(m, n, U) /\ Calms(m, n) /\ n.goals = m.goals
<1> DEFINE n == Asleep(m, g)
<1>1. IsMind(n) /\ n.goals = m.goals /\ n.shelved = m.shelved /\ n.wakeups = m.wakeups \ {g}
  BY AsleepIs DEF Sound
<1> HIDE DEF n
<1>2. Sound(n, U, A, R) /\ Keeps(m, n, U)
  BY <1>1, SameLinesSound
<1>3. Calms(m, n)
  BY <1>1 DEF Calms, Open
<1> QED BY <1>1, <1>2, <1>3 DEF n

(* The goal that waited on the render moves, takes the picture, and is     *)
(* woken by nothing else.                                                  *)
LEMMA LandsOn ==
    ASSUME NEW U, NEW A, NEW R, NEW m, Sound(m, U, A, R), NEW g, Open(m, g),
           NEW sig, SignalOK(m, U, A, sig), sig.type = "task_completion", sig.goal = g,
           NEW s \in {"active", "done"}, (s = "active" /\ R = {}) \/ (s = "done" /\ R = {g})
    PROVE  LET n == Asleep(Holding(Moved(m, g, s), g, sig), g)
           IN  /\ Sound(n, U, A, R) /\ Keeps(m, n, U) /\ Calms(m, n)
               /\ sig.picture \in U => Safe(n, sig.picture)
               /\ g \in DOMAIN n.goals /\ n.goals[g].state = s
               /\ sig.picture # NoPicture => n.goals[g].picture = sig.picture
<1> DEFINE q == Moved(m, g, s)
           w == Holding(q, g, sig)
           n == Asleep(w, g)
<1>1. /\ g \in DOMAIN m.goals /\ IsMind(m) /\ NoNews(m, g) /\ s \in OpenStates \cup Shut
      /\ s # "waiting" /\ (s = "active" <=> s \in OpenStates)
  BY DEF Open, Sound, OneFollowUp, OpenStates, Shut
<1>2. Restated(m, q, g, s)
  BY <1>1, MovedIs
<1> HIDE DEF q
<1>3. Sound(q, U, A, R) /\ Keeps(m, q, U)
  <2>1. s \in Shut /\ g \notin R => Passed(m, U, R, g)
    BY DEF Shut
  <2> QED BY <1>1, <1>2, <2>1, MovedSound
<1>4. Calms(m, q)
  BY <1>1, <1>2, RestatedCalms
<1>5. /\ g \in DOMAIN q.goals /\ q.goals[g].state = s /\ Stands(q, R, g) /\ NoNews(q, g)
      /\ (IsTask(q.goals[g]) <=> IsTask(m.goals[g]))
  <2>1. g \in DOMAIN q.goals /\ q.goals[g].state = s
    BY <1>1, <1>2 DEF Restated
  <2>2. Stands(q, R, g)
    BY <1>1, <2>1 DEF Stands, Open
  <2>3. IsTask(q.goals[g]) <=> IsTask(m.goals[g])
    BY <1>2 DEF Restated, Named, IsTask
  <2>4. \A h \in DOMAIN m.goals : /\ q.goals[h].origin = m.goals[h].origin
                                  /\ q.goals[h].of = m.goals[h].of
                                  /\ q.goals[h].offered = m.goals[h].offered
    BY <1>2 DEF Restated, Named
  <2>5. NoNews(q, g)
    BY <1>1, <1>2, <2>4 DEF Restated, NoNews
  <2> QED BY <2>1, <2>2, <2>3, <2>5
<1>6. /\ sig.picture \in A \cup {NoPicture} /\ sig.chat \in BOOLEAN
      /\ sig.chat => sig.picture \notin U
      /\ ~sig.chat /\ sig.picture # NoPicture => IsTask(q.goals[g])
  BY <1>1, <1>5 DEF SignalOK
<1>7. /\ Sound(w, U, A, R) /\ Keeps(q, w, U) /\ Calms(q, w) /\ Holds(q, w, g, sig)
      /\ sig.picture \in U => Safe(w, sig.picture)
  BY <1>3, <1>5, <1>6, HoldingIs
<1> HIDE DEF w
<1>8. g \in DOMAIN w.goals /\ w.goals[g].state = s
      /\ (sig.picture # NoPicture => w.goals[g].picture = sig.picture)
  BY <1>5, <1>7 DEF Holds, OneLine
<1>9. Sound(n, U, A, R) /\ Keeps(w, n, U) /\ Calms(w, n) /\ n.goals = w.goals
  BY <1>1, <1>7, <1>8, AsleepSound
<1> HIDE DEF n
<1>10. Keeps(q, n, U) /\ Calms(q, n)
  BY <1>7, <1>9, KeepsOn, CalmsOn
<1>11. Keeps(m, n, U) /\ Calms(m, n)
  BY <1>3, <1>4, <1>10, KeepsOn, CalmsOn
<1>12. sig.picture \in U => Safe(n, sig.picture)
  BY <1>7, <1>9 DEF Safe, Keeps
<1> QED BY <1>8, <1>9, <1>11, <1>12 DEF n, w, q

LEMMA LandIs ==
    ASSUME NEW U, NEW A, NEW m, Sound(m, U, A, {}),
           NEW sig, SignalOK(m, U, A, sig), sig.type = "task_completion"
    PROVE  LET n == LandDispatched(m, sig)
           IN  Sound(n, U, A, {}) /\ Keeps(m, n, U) /\ Calms(m, n) /\ Taken(n, U, sig)
<1> DEFINE n == LandDispatched(m, sig)
           g == sig.goal
<1>1. CASE n = AdoptStrayPicture(m, sig) /\ (~Open(m, g) \/ m.goals[g].state # "waiting")
  <2>1. /\ Sound(n, U, A, {}) /\ Keeps(m, n, U) /\ Calms(m, n)
        /\ sig.picture \in U => Safe(n, sig.picture)
        /\ \A h \in DOMAIN m.goals : n.goals[h] = m.goals[h]
    BY <1>1, AdoptIs
  <2> HIDE DEF n
  <2>2. g \in DOMAIN n.goals => n.goals[g].state # "waiting"
    BY <1>1, <2>1 DEF Calms, Open, OpenStates
  <2> QED BY <2>1, <2>2 DEF n, Taken
<1>2. CASE n = Asleep(Holding(Moved(m, g, "active"), g, sig), g) /\ Open(m, g)
  <2>1. /\ Sound(n, U, A, {}) /\ Keeps(m, n, U) /\ Calms(m, n)
        /\ sig.picture \in U => Safe(n, sig.picture)
        /\ n.goals[g].state = "active"
    BY <1>2, LandsOn
  <2> HIDE DEF n
  <2> QED BY <2>1 DEF n, Taken
<1>3. CASE /\ n = Asleep(Holding(Moved(m, g, "done"), g, sig), g) /\ Open(m, g)
           /\ sig.completes /\ sig.picture # NoPicture
  <2>1. Sound(m, U, A, {g})
    <3>1. Sound(m, U, A, {} \cup {g})
      BY WidenSound
    <3>2. {} \cup {g} = {g}
      OBVIOUS
    <3> HIDE DEF Sound
    <3> QED BY <3>1, <3>2
  <2>2. /\ Sound(n, U, A, {g}) /\ Keeps(m, n, U) /\ Calms(m, n)
        /\ sig.picture \in U => Safe(n, sig.picture)
        /\ g \in DOMAIN n.goals /\ n.goals[g].state = "done"
        /\ n.goals[g].picture = sig.picture
    BY <1>3, <2>1, LandsOn
  <2> HIDE DEF n
  <2>3. sig.picture \notin U
    BY <1>3 DEF SignalOK
  <2>4. ~Open(n, g) /\ Passed(n, U, {g}, g)
    BY <2>2, <2>3 DEF Open, OpenStates, Passed, Live
  <2>5. Sound(n, U, A, {g} \ {g})
    BY <2>2, <2>4, ReleaseSound
  <2>6. {g} \ {g} = {}
    OBVIOUS
  <2>7. Sound(n, U, A, {})
    <3> HIDE DEF Sound
    <3> QED BY <2>5, <2>6
  <2> QED BY <2>2, <2>7 DEF n, Taken
<1>4. \/ n = AdoptStrayPicture(m, sig) /\ (~Open(m, g) \/ m.goals[g].state # "waiting")
      \/ n = Asleep(Holding(Moved(m, g, "active"), g, sig), g) /\ Open(m, g)
      \/ /\ n = Asleep(Holding(Moved(m, g, "done"), g, sig), g) /\ Open(m, g)
         /\ sig.completes /\ sig.picture # NoPicture
  BY Zenon DEF LandDispatched
<1> QED BY <1>1, <1>2, <1>3, <1>4

LEMMA LetGoIs ==
    ASSUME NEW U, NEW A, NEW m, Sound(m, U, A, {}), NEW g \in DOMAIN m.goals
    PROVE  LET n == LetGoOf(m, g)
           IN  /\ Sound(n, U, A, {}) /\ Keeps(m, n, U) /\ Calms(m, n)
               /\ n.goals[g].state # "waiting"
<1> DEFINE n == LetGoOf(m, g)
           k == Moved(OfferThePicture(m, g, m.goals[g]), g, "abandoned")
           a == Asleep(k, g)
<1>1. CASE ~Open(m, g)
  <2>1. n = m
    BY <1>1 DEF LetGoOf
  <2>2. m.goals[g].state # "waiting"
    BY <1>1 DEF Open, OpenStates
  <2> QED BY <2>1, <2>2, KeepsItself
<1>2. CASE Open(m, g)
  <2>1. n = SettleTelling(a, g, FALSE)
    BY <1>2 DEF LetGoOf
  <2>2. Sound(k, U, A, {}) /\ Keeps(m, k, U) /\ Calms(m, k) /\ ~Open(k, g)
    BY <1>2, HandedOnAndShut
  <2> HIDE DEF k, n
  <2>3. g \in DOMAIN k.goals => k.goals[g].state # "waiting"
    BY <2>2 DEF Open, OpenStates
  <2>4. Sound(a, U, A, {}) /\ Keeps(k, a, U) /\ Calms(k, a) /\ a.goals = k.goals
    BY <2>2, <2>3, AsleepSound
  <2> HIDE DEF a
  <2>5. Sound(n, U, A, {}) /\ Keeps(a, n, U) /\ Calms(a, n)
    BY <2>1, <2>4, SettleIs
  <2>6. Keeps(m, a, U) /\ Calms(m, a)
    BY <2>2, <2>4, KeepsOn, CalmsOn
  <2>7. Keeps(m, n, U) /\ Calms(m, n)
    BY <2>5, <2>6, KeepsOn, CalmsOn
  <2>8. n.goals[g].state # "waiting"
    <3>1. g \in DOMAIN a.goals /\ ~Open(a, g) /\ g \in DOMAIN n.goals
      BY <2>2, <2>4, <2>6, <2>7 DEF Open, Keeps
    <3> QED BY <3>1, <2>5 DEF Calms, Open, OpenStates
  <2> QED BY <2>5, <2>7, <2>8 DEF n
<1> QED BY <1>1, <1>2

LEMMA FoldedIs ==
    ASSUME NEW U, NEW A, NEW m, Sound(m, U, A, {}), NEW sig, SignalOK(m, U, A, sig)
    PROVE  LET n == Folded(m, sig)
           IN  Sound(n, U, A, {}) /\ Keeps(m, n, U) /\ Calms(m, n) /\ Taken(n, U, sig)
<1> DEFINE n == Folded(m, sig)
<1>1. CASE sig.type = "wakeup"
  <2>1. n = WakeGoal(m, sig.goal) /\ sig.goal \in DOMAIN m.goals /\ sig.type # "task_completion"
    BY <1>1 DEF Folded, SignalOK
  <2>2. /\ Sound(n, U, A, {}) /\ Keeps(m, n, U) /\ Calms(m, n)
        /\ n.goals[sig.goal].state = "waiting" => n.goals[sig.goal].telling # 0
    BY <2>1, WakeIs
  <2> QED BY <2>1, <2>2 DEF Taken
<1>2. CASE sig.type = "task_completion"
  <2>1. n = LandDispatched(m, sig)
    BY <1>2 DEF Folded
  <2> QED BY <1>2, <2>1, LandIs
<1>3. CASE sig.type = "goal_decision"
  <2>1. n = LetGoOf(m, sig.goal) /\ sig.goal \in DOMAIN m.goals /\ sig.type # "task_completion"
    BY <1>3 DEF Folded, SignalOK
  <2>2. /\ Sound(n, U, A, {}) /\ Keeps(m, n, U) /\ Calms(m, n)
        /\ n.goals[sig.goal].state # "waiting"
    BY <2>1, LetGoIs
  <2> QED BY <2>1, <2>2 DEF Taken
<1> QED BY <1>1, <1>2, <1>3 DEF SignalOK

-----------------------------------------------------------------------------
(* The least of a set of naturals: every proof over data here supposes a   *)
(* claim false of some number, and takes the least.                        *)
LEMMA Least ==
    ASSUME NEW T, T \subseteq Nat, T # {}
    PROVE  \E n \in T : \A k \in Nat : k < n => k \notin T
<1>1. PICK n \in T : \A k \in T : ~ (<<k, n>> \in OpToRel(<, Nat))
  BY NatLessThanWellFounded, WFMin
<1>2. \A k \in Nat : k < n => <<k, n>> \in OpToRel(<, Nat)
  BY DEF OpToRel
<1> QED BY <1>1, <1>2

IsFold(f, m, batch, n) ==
    f = [i \in 0 .. n |-> IF i = 0 THEN m ELSE Folded(f[i - 1], batch[i])]

(* A recursive function, and its two equations.                            *)
LEMMA FoldExists ==
    ASSUME NEW m, NEW batch, NEW n \in Nat
    PROVE  \E f : IsFold(f, m, batch, n)
<1> DEFINE T == {k \in Nat : ~ \E f : IsFold(f, m, batch, k)}
<1> SUFFICES ASSUME T # {} PROVE FALSE
  OBVIOUS
<1>1. PICK k \in T : \A j \in Nat : j < k => j \notin T
  <2> HIDE DEF T
  <2> T \subseteq Nat BY DEF T
  <2> QED BY Least
<1>2. CASE k = 0
  <2> DEFINE f == [i \in 0 .. 0 |-> m]
  <2>1. IsFold(f, m, batch, 0)
    BY DEF IsFold
  <2> QED BY <2>1, <1>2
<1>3. CASE k # 0
  <2>1. PICK f : IsFold(f, m, batch, k - 1)
    BY <1>1, <1>3
  <2> DEFINE h == [i \in 0 .. k |-> IF i = k THEN Folded(f[k - 1], batch[k]) ELSE f[i]]
  <2>2. IsFold(h, m, batch, k)
    <3>1. ASSUME NEW i \in 0 .. k PROVE h[i] = IF i = 0 THEN m ELSE Folded(h[i - 1], batch[i])
      BY <2>1, <1>3 DEF IsFold
    <3> QED BY <3>1 DEF IsFold
  <2> QED BY <2>2
<1> QED BY <1>2, <1>3

LEMMA FoldSteps ==
    ASSUME NEW m, NEW batch, NEW n \in Nat, NEW f, IsFold(f, m, batch, n)
    PROVE  f[0] = m /\ \A i \in 1 .. n : f[i] = Folded(f[i - 1], batch[i])
<1>1. f[0] = m
  BY DEF IsFold
<1>2. ASSUME NEW i \in 1 .. n PROVE f[i] = Folded(f[i - 1], batch[i])
  <2>1. i \in 0 .. n /\ i # 0
    OBVIOUS
  <2> QED BY <2>1 DEF IsFold
<1> QED BY <1>1, <1>2

LEMMA FoldedInIs ==
    ASSUME NEW m, NEW batch, Len(batch) \in Nat
    PROVE  \E f : IsFold(f, m, batch, Len(batch)) /\ FoldedIn(m, batch) = f[Len(batch)]
<1>1. \E f : IsFold(f, m, batch, Len(batch))
  BY FoldExists
<1> QED BY <1>1 DEF FoldedIn, IsFold

(* What the whole batch does.                                              *)
LEMMA FoldedInSound ==
    ASSUME NEW U, NEW A, NEW m, Sound(m, U, A, {}), NEW batch, Len(batch) \in Nat,
           \A i \in 1 .. Len(batch) : /\ SignalOK(m, U, A, batch[i])
                                      /\ batch[i].goal \in 0 .. Len(m.goals)
    PROVE  LET n == FoldedIn(m, batch)
           IN  /\ Sound(n, U, A, {}) /\ Keeps(m, n, U) /\ Calms(m, n)
               /\ \A i \in 1 .. Len(batch) : Taken(n, U, batch[i])
<1> DEFINE N == Len(batch)
<1>1. PICK f : IsFold(f, m, batch, N) /\ FoldedIn(m, batch) = f[N]
  BY FoldedInIs
<1>2. f[0] = m /\ \A i \in 1 .. N : f[i] = Folded(f[i - 1], batch[i])
  <2>1. N \in Nat
    OBVIOUS
  <2> HIDE DEF N
  <2> QED BY <1>1, <2>1, FoldSteps
<1> DEFINE Good(n, i) == /\ Sound(n, U, A, {}) /\ Keeps(m, n, U) /\ Calms(m, n)
                         /\ \A j \in 1 .. i : Taken(n, U, batch[j])
           T == {i \in Nat : i <= N /\ ~Good(f[i], i)}
<1>3. T = {}
  <2> SUFFICES ASSUME T # {} PROVE FALSE
    OBVIOUS
  <2>1. PICK k \in T : \A j \in Nat : j < k => j \notin T
    <3> HIDE DEF T
    <3> T \subseteq Nat BY DEF T
    <3> QED BY Least
  <2>2. k \in Nat /\ k <= N /\ ~Good(f[k], k)
    OBVIOUS
  <2>3. Good(f[0], 0)
    BY <1>2, KeepsItself
  <2>4. k # 0 /\ k \in 1 .. N /\ k - 1 \in Nat /\ k - 1 < k /\ k - 1 <= N
    BY <2>2, <2>3
  <2>5. Good(f[k - 1], k - 1)
    BY <2>1, <2>4
  <2> DEFINE q == f[k - 1]
             n == f[k]
             sig == batch[k]
  <2>6. n = Folded(q, sig)
    BY <1>2, <2>4
  <2> HIDE DEF q, n, T
  <2>7. Sound(q, U, A, {}) /\ Keeps(m, q, U) /\ Calms(m, q)
        /\ \A j \in 1 .. (k - 1) : Taken(q, U, batch[j])
    BY <2>5 DEF q
  <2>8. SignalOK(m, U, A, sig) /\ sig.goal \in 0 .. Len(m.goals)
    BY <2>4
  <2>9. SignalOK(q, U, A, sig)
    <3>1. IsMind(m) /\ IsMind(q)
      BY <2>7 DEF Sound
    <3>2. DOMAIN m.goals = 1 .. Len(m.goals) /\ DOMAIN q.goals = 1 .. Len(q.goals)
      BY <3>1, MindIs
    <3>3. sig.goal \in DOMAIN q.goals => sig.goal \in DOMAIN m.goals
      BY <3>2, <2>8
    <3> HIDE DEF sig
    <3> QED BY <2>7, <2>8, <3>3, SignalStillOK
  <2>10. Sound(n, U, A, {}) /\ Keeps(q, n, U) /\ Calms(q, n) /\ Taken(n, U, sig)
    <3> HIDE DEF sig
    <3> QED BY <2>6, <2>7, <2>9, FoldedIs
  <2>11. Keeps(m, n, U) /\ Calms(m, n)
    BY <2>7, <2>10, KeepsOn, CalmsOn
  <2>12. \A j \in 1 .. (k - 1) : Taken(n, U, batch[j])
    BY <2>7, <2>10, StillTaken
  <2>13. \A j \in 1 .. k : Taken(n, U, batch[j])
    BY <2>4, <2>10, <2>12
  <2>14. Good(n, k)
    BY <2>10, <2>11, <2>13
  <2> QED BY <2>2, <2>14 DEF n
<1>4. N \in Nat /\ N <= N
  OBVIOUS
<1>5. Good(f[N], N)
  BY <1>3, <1>4
<1> QED BY <1>1, <1>5

-----------------------------------------------------------------------------
(* reconsider: what is stale is closed, and then hands its picture on.     *)
LEMMA DroppedIs ==
    ASSUME NEW U, NEW A, NEW m, Sound(m, U, A, {}),
           NEW stale, stale \subseteq DOMAIN m.goals
    PROVE  LET n == Dropped(m, stale)
           IN  /\ Sound(n, U, A, stale) /\ Keeps(m, n, U) /\ Calms(m, n)
               /\ \A g \in stale : ~Open(n, g)
<1> DEFINE n == Dropped(m, stale)
           L(g) == IF g \in stale THEN [m.goals[g] EXCEPT !.state = "abandoned"] ELSE m.goals[g]
<1>1. /\ IsMind(m) /\ Len(m.goals) \in Nat /\ DOMAIN m.goals = 1 .. Len(m.goals)
      /\ DOMAIN m = {"goals", "wakeups", "shelved"}
      /\ m.wakeups \subseteq DOMAIN m.goals /\ m.shelved \subseteq Pictures
      /\ "abandoned" \in OpenStates \cup Shut /\ "abandoned" \notin OpenStates
  BY MindIs DEF Sound, IsMind, Shut, OpenStates
<1>2. n.goals = [g \in DOMAIN m.goals |-> L(g)] /\ n.wakeups = m.wakeups /\ n.shelved = m.shelved
      /\ DOMAIN n = {"goals", "wakeups", "shelved"}
  BY <1>1 DEF Dropped
<1>3. ASSUME NEW g \in DOMAIN m.goals
      PROVE  /\ L(g) \in Line /\ Named(m.goals[g], L(g)) /\ L(g).picture = m.goals[g].picture
             /\ L(g).offered = m.goals[g].offered /\ L(g).telling = m.goals[g].telling
             /\ L(g).shown = m.goals[g].shown
             /\ (g \notin stale => L(g) = m.goals[g])
             /\ (g \in stale => L(g).state = "abandoned")
  <2>1. m.goals[g] \in Line
    BY <1>1, MindIs
  <2>2. CASE g \in stale
    <3>1. L(g) = [m.goals[g] EXCEPT !.state = "abandoned"]
      BY <2>2
    <3> HIDE DEF L, Line
    <3> QED BY <1>1, <2>1, <2>2, <3>1, LineMoved
  <2>3. CASE g \notin stale
    <3>1. L(g) = m.goals[g]
      BY <2>3
    <3> HIDE DEF L, Line
    <3> QED BY <2>1, <2>3, <3>1 DEF Named
  <2> QED BY <2>2, <2>3
<1> HIDE DEF n, L, Line
<1>4. IsMind(n) /\ DOMAIN n.goals = DOMAIN m.goals /\ Len(n.goals) = Len(m.goals)
  <2>1. n.goals \in Seq(Line) /\ Len(n.goals) = Len(m.goals)
    <3>1. n.goals \in [1 .. Len(m.goals) -> Line]
      BY <1>1, <1>2, <1>3
    <3> QED BY <3>1, <1>1, IsASeq, LenProperties
  <2> QED BY <2>1, <1>1, <1>2 DEF IsMind
<1>5. \A g \in DOMAIN m.goals : n.goals[g] = L(g)
  BY <1>2
<1>6. \A g \in DOMAIN m.goals : /\ Open(n, g) => Open(m, g)
                                /\ Open(m, g) => Open(n, g) \/ g \in stale
  BY <1>1, <1>3, <1>4, <1>5 DEF Open
<1>7. Sound(n, U, A, stale) /\ Keeps(m, n, U)
  <2>1. ASSUME NEW h \in DOMAIN m.goals
        PROVE  /\ Named(m.goals[h], n.goals[h])
               /\ n.goals[h].picture = m.goals[h].picture
               /\ n.goals[h].offered = m.goals[h].offered
               /\ n.goals[h].telling = m.goals[h].telling
               /\ n.goals[h].shown => m.goals[h].shown \/ m.goals[h].picture \notin U
               /\ Open(n, h) => Open(m, h)
               /\ Open(m, h) => Open(n, h) \/ h \in stale \/ m.goals[h].picture \notin U
    <3>1. n.goals[h] = L(h)
      BY <1>5
    <3>2. n.goals[h].shown => m.goals[h].shown
      BY <3>1, <1>3, Zenon
    <3> QED BY <1>3, <1>6, <3>1, <3>2
  <2>2. {} \subseteq stale
    OBVIOUS
  <2>3. Closes(m, n, U, stale)
    BY <1>2, <1>4, <2>1 DEF Closes
  <2> QED BY <2>2, <2>3, MapSound
<1>8. Calms(m, n)
  BY <1>2, <1>3, <1>4, <1>5, <1>6 DEF Calms, Named
<1>9. \A g \in stale : ~Open(n, g)
  BY <1>1, <1>3, <1>4, <1>5 DEF Open
<1> QED BY <1>7, <1>8, <1>9 DEF n

LEMMA RescueIs ==
    ASSUME NEW U, NEW A, NEW R, NEW m, Sound(m, U, A, R), NEW g \in DOMAIN m.goals,
           NEW stale, g \in stale => g \in R, g \in R => ~Open(m, g) /\ g \in stale
    PROVE  LET n == Rescue(m, g, stale)
           IN  Sound(n, U, A, R \ {g}) /\ Keeps(m, n, U) /\ Calms(m, n)
<1> DEFINE n == Rescue(m, g, stale)
<1>1. CASE g \in stale
  <2>1. n = OfferThePicture(m, g, m.goals[g])
    BY <1>1 DEF Rescue
  <2>2. CopyOf(m, g, m.goals[g]) /\ (NoNews(m, g) \/ m.goals[g].picture = NoPicture)
    BY DEF CopyOf, Sound, OneFollowUp
  <2>3. Sound(n, U, A, R) /\ Passed(n, U, R, g) /\ Keeps(m, n, U) /\ Calms(m, n)
    BY <1>1, <2>1, <2>2, OfferIs
  <2> HIDE DEF n
  <2>4. g \in DOMAIN n.goals /\ ~Open(n, g)
    BY <1>1, <2>3 DEF Keeps, Calms
  <2>5. Sound(n, U, A, R \ {g})
    BY <2>3, <2>4, ReleaseSound
  <2> QED BY <2>3, <2>5 DEF n
<1>2. CASE g \notin stale
  <2>1. n = m
    BY <1>2 DEF Rescue
  <2>2. R \ {g} = R
    BY <1>2
  <2> HIDE DEF n
  <2>3. Sound(n, U, A, R \ {g})
    <3> HIDE DEF Sound
    <3> QED BY <2>1, <2>2
  <2> QED BY <2>1, <2>3, KeepsItself DEF n
<1> QED BY <1>1, <1>2

IsRescue(f, m, stale, n) ==
    f = [g \in 0 .. n |-> IF g = 0 THEN m ELSE Rescue(f[g - 1], g, stale)]

LEMMA RescueExists ==
    ASSUME NEW m, NEW stale, NEW n \in Nat
    PROVE  \E f : IsRescue(f, m, stale, n)
<1> DEFINE T == {k \in Nat : ~ \E f : IsRescue(f, m, stale, k)}
<1> SUFFICES ASSUME T # {} PROVE FALSE
  OBVIOUS
<1>1. PICK k \in T : \A j \in Nat : j < k => j \notin T
  <2> HIDE DEF T
  <2> T \subseteq Nat BY DEF T
  <2> QED BY Least
<1>2. CASE k = 0
  <2> DEFINE f == [i \in 0 .. 0 |-> m]
  <2>1. IsRescue(f, m, stale, 0)
    BY DEF IsRescue
  <2> QED BY <2>1, <1>2
<1>3. CASE k # 0
  <2>1. PICK f : IsRescue(f, m, stale, k - 1)
    BY <1>1, <1>3
  <2> DEFINE h == [i \in 0 .. k |-> IF i = k THEN Rescue(f[k - 1], k, stale) ELSE f[i]]
  <2>2. IsRescue(h, m, stale, k)
    <3>1. ASSUME NEW i \in 0 .. k PROVE h[i] = IF i = 0 THEN m ELSE Rescue(h[i - 1], i, stale)
      BY <2>1, <1>3 DEF IsRescue
    <3> QED BY <3>1 DEF IsRescue
  <2> QED BY <2>2
<1> QED BY <1>2, <1>3

LEMMA RescuedIs ==
    ASSUME NEW m, NEW stale, Len(m.goals) \in Nat
    PROVE  \E f : IsRescue(f, m, stale, Len(m.goals)) /\ Rescued(m, stale) = f[Len(m.goals)]
<1>1. \E f : IsRescue(f, m, stale, Len(m.goals))
  BY RescueExists
<1> QED BY <1>1 DEF Rescued, IsRescue

LEMMA RescuedSound ==
    ASSUME NEW U, NEW A, NEW m, NEW stale, Sound(m, U, A, stale),
           stale \subseteq DOMAIN m.goals, \A g \in stale : ~Open(m, g)
    PROVE  LET n == Rescued(m, stale)
           IN  Sound(n, U, A, {}) /\ Keeps(m, n, U) /\ Calms(m, n)
<1> DEFINE N == Len(m.goals)
<1>0. N \in Nat /\ DOMAIN m.goals = 1 .. N
  BY MindIs DEF Sound
<1>1. PICK f : IsRescue(f, m, stale, N) /\ Rescued(m, stale) = f[N]
  BY <1>0, RescuedIs
<1> DEFINE Good(n, i) == Sound(n, U, A, stale \ (1 .. i)) /\ Keeps(m, n, U) /\ Calms(m, n)
           T == {i \in Nat : i <= N /\ ~Good(f[i], i)}
<1>2. f[0] = m /\ \A i \in 1 .. N : f[i] = Rescue(f[i - 1], i, stale)
  BY <1>0, <1>1 DEF IsRescue
<1>3. T = {}
  <2> SUFFICES ASSUME T # {} PROVE FALSE
    OBVIOUS
  <2>1. PICK k \in T : \A j \in Nat : j < k => j \notin T
    <3> HIDE DEF T
    <3> T \subseteq Nat BY DEF T
    <3> QED BY Least
  <2>2. k \in Nat /\ k <= N /\ ~Good(f[k], k)
    OBVIOUS
  <2>3. Good(f[0], 0)
    <3>1. stale \ (1 .. 0) = stale
      OBVIOUS
    <3>2. Sound(m, U, A, stale \ (1 .. 0))
      <4> HIDE DEF Sound
      <4> QED BY <3>1
    <3>3. Keeps(m, m, U) /\ Calms(m, m)
      BY KeepsItself
    <3>4. f[0] = m
      BY <1>2
    <3>5. Sound(f[0], U, A, stale \ (1 .. 0)) /\ Keeps(m, f[0], U) /\ Calms(m, f[0])
      BY <3>2, <3>3, <3>4
    <3> QED BY <3>5
  <2>4. k # 0 /\ k \in 1 .. N /\ k - 1 \in Nat /\ k - 1 < k /\ k - 1 <= N
    <3> HIDE DEF Good
    <3> QED BY <1>0, <2>2, <2>3
  <2>5. Good(f[k - 1], k - 1)
    BY <2>1, <2>4
  <2> DEFINE q == f[k - 1]
             n == f[k]
             R == stale \ (1 .. (k - 1))
  <2>6. n = Rescue(q, k, stale)
    BY <1>2, <2>4
  <2>7. R \ {k} = stale \ (1 .. k) /\ (k \in stale => k \in R) /\ (k \in R => k \in stale)
    BY <2>4
  <2> HIDE DEF q, n, T, R
  <2>8. Sound(q, U, A, R) /\ Keeps(m, q, U) /\ Calms(m, q)
    BY <2>5 DEF q, R
  <2>9. k \in DOMAIN q.goals
    BY <1>0, <2>4, <2>8 DEF Keeps
  <2>10. k \in R => ~Open(q, k)
    BY <1>0, <2>4, <2>7, <2>8 DEF Calms
  <2>11. Sound(n, U, A, R \ {k}) /\ Keeps(q, n, U) /\ Calms(q, n)
    BY <2>6, <2>7, <2>8, <2>9, <2>10, RescueIs
  <2>12. Keeps(m, n, U) /\ Calms(m, n)
    BY <2>8, <2>11, KeepsOn, CalmsOn
  <2>13. Sound(n, U, A, stale \ (1 .. k))
    <3> HIDE DEF Sound
    <3> QED BY <2>7, <2>11
  <2> QED BY <2>2, <2>12, <2>13 DEF n
<1>4. N \in Nat /\ N <= N
  BY <1>0
<1>5. Good(f[N], N)
  BY <1>3, <1>4
<1>6. stale \ (1 .. N) = {}
  BY <1>0
<1>7. Sound(f[N], U, A, {})
  <2> HIDE DEF Sound
  <2> QED BY <1>5, <1>6
<1> QED BY <1>1, <1>5, <1>7

LEMMA ReconsideredIs ==
    ASSUME NEW U, NEW A, NEW m, Sound(m, U, A, {}), NEW stale, stale \subseteq Sweepable(m)
    PROVE  LET n == Reconsidered(m, stale)
           IN  Sound(n, U, A, {}) /\ Keeps(m, n, U) /\ Calms(m, n)
<1> DEFINE d == Dropped(m, stale)
           n == Reconsidered(m, stale)
<1>1. stale \subseteq DOMAIN m.goals
  BY DEF Sweepable
<1>2. /\ Sound(d, U, A, stale) /\ Keeps(m, d, U) /\ Calms(m, d)
      /\ \A g \in stale : ~Open(d, g)
  BY <1>1, DroppedIs
<1>3. n = Rescued(d, stale)
  BY DEF Reconsidered
<1> HIDE DEF d, n
<1>4. stale \subseteq DOMAIN d.goals
  BY <1>1, <1>2 DEF Keeps
<1>5. Sound(n, U, A, {}) /\ Keeps(d, n, U) /\ Calms(d, n)
  BY <1>2, <1>3, <1>4, RescuedSound
<1>6. Keeps(m, n, U) /\ Calms(m, n)
  BY <1>2, <1>5, KeepsOn, CalmsOn
<1> QED BY <1>5, <1>6 DEF n

-----------------------------------------------------------------------------
(* settle_strays: one line of it.                                          *)
Settles(m, n, g) ==
    /\ \A h \in DOMAIN m.goals : h # g => n.goals[h] = m.goals[h]
    /\ m.goals[g].origin = "told" /\ Open(n, g) => n = m /\ Awaited(m, g)
    /\ m.goals[g].origin # "told" =>
          n.goals[g] = m.goals[g] \/ ~Open(m, m.goals[g].telling)

LEMMA SettleStrayIs ==
    ASSUME NEW U, NEW A, NEW m, Sound(m, U, A, {}), NEW g \in DOMAIN m.goals
    PROVE  LET n == SettleStray(m, g)
           IN  Sound(n, U, A, {}) /\ Keeps(m, n, U) /\ Calms(m, n) /\ Settles(m, n, g)
<1> DEFINE n == SettleStray(m, g)
           o == OfferThePicture(m, g, m.goals[g])
           k == Moved(o, g, "abandoned")
           words == m.goals[g].origin = "told"
<1>1. CASE n = m /\ (words /\ Open(m, g) => Awaited(m, g))
  <2>1. Settles(m, m, g)
    BY <1>1 DEF Settles
  <2> QED BY <1>1, <2>1, KeepsItself
<1>2. CASE n = Asleep(k, g) /\ Open(m, g) /\ words
  <2>1. /\ Sound(k, U, A, {}) /\ Keeps(m, k, U) /\ Calms(m, k) /\ ~Open(k, g)
        /\ Offers(m, o, g) /\ Restated(o, k, g, "abandoned")
    BY <1>2, HandedOnAndShut
  <2> HIDE DEF k, n, o
  <2>2. g \in DOMAIN k.goals => k.goals[g].state # "waiting"
    BY <2>1 DEF Open, OpenStates
  <2>3. Sound(n, U, A, {}) /\ Keeps(k, n, U) /\ Calms(k, n) /\ n.goals = k.goals
    BY <1>2, <2>1, <2>2, AsleepSound
  <2>4. Keeps(m, n, U) /\ Calms(m, n)
    BY <2>1, <2>3, KeepsOn, CalmsOn
  <2>5. Settles(m, n, g)
    BY <1>2, <2>1, <2>3 DEF Settles, Offers, Restated, Open
  <2> QED BY <2>3, <2>4, <2>5 DEF n
<1>3. CASE /\ n = ResumeAfterTelling(m, g, FALSE) /\ Open(m, g) /\ ~words
           /\ ~Open(m, m.goals[g].telling)
  <2>1. FALSE \in BOOLEAN
    OBVIOUS
  <2>2. /\ Sound(n, U, A, {}) /\ Keeps(m, n, U) /\ Calms(m, n)
        /\ \A h \in DOMAIN m.goals : h # g => n.goals[h] = m.goals[h]
    <3> HIDE DEF n
    <3>1. \A d \in BOOLEAN : LET r == ResumeAfterTelling(m, g, d)
              IN  /\ Sound(r, U, A, {}) /\ Keeps(m, r, U) /\ Calms(m, r)
                  /\ \A h \in DOMAIN m.goals : h # g => r.goals[h] = m.goals[h]
      BY <1>3, ResumeIs
    <3> QED BY <1>3, <2>1, <3>1
  <2>3. Settles(m, n, g)
    BY <1>3, <2>2 DEF Settles
  <2> QED BY <2>2, <2>3
<1>4. \/ n = m /\ (words /\ Open(m, g) => Awaited(m, g))
      \/ n = Asleep(k, g) /\ Open(m, g) /\ words
      \/ /\ n = ResumeAfterTelling(m, g, FALSE) /\ Open(m, g) /\ ~words
         /\ ~Open(m, m.goals[g].telling)
  BY Zenon DEF SettleStray
<1> QED BY <1>1, <1>2, <1>3, <1>4

LEMMA StillAwaited ==
    ASSUME NEW U, NEW A, NEW m, Sound(m, U, A, {}), NEW n, NEW g \in DOMAIN m.goals,
           Keeps(m, n, U), Settles(m, n, g),
           NEW t \in DOMAIN m.goals, t # g, Awaited(m, t), Open(n, t)
    PROVE  Awaited(n, t)
<1> DEFINE q == m.goals[t].of
<1>1. m.goals[t].origin = "told" /\ Open(m, q) /\ m.goals[q].telling = t
  BY DEF Awaited
<1>2. q \in DOMAIN m.goals /\ q \in DOMAIN n.goals /\ n.goals[t] = m.goals[t]
  BY <1>1 DEF Open, Keeps, Settles
<1>3. m.goals[q].origin # "told"
  BY <1>1 DEF Sound, Rooted, IsTask
<1>4. Open(m, t)
  BY <1>2 DEF Open
<1>5. n.goals[q] = m.goals[q]
  BY <1>1, <1>2, <1>3, <1>4 DEF Settles
<1> QED BY <1>1, <1>2, <1>5 DEF Awaited, Open

IsSettling(f, m, n) == f = [g \in 0 .. n |-> IF g = 0 THEN m ELSE SettleStray(f[g - 1], g)]

LEMMA SettlingExists ==
    ASSUME NEW m, NEW n \in Nat
    PROVE  \E f : IsSettling(f, m, n)
<1> DEFINE T == {k \in Nat : ~ \E f : IsSettling(f, m, k)}
<1> SUFFICES ASSUME T # {} PROVE FALSE
  OBVIOUS
<1>1. PICK k \in T : \A j \in Nat : j < k => j \notin T
  <2> HIDE DEF T
  <2> T \subseteq Nat BY DEF T
  <2> QED BY Least
<1>2. CASE k = 0
  <2> DEFINE f == [i \in 0 .. 0 |-> m]
  <2>1. IsSettling(f, m, 0)
    BY DEF IsSettling
  <2> QED BY <2>1, <1>2
<1>3. CASE k # 0
  <2>1. PICK f : IsSettling(f, m, k - 1)
    BY <1>1, <1>3
  <2> DEFINE h == [i \in 0 .. k |-> IF i = k THEN SettleStray(f[k - 1], k) ELSE f[i]]
  <2>2. IsSettling(h, m, k)
    <3>1. ASSUME NEW i \in 0 .. k PROVE h[i] = IF i = 0 THEN m ELSE SettleStray(h[i - 1], i)
      BY <2>1, <1>3 DEF IsSettling
    <3> QED BY <3>1 DEF IsSettling
  <2> QED BY <2>2
<1> QED BY <1>2, <1>3

LEMMA SettleStraysIs ==
    ASSUME NEW m, Len(m.goals) \in Nat
    PROVE  \E f : IsSettling(f, m, Len(m.goals)) /\ SettleStrays(m) = f[Len(m.goals)]
<1>1. \E f : IsSettling(f, m, Len(m.goals))
  BY SettlingExists
<1> QED BY <1>1 DEF SettleStrays, IsSettling

AllAwaited(m) == \A t \in DOMAIN m.goals :
                    m.goals[t].origin = "told" /\ Open(m, t) => Awaited(m, t)

LEMMA SettleStraysSound ==
    ASSUME NEW U, NEW A, NEW m, Sound(m, U, A, {})
    PROVE  LET n == SettleStrays(m)
           IN  Sound(n, U, A, {}) /\ Keeps(m, n, U) /\ Calms(m, n) /\ AllAwaited(n)
<1> DEFINE N == Len(m.goals)
<1>0. N \in Nat /\ DOMAIN m.goals = 1 .. N
  BY MindIs DEF Sound
<1>1. PICK f : IsSettling(f, m, N) /\ SettleStrays(m) = f[N]
  BY <1>0, SettleStraysIs
<1> DEFINE UpTo(n, i) == \A t \in DOMAIN n.goals :
                            t <= i /\ n.goals[t].origin = "told" /\ Open(n, t) => Awaited(n, t)
           Good(n, i) == Sound(n, U, A, {}) /\ Keeps(m, n, U) /\ Calms(m, n) /\ UpTo(n, i)
           T == {i \in Nat : i <= N /\ ~Good(f[i], i)}
<1>2. f[0] = m /\ \A i \in 1 .. N : f[i] = SettleStray(f[i - 1], i)
  BY <1>0, <1>1 DEF IsSettling
<1>3. T = {}
  <2> SUFFICES ASSUME T # {} PROVE FALSE
    OBVIOUS
  <2>1. PICK k \in T : \A j \in Nat : j < k => j \notin T
    <3> HIDE DEF T
    <3> T \subseteq Nat BY DEF T
    <3> QED BY Least
  <2>2. k \in Nat /\ k <= N /\ ~Good(f[k], k)
    OBVIOUS
  <2>3. Good(f[0], 0)
    <3>1. f[0] = m
      BY <1>2
    <3>2. UpTo(m, 0)
      BY <1>0
    <3> HIDE DEF UpTo
    <3>3. Sound(f[0], U, A, {}) /\ Keeps(m, f[0], U) /\ Calms(m, f[0]) /\ UpTo(f[0], 0)
      BY <3>1, <3>2, KeepsItself
    <3> QED BY <3>3
  <2>4. k # 0 /\ k \in 1 .. N /\ k - 1 \in Nat /\ k - 1 < k /\ k - 1 <= N
    <3> HIDE DEF Good
    <3> QED BY <1>0, <2>2, <2>3
  <2>5. Good(f[k - 1], k - 1)
    BY <2>1, <2>4
  <2> DEFINE q == f[k - 1]
             n == f[k]
  <2>6. n = SettleStray(q, k)
    BY <1>2, <2>4
  <2> HIDE DEF q, n, T, UpTo
  <2>7. Sound(q, U, A, {}) /\ Keeps(m, q, U) /\ Calms(m, q) /\ UpTo(q, k - 1)
    BY <2>5 DEF q
  <2>8. k \in DOMAIN q.goals
    BY <1>0, <2>4, <2>7 DEF Keeps
  <2>9. Sound(n, U, A, {}) /\ Keeps(q, n, U) /\ Calms(q, n) /\ Settles(q, n, k)
    BY <2>6, <2>7, <2>8, SettleStrayIs
  <2>10. Keeps(m, n, U) /\ Calms(m, n)
    BY <2>7, <2>9, KeepsOn, CalmsOn
  <2>11. UpTo(n, k)
    <3> SUFFICES ASSUME NEW t \in DOMAIN n.goals, t <= k, n.goals[t].origin = "told", Open(n, t)
                 PROVE  Awaited(n, t)
      BY DEF UpTo
    <3>1. t \in DOMAIN q.goals /\ q.goals[t].origin = "told"
      BY <2>9 DEF Calms, Keeps, Named
    <3>2. CASE t = k
      BY <3>1, <3>2, <2>9 DEF Settles
    <3>3. CASE t # k
      <4>1. t \in Nat /\ t <= k - 1
        BY <3>1, <3>3, <2>2, <2>7, MindIs DEF Sound
      <4>2. Open(q, t)
        BY <3>1, <3>3, <2>9 DEF Settles, Open
      <4>3. Awaited(q, t)
        BY <4>1, <4>2, <3>1, <2>7 DEF UpTo
      <4> QED BY <4>3, <3>1, <3>3, <2>7, <2>8, <2>9, StillAwaited
    <3> QED BY <3>2, <3>3
  <2> QED BY <2>2, <2>9, <2>10, <2>11 DEF n
<1>4. N \in Nat /\ N <= N
  BY <1>0
<1>5. Good(f[N], N)
  BY <1>3, <1>4
<1>6. AllAwaited(f[N])
  <2> DEFINE n == f[N]
  <2>1. Calms(m, n) /\ UpTo(n, N)
    BY <1>5
  <2> HIDE DEF n
  <2>2. \A t \in DOMAIN n.goals : n.goals[t].origin = "told" => t <= N
    BY <1>0, <2>1 DEF Calms
  <2>3. AllAwaited(n)
    BY <2>1, <2>2 DEF AllAwaited
  <2> QED BY <2>3 DEF n
<1> QED BY <1>1, <1>5, <1>6

-----------------------------------------------------------------------------
(* What was posted, or has landed, in the meantime.                        *)
LEMMA SoundSince ==
    ASSUME NEW U, NEW A, NEW R, NEW m, Sound(m, U, A, R),
           NEW V, NEW B, A \subseteq B, B \subseteq Pictures, V \subseteq B,
           V \cap A \subseteq U
    PROVE  Sound(m, V, B, R)
<1>1. NoPicture \notin Pictures /\ IsMind(m)
  BY ErrandsAssumption DEF Sound
<1>2. \A g \in DOMAIN m.goals : m.goals[g].picture \in V => m.goals[g].picture \in U
  BY <1>1 DEF Sound, Rooted
<1>3. Rooted(m, B)
  BY DEF Sound, Rooted
<1>4. HandsOn(m, V, R)
  BY <1>2 DEF Sound, HandsOn, Passed, Live
<1>5. WordsHoldWhatIsOffered(m, V)
  BY <1>2 DEF Sound, WordsHoldWhatIsOffered
<1>6. StraysHoldTheirs(m, V)
  BY DEF Sound, Rooted, StraysHoldTheirs, Live
<1>7. ShownIsSent(m, V)
  BY <1>2 DEF Sound, ShownIsSent
<1> QED BY <1>1, <1>3, <1>4, <1>5, <1>6, <1>7 DEF Sound

-----------------------------------------------------------------------------
(* picture_shown.                                                          *)
Sees(m, n) ==
    /\ Len(n.goals) = Len(m.goals) /\ n.wakeups = m.wakeups /\ n.shelved = m.shelved
    /\ \A h \in DOMAIN m.goals : /\ n.goals[h].picture = m.goals[h].picture
                                 /\ n.goals[h].offered = m.goals[h].offered
                                 /\ m.goals[h].shown => n.goals[h].shown

LEMMA ShownIs ==
    ASSUME NEW U, NEW A, NEW m, Sound(m, U, A, {}), NEW p, p \notin U
    PROVE  LET n == PictureShown(m, p)
           IN  Sound(n, U, A, {}) /\ Keeps(m, n, U) /\ Calms(m, n) /\ Sees(m, n)
<1> DEFINE n == PictureShown(m, p)
           L(g) == Seen(m.goals[g], p)
<1>1. /\ IsMind(m) /\ Len(m.goals) \in Nat /\ DOMAIN m.goals = 1 .. Len(m.goals)
      /\ DOMAIN m = {"goals", "wakeups", "shelved"}
      /\ m.wakeups \subseteq DOMAIN m.goals /\ m.shelved \subseteq Pictures
      /\ "done" \notin OpenStates /\ "done" # "waiting"
  BY MindIs DEF Sound, IsMind, OpenStates
<1>2. CASE p = NoPicture
  <2>1. n = m
    BY <1>2 DEF PictureShown
  <2>2. Sees(m, m)
    BY DEF Sees
  <2> HIDE DEF n
  <2> QED BY <2>1, <2>2, KeepsItself DEF n
<1>3. CASE p # NoPicture
  <2>1. n.goals = [g \in DOMAIN m.goals |-> L(g)] /\ n.wakeups = m.wakeups
        /\ n.shelved = m.shelved /\ DOMAIN n = {"goals", "wakeups", "shelved"}
    BY <1>1, <1>3 DEF PictureShown
  <2>2. ASSUME NEW g \in DOMAIN m.goals
        PROVE  /\ L(g) \in Line /\ Named(m.goals[g], L(g)) /\ L(g).picture = m.goals[g].picture
               /\ L(g).offered = m.goals[g].offered /\ L(g).telling = m.goals[g].telling
               /\ L(g).state = m.goals[g].state
                  \/ (L(g).state = "done" /\ m.goals[g].picture = p)
    <3>1. m.goals[g] \in Line
      BY <1>1, MindIs
    <3> HIDE DEF Line
    <3> QED BY <3>1, LineSeen
  <2>3. ASSUME NEW g \in DOMAIN m.goals
        PROVE  /\ m.goals[g].shown => L(g).shown
               /\ L(g).shown => m.goals[g].shown \/ m.goals[g].picture \notin U
    <3>1. m.goals[g] \in Line
      BY <1>1, MindIs
    <3> DEFINE x == m.goals[g]
               y == Seen(x, p)
    <3>2. y.shown = x.shown \/ x.picture = p
      BY <3>1, LineSeen
    <3>3. x.shown => y.shown
      BY <3>1, LineSeen
    <3> HIDE DEF x, y
    <3>4. y.shown => x.shown \/ x.picture = p
      BY <3>2, Zenon
    <3> QED BY <3>3, <3>4 DEF x, y
  <2> HIDE DEF n, L, Line
  <2>4. IsMind(n) /\ DOMAIN n.goals = DOMAIN m.goals /\ Len(n.goals) = Len(m.goals)
    <3>1. n.goals \in [1 .. Len(m.goals) -> Line]
      BY <1>1, <2>1, <2>2
    <3>2. n.goals \in Seq(Line) /\ Len(n.goals) = Len(m.goals)
      BY <3>1, <1>1, IsASeq, LenProperties
    <3> QED BY <3>2, <1>1, <2>1 DEF IsMind
  <2>5. \A g \in DOMAIN m.goals : n.goals[g] = L(g)
    BY <2>1
  <2>6. \A g \in DOMAIN m.goals : /\ Open(n, g) => Open(m, g)
                                  /\ Open(m, g) => Open(n, g) \/ m.goals[g].picture \notin U
    BY <1>1, <2>2, <2>4, <2>5 DEF Open
  <2>7. Closes(m, n, U, {})
    <3>1. ASSUME NEW h \in DOMAIN m.goals
          PROVE  n.goals[h].shown => m.goals[h].shown \/ m.goals[h].picture \notin U
      BY <2>3, <2>5
    <3> QED BY <2>1, <2>2, <2>4, <2>5, <2>6, <3>1 DEF Closes
  <2>8. Sound(n, U, A, {}) /\ Keeps(m, n, U)
    BY <2>7, MapSound
  <2>9. Calms(m, n)
    BY <1>1, <2>1, <2>2, <2>4, <2>5, <2>6 DEF Calms, Named
  <2>10. Sees(m, n)
    <3>1. \A h \in DOMAIN m.goals : m.goals[h].shown => n.goals[h].shown
      BY <2>3, <2>5
    <3> QED BY <2>1, <2>2, <2>4, <2>5, <3>1 DEF Sees
  <2> QED BY <2>8, <2>9, <2>10 DEF n
<1> QED BY <1>2, <1>3

(* A goal whose picture is posted is done, and so are its other holders.   *)
LEMMA DeliveredIs ==
    ASSUME NEW U, NEW A, NEW m, Sound(m, U, A, {}), NEW g \in DOMAIN m.goals,
           NEW p, p = m.goals[g].picture, p \notin U
    PROVE  LET n == Delivered(m, g, p)
           IN  /\ Sound(n, U, A, {}) /\ Keeps(m, n, U) /\ Calms(m, n) /\ Sees(m, n)
<1> DEFINE k == Moved(m, g, "done")
           n == Delivered(m, g, p)
<1>1. IsMind(m) /\ "done" \in OpenStates \cup Shut /\ "done" \notin OpenStates /\ "done" # "waiting"
  BY DEF Sound, OpenStates, Shut
<1>2. Restated(m, k, g, "done")
  BY <1>1, MovedIs
<1>3. n = PictureShown(k, p)
  BY DEF Delivered
<1> HIDE DEF k, n
<1>4. Passed(m, U, {}, g)
  BY DEF Passed, Live
<1>5. Sound(k, U, A, {}) /\ Keeps(m, k, U) /\ Calms(m, k)
  BY <1>1, <1>2, <1>4, MovedSound, RestatedCalms
<1>6. Sound(n, U, A, {}) /\ Keeps(k, n, U) /\ Calms(k, n) /\ Sees(k, n)
  BY <1>3, <1>5, ShownIs
<1>7. Keeps(m, n, U) /\ Calms(m, n)
  BY <1>5, <1>6, KeepsOn, CalmsOn
<1>8. Sees(m, n)
  <2>1. DOMAIN k.goals = DOMAIN m.goals /\ Len(k.goals) = Len(m.goals)
        /\ k.wakeups = m.wakeups /\ k.shelved = m.shelved
        /\ \A h \in DOMAIN m.goals : /\ k.goals[h].picture = m.goals[h].picture
                                     /\ k.goals[h].offered = m.goals[h].offered
    BY <1>2 DEF Restated
  <2>2. ASSUME NEW h \in DOMAIN m.goals, m.goals[h].shown
        PROVE  n.goals[h].shown
    <3>1. k.goals[h].shown = m.goals[h].shown
      BY <1>2 DEF Restated
    <3>2. k.goals[h].shown
      BY <3>1, <2>2, Zenon
    <3> QED BY <3>2, <2>1, <1>6 DEF Sees
  <2> QED BY <2>1, <2>2, <1>6 DEF Sees
<1> QED BY <1>6, <1>7, <1>8 DEF n

-----------------------------------------------------------------------------
(* What an act about g leaves of the others: as in Calms, but for g.       *)
Stills(m, n, g) ==
    /\ \A h \in DOMAIN n.goals :
          h # g /\ n.goals[h].state = "waiting" =>
              /\ h \in DOMAIN m.goals
              /\ m.goals[h].state = "waiting"
              /\ n.goals[h].telling = m.goals[h].telling
              /\ h \in m.wakeups => h \in n.wakeups
    /\ \A h \in DOMAIN m.goals : h # g /\ ~Open(m, h) => ~Open(n, h)

LEMMA CalmsStills ==
    ASSUME NEW m, NEW n, Calms(m, n), NEW g
    PROVE  Stills(m, n, g)
  BY DEF Calms, Stills

LEMMA RestatedStills ==
    ASSUME NEW m, NEW n, NEW g, NEW s, Restated(m, n, g, s)
    PROVE  Stills(m, n, g)
  BY DEF Restated, Stills, Open

LEMMA StillsOn ==
    ASSUME NEW U, NEW m, NEW n, NEW k, NEW g, Stills(m, n, g), Stills(n, k, g),
           Keeps(m, n, U)
    PROVE  Stills(m, k, g)
<1>1. \A h \in DOMAIN m.goals : h \in DOMAIN n.goals
  BY DEF Keeps
<1>2. \A h \in DOMAIN m.goals : h # g /\ ~Open(m, h) => ~Open(k, h)
  BY <1>1 DEF Stills
<1>3. \A h \in DOMAIN k.goals :
          h # g /\ k.goals[h].state = "waiting" =>
              /\ h \in DOMAIN m.goals
              /\ m.goals[h].state = "waiting"
              /\ k.goals[h].telling = m.goals[h].telling
              /\ h \in m.wakeups => h \in k.wakeups
  BY DEF Stills
<1> QED BY <1>2, <1>3 DEF Stills

-----------------------------------------------------------------------------
(* queue_telling: the message, new or already open.                        *)
Words(n, t, g) == /\ t \in DOMAIN n.goals /\ t # g /\ Open(n, t)
                  /\ n.goals[t].origin = "told" /\ n.goals[t].of = g

LEMMA WordsAre ==
    ASSUME NEW U, NEW A, NEW m, Sound(m, U, A, {}), NEW g \in DOMAIN m.goals,
           IsTask(m.goals[g]), NoNews(m, g)
    PROVE  LET n == Added(m, NewGoal("told", g, "blind", NoPicture))
               t == CHOOSE x \in Carrying(n, [origin |-> "told", of |-> g]) : TRUE
           IN  /\ Sound(n, U, A, {}) /\ Keeps(m, n, U) /\ Stills(m, n, g) /\ NoNews(n, g)
               /\ n.goals[g] = m.goals[g] /\ Words(n, t, g)
<1> DEFINE z == NewGoal("told", g, "blind", NoPicture)
           w == [origin |-> "told", of |-> g]
           n == Added(m, z)
           t == CHOOSE x \in Carrying(n, w) : TRUE
<1>0. /\ IsMind(m) /\ Len(m.goals) \in Nat /\ DOMAIN m.goals = 1 .. Len(m.goals) /\ g \in Nat
      /\ NoPicture \notin U /\ NoPicture \in A \cup {NoPicture}
      /\ g \in Nat \cup Pictures /\ NoPicture \in Pictures \cup {NoPicture}
      /\ "told" \in Origins /\ "blind" \in {"single-minded", "open-minded", "blind"}
  BY MindIs, ErrandsAssumption DEF Sound, Origins
<1>1. z \in Line /\ z.origin = "told" /\ z.of = g /\ z.state = "pending" /\ z.picture = NoPicture
      /\ z.telling = 0 /\ ~z.shown /\ ~z.offered
  <2> HIDE DEF Line
  <2> QED BY <1>0, NewLine
<1>2. w.origin = "told" /\ w.of = g
  OBVIOUS
<1> HIDE DEF z, w, Line, n
<1>3. AddedLine(m, n, z)
  BY <1>0, <1>1, AddedIs DEF n
<1>4. Carrying(m, z) = Carrying(m, w)
  BY <1>1, <1>2 DEF Carrying
<1>5. CASE Carrying(m, z) # {}
  <2>1. n = m
    BY <1>3, <1>5 DEF AddedLine
  <2>2. t \in Carrying(n, w)
    BY <2>1, <1>4, <1>5
  <2>3. Words(n, t, g)
    BY <2>1, <2>2, <1>2 DEF Words, Carrying, IsTask
  <2>4. Stills(m, m, g)
    BY DEF Stills
  <2> QED BY <2>1, <2>3, <2>4, KeepsItself DEF n, z, w
<1>6. CASE Carrying(m, z) = {}
  <2>1. /\ \A h \in DOMAIN m.goals : h \in DOMAIN n.goals /\ n.goals[h] = m.goals[h]
        /\ n.wakeups = m.wakeups
    BY <1>3 DEF AddedLine
  <2>2. /\ Sound(n, U, A, {}) /\ Keeps(m, n, U)
        /\ Len(n.goals) = Len(m.goals) + 1 /\ DOMAIN n.goals = 1 .. Len(n.goals)
        /\ n.goals[Len(n.goals)] = z
    BY <1>0, <1>1, <1>3, <1>6, AddSound
  <2>3. /\ \A h \in DOMAIN n.goals : h \in DOMAIN m.goals \/ h = Len(n.goals)
        /\ Len(n.goals) \in DOMAIN n.goals /\ Len(n.goals) \notin DOMAIN m.goals
    BY <1>0, <2>2
  <2>4. Words(n, Len(n.goals), g)
    BY <1>1, <2>2, <2>3 DEF Words, Open, OpenStates
  <2>5. Len(n.goals) \in Carrying(n, w)
    BY <2>4, <1>2 DEF Words, Carrying
  <2>6. t \in Carrying(n, w)
    BY <2>5
  <2>7. Words(n, t, g)
    BY <2>1, <2>6, <1>2 DEF Words, Carrying, IsTask
  <2>8. Stills(m, n, g)
    BY <1>1, <2>1, <2>2, <2>3 DEF Stills, Open
  <2>9. NoNews(n, g)
    BY <1>1, <2>1, <2>2, <2>3 DEF NoNews
  <2> QED BY <2>1, <2>2, <2>7, <2>8, <2>9 DEF n, z, w
<1> QED BY <1>5, <1>6

(* The picture rides with the words: g has handed it on to t.              *)
LEMMA RideSound ==
    ASSUME NEW U, NEW A, NEW m, Sound(m, U, A, {}), NEW g \in DOMAIN m.goals,
           IsTask(m.goals[g]), ~m.goals[g].offered, NEW t, Words(m, t, g),
           NEW n, IsMind(n), DOMAIN n.goals = DOMAIN m.goals,
           Len(n.goals) = Len(m.goals), n.shelved = m.shelved,
           \A h \in DOMAIN m.goals : h # g /\ h # t => n.goals[h] = m.goals[h],
           Named(m.goals[g], n.goals[g]), Named(m.goals[t], n.goals[t]),
           n.goals[g].picture = m.goals[g].picture, n.goals[g].state = "waiting",
           n.goals[g].offered, n.goals[g].shown => m.goals[g].shown,
           n.goals[g].telling = t,
           n.goals[t].picture = m.goals[g].picture, n.goals[t].state = m.goals[t].state,
           n.goals[t].offered => m.goals[t].offered, ~n.goals[t].shown,
           n.goals[t].telling = m.goals[t].telling
    PROVE  Sound(n, U, A, {}) /\ Keeps(m, n, U)
<1> DEFINE p == m.goals[g].picture
<1>0. /\ Len(m.goals) \in Nat /\ DOMAIN m.goals = 1 .. Len(m.goals)
      /\ t \in DOMAIN m.goals /\ t # g /\ Open(m, t) /\ t > g
      /\ m.goals[t].origin = "told" /\ m.goals[t].of = g
  BY MindIs DEF Sound, Words, Rooted
<1>1. m.goals[t].picture \notin U
  BY <1>0 DEF Sound, WordsHoldWhatIsOffered
<1>2. ~m.goals[t].offered
  BY <1>0 DEF Sound, ErrandsHoldOn, IsTask
<1>3. \A h \in DOMAIN m.goals : /\ n.goals[h].origin = m.goals[h].origin
                                /\ n.goals[h].of = m.goals[h].of
                                /\ (m.goals[h].offered => n.goals[h].offered)
                                /\ (IsTask(n.goals[h]) <=> IsTask(m.goals[h]))
  <2>1. \A h \in DOMAIN m.goals : /\ n.goals[h].origin = m.goals[h].origin
                                  /\ n.goals[h].of = m.goals[h].of
    BY DEF Named
  <2>2. \A h \in DOMAIN m.goals : m.goals[h].offered => n.goals[h].offered
    BY <1>2
  <2> QED BY <2>1, <2>2 DEF IsTask
<1>4. \A h \in DOMAIN m.goals : h # t => n.goals[h].picture = m.goals[h].picture
  BY <1>0
<1>5. Open(n, g) /\ Open(n, t) /\ \A h \in DOMAIN m.goals : h # g => (Open(n, h) <=> Open(m, h))
  BY <1>0 DEF Open, OpenStates
<1>6. Live(n, U) = Live(m, U)
  BY DEF Live
<1>7. Rooted(n, A)
  <2>1. \A h \in DOMAIN m.goals : m.goals[h].origin = "told" => m.goals[h].of \in DOMAIN m.goals
    BY <1>0 DEF Sound, Rooted
  <2>2. ASSUME NEW h \in DOMAIN m.goals
        PROVE  /\ n.goals[h].origin \in {"told", "followup"} => n.goals[h].of \in 1 .. (h - 1)
               /\ n.goals[h].origin = "told" => IsTask(n.goals[n.goals[h].of])
               /\ IsTask(n.goals[h]) => n.goals[h].of = 0
               /\ n.goals[h].origin = "stray" => n.goals[h].of \in A
    BY <2>1, <1>3 DEF Sound, Rooted
  <2>3. \A h \in DOMAIN m.goals : /\ m.goals[h].picture \in A \cup {NoPicture}
                                  /\ m.goals[h].telling \in 0 .. Len(m.goals)
    BY DEF Sound, Rooted
  <2>4. \A h \in DOMAIN m.goals : /\ n.goals[h].picture \in A \cup {NoPicture}
                                  /\ n.goals[h].telling \in 0 .. Len(n.goals)
    BY <2>3, <1>0, <1>4
  <2> QED BY <2>2, <2>4 DEF Rooted
<1>8. HandsOn(n, U, {})
  <2> SUFFICES ASSUME NEW h \in DOMAIN m.goals, n.goals[h].offered \/ ~Open(n, h),
                      n.goals[h].picture \in Live(m, U)
               PROVE  \E k \in DOMAIN m.goals : k > h /\ n.goals[k].picture = n.goals[h].picture
                                                /\ Open(n, k)
    BY <1>6 DEF HandsOn, Passed, Stands
  <2>1. CASE h = g
    BY <2>1, <1>0, <1>5
  <2>2. CASE h = t
    BY <2>2, <1>0, <1>2, <1>5
  <2>3. CASE h # g /\ h # t
    <3>1. (m.goals[h].offered \/ ~Open(m, h)) /\ m.goals[h].picture = n.goals[h].picture
      BY <2>3, <1>5
    <3>2. PICK k \in DOMAIN m.goals : k > h /\ m.goals[k].picture = m.goals[h].picture
                                     /\ Open(m, k)
      BY <3>1 DEF Sound, HandsOn, Passed, Stands
    <3>3. k # t
      BY <3>1, <3>2, <1>1 DEF Live
    <3> QED BY <3>1, <3>2, <3>3, <1>4, <1>5
  <2> QED BY <2>1, <2>2, <2>3
<1>9. OneFollowUp(n)
  <2>1. ASSUME NEW h \in DOMAIN m.goals
        PROVE  NoNews(n, h) \/ (~Open(n, h) /\ n.goals[h].picture = NoPicture)
    <3>1. CASE h = g
      BY <3>1 DEF NoNews
    <3>2. CASE h # g
      <4>1. NoNews(m, h) => NoNews(n, h)
        BY <1>3 DEF NoNews
      <4>2. NoNews(m, h) \/ (~Open(m, h) /\ m.goals[h].picture = NoPicture)
        BY DEF Sound, OneFollowUp
      <4> QED BY <4>1, <4>2, <3>2, <1>0, <1>4, <1>5
    <3> QED BY <3>1, <3>2
  <2> QED BY <2>1 DEF OneFollowUp
<1>10. WordsHoldWhatIsOffered(n, U)
  <2>1. \A h \in DOMAIN m.goals : m.goals[h].origin = "told" => m.goals[h].of \in DOMAIN m.goals
    BY <1>0 DEF Sound, Rooted
  <2> QED BY <2>1, <1>0, <1>3, <1>4 DEF Sound, WordsHoldWhatIsOffered
<1>11. ErrandsHoldOn(n, {})
  <2>1. \A h \in DOMAIN m.goals : h # g => (n.goals[h].offered => m.goals[h].offered)
    BY <1>0
  <2> QED BY <2>1, <1>3, <1>5 DEF Sound, ErrandsHoldOn
<1>12. StraysHoldTheirs(n, U)
  BY <1>0, <1>3, <1>4, <1>6 DEF Sound, StraysHoldTheirs
<1>13. ShownIsSent(n, U)
  <2>1. \A h \in DOMAIN m.goals : n.goals[h].shown => h # t /\ m.goals[h].shown
    BY <1>0
  <2> QED BY <2>1, <1>4 DEF Sound, ShownIsSent
<1>14. Keeps(m, n, U)
  <2>1. \A h \in DOMAIN m.goals : Named(m.goals[h], n.goals[h])
    BY DEF Named
  <2> QED BY <2>1, <1>1, <1>4 DEF Keeps, Safe
<1> QED BY <1>7, <1>8, <1>9, <1>10, <1>11, <1>12, <1>13, <1>14 DEF Sound

Carries(x, y, p) ==
    /\ y \in Line /\ Named(x, y) /\ y.state = x.state /\ y.picture = p
    /\ ~y.shown /\ y.offered = x.offered /\ y.telling = x.telling

LEMMA LineCarries ==
    ASSUME NEW x \in Line, NEW p \in Pictures \cup {NoPicture}
    PROVE  Carries(x, [x EXCEPT !.picture = p, !.shown = FALSE], p)
<1> DEFINE y == [x EXCEPT !.picture = p, !.shown = FALSE]
<1>0. FALSE \in BOOLEAN
  OBVIOUS
<1>1. y \in Line
  BY <1>0, Zenon DEF Line
<1>2. Named(x, y) /\ y.state = x.state /\ y.picture = p
      /\ y.shown = FALSE /\ y.offered = x.offered /\ y.telling = x.telling
  BY LineIs, SMT DEF Named, Parts
<1> HIDE DEF y
<1> QED BY <1>1, <1>2, Zenon DEF y, Carries

Waits(x, y, t) ==
    /\ y \in Line /\ Named(x, y) /\ y.state = "waiting" /\ y.picture = x.picture
    /\ y.shown = x.shown /\ y.offered = x.offered /\ y.telling = t

LEMMA LineWaits ==
    ASSUME NEW x \in Line, NEW t \in Nat, NEW b \in BOOLEAN
    PROVE  Waits(x, [x EXCEPT !.state = "waiting", !.telling = t, !.completes = b], t)
<1> DEFINE y == [x EXCEPT !.state = "waiting", !.telling = t, !.completes = b]
<1>0. "waiting" \in OpenStates \cup Shut
  BY DEF OpenStates
<1>1. y \in Line
  BY <1>0, Zenon DEF Line
<1>2. Named(x, y) /\ y.state = "waiting" /\ y.picture = x.picture
      /\ y.shown = x.shown /\ y.offered = x.offered /\ y.telling = t
  BY LineIs, SMT DEF Named, Parts
<1> HIDE DEF y
<1> QED BY <1>1, <1>2, Zenon DEF y, Waits

(* The step that ends on a message.                                        *)
LEMMA TellIs ==
    ASSUME NEW U, NEW A, NEW m, Sound(m, U, A, {}), NEW g \in DOMAIN m.goals,
           IsTask(m.goals[g]), NoNews(m, g), NEW c \in BOOLEAN
    PROVE  LET told == Told(m, g)
               n == Written(told.mind, g, [told.mind.goals[g] EXCEPT !.state = "waiting",
                                                                     !.telling = told.id,
                                                                     !.completes = c])
           IN  /\ Sound(n, U, A, {}) /\ Keeps(m, n, U) /\ Stills(m, n, g)
               /\ g \in DOMAIN n.goals /\ n.goals[g].telling # 0
<1> DEFINE x == m.goals[g]
           a == Added(m, NewGoal("told", g, "blind", NoPicture))
           t == CHOOSE q \in Carrying(a, [origin |-> "told", of |-> g]) : TRUE
           told == Told(m, g)
           y == [told.mind.goals[g] EXCEPT !.state = "waiting",
                                           !.telling = told.id,
                                           !.completes = c]
           n == Written(told.mind, g, y)
           rides == Undelivered(x) /\ ~x.offered
           v == [a.goals[t] EXCEPT !.picture = x.picture, !.shown = FALSE]
           b == Written(a, t, v)
           o == [x EXCEPT !.offered = TRUE]
           d == Written(b, g, o)
<1>0. IsMind(m) /\ x \in Line /\ x.picture \in Pictures \cup {NoPicture}
  BY MindIs, LineIs DEF Sound
<1>1. /\ Sound(a, U, A, {}) /\ Keeps(m, a, U) /\ Stills(m, a, g) /\ NoNews(a, g)
      /\ a.goals[g] = x /\ Words(a, t, g)
  BY WordsAre
<1>2. told = IF rides THEN [id |-> t, mind |-> d] ELSE [id |-> t, mind |-> a]
  BY DEF Told
<1>3. told.id = t /\ told.mind = IF rides THEN d ELSE a
  BY <1>2
<1> HIDE DEF told, a, t, Line
<1>4. /\ IsMind(a) /\ g \in DOMAIN a.goals /\ t \in DOMAIN a.goals /\ t # g /\ t \in Nat /\ t # 0
      /\ a.goals[t] \in Line /\ DOMAIN a.goals = 1 .. Len(a.goals) /\ Len(a.goals) \in Nat
  BY <1>1, MindIs DEF Sound, Keeps, Words
<1>5. CASE ~rides
  <2>1. told.mind = a
    BY <1>3, <1>5
  <2>2. y = [x EXCEPT !.state = "waiting", !.telling = t, !.completes = c]
    BY <2>1, <1>1, <1>3
  <2> HIDE DEF y, x
  <2>3. /\ y \in Line /\ Named(x, y) /\ y.state = "waiting" /\ y.picture = x.picture
        /\ y.shown = x.shown /\ y.offered = x.offered /\ y.telling = t
    <3>1. Waits(x, y, t)
      BY <1>0, <1>4, <2>2, LineWaits, Zenon
    <3> QED BY <3>1 DEF Waits
  <2>4. n = Written(a, g, y)
    BY <2>1
  <2> HIDE DEF n
  <2>5. OneLine(a, n, g, y) /\ n.wakeups = a.wakeups /\ n.shelved = a.shelved
    BY <1>4, <2>3, <2>4, WrittenIs
  <2>6. IsTask(y) /\ y.telling \in 0 .. Len(a.goals) /\ y.state \in OpenStates
    BY <1>4, <2>3 DEF IsTask, Named, OpenStates, x
  <2>7. y.offered => Passed(a, U, {}, g)
    BY <1>1, <1>4, <2>3 DEF Sound, HandsOn
  <2>8. y.shown => x.shown
    BY <2>3, Zenon
  <2>9. Sound(n, U, A, {})
    BY <1>1, <1>4, <2>3, <2>5, <2>6, <2>7, <2>8, RewriteSound
  <2>10. Keeps(a, n, U) /\ Stills(a, n, g) /\ g \in DOMAIN n.goals /\ n.goals[g].telling # 0
    BY <1>1, <1>4, <2>3, <2>5 DEF OneLine, Keeps, Safe, Named, Stills, Open
  <2>11. Keeps(m, n, U) /\ Stills(m, n, g)
    BY <1>1, <2>10, KeepsOn, StillsOn
  <2> QED BY <2>9, <2>10, <2>11 DEF n, y, told
<1>6. CASE rides
  <2>1. told.mind = d /\ ~x.offered
    BY <1>3, <1>6
  <2>2. /\ v \in Line /\ Named(a.goals[t], v) /\ v.state = a.goals[t].state
        /\ v.picture = x.picture /\ ~v.shown
        /\ v.offered = a.goals[t].offered /\ v.telling = a.goals[t].telling
    <3> HIDE DEF x
    <3>1. Carries(a.goals[t], v, x.picture)
      BY <1>0, <1>4, LineCarries, Zenon
    <3> HIDE DEF v
    <3> QED BY <3>1, Zenon DEF Carries
  <2>21. v.offered => a.goals[t].offered
    BY <2>2, Zenon
  <2> HIDE DEF v
  <2>3. OneLine(a, b, t, v) /\ b.wakeups = a.wakeups /\ b.shelved = a.shelved
    BY <1>4, <2>2, WrittenIs
  <2> HIDE DEF b
  <2>4. /\ o \in Line /\ Named(x, o) /\ o.picture = x.picture
        /\ o.shown = x.shown /\ o.offered
    <3> HIDE DEF x
    <3> QED BY <1>0, LineOffered
  <2> HIDE DEF o
  <2>5. IsMind(b) /\ g \in DOMAIN b.goals
    BY <1>4, <2>3 DEF OneLine
  <2>6. OneLine(b, d, g, o) /\ d.wakeups = b.wakeups /\ d.shelved = b.shelved
    BY <2>4, <2>5, WrittenIs
  <2> HIDE DEF d
  <2>7. d.goals[g] = o /\ IsMind(d) /\ g \in DOMAIN d.goals
    BY <2>5, <2>6 DEF OneLine
  <2>8. y = [o EXCEPT !.state = "waiting", !.telling = t, !.completes = c]
    BY <2>1, <2>7, <1>3
  <2> HIDE DEF y
  <2>9. /\ y \in Line /\ Named(o, y) /\ y.state = "waiting" /\ y.picture = o.picture
        /\ y.shown = o.shown /\ y.offered = o.offered /\ y.telling = t
    <3>1. Waits(o, y, t)
      BY <1>4, <2>4, <2>8, LineWaits, Zenon
    <3> QED BY <3>1 DEF Waits
  <2>10. n = Written(d, g, y)
    BY <2>1
  <2> HIDE DEF n
  <2>11. OneLine(d, n, g, y) /\ n.wakeups = d.wakeups /\ n.shelved = d.shelved
    BY <2>7, <2>9, <2>10, WrittenIs
  <2>12. (y.shown => x.shown) /\ y.offered
    BY <2>4, <2>9, Zenon
  <2>13. /\ IsMind(n) /\ DOMAIN n.goals = DOMAIN a.goals /\ Len(n.goals) = Len(a.goals)
         /\ n.shelved = a.shelved /\ n.wakeups = a.wakeups
         /\ n.goals[g] = y /\ n.goals[t] = v
         /\ \A h \in DOMAIN a.goals : h # g /\ h # t => n.goals[h] = a.goals[h]
    BY <1>4, <2>3, <2>6, <2>11 DEF OneLine
  <2>14. Named(x, y) /\ y.picture = x.picture /\ IsTask(x) /\ ~x.offered
    BY <2>1, <2>4, <2>9 DEF Named
  <2> HIDE DEF x
  <2>15. Sound(n, U, A, {}) /\ Keeps(a, n, U)
    BY <1>1, <1>4, <2>2, <2>21, <2>9, <2>12, <2>13, <2>14, RideSound, SMTT(30)
  <2>16. Stills(a, n, g) /\ g \in DOMAIN n.goals /\ n.goals[g].telling # 0
    BY <1>4, <2>2, <2>9, <2>13 DEF Stills, Open
  <2>17. Keeps(m, n, U) /\ Stills(m, n, g)
    BY <1>1, <2>15, <2>16, KeepsOn, StillsOn
  <2> QED BY <2>15, <2>16, <2>17 DEF n, y, told
<1> QED BY <1>5, <1>6

-----------------------------------------------------------------------------
(* A step that ends: the picture is handed on, and the goal moves.         *)
LEMMA MovesOn ==
    ASSUME NEW U, NEW A, NEW m, Sound(m, U, A, {}), NEW g \in DOMAIN m.goals,
           IsTask(m.goals[g]), NoNews(m, g), NEW goal, CopyOf(m, g, goal),
           NEW s \in OpenStates \cup Shut
    PROVE  LET n == Moved(OfferThePicture(m, g, goal), g, s)
           IN  /\ Sound(n, U, A, {}) /\ Keeps(m, n, U) /\ Stills(m, n, g)
               /\ g \in DOMAIN n.goals /\ n.goals[g].state = s
<1> DEFINE o == OfferThePicture(m, g, goal)
           n == Moved(o, g, s)
<1>1. /\ Sound(o, U, A, {}) /\ Passed(o, U, {}, g) /\ Keeps(m, o, U) /\ Calms(m, o)
      /\ Offers(m, o, g) /\ NoNews(o, g)
  BY OfferIs
<1> HIDE DEF o
<1>2. IsMind(o) /\ g \in DOMAIN o.goals /\ IsTask(o.goals[g]) /\ Stills(m, o, g)
  BY <1>1, CalmsStills DEF Sound, Keeps, Named, IsTask
<1>3. Restated(o, n, g, s)
  BY <1>2, MovedIs
<1> HIDE DEF n
<1>4. Sound(n, U, A, {}) /\ Keeps(o, n, U)
  BY <1>1, <1>2, <1>3, MovedSound
<1>5. Stills(o, n, g)
  BY <1>3, RestatedStills
<1>6. Keeps(m, n, U) /\ Stills(m, n, g)
  BY <1>1, <1>2, <1>4, <1>5, KeepsOn, StillsOn
<1> QED BY <1>2, <1>3, <1>4, <1>6 DEF n, o, Restated

(* A promise kept with nothing to show is told as news.                    *)
LEMMA KeptIs ==
    ASSUME NEW U, NEW A, NEW m, Sound(m, U, A, {}), NEW g \in DOMAIN m.goals,
           IsTask(m.goals[g]), NoNews(m, g), NEW goal, CopyOf(m, g, goal)
    PROVE  LET n == Moved(OfferToTell(m, g, goal), g, "done")
           IN  /\ Sound(n, U, A, {}) /\ Keeps(m, n, U) /\ Stills(m, n, g)
               /\ g \in DOMAIN n.goals /\ n.goals[g].state = "done"
<1> DEFINE x == m.goals[g]
           o == OfferToTell(m, g, goal)
           n == Moved(o, g, "done")
           z == NewGoal("followup", g, "open-minded", NoPicture)
<1>0. /\ IsMind(m) /\ x \in Line /\ Len(m.goals) \in Nat /\ DOMAIN m.goals = 1 .. Len(m.goals)
      /\ g \in Nat /\ NoPicture \notin U
      /\ "done" \in OpenStates \cup Shut /\ "done" \notin OpenStates
      /\ g \in Nat \cup Pictures /\ NoPicture \in Pictures \cup {NoPicture}
      /\ "followup" \in Origins /\ "open-minded" \in {"single-minded", "open-minded", "blind"}
  BY MindIs, ErrandsAssumption DEF Sound, Shut, OpenStates, Origins
<1>1. CASE goal.picture # NoPicture
  <2>1. o = OfferThePicture(m, g, goal)
    BY <1>1 DEF OfferToTell
  <2> HIDE DEF o
  <2> QED BY <1>0, <2>1, MovesOn DEF o
<1>2. CASE goal.picture = NoPicture /\ o = m
  <2>1. Passed(m, U, {}, g)
    BY <1>0, <1>2 DEF Passed, Live, CopyOf
  <2>2. Restated(m, Moved(m, g, "done"), g, "done")
    BY <1>0, MovedIs
  <2> HIDE DEF o, n
  <2>3. Restated(m, n, g, "done")
    BY <1>2, <2>2 DEF n
  <2>4. Sound(n, U, A, {}) /\ Keeps(m, n, U) /\ Stills(m, n, g)
    BY <1>0, <2>1, <2>3, MovedSound, RestatedStills
  <2> QED BY <2>3, <2>4 DEF n, o, Restated
<1>3. CASE goal.picture = NoPicture /\ o = Added(m, z) /\ o # m
  <2>1. z \in Line /\ z.origin = "followup" /\ z.of = g /\ z.state = "pending"
        /\ z.picture = NoPicture /\ z.telling = 0 /\ ~z.shown /\ ~z.offered
    <3> HIDE DEF Line
    <3> QED BY <1>0, NewLine
  <2> HIDE DEF z, o, Line, n
  <2>2. AddedLine(m, o, z)
    BY <1>0, <1>3, <2>1, AddedIs
  <2>3. /\ IsMind(o) /\ o.wakeups = m.wakeups /\ o.shelved = m.shelved
        /\ \A h \in DOMAIN m.goals : h \in DOMAIN o.goals /\ o.goals[h] = m.goals[h]
        /\ Len(o.goals) = Len(m.goals) + 1
        /\ DOMAIN o.goals = 1 .. (Len(m.goals) + 1)
        /\ o.goals[Len(m.goals) + 1] = z
    BY <1>3, <2>2 DEF AddedLine
  <2>4. Restated(o, n, g, "done")
    BY <1>0, <2>3, MovedIs DEF n
  <2> DEFINE y == n.goals[g]
  <2>5. /\ y \in Line /\ Named(x, y) /\ y.state = "done" /\ y.picture = x.picture
        /\ y.shown = x.shown /\ y.offered = x.offered /\ y.telling = x.telling
    BY <2>3, <2>4 DEF Restated
  <2>6. /\ Grown(m, n, g, y, z) /\ n.shelved = m.shelved /\ n.wakeups = m.wakeups
        /\ DOMAIN n.goals = 1 .. (Len(m.goals) + 1)
        /\ n.goals[Len(m.goals) + 1] = z
        /\ \A h \in DOMAIN m.goals : h \in DOMAIN n.goals /\ (h # g => n.goals[h] = m.goals[h])
    BY <1>0, <2>3, <2>4 DEF Restated, Grown
  <2> HIDE DEF y
  <2>7. (y.shown => x.shown) /\ (x.offered => y.offered)
    BY <2>5, Zenon
  <2>8. /\ x.picture = NoPicture /\ Passed(m, U, {}, g)
        /\ y.telling \in 0 .. Len(m.goals) + 1 /\ ~IsTask(z)
    BY <1>0, <1>3, <2>1, <2>5 DEF CopyOf, Passed, Live, Sound, Rooted, IsTask
  <2>9. Sound(n, U, A, {})
    BY <1>0, <2>1, <2>5, <2>6, <2>7, <2>8, GrowSound
  <2>10. Keeps(m, n, U)
    BY <1>0, <2>5, <2>6, <2>8 DEF Keeps, Safe, Named, y
  <2>11. Stills(m, n, g)
    BY <1>0, <2>1, <2>6 DEF Stills, Open
  <2>12. g \in DOMAIN n.goals /\ n.goals[g].state = "done"
    BY <2>5, <2>6 DEF y
  <2> QED BY <2>9, <2>10, <2>11, <2>12 DEF n, o
<1>4. \/ goal.picture # NoPicture
      \/ goal.picture = NoPicture /\ o = m
      \/ goal.picture = NoPicture /\ o = Added(m, z) /\ o # m
  BY DEF OfferToTell
<1> QED BY <1>1, <1>2, <1>3, <1>4

-----------------------------------------------------------------------------
(* The pictures of the mind's never posted, and every picture landed.      *)
Unsent == {p \in gallery : sent[p] = 0}
Landed == asked \ {r.picture : r \in renders}

(* goals.md and what is scheduled.                                         *)
Bookkept == Sound(Mind, Unsent, Landed, {}) /\ Len(goals) <= MaxGoals
Woken == \A g \in DOMAIN goals :
            goals[g].state = "waiting" => g \in wakeups \/ goals[g].telling # 0 \/ g \in cut
Saved == disk \subseteq DOMAIN goals

(* The act in flight, and its copy of the goal.                            *)
Acting ==
    /\ pc \in {"asleep", "deciding", "working", "suggesting", "speaking",
               "reflecting", "paused"}
    /\ ~Awaiting => cur = 0 /\ copy = <<>>
    /\ Awaiting => /\ cur \in DOMAIN goals /\ copy \in Goal
                   /\ CopyOf(Mind, cur, copy)
    /\ pc = "working" => IsTask(goals[cur]) /\ NoNews(Mind, cur)
    /\ pc = "speaking" => copy.picture \notin Unsent

(* The queue.                                                              *)
AnySignal == [type : {"wakeup", "goal_decision"}, goal : Nat]
             \cup [type : {"task_completion"}, goal : Nat, picture : Pictures \cup {NoPicture},
                   chat : BOOLEAN, completes : BOOLEAN]
Queued ==
    /\ inbox \in Seq(AnySignal)
    /\ taken \in 0 .. Len(inbox)
    /\ pc \in {"asleep", "paused"} => taken = 0
    /\ \A i \in 1 .. Len(inbox) : /\ SignalOK(Mind, Unsent, Landed, inbox[i])
                                  /\ inbox[i].goal \in 0 .. Len(goals)

(* The lab, and the goals its renders are for.                             *)
LabHolds ==
    /\ asked \subseteq Pictures /\ gallery \subseteq Landed
    /\ \A r \in renders : /\ r.picture \in asked /\ r.chat \in BOOLEAN
                          /\ r.completes \in BOOLEAN /\ (r.completes => r.chat)
    /\ \A r, q \in renders : r.picture = q.picture => r = q
RendersFor ==
    \A r \in renders : /\ r.goal \in 0 .. Len(goals)
                       /\ ~r.chat /\ r.goal # 0 => IsTask(goals[r.goal])

(* Every picture never posted is on its way to a goal, or somewhere.       *)
Shelved == \A p \in Unsent : p \in UnreadPictures \/ Safe(Mind, p)

(* What settle_strays leaves before anything acts.                         *)
Settled == pc = "deciding" => AllAwaited(Mind)

Counted == /\ sent \in [Pictures -> 0 .. 2]
           /\ letGo \in 0 .. MaxLetGo
           /\ mishaps \in 0 .. MaxMishaps

ErrandsInv == /\ Bookkept /\ Woken /\ Saved /\ Acting /\ Queued /\ LabHolds /\ RendersFor
              /\ Shelved /\ Settled /\ Counted

LEMMA MindFields ==
    Mind.goals = goals /\ Mind.wakeups = wakeups /\ Mind.shelved = shelved
    /\ Mind'.goals = goals' /\ Mind'.wakeups = wakeups' /\ Mind'.shelved = shelved'
  BY DEF Mind

LEMMA GoalsAre ==
    ASSUME NEW m, IsMind(m), Len(m.goals) <= MaxGoals,
           NEW A, A \subseteq Pictures, Rooted(m, A)
    PROVE  m.goals \in Seq(Goal) /\ \A g \in DOMAIN m.goals : m.goals[g] \in Goal
<1>1. /\ Len(m.goals) \in Nat /\ DOMAIN m.goals = 1 .. Len(m.goals) /\ m.goals \in Seq(Line)
      /\ MaxGoals \in Nat
  BY MindIs, ErrandsAssumption DEF IsMind
<1>2. ASSUME NEW g \in DOMAIN m.goals
      PROVE  m.goals[g] \in Goal
  <2> DEFINE x == m.goals[g]
  <2>1. x \in Line
    BY MindIs
  <2>2. x.telling \in 0 .. MaxGoals
    BY <1>1 DEF Rooted
  <2>3. x.of \in (0 .. MaxGoals) \cup Pictures
    <3>1. x.origin \in Origins
      BY <2>1, LineIs
    <3>2. CASE IsTask(x)
      BY <3>2, <1>1 DEF Rooted
    <3>3. CASE x.origin \in {"told", "followup"}
      <4>1. x.of \in 1 .. (g - 1)
        BY <3>3 DEF Rooted
      <4> QED BY <4>1, <1>1
    <3>4. CASE x.origin = "stray"
      BY <3>4 DEF Rooted
    <3> QED BY <3>1, <3>2, <3>3, <3>4 DEF Origins, IsTask
  <2>4. Origins = {"promise", "filed", "told", "followup", "stray"}
        /\ OpenStates \cup Shut = OpenStates \cup {"done", "abandoned"}
    BY DEF Origins, Shut
  <2> HIDE DEF x
  <2>5. x \in Goal
    BY <2>1, <2>2, <2>3, <2>4, Zenon DEF Line, Goal
  <2> QED BY <2>5 DEF x
<1> HIDE DEF Line, Goal
<1>3. m.goals \in [1 .. Len(m.goals) -> Goal]
  BY <1>1, <1>2, LenProperties
<1>4. m.goals \in Seq(Goal)
  BY <1>1, <1>3, IsASeq
<1> QED BY <1>2, <1>4

(* The type invariant of Errands is part of what the invariant says.       *)
THEOREM ErrandsTypes == ErrandsInv => ErrandsTypeOK
<1> SUFFICES ASSUME ErrandsInv PROVE ErrandsTypeOK
  OBVIOUS
<1>1. /\ IsMind(Mind) /\ Len(goals) <= MaxGoals /\ Landed \subseteq Pictures /\ Rooted(Mind, Landed)
      /\ Len(goals) > 0 /\ wakeups \subseteq DOMAIN goals
  BY MindFields DEF ErrandsInv, Bookkept, Sound, IsMind
<1>2. goals \in Seq(Goal)
  <2> HIDE DEF Goal, Line
  <2> QED BY <1>1, MindFields, GoalsAre
<1>3. Len(goals) \in 1 .. MaxGoals
  BY <1>1, MindFields, MindIs, ErrandsAssumption
<1>4. IF Awaiting THEN cur \in DOMAIN goals /\ copy \in Goal ELSE cur = 0 /\ copy = <<>>
  <2> HIDE DEF Goal, Awaiting
  <2> QED BY DEF ErrandsInv, Acting
<1>5. gallery \subseteq asked /\ \A r \in renders : r.picture \notin gallery
  BY DEF ErrandsInv, LabHolds, Landed
<1> HIDE DEF Goal, Awaiting
<1> QED BY <1>1, <1>2, <1>3, <1>4, <1>5
        DEF ErrandsInv, ErrandsTypeOK, Saved, Acting, Queued, LabHolds, RendersFor, Counted

(* In a state of the invariant what waits can be brought back (Woken), and *)
(* a picture off the shelf is on its way to an open goal (Shelved,         *)
(* HandsOn).                                                               *)
THEOREM ErrandsInvGives == ErrandsInv => WaitingHasAWayBack /\ NoPictureStranded
<1> SUFFICES ASSUME ErrandsInv PROVE WaitingHasAWayBack /\ NoPictureStranded
  OBVIOUS
<1>1. WaitingHasAWayBack
  BY DEF ErrandsInv, Woken, WaitingHasAWayBack
<1>2. NoPictureStranded
  <2> SUFFICES ASSUME NEW p \in gallery, sent[p] = 0, p \notin UnreadPictures, p \notin shelved
               PROVE  HandedOn(p)
    BY DEF NoPictureStranded
  <2>1. p \in Unsent /\ p \in Live(Mind, Unsent)
    BY MindFields DEF Unsent, Live
  <2>2. PICK g \in DOMAIN goals : goals[g].picture = p
    BY <2>1, MindFields DEF ErrandsInv, Shelved, Safe
  <2>3. CASE Open(Mind, g)
    BY <2>2, <2>3 DEF HandedOn
  <2>4. CASE ~Open(Mind, g)
    <3>1. Passed(Mind, Unsent, {}, g)
      BY <2>4, <2>2, MindFields DEF ErrandsInv, Bookkept, Sound, HandsOn, Stands
    <3>2. PICK h \in DOMAIN goals : goals[h].picture = p /\ Open(Mind, h)
      BY <3>1, <2>1, <2>2, MindFields DEF Passed, Stands
    <3> QED BY <3>2 DEF HandedOn
  <2> QED BY <2>3, <2>4
<1> QED BY <1>1, <1>2

(* At first there is one pending goal and nothing else.                    *)
LEMMA InitInv == ErrandsInit => ErrandsInv
<1> SUFFICES ASSUME ErrandsInit PROVE ErrandsInv
  OBVIOUS
<1>1. PICK origin \in {"promise", "filed"} :
         goals = <<NewGoal(origin, 0, IF origin = "promise" THEN "single-minded"
                                      ELSE "open-minded", NoPicture)>>
  BY DEF ErrandsInit
<1> DEFINE c == IF origin = "promise" THEN "single-minded" ELSE "open-minded"
           z == NewGoal(origin, 0, c, NoPicture)
<1>2. c \in {"single-minded", "open-minded", "blind"} /\ origin \in Origins
      /\ 0 \in Nat \cup Pictures /\ NoPicture \in Pictures \cup {NoPicture}
  BY DEF Origins
<1>3. goals = <<z>>
  BY <1>1
<1> HIDE DEF c
<1>4. z \in Line /\ z.origin = origin /\ z.of = 0 /\ z.state = "pending" /\ z.picture = NoPicture
      /\ z.telling = 0 /\ ~z.shown /\ ~z.offered
  <2> HIDE DEF Line
  <2> QED BY <1>2, NewLine
<1> HIDE DEF z, Line
<1>5. /\ wakeups = {} /\ shelved = {} /\ gallery = {} /\ asked = {} /\ renders = {}
      /\ disk = {} /\ inbox = <<>> /\ taken = 0 /\ pc = "asleep" /\ cur = 0 /\ copy = <<>>
      /\ letGo = 0 /\ mishaps = 0 /\ sent = [p \in Pictures |-> 0]
  BY DEF ErrandsInit
<1>6. /\ Len(goals) = 1 /\ DOMAIN goals = {1} /\ goals[1] = z /\ goals \in Seq(Line)
  BY <1>3, <1>4
<1>7. Unsent = {} /\ Landed = {}
  BY <1>5 DEF Unsent, Landed
<1>8. IsMind(Mind)
  BY <1>5, <1>6 DEF IsMind, Mind
<1>9. Open(Mind, 1) /\ IsTask(z)
  BY <1>4, <1>6, MindFields DEF Open, OpenStates, IsTask
<1>10. Rooted(Mind, {}) /\ HandsOn(Mind, {}, {}) /\ OneFollowUp(Mind)
       /\ WordsHoldWhatIsOffered(Mind, {}) /\ ErrandsHoldOn(Mind, {})
       /\ StraysHoldTheirs(Mind, {}) /\ ShownIsSent(Mind, {})
  <2>1. Rooted(Mind, {})
    BY <1>4, <1>6, <1>9, MindFields DEF Rooted, IsTask
  <2>2. HandsOn(Mind, {}, {})
    BY DEF HandsOn, Passed, Live
  <2>3. OneFollowUp(Mind)
    BY <1>4, <1>6, MindFields DEF OneFollowUp, NoNews
  <2>4. WordsHoldWhatIsOffered(Mind, {}) /\ StraysHoldTheirs(Mind, {}) /\ ShownIsSent(Mind, {})
    BY DEF WordsHoldWhatIsOffered, StraysHoldTheirs, ShownIsSent, Live
  <2>5. ErrandsHoldOn(Mind, {})
    BY <1>6, <1>9, MindFields DEF ErrandsHoldOn
  <2> QED BY <2>1, <2>2, <2>3, <2>4, <2>5
<1>11. Sound(Mind, {}, {}, {})
  <2>1. Mind.goals = goals /\ Len(goals) = 1
    BY <1>6, MindFields, Zenon
  <2>2. Len(Mind.goals) > 0
    BY <2>1
  <2>3. {} \subseteq Pictures
    OBVIOUS
  <2> QED BY <2>2, <2>3, <1>8, <1>10, Zenon DEF Sound
<1>12. Bookkept
  <2> HIDE DEF Sound
  <2> QED BY <1>6, <1>7, <1>11, ErrandsAssumption DEF Bookkept
<1>13. Woken /\ Saved
  BY <1>4, <1>5, <1>6 DEF Woken, Saved
<1>14. Acting
  BY <1>5 DEF Acting, Awaiting
<1>15. Queued
  BY <1>5 DEF Queued
<1>16. LabHolds /\ RendersFor
  BY <1>5 DEF LabHolds, RendersFor
<1>17. Shelved /\ Settled
  BY <1>5, <1>7 DEF Shelved, Settled
<1>18. Counted
  BY <1>5, ErrandsAssumption DEF Counted
<1> QED BY <1>12, <1>13, <1>14, <1>15, <1>16, <1>17, <1>18 DEF ErrandsInv

-----------------------------------------------------------------------------
(* What a step does to the chat and the lab.                               *)
LEMMA SentMoves ==
    ASSUME [ErrandsNext]_errandVars
    PROVE  UNCHANGED sent \/ \E x : Posts(x)
<1>1. CASE \/ Sense \/ Rest \/ Continue \/ Finish \/ ParkAtHorizon
           \/ AbandonAtHorizon \/ Speak \/ NoWords \/ ActFails
           \/ Commit \/ PersistNow \/ TickDies \/ Pause \/ Resume \/ Crash
           \/ \E g \in DOMAIN goals : \/ StartWork(g) \/ HoldUntilTheGateOpens(g)
                                     \/ HoldBelowThreshold(g) \/ LetGoQuietly(g)
                                     \/ StartSuggest(g) \/ LetGo(g)
           \/ \E c \in BOOLEAN : Tell(c)
           \/ \E p \in Pictures : Dispatch(p) \/ ShootForNoGoal(p)
           \/ \E p \in Pictures, g \in 0 .. Len(goals), c \in BOOLEAN : ChatTakesPicture(p, g, c)
           \/ \E r \in renders : RenderFails(r)
           \/ UNCHANGED errandVars
  BY <1>1
     DEF Sense, Rest, Continue, Finish, ParkAtHorizon, AbandonAtHorizon, Speak,
         NoWords, ActFails, Commit, PersistNow, TickDies, Pause, Resume, Crash,
         StartWork, HoldUntilTheGateOpens, HoldBelowThreshold, LetGoQuietly,
         StartSuggest, LetGo, Dispatch, ShootForNoGoal, RenderFails, Tell,
         ChatTakesPicture, End, WorkEnds, Held, Awaiting, Elsewhere, Lost,
         Mishap, Workable, Begin, Errand, Starts, Render, InConversation, mind,
         queue, labVars, act, counts, history, errandVars
<1>2. CASE \/ Suggest
           \/ \E g \in DOMAIN goals : \/ DeliverWords(g) \/ StartSpeak(g)
                                     \/ ShowHeldPicture(g)
           \/ \E p \in Pictures : ShowUnsent(p)
           \/ \E r \in renders : RenderLands(r)
  BY <1>2
     DEF Suggest, DeliverWords, StartSpeak, ShowHeldPicture, ShowUnsent,
         RenderLands, Errand, Workable, End, Begin, Shows, InConversation,
         Elsewhere, PostsWhatItHolds, mind, queue, labVars, act, counts,
         history
<1> QED
  BY <1>1, <1>2
     DEF ErrandsNext

EntersTheLab(q) ==
    /\ Starts(q) /\ gallery' = gallery /\ q.picture \in Pictures
    /\ q.chat \in BOOLEAN /\ q.completes \in BOOLEAN /\ (q.completes => q.chat)
    /\ q.goal \in 0 .. Len(goals) /\ (~q.chat /\ q.goal # 0 => IsTask(goals[q.goal]))
LeavesTheLab(q) ==
    /\ renders' = renders \ {q} /\ asked' = asked
    /\ gallery' \in {gallery, gallery \cup {q.picture}}

LEMMA RenderIs ==
    ASSUME NEW p \in Pictures, NEW g \in 0 .. Len(goals), NEW b \in BOOLEAN, NEW c \in BOOLEAN,
           c => b, ~b /\ g # 0 => IsTask(goals[g]),
           Starts(Render(p, g, b, c)), gallery' = gallery
    PROVE  \E q : EntersTheLab(q)
<1> DEFINE q == Render(p, g, b, c)
<1>1. q.picture = p /\ q.goal = g /\ q.chat = b /\ q.completes = c
  BY Zenon DEF Render
<1> HIDE DEF q
<1>2. q.chat \in BOOLEAN /\ q.completes \in BOOLEAN /\ (q.completes => q.chat) /\ (~q.chat => ~b)
  BY <1>1, Zenon
<1>3. Starts(q)
  BY DEF q
<1>4. EntersTheLab(q)
  BY <1>1, <1>2, <1>3 DEF EntersTheLab
<1> QED BY <1>4

LEMMA LabMoves ==
    ASSUME ErrandsInv, [ErrandsNext]_errandVars
    PROVE  \/ UNCHANGED <<renders, asked, gallery>>
           \/ \E q : EntersTheLab(q)
           \/ \E q \in renders : LeavesTheLab(q)
           \/ renders' = {} /\ asked' = asked /\ gallery' = gallery
<1>1. CASE \/ Sense \/ Rest \/ Continue \/ Finish \/ ParkAtHorizon
           \/ AbandonAtHorizon \/ Suggest \/ Speak \/ NoWords
           \/ ActFails \/ Commit \/ PersistNow \/ TickDies \/ Pause
           \/ Resume
           \/ \E g \in DOMAIN goals : \/ StartWork(g) \/ HoldUntilTheGateOpens(g)
                                     \/ HoldBelowThreshold(g) \/ LetGoQuietly(g)
                                     \/ DeliverWords(g) \/ StartSuggest(g)
                                     \/ StartSpeak(g) \/ ShowHeldPicture(g) \/ LetGo(g)
           \/ \E c \in BOOLEAN : Tell(c)
           \/ \E p \in Pictures : ShowUnsent(p)
           \/ UNCHANGED errandVars
  BY <1>1
     DEF Sense, Rest, Continue, Finish, ParkAtHorizon, AbandonAtHorizon,
         Suggest, Speak, NoWords, ActFails, Commit, PersistNow, TickDies,
         Pause, Resume, StartWork, HoldUntilTheGateOpens, HoldBelowThreshold,
         LetGoQuietly, DeliverWords, StartSuggest, StartSpeak, ShowHeldPicture,
         LetGo, ShowUnsent, Tell, End, WorkEnds, Held, Awaiting, Elsewhere,
         Lost, Mishap, Workable, Begin, Errand, Shows, InConversation, mind,
         queue, labVars, act, counts, history, errandVars
<1>2. CASE \/ \E r \in renders : RenderLands(r) \/ RenderFails(r)
  BY <1>2
     DEF RenderLands, RenderFails, Elsewhere, LeavesTheLab, mind, queue, labVars,
         act, counts, history
<1>3. CASE Crash
  BY <1>3 DEF Crash, labVars
<1>4. ASSUME NEW p \in Pictures, Dispatch(p)
      PROVE  \/ UNCHANGED <<renders, asked, gallery>>
             \/ \E q : EntersTheLab(q)
             \/ \E q \in renders : LeavesTheLab(q)
             \/ renders' = {} /\ asked' = asked /\ gallery' = gallery
  <2>1. cur \in 0 .. Len(goals) /\ IsTask(goals[cur]) /\ FALSE \in BOOLEAN
    <3>1. cur \in DOMAIN goals /\ IsTask(goals[cur]) /\ IsMind(Mind)
      BY <1>4 DEF Dispatch, WorkEnds, ErrandsInv, Acting, Awaiting, Bookkept, Sound
    <3> QED BY <3>1, MindIs, MindFields
  <2>2. gallery' = gallery /\ Starts(Render(p, cur, FALSE, FALSE))
    BY <1>4, Zenon DEF Dispatch, WorkEnds
  <2>3. \E q : EntersTheLab(q)
    BY <2>1, <2>2, RenderIs
  <2> QED BY <2>3
<1>5. ASSUME NEW p \in Pictures, ShootForNoGoal(p)
      PROVE  \/ UNCHANGED <<renders, asked, gallery>>
             \/ \E q : EntersTheLab(q)
             \/ \E q \in renders : LeavesTheLab(q)
             \/ renders' = {} /\ asked' = asked /\ gallery' = gallery
  <2>1. 0 \in 0 .. Len(goals) /\ FALSE \in BOOLEAN
    BY MindIs, MindFields DEF ErrandsInv, Bookkept, Sound
  <2>2. gallery' = gallery /\ Starts(Render(p, 0, FALSE, FALSE))
    BY <1>5, Zenon DEF ShootForNoGoal
  <2>3. \E q : EntersTheLab(q)
    BY <2>1, <2>2, RenderIs
  <2> QED BY <2>3
<1>6. ASSUME NEW p \in Pictures, NEW g \in 0 .. Len(goals), NEW c \in BOOLEAN,
             ChatTakesPicture(p, g, c)
      PROVE  \/ UNCHANGED <<renders, asked, gallery>>
             \/ \E q : EntersTheLab(q)
             \/ \E q \in renders : LeavesTheLab(q)
             \/ renders' = {} /\ asked' = asked /\ gallery' = gallery
  <2>1. TRUE \in BOOLEAN
        /\ gallery' = gallery /\ Starts(Render(p, g, TRUE, c))
    BY <1>6 DEF ChatTakesPicture
  <2>2. \E q : EntersTheLab(q)
    BY <2>1, RenderIs
  <2> QED BY <2>2
<1> QED
  BY <1>1, <1>2, <1>3, <1>4, <1>5, <1>6
     DEF ErrandsNext

LEMMA CountedStep ==
    ASSUME Counted, [ErrandsNext]_errandVars
    PROVE  /\ sent' \in [Pictures -> 0 .. 2]
           /\ \A p \in Pictures : sent'[p] = 0 => sent[p] = 0
<1>1. CASE UNCHANGED sent
  BY <1>1 DEF Counted
<1>2. ASSUME NEW x, Posts(x)
      PROVE  /\ sent' \in [Pictures -> 0 .. 2]
             /\ \A p \in Pictures : sent'[p] = 0 => sent[p] = 0
  <2> DEFINE v == IF sent[x] = 2 THEN 2 ELSE sent[x] + 1
  <2>1. sent' = [sent EXCEPT ![x] = v] /\ sent \in [Pictures -> 0 .. 2]
    BY <1>2 DEF Counted, Posts
  <2>2. x \in Pictures => v \in 0 .. 2 /\ v # 0
    BY <2>1
  <2> HIDE DEF v
  <2> QED BY <2>1, <2>2
<1> QED BY <1>1, <1>2, SentMoves

(* Pictures land, and are posted, for good.                                *)
LEMMA LabStep ==
    ASSUME ErrandsInv, [ErrandsNext]_errandVars
    PROVE  /\ LabHolds' /\ Landed \subseteq Landed' /\ Landed' \subseteq Pictures
           /\ Unsent' \subseteq Landed' /\ Unsent' \cap Landed \subseteq Unsent
<1>1. LabHolds /\ Counted
  BY DEF ErrandsInv
<1>2. \A p \in Pictures : sent'[p] = 0 => sent[p] = 0
  BY <1>1, CountedStep
<1>3. CASE UNCHANGED <<renders, asked, gallery>>
  BY <1>1, <1>2, <1>3 DEF LabHolds, Landed, Unsent
<1>4. ASSUME NEW q, EntersTheLab(q)
      PROVE  /\ LabHolds' /\ Landed \subseteq Landed' /\ Landed' \subseteq Pictures
             /\ Unsent' \subseteq Landed' /\ Unsent' \cap Landed \subseteq Unsent
  <2>1. Landed' = Landed
    BY <1>1, <1>4 DEF EntersTheLab, Starts, LabHolds, Landed
  <2>2. LabHolds'
    BY <1>1, <1>4, <2>1 DEF EntersTheLab, Starts, LabHolds
  <2> QED BY <1>1, <1>2, <1>4, <2>1, <2>2 DEF EntersTheLab, LabHolds, Landed, Unsent
<1>5. ASSUME NEW q \in renders, LeavesTheLab(q)
      PROVE  /\ LabHolds' /\ Landed \subseteq Landed' /\ Landed' \subseteq Pictures
             /\ Unsent' \subseteq Landed' /\ Unsent' \cap Landed \subseteq Unsent
  <2>1. Landed' = Landed \cup {q.picture} /\ q.picture \notin Landed
    BY <1>1, <1>5 DEF LeavesTheLab, LabHolds, Landed
  <2>2. LabHolds'
    BY <1>1, <1>5, <2>1 DEF LeavesTheLab, LabHolds
  <2>3. Unsent' \subseteq Landed' /\ Unsent' \cap Landed \subseteq Unsent
    BY <1>1, <1>2, <1>5, <2>1 DEF LeavesTheLab, LabHolds, Landed, Unsent
  <2> QED BY <1>1, <1>5, <2>1, <2>2, <2>3 DEF LeavesTheLab, LabHolds, Landed
<1>6. CASE renders' = {} /\ asked' = asked /\ gallery' = gallery
  BY <1>1, <1>2, <1>6 DEF LabHolds, Landed, Unsent
<1> QED BY <1>3, <1>4, <1>5, <1>6, LabMoves

-----------------------------------------------------------------------------
(* What a step does to the mind: its bookkeeping stays sound, every line   *)
(* and every picture is kept, what waits has its way back, and what is     *)
(* closed stays closed but for the goal being worked on.                   *)
Revives(m, n) == \A h \in DOMAIN m.goals : ~Open(m, h) /\ Open(n, h) => pc = "working" /\ cur = h
Carried ==
    /\ Sound(Mind', Unsent', Landed', {})
    /\ Keeps(Mind, Mind', Unsent')
    /\ Len(goals') <= MaxGoals
    /\ Woken'
    /\ Revives(Mind, Mind')

LEMMA SoundNow ==
    ASSUME ErrandsInv, [ErrandsNext]_errandVars
    PROVE  Sound(Mind, Unsent', Landed', {})
<1>1. Sound(Mind, Unsent, Landed, {})
  BY DEF ErrandsInv, Bookkept
<1>2. /\ Landed \subseteq Landed' /\ Landed' \subseteq Pictures
      /\ Unsent' \subseteq Landed' /\ Unsent' \cap Landed \subseteq Unsent
  BY LabStep
<1> HIDE DEF Sound
<1> QED BY <1>1, <1>2, SoundSince

(* The variables hold what the bookkeeping made of the mind.               *)
LEMMA BecomesIs ==
    ASSUME NEW n, Becomes(n), NEW U, NEW A, Sound(n, U, A, {}),
           NEW V, Keeps(Mind, n, V)
    PROVE  /\ Sound(Mind', U, A, {}) /\ Keeps(Mind, Mind', V) /\ Len(goals') <= MaxGoals
           /\ Mind'.goals = n.goals /\ Mind'.wakeups = n.wakeups
           /\ goals' = n.goals /\ wakeups' = n.wakeups
<1>1. /\ Mind'.goals = n.goals /\ Mind'.wakeups = n.wakeups /\ Mind'.shelved = n.shelved
      /\ goals' = n.goals /\ wakeups' = n.wakeups /\ Len(goals') <= MaxGoals
  BY MindFields DEF Becomes
<1>2. DOMAIN Mind' = {"goals", "wakeups", "shelved"}
  BY DEF Mind
<1>3. IsMind(Mind')
  BY <1>1, <1>2 DEF Sound, IsMind
<1>4. Sound(Mind', U, A, {})
  <2> HIDE DEF Sound, IsMind
  <2> QED BY <1>1, <1>3, SameLinesSound
<1>5. Keeps(Mind, Mind', V)
  BY <1>1 DEF Keeps, Safe
<1> QED BY <1>1, <1>4, <1>5

LEMMA StaysCarried ==
    ASSUME ErrandsInv, [ErrandsNext]_errandVars, UNCHANGED <<goals, wakeups, shelved, cut>>
    PROVE  Carried
<1>1. Sound(Mind, Unsent', Landed', {})
  BY SoundNow
<1>2. Becomes(Mind)
  BY MindFields DEF Becomes, ErrandsInv, Bookkept
<1>3. Keeps(Mind, Mind, Unsent')
  BY KeepsItself
<1>4. /\ Sound(Mind', Unsent', Landed', {}) /\ Keeps(Mind, Mind', Unsent')
      /\ Len(goals') <= MaxGoals /\ Mind'.goals = Mind.goals
  <2> HIDE DEF Sound, Mind
  <2> QED BY <1>1, <1>2, <1>3, BecomesIs
<1>5. Woken'
  BY DEF ErrandsInv, Woken
<1>6. Revives(Mind, Mind')
  BY <1>4 DEF Revives, Open
<1> QED BY <1>4, <1>5, <1>6 DEF Carried

(* An act about g.                                                         *)
LEMMA ActsCarried ==
    ASSUME ErrandsInv, NEW n, NEW g \in DOMAIN goals, Becomes(n), cut' = cut,
           Sound(n, Unsent', Landed', {}), Keeps(Mind, n, Unsent'), Stills(Mind, n, g),
           g \in n.wakeups \/ n.goals[g].telling # 0 \/ n.goals[g].state # "waiting",
           ~Open(Mind, g) /\ Open(n, g) => pc = "working" /\ cur = g
    PROVE  Carried
<1>1. /\ Sound(Mind', Unsent', Landed', {}) /\ Keeps(Mind, Mind', Unsent')
      /\ Len(goals') <= MaxGoals /\ Mind'.goals = n.goals
      /\ goals' = n.goals /\ wakeups' = n.wakeups
  <2> HIDE DEF Sound
  <2> QED BY BecomesIs
<1>2. Woken'
  BY <1>1, MindFields DEF ErrandsInv, Woken, Stills
<1>3. Revives(Mind, Mind')
  BY <1>1, MindFields DEF Revives, Open, Stills
<1> QED BY <1>1, <1>2, <1>3 DEF Carried

(* A step after which nothing new waits and nothing opens again.           *)
LEMMA CalmCarried ==
    ASSUME ErrandsInv, NEW n, Becomes(n), cut' = cut,
           Sound(n, Unsent', Landed', {}), Keeps(Mind, n, Unsent'), Calms(Mind, n)
    PROVE  Carried
<1>1. /\ Sound(Mind', Unsent', Landed', {}) /\ Keeps(Mind, Mind', Unsent')
      /\ Len(goals') <= MaxGoals /\ Mind'.goals = n.goals
      /\ goals' = n.goals /\ wakeups' = n.wakeups
  <2> HIDE DEF Sound
  <2> QED BY BecomesIs
<1>2. Woken'
  BY <1>1, MindFields DEF ErrandsInv, Woken, Calms
<1>3. Revives(Mind, Mind')
  BY <1>1, MindFields DEF Revives, Open, Calms
<1> QED BY <1>1, <1>2, <1>3 DEF Carried

LEMMA WokenLaterSound ==
    ASSUME NEW U, NEW A, NEW m, Sound(m, U, A, {}), NEW g \in DOMAIN m.goals
    PROVE  LET n == WokenLater(m, g)
           IN  /\ Sound(n, U, A, {}) /\ Keeps(m, n, U) /\ Stills(m, n, g)
               /\ g \in n.wakeups /\ n.goals = m.goals
<1> DEFINE n == WokenLater(m, g)
<1>1. /\ IsMind(n) /\ n.goals = m.goals /\ n.shelved = m.shelved
      /\ n.wakeups = m.wakeups \cup {g}
  BY WokenLaterIs DEF Sound
<1> HIDE DEF n
<1>2. Sound(n, U, A, {}) /\ Keeps(m, n, U)
  <2> HIDE DEF Sound
  <2> QED BY <1>1, SameLinesSound
<1>3. Stills(m, n, g)
  BY <1>1 DEF Stills, Open
<1> QED BY <1>1, <1>2, <1>3 DEF n

LEMMA ParkedIs ==
    ASSUME NEW U, NEW A, NEW m, Sound(m, U, A, {}), NEW g \in DOMAIN m.goals,
           Open(m, g) \/ (IsTask(m.goals[g]) /\ NoNews(m, g))
    PROVE  LET n == Parked(m, g)
           IN  /\ Sound(n, U, A, {}) /\ Keeps(m, n, U) /\ Stills(m, n, g)
               /\ g \in n.wakeups
<1> DEFINE k == Moved(m, g, "waiting")
           n == WokenLater(k, g)
<1>1. Restated(m, k, g, "waiting")
  BY MovedIs DEF Sound, OpenStates
<1> HIDE DEF k
<1>2. Sound(k, U, A, {}) /\ Keeps(m, k, U)
  <2>1. "waiting" \in OpenStates \cup Shut /\ "waiting" \notin Shut
    BY DEF OpenStates, Shut
  <2> HIDE DEF Sound
  <2> QED BY <1>1, <2>1, MovedSound
<1>3. Stills(m, k, g) /\ g \in DOMAIN k.goals
  BY <1>1, RestatedStills DEF Restated
<1>4. Sound(n, U, A, {}) /\ Keeps(k, n, U) /\ Stills(k, n, g) /\ g \in n.wakeups
  <2> HIDE DEF Sound
  <2> QED BY <1>2, <1>3, WokenLaterSound
<1> HIDE DEF n
<1>5. Keeps(m, n, U) /\ Stills(m, n, g)
  BY <1>2, <1>3, <1>4, KeepsOn, StillsOn
<1> QED BY <1>4, <1>5 DEF n, k, Parked

(* A goal moves by its own state alone.                                    *)
LEMMA MovesTo ==
    ASSUME NEW U, NEW A, NEW m, Sound(m, U, A, {}), NEW g \in DOMAIN m.goals,
           NEW s \in OpenStates \cup Shut,
           s \in OpenStates => Open(m, g) \/ (IsTask(m.goals[g]) /\ NoNews(m, g)),
           s \in Shut => m.goals[g].picture \notin U
    PROVE  LET n == Moved(m, g, s)
           IN  /\ Sound(n, U, A, {}) /\ Keeps(m, n, U) /\ Stills(m, n, g)
               /\ n.goals[g].state = s
               /\ s # "waiting" /\ (s \in OpenStates => Open(m, g)) => Calms(m, n)
<1> DEFINE n == Moved(m, g, s)
<1>1. Restated(m, n, g, s)
  BY MovedIs DEF Sound
<1> HIDE DEF n
<1>2. s \in Shut => Passed(m, U, {}, g)
  BY DEF Passed, Live
<1>3. Sound(n, U, A, {}) /\ Keeps(m, n, U)
  <2> HIDE DEF Sound
  <2> QED BY <1>1, <1>2, MovedSound
<1>4. Stills(m, n, g) /\ n.goals[g].state = s
  BY <1>1, RestatedStills DEF Restated
<1>5. s # "waiting" /\ (s \in OpenStates => Open(m, g)) => Calms(m, n)
  BY <1>1, RestatedCalms
<1> QED BY <1>3, <1>4, <1>5 DEF n

-----------------------------------------------------------------------------
(* SENSE, whole: k is m with the due wakeups taken off the schedule.       *)
LEMMA SensedIs ==
    ASSUME NEW U, NEW A, NEW m, Sound(m, U, A, {}),
           NEW k, IsMind(k), k.goals = m.goals, k.shelved = m.shelved,
           NEW batch, Len(batch) \in Nat,
           \A i \in 1 .. Len(batch) : /\ SignalOK(m, U, A, batch[i])
                                      /\ batch[i].goal \in 0 .. Len(m.goals),
           NEW woken, Len(woken) \in Nat,
           \A i \in 1 .. Len(woken) : /\ woken[i].type = "wakeup"
                                      /\ woken[i].goal \in DOMAIN m.goals,
           NEW gap, gap \subseteq Sweepable(FoldedIn(k, batch)),
           NEW stale,
           stale \subseteq Sweepable(FoldedIn(Reconsidered(FoldedIn(k, batch), gap), woken))
    PROVE  LET n == SettleStrays(Reconsidered(
                        FoldedIn(Reconsidered(FoldedIn(k, batch), gap), woken), stale))
           IN  /\ Sound(n, U, A, {}) /\ Keeps(m, n, U) /\ Calms(k, n) /\ AllAwaited(n)
               /\ \A i \in 1 .. Len(batch) : Taken(n, U, batch[i])
               /\ \A i \in 1 .. Len(woken) : Taken(n, U, woken[i])
<1> DEFINE q == FoldedIn(k, batch)
           r == Reconsidered(q, gap)
           s == FoldedIn(r, woken)
           t == Reconsidered(s, stale)
           n == SettleStrays(t)
<1>0. gap \subseteq Sweepable(q) /\ stale \subseteq Sweepable(s)
  OBVIOUS
<1>1. Sound(k, U, A, {}) /\ Keeps(m, k, U)
  <2> HIDE DEF Sound, IsMind
  <2> QED BY SameLinesSound
<1>2. \A i \in 1 .. Len(batch) : SignalOK(k, U, A, batch[i])
                                 /\ batch[i].goal \in 0 .. Len(k.goals)
  BY DEF SignalOK
<1>3. /\ Sound(q, U, A, {}) /\ Keeps(k, q, U) /\ Calms(k, q)
      /\ \A i \in 1 .. Len(batch) : Taken(q, U, batch[i])
  <2> HIDE DEF Sound, SignalOK
  <2> QED BY <1>1, <1>2, FoldedInSound
<1> HIDE DEF q
<1>4. Sound(r, U, A, {}) /\ Keeps(q, r, U) /\ Calms(q, r)
  <2> HIDE DEF Sound
  <2> QED BY <1>0, <1>3, ReconsideredIs
<1> HIDE DEF r
<1>5. Keeps(m, r, U) /\ Keeps(k, r, U) /\ Calms(k, r)
  BY <1>1, <1>3, <1>4, KeepsOn, CalmsOn
<1>6. \A i \in 1 .. Len(woken) : SignalOK(r, U, A, woken[i])
                                 /\ woken[i].goal \in 0 .. Len(r.goals)
  <2>1. DOMAIN r.goals = 1 .. Len(r.goals) /\ Len(r.goals) \in Nat
    BY <1>4, MindIs DEF Sound
  <2>2. DOMAIN m.goals \subseteq DOMAIN r.goals
    BY <1>5, KeepsLines
  <2> QED BY <2>1, <2>2 DEF SignalOK
<1>7. /\ Sound(s, U, A, {}) /\ Keeps(r, s, U) /\ Calms(r, s)
      /\ \A i \in 1 .. Len(woken) : Taken(s, U, woken[i])
  <2> HIDE DEF Sound, SignalOK
  <2> QED BY <1>4, <1>6, FoldedInSound
<1> HIDE DEF s
<1>8. Sound(t, U, A, {}) /\ Keeps(s, t, U) /\ Calms(s, t)
  <2> HIDE DEF Sound
  <2> QED BY <1>0, <1>7, ReconsideredIs
<1> HIDE DEF t
<1>9. Sound(n, U, A, {}) /\ Keeps(t, n, U) /\ Calms(t, n) /\ AllAwaited(n)
  <2> HIDE DEF Sound
  <2> QED BY <1>8, SettleStraysSound
<1> HIDE DEF n
<1>10. Keeps(s, n, U) /\ Calms(s, n)
  BY <1>8, <1>9, KeepsOn, CalmsOn
<1>11. Keeps(r, n, U) /\ Calms(r, n)
  BY <1>7, <1>10, KeepsOn, CalmsOn
<1>12. Keeps(q, n, U) /\ Calms(q, n)
  BY <1>4, <1>11, KeepsOn, CalmsOn
<1>13. Keeps(m, n, U) /\ Calms(k, n)
  BY <1>1, <1>3, <1>12, KeepsOn, CalmsOn
<1>14. \A i \in 1 .. Len(batch) : Taken(n, U, batch[i])
  BY <1>3, <1>12, StillTaken
<1>15. \A i \in 1 .. Len(woken) : Taken(n, U, woken[i])
  BY <1>7, <1>10, StillTaken
<1>16. /\ Sound(n, U, A, {}) /\ Keeps(m, n, U) /\ Calms(k, n) /\ AllAwaited(n)
       /\ \A i \in 1 .. Len(batch) : Taken(n, U, batch[i])
       /\ \A i \in 1 .. Len(woken) : Taken(n, U, woken[i])
  BY <1>9, <1>13, <1>14, <1>15
<1> QED BY <1>16 DEF n, t, s, r, q

(* Everything the queue holds once SENSE is through is in the goals.       *)
AllTaken(m, U, A, batch) ==
    \A i \in 1 .. Len(batch) : /\ SignalOK(m, U, A, batch[i])
                               /\ batch[i].goal \in 0 .. Len(m.goals)
                               /\ Taken(m, U, batch[i])

LEMMA SignalsKept ==
    ASSUME NEW U, NEW A, NEW m, IsMind(m), NEW n, IsMind(n), Keeps(m, n, U),
           NEW sig, SignalOK(m, U, A, sig), sig.goal \in 0 .. Len(m.goals)
    PROVE  SignalOK(n, U, A, sig) /\ sig.goal \in 0 .. Len(n.goals)
<1>1. /\ DOMAIN m.goals = 1 .. Len(m.goals) /\ Len(m.goals) \in Nat
      /\ DOMAIN n.goals = 1 .. Len(n.goals) /\ Len(n.goals) \in Nat
  BY MindIs
<1>2. DOMAIN m.goals \subseteq DOMAIN n.goals
  BY KeepsLines
<1>3. \A h \in DOMAIN m.goals : IsTask(m.goals[h]) => IsTask(n.goals[h])
  BY DEF Keeps, Named, IsTask
<1>4. sig.goal \in 0 .. Len(n.goals)
  BY <1>1, <1>2
<1>5. sig.goal \in DOMAIN n.goals => sig.goal \in DOMAIN m.goals
  BY <1>1
<1> QED BY <1>2, <1>3, <1>4, <1>5 DEF SignalOK

LEMMA SenseIs ==
    ASSUME ErrandsInv, Sense
    PROVE  /\ Carried /\ AllAwaited(Mind')
           /\ inbox' \in Seq(AnySignal) /\ taken' = Len(inbox')
           /\ AllTaken(Mind', Unsent', Landed', inbox')
           /\ \A i \in 1 .. Len(inbox) : i \in 1 .. Len(inbox') /\ inbox'[i] = inbox[i]
<1>1. PICK due \in SUBSET wakeups : \E order \in [1 .. Cardinality(due) -> due] :
          LET woken == [i \in 1 .. Cardinality(due) |-> Signal("wakeup", order[i])]
              queued == FoldedIn([Mind EXCEPT !.wakeups = @ \ due], inbox)
          IN  /\ \A g \in due : \E i \in 1 .. Cardinality(due) : order[i] = g
              /\ inbox' = inbox \o woken
              /\ taken' = Len(inbox')
              /\ \E gap \in SUBSET Sweepable(queued) :
                    LET sensed == FoldedIn(Reconsidered(queued, gap), woken)
                    IN  \E stale \in SUBSET Sweepable(sensed) :
                           Becomes(SettleStrays(Reconsidered(sensed, stale)))
  BY DEF Sense
<1> DEFINE c == Cardinality(due)
<1>2. PICK order \in [1 .. c -> due] :
          LET woken == [i \in 1 .. c |-> Signal("wakeup", order[i])]
              queued == FoldedIn([Mind EXCEPT !.wakeups = @ \ due], inbox)
          IN  /\ \A g \in due : \E i \in 1 .. c : order[i] = g
              /\ inbox' = inbox \o woken
              /\ taken' = Len(inbox')
              /\ \E gap \in SUBSET Sweepable(queued) :
                    LET sensed == FoldedIn(Reconsidered(queued, gap), woken)
                    IN  \E stale \in SUBSET Sweepable(sensed) :
                           Becomes(SettleStrays(Reconsidered(sensed, stale)))
  BY <1>1
<1> DEFINE woken == [i \in 1 .. c |-> Signal("wakeup", order[i])]
           k == [Mind EXCEPT !.wakeups = @ \ due]
<1>3. /\ \A g \in due : \E i \in 1 .. c : order[i] = g
      /\ inbox' = inbox \o woken
      /\ taken' = Len(inbox')
  BY <1>2
<1>4. PICK gap \in SUBSET Sweepable(FoldedIn(k, inbox)) :
          \E stale \in SUBSET Sweepable(FoldedIn(Reconsidered(FoldedIn(k, inbox), gap), woken)) :
             Becomes(SettleStrays(Reconsidered(
                 FoldedIn(Reconsidered(FoldedIn(k, inbox), gap), woken), stale)))
  BY <1>2
<1>5. PICK stale \in SUBSET Sweepable(FoldedIn(Reconsidered(FoldedIn(k, inbox), gap), woken)) :
          Becomes(SettleStrays(Reconsidered(
              FoldedIn(Reconsidered(FoldedIn(k, inbox), gap), woken), stale)))
  BY <1>4
<1> DEFINE n == SettleStrays(Reconsidered(
                    FoldedIn(Reconsidered(FoldedIn(k, inbox), gap), woken), stale))
<1>6. Sound(Mind, Unsent, Landed, {}) /\ IsMind(Mind)
  BY DEF ErrandsInv, Bookkept, Sound
<1>7. /\ DOMAIN goals = 1 .. Len(goals) /\ Len(goals) \in Nat /\ wakeups \subseteq DOMAIN goals
  BY <1>6, MindIs, MindFields DEF IsMind
<1>8. c \in Nat
  <2>1. IsFiniteSet(1 .. Len(goals))
    BY <1>7, FS_Interval
  <2>2. IsFiniteSet(due)
    BY <1>7, <2>1, FS_Subset
  <2> QED BY <2>2, FS_CardinalityType
<1>9. /\ k.goals = Mind.goals /\ k.shelved = Mind.shelved /\ k.wakeups = Mind.wakeups \ due
      /\ DOMAIN k = {"goals", "wakeups", "shelved"}
  BY DEF Mind
<1> HIDE DEF k
<1>10. IsMind(k)
  BY <1>6, <1>9 DEF IsMind
<1>11. /\ Len(woken) = c /\ woken \in Seq(AnySignal)
       /\ \A i \in 1 .. c : /\ woken[i].type = "wakeup" /\ woken[i].goal = order[i]
                            /\ woken[i].goal \in DOMAIN goals
  <2> HIDE DEF c
  <2>1. \A i \in 1 .. c : order[i] \in DOMAIN goals
    BY <1>7
  <2>2. \A i \in 1 .. c : Signal("wakeup", order[i]) \in AnySignal
    BY <1>7, <2>1 DEF Signal, AnySignal
  <2>3. woken \in [1 .. c -> AnySignal]
    BY <2>2
  <2>4. woken \in Seq(AnySignal) /\ Len(woken) = c
    BY <1>8, <2>3, IsASeq, LenProperties
  <2> QED BY <2>1, <2>4 DEF Signal
<1> HIDE DEF woken, c
<1>12. inbox \in Seq(AnySignal) /\ Len(inbox) \in Nat
  BY DEF ErrandsInv, Queued
<1>13. \A i \in 1 .. Len(inbox) : /\ SignalOK(Mind, Unsent, Landed, inbox[i])
                                  /\ inbox[i].goal \in 0 .. Len(Mind.goals)
  BY MindFields DEF ErrandsInv, Queued
<1>14. /\ Sound(n, Unsent, Landed, {}) /\ Keeps(Mind, n, Unsent) /\ Calms(k, n)
       /\ AllAwaited(n)
       /\ \A i \in 1 .. Len(inbox) : Taken(n, Unsent, inbox[i])
       /\ \A i \in 1 .. Len(woken) : Taken(n, Unsent, woken[i])
  <2>1. Len(woken) \in Nat
        /\ \A i \in 1 .. Len(woken) : /\ woken[i].type = "wakeup"
                                      /\ woken[i].goal \in DOMAIN Mind.goals
    BY <1>8, <1>11, MindFields
  <2> HIDE DEF Sound, IsMind, SignalOK
  <2> QED BY <1>4, <1>5, <1>6, <1>9, <1>10, <1>12, <1>13, <2>1, SensedIs
<1>15. Becomes(n)
  BY <1>5
<1> HIDE DEF n
<1>16. Unsent' = Unsent /\ Landed' = Landed /\ cut' = cut
  BY DEF Sense, Unsent, Landed, labVars, history
<1>17. /\ Sound(Mind', Unsent, Landed, {}) /\ Keeps(Mind, Mind', Unsent)
       /\ Len(goals') <= MaxGoals
       /\ Mind'.goals = n.goals /\ Mind'.wakeups = n.wakeups
       /\ goals' = n.goals /\ wakeups' = n.wakeups
  <2> HIDE DEF Sound
  <2> QED BY <1>14, <1>15, BecomesIs
<1>18. /\ \A g \in DOMAIN n.goals :
             n.goals[g].state = "waiting" => /\ g \in DOMAIN goals
                                             /\ goals[g].state = "waiting"
                                             /\ n.goals[g].telling = goals[g].telling
                                             /\ g \in wakeups \ due => g \in n.wakeups
       /\ \A g \in DOMAIN goals : ~Open(Mind, g) => ~Open(n, g)
  BY <1>9, <1>14, MindFields DEF Calms, Open
<1>19. ASSUME NEW g \in DOMAIN n.goals, n.goals[g].state = "waiting", g \in due
       PROVE  n.goals[g].telling # 0
  <2>1. PICK i \in 1 .. c : order[i] = g
    BY <1>3, <1>19
  <2> QED BY <1>11, <1>14, <1>19, <2>1 DEF Taken
<1>20. Woken'
  <2> SUFFICES ASSUME NEW g \in DOMAIN goals', goals'[g].state = "waiting"
               PROVE  g \in wakeups' \/ goals'[g].telling # 0 \/ g \in cut'
    BY DEF Woken
  <2> QED BY <1>16, <1>17, <1>18, <1>19 DEF ErrandsInv, Woken
<1>21. Revives(Mind, Mind')
  BY <1>17, <1>18, MindFields DEF Revives, Open
<1>22. Carried
  BY <1>16, <1>17, <1>20, <1>21 DEF Carried
<1>23. AllAwaited(Mind')
  BY <1>14, <1>17 DEF AllAwaited, Awaited, Open
<1>24. /\ inbox' \in Seq(AnySignal) /\ Len(inbox') = Len(inbox) + c
       /\ \A i \in 1 .. Len(inbox) : inbox'[i] = inbox[i]
       /\ \A i \in Len(inbox) + 1 .. Len(inbox) + c : inbox'[i] = woken[i - Len(inbox)]
  <2>1. /\ inbox \o woken \in Seq(AnySignal) /\ Len(inbox \o woken) = Len(inbox) + Len(woken)
        /\ \A i \in 1 .. Len(inbox) + Len(woken) : (inbox \o woken)[i] =
               IF i <= Len(inbox) THEN inbox[i] ELSE woken[i - Len(inbox)]
    BY <1>11, <1>12, ConcatProperties
  <2> QED BY <1>3, <1>8, <1>11, <1>12, <2>1
<1>25. ASSUME NEW sig, SignalOK(Mind, Unsent, Landed, sig), sig.goal \in 0 .. Len(goals),
              Taken(n, Unsent, sig)
       PROVE  /\ SignalOK(Mind', Unsent, Landed, sig)
              /\ sig.goal \in 0 .. Len(Mind'.goals)
              /\ Taken(Mind', Unsent, sig)
  <2>1. IsMind(Mind')
    BY <1>17 DEF Sound
  <2>2. SignalOK(Mind', Unsent, Landed, sig) /\ sig.goal \in 0 .. Len(Mind'.goals)
    <3> HIDE DEF SignalOK, IsMind
    <3> QED BY <1>6, <1>17, <1>25, <2>1, MindFields, SignalsKept
  <2>3. Mind'.shelved = n.shelved
    BY <1>15, MindFields DEF Becomes
  <2>4. Taken(Mind', Unsent, sig)
    BY <1>17, <1>25, <2>3 DEF Taken, Safe
  <2> QED BY <2>2, <2>4
<1>26. ASSUME NEW i \in 1 .. Len(inbox')
       PROVE  /\ SignalOK(Mind', Unsent, Landed, inbox'[i])
              /\ inbox'[i].goal \in 0 .. Len(Mind'.goals)
              /\ Taken(Mind', Unsent, inbox'[i])
  <2>1. CASE i \in 1 .. Len(inbox)
    <3>1. /\ SignalOK(Mind, Unsent, Landed, inbox[i]) /\ inbox[i].goal \in 0 .. Len(goals)
          /\ Taken(n, Unsent, inbox[i]) /\ inbox'[i] = inbox[i]
      BY <1>13, <1>14, <1>24, <2>1, MindFields
    <3> HIDE DEF SignalOK, Taken
    <3> QED BY <1>25, <3>1
  <2>2. CASE i \notin 1 .. Len(inbox)
    <3> DEFINE j == i - Len(inbox)
    <3>1. j \in 1 .. c /\ inbox'[i] = woken[j]
      BY <1>8, <1>12, <1>24, <2>2
    <3>2. /\ SignalOK(Mind, Unsent, Landed, woken[j]) /\ woken[j].goal \in 0 .. Len(goals)
          /\ Taken(n, Unsent, woken[j])
      BY <1>7, <1>11, <1>14, <3>1, MindFields DEF SignalOK
    <3> HIDE DEF SignalOK, Taken, j
    <3> QED BY <1>25, <3>1, <3>2
  <2> QED BY <2>1, <2>2
<1>27. AllTaken(Mind', Unsent', Landed', inbox')
  BY <1>16, <1>26 DEF AllTaken
<1>28. \A i \in 1 .. Len(inbox) : i \in 1 .. Len(inbox') /\ inbox'[i] = inbox[i]
  BY <1>8, <1>12, <1>24
<1> QED BY <1>3, <1>22, <1>23, <1>24, <1>27, <1>28

LEMMA PostedIs ==
    ASSUME ErrandsInv, [ErrandsNext]_errandVars, NEW p, Posts(p)
    PROVE  p \notin Unsent'
<1>1. Counted /\ LabHolds'
  BY LabStep DEF ErrandsInv
<1>2. Unsent' \subseteq Pictures /\ \A q \in Unsent' : sent'[q] = 0
  BY <1>1 DEF LabHolds, Landed, Unsent
<1> DEFINE v == IF sent[p] = 2 THEN 2 ELSE sent[p] + 1
<1>3. sent' = [sent EXCEPT ![p] = v] /\ sent \in [Pictures -> 0 .. 2]
  BY <1>1 DEF Counted, Posts
<1>4. p \in Pictures => v # 0
  BY <1>3
<1> HIDE DEF v
<1> QED BY <1>2, <1>3, <1>4

LEMMA NothingUnsent ==
    ASSUME ErrandsInv, [ErrandsNext]_errandVars
    PROVE  NoPicture \notin Unsent'
<1>1. Unsent' \subseteq Landed' /\ Landed' \subseteq Pictures
  BY LabStep
<1> QED BY <1>1, ErrandsAssumption

LEMMA WhatItHoldsIs ==
    ASSUME ErrandsInv, [ErrandsNext]_errandVars, NEW goal, PostsWhatItHolds(goal)
    PROVE  goal.picture \notin Unsent'
<1>1. CASE goal.picture = NoPicture
  BY <1>1, NothingUnsent
<1>2. CASE goal.picture # NoPicture
  BY <1>2, PostedIs DEF PostsWhatItHolds
<1> QED BY <1>1, <1>2

(* What an act in flight may count on.                                     *)
LEMMA ActIs ==
    ASSUME ErrandsInv, Awaiting
    PROVE  /\ cur \in DOMAIN goals /\ CopyOf(Mind, cur, copy)
           /\ copy.picture = goals[cur].picture
           /\ pc = "working" => IsTask(Mind.goals[cur]) /\ NoNews(Mind, cur)
           /\ pc = "speaking" => copy.picture \notin Unsent
           /\ copy.picture \in Landed \cup {NoPicture}
<1>1. /\ cur \in DOMAIN goals /\ CopyOf(Mind, cur, copy)
      /\ pc = "working" => IsTask(Mind.goals[cur]) /\ NoNews(Mind, cur)
      /\ pc = "speaking" => copy.picture \notin Unsent
  BY MindFields DEF ErrandsInv, Acting
<1>2. copy.picture = goals[cur].picture
  BY <1>1, MindFields DEF CopyOf
<1>3. Rooted(Mind, Landed)
  BY DEF ErrandsInv, Bookkept, Sound
<1>4. goals[cur].picture \in Landed \cup {NoPicture}
  BY <1>1, <1>3, MindFields DEF Rooted
<1> QED BY <1>1, <1>2, <1>4

LEMMA SpokenIs ==
    ASSUME ErrandsInv, [ErrandsNext]_errandVars, pc = "speaking"
    PROVE  copy.picture \notin Unsent'
<1>1. copy.picture \notin Unsent /\ copy.picture \in Landed \cup {NoPicture}
  BY ActIs DEF Awaiting
<1>2. Unsent' \cap Landed \subseteq Unsent
  BY LabStep
<1> QED BY <1>1, <1>2, NothingUnsent

LEMMA MindStep ==
    ASSUME ErrandsInv, [ErrandsNext]_errandVars
    PROVE  Carried
<1>1. Sound(Mind, Unsent', Landed', {}) /\ DOMAIN Mind.goals = DOMAIN goals /\ Mind.goals = goals
  BY SoundNow, MindFields
<1>2. \A s \in {"pending", "active", "waiting", "done", "abandoned"} :
         s \in OpenStates \cup Shut
  BY DEF OpenStates, Shut
<1>3. Landed' \subseteq Pictures /\ NoPicture \notin Unsent'
  BY LabStep, NothingUnsent
<1> HIDE DEF Sound, Mind
<1>4. CASE \/ Rest \/ NoWords \/ ActFails \/ Commit \/ PersistNow
           \/ TickDies \/ Pause \/ Resume
           \/ \E g \in DOMAIN goals : \/ HoldBelowThreshold(g) \/ StartSuggest(g)
                                     \/ StartSpeak(g) \/ LetGo(g)
           \/ \E p \in Pictures : ShootForNoGoal(p)
           \/ \E p \in Pictures, g \in 0 .. Len(goals), c \in BOOLEAN : ChatTakesPicture(p, g, c)
           \/ \E r \in renders : RenderLands(r) \/ RenderFails(r)
           \/ UNCHANGED errandVars
  <2>1. UNCHANGED <<goals, wakeups, shelved, cut>>
    BY <1>4, MindFields
       DEF Rest, NoWords, ActFails, Commit, PersistNow, TickDies, Pause,
           Resume, HoldBelowThreshold, StartSuggest, StartSpeak, LetGo,
           ShootForNoGoal, RenderLands, RenderFails, ChatTakesPicture, End,
           Errand, Workable, Begin, Held, Awaiting, Starts, Render, Elsewhere,
           InConversation, Lost, Mishap, Becomes, mind, queue, labVars, act,
           counts, history, errandVars
  <2> QED BY <2>1, StaysCarried
<1>5. CASE Sense
  BY <1>5, SenseIs
<1>6. ASSUME NEW g \in DOMAIN goals, StartWork(g)
      PROVE  Carried
  <2> DEFINE n == Moved(Mind, g, "active")
  <2>1. Becomes(n) /\ Open(Mind, g) /\ cut' = cut
    BY <1>6 DEF StartWork, Workable, history
  <2>2. Sound(n, Unsent', Landed', {}) /\ Keeps(Mind, n, Unsent') /\ Calms(Mind, n)
    BY <1>1, <1>2, <2>1, MovesTo DEF Shut
  <2> HIDE DEF n
  <2> QED BY <2>1, <2>2, CalmCarried
<1>7. ASSUME NEW g \in DOMAIN goals, LetGoQuietly(g)
      PROVE  Carried
  <2> DEFINE n == Moved(Mind, g, "abandoned")
  <2>1. Becomes(n) /\ goals[g].picture = NoPicture /\ cut' = cut
    BY <1>7 DEF LetGoQuietly, Held, history
  <2>2. Sound(n, Unsent', Landed', {}) /\ Keeps(Mind, n, Unsent') /\ Calms(Mind, n)
    BY <1>1, <1>2, <1>3, <2>1, MovesTo DEF OpenStates
  <2> HIDE DEF n
  <2> QED BY <2>1, <2>2, CalmCarried
<1>8. ASSUME NEW g \in DOMAIN goals, HoldUntilTheGateOpens(g)
      PROVE  Carried
  <2> DEFINE n == Parked(Mind, g)
  <2>1. Becomes(n) /\ Open(Mind, g) /\ cut' = cut
    BY <1>8 DEF HoldUntilTheGateOpens, Held, Errand, Workable, history
  <2>2. /\ Sound(n, Unsent', Landed', {}) /\ Keeps(Mind, n, Unsent') /\ Stills(Mind, n, g)
        /\ g \in n.wakeups
    BY <1>1, <2>1, ParkedIs
  <2> HIDE DEF n
  <2> QED BY <2>1, <2>2, ActsCarried
<1>9. CASE Continue
  <2> DEFINE n == Moved(Mind, cur, "active")
  <2>1. Becomes(n) /\ pc = "working" /\ cut' = cut
    BY <1>9 DEF Continue, WorkEnds, history
  <2>2. /\ cur \in DOMAIN goals /\ IsTask(Mind.goals[cur]) /\ NoNews(Mind, cur)
        /\ CopyOf(Mind, cur, copy)
    BY <2>1, ActIs DEF Awaiting
  <2>3. /\ Sound(n, Unsent', Landed', {}) /\ Keeps(Mind, n, Unsent') /\ Stills(Mind, n, cur)
        /\ n.goals[cur].state = "active"
    BY <1>1, <1>2, <2>2, MovesTo DEF Shut
  <2> HIDE DEF n
  <2> QED BY <2>1, <2>2, <2>3, ActsCarried
<1>10. ASSUME NEW p \in Pictures, Dispatch(p)
      PROVE  Carried
  <2> DEFINE n == Parked(Mind, cur)
  <2>1. Becomes(n) /\ pc = "working" /\ cut' = cut
    BY <1>10 DEF Dispatch, WorkEnds, history
  <2>2. /\ cur \in DOMAIN goals /\ IsTask(Mind.goals[cur]) /\ NoNews(Mind, cur)
        /\ CopyOf(Mind, cur, copy)
    BY <2>1, ActIs DEF Awaiting
  <2>3. /\ Sound(n, Unsent', Landed', {}) /\ Keeps(Mind, n, Unsent') /\ Stills(Mind, n, cur)
        /\ cur \in n.wakeups
    BY <1>1, <2>2, ParkedIs
  <2> HIDE DEF n
  <2> QED BY <2>1, <2>2, <2>3, ActsCarried
<1>11. CASE Finish
  <2> DEFINE n == Moved(OfferToTell(Mind, cur, copy), cur, "done")
  <2>1. Becomes(n) /\ pc = "working" /\ cut' = cut
    BY <1>11 DEF Finish, WorkEnds, history
  <2>2. /\ cur \in DOMAIN goals /\ IsTask(Mind.goals[cur]) /\ NoNews(Mind, cur)
        /\ CopyOf(Mind, cur, copy)
    BY <2>1, ActIs DEF Awaiting
  <2>3. /\ Sound(n, Unsent', Landed', {}) /\ Keeps(Mind, n, Unsent') /\ Stills(Mind, n, cur)
        /\ n.goals[cur].state = "done"
    BY <1>1, <2>2, KeptIs
  <2> HIDE DEF n
  <2> QED BY <2>1, <2>2, <2>3, ActsCarried
<1>12. CASE AbandonAtHorizon
  <2> DEFINE n == Moved(OfferThePicture(Mind, cur, copy), cur, "abandoned")
  <2>1. Becomes(n) /\ pc = "working" /\ cut' = cut
    BY <1>12 DEF AbandonAtHorizon, WorkEnds, history
  <2>2. /\ cur \in DOMAIN goals /\ IsTask(Mind.goals[cur]) /\ NoNews(Mind, cur)
        /\ CopyOf(Mind, cur, copy)
    BY <2>1, ActIs DEF Awaiting
  <2>3. /\ Sound(n, Unsent', Landed', {}) /\ Keeps(Mind, n, Unsent') /\ Stills(Mind, n, cur)
        /\ n.goals[cur].state = "abandoned"
    BY <1>1, <1>2, <2>2, MovesOn
  <2> HIDE DEF n
  <2> QED BY <2>1, <2>2, <2>3, ActsCarried
<1>13. CASE ParkAtHorizon
  <2> DEFINE n == Parked(OfferThePicture(Mind, cur, copy), cur)
  <2>1. Becomes(n) /\ pc = "working" /\ cut' = cut
    BY <1>13 DEF ParkAtHorizon, WorkEnds, history
  <2>2. /\ cur \in DOMAIN goals /\ IsTask(Mind.goals[cur]) /\ NoNews(Mind, cur)
        /\ CopyOf(Mind, cur, copy)
    BY <2>1, ActIs DEF Awaiting
  <2>3. /\ Sound(n, Unsent', Landed', {}) /\ Keeps(Mind, n, Unsent') /\ Stills(Mind, n, cur)
        /\ cur \in n.wakeups
    <3> DEFINE k == Moved(OfferThePicture(Mind, cur, copy), cur, "waiting")
               n0 == WokenLater(k, cur)
    <3>1. /\ Sound(k, Unsent', Landed', {}) /\ Keeps(Mind, k, Unsent') /\ Stills(Mind, k, cur)
          /\ cur \in DOMAIN k.goals
      BY <1>1, <1>2, <2>2, MovesOn
    <3> HIDE DEF k
    <3>2. /\ Sound(n0, Unsent', Landed', {}) /\ Keeps(k, n0, Unsent') /\ Stills(k, n0, cur)
          /\ cur \in n0.wakeups
      BY <3>1, WokenLaterSound
    <3> HIDE DEF n0
    <3>3. Keeps(Mind, n0, Unsent') /\ Stills(Mind, n0, cur)
      BY <3>1, <3>2, KeepsOn, StillsOn
    <3> QED BY <3>2, <3>3 DEF n0, k, Parked
  <2> HIDE DEF n
  <2> QED BY <2>1, <2>2, <2>3, ActsCarried
<1>14. ASSUME NEW c \in BOOLEAN, Tell(c)
      PROVE  Carried
  <2> DEFINE told == Told(Mind, cur)
             n == Written(told.mind, cur, [told.mind.goals[cur] EXCEPT !.state = "waiting",
                                                                       !.telling = told.id,
                                                                       !.completes = c])
  <2>1. Becomes(n) /\ pc = "working" /\ cut' = cut
    BY <1>14 DEF Tell, WorkEnds, history
  <2>2. cur \in DOMAIN goals /\ IsTask(Mind.goals[cur]) /\ NoNews(Mind, cur)
    BY <2>1, ActIs DEF Awaiting
  <2>3. /\ Sound(n, Unsent', Landed', {}) /\ Keeps(Mind, n, Unsent') /\ Stills(Mind, n, cur)
        /\ n.goals[cur].telling # 0
    BY <1>1, <2>2, TellIs
  <2> HIDE DEF n
  <2> QED BY <2>1, <2>2, <2>3, ActsCarried
<1>15. ASSUME NEW g \in DOMAIN goals, DeliverWords(g)
      PROVE  Carried
  <2> DEFINE p == goals[g].picture
             k == Delivered(Mind, g, p)
             n == SettleTelling(k, g, TRUE)
  <2>1. Becomes(n) /\ cut' = cut
    BY <1>15 DEF DeliverWords
  <2>2. p \notin Unsent'
    BY <1>15, WhatItHoldsIs DEF DeliverWords
  <2>3. p = Mind.goals[g].picture
    BY <1>1
  <2> HIDE DEF p
  <2>4. Sound(k, Unsent', Landed', {}) /\ Keeps(Mind, k, Unsent') /\ Calms(Mind, k)
    BY <1>1, <2>2, <2>3, DeliveredIs
  <2> HIDE DEF k
  <2>5. Sound(n, Unsent', Landed', {}) /\ Keeps(k, n, Unsent') /\ Calms(k, n)
    <3>1. \A d \in BOOLEAN : LET j == SettleTelling(k, g, d)
                             IN  Sound(j, Unsent', Landed', {}) /\ Keeps(k, j, Unsent')
                                 /\ Calms(k, j)
      BY <2>4, SettleIs
    <3> QED BY <3>1, Zenon
  <2> HIDE DEF n
  <2>6. Keeps(Mind, n, Unsent') /\ Calms(Mind, n)
    BY <2>4, <2>5, KeepsOn, CalmsOn
  <2> QED BY <2>1, <2>5, <2>6, CalmCarried
<1>16. CASE Suggest
  <2> DEFINE n == Delivered(Mind, cur, copy.picture)
  <2>1. Becomes(n) /\ cut' = cut
    BY <1>16 DEF Suggest, history
  <2>2. Awaiting
    BY <1>16 DEF Suggest, Awaiting
  <2>3. cur \in DOMAIN goals /\ copy.picture = Mind.goals[cur].picture
    BY <1>1, <2>2, ActIs
  <2>4. copy.picture \notin Unsent'
    BY <1>16, WhatItHoldsIs DEF Suggest
  <2>5. Sound(n, Unsent', Landed', {}) /\ Keeps(Mind, n, Unsent') /\ Calms(Mind, n)
    BY <1>1, <2>3, <2>4, DeliveredIs
  <2> HIDE DEF n
  <2> QED BY <2>1, <2>5, CalmCarried
<1>17. CASE Speak
  <2> DEFINE n == Delivered(Mind, cur, copy.picture)
  <2>1. Becomes(n) /\ cut' = cut
    BY <1>17 DEF Speak, history
  <2>2. Awaiting
    BY <1>17 DEF Speak, Awaiting
  <2>3. cur \in DOMAIN goals /\ copy.picture = Mind.goals[cur].picture
    BY <1>1, <2>2, ActIs
  <2>4. copy.picture \notin Unsent'
    BY <1>17, SpokenIs DEF Speak
  <2>5. Sound(n, Unsent', Landed', {}) /\ Keeps(Mind, n, Unsent') /\ Calms(Mind, n)
    BY <1>1, <2>3, <2>4, DeliveredIs
  <2> HIDE DEF n
  <2> QED BY <2>1, <2>5, CalmCarried
<1>18. ASSUME NEW g \in DOMAIN goals, ShowHeldPicture(g)
      PROVE  Carried
  <2> DEFINE n == Delivered(Mind, g, goals[g].picture)
  <2>1. Becomes(n) /\ cut' = cut /\ Posts(goals[g].picture)
    BY <1>18 DEF ShowHeldPicture, Shows, Delivered
  <2>2. goals[g].picture \notin Unsent'
    BY <2>1, PostedIs
  <2>3. Sound(n, Unsent', Landed', {}) /\ Keeps(Mind, n, Unsent') /\ Calms(Mind, n)
    BY <1>1, <2>2, DeliveredIs
  <2> HIDE DEF n
  <2> QED BY <2>1, <2>3, CalmCarried
<1>19. ASSUME NEW p \in Pictures, ShowUnsent(p)
      PROVE  Carried
  <2> DEFINE n == PictureShown(Mind, p)
  <2>1. Becomes(n) /\ cut' = cut /\ Posts(p)
    BY <1>19 DEF ShowUnsent, Shows
  <2>2. p \notin Unsent'
    BY <2>1, PostedIs
  <2>3. Sound(n, Unsent', Landed', {}) /\ Keeps(Mind, n, Unsent') /\ Calms(Mind, n)
    BY <1>1, <2>2, ShownIs
  <2> HIDE DEF n
  <2> QED BY <2>1, <2>3, CalmCarried
<1>20. CASE Crash
  <2>1. /\ goals' = goals /\ wakeups' = disk
        /\ shelved' = shelved \cup (UnreadPictures \ {NoPicture})
        /\ cut' = cut \cup {g \in wakeups \ disk : goals[g].state = "waiting"}
    BY <1>20 DEF Crash
  <2>2. disk \subseteq DOMAIN goals
    BY DEF ErrandsInv, Saved
  <2>3. UnreadPictures \subseteq Pictures \cup {NoPicture}
    <3>1. /\ Len(inbox) \in Nat /\ taken \in 0 .. Len(inbox)
          /\ \A i \in 1 .. Len(inbox) : SignalOK(Mind, Unsent, Landed, inbox[i])
      BY DEF ErrandsInv, Queued
    <3>2. Landed \subseteq Pictures
      BY DEF ErrandsInv, LabHolds, Landed
    <3> QED BY <3>1, <3>2 DEF UnreadPictures, SignalOK
  <2>4. /\ IsMind(Mind) /\ Mind.shelved = shelved
        /\ Mind'.goals = goals' /\ Mind'.wakeups = wakeups' /\ Mind'.shelved = shelved'
        /\ DOMAIN Mind' = {"goals", "wakeups", "shelved"}
    BY <1>1, MindFields DEF Sound, Mind
  <2>5. IsMind(Mind')
    BY <1>1, <2>1, <2>2, <2>3, <2>4 DEF IsMind
  <2>6. Sound(Mind', Unsent', Landed', {}) /\ Keeps(Mind, Mind', Unsent')
    BY <1>1, <2>1, <2>4, <2>5, SameLinesSound
  <2>7. Woken'
    BY <2>1 DEF ErrandsInv, Woken
  <2>8. Revives(Mind, Mind')
    BY <1>1, <2>1, <2>4 DEF Revives, Open
  <2>9. Len(goals') <= MaxGoals
    BY <2>1 DEF ErrandsInv, Bookkept
  <2> QED BY <2>6, <2>7, <2>8, <2>9 DEF Carried
<1> QED
  BY <1>4, <1>5, <1>6, <1>7, <1>8, <1>9, <1>10, <1>11, <1>12, <1>13, <1>14,
     <1>15, <1>16, <1>17, <1>18, <1>19, <1>20
     DEF ErrandsNext

-----------------------------------------------------------------------------
(* The act in flight.                                                      *)
LEMMA CarriedGives ==
    ASSUME ErrandsInv, [ErrandsNext]_errandVars
    PROVE  /\ Sound(Mind', Unsent', Landed', {}) /\ Keeps(Mind, Mind', Unsent')
           /\ IsMind(Mind) /\ IsMind(Mind') /\ Len(goals') <= MaxGoals /\ Woken'
           /\ Landed' \subseteq Pictures /\ Rooted(Mind', Landed') /\ OneFollowUp(Mind')
           /\ DOMAIN goals = 1 .. Len(goals) /\ Len(goals) \in Nat
           /\ DOMAIN goals' = 1 .. Len(goals') /\ Len(goals') \in Nat
           /\ DOMAIN goals \subseteq DOMAIN goals'
           /\ \A g \in DOMAIN goals : Named(goals[g], goals'[g])
<1>1. Carried
  BY MindStep
<1>2. /\ Sound(Mind', Unsent', Landed', {}) /\ Keeps(Mind, Mind', Unsent')
      /\ Len(goals') <= MaxGoals /\ Woken'
  BY <1>1 DEF Carried
<1>3. /\ IsMind(Mind') /\ Landed' \subseteq Pictures /\ Rooted(Mind', Landed')
      /\ OneFollowUp(Mind')
  BY <1>2 DEF Sound
<1>4. IsMind(Mind)
  BY DEF ErrandsInv, Bookkept, Sound
<1>5. /\ DOMAIN goals = 1 .. Len(goals) /\ Len(goals) \in Nat
      /\ DOMAIN goals' = 1 .. Len(goals') /\ Len(goals') \in Nat
  BY <1>3, <1>4, MindIs, MindFields
<1>6. /\ DOMAIN goals \subseteq DOMAIN goals'
      /\ \A g \in DOMAIN goals : Named(goals[g], goals'[g])
  BY <1>2, MindFields DEF Keeps
<1> QED BY <1>2, <1>3, <1>4, <1>5, <1>6

(* The conversation goes on meanwhile; it marks pictures shown.            *)
LEMMA ActKept ==
    ASSUME ErrandsInv, [ErrandsNext]_errandVars, UNCHANGED <<pc, cur, copy>>,
           Len(goals') = Len(goals),
           \A h \in DOMAIN goals : /\ goals'[h].picture = goals[h].picture
                                   /\ goals'[h].offered = goals[h].offered
                                   /\ goals[h].shown => goals'[h].shown
    PROVE  Acting'
<1>1. /\ DOMAIN goals' = DOMAIN goals
      /\ \A g \in DOMAIN goals : Named(goals[g], goals'[g])
  BY CarriedGives
<1>2. Acting /\ Awaiting' = Awaiting
  BY DEF ErrandsInv, Awaiting
<1>3. CASE ~Awaiting
  BY <1>2, <1>3 DEF Acting, Awaiting
<1>4. CASE Awaiting
  <2>1. /\ cur \in DOMAIN goals /\ copy \in Goal /\ CopyOf(Mind, cur, copy)
        /\ pc = "working" => IsTask(goals[cur]) /\ NoNews(Mind, cur)
    BY <1>2, <1>4 DEF Acting
  <2>2. CopyOf(Mind', cur, copy)
    <3>1. /\ copy.picture = goals[cur].picture /\ copy.offered = goals[cur].offered
          /\ copy.shown => goals[cur].shown
      BY <2>1, MindFields DEF CopyOf
    <3>2. copy.picture = goals'[cur].picture /\ copy.offered = goals'[cur].offered
      BY <2>1, <3>1
    <3>3. copy.shown => goals'[cur].shown
      BY <2>1, <3>1, Zenon
    <3> QED BY <3>2, <3>3, MindFields, Zenon DEF CopyOf
  <2>3. pc = "working" => IsTask(goals'[cur]) /\ NoNews(Mind', cur)
    <3> SUFFICES ASSUME pc = "working" PROVE IsTask(goals'[cur]) /\ NoNews(Mind', cur)
      OBVIOUS
    <3>1. IsTask(goals'[cur])
      BY <1>1, <2>1 DEF IsTask, Named
    <3>2. ASSUME NEW f \in DOMAIN goals, goals'[f].origin = "followup", goals'[f].of = cur
          PROVE  goals'[cur].offered
      <4>1. goals[cur].offered
        BY <1>1, <2>1, <3>2, MindFields DEF NoNews, Named
      <4>2. goals'[cur].offered = goals[cur].offered
        BY <2>1
      <4> QED BY <4>1, <4>2, Zenon
    <3> QED BY <1>1, <3>1, <3>2, MindFields DEF NoNews
  <2>4. pc = "speaking" => copy.picture \notin Unsent'
    BY SpokenIs
  <2>5. pc' = pc /\ cur' = cur /\ copy' = copy /\ cur \in DOMAIN goals' /\ Awaiting'
    BY <1>1, <1>2, <1>4, <2>1
  <2> HIDE DEF Goal, CopyOf
  <2> QED BY <1>2, <2>1, <2>2, <2>3, <2>4, <2>5 DEF Acting, Awaiting
<1> QED BY <1>3, <1>4

(* An act starts with the goal as goals.md has it.                         *)
LEMMA BegunIs ==
    ASSUME ErrandsInv, [ErrandsNext]_errandVars, NEW g \in DOMAIN goals, NEW where,
           Begin(g, where), where \in {"working", "suggesting", "speaking"},
           where = "working" => IsTask(goals'[g]) /\ Open(Mind', g),
           where = "speaking" => goals'[g].picture \notin Unsent'
    PROVE  Acting'
<1>1. /\ IsMind(Mind') /\ Len(Mind'.goals) <= MaxGoals /\ Landed' \subseteq Pictures
      /\ Rooted(Mind', Landed') /\ OneFollowUp(Mind')
      /\ DOMAIN goals \subseteq DOMAIN goals'
  BY CarriedGives, MindFields
<1>2. goals'[g] \in Goal
  <2> HIDE DEF Goal
  <2> QED BY <1>1, GoalsAre, MindFields
<1>3. pc' = where /\ cur' = g /\ copy' = goals'[g] /\ Awaiting'
  BY DEF Begin, Awaiting
<1>4. where = "working" => NoNews(Mind', g)
  BY <1>1 DEF OneFollowUp, Open
<1>5. CopyOf(Mind', g, goals'[g])
  BY MindFields DEF CopyOf
<1> HIDE DEF Goal, CopyOf
<1> QED BY <1>1, <1>2, <1>3, <1>4, <1>5 DEF Acting, Awaiting

LEMMA ActingStep ==
    ASSUME ErrandsInv, [ErrandsNext]_errandVars
    PROVE  Acting'
<1>1. CASE \/ Rest \/ Continue \/ Finish \/ ParkAtHorizon
           \/ AbandonAtHorizon \/ Suggest \/ Speak \/ NoWords
           \/ ActFails \/ TickDies \/ Pause \/ Crash
           \/ \E g \in DOMAIN goals : \/ HoldUntilTheGateOpens(g)
                                     \/ HoldBelowThreshold(g) \/ LetGoQuietly(g)
                                     \/ DeliverWords(g)
           \/ \E c \in BOOLEAN : Tell(c)
           \/ \E p \in Pictures : Dispatch(p) \/ ShootForNoGoal(p)
  <2>1. /\ pc' \in {"asleep", "reflecting", "paused"} /\ cur' = 0 /\ copy' = <<>>
    BY <1>1
       DEF Rest, Continue, Finish, ParkAtHorizon, AbandonAtHorizon, Suggest,
           Speak, NoWords, ActFails, TickDies, Pause, Crash,
           HoldUntilTheGateOpens, HoldBelowThreshold, LetGoQuietly,
           DeliverWords, Dispatch, ShootForNoGoal, Tell, End, Errand, Workable,
           Held, WorkEnds, Starts, Render, Awaiting, Lost, Mishap, Elsewhere,
           mind, queue, labVars, act, counts, history
  <2> QED BY <2>1 DEF Acting, Awaiting
<1>2. CASE \/ Sense \/ Commit \/ Resume
  <2>1. /\ ~Awaiting /\ UNCHANGED <<cur, copy>>
        /\ pc' \in {"asleep", "deciding"}
    BY <1>2
       DEF Sense, Commit, Resume, Awaiting, mind, queue, labVars, act, counts,
           history
  <2> QED BY <2>1 DEF ErrandsInv, Acting, Awaiting
<1>3. CASE \/ PersistNow
           \/ \E g \in DOMAIN goals : \/ LetGo(g)
           \/ \E p \in Pictures, g \in 0 .. Len(goals), c \in BOOLEAN : ChatTakesPicture(p, g, c)
           \/ \E r \in renders : RenderLands(r) \/ RenderFails(r)
           \/ UNCHANGED errandVars
  <2>1. UNCHANGED <<pc, cur, copy, goals>>
    BY <1>3
       DEF PersistNow, LetGo, RenderLands, RenderFails, ChatTakesPicture,
           Elsewhere, Starts, Render, InConversation, mind, queue, labVars,
           act, counts, history, errandVars
  <2> QED BY <2>1, ActKept
<1>4. ASSUME NEW g \in DOMAIN goals, StartWork(g)
      PROVE  Acting'
  <2>1. Becomes(Moved(Mind, g, "active")) /\ IsTask(goals[g]) /\ Begin(g, "working")
    BY <1>4 DEF StartWork
  <2>2. IsTask(goals'[g])
    BY <2>1, CarriedGives DEF Named, IsTask
  <2>3. Restated(Mind, Moved(Mind, g, "active"), g, "active")
    BY MovedIs, CarriedGives, MindFields DEF OpenStates
  <2>4. goals'[g].state = "active"
    BY <2>1, <2>3 DEF Becomes, Restated
  <2>5. Open(Mind', g)
    BY <2>4, CarriedGives, MindFields DEF Open, OpenStates
  <2> QED BY <2>1, <2>2, <2>5, BegunIs
<1>5. ASSUME NEW g \in DOMAIN goals, StartSuggest(g)
      PROVE  Acting'
  BY <1>5, BegunIs DEF StartSuggest
<1>6. ASSUME NEW g \in DOMAIN goals, StartSpeak(g)
      PROVE  Acting'
  <2>1. Begin(g, "speaking") /\ goals' = goals /\ PostsWhatItHolds(goals[g])
    BY <1>6, MindFields DEF StartSpeak, Becomes
  <2>2. goals'[g].picture \notin Unsent'
    BY <2>1, WhatItHoldsIs
  <2> QED BY <2>1, <2>2, BegunIs
<1>7. ASSUME NEW g \in DOMAIN goals, ShowHeldPicture(g)
      PROVE  Acting'
  <2> DEFINE n == Delivered(Mind, g, goals[g].picture)
  <2>1. Becomes(n) /\ UNCHANGED <<pc, cur, copy>> /\ Posts(goals[g].picture)
    BY <1>7 DEF ShowHeldPicture, Shows, Delivered, act
  <2>2. goals[g].picture \notin Unsent' /\ Sound(Mind, Unsent', Landed', {})
    BY <2>1, PostedIs, SoundNow
  <2>3. Sees(Mind, n)
    <3> HIDE DEF Sound
    <3> QED BY <2>2, DeliveredIs, MindFields
  <2> HIDE DEF n
  <2>4. goals' = n.goals
    BY <2>1 DEF Becomes
  <2> QED BY <2>1, <2>3, <2>4, MindFields, ActKept DEF Sees
<1>8. ASSUME NEW p \in Pictures, ShowUnsent(p)
      PROVE  Acting'
  <2> DEFINE n == PictureShown(Mind, p)
  <2>1. Becomes(n) /\ UNCHANGED <<pc, cur, copy>> /\ Posts(p)
    BY <1>8 DEF ShowUnsent, Shows, Delivered, act
  <2>2. p \notin Unsent' /\ Sound(Mind, Unsent', Landed', {})
    BY <2>1, PostedIs, SoundNow
  <2>3. Sees(Mind, n)
    <3> HIDE DEF Sound
    <3> QED BY <2>2, ShownIs, MindFields
  <2> HIDE DEF n
  <2>4. goals' = n.goals
    BY <2>1 DEF Becomes
  <2> QED BY <2>1, <2>3, <2>4, MindFields, ActKept DEF Sees
<1> QED
  BY <1>1, <1>2, <1>3, <1>4, <1>5, <1>6, <1>7, <1>8
     DEF ErrandsNext

-----------------------------------------------------------------------------
(* The queue.                                                              *)
AllOK(m, U, A, batch) ==
    \A i \in 1 .. Len(batch) : /\ SignalOK(m, U, A, batch[i])
                               /\ batch[i].goal \in 0 .. Len(m.goals)

LEMMA SignalsNow ==
    ASSUME ErrandsInv, [ErrandsNext]_errandVars
    PROVE  AllOK(Mind', Unsent', Landed', inbox)
<1>1. /\ Landed \subseteq Landed' /\ Unsent' \cap Landed \subseteq Unsent
      /\ NoPicture \notin Unsent'
  BY LabStep, NothingUnsent
<1>2. Keeps(Mind, Mind', Unsent') /\ IsMind(Mind) /\ IsMind(Mind')
  BY CarriedGives
<1> SUFFICES ASSUME NEW i \in 1 .. Len(inbox)
             PROVE  /\ SignalOK(Mind', Unsent', Landed', inbox[i])
                    /\ inbox[i].goal \in 0 .. Len(Mind'.goals)
  BY DEF AllOK
<1>3. SignalOK(Mind, Unsent, Landed, inbox[i]) /\ inbox[i].goal \in 0 .. Len(Mind.goals)
  BY MindFields DEF ErrandsInv, Queued
<1>4. SignalOK(Mind, Unsent', Landed', inbox[i])
  BY <1>1, <1>3 DEF SignalOK
<1> HIDE DEF SignalOK
<1> QED BY <1>2, <1>3, <1>4, SignalsKept

LEMMA QueueNow ==
    ASSUME ErrandsInv, [ErrandsNext]_errandVars
    PROVE  /\ inbox \in Seq(AnySignal) /\ Len(inbox) \in Nat /\ taken \in 0 .. Len(inbox)
           /\ pc \in {"asleep", "paused"} => taken = 0
           /\ AllOK(Mind', Unsent', Landed', inbox)
<1>1. AllOK(Mind', Unsent', Landed', inbox)
  BY SignalsNow
<1> QED BY <1>1 DEF ErrandsInv, Queued

LEMMA QueuedIs ==
    ASSUME inbox' \in Seq(AnySignal), taken' \in 0 .. Len(inbox'),
           pc' \in {"asleep", "paused"} => taken' = 0,
           AllOK(Mind', Unsent', Landed', inbox')
    PROVE  Queued'
  BY MindFields DEF AllOK, Queued

(* A signal posted at the end of the queue.                                *)
LEMMA PostedSignal ==
    ASSUME ErrandsInv, [ErrandsNext]_errandVars, NEW sig \in AnySignal,
           inbox' = Append(inbox, sig), UNCHANGED <<taken, pc>>,
           SignalOK(Mind', Unsent', Landed', sig), sig.goal \in 0 .. Len(goals')
    PROVE  Queued'
<1>1. /\ inbox \in Seq(AnySignal) /\ Len(inbox) \in Nat /\ taken \in 0 .. Len(inbox)
      /\ pc \in {"asleep", "paused"} => taken = 0
      /\ AllOK(Mind', Unsent', Landed', inbox)
  BY QueueNow
<1>2. /\ inbox' \in Seq(AnySignal) /\ Len(inbox') = Len(inbox) + 1
      /\ \A i \in 1 .. Len(inbox) : inbox'[i] = inbox[i]
      /\ inbox'[Len(inbox) + 1] = sig
  BY <1>1, AppendProperties
<1>3. AllOK(Mind', Unsent', Landed', inbox')
  <2> SUFFICES ASSUME NEW i \in 1 .. Len(inbox')
               PROVE  /\ SignalOK(Mind', Unsent', Landed', inbox'[i])
                      /\ inbox'[i].goal \in 0 .. Len(Mind'.goals)
    BY DEF AllOK
  <2>1. CASE i \in 1 .. Len(inbox)
    BY <1>1, <1>2, <2>1 DEF AllOK
  <2>2. CASE i = Len(inbox) + 1
    BY <1>2, <2>2, MindFields
  <2> QED BY <1>1, <1>2, <2>1, <2>2
<1>4. taken' \in 0 .. Len(inbox') /\ (pc' \in {"asleep", "paused"} => taken' = 0)
  BY <1>1, <1>2
<1> QED BY <1>2, <1>3, <1>4, QueuedIs

LEMMA SignalIs ==
    ASSUME NEW p, NEW g \in Nat, NEW b \in BOOLEAN, NEW c \in BOOLEAN,
           p \in Pictures \cup {NoPicture}
    PROVE  LET sig == [type |-> "task_completion", goal |-> g, picture |-> p,
                       chat |-> b, completes |-> c]
           IN  /\ sig \in AnySignal /\ sig.type = "task_completion" /\ sig.goal = g
               /\ sig.picture = p /\ sig.chat = b /\ sig.completes = c
  BY Zenon DEF AnySignal

(* A completion is news of a render that was in flight.                    *)
LEMMA CompletionIs ==
    ASSUME ErrandsInv, [ErrandsNext]_errandVars, NEW r \in renders,
           renders' = renders \ {r}, asked' = asked, UNCHANGED <<taken, pc>>,
           NEW p \in {r.picture, NoPicture},
           r.chat => p \notin Unsent',
           inbox' = Append(inbox, [type |-> "task_completion", goal |-> r.goal, picture |-> p,
                                   chat |-> r.chat, completes |-> r.completes])
    PROVE  Queued'
<1> DEFINE sig == [type |-> "task_completion", goal |-> r.goal, picture |-> p,
                   chat |-> r.chat, completes |-> r.completes]
<1>1. /\ r.picture \in asked /\ r.chat \in BOOLEAN /\ r.completes \in BOOLEAN
      /\ r.completes => r.chat
      /\ \A q \in renders : r.picture = q.picture => r = q
      /\ asked \subseteq Pictures
  BY DEF ErrandsInv, LabHolds
<1>2. /\ r.goal \in 0 .. Len(goals)
      /\ ~r.chat /\ r.goal # 0 => IsTask(goals[r.goal])
  BY DEF ErrandsInv, RendersFor
<1>3. p \in Landed' \cup {NoPicture} /\ p \in Pictures \cup {NoPicture}
  BY <1>1 DEF Landed
<1>4. /\ DOMAIN goals = 1 .. Len(goals) /\ Len(goals) \in Nat
      /\ DOMAIN goals' = 1 .. Len(goals') /\ Len(goals') \in Nat
      /\ DOMAIN goals \subseteq DOMAIN goals'
      /\ \A g \in DOMAIN goals : Named(goals[g], goals'[g])
  BY CarriedGives
<1>5. r.goal \in Nat /\ r.goal \in 0 .. Len(goals')
  BY <1>2, <1>4
<1>6. /\ sig \in AnySignal /\ sig.type = "task_completion" /\ sig.goal = r.goal
      /\ sig.picture = p /\ sig.chat = r.chat /\ sig.completes = r.completes
  <2>1. \A b, c \in BOOLEAN, g \in Nat :
           LET s == [type |-> "task_completion", goal |-> g, picture |-> p,
                     chat |-> b, completes |-> c]
           IN  /\ s \in AnySignal /\ s.type = "task_completion" /\ s.goal = g
               /\ s.picture = p /\ s.chat = b /\ s.completes = c
    <3> HIDE DEF AnySignal
    <3> QED BY <1>3, SignalIs
  <2> QED BY <1>1, <1>5, <2>1, Zenon
<1>7. inbox' = Append(inbox, sig)
  OBVIOUS
<1> HIDE DEF sig
<1>8. /\ sig.chat \in BOOLEAN /\ (sig.completes => sig.chat)
      /\ sig.chat => sig.picture \notin Unsent'
      /\ ~sig.chat => ~r.chat
  BY <1>1, <1>6, Zenon
<1>9. ~r.chat /\ r.goal # 0 => IsTask(goals'[r.goal])
  BY <1>2, <1>4 DEF IsTask, Named
<1>10. ~sig.chat /\ sig.goal \in DOMAIN Mind'.goals => IsTask(Mind'.goals[sig.goal])
  BY <1>4, <1>6, <1>8, <1>9, MindFields
<1>11. SignalOK(Mind', Unsent', Landed', sig)
  BY <1>3, <1>6, <1>8, <1>10 DEF SignalOK
<1>12. sig.goal \in 0 .. Len(goals')
  BY <1>5, <1>6
<1> HIDE DEF AnySignal, SignalOK
<1> QED BY <1>6, <1>7, <1>11, <1>12, PostedSignal

LEMMA TailIs ==
    ASSUME NEW S, NEW s \in Seq(S), NEW k \in 0 .. Len(s), Len(s) \in Nat
    PROVE  LET t == SubSeq(s, k + 1, Len(s))
           IN  /\ t \in Seq(S) /\ Len(t) \in Nat /\ Len(t) = Len(s) - k
               /\ \A i \in 1 .. Len(t) : k + i \in 1 .. Len(s) /\ t[i] = s[k + i]
<1> DEFINE t == SubSeq(s, k + 1, Len(s))
<1>1. Len(t) = Len(s) - k /\ \A i \in 1 .. Len(t) : t[i] = s[k + i]
  BY SMT
<1>2. t \in Seq(S)
  BY SMT
<1> QED BY <1>1, <1>2

LEMMA QueuedStep ==
    ASSUME ErrandsInv, [ErrandsNext]_errandVars
    PROVE  Queued'
<1>1. /\ inbox \in Seq(AnySignal) /\ Len(inbox) \in Nat /\ taken \in 0 .. Len(inbox)
      /\ pc \in {"asleep", "paused"} => taken = 0
      /\ AllOK(Mind', Unsent', Landed', inbox)
  BY QueueNow
<1>2. CASE \/ Rest \/ Continue \/ Finish \/ ParkAtHorizon
           \/ AbandonAtHorizon \/ Suggest \/ Speak \/ NoWords
           \/ ActFails \/ PersistNow \/ Resume
           \/ \E g \in DOMAIN goals : \/ StartWork(g) \/ HoldUntilTheGateOpens(g)
                                     \/ HoldBelowThreshold(g) \/ LetGoQuietly(g)
                                     \/ DeliverWords(g) \/ StartSuggest(g)
                                     \/ StartSpeak(g) \/ ShowHeldPicture(g)
           \/ \E c \in BOOLEAN : Tell(c)
           \/ \E p \in Pictures : Dispatch(p) \/ ShootForNoGoal(p) \/ ShowUnsent(p)
           \/ \E p \in Pictures, g \in 0 .. Len(goals), c \in BOOLEAN : ChatTakesPicture(p, g, c)
           \/ UNCHANGED errandVars
  <2>1. /\ UNCHANGED <<inbox, taken>>
        /\ pc' \in {"asleep", "paused"} => pc \in {"asleep", "paused"}
    BY <1>2
       DEF Rest, Continue, Finish, ParkAtHorizon, AbandonAtHorizon, Suggest,
           Speak, NoWords, ActFails, PersistNow, Resume, StartWork,
           HoldUntilTheGateOpens, HoldBelowThreshold, LetGoQuietly,
           DeliverWords, StartSuggest, StartSpeak, ShowHeldPicture, Dispatch,
           ShootForNoGoal, ShowUnsent, Tell, ChatTakesPicture, End, WorkEnds,
           Held, Awaiting, Elsewhere, Workable, Begin, Errand, Shows,
           InConversation, Starts, Render, mind, queue, labVars, act, counts,
           history, errandVars
  <2> QED BY <1>1, <2>1, QueuedIs
<1>3. CASE Sense
  <2>1. /\ inbox' \in Seq(AnySignal) /\ taken' = Len(inbox')
        /\ AllTaken(Mind', Unsent', Landed', inbox')
    BY <1>3, SenseIs
  <2>2. pc' = "deciding"
    BY <1>3 DEF Sense
  <2>3. AllOK(Mind', Unsent', Landed', inbox')
    BY <2>1 DEF AllTaken, AllOK
  <2>4. taken' \in 0 .. Len(inbox')
    BY <2>1
  <2> QED BY <2>1, <2>2, <2>3, <2>4, QueuedIs
<1>4. ASSUME NEW r \in renders, RenderLands(r)
      PROVE  Queued'
  <2>1. /\ renders' = renders \ {r} /\ asked' = asked /\ UNCHANGED <<taken, pc>>
        /\ inbox' = Append(inbox, [type |-> "task_completion", goal |-> r.goal,
                                   picture |-> r.picture, chat |-> r.chat,
                                   completes |-> r.completes])
        /\ r.chat => Posts(r.picture)
    BY <1>4 DEF RenderLands, act
  <2>2. r.chat => r.picture \notin Unsent'
    BY <2>1, PostedIs
  <2> QED BY <2>1, <2>2, CompletionIs
<1>5. ASSUME NEW r \in renders, RenderFails(r)
      PROVE  Queued'
  <2>1. /\ renders' = renders \ {r} /\ asked' = asked /\ UNCHANGED <<taken, pc>>
        /\ inbox' = Append(inbox, [type |-> "task_completion", goal |-> r.goal,
                                   picture |-> NoPicture, chat |-> r.chat,
                                   completes |-> r.completes])
    BY <1>5 DEF RenderFails, act, labVars
  <2>2. NoPicture \notin Unsent'
    BY NothingUnsent
  <2> QED BY <2>1, <2>2, CompletionIs
<1>6. ASSUME NEW g \in DOMAIN goals, LetGo(g)
      PROVE  Queued'
  <2> DEFINE sig == Signal("goal_decision", g)
  <2>1. inbox' = Append(inbox, sig) /\ UNCHANGED <<taken, pc>>
    BY <1>6 DEF LetGo, act
  <2>2. /\ DOMAIN goals = 1 .. Len(goals) /\ Len(goals) \in Nat
        /\ DOMAIN goals' = 1 .. Len(goals') /\ Len(goals') \in Nat
        /\ DOMAIN goals \subseteq DOMAIN goals'
    BY CarriedGives
  <2>3. sig \in AnySignal /\ sig.goal \in 0 .. Len(goals')
    BY <2>2 DEF Signal, AnySignal
  <2>4. SignalOK(Mind', Unsent', Landed', sig)
    BY <2>2, MindFields DEF Signal, SignalOK
  <2> HIDE DEF sig, SignalOK, AnySignal
  <2> QED BY <2>1, <2>3, <2>4, PostedSignal
<1>7. CASE Commit
  <2>1. inbox' = SubSeq(inbox, taken + 1, Len(inbox)) /\ taken' = 0
    BY <1>7 DEF Commit
  <2>2. /\ inbox' \in Seq(AnySignal) /\ Len(inbox') \in Nat
        /\ \A i \in 1 .. Len(inbox') : taken + i \in 1 .. Len(inbox)
                                       /\ inbox'[i] = inbox[taken + i]
    BY <1>1, <2>1, TailIs
  <2>3. AllOK(Mind', Unsent', Landed', inbox')
    BY <1>1, <2>2 DEF AllOK
  <2>4. taken' \in 0 .. Len(inbox')
    BY <2>1, <2>2
  <2> QED BY <2>1, <2>2, <2>3, <2>4, QueuedIs
<1>8. CASE Crash
  <2>1. inbox' = <<>> /\ taken' = 0 /\ Len(inbox') = 0 /\ inbox' \in Seq(AnySignal)
    BY <1>8 DEF Crash
  <2> QED BY <2>1, QueuedIs DEF AllOK
<1>9. CASE TickDies
  <2>1. inbox' = inbox /\ taken' = 0
    BY <1>9 DEF TickDies, Pause, Lost
  <2> QED BY <1>1, <2>1, QueuedIs
<1>10. CASE Pause
  <2>1. inbox' = inbox /\ taken' = 0
    BY <1>10 DEF TickDies, Pause, Lost
  <2> QED BY <1>1, <2>1, QueuedIs
<1> QED
  BY <1>2, <1>3, <1>4, <1>5, <1>6, <1>7, <1>8, <1>9, <1>10
     DEF ErrandsNext

-----------------------------------------------------------------------------
(* Every picture never posted is on its way to a goal, or somewhere.       *)
UnreadFrom(batch, k) == {batch[i].picture : i \in {j \in k + 1 .. Len(batch) :
                                                     batch[j].type = "task_completion"}}

LEMMA UnreadIs ==
    /\ UnreadPictures = UnreadFrom(inbox, taken)
    /\ UnreadPictures' = UnreadFrom(inbox', taken')
  BY DEF UnreadPictures, UnreadFrom

(* Nothing unread goes missing from the queue but what SENSE folds in and  *)
(* what a crash takes.                                                     *)
LEMMA UnreadStays ==
    ASSUME NEW s, Len(s) \in Nat, NEW j \in 0 .. Len(s), NEW k \in {0, j}
    PROVE  UnreadFrom(s, j) \subseteq UnreadFrom(s, k)
  BY DEF UnreadFrom

LEMMA UnreadGrows ==
    ASSUME NEW s, NEW t, Len(s) \in Nat, NEW j \in 0 .. Len(s), Len(t) = Len(s) + 1,
           \A i \in 1 .. Len(s) : t[i] = s[i]
    PROVE  UnreadFrom(s, j) \subseteq UnreadFrom(t, j)
<1> SUFFICES ASSUME NEW i \in j + 1 .. Len(s), s[i].type = "task_completion"
             PROVE  s[i].picture \in UnreadFrom(t, j)
  BY DEF UnreadFrom
<1>1. i \in j + 1 .. Len(t) /\ t[i] = s[i]
  OBVIOUS
<1> QED BY <1>1 DEF UnreadFrom

LEMMA UnreadStep ==
    ASSUME ErrandsInv, [ErrandsNext]_errandVars, NEW p \in Unsent', p \in UnreadPictures
    PROVE  p \in UnreadPictures' \/ Safe(Mind', p)
<1>1. /\ inbox \in Seq(AnySignal) /\ Len(inbox) \in Nat /\ taken \in 0 .. Len(inbox)
  BY QueueNow
<1>2. p \in UnreadFrom(inbox, taken) /\ NoPicture \notin Unsent'
  BY UnreadIs, NothingUnsent
<1>3. CASE \/ Rest \/ Continue \/ Finish \/ ParkAtHorizon
           \/ AbandonAtHorizon \/ Suggest \/ Speak \/ NoWords
           \/ ActFails \/ PersistNow \/ TickDies \/ Pause \/ Resume
           \/ \E g \in DOMAIN goals : \/ StartWork(g) \/ HoldUntilTheGateOpens(g)
                                     \/ HoldBelowThreshold(g) \/ LetGoQuietly(g)
                                     \/ DeliverWords(g) \/ StartSuggest(g)
                                     \/ StartSpeak(g) \/ ShowHeldPicture(g)
           \/ \E c \in BOOLEAN : Tell(c)
           \/ \E q \in Pictures : Dispatch(q) \/ ShootForNoGoal(q) \/ ShowUnsent(q)
           \/ \E q \in Pictures, g \in 0 .. Len(goals), c \in BOOLEAN : ChatTakesPicture(q, g, c)
           \/ UNCHANGED errandVars
  <2>1. /\ inbox' = inbox /\ taken' \in {0, taken}
    BY <1>3
       DEF Rest, Continue, Finish, ParkAtHorizon, AbandonAtHorizon, Suggest,
           Speak, NoWords, ActFails, PersistNow, TickDies, Pause, Resume,
           StartWork, HoldUntilTheGateOpens, HoldBelowThreshold, LetGoQuietly,
           DeliverWords, StartSuggest, StartSpeak, ShowHeldPicture, Dispatch,
           ShootForNoGoal, ShowUnsent, Tell, ChatTakesPicture, End, WorkEnds,
           Held, Awaiting, Elsewhere, Workable, Begin, Errand, Shows,
           InConversation, Starts, Render, Lost, Mishap, mind, queue, labVars,
           act, counts, history, errandVars
  <2>2. p \in UnreadFrom(inbox', taken')
    BY <1>1, <1>2, <2>1, UnreadStays
  <2> QED BY <2>2, UnreadIs
<1>4. CASE \/ \E g \in DOMAIN goals : \/ LetGo(g)
           \/ \E r \in renders : RenderLands(r) \/ RenderFails(r)
  <2>1. taken' = taken /\ \E sig : inbox' = Append(inbox, sig)
    BY <1>4
       DEF LetGo, RenderLands, RenderFails, Elsewhere, mind, queue, labVars,
           act, counts, history
  <2>2. Len(inbox') = Len(inbox) + 1 /\ \A i \in 1 .. Len(inbox) : inbox'[i] = inbox[i]
    BY <1>1, <2>1
  <2>3. UnreadFrom(inbox, taken) \subseteq UnreadFrom(inbox', taken')
    BY <1>1, <2>1, <2>2, UnreadGrows
  <2> QED BY <1>2, <2>3, UnreadIs
<1>5. CASE Sense
  <2>1. /\ AllTaken(Mind', Unsent', Landed', inbox')
        /\ \A i \in 1 .. Len(inbox) : i \in 1 .. Len(inbox') /\ inbox'[i] = inbox[i]
    BY <1>5, SenseIs
  <2>2. PICK i \in taken + 1 .. Len(inbox) : /\ inbox[i].type = "task_completion"
                                             /\ inbox[i].picture = p
    BY <1>2 DEF UnreadFrom
  <2>3. i \in 1 .. Len(inbox)
    BY <1>1, <2>2
  <2>4. Taken(Mind', Unsent', inbox[i])
    BY <2>1, <2>3 DEF AllTaken
  <2> QED BY <2>2, <2>4 DEF Taken
<1>6. CASE Commit
  <2>1. inbox' = SubSeq(inbox, taken + 1, Len(inbox)) /\ taken' = 0
    BY <1>6 DEF Commit
  <2>2. PICK i \in taken + 1 .. Len(inbox) : /\ inbox[i].type = "task_completion"
                                             /\ inbox[i].picture = p
    BY <1>2 DEF UnreadFrom
  <2>3. /\ Len(inbox') = Len(inbox) - taken /\ Len(inbox') \in Nat
        /\ \A k \in 1 .. Len(inbox') : inbox'[k] = inbox[taken + k]
    BY <1>1, <2>1, TailIs
  <2> DEFINE k == i - taken
  <2>4. k \in 0 + 1 .. Len(inbox') /\ inbox'[k] = inbox[i]
    <3>1. k \in 1 .. Len(inbox') /\ taken + k = i
      BY <1>1, <2>2, <2>3
    <3> QED BY <2>3, <3>1
  <2> HIDE DEF k
  <2>5. p \in UnreadFrom(inbox', taken')
    BY <2>1, <2>2, <2>4 DEF UnreadFrom
  <2> QED BY <2>5, UnreadIs
<1>7. CASE Crash
  <2>1. shelved' = shelved \cup (UnreadPictures \ {NoPicture})
    BY <1>7 DEF Crash
  <2> QED BY <1>2, <2>1, MindFields DEF Safe
<1> QED
  BY <1>3, <1>4, <1>5, <1>6, <1>7
     DEF ErrandsNext

LEMMA GalleryMoves ==
    ASSUME [ErrandsNext]_errandVars
    PROVE  gallery' = gallery \/ \E r \in renders : RenderLands(r)
<1>1. CASE \/ Sense \/ Rest \/ Continue \/ Finish \/ ParkAtHorizon
           \/ AbandonAtHorizon \/ Suggest \/ Speak \/ NoWords
           \/ ActFails \/ Commit \/ PersistNow \/ TickDies \/ Pause
           \/ Resume \/ Crash
           \/ \E g \in DOMAIN goals : \/ StartWork(g) \/ HoldUntilTheGateOpens(g)
                                     \/ HoldBelowThreshold(g) \/ LetGoQuietly(g)
                                     \/ DeliverWords(g) \/ StartSuggest(g)
                                     \/ StartSpeak(g) \/ ShowHeldPicture(g) \/ LetGo(g)
           \/ \E c \in BOOLEAN : Tell(c)
           \/ \E p \in Pictures : Dispatch(p) \/ ShootForNoGoal(p) \/ ShowUnsent(p)
           \/ \E p \in Pictures, g \in 0 .. Len(goals), c \in BOOLEAN : ChatTakesPicture(p, g, c)
           \/ \E r \in renders : RenderFails(r)
           \/ UNCHANGED errandVars
  BY <1>1
     DEF Sense, Rest, Continue, Finish, ParkAtHorizon, AbandonAtHorizon,
           Suggest, Speak, NoWords, ActFails, Commit, PersistNow, TickDies,
           Pause, Resume, Crash, StartWork, HoldUntilTheGateOpens,
           HoldBelowThreshold, LetGoQuietly, DeliverWords, StartSuggest,
           StartSpeak, ShowHeldPicture, LetGo, Dispatch, ShootForNoGoal,
           ShowUnsent, RenderFails, Tell, ChatTakesPicture, End, WorkEnds,
           Held, Awaiting, Elsewhere, Lost, Mishap, Workable, Begin, Errand,
           Shows, InConversation, Starts, Render, mind, queue, labVars, act,
           counts, history, errandVars
<1>2. CASE \/ \E r \in renders : RenderLands(r)
  BY <1>2
<1> QED
  BY <1>1, <1>2
     DEF ErrandsNext

(* A picture of the mind's lands with its completion.                      *)
LEMMA NewUnread ==
    ASSUME ErrandsInv, [ErrandsNext]_errandVars, NEW p \in Unsent', p \notin Unsent
    PROVE  p \in UnreadPictures'
<1>1. p \in gallery' /\ sent'[p] = 0 /\ p \in Pictures
  BY LabStep DEF Unsent
<1>2. sent[p] = 0
  BY <1>1, CountedStep DEF ErrandsInv
<1>3. p \notin gallery
  BY <1>2 DEF Unsent
<1>4. PICK r \in renders : RenderLands(r)
  <2> DEFINE Lands == \E r \in renders : RenderLands(r)
  <2>1. gallery' = gallery \/ Lands
    BY GalleryMoves
  <2> QED BY <1>1, <1>3, <2>1
<1>5. /\ inbox' = Append(inbox, [type |-> "task_completion", goal |-> r.goal,
                                 picture |-> r.picture, chat |-> r.chat,
                                 completes |-> r.completes])
      /\ taken' = taken /\ gallery' \in {gallery, gallery \cup {r.picture}}
  BY <1>4 DEF RenderLands
<1> DEFINE sig == [type |-> "task_completion", goal |-> r.goal, picture |-> r.picture,
                   chat |-> r.chat, completes |-> r.completes]
<1>6. sig.type = "task_completion" /\ sig.picture = r.picture /\ inbox' = Append(inbox, sig)
  BY <1>5
<1> HIDE DEF sig
<1>7. /\ inbox \in Seq(AnySignal) /\ Len(inbox) \in Nat /\ taken \in 0 .. Len(inbox)
  BY QueueNow
<1>8. Len(inbox') = Len(inbox) + 1 /\ inbox'[Len(inbox) + 1] = sig
  BY <1>6, <1>7
<1>9. p = r.picture
  BY <1>1, <1>3, <1>5
<1>10. Len(inbox) + 1 \in taken' + 1 .. Len(inbox')
  BY <1>5, <1>7, <1>8
<1>11. p \in UnreadFrom(inbox', taken')
  BY <1>6, <1>8, <1>9, <1>10 DEF UnreadFrom
<1> QED BY <1>11, UnreadIs

LEMMA ShelvedStep ==
    ASSUME ErrandsInv, [ErrandsNext]_errandVars
    PROVE  Shelved'
<1> SUFFICES ASSUME NEW p \in Unsent'
             PROVE  p \in UnreadPictures' \/ Safe(Mind', p)
  BY DEF Shelved
<1>1. CASE p \notin Unsent
  BY <1>1, NewUnread
<1>2. CASE p \in UnreadPictures
  BY <1>2, UnreadStep
<1>3. CASE p \in Unsent /\ p \notin UnreadPictures
  <2>1. Safe(Mind, p)
    BY <1>3 DEF ErrandsInv, Shelved
  <2>2. Keeps(Mind, Mind', Unsent')
    BY CarriedGives
  <2> QED BY <2>1, <2>2 DEF Safe, Keeps
<1> QED BY <1>1, <1>2, <1>3

-----------------------------------------------------------------------------
(* What is left: the renders' goals, what settle_strays leaves, the disk,  *)
(* the counts.                                                             *)
LEMMA RendersForStep ==
    ASSUME ErrandsInv, [ErrandsNext]_errandVars
    PROVE  RendersFor'
<1>1. /\ DOMAIN goals = 1 .. Len(goals) /\ Len(goals) \in Nat
      /\ DOMAIN goals' = 1 .. Len(goals') /\ Len(goals') \in Nat
      /\ DOMAIN goals \subseteq DOMAIN goals'
      /\ \A g \in DOMAIN goals : Named(goals[g], goals'[g])
  BY CarriedGives
<1>2. ASSUME NEW r, r.goal \in 0 .. Len(goals), ~r.chat /\ r.goal # 0 => IsTask(goals[r.goal])
      PROVE  r.goal \in 0 .. Len(goals') /\ (~r.chat /\ r.goal # 0 => IsTask(goals'[r.goal]))
  BY <1>1, <1>2 DEF IsTask, Named
<1>3. \A r \in renders : /\ r.goal \in 0 .. Len(goals)
                         /\ ~r.chat /\ r.goal # 0 => IsTask(goals[r.goal])
  BY DEF ErrandsInv, RendersFor
<1>4. \A r \in renders' : /\ r.goal \in 0 .. Len(goals)
                          /\ ~r.chat /\ r.goal # 0 => IsTask(goals[r.goal])
  BY <1>3, LabMoves DEF EntersTheLab, Starts, LeavesTheLab
<1> QED BY <1>2, <1>4 DEF RendersFor

LEMMA SettledStep ==
    ASSUME ErrandsInv, [ErrandsNext]_errandVars
    PROVE  Settled'
<1>1. CASE \/ Rest \/ Continue \/ Finish \/ ParkAtHorizon
           \/ AbandonAtHorizon \/ Suggest \/ Speak \/ NoWords
           \/ ActFails \/ Commit \/ PersistNow \/ TickDies \/ Pause
           \/ Resume \/ Crash
           \/ \E g \in DOMAIN goals : \/ StartWork(g) \/ HoldUntilTheGateOpens(g)
                                     \/ HoldBelowThreshold(g) \/ LetGoQuietly(g)
                                     \/ DeliverWords(g) \/ StartSuggest(g)
                                     \/ StartSpeak(g) \/ ShowHeldPicture(g) \/ LetGo(g)
           \/ \E c \in BOOLEAN : Tell(c)
           \/ \E p \in Pictures : Dispatch(p) \/ ShootForNoGoal(p) \/ ShowUnsent(p)
           \/ \E p \in Pictures, g \in 0 .. Len(goals), c \in BOOLEAN : ChatTakesPicture(p, g, c)
           \/ \E r \in renders : RenderLands(r) \/ RenderFails(r)
  <2>1. pc' # "deciding"
    BY <1>1
       DEF Rest, Continue, Finish, ParkAtHorizon, AbandonAtHorizon, Suggest,
           Speak, NoWords, ActFails, Commit, PersistNow, TickDies, Pause,
           Resume, Crash, StartWork, HoldUntilTheGateOpens, HoldBelowThreshold,
           LetGoQuietly, DeliverWords, StartSuggest, StartSpeak,
           ShowHeldPicture, LetGo, Dispatch, ShootForNoGoal, ShowUnsent,
           RenderLands, RenderFails, Tell, ChatTakesPicture, End, WorkEnds,
           Held, Awaiting, Elsewhere, Lost, Mishap, Workable, Begin, Errand,
           Shows, InConversation, Starts, Render, mind, queue, labVars, act,
           counts, history
  <2> QED BY <2>1 DEF Settled
<1>2. CASE \/ UNCHANGED errandVars
  <2>1. pc' = pc /\ goals' = goals
    BY <1>2 DEF errandVars, mind, act
  <2>2. Mind'.goals = Mind.goals
    BY <2>1, MindFields
  <2> QED BY <2>1, <2>2 DEF ErrandsInv, Settled, AllAwaited, Awaited, Open
<1>3. CASE Sense
  BY <1>3, SenseIs DEF Settled
<1> QED
  BY <1>1, <1>2, <1>3
     DEF ErrandsNext

LEMMA SavedMoves ==
    ASSUME [ErrandsNext]_errandVars
    PROVE  disk' \in {disk, wakeups}
<1>1. CASE \/ Sense \/ Rest \/ Continue \/ Finish \/ ParkAtHorizon
           \/ AbandonAtHorizon \/ Suggest \/ Speak \/ NoWords
           \/ ActFails \/ Commit \/ PersistNow \/ TickDies \/ Pause
           \/ Resume \/ Crash
           \/ \E g \in DOMAIN goals : \/ StartWork(g) \/ HoldUntilTheGateOpens(g)
                                     \/ HoldBelowThreshold(g) \/ LetGoQuietly(g)
                                     \/ DeliverWords(g) \/ StartSuggest(g)
                                     \/ StartSpeak(g) \/ ShowHeldPicture(g) \/ LetGo(g)
           \/ \E c \in BOOLEAN : Tell(c)
           \/ \E p \in Pictures : Dispatch(p) \/ ShootForNoGoal(p) \/ ShowUnsent(p)
           \/ \E p \in Pictures, g \in 0 .. Len(goals), c \in BOOLEAN : ChatTakesPicture(p, g, c)
           \/ \E r \in renders : RenderLands(r) \/ RenderFails(r)
           \/ UNCHANGED errandVars
  BY <1>1
     DEF Sense, Rest, Continue, Finish, ParkAtHorizon, AbandonAtHorizon,
           Suggest, Speak, NoWords, ActFails, Commit, PersistNow, TickDies,
           Pause, Resume, Crash, StartWork, HoldUntilTheGateOpens,
           HoldBelowThreshold, LetGoQuietly, DeliverWords, StartSuggest,
           StartSpeak, ShowHeldPicture, LetGo, Dispatch, ShootForNoGoal,
           ShowUnsent, RenderLands, RenderFails, Tell, ChatTakesPicture, End,
           WorkEnds, Held, Awaiting, Elsewhere, Lost, Mishap, Workable, Begin,
           Errand, Shows, InConversation, Starts, Render, mind, queue, labVars,
           act, counts, history, errandVars
<1> QED
  BY <1>1
     DEF ErrandsNext

LEMMA CountsMove ==
    ASSUME [ErrandsNext]_errandVars
    PROVE  /\ letGo' = letGo \/ (letGo < MaxLetGo /\ letGo' = letGo + 1)
           /\ mishaps' = mishaps \/ Mishap
<1>1. CASE \/ Sense \/ Rest \/ Continue \/ Finish \/ ParkAtHorizon
           \/ AbandonAtHorizon \/ Suggest \/ Speak \/ NoWords
           \/ ActFails \/ Commit \/ PersistNow \/ TickDies \/ Pause
           \/ Resume \/ Crash
           \/ \E g \in DOMAIN goals : \/ StartWork(g) \/ HoldUntilTheGateOpens(g)
                                     \/ HoldBelowThreshold(g) \/ LetGoQuietly(g)
                                     \/ DeliverWords(g) \/ StartSuggest(g)
                                     \/ StartSpeak(g) \/ ShowHeldPicture(g) \/ LetGo(g)
           \/ \E c \in BOOLEAN : Tell(c)
           \/ \E p \in Pictures : Dispatch(p) \/ ShootForNoGoal(p) \/ ShowUnsent(p)
           \/ \E p \in Pictures, g \in 0 .. Len(goals), c \in BOOLEAN : ChatTakesPicture(p, g, c)
           \/ \E r \in renders : RenderLands(r) \/ RenderFails(r)
           \/ UNCHANGED errandVars
  BY <1>1
     DEF Sense, Rest, Continue, Finish, ParkAtHorizon, AbandonAtHorizon,
           Suggest, Speak, NoWords, ActFails, Commit, PersistNow, TickDies,
           Pause, Resume, Crash, StartWork, HoldUntilTheGateOpens,
           HoldBelowThreshold, LetGoQuietly, DeliverWords, StartSuggest,
           StartSpeak, ShowHeldPicture, LetGo, Dispatch, ShootForNoGoal,
           ShowUnsent, RenderLands, RenderFails, Tell, ChatTakesPicture, End,
           WorkEnds, Held, Awaiting, Elsewhere, Lost, Mishap, Workable, Begin,
           Errand, Shows, InConversation, Starts, Render, mind, queue, labVars,
           act, counts, history, errandVars
<1> QED
  BY <1>1
     DEF ErrandsNext

(* Each part of the invariant has had its step lemma above.                *)
LEMMA StepKeepsInv == ErrandsInv /\ [ErrandsNext]_errandVars => ErrandsInv'
<1> SUFFICES ASSUME ErrandsInv, [ErrandsNext]_errandVars PROVE ErrandsInv'
  OBVIOUS
<1>1. Bookkept' /\ Woken'
  BY CarriedGives DEF Bookkept
<1>2. Saved'
  <2>1. disk \subseteq DOMAIN goals /\ wakeups \subseteq DOMAIN goals
    BY MindFields, CarriedGives DEF ErrandsInv, Saved, IsMind
  <2> QED BY <2>1, SavedMoves, CarriedGives DEF Saved
<1>3. Acting' /\ Queued' /\ RendersFor'
  BY ActingStep, QueuedStep, RendersForStep
<1>4. LabHolds' /\ Shelved' /\ Settled'
  BY LabStep, ShelvedStep, SettledStep
<1>5. Counted'
  <2>1. letGo' \in 0 .. MaxLetGo /\ mishaps' \in 0 .. MaxMishaps
    BY CountsMove, ErrandsAssumption DEF ErrandsInv, Counted, Mishap
  <2> QED BY <2>1, CountedStep DEF ErrandsInv, Counted
<1> QED BY <1>1, <1>2, <1>3, <1>4, <1>5 DEF ErrandsInv

-----------------------------------------------------------------------------
(* The bookkeeping of goals.md, of the queue and of the lab's shelf is     *)
(* sound wherever the loop, the lab and the conversation can get to, for   *)
(* any number of pictures, goals, mishaps and goals let go.                *)
THEOREM ErrandsInvariant == ErrandsSpec => []ErrandsInv
<1> QED BY InitInv, StepKeepsInv, PTL DEF ErrandsSpec

(* Every variable of Errands keeps its type.                               *)
THEOREM ErrandsType == ErrandsSpec => []ErrandsTypeOK
<1> QED BY ErrandsInvariant, ErrandsTypes, PTL

(* A goal that waits has a scheduled wakeup or waits for a message, but    *)
(* for one whose wakeup a crash took (wake_goal, MindLoop._persist).       *)
THEOREM ErrandsComeBack == ErrandsSpec => []WaitingHasAWayBack
<1> QED BY ErrandsInvariant, ErrandsInvGives, PTL

(* A picture nobody was sent is on the shelf, in a signal not yet read, or *)
(* held by an open goal: no sequence of handing on, sweeping, failing and  *)
(* dying loses it (offer_the_picture, settle_strays, land_dispatched).     *)
THEOREM PicturesFindTheirWay == ErrandsSpec => []NoPictureStranded
<1> QED BY ErrandsInvariant, ErrandsInvGives, PTL

(* No message is written for a goal that has stopped waiting for it: what  *)
(* settle_strays cleared in SENSE is still so when the act starts.         *)
THEOREM DecidedWordsAreAwaited == ErrandsSpec => WordsAreStillAwaited
<1>1. ErrandsInv => (\A g \in DOMAIN goals : DeliverWords(g) => Awaited(Mind, g))
  BY MindFields DEF ErrandsInv, Settled, AllAwaited, DeliverWords, Errand, Decided, Workable
<1>2. ErrandsInv /\ [ErrandsNext]_errandVars
        => [\A g \in DOMAIN goals : DeliverWords(g) => Awaited(Mind, g)]_errandVars
  BY <1>1
<1> QED BY <1>2, ErrandsInvariant, PTL DEF ErrandsSpec, WordsAreStillAwaited

(* A closed goal opens again only by the end of the act that was working on*)
(* it, which writes the state its step ended in (goalwork.py:1012).        *)
THEOREM ClosedGoalsStayClosed == ErrandsSpec => ClosedStaysClosed
<1>1. ErrandsInv /\ [ErrandsNext]_errandVars
        => [\A g \in DOMAIN goals :
              goals[g].state \notin OpenStates /\ goals'[g].state \in OpenStates
                  => pc = "working" /\ cur = g]_errandVars
  <2> SUFFICES ASSUME ErrandsInv, [ErrandsNext]_errandVars, NEW g \in DOMAIN goals,
                      goals[g].state \notin OpenStates, goals'[g].state \in OpenStates
               PROVE  pc = "working" /\ cur = g
    OBVIOUS
  <2>1. Revives(Mind, Mind')
    BY MindStep DEF Carried
  <2>2. g \in DOMAIN goals'
    BY CarriedGives
  <2> QED BY <2>1, <2>2, MindFields DEF Revives, Open
<1> QED BY <1>1, ErrandsInvariant, PTL DEF ErrandsSpec, ClosedStaysClosed

-----------------------------------------------------------------------------
(* The warm card.                                                          *)
Inside(s) == job[s] \notin {"none", "queued"}
Closing(l) == lab[l] \in {"releasing", "released"}

TimerIsOf == idle.at # "none" => idle.of \in Backends

(* _RENDER_LOCK has one holder: a job, the idle unload or a lab that stops.*)
LockIsExclusive ==
    /\ \A s, t \in Shots : Inside(s) /\ Inside(t) => s = t
    /\ \A l, m \in Labs : Closing(l) /\ Closing(m) => l = m
    /\ \A s \in Shots : \A l \in Labs : Inside(s) => ~Closing(l)
    /\ \A s \in Shots : Inside(s) => ~IdleInside
    /\ \A l \in Labs : Closing(l) => ~IdleInside

(* Whoever unloads under the lock has unloaded when it frees the slot.     *)
UnloadedFirst ==
    /\ idle.at = "unloaded" => idle.of \notin pipe
    /\ \A s \in Shots : job[s] = "failed" \/ worker[s] = "releasing" => BackendOf(s) \notin pipe
    /\ \A l \in Labs : lab[l] = "released" => Camera[l] \notin pipe

(* A render past claim_card has the slot, or a stray freed it.             *)
ClaimHolds ==
    \A s \in Shots : worker[s] \in {"ousting", "loading", "up"} =>
        \/ slot = BackendOf(s)
        \/ slot = None /\ BackendOf(s) \in crossed

Ousted(b) == \E s \in Shots : worker[s] = "ousting" /\ ousted[s] = b

PipeIsKnown ==
    /\ \A b \in pipe : b \in crossed \/ slot = b \/ Ousted(b)
    /\ \A s \in Shots : worker[s] = "ousting" => BackendOf(s) \in crossed \/ BackendOf(s) \notin pipe

IInv == TypeOK /\ TimerIsOf /\ LockIsExclusive /\ UnloadedFirst /\ ClaimHolds /\ PipeIsKnown

LEMMA Given == /\ \A s \in Shots : LabOf[s] \in Labs /\ BackendOf(s) \in Backends
               /\ \A l \in Labs : Camera[l] \in Backends
               /\ \A b \in Backends : b # None
               /\ MaxStrays \in Nat
  BY WarmAssumption, Zenon DEF BackendOf

(* Calling the timer off leaves at most one release thread more behind.    *)
LEMMA CancelFacts ==
    ASSUME TypeOK, TimerIsOf, NEW u \in SUBSET Backends, CancelIdle(u)
    PROVE  /\ idle' = NoTimer /\ untimed' \subseteq Backends
           /\ strays' \subseteq [id : 1 .. MaxStrays, of : Backends, at : {"unloading", "unloaded"}]
           /\ strayed' \in 0 .. MaxStrays
  <1>1. idle' = NoTimer /\ untimed' \subseteq Backends
    BY SMT DEF CancelIdle, TypeOK
  <1>2. CASE UNCHANGED strayVars
    BY <1>1, <1>2, Zenon DEF strayVars, TypeOK
  <1>3. CASE IdleInside /\ LeavesAStray(idle.of, idle.at)
    <2>1. strayed' \in 0 .. MaxStrays /\ strayed + 1 \in 1 .. MaxStrays
      BY <1>3, Given, SMT DEF LeavesAStray, TypeOK
    <2>2. idle.of \in Backends /\ idle.at \in {"unloading", "unloaded"}
      BY <1>3, SMT DEF IdleInside, TimerIsOf
    <2>3. [id |-> strayed + 1, of |-> idle.of, at |-> idle.at]
             \in [id : 1 .. MaxStrays, of : Backends, at : {"unloading", "unloaded"}]
      BY <2>1, <2>2, Zenon
    <2>4. strays' = strays \cup {[id |-> strayed + 1, of |-> idle.of, at |-> idle.at]}
      BY <1>3, Zenon DEF LeavesAStray
    <2>. QED
      BY <1>1, <2>1, <2>3, <2>4, Zenon DEF TypeOK
  <1>. QED
    BY <1>2, <1>3, Zenon DEF CancelIdle

LEMMA FreeLock == LockIsFree => /\ \A s \in Shots : ~Inside(s)
                                /\ \A l \in Labs : ~Closing(l)
                                /\ ~IdleInside
  BY Zenon DEF LockIsFree, JobsInside, LabsInside, Inside, Closing

(* Types, and that a timer is of a backend.                                *)
LEMMA TypeStep ==
    ASSUME TypeOK, TimerIsOf, [Next]_vars
    PROVE  TypeOK' /\ TimerIsOf'
  <1>. USE Given
       DEF TypeOK, TimerIsOf, JobStates, WorkerStates, IdleStates, LabStates, card,
           jobVars, timer, strayVars, NoTimer
  <1>1. CASE Elapses
    BY <1>1, SMT DEF Elapses
  <1>2. CASE IdleTakesLock
    BY <1>2, SMT DEF IdleTakesLock
  <1>3. CASE IdleUnloads
    BY <1>3, SMT DEF IdleUnloads, Unload
  <1>4. CASE IdleEnds
    BY <1>4, SMT DEF IdleEnds, FreeSlot
  <1>5. ASSUME NEW t \in strays, StrayUnloads(t)
        PROVE  TypeOK' /\ TimerIsOf'
    BY <1>5, SMT DEF StrayUnloads, Unload
  <1>6. ASSUME NEW t \in strays, StrayFreesSlot(t)
        PROVE  TypeOK' /\ TimerIsOf'
    BY <1>6, SMT DEF StrayFreesSlot
  <1>7. ASSUME NEW s \in Shots, Start(s)
        PROVE  TypeOK' /\ TimerIsOf'
    <2>. DEFINE u == {b \in pipe : LabOf[s] \in kept /\ b = BackendOf(s)}
    <2>1. u \in SUBSET Backends /\ CancelIdle(u)
      BY <1>7, Zenon DEF Start
    <2>. HIDE DEF u
    <2>2. /\ idle' = NoTimer /\ untimed' \subseteq Backends
          /\ strays' \subseteq [id : 1 .. MaxStrays, of : Backends, at : {"unloading", "unloaded"}]
          /\ strayed' \in 0 .. MaxStrays
      BY <2>1, CancelFacts, Zenon
    <2>. QED
      BY <1>7, <2>2, SMT DEF Start
  <1>8. ASSUME NEW s \in Shots, TakeLock(s)
        PROVE  TypeOK' /\ TimerIsOf'
    BY <1>8, SMT DEF TakeLock
  <1>9. ASSUME NEW s \in Shots, NotReady(s)
        PROVE  TypeOK' /\ TimerIsOf'
    BY <1>9, SMT DEF NotReady
  <1>10. ASSUME NEW s \in Shots, Hires(s)
         PROVE  TypeOK' /\ TimerIsOf'
    BY <1>10, SMT DEF Hires
  <1>11. ASSUME NEW s \in Shots, RenderEnds(s)
         PROVE  TypeOK' /\ TimerIsOf'
    BY <1>11, SMT DEF RenderEnds, RenderIsOver
  <1>12. ASSUME NEW s \in Shots, FailureUnloads(s)
         PROVE  TypeOK' /\ TimerIsOf'
    BY <1>12, SMT DEF FailureUnloads, Unload
  <1>13. ASSUME NEW s \in Shots, FailureEnds(s)
         PROVE  TypeOK' /\ TimerIsOf'
    BY <1>13, SMT DEF FailureEnds, FreeSlot, Leaves, ArmIdle, Rearm
  <1>14. ASSUME NEW s \in Shots, Finished(s)
         PROVE  TypeOK' /\ TimerIsOf'
    BY <1>14, SMT DEF Finished, Leaves, ArmIdle, Rearm
  <1>15. ASSUME NEW s \in Shots, Drained(s)
         PROVE  TypeOK' /\ TimerIsOf'
    BY <1>15, SMT DEF Drained, Leaves, ArmIdle, Rearm
  <1>16. ASSUME NEW s \in Shots, CancelQueued(s)
         PROVE  TypeOK' /\ TimerIsOf'
    BY <1>16, SMT DEF CancelQueued
  <1>17. ASSUME NEW s \in Shots, CancelReady(s)
         PROVE  TypeOK' /\ TimerIsOf'
    BY <1>17, SMT DEF CancelReady, Leaves, ArmIdle, Rearm
  <1>18. ASSUME NEW s \in Shots, CancelRendering(s)
         PROVE  TypeOK' /\ TimerIsOf'
    BY <1>18, SMT DEF CancelRendering
  <1>19. ASSUME NEW s \in Shots, CancelFailing(s)
         PROVE  TypeOK' /\ TimerIsOf'
    BY <1>19, SMT DEF CancelFailing, LeavesAStray, Leaves, ArmIdle, Rearm
  <1>20. ASSUME NEW s \in Shots, Claim(s)
         PROVE  TypeOK' /\ TimerIsOf'
    BY <1>20, SMT DEF Claim, Step
  <1>21. ASSUME NEW s \in Shots, Oust(s)
         PROVE  TypeOK' /\ TimerIsOf'
    BY <1>21, SMT DEF Oust, Step
  <1>22. ASSUME NEW s \in Shots, Load(s)
         PROVE  TypeOK' /\ TimerIsOf'
    BY <1>22, SMT DEF Load, Step
  <1>23. ASSUME NEW s \in Shots, Reload(s)
         PROVE  TypeOK' /\ TimerIsOf'
    BY <1>23, SMT DEF Reload, Unload, Step
  <1>24. ASSUME NEW s \in Shots, StaysWarm(s)
         PROVE  TypeOK' /\ TimerIsOf'
    BY <1>24, SMT DEF StaysWarm, Step
  <1>25. ASSUME NEW s \in Shots, GivesUp(s)
         PROVE  TypeOK' /\ TimerIsOf'
    BY <1>25, SMT DEF GivesUp, Unload
  <1>26. ASSUME NEW s \in Shots, GivesBack(s)
         PROVE  TypeOK' /\ TimerIsOf'
    BY <1>26, SMT DEF GivesBack, FreeSlot
  <1>27. ASSUME NEW l \in Labs, Stop(l)
         PROVE  TypeOK' /\ TimerIsOf'
    BY <1>27, SMT DEF Stop
  <1>28. ASSUME NEW l \in Labs, StopTakesLock(l)
         PROVE  TypeOK' /\ TimerIsOf'
    <2>1. CancelIdle({})
      BY <1>28, Zenon DEF StopTakesLock
    <2>2. /\ idle' = NoTimer /\ untimed' \subseteq Backends
          /\ strays' \subseteq [id : 1 .. MaxStrays, of : Backends, at : {"unloading", "unloaded"}]
          /\ strayed' \in 0 .. MaxStrays
      BY <2>1, CancelFacts, Zenon
    <2>. QED
      BY <1>28, <2>2, SMT DEF StopTakesLock
  <1>29. ASSUME NEW l \in Labs, StopUnloads(l)
         PROVE  TypeOK' /\ TimerIsOf'
    BY <1>29, SMT DEF StopUnloads, Unload
  <1>30. ASSUME NEW l \in Labs, StopEnds(l)
         PROVE  TypeOK' /\ TimerIsOf'
    BY <1>30, SMT DEF StopEnds, FreeSlot
  <1>31. CASE UNCHANGED vars
    BY <1>31, SMT DEF vars
  <1>. QED
    BY <1>1, <1>2, <1>3, <1>4, <1>5, <1>6, <1>7, <1>8, <1>9, <1>10, <1>11, <1>12, <1>13,
       <1>14, <1>15, <1>16, <1>17, <1>18, <1>19, <1>20, <1>21, <1>22, <1>23, <1>24,
       <1>25, <1>26, <1>27, <1>28, <1>29, <1>30, <1>31, Zenon DEF Next

(* The render lock: one holder at a time.                                  *)
LEMMA LockStep ==
    ASSUME TypeOK, LockIsExclusive, [Next]_vars
    PROVE  LockIsExclusive'
  <1>. USE Given, FreeLock
       DEF TypeOK, LockIsExclusive, Inside, Closing, IdleInside, NoTimer, card, jobVars,
           timer, strayVars
  <1>1. CASE Elapses
    BY <1>1, SMT DEF Elapses
  <1>2. CASE IdleTakesLock
    BY <1>2, SMT DEF IdleTakesLock
  <1>3. CASE IdleUnloads
    BY <1>3, SMT DEF IdleUnloads, Unload
  <1>4. CASE IdleEnds
    BY <1>4, SMT DEF IdleEnds, FreeSlot
  <1>5. ASSUME NEW t \in strays, StrayUnloads(t)
        PROVE  LockIsExclusive'
    BY <1>5, SMT DEF StrayUnloads, Unload
  <1>6. ASSUME NEW t \in strays, StrayFreesSlot(t)
        PROVE  LockIsExclusive'
    BY <1>6, SMT DEF StrayFreesSlot
  <1>7. ASSUME NEW s \in Shots, Start(s)
        PROVE  LockIsExclusive'
    BY <1>7, SMT DEF Start, CancelIdle, LeavesAStray
  <1>8. ASSUME NEW s \in Shots, TakeLock(s)
        PROVE  LockIsExclusive'
    BY <1>8, SMT DEF TakeLock
  <1>9. ASSUME NEW s \in Shots, NotReady(s)
        PROVE  LockIsExclusive'
    BY <1>9, SMT DEF NotReady
  <1>10. ASSUME NEW s \in Shots, Hires(s)
         PROVE  LockIsExclusive'
    BY <1>10, SMT DEF Hires
  <1>11. ASSUME NEW s \in Shots, RenderEnds(s)
         PROVE  LockIsExclusive'
    BY <1>11, SMT DEF RenderEnds, RenderIsOver
  <1>12. ASSUME NEW s \in Shots, FailureUnloads(s)
         PROVE  LockIsExclusive'
    BY <1>12, SMT DEF FailureUnloads, Unload
  <1>13. ASSUME NEW s \in Shots, FailureEnds(s)
         PROVE  LockIsExclusive'
    BY <1>13, SMT DEF FailureEnds, FreeSlot, Leaves, ArmIdle, Rearm
  <1>14. ASSUME NEW s \in Shots, Finished(s)
         PROVE  LockIsExclusive'
    BY <1>14, SMT DEF Finished, Leaves, ArmIdle, Rearm
  <1>15. ASSUME NEW s \in Shots, Drained(s)
         PROVE  LockIsExclusive'
    BY <1>15, SMT DEF Drained, Leaves, ArmIdle, Rearm
  <1>16. ASSUME NEW s \in Shots, CancelQueued(s)
         PROVE  LockIsExclusive'
    BY <1>16, SMT DEF CancelQueued
  <1>17. ASSUME NEW s \in Shots, CancelReady(s)
         PROVE  LockIsExclusive'
    BY <1>17, SMT DEF CancelReady, Leaves, ArmIdle, Rearm
  <1>18. ASSUME NEW s \in Shots, CancelRendering(s)
         PROVE  LockIsExclusive'
    BY <1>18, SMT DEF CancelRendering
  <1>19. ASSUME NEW s \in Shots, CancelFailing(s)
         PROVE  LockIsExclusive'
    BY <1>19, SMT DEF CancelFailing, LeavesAStray, Leaves, ArmIdle, Rearm
  <1>20. ASSUME NEW s \in Shots, Claim(s)
         PROVE  LockIsExclusive'
    BY <1>20, SMT DEF Claim, Step
  <1>21. ASSUME NEW s \in Shots, Oust(s)
         PROVE  LockIsExclusive'
    BY <1>21, SMT DEF Oust, Step
  <1>22. ASSUME NEW s \in Shots, Load(s)
         PROVE  LockIsExclusive'
    BY <1>22, SMT DEF Load, Step
  <1>23. ASSUME NEW s \in Shots, Reload(s)
         PROVE  LockIsExclusive'
    BY <1>23, SMT DEF Reload, Unload, Step
  <1>24. ASSUME NEW s \in Shots, StaysWarm(s)
         PROVE  LockIsExclusive'
    BY <1>24, SMT DEF StaysWarm, Step
  <1>25. ASSUME NEW s \in Shots, GivesUp(s)
         PROVE  LockIsExclusive'
    BY <1>25, SMT DEF GivesUp, Unload
  <1>26. ASSUME NEW s \in Shots, GivesBack(s)
         PROVE  LockIsExclusive'
    BY <1>26, SMT DEF GivesBack, FreeSlot
  <1>27. ASSUME NEW l \in Labs, Stop(l)
         PROVE  LockIsExclusive'
    BY <1>27, SMT DEF Stop
  <1>28. ASSUME NEW l \in Labs, StopTakesLock(l)
         PROVE  LockIsExclusive'
    BY <1>28, SMT DEF StopTakesLock, CancelIdle, LeavesAStray
  <1>29. ASSUME NEW l \in Labs, StopUnloads(l)
         PROVE  LockIsExclusive'
    BY <1>29, SMT DEF StopUnloads, Unload
  <1>30. ASSUME NEW l \in Labs, StopEnds(l)
         PROVE  LockIsExclusive'
    BY <1>30, SMT DEF StopEnds, FreeSlot
  <1>31. CASE UNCHANGED vars
    BY <1>31, SMT DEF vars
  <1>. QED
    BY <1>1, <1>2, <1>3, <1>4, <1>5, <1>6, <1>7, <1>8, <1>9, <1>10, <1>11, <1>12, <1>13,
       <1>14, <1>15, <1>16, <1>17, <1>18, <1>19, <1>20, <1>21, <1>22, <1>23, <1>24,
       <1>25, <1>26, <1>27, <1>28, <1>29, <1>30, <1>31, Zenon DEF Next

(* Nobody loads under the holder of the lock.                              *)
LEMMA UnloadStep ==
    ASSUME TypeOK, LockIsExclusive, UnloadedFirst, [Next]_vars
    PROVE  UnloadedFirst'
  <1>. USE Given, FreeLock
       DEF TypeOK, LockIsExclusive, UnloadedFirst, Inside, Closing, IdleInside, NoTimer,
           card, jobVars, timer, strayVars
  <1>1. CASE Elapses
    BY <1>1, SMT DEF Elapses
  <1>2. CASE IdleTakesLock
    BY <1>2, SMT DEF IdleTakesLock
  <1>3. CASE IdleUnloads
    BY <1>3, SMT DEF IdleUnloads, Unload
  <1>4. CASE IdleEnds
    BY <1>4, SMT DEF IdleEnds, FreeSlot
  <1>5. ASSUME NEW t \in strays, StrayUnloads(t)
        PROVE  UnloadedFirst'
    BY <1>5, SMT DEF StrayUnloads, Unload
  <1>6. ASSUME NEW t \in strays, StrayFreesSlot(t)
        PROVE  UnloadedFirst'
    BY <1>6, SMT DEF StrayFreesSlot
  <1>7. ASSUME NEW s \in Shots, Start(s)
        PROVE  UnloadedFirst'
    BY <1>7, SMT DEF Start, CancelIdle, LeavesAStray
  <1>8. ASSUME NEW s \in Shots, TakeLock(s)
        PROVE  UnloadedFirst'
    BY <1>8, SMT DEF TakeLock
  <1>9. ASSUME NEW s \in Shots, NotReady(s)
        PROVE  UnloadedFirst'
    BY <1>9, SMT DEF NotReady
  <1>10. ASSUME NEW s \in Shots, Hires(s)
         PROVE  UnloadedFirst'
    BY <1>10, SMT DEF Hires
  <1>11. ASSUME NEW s \in Shots, RenderEnds(s)
         PROVE  UnloadedFirst'
    BY <1>11, SMT DEF RenderEnds, RenderIsOver
  <1>12. ASSUME NEW s \in Shots, FailureUnloads(s)
         PROVE  UnloadedFirst'
    BY <1>12, SMT DEF FailureUnloads, Unload
  <1>13. ASSUME NEW s \in Shots, FailureEnds(s)
         PROVE  UnloadedFirst'
    BY <1>13, SMT DEF FailureEnds, FreeSlot, Leaves, ArmIdle, Rearm
  <1>14. ASSUME NEW s \in Shots, Finished(s)
         PROVE  UnloadedFirst'
    BY <1>14, SMT DEF Finished, Leaves, ArmIdle, Rearm
  <1>15. ASSUME NEW s \in Shots, Drained(s)
         PROVE  UnloadedFirst'
    BY <1>15, SMT DEF Drained, Leaves, ArmIdle, Rearm
  <1>16. ASSUME NEW s \in Shots, CancelQueued(s)
         PROVE  UnloadedFirst'
    BY <1>16, SMT DEF CancelQueued
  <1>17. ASSUME NEW s \in Shots, CancelReady(s)
         PROVE  UnloadedFirst'
    BY <1>17, SMT DEF CancelReady, Leaves, ArmIdle, Rearm
  <1>18. ASSUME NEW s \in Shots, CancelRendering(s)
         PROVE  UnloadedFirst'
    BY <1>18, SMT DEF CancelRendering
  <1>19. ASSUME NEW s \in Shots, CancelFailing(s)
         PROVE  UnloadedFirst'
    BY <1>19, SMT DEF CancelFailing, LeavesAStray, Leaves, ArmIdle, Rearm
  <1>20. ASSUME NEW s \in Shots, Claim(s)
         PROVE  UnloadedFirst'
    BY <1>20, SMT DEF Claim, Step
  <1>21. ASSUME NEW s \in Shots, Oust(s)
         PROVE  UnloadedFirst'
    BY <1>21, SMT DEF Oust, Step
  <1>22. ASSUME NEW s \in Shots, Load(s)
         PROVE  UnloadedFirst'
    BY <1>22, SMT DEF Load, Step
  <1>23. ASSUME NEW s \in Shots, Reload(s)
         PROVE  UnloadedFirst'
    BY <1>23, SMT DEF Reload, Unload, Step
  <1>24. ASSUME NEW s \in Shots, StaysWarm(s)
         PROVE  UnloadedFirst'
    BY <1>24, SMT DEF StaysWarm, Step
  <1>25. ASSUME NEW s \in Shots, GivesUp(s)
         PROVE  UnloadedFirst'
    BY <1>25, SMT DEF GivesUp, Unload
  <1>26. ASSUME NEW s \in Shots, GivesBack(s)
         PROVE  UnloadedFirst'
    BY <1>26, SMT DEF GivesBack, FreeSlot
  <1>27. ASSUME NEW l \in Labs, Stop(l)
         PROVE  UnloadedFirst'
    BY <1>27, SMT DEF Stop
  <1>28. ASSUME NEW l \in Labs, StopTakesLock(l)
         PROVE  UnloadedFirst'
    BY <1>28, SMT DEF StopTakesLock, CancelIdle, LeavesAStray
  <1>29. ASSUME NEW l \in Labs, StopUnloads(l)
         PROVE  UnloadedFirst'
    BY <1>29, SMT DEF StopUnloads, Unload
  <1>30. ASSUME NEW l \in Labs, StopEnds(l)
         PROVE  UnloadedFirst'
    BY <1>30, SMT DEF StopEnds, FreeSlot
  <1>31. CASE UNCHANGED vars
    BY <1>31, SMT DEF vars
  <1>. QED
    BY <1>1, <1>2, <1>3, <1>4, <1>5, <1>6, <1>7, <1>8, <1>9, <1>10, <1>11, <1>12, <1>13,
       <1>14, <1>15, <1>16, <1>17, <1>18, <1>19, <1>20, <1>21, <1>22, <1>23, <1>24,
       <1>25, <1>26, <1>27, <1>28, <1>29, <1>30, <1>31, Zenon DEF Next

(* The slot of a render is freed by nobody but a stray.                    *)
LEMMA ClaimStep ==
    ASSUME TypeOK, LockIsExclusive, ClaimHolds, [Next]_vars
    PROVE  ClaimHolds'
  <1>. USE Given, FreeLock
       DEF TypeOK, LockIsExclusive, ClaimHolds, Inside, Closing, IdleInside, NoTimer,
           card, jobVars, timer, strayVars
  <1>1. CASE Elapses
    BY <1>1, SMT DEF Elapses
  <1>2. CASE IdleTakesLock
    BY <1>2, SMT DEF IdleTakesLock
  <1>3. CASE IdleUnloads
    BY <1>3, SMT DEF IdleUnloads, Unload
  <1>4. CASE IdleEnds
    BY <1>4, SMT DEF IdleEnds, FreeSlot
  <1>5. ASSUME NEW t \in strays, StrayUnloads(t)
        PROVE  ClaimHolds'
    BY <1>5, SMT DEF StrayUnloads, Unload
  <1>6. ASSUME NEW t \in strays, StrayFreesSlot(t)
        PROVE  ClaimHolds'
    BY <1>6, SMT DEF StrayFreesSlot
  <1>7. ASSUME NEW s \in Shots, Start(s)
        PROVE  ClaimHolds'
    BY <1>7, SMT DEF Start, CancelIdle, LeavesAStray
  <1>8. ASSUME NEW s \in Shots, TakeLock(s)
        PROVE  ClaimHolds'
    BY <1>8, SMT DEF TakeLock
  <1>9. ASSUME NEW s \in Shots, NotReady(s)
        PROVE  ClaimHolds'
    BY <1>9, SMT DEF NotReady
  <1>10. ASSUME NEW s \in Shots, Hires(s)
         PROVE  ClaimHolds'
    BY <1>10, SMT DEF Hires
  <1>11. ASSUME NEW s \in Shots, RenderEnds(s)
         PROVE  ClaimHolds'
    BY <1>11, SMT DEF RenderEnds, RenderIsOver
  <1>12. ASSUME NEW s \in Shots, FailureUnloads(s)
         PROVE  ClaimHolds'
    BY <1>12, SMT DEF FailureUnloads, Unload
  <1>13. ASSUME NEW s \in Shots, FailureEnds(s)
         PROVE  ClaimHolds'
    BY <1>13, SMT DEF FailureEnds, FreeSlot, Leaves, ArmIdle, Rearm
  <1>14. ASSUME NEW s \in Shots, Finished(s)
         PROVE  ClaimHolds'
    BY <1>14, SMT DEF Finished, Leaves, ArmIdle, Rearm
  <1>15. ASSUME NEW s \in Shots, Drained(s)
         PROVE  ClaimHolds'
    BY <1>15, SMT DEF Drained, Leaves, ArmIdle, Rearm
  <1>16. ASSUME NEW s \in Shots, CancelQueued(s)
         PROVE  ClaimHolds'
    BY <1>16, SMT DEF CancelQueued
  <1>17. ASSUME NEW s \in Shots, CancelReady(s)
         PROVE  ClaimHolds'
    BY <1>17, SMT DEF CancelReady, Leaves, ArmIdle, Rearm
  <1>18. ASSUME NEW s \in Shots, CancelRendering(s)
         PROVE  ClaimHolds'
    BY <1>18, SMT DEF CancelRendering
  <1>19. ASSUME NEW s \in Shots, CancelFailing(s)
         PROVE  ClaimHolds'
    BY <1>19, SMT DEF CancelFailing, LeavesAStray, Leaves, ArmIdle, Rearm
  <1>20. ASSUME NEW s \in Shots, Claim(s)
         PROVE  ClaimHolds'
    BY <1>20, SMT DEF Claim, Step
  <1>21. ASSUME NEW s \in Shots, Oust(s)
         PROVE  ClaimHolds'
    BY <1>21, SMT DEF Oust, Step
  <1>22. ASSUME NEW s \in Shots, Load(s)
         PROVE  ClaimHolds'
    BY <1>22, SMT DEF Load, Step
  <1>23. ASSUME NEW s \in Shots, Reload(s)
         PROVE  ClaimHolds'
    BY <1>23, SMT DEF Reload, Unload, Step
  <1>24. ASSUME NEW s \in Shots, StaysWarm(s)
         PROVE  ClaimHolds'
    BY <1>24, SMT DEF StaysWarm, Step
  <1>25. ASSUME NEW s \in Shots, GivesUp(s)
         PROVE  ClaimHolds'
    BY <1>25, SMT DEF GivesUp, Unload
  <1>26. ASSUME NEW s \in Shots, GivesBack(s)
         PROVE  ClaimHolds'
    BY <1>26, SMT DEF GivesBack, FreeSlot
  <1>27. ASSUME NEW l \in Labs, Stop(l)
         PROVE  ClaimHolds'
    BY <1>27, SMT DEF Stop
  <1>28. ASSUME NEW l \in Labs, StopTakesLock(l)
         PROVE  ClaimHolds'
    BY <1>28, SMT DEF StopTakesLock, CancelIdle, LeavesAStray
  <1>29. ASSUME NEW l \in Labs, StopUnloads(l)
         PROVE  ClaimHolds'
    BY <1>29, SMT DEF StopUnloads, Unload
  <1>30. ASSUME NEW l \in Labs, StopEnds(l)
         PROVE  ClaimHolds'
    BY <1>30, SMT DEF StopEnds, FreeSlot
  <1>31. CASE UNCHANGED vars
    BY <1>31, SMT DEF vars
  <1>. QED
    BY <1>1, <1>2, <1>3, <1>4, <1>5, <1>6, <1>7, <1>8, <1>9, <1>10, <1>11, <1>12, <1>13,
       <1>14, <1>15, <1>16, <1>17, <1>18, <1>19, <1>20, <1>21, <1>22, <1>23, <1>24,
       <1>25, <1>26, <1>27, <1>28, <1>29, <1>30, <1>31, Zenon DEF Next

(* What is loaded is somebody's to unload.                                 *)
LEMMA PipeStep ==
    ASSUME TypeOK, LockIsExclusive, UnloadedFirst, ClaimHolds, PipeIsKnown, [Next]_vars
    PROVE  PipeIsKnown'
  <1>. USE Given, FreeLock
       DEF TypeOK, LockIsExclusive, UnloadedFirst, ClaimHolds, PipeIsKnown, Inside,
           Closing, IdleInside, NoTimer, card, jobVars, timer, strayVars, Ousted
  <1>1. CASE Elapses
    BY <1>1, SMT DEF Elapses
  <1>2. CASE IdleTakesLock
    BY <1>2, SMT DEF IdleTakesLock
  <1>3. CASE IdleUnloads
    BY <1>3, SMT DEF IdleUnloads, Unload
  <1>4. CASE IdleEnds
    BY <1>4, SMT DEF IdleEnds, FreeSlot
  <1>5. ASSUME NEW t \in strays, StrayUnloads(t)
        PROVE  PipeIsKnown'
    BY <1>5, SMT DEF StrayUnloads, Unload
  <1>6. ASSUME NEW t \in strays, StrayFreesSlot(t)
        PROVE  PipeIsKnown'
    BY <1>6, SMT DEF StrayFreesSlot
  <1>7. ASSUME NEW s \in Shots, Start(s)
        PROVE  PipeIsKnown'
    BY <1>7, SMT DEF Start, CancelIdle, LeavesAStray
  <1>8. ASSUME NEW s \in Shots, TakeLock(s)
        PROVE  PipeIsKnown'
    BY <1>8, SMT DEF TakeLock
  <1>9. ASSUME NEW s \in Shots, NotReady(s)
        PROVE  PipeIsKnown'
    BY <1>9, SMT DEF NotReady
  <1>10. ASSUME NEW s \in Shots, Hires(s)
         PROVE  PipeIsKnown'
    BY <1>10, SMT DEF Hires
  <1>11. ASSUME NEW s \in Shots, RenderEnds(s)
         PROVE  PipeIsKnown'
    BY <1>11, SMT DEF RenderEnds, RenderIsOver
  <1>12. ASSUME NEW s \in Shots, FailureUnloads(s)
         PROVE  PipeIsKnown'
    BY <1>12, SMT DEF FailureUnloads, Unload
  <1>13. ASSUME NEW s \in Shots, FailureEnds(s)
         PROVE  PipeIsKnown'
    BY <1>13, SMT DEF FailureEnds, FreeSlot, Leaves, ArmIdle, Rearm
  <1>14. ASSUME NEW s \in Shots, Finished(s)
         PROVE  PipeIsKnown'
    BY <1>14, SMT DEF Finished, Leaves, ArmIdle, Rearm
  <1>15. ASSUME NEW s \in Shots, Drained(s)
         PROVE  PipeIsKnown'
    BY <1>15, SMT DEF Drained, Leaves, ArmIdle, Rearm
  <1>16. ASSUME NEW s \in Shots, CancelQueued(s)
         PROVE  PipeIsKnown'
    BY <1>16, SMT DEF CancelQueued
  <1>17. ASSUME NEW s \in Shots, CancelReady(s)
         PROVE  PipeIsKnown'
    BY <1>17, SMT DEF CancelReady, Leaves, ArmIdle, Rearm
  <1>18. ASSUME NEW s \in Shots, CancelRendering(s)
         PROVE  PipeIsKnown'
    BY <1>18, SMT DEF CancelRendering
  <1>19. ASSUME NEW s \in Shots, CancelFailing(s)
         PROVE  PipeIsKnown'
    BY <1>19, SMT DEF CancelFailing, LeavesAStray, Leaves, ArmIdle, Rearm
  <1>20. ASSUME NEW s \in Shots, Claim(s)
         PROVE  PipeIsKnown'
    BY <1>20, SMT DEF Claim, Step
  <1>21. ASSUME NEW s \in Shots, Oust(s)
         PROVE  PipeIsKnown'
    BY <1>21, SMT DEF Oust, Step
  <1>22. ASSUME NEW s \in Shots, Load(s)
         PROVE  PipeIsKnown'
    BY <1>22, SMT DEF Load, Step
  <1>23. ASSUME NEW s \in Shots, Reload(s)
         PROVE  PipeIsKnown'
    BY <1>23, SMT DEF Reload, Unload, Step
  <1>24. ASSUME NEW s \in Shots, StaysWarm(s)
         PROVE  PipeIsKnown'
    BY <1>24, SMT DEF StaysWarm, Step
  <1>25. ASSUME NEW s \in Shots, GivesUp(s)
         PROVE  PipeIsKnown'
    BY <1>25, SMT DEF GivesUp, Unload
  <1>26. ASSUME NEW s \in Shots, GivesBack(s)
         PROVE  PipeIsKnown'
    BY <1>26, SMT DEF GivesBack, FreeSlot
  <1>27. ASSUME NEW l \in Labs, Stop(l)
         PROVE  PipeIsKnown'
    BY <1>27, SMT DEF Stop
  <1>28. ASSUME NEW l \in Labs, StopTakesLock(l)
         PROVE  PipeIsKnown'
    BY <1>28, SMT DEF StopTakesLock, CancelIdle, LeavesAStray
  <1>29. ASSUME NEW l \in Labs, StopUnloads(l)
         PROVE  PipeIsKnown'
    BY <1>29, SMT DEF StopUnloads, Unload
  <1>30. ASSUME NEW l \in Labs, StopEnds(l)
         PROVE  PipeIsKnown'
    BY <1>30, SMT DEF StopEnds, FreeSlot
  <1>31. CASE UNCHANGED vars
    BY <1>31, SMT DEF vars
  <1>. QED
    BY <1>1, <1>2, <1>3, <1>4, <1>5, <1>6, <1>7, <1>8, <1>9, <1>10, <1>11, <1>12, <1>13,
       <1>14, <1>15, <1>16, <1>17, <1>18, <1>19, <1>20, <1>21, <1>22, <1>23, <1>24,
       <1>25, <1>26, <1>27, <1>28, <1>29, <1>30, <1>31, Zenon DEF Next

(* Nothing is unloaded under a render but by a stray or by its own worker. *)
LEMMA RenderStep ==
    ASSUME TypeOK, LockIsExclusive, NEW b \in pipe \ pipe', NEW r \in Shots,
           BackendOf(r) = b, worker[r] = "up", NEW q \in Shots, worker'[q] = "up",
           [Next]_vars
    PROVE  strays # strays'
  <1>. USE Given, FreeLock
       DEF TypeOK, LockIsExclusive, Inside, Closing, IdleInside, NoTimer, card, jobVars,
           timer, strayVars
  <1>1. CASE Elapses
    BY <1>1, SMT DEF Elapses
  <1>2. CASE IdleTakesLock
    BY <1>2, SMT DEF IdleTakesLock
  <1>3. CASE IdleUnloads
    BY <1>3, SMT DEF IdleUnloads, Unload
  <1>4. CASE IdleEnds
    BY <1>4, SMT DEF IdleEnds, FreeSlot
  <1>5. ASSUME NEW t \in strays, StrayUnloads(t)
        PROVE  strays # strays'
    <2>1. t \notin strays'
      <3>1. t.at = "unloading" /\ strays' = (strays \ {t}) \cup {[t EXCEPT !.at = "unloaded"]}
        BY <1>5, Zenon DEF StrayUnloads
      <3>2. [t EXCEPT !.at = "unloaded"] # t
        BY <1>5, <3>1, SMT
      <3>. QED
        BY <3>1, <3>2, Zenon
    <2>. QED
      BY <2>1, Zenon
  <1>6. ASSUME NEW t \in strays, StrayFreesSlot(t)
        PROVE  strays # strays'
    BY <1>6, SMT DEF StrayFreesSlot
  <1>7. ASSUME NEW s \in Shots, Start(s)
        PROVE  strays # strays'
    BY <1>7, SMT DEF Start, CancelIdle, LeavesAStray
  <1>8. ASSUME NEW s \in Shots, TakeLock(s)
        PROVE  strays # strays'
    BY <1>8, SMT DEF TakeLock
  <1>9. ASSUME NEW s \in Shots, NotReady(s)
        PROVE  strays # strays'
    BY <1>9, SMT DEF NotReady
  <1>10. ASSUME NEW s \in Shots, Hires(s)
         PROVE  strays # strays'
    BY <1>10, SMT DEF Hires
  <1>11. ASSUME NEW s \in Shots, RenderEnds(s)
         PROVE  strays # strays'
    BY <1>11, SMT DEF RenderEnds, RenderIsOver
  <1>12. ASSUME NEW s \in Shots, FailureUnloads(s)
         PROVE  strays # strays'
    BY <1>12, SMT DEF FailureUnloads, Unload
  <1>13. ASSUME NEW s \in Shots, FailureEnds(s)
         PROVE  strays # strays'
    BY <1>13, SMT DEF FailureEnds, FreeSlot, Leaves, ArmIdle, Rearm
  <1>14. ASSUME NEW s \in Shots, Finished(s)
         PROVE  strays # strays'
    BY <1>14, SMT DEF Finished, Leaves, ArmIdle, Rearm
  <1>15. ASSUME NEW s \in Shots, Drained(s)
         PROVE  strays # strays'
    BY <1>15, SMT DEF Drained, Leaves, ArmIdle, Rearm
  <1>16. ASSUME NEW s \in Shots, CancelQueued(s)
         PROVE  strays # strays'
    BY <1>16, SMT DEF CancelQueued
  <1>17. ASSUME NEW s \in Shots, CancelReady(s)
         PROVE  strays # strays'
    BY <1>17, SMT DEF CancelReady, Leaves, ArmIdle, Rearm
  <1>18. ASSUME NEW s \in Shots, CancelRendering(s)
         PROVE  strays # strays'
    BY <1>18, SMT DEF CancelRendering
  <1>19. ASSUME NEW s \in Shots, CancelFailing(s)
         PROVE  strays # strays'
    BY <1>19, SMT DEF CancelFailing, LeavesAStray, Leaves, ArmIdle, Rearm
  <1>20. ASSUME NEW s \in Shots, Claim(s)
         PROVE  strays # strays'
    BY <1>20, SMT DEF Claim, Step
  <1>21. ASSUME NEW s \in Shots, Oust(s)
         PROVE  strays # strays'
    BY <1>21, SMT DEF Oust, Step
  <1>22. ASSUME NEW s \in Shots, Load(s)
         PROVE  strays # strays'
    BY <1>22, SMT DEF Load, Step
  <1>23. ASSUME NEW s \in Shots, Reload(s)
         PROVE  strays # strays'
    BY <1>23, SMT DEF Reload, Unload, Step
  <1>24. ASSUME NEW s \in Shots, StaysWarm(s)
         PROVE  strays # strays'
    BY <1>24, SMT DEF StaysWarm, Step
  <1>25. ASSUME NEW s \in Shots, GivesUp(s)
         PROVE  strays # strays'
    BY <1>25, SMT DEF GivesUp, Unload
  <1>26. ASSUME NEW s \in Shots, GivesBack(s)
         PROVE  strays # strays'
    BY <1>26, SMT DEF GivesBack, FreeSlot
  <1>27. ASSUME NEW l \in Labs, Stop(l)
         PROVE  strays # strays'
    BY <1>27, SMT DEF Stop
  <1>28. ASSUME NEW l \in Labs, StopTakesLock(l)
         PROVE  strays # strays'
    BY <1>28, SMT DEF StopTakesLock, CancelIdle, LeavesAStray
  <1>29. ASSUME NEW l \in Labs, StopUnloads(l)
         PROVE  strays # strays'
    BY <1>29, SMT DEF StopUnloads, Unload
  <1>30. ASSUME NEW l \in Labs, StopEnds(l)
         PROVE  strays # strays'
    BY <1>30, SMT DEF StopEnds, FreeSlot
  <1>31. CASE UNCHANGED vars
    BY <1>31, SMT DEF vars
  <1>. QED
    BY <1>1, <1>2, <1>3, <1>4, <1>5, <1>6, <1>7, <1>8, <1>9, <1>10, <1>11, <1>12, <1>13,
       <1>14, <1>15, <1>16, <1>17, <1>18, <1>19, <1>20, <1>21, <1>22, <1>23, <1>24,
       <1>25, <1>26, <1>27, <1>28, <1>29, <1>30, <1>31, Zenon DEF Next

LEMMA InitHolds == Init => IInv
  <1>. SUFFICES ASSUME Init PROVE IInv
    OBVIOUS
  <1>1. TypeOK /\ TimerIsOf
    BY Given, SMT DEF Init, TypeOK, TimerIsOf, NoTimer, JobStates, WorkerStates, IdleStates, LabStates
  <1>2. LockIsExclusive /\ UnloadedFirst
    BY SMT DEF Init, LockIsExclusive, UnloadedFirst, Inside, Closing, IdleInside, NoTimer
  <1>3. ClaimHolds /\ PipeIsKnown
    BY SMT DEF Init, ClaimHolds, PipeIsKnown
  <1>. QED
    BY <1>1, <1>2, <1>3 DEF IInv

LEMMA NextKeepsIInv == IInv /\ [Next]_vars => IInv'
  BY TypeStep, LockStep, UnloadStep, ClaimStep, PipeStep, Zenon DEF IInv

THEOREM Invariance == Spec => []IInv
  BY InitHolds, NextKeepsIInv, PTL DEF Spec

(* Every variable has its type, and a worker thread its job.               *)
THEOREM TypeCorrect == Spec => []TypeOK
  <1>1. IInv => TypeOK
    BY DEF IInv
  <1>. QED
    BY <1>1, Invariance, PTL

(* SPEC 7.6a, one resident pipeline on the card at a time (claim_card), but*)
(* for a backend whose slot a stray release freed.                         *)
THEOREM OneAtATime == Spec => []OneWarmPipeline
  <1>1. ASSUME IInv PROVE OneWarmPipeline
    <2>. SUFFICES ASSUME NEW b \in pipe \ crossed, NEW c \in pipe \ crossed
                  PROVE  b = c
      BY DEF OneWarmPipeline
    <2>1. \A d \in {b, c} : slot = d \/ Ousted(d)
      BY <1>1, Zenon DEF IInv, PipeIsKnown
    <2>2. CASE ~Ousted(b) /\ ~Ousted(c)
      BY <2>1, <2>2, Zenon
    <2>3. CASE Ousted(b) \/ Ousted(c)
      <3>1. PICK s \in Shots : worker[s] = "ousting" /\ ousted[s] \in {b, c}
        BY <2>3, Zenon DEF Ousted
      <3>2. \A t \in Shots : worker[t] = "ousting" => t = s
        BY <1>1, <3>1, SMT DEF IInv, TypeOK, LockIsExclusive, Inside
      <3>3. slot = BackendOf(s) \/ slot = None
        BY <1>1, <3>1, SMT DEF IInv, ClaimHolds
      <3>4. BackendOf(s) \in crossed \/ BackendOf(s) \notin pipe
        BY <1>1, <3>1, Zenon DEF IInv, PipeIsKnown
      <3>5. None \notin pipe
        BY <1>1, Given, SMT DEF IInv, TypeOK
      <3>6. slot # b /\ slot # c
        BY <3>3, <3>4, <3>5, Zenon
      <3>7. Ousted(b) /\ Ousted(c)
        BY <2>1, <3>6, Zenon
      <3>. QED
        BY <3>2, <3>7, Zenon DEF Ousted
    <2>. QED
      BY <2>2, <2>3
  <1>. QED
    BY <1>1, Invariance, PTL

(* A render finds its weights where it loaded them (_RENDER_LOCK).         *)
THEOREM WeightsStay == Spec => NotUnloadedUnderARender
  <1>1. ASSUME IInv, [Next]_vars
        PROVE  [\A b \in pipe \ pipe' : Rendering(b) => ~Rendering(b)' \/ strays # strays']_vars
    <2>. SUFFICES ASSUME NEW b \in pipe \ pipe', Rendering(b), Rendering(b)'
                  PROVE  strays # strays'
      BY Zenon
    <2>1. PICK r \in Shots : BackendOf(r) = b /\ worker[r] = "up"
      BY Zenon DEF Rendering
    <2>2. PICK q \in Shots : worker'[q] = "up"
      BY Zenon DEF Rendering
    <2>. QED
      BY <1>1, <2>1, <2>2, RenderStep, Zenon DEF IInv
  <1>. QED
    BY <1>1, Invariance, PTL DEF Spec, NotUnloadedUnderARender

(* A render that has the card, or left it warm and is to arm a timer.      *)
Minding(s) == /\ Inside(s)
              /\ \/ worker[s] \in {"ousting", "loading", "up"}
                 \/ /\ LabOf[s] \in kept
                    /\ worker[s] = "over" \/ job[s] \in {"finishing", "failing"}

WarmIsMinded ==
    \A b \in pipe : \/ idle.of = b
                    \/ b \in untimed \cup crossed
                    \/ \E s \in Shots : BackendOf(s) = b /\ Minding(s)

(* What stays warm has a timer, or a job that has still to arm one.        *)
LEMMA WarmStep ==
    ASSUME TypeOK, LockIsExclusive, UnloadedFirst, ClaimHolds, WarmIsMinded, [Next]_vars
    PROVE  WarmIsMinded'
  <1>. USE Given, FreeLock
       DEF TypeOK, LockIsExclusive, UnloadedFirst, ClaimHolds, WarmIsMinded, Inside,
           Closing, IdleInside, NoTimer, card, jobVars, timer, strayVars, Minding
  <1>1. CASE Elapses
    BY <1>1, SMT DEF Elapses
  <1>2. CASE IdleTakesLock
    BY <1>2, SMT DEF IdleTakesLock
  <1>3. CASE IdleUnloads
    BY <1>3, SMT DEF IdleUnloads, Unload
  <1>4. CASE IdleEnds
    BY <1>4, SMT DEF IdleEnds, FreeSlot
  <1>5. ASSUME NEW t \in strays, StrayUnloads(t)
        PROVE  WarmIsMinded'
    BY <1>5, SMT DEF StrayUnloads, Unload
  <1>6. ASSUME NEW t \in strays, StrayFreesSlot(t)
        PROVE  WarmIsMinded'
    BY <1>6, SMT DEF StrayFreesSlot
  <1>7. ASSUME NEW s \in Shots, Start(s)
        PROVE  WarmIsMinded'
    <2>. DEFINE u == {b \in pipe : LabOf[s] \in kept /\ b = BackendOf(s)}
    <2>1. /\ pipe' = pipe /\ crossed' = crossed /\ worker' = worker
          /\ kept' = kept \ {LabOf[s]} /\ job' = [job EXCEPT ![s] = "queued"]
          /\ untimed' = untimed \cup u \cup (pipe \cap {idle.of})
      BY <1>7, Zenon DEF Start, CancelIdle
    <2>2. \A q \in Shots : q # s => job'[q] = job[q]
      BY <2>1, SMT
    <2>3. ASSUME NEW b \in pipe', b \notin untimed' \cup crossed'
          PROVE  \E q \in Shots : BackendOf(q) = b /\ Minding(q)'
      <3>1. b \in pipe /\ idle.of # b /\ b \notin untimed /\ b \notin u /\ b \notin crossed
        BY <2>1, <2>3, Zenon
      <3>2. PICK q \in Shots : BackendOf(q) = b /\ Minding(q)
        BY <3>1, Zenon
      <3>3. q # s
        BY <1>7, <3>2, SMT DEF Start
      <3>4. LabOf[q] \in kept => LabOf[q] # LabOf[s]
        BY <3>1, <3>2, Zenon DEF BackendOf
      <3>. QED
        BY <2>1, <2>2, <3>2, <3>3, <3>4, Zenon
    <2>. QED
      BY <2>3, Zenon
  <1>8. ASSUME NEW s \in Shots, TakeLock(s)
        PROVE  WarmIsMinded'
    BY <1>8, SMT DEF TakeLock
  <1>9. ASSUME NEW s \in Shots, NotReady(s)
        PROVE  WarmIsMinded'
    BY <1>9, SMT DEF NotReady
  <1>10. ASSUME NEW s \in Shots, Hires(s)
         PROVE  WarmIsMinded'
    BY <1>10, SMT DEF Hires
  <1>11. ASSUME NEW s \in Shots, RenderEnds(s)
         PROVE  WarmIsMinded'
    BY <1>11, SMT DEF RenderEnds, RenderIsOver
  <1>12. ASSUME NEW s \in Shots, FailureUnloads(s)
         PROVE  WarmIsMinded'
    BY <1>12, SMT DEF FailureUnloads, Unload
  <1>13. ASSUME NEW s \in Shots, FailureEnds(s)
         PROVE  WarmIsMinded'
    BY <1>13, SMT DEF FailureEnds, FreeSlot, Leaves, ArmIdle, Rearm
  <1>14. ASSUME NEW s \in Shots, Finished(s)
         PROVE  WarmIsMinded'
    BY <1>14, SMT DEF Finished, Leaves, ArmIdle, Rearm
  <1>15. ASSUME NEW s \in Shots, Drained(s)
         PROVE  WarmIsMinded'
    BY <1>15, SMT DEF Drained, Leaves, ArmIdle, Rearm
  <1>16. ASSUME NEW s \in Shots, CancelQueued(s)
         PROVE  WarmIsMinded'
    BY <1>16, SMT DEF CancelQueued
  <1>17. ASSUME NEW s \in Shots, CancelReady(s)
         PROVE  WarmIsMinded'
    BY <1>17, SMT DEF CancelReady, Leaves, ArmIdle, Rearm
  <1>18. ASSUME NEW s \in Shots, CancelRendering(s)
         PROVE  WarmIsMinded'
    BY <1>18, SMT DEF CancelRendering
  <1>19. ASSUME NEW s \in Shots, CancelFailing(s)
         PROVE  WarmIsMinded'
    BY <1>19, SMT DEF CancelFailing, LeavesAStray, Leaves, ArmIdle, Rearm
  <1>20. ASSUME NEW s \in Shots, Claim(s)
         PROVE  WarmIsMinded'
    BY <1>20, SMT DEF Claim, Step
  <1>21. ASSUME NEW s \in Shots, Oust(s)
         PROVE  WarmIsMinded'
    BY <1>21, SMT DEF Oust, Step
  <1>22. ASSUME NEW s \in Shots, Load(s)
         PROVE  WarmIsMinded'
    BY <1>22, SMT DEF Load, Step
  <1>23. ASSUME NEW s \in Shots, Reload(s)
         PROVE  WarmIsMinded'
    BY <1>23, SMT DEF Reload, Unload, Step
  <1>24. ASSUME NEW s \in Shots, StaysWarm(s)
         PROVE  WarmIsMinded'
    BY <1>24, SMT DEF StaysWarm, Step
  <1>25. ASSUME NEW s \in Shots, GivesUp(s)
         PROVE  WarmIsMinded'
    BY <1>25, SMT DEF GivesUp, Unload
  <1>26. ASSUME NEW s \in Shots, GivesBack(s)
         PROVE  WarmIsMinded'
    BY <1>26, SMT DEF GivesBack, FreeSlot
  <1>27. ASSUME NEW l \in Labs, Stop(l)
         PROVE  WarmIsMinded'
    BY <1>27, SMT DEF Stop
  <1>28. ASSUME NEW l \in Labs, StopTakesLock(l)
         PROVE  WarmIsMinded'
    BY <1>28, SMT DEF StopTakesLock, CancelIdle, LeavesAStray
  <1>29. ASSUME NEW l \in Labs, StopUnloads(l)
         PROVE  WarmIsMinded'
    BY <1>29, SMT DEF StopUnloads, Unload
  <1>30. ASSUME NEW l \in Labs, StopEnds(l)
         PROVE  WarmIsMinded'
    BY <1>30, SMT DEF StopEnds, FreeSlot
  <1>31. CASE UNCHANGED vars
    BY <1>31, SMT DEF vars
  <1>. QED
    BY <1>1, <1>2, <1>3, <1>4, <1>5, <1>6, <1>7, <1>8, <1>9, <1>10, <1>11, <1>12, <1>13,
       <1>14, <1>15, <1>16, <1>17, <1>18, <1>19, <1>20, <1>21, <1>22, <1>23, <1>24,
       <1>25, <1>26, <1>27, <1>28, <1>29, <1>30, <1>31, Zenon DEF Next

(* A pipeline left on the card has a timer that will unload it, or a job   *)
(* that is still to arm one (_start_idle_timer), unless two labs crossed.  *)
THEOREM WarmIsTimed == Spec => []WarmHasATimer
  <1>1. Init => WarmIsMinded
    BY SMT DEF Init, WarmIsMinded
  <1>2. IInv /\ WarmIsMinded /\ [Next]_vars => WarmIsMinded'
    BY WarmStep, Zenon DEF IInv
  <1>3. WarmIsMinded => WarmHasATimer
    BY Zenon DEF WarmIsMinded, WarmHasATimer, Minding, Inside, JobsInside
  <1>. QED
    BY <1>1, <1>2, <1>3, Invariance, PTL DEF Spec
=============================================================================
