---------------------------- MODULE VaultNightProofs ----------------------------
(***************************************************************************)
(* What is kept of her days: the safety properties of VaultCommits, for    *)
(* every set of writers and every number of failures, and of Night, for    *)
(* every roster of jobs, every budget and every number of days, minds and  *)
(* failures.                                                               *)
(*                                                                         *)
(* The Vault: only a writer that knows the flag ever holds the lock, and   *)
(* whoever has run `git add` has her change in the index or in HEAD.       *)
(*                                                                         *)
(* The night: a mark is made with the work, and what was worked is marked  *)
(* in the memory of the living mind's runner (WorkedIsMarked), which what  *)
(* is still asked of a job keeps clear of (OwedIsUnmarked) and what a new  *)
(* mind reads has all of (SavedUnlessTouched).                             *)
(***************************************************************************)
EXTENDS VaultCommits, Night, WellFoundedInduction, TLAPS

OnlyFlaggedLock == \A w \in Writers : at[w] = "locked" => w \in Flagged

AddedIsStaged == \A w \in Writers : at[w] = "added" => w \notin pending \/ w \in staged

VaultInv == /\ VaultTypeOK
        /\ OnlyFlaggedLock
        /\ AddedIsStaged
        /\ FlagKnowsTheTree
        /\ OwnEditIsCommitted

LEMMA SetsAreApart ==
    /\ Flagged \subseteq Writers /\ Now \subseteq Writers /\ Routes \subseteq Flagged
    /\ \A w \in Writers : w # None
    /\ \A w \in Forgets \cup Turns : w \notin Flagged
    /\ \A w \in Now : w \notin Flagged => w \in Forgets
    /\ \A w \in Ticks : w \notin Now
  BY VaultAssumption, SMT DEF Flagged, Writers, Now

LEMMA VaultInvInit == VaultInit => VaultInv
  <1>. SUFFICES ASSUME VaultInit PROVE VaultInv
    OBVIOUS
  <1>1. VaultTypeOK
    <2>1. fresh \in BOOLEAN /\ dirty \in BOOLEAN
      BY Zenon DEF VaultInit
    <2>. QED
      BY <2>1, VaultAssumption, SetsAreApart, SMT DEF VaultInit, VaultTypeOK
  <1>2. OnlyFlaggedLock /\ AddedIsStaged
    BY SMT DEF VaultInit, OnlyFlaggedLock, AddedIsStaged
  <1>3. FlagKnowsTheTree /\ OwnEditIsCommitted
    BY SMT DEF VaultInit, FlagKnowsTheTree, OwnEditIsCommitted
  <1>. QED
    BY <1>1, <1>2, <1>3 DEF VaultInv

LEMMA VaultTypeStep == ASSUME VaultTypeOK, OnlyFlaggedLock, [VaultNext]_vaultVars
                  PROVE  VaultTypeOK' /\ OnlyFlaggedLock'
  <1>. USE SetsAreApart, VaultAssumption DEF VaultTypeOK, OnlyFlaggedLock, vaultHistory
  <1>1. ASSUME NEW w \in Writers, Write(w) PROVE VaultTypeOK' /\ OnlyFlaggedLock'
    <2>1. dirty' \in BOOLEAN
      BY <1>1, Zenon DEF Write
    <2>. QED
      BY <1>1, <2>1, SMT DEF Write, Goes
  <1>2. ASSUME NEW w \in Writers, TakesLock(w) PROVE VaultTypeOK' /\ OnlyFlaggedLock'
    BY <1>2, SMT DEF TakesLock, Goes
  <1>3. ASSUME NEW w \in Writers, FindsItClean(w) PROVE VaultTypeOK' /\ OnlyFlaggedLock'
    BY <1>3, SMT DEF FindsItClean, Goes
  <1>4. ASSUME NEW w \in Writers, ClearsFlag(w) PROVE VaultTypeOK' /\ OnlyFlaggedLock'
    <2>1. dirty' \in BOOLEAN
      BY <1>4, Zenon DEF ClearsFlag
    <2>. QED
      BY <1>4, <2>1, SMT DEF ClearsFlag, Goes
  <1>5. ASSUME NEW w \in Writers, Straight(w) PROVE VaultTypeOK' /\ OnlyFlaggedLock'
    BY <1>5, SMT DEF Straight, Goes
  <1>6. ASSUME NEW w \in Writers, WaitsOutTheWindow(w) PROVE VaultTypeOK' /\ OnlyFlaggedLock'
    BY <1>6, SMT DEF WaitsOutTheWindow, Leaves
  <1>7. ASSUME NEW w \in Writers, Adds(w) PROVE VaultTypeOK' /\ OnlyFlaggedLock'
    BY <1>7, SMT DEF Adds, Goes
  <1>8. ASSUME NEW w \in Writers, NothingStaged(w) PROVE VaultTypeOK' /\ OnlyFlaggedLock'
    BY <1>8, SMT DEF NothingStaged, Leaves
  <1>9. ASSUME NEW w \in Writers, Commits(w) PROVE VaultTypeOK' /\ OnlyFlaggedLock'
    BY <1>9, SMT DEF Commits, Leaves
  <1>10. ASSUME NEW w \in Writers, GitFails(w) PROVE VaultTypeOK' /\ OnlyFlaggedLock'
    <2>1. dirty' \in BOOLEAN
      BY <1>10, Zenon DEF GitFails, GivesUp
    <2>. QED
      BY <1>10, <2>1, SMT DEF GitFails, GivesUp, Leaves, InGit
  <1>11. CASE WindowOpens
    <2>1. fresh' \in BOOLEAN
      BY <1>11, Zenon DEF WindowOpens
    <2>. QED
      BY <1>11, <2>1, SMT DEF WindowOpens
  <1>12. CASE Crash
    <2>1. dirty' \in BOOLEAN
      BY <1>12, Zenon DEF Crash
    <2>. QED
      BY <1>12, <2>1, SMT DEF Crash
  <1>13. CASE UNCHANGED vaultVars
    BY <1>13, SMT DEF vaultVars
  <1>. QED
    BY <1>1, <1>2, <1>3, <1>4, <1>5, <1>6, <1>7, <1>8, <1>9, <1>10, <1>11, <1>12, <1>13,
       Zenon DEF VaultNext

(* The index holds what its own git added, until a commit takes it.        *)
LEMMA StagedStep == ASSUME VaultTypeOK, AddedIsStaged, [VaultNext]_vaultVars
                    PROVE  AddedIsStaged'
  <1>. USE SetsAreApart DEF VaultTypeOK, AddedIsStaged, vaultHistory
  <1>1. ASSUME NEW w \in Writers, Write(w) PROVE AddedIsStaged'
    BY <1>1, SMT DEF Write, Goes
  <1>2. ASSUME NEW w \in Writers,
               \/ TakesLock(w) \/ FindsItClean(w) \/ ClearsFlag(w) \/ Straight(w)
        PROVE  AddedIsStaged'
    BY <1>2, SMT DEF TakesLock, FindsItClean, ClearsFlag, Straight, Goes
  <1>3. ASSUME NEW w \in Writers, WaitsOutTheWindow(w) \/ NothingStaged(w) \/ GitFails(w)
        PROVE  AddedIsStaged'
    BY <1>3, SMT DEF WaitsOutTheWindow, NothingStaged, GitFails, GivesUp, Leaves
  <1>4. ASSUME NEW w \in Writers, Adds(w) PROVE AddedIsStaged'
    BY <1>4, SMT DEF Adds, Goes
  <1>5. ASSUME NEW w \in Writers, Commits(w) PROVE AddedIsStaged'
    BY <1>5, SMT DEF Commits, Leaves
  <1>6. CASE WindowOpens \/ Crash \/ UNCHANGED vaultVars
    BY <1>6, SMT DEF WindowOpens, Crash, vaultVars
  <1>. QED
    BY <1>1, <1>2, <1>3, <1>4, <1>5, <1>6, Zenon DEF VaultNext

(* The flag: raised again by whoever wrote or gave up under it.            *)
LEMMA FlagStep == ASSUME VaultTypeOK, OnlyFlaggedLock, FlagKnowsTheTree, [VaultNext]_vaultVars
                  PROVE  FlagKnowsTheTree'
  <1>. USE SetsAreApart DEF VaultTypeOK, OnlyFlaggedLock, FlagKnowsTheTree, vaultHistory
  <1>1. ASSUME NEW w \in Writers, Write(w) PROVE FlagKnowsTheTree'
    <2>1. CASE w \in Flagged
      <3>1. dirty'
        BY <1>1, <2>1, Zenon DEF Write
      <3>. QED
        BY <3>1, Zenon
    <2>2. CASE w \notin Flagged
      <3>1. /\ dirty => dirty'
            /\ staged' = staged /\ waived' = waived \ {w} /\ pending' = pending \cup {w}
            /\ at[w] = "idle" /\ at' = [at EXCEPT ![w] = "wrote"]
        BY <1>1, Zenon DEF Write, Goes
      <3>2. \A v \in Flagged : v # w /\ at'[v] = at[v]
        BY <2>2, <3>1, SMT
      <3>3. \A v \in pending' \cap Flagged : v \in pending
        BY <2>2, <3>1, Zenon
      <3>. QED
        BY <3>1, <3>2, <3>3, Zenon
    <2>. QED
      BY <2>1, <2>2
  <1>2. ASSUME NEW w \in Writers, TakesLock(w) \/ FindsItClean(w) \/ Straight(w)
        PROVE  FlagKnowsTheTree'
    BY <1>2, SMT DEF TakesLock, FindsItClean, Straight, Goes
  <1>3. ASSUME NEW w \in Writers, ClearsFlag(w) PROVE FlagKnowsTheTree'
    BY <1>3, SMT DEF ClearsFlag, Goes
  <1>4. ASSUME NEW w \in Writers, WaitsOutTheWindow(w) PROVE FlagKnowsTheTree'
    BY <1>4, SMT DEF WaitsOutTheWindow, Leaves
  <1>5. ASSUME NEW w \in Writers, Adds(w) PROVE FlagKnowsTheTree'
    BY <1>5, SMT DEF Adds, Goes
  <1>6. ASSUME NEW w \in Writers, NothingStaged(w) PROVE FlagKnowsTheTree'
    BY <1>6, SMT DEF NothingStaged, Leaves
  <1>7. ASSUME NEW w \in Writers, Commits(w) PROVE FlagKnowsTheTree'
    BY <1>7, SMT DEF Commits, Leaves
  <1>8. ASSUME NEW w \in Writers, GitFails(w) PROVE FlagKnowsTheTree'
    <2>1. CASE w \in Flagged
      <3>1. dirty'
        BY <1>8, <2>1, Zenon DEF GitFails, GivesUp
      <3>. QED
        BY <3>1, Zenon
    <2>2. CASE w \notin Flagged
      <3>1. /\ pending' = pending /\ staged' = staged /\ waived' = waived
            /\ dirty' = (dirty \/ w \in Flagged)
            /\ at' = [at EXCEPT ![w] = "idle"]
        BY <1>8, Zenon DEF GitFails, GivesUp, Leaves
      <3>2. \A v \in Flagged : at'[v] = at[v]
        BY <2>2, <3>1, SMT
      <3>. QED
        BY <2>2, <3>1, <3>2, Zenon
    <2>. QED
      BY <2>1, <2>2
  <1>9. CASE WindowOpens \/ Crash \/ UNCHANGED vaultVars
    BY <1>9, SMT DEF WindowOpens, Crash, vaultVars
  <1>. QED
    BY <1>1, <1>2, <1>3, <1>4, <1>5, <1>6, <1>7, <1>8, <1>9, Zenon DEF VaultNext

(* A person's edit: her route leaves git by a commit, or for a reason.     *)
LEMMA OwnStep == ASSUME VaultTypeOK, OnlyFlaggedLock, AddedIsStaged, OwnEditIsCommitted,
                        [VaultNext]_vaultVars
                 PROVE  OwnEditIsCommitted'
  <1>. USE SetsAreApart DEF VaultTypeOK, OwnEditIsCommitted, vaultHistory
  <1>1. ASSUME NEW w \in Writers, Write(w) PROVE OwnEditIsCommitted'
    BY <1>1, SMT DEF Write, Goes
  <1>2. ASSUME NEW w \in Writers, TakesLock(w) \/ ClearsFlag(w) \/ Straight(w) \/ Adds(w)
        PROVE  OwnEditIsCommitted'
    BY <1>2, SMT DEF TakesLock, ClearsFlag, Straight, Adds, Goes
  <1>3. ASSUME NEW w \in Writers, FindsItClean(w) PROVE OwnEditIsCommitted'
    BY <1>3, SMT DEF FindsItClean, Goes, OnlyFlaggedLock, Flagged, Now
  <1>4. ASSUME NEW w \in Writers, WaitsOutTheWindow(w) PROVE OwnEditIsCommitted'
    BY <1>4, SMT DEF WaitsOutTheWindow, DoesNotWait, Leaves
  <1>5. ASSUME NEW w \in Writers, NothingStaged(w) PROVE OwnEditIsCommitted'
    BY <1>5, SMT DEF NothingStaged, Leaves, AddedIsStaged
  <1>6. ASSUME NEW w \in Writers, Commits(w) PROVE OwnEditIsCommitted'
    BY <1>6, SMT DEF Commits, Leaves, AddedIsStaged
  <1>7. ASSUME NEW w \in Writers, GitFails(w) PROVE OwnEditIsCommitted'
    BY <1>7, SMT DEF GitFails, GivesUp, Leaves
  <1>8. CASE WindowOpens \/ Crash \/ UNCHANGED vaultVars
    BY <1>8, SMT DEF WindowOpens, Crash, vaultVars
  <1>. QED
    BY <1>1, <1>2, <1>3, <1>4, <1>5, <1>6, <1>7, <1>8, Zenon DEF VaultNext

LEMMA VaultInvHolds == VaultSpec => []VaultInv
  <1>1. VaultInv /\ [VaultNext]_vaultVars => VaultInv'
    BY VaultTypeStep, StagedStep, FlagStep, OwnStep DEF VaultInv
  <1>. QED
    BY VaultInvInit, <1>1, PTL DEF VaultSpec

(* Every variable of the Vault stays in its type, and git runs under the   *)
(* lock for every writer that takes it (vaultio.commit_if_dirty).          *)
THEOREM VaultTypeCorrect == VaultSpec => []VaultTypeOK
  BY VaultInvHolds, PTL DEF VaultInv

(* No write of the mind is ever lost from the flag's sight, however many   *)
(* writers, failures and crashes fall between its being cleared and        *)
(* git's `add` (vaultio.mark_dirty, commit_if_dirty).                      *)
THEOREM FlagIsTrue == VaultSpec => []FlagKnowsTheTree
  BY VaultInvHolds, PTL DEF VaultInv

(* A person's edit whose route is over is in vaultHistory, unless git failed on *)
(* it or another's commit had taken the flag (vaultgit.commit, now=True).  *)
THEOREM OwnEditsAreCommitted == VaultSpec => []OwnEditIsCommitted
  BY VaultInvHolds, PTL DEF VaultInv

-----------------------------------------------------------------------------
(* A job is at hand: Job is one of the roster, Asked one of its days.     *)
AtWork == night.at \in {"choosing", "working", "written", "evolving"}

(* What a night looks like: days it owes are finished ones, and a day that*)
(* is being worked is still among them.                                   *)
NightShape ==
    /\ DOMAIN night = DOMAIN NoNight
    /\ night.todo \subseteq 1 .. finished
    /\ AtWork => night.job \in 1 .. Len(Roster)
    /\ night.at \in {"working", "written"} => night.todo # {}

NightType == TypeOK /\ NightShape

(* A night is its mind's own until a mind is built under it.              *)
OwnNight == ~outlived /\ night.at # "none" => night.of = mind

Others == Jobs \ {Consolidate}

(* A runner holds every mark the file has: its mind read the file when it *)
(* was built, and every save since was this runner's.                     *)
FileIsRead == ~outlived => \A j \in Others : file[j] \subseteq ledger[mind][j]

(* What a repeated day is excused by has not happened.                    *)
NoFault == faults = 0 /\ ~outlived

(* The day whose job is made and not marked yet.                          *)
InHand(j, d) == night.at = "written" /\ j = Job /\ d = Asked

(* Without a fault a job was done once for a day, and the mark is there,  *)
(* or is the next thing this night does.                                  *)
WorkedIsMarked ==
    NoFault => \A j \in Jobs, d \in Days :
        /\ times[j][d] <= 1
        /\ times[j][d] = 1 => d \in Done(mind, j) \/ InHand(j, d)

(* What is still asked of a job is unmarked.                              *)
OwedIsUnmarked == NoFault /\ AtWork => night.todo \cap Done(mind, Job) = {}

(* Consolidation's own oldest day is the one it was asked for: what it    *)
(* owes beyond the night's list finished later.                           *)
OldestFirst ==
    NoFault /\ AtWork /\ Job = Consolidate =>
        \A a \in night.todo, b \in Backlog(mind, Job) \ night.todo : a < b

(* Marks that are not on file belong to a night that will save them: a    *)
(* mind built between nights reads all of them.                           *)
SavedUnlessTouched ==
    NoFault /\ (night.at = "none" \/ ~night.touched) =>
        \A j \in Others : ledger[mind][j] \subseteq file[j]

(* A function that takes one new value of its type keeps its type.        *)
LEMMA Updated == ASSUME NEW S, NEW T, NEW f \in [S -> T], NEW x \in S, NEW y \in T
                 PROVE  [f EXCEPT ![x] = y] \in [S -> T]
  BY SMT

(* What an updated function holds where.                                  *)
LEMMA ReadsBack == ASSUME NEW S, NEW T, NEW f \in [S -> T], NEW x \in S, NEW y
                   PROVE  \A z \in S : [f EXCEPT ![x] = y][z] = IF z = x THEN y ELSE f[z]
  BY SMT

(* Every entry of the roster is a job, and there is one.                  *)
LEMMA RosterOfJobs == /\ \A i \in 1 .. Len(Roster) : Roster[i] \in Jobs
                      /\ Len(Roster) \in Nat \ {0}
  BY NightAssumption, SMT DEF Jobs

(* FiniteSetsExt!Min of a set of naturals, whether or not it is finite.   *)
LEMMA MinIsLeast == ASSUME NEW S \in SUBSET Nat, S # {}
                    PROVE  Min(S) \in S /\ \A y \in S : Min(S) <= y
  <1>1. PICK x \in S : \A y \in S : ~ (<<y, x>> \in OpToRel(<, Nat))
    BY WFMin, NatLessThanWellFounded, Zenon
  <1>2. \A y \in S : ~ (y < x)
    BY <1>1, Zenon DEF OpToRel
  <1>3. \A y \in S : x <= y
    BY <1>2, SMT
  <1>. QED
    BY <1>3, Zenon DEF Min

(* A backlog is of finished days that are not done.                       *)
LEMMA BacklogType == ASSUME NightType, NEW m \in Minds, NEW j \in Jobs
                     PROVE  /\ Backlog(m, j) \in SUBSET (1 .. finished)
                            /\ Done(m, j) \in SUBSET Days
                            /\ Backlog(m, j) \cap Done(m, j) = {}
                            /\ 1 .. finished \subseteq Days
  <1>1. Done(m, j) \in SUBSET Days
    BY SMT DEF NightType, TypeOK, Done, Marks
  <1>2. 1 .. finished \subseteq Days
    BY NightAssumption, SMT DEF NightType, TypeOK, Days
  <1>3. finished \in Nat
    BY NightAssumption, SMT DEF NightType, TypeOK
  <1>. QED
    BY <1>1, <1>2, <1>3, SMT DEF Backlog

(* The day that is asked for, and the day that is worked.                  *)
LEMMA AtHand == ASSUME NightType, night.at \in {"working", "written"}
                PROVE  /\ Job \in Jobs
                       /\ Asked \in night.todo
                       /\ \A d \in night.todo : Asked <= d
                       /\ Target \in 1 .. finished
                       /\ Target \in Days
                       /\ night.of \in Minds
                       /\ Lane \in BOOLEAN
  <1>1. Job \in Jobs
    BY RosterOfJobs, SMT DEF NightType, NightShape, AtWork, Job
  <1>2. night.todo \in SUBSET Nat /\ night.todo # {} /\ night.todo \in SUBSET (1 .. finished)
    BY SMT DEF NightType, NightShape
  <1>3. Asked \in night.todo /\ \A d \in night.todo : Asked <= d
    BY <1>2, MinIsLeast, Zenon DEF Asked
  <1>4. night.of \in Minds
    BY NightAssumption, SMT DEF NightType, TypeOK, Minds
  <1>5. Backlog(night.of, Job) \in SUBSET (1 .. finished) /\ 1 .. finished \subseteq Days
    BY <1>1, <1>4, BacklogType
  <1>6. Target \in 1 .. finished
    <2>1. CASE Job = Consolidate /\ Backlog(night.of, Job) # {}
      <3>1. Backlog(night.of, Job) \in SUBSET Nat
        BY <1>5, SMT
      <3>2. Min(Backlog(night.of, Job)) \in Backlog(night.of, Job)
        BY <2>1, <3>1, MinIsLeast, Zenon
      <3>. QED
        BY <2>1, <3>2, <1>5, Zenon DEF Target
    <2>2. CASE ~(Job = Consolidate /\ Backlog(night.of, Job) # {})
      BY <2>2, <1>3, <1>2, Zenon DEF Target
    <2>. QED
      BY <2>1, <2>2
  <1>7. Lane \in BOOLEAN
    <2>1. CASE Job \in Own
      BY <2>1, SMT DEF Lane
    <2>2. CASE Job \notin Own
      BY <2>2, SMT DEF Lane
    <2>. QED
      BY <2>1, <2>2
  <1>. QED
    BY <1>1, <1>3, <1>4, <1>5, <1>6, <1>7, Zenon

(* Before the first night.                                                *)
LEMMA NightInit == Init => NightType
  <1>. SUFFICES ASSUME Init PROVE NightType
    OBVIOUS
  <1>1. TypeOK
    <2>1. 1 \in Minds /\ {} \in SUBSET Days /\ MaxDays \in Nat /\ MaxFaults \in Nat
      BY NightAssumption, SMT DEF Minds
    <2>2. outlived \in BOOLEAN
      BY Zenon DEF Init
    <2>3. night.at = "none"
      BY Zenon DEF Init, NoNight
    <2>. QED
      BY <2>1, <2>2, <2>3, SMT DEF Init, TypeOK, Marks, Nothing
  <1>2. NightShape
    BY SMT DEF Init, NightShape, NoNight, AtWork
  <1>. QED
    BY <1>1, <1>2 DEF NightType

(* Between nights.                                                        *)
LEMMA NoNightShape == NoNight.at = "none" /\ NoNight.todo = {} /\ NoNight.touched = FALSE
  BY SMT DEF NoNight

(* What the end of one day's job makes of the night.                      *)
LEMMA BilledNight ==
    ASSUME NightType, night.at \in {"working", "written", "evolving"}
    PROVE  /\ DOMAIN Billed = DOMAIN NoNight
           /\ Billed.at = "choosing" /\ Billed.of = night.of /\ Billed.job = night.job
           /\ Billed.byHand = night.byHand /\ Billed.todo = Rest
           /\ Rest \subseteq night.todo /\ Billed.touched = night.touched
           /\ DOMAIN [Billed EXCEPT !.touched = TRUE] = DOMAIN NoNight
           /\ [Billed EXCEPT !.touched = TRUE].touched
           /\ \A f \in {"at", "of", "job", "byHand", "todo"} :
                 [Billed EXCEPT !.touched = TRUE][f] = Billed[f]
  BY SMT DEF NightType, NightShape, NoNight, Billed, Rest

(* What a mark makes of it.                                               *)
LEMMA AfterMarkNight ==
    ASSUME NightType, night.at \in {"working", "written"}
    PROVE  /\ DOMAIN AfterMark = DOMAIN NoNight
           /\ AfterMark.at \in {"choosing", "evolving"}
           /\ AfterMark.of = night.of /\ AfterMark.job = night.job
           /\ AfterMark.byHand = night.byHand /\ AfterMark.todo = night.todo \ {Asked}
           /\ Job # Consolidate => AfterMark.touched
           /\ Job = Consolidate => AfterMark.touched = night.touched
  <1>1. Rest = night.todo \ {Asked}
    BY SMT DEF Rest
  <1>2. CASE Job = Consolidate
    <2>1. AfterMark = [night EXCEPT !.at = "evolving", !.todo = night.todo \ {Asked}]
      BY <1>1, <1>2, Zenon DEF AfterMark
    <2>. QED
      BY <1>2, <2>1, SMT DEF NightType, NightShape, NoNight
  <1>3. CASE Job # Consolidate
    <2>1. AfterMark = [Billed EXCEPT !.touched = TRUE]
      BY <1>3, Zenon DEF AfterMark
    <2>. QED
      <3>1. /\ DOMAIN AfterMark = DOMAIN NoNight /\ AfterMark.at = "choosing"
            /\ AfterMark.of = night.of /\ AfterMark.job = night.job
            /\ AfterMark.byHand = night.byHand /\ AfterMark.todo = night.todo \ {Asked}
        BY <1>1, <2>1, BilledNight, SMT
      <3>2. AfterMark.touched
        BY <2>1, BilledNight, Zenon
      <3>. QED
        BY <1>3, <3>1, <3>2, Zenon
  <1>. QED
    BY <1>2, <1>3

(* A mark, pointwise: who gains a day where.                              *)
LEMMA WhatMarkedDoes ==
    ASSUME NightType, night.at \in {"working", "written"}, Marked(Target)
    PROVE  /\ Job \in Jobs /\ Target \in Days /\ night.of \in Minds
           /\ ledger' \in [Minds -> Marks] /\ file' \in Marks
           /\ \A m \in Minds, j \in Jobs :
                 IF m = night.of /\ j = Job /\ j # Consolidate
                 THEN ledger'[m][j] = ledger[m][j] \cup {Target}
                 ELSE ledger'[m][j] = ledger[m][j]
           /\ \A j \in Jobs : IF j = Job /\ j = Consolidate
                              THEN file'[j] = file[j] \cup {Target}
                              ELSE file'[j] = file[j]
  <1>0. /\ ledger \in [Minds -> [Jobs -> SUBSET Days]] /\ file \in [Jobs -> SUBSET Days]
        /\ \A m \in Minds : ledger[m] \in [Jobs -> SUBSET Days]
    BY SMT DEF NightType, TypeOK, Marks
  <1>1. Job \in Jobs /\ Target \in Days /\ night.of \in Minds
    BY AtHand
  <1>2. CASE Job = Consolidate
    <2>1. file' = [file EXCEPT ![Job] = @ \cup {Target}] /\ ledger' = ledger
      BY <1>2, Zenon DEF Marked
    <2>2. \A j \in Jobs : file'[j] = IF j = Job THEN file[j] \cup {Target} ELSE file[j]
      BY <1>0, <2>1, <1>1, ReadsBack, Zenon
    <2>3. ledger' \in [Minds -> Marks] /\ file' \in Marks
      BY <1>0, <1>1, <2>1, SMT DEF Marks
    <2>. QED
      BY <1>1, <1>2, <2>1, <2>2, <2>3, Zenon
  <1>3. CASE Job # Consolidate
    <2>. DEFINE row == [ledger[night.of] EXCEPT ![Job] = @ \cup {Target}]
    <2>1. ledger' = [ledger EXCEPT ![night.of] = row] /\ file' = file
      BY <1>3, SMT DEF Marked
    <2>2. \A j \in Jobs : row[j] = IF j = Job THEN ledger[night.of][j] \cup {Target}
                                   ELSE ledger[night.of][j]
      BY <1>0, <1>1, ReadsBack, Zenon
    <2>3. row \in [Jobs -> SUBSET Days]
      BY <1>0, <1>1, SMT
    <2>. HIDE DEF row
    <2>4. \A m \in Minds : ledger'[m] = IF m = night.of THEN row ELSE ledger[m]
      BY <1>0, <2>1, <1>1, ReadsBack, Zenon
    <2>5. ledger' \in [Minds -> [Jobs -> SUBSET Days]]
      BY <1>0, <1>1, <2>1, <2>3, Updated, SMT
    <2>6. ledger' \in [Minds -> Marks] /\ file' \in Marks
      BY <1>0, <2>1, <2>5, Zenon DEF Marks
    <2>. QED
      BY <1>1, <1>3, <2>1, <2>2, <2>4, <2>6, Zenon
  <1>. QED
    BY <1>2, <1>3

(* What moving on makes of the night: its end, or another job's backlog.  *)
LEMMA NextJobNight ==
    ASSUME NightType, night.at = "choosing"
    PROVE  /\ DOMAIN NextJob = DOMAIN NoNight
           /\ NextJob.of = night.of /\ NextJob.byHand = night.byHand
           /\ NextJob.touched = night.touched
           /\ \/ NextJob.at = "closing" /\ NextJob.job = Len(Roster) + 1
                 /\ NextJob.todo = {}
              \/ /\ NextJob.at = "choosing" /\ NextJob.job \in 1 .. Len(Roster)
                 /\ Roster[NextJob.job] \in Jobs
                 /\ NextJob.todo = Backlog(night.of, Roster[NextJob.job])
  BY RosterOfJobs, SMT DEF NightType, NightShape, NoNight, NextJob, AtWork

(* The types and the shape of a night.                                    *)
LEMMA NightTypeStep == ASSUME NightType, [Next]_vars PROVE NightType'
  <1>. USE DEF NightType
  <1>0. /\ MaxDays \in Nat /\ MaxFaults \in Nat /\ MaxMinds \in Nat /\ Consolidate \in Jobs
        /\ finished \in Nat /\ mind \in Nat /\ Len(Roster) \in Nat \ {0}
        /\ \A i \in 1 .. Len(Roster) : Roster[i] \in Jobs
    BY NightAssumption, RosterOfJobs, SMT DEF TypeOK, Minds
  <1>1. CASE DayEnds
    BY <1>0, <1>1, SMT DEF DayEnds, TypeOK, NightShape, AtWork, NoNight, history
  <1>2. ASSUME NEW b \in BOOLEAN, Begins(b) PROVE NightType'
    <2>1. Backlog(mind, Roster[1]) \in SUBSET (1 .. finished)
      BY <1>0, BacklogType, SMT DEF TypeOK
    <2>2. /\ DOMAIN night' = DOMAIN NoNight
          /\ night'.at = "choosing" /\ night'.of = mind /\ night'.byHand = b
          /\ night'.job = 1 /\ night'.todo = Backlog(mind, Roster[1])
      BY <1>2, SMT DEF Begins, NoNight
    <2>3. UNCHANGED <<finished, mind, ledger, file, times, handled, lost, faults, outlived>>
      BY <1>2, Zenon DEF Begins, history
    <2>4. TypeOK'
      BY <1>0, <2>2, <2>3, SMT DEF TypeOK, Minds
    <2>5. NightShape'
      BY <1>0, <2>1, <2>2, <2>3, SMT DEF NightShape, AtWork
    <2>. QED
      BY <2>4, <2>5
  <1>3. CASE MovesOn
    <2>1. night.at = "choosing" /\ night' = NextJob
      BY <1>3, Zenon DEF MovesOn
    <2>2. UNCHANGED <<finished, mind, ledger, file, times, handled, lost, faults, outlived>>
      BY <1>3, Zenon DEF MovesOn, history
    <2>3. TypeOK'
      BY <1>0, <2>1, <2>2, NextJobNight, SMT DEF TypeOK
    <2>4. NightShape'
      <3>1. night.of \in Minds
        BY <2>1, <1>0, SMT DEF TypeOK, Minds
      <3>. QED
        BY <1>0, <2>1, <2>2, <3>1, NextJobNight, BacklogType, SMT
           DEF NightShape, AtWork
    <2>. QED
      BY <2>3, <2>4
  <1>4. CASE Takes
    BY <1>0, <1>4, SMT DEF Takes, TypeOK, NightShape, AtWork, history
  <1>5. CASE Makes
    <2>1. Target \in Days /\ Job \in Jobs
      BY <1>5, AtHand, SMT DEF Makes
    <2>2. times' \in [Jobs -> [Days -> Nat]]
      BY <1>5, <2>1, SMT DEF Makes, TypeOK
    <2>3. /\ night.at = "working" /\ night' = [night EXCEPT !.at = "written"]
          /\ UNCHANGED <<finished, mind, ledger, file, handled, lost, faults, outlived>>
      BY <1>5, Zenon DEF Makes
    <2>4. TypeOK'
      BY <1>0, <2>2, <2>3, SMT DEF TypeOK, NightShape, NoNight
    <2>5. NightShape'
      BY <1>0, <2>3, SMT DEF NightShape, AtWork, NoNight
    <2>. QED
      BY <2>4, <2>5
  <1>6. CASE Mark \/ Swallows
    <2>1. /\ night.at \in {"working", "written"} /\ Marked(Target)
          /\ night' = AfterMark /\ UNCHANGED <<finished, mind, times, outlived>>
      BY <1>6, Zenon DEF Mark, Swallows
    <2>2. Target \in Days /\ Job \in Jobs /\ ledger' \in [Minds -> Marks] /\ file' \in Marks
      BY <2>1, WhatMarkedDoes
    <2>3. handled' \in Marks /\ lost' \subseteq Days /\ faults' \in 0 .. MaxFaults
      <3>1. CASE Mark
        BY <1>0, <2>2, <3>1, SMT DEF Mark, TypeOK, Marks
      <3>2. CASE Swallows
        BY <1>0, <2>2, <3>2, SMT DEF Swallows, TypeOK, Marks
      <3>. QED
        BY <1>6, <3>1, <3>2
    <2>4. /\ DOMAIN night' = DOMAIN NoNight /\ night'.at \in {"choosing", "evolving"}
          /\ night'.of = night.of /\ night'.job = night.job
          /\ night'.byHand = night.byHand /\ night'.todo = night.todo \ {Asked}
      BY <2>1, AfterMarkNight
    <2>5. TypeOK'
      BY <1>0, <2>1, <2>2, <2>3, <2>4, SMT DEF TypeOK
    <2>6. NightShape'
      BY <1>0, <2>1, <2>4, SMT DEF NightShape, AtWork
    <2>. QED
      BY <2>5, <2>6
  <1>14. CASE Evolves
    <2>1. /\ night.at = "evolving" /\ night' = [Billed EXCEPT !.touched = TRUE]
          /\ UNCHANGED <<finished, mind, ledger, file, times, handled, lost, faults, outlived>>
      BY <1>14, Zenon DEF Evolves, history
    <2>2. /\ DOMAIN night' = DOMAIN NoNight /\ night'.at = "choosing"
          /\ night'.of = night.of /\ night'.job = night.job
          /\ night'.byHand = night.byHand /\ night'.todo \subseteq night.todo
      BY <2>1, BilledNight, SMT
    <2>3. TypeOK'
      BY <1>0, <2>1, <2>2, SMT DEF TypeOK
    <2>4. NightShape'
      BY <1>0, <2>1, <2>2, SMT DEF NightShape, AtWork
    <2>. QED
      BY <2>3, <2>4
  <1>7. CASE Fails
    <2>1. /\ night.at \in {"working", "written", "evolving"} /\ night' = Billed
          /\ faults < MaxFaults /\ faults' = faults + 1
          /\ UNCHANGED <<finished, mind, ledger, file, times, handled, lost, outlived>>
      BY <1>7, Zenon DEF Fails
    <2>2. TypeOK'
      BY <1>0, <2>1, BilledNight, SMT DEF TypeOK
    <2>3. NightShape'
      BY <1>0, <2>1, BilledNight, SMT DEF NightShape, AtWork
    <2>. QED
      BY <2>2, <2>3
  <1>8. CASE Interrupted
    BY <1>0, <1>8, NoNightShape, SMT DEF Interrupted, TypeOK, NightShape, AtWork
  <1>9. CASE Closes
    <2>1. file' \in Marks
      <3>1. night.of \in Minds
        BY <1>9, <1>0, SMT DEF Closes, TypeOK, Minds
      <3>2. Saved \in Marks
        BY <3>1, SMT DEF Saved, TypeOK, Marks
      <3>. QED
        BY <1>9, <3>2, SMT DEF Closes, TypeOK
    <2>2. night' = NoNight
          /\ UNCHANGED <<finished, mind, ledger, times, handled, lost, faults, outlived>>
      BY <1>9, Zenon DEF Closes, history
    <2>. QED
      BY <1>0, <2>1, <2>2, NoNightShape, SMT DEF TypeOK, NightShape, AtWork
  <1>10. ASSUME Built PROVE ledger' \in [Minds -> Marks] /\ mind' \in Minds /\ mind' = mind + 1
                            /\ UNCHANGED <<finished, file, times, handled, lost>>
    BY <1>0, <1>10, SMT DEF Built, TypeOK, Marks, Minds
  <1>11. CASE Rebuild
    <2>1. CASE night.at # "none" /\ night.byHand
      <3>1. outlived' = TRUE /\ UNCHANGED <<night, faults>>
        BY <1>11, <2>1, Zenon DEF Rebuild
      <3>. QED
        BY <1>0, <1>10, <1>11, <2>1, <3>1, SMT DEF Rebuild, TypeOK, NightShape, AtWork
    <2>2. CASE ~(night.at # "none" /\ night.byHand)
      <3>1. /\ night' = NoNight /\ outlived' = outlived
            /\ faults' = (IF night.at = "none" THEN faults ELSE faults + 1)
            /\ faults' <= MaxFaults
        BY <1>11, <2>2, Zenon DEF Rebuild
      <3>. QED
        BY <1>0, <1>10, <1>11, <3>1, NoNightShape, SMT
           DEF Rebuild, TypeOK, NightShape, AtWork
    <2>. QED
      BY <2>1, <2>2
  <1>12. CASE Restart
    BY <1>0, <1>10, <1>12, NoNightShape, SMT DEF Restart, TypeOK, NightShape, AtWork
  <1>13. CASE UNCHANGED vars
    BY <1>13, SMT DEF vars, history, TypeOK, NightShape, AtWork
  <1>. QED
    BY <1>1, <1>2, <1>3, <1>4, <1>5, <1>6, <1>7, <1>8, <1>9, <1>11, <1>12, <1>13, <1>14,
       Zenon DEF Next

(* The mark of a job done whole, pointwise.                               *)
LEMMA WhatMarkDoes ==
    ASSUME NightType, Mark
    PROVE  /\ night.at = "written" /\ Marked(Target)
           /\ \A j \in Jobs : IF j = Job THEN handled'[j] = handled[j] \cup {Target}
                              ELSE handled'[j] = handled[j]
           /\ UNCHANGED <<finished, mind, times, lost, faults, outlived>>
           /\ night'.at \in {"choosing", "evolving"} /\ night'.of = night.of
           /\ night'.job = night.job /\ night'.todo = night.todo \ {Asked}
           /\ Job # Consolidate => night'.touched
           /\ Job = Consolidate => night'.touched = night.touched
  <1>1. /\ night.at = "written" /\ Marked(Target)
        /\ handled' = [handled EXCEPT ![Job] = @ \cup {Target}]
        /\ night' = AfterMark
        /\ UNCHANGED <<finished, mind, times, lost, faults, outlived>>
    BY Zenon DEF Mark
  <1>2. Job \in Jobs /\ handled \in [Jobs -> SUBSET Days]
    BY <1>1, AtHand, SMT DEF NightType, TypeOK, Marks
  <1>3. \A j \in Jobs : handled'[j] = IF j = Job THEN handled[j] \cup {Target}
                                      ELSE handled[j]
    BY <1>1, <1>2, ReadsBack, Zenon
  <1>. QED
    BY <1>1, <1>3, AfterMarkNight, Zenon

(* A mind that is built reads the file.                                   *)
LEMMA WhatBuiltDoes ==
    ASSUME NightType, Built
    PROVE  /\ mind' = mind + 1 /\ mind' \in Minds
           /\ \A m \in Minds, j \in Jobs :
                 ledger'[m][j] = IF m = mind' THEN IF j = Consolidate THEN {} ELSE file[j]
                                 ELSE ledger[m][j]
           /\ UNCHANGED <<finished, file, times, handled, lost>>
  BY NightAssumption, SMT DEF Built, NightType, TypeOK, Marks, Minds

(* The end of a night writes its runner's marks, where it made any.       *)
LEMMA WhatClosesDoes ==
    ASSUME NightType, Closes
    PROVE  /\ night.at = "closing" /\ night' = NoNight /\ night.of \in Minds
           /\ \A j \in Jobs : file'[j] = IF night.touched /\ j # Consolidate
                                         THEN ledger[night.of][j] ELSE file[j]
           /\ UNCHANGED <<finished, mind, ledger, times, handled, lost, faults, outlived>>
  <1>1. /\ night.at = "closing" /\ night' = NoNight
        /\ file' = (IF night.touched THEN Saved ELSE file)
        /\ UNCHANGED <<finished, mind, ledger, times, handled, lost, faults, outlived>>
    BY Zenon DEF Closes, history
  <1>2. night.of \in Minds
    BY <1>1, NightAssumption, SMT DEF NightType, TypeOK, Minds
  <1>. QED
    BY <1>1, <1>2, SMT DEF Saved, NightType, TypeOK, Marks

(* A mark is made with the work or with a loss that is on record, and     *)
(* copied from a mark.                                                    *)
LEMMA MarkedStep == ASSUME NightType, MarkedWasHandled, [Next]_vars
                    PROVE  MarkedWasHandled'
  <1>. USE DEF MarkedWasHandled
  <1>1. CASE \/ DayEnds \/ Begins(TRUE) \/ Begins(FALSE) \/ MovesOn \/ Takes \/ Makes
             \/ Evolves \/ Fails \/ Interrupted \/ UNCHANGED vars
    <2>1. UNCHANGED <<ledger, file, handled, lost>>
      BY <1>1, Zenon DEF DayEnds, Begins, MovesOn, Takes, Makes, Evolves, Fails, Interrupted,
                         vars, history
    <2>. QED
      BY <2>1, Zenon DEF Lost
  <1>2. CASE Mark \/ Swallows
    <2>. SUFFICES ASSUME NEW j \in Jobs
                  PROVE  file'[j] \subseteq handled'[j] \cup Lost(j)'
                         /\ \A m \in Minds : ledger'[m][j] \subseteq handled'[j]
      BY Zenon
    <2>1. night.at \in {"working", "written"} /\ Marked(Target)
      BY <1>2, Zenon DEF Mark, Swallows
    <2>2. \/ j # Job /\ handled'[j] = handled[j] /\ Lost(j) \subseteq Lost(j)'
          \/ j = Job /\ handled'[j] = handled[j] \cup {Target} /\ Lost(j) \subseteq Lost(j)'
          \/ /\ j = Job /\ j = Consolidate /\ handled'[j] = handled[j]
             /\ Lost(j)' = Lost(j) \cup {Target}
      <3>1. CASE Mark
        BY <3>1, WhatMarkDoes, SMT DEF Lost
      <3>2. CASE Swallows
        BY <3>2, SMT DEF Swallows, Lost
      <3>. QED
        BY <1>2, <3>1, <3>2
    <2>3. /\ file[j] \subseteq handled[j] \cup Lost(j)
          /\ \A m \in Minds : ledger[m][j] \subseteq handled[j]
      BY Zenon
    <2>4. file'[j] = file[j] \/ (j = Job /\ file'[j] = file[j] \cup {Target})
      BY <2>1, WhatMarkedDoes, Zenon
    <2>5. \A m \in Minds : \/ ledger'[m][j] = ledger[m][j]
                           \/ /\ j = Job /\ j # Consolidate
                              /\ ledger'[m][j] = ledger[m][j] \cup {Target}
      BY <2>1, WhatMarkedDoes, Zenon
    <2>. QED
      BY <2>2, <2>3, <2>4, <2>5, SMT
  <1>3. CASE Closes
    BY <1>3, WhatClosesDoes, SMT DEF Lost
  <1>4. CASE Built
    BY <1>4, WhatBuiltDoes, SMT DEF Lost
  <1>. QED
    BY <1>1, <1>2, <1>3, <1>4, Zenon DEF Next, Rebuild, Restart

(* The night of a mind that was not rebuilt under it, and what it read.    *)
LEMMA OwnNightStep == ASSUME NightType, OwnNight, FileIsRead, [Next]_vars
                      PROVE  OwnNight' /\ FileIsRead'
  <1>. USE DEF OwnNight, FileIsRead
  <1>0. Others \subseteq Jobs /\ (\A j \in Others : j # Consolidate) /\ mind \in Minds
    BY SMT DEF Others, NightType, TypeOK
  <1>1. CASE DayEnds \/ Begins(TRUE) \/ Begins(FALSE) \/ Takes \/ Makes \/ UNCHANGED vars
    <2>1. UNCHANGED <<ledger, file, mind, outlived>>
      BY <1>1, Zenon DEF DayEnds, Begins, Takes, Makes, vars, history
    <2>2. CASE Begins(TRUE) \/ Begins(FALSE)
      <3>1. \E b \in BOOLEAN : Begins(b)
        BY <2>2, Zenon
      <3>2. ASSUME NEW b \in BOOLEAN, Begins(b) PROVE night'.of = mind
        BY <3>2, SMT DEF Begins, NoNight
      <3>. QED
        BY <2>1, <3>1, <3>2, Zenon
    <2>3. CASE DayEnds \/ Takes \/ Makes \/ UNCHANGED vars
      <3>1. night'.of = night.of /\ (night'.at # "none" => night.at # "none")
        BY <2>3, SMT DEF DayEnds, Takes, Makes, vars, NoNight, NightType, NightShape
      <3>. QED
        BY <2>1, <3>1, Zenon
    <2>. QED
      BY <1>1, <2>2, <2>3
  <1>2. CASE MovesOn
    <2>1. /\ night.at = "choosing" /\ night' = NextJob
          /\ UNCHANGED <<ledger, file, mind, outlived>>
      BY <1>2, Zenon DEF MovesOn, history
    <2>2. night'.of = night.of
      BY <2>1, NextJobNight, Zenon
    <2>. QED
      BY <2>1, <2>2, SMT
  <1>3. CASE Mark \/ Swallows
    <2>1. /\ night.at \in {"working", "written"} /\ Marked(Target) /\ night' = AfterMark
          /\ mind' = mind /\ outlived' = outlived
      BY <1>3, Zenon DEF Mark, Swallows
    <2>2. night'.of = night.of
      BY <2>1, AfterMarkNight, Zenon
    <2>3. \A j \in Others : /\ file'[j] = file[j]
                            /\ ledger[mind][j] \subseteq ledger'[mind][j]
      BY <1>0, <2>1, WhatMarkedDoes, SMT
    <2>. QED
      BY <2>1, <2>2, <2>3, SMT
  <1>4. CASE Fails \/ Evolves
    <2>1. /\ night.at \in {"working", "written", "evolving"}
          /\ night' = Billed \/ night' = [Billed EXCEPT !.touched = TRUE]
          /\ UNCHANGED <<ledger, file, mind, outlived>>
      BY <1>4, Zenon DEF Fails, Evolves, history
    <2>2. night'.of = night.of
      BY <2>1, BilledNight, Zenon
    <2>. QED
      BY <2>1, <2>2, SMT
  <1>5. CASE Interrupted
    BY <1>5, NoNightShape, SMT DEF Interrupted
  <1>6. CASE Closes
    <2>1. /\ night' = NoNight /\ night.at = "closing"
          /\ UNCHANGED <<ledger, mind, outlived>>
          /\ \A j \in Others : file'[j] = file[j] \/ file'[j] = ledger[night.of][j]
      BY <1>0, <1>6, WhatClosesDoes, SMT
    <2>. QED
      BY <2>1, NoNightShape, SMT
  <1>7. CASE Rebuild \/ Restart
    <2>1. Built
      BY <1>7, Zenon DEF Rebuild, Restart
    <2>2. \A j \in Others : file'[j] = file[j] /\ ledger'[mind'][j] = file[j]
      BY <1>0, <2>1, WhatBuiltDoes, SMT
    <2>3. outlived' \/ night' = NoNight
      BY <1>7, Zenon DEF Rebuild, Restart
    <2>. QED
      BY <2>2, <2>3, NoNightShape, SMT
  <1>. QED
    BY <1>1, <1>2, <1>3, <1>4, <1>5, <1>6, <1>7, Zenon DEF Next

(* Where nothing went wrong the day a job works is the day it was asked.   *)
LEMMA TargetIsAsked ==
    ASSUME NightType, OwnNight, OwedIsUnmarked, OldestFirst, NoFault,
           night.at \in {"working", "written"}
    PROVE  Target = Asked /\ Asked \in night.todo /\ Asked \in Days /\ Job \in Jobs
           /\ night.of = mind /\ Asked \notin Done(mind, Job)
  <1>1. /\ Job \in Jobs /\ Asked \in night.todo /\ \A d \in night.todo : Asked <= d
        /\ night.of \in Minds /\ 1 .. finished \subseteq Days
    BY AtHand, BacklogType
  <1>2. night.of = mind
    BY SMT DEF OwnNight, NoFault
  <1>3. AtWork /\ night.todo \subseteq 1 .. finished
    BY SMT DEF AtWork, NightType, NightShape
  <1>4. night.todo \cap Done(mind, Job) = {}
    BY <1>3, Zenon DEF OwedIsUnmarked
  <1>5. Target = Asked
    <2>1. CASE Job = Consolidate
      <3>. DEFINE B == Backlog(mind, Job)
      <3>1. B = (1 .. finished) \ Done(mind, Job)
        BY <2>1, NightAssumption, SMT DEF Backlog
      <3>2. Asked \in B /\ B \in SUBSET Nat /\ B # {}
        BY <1>1, <1>3, <1>4, <3>1, SMT
      <3>3. Min(B) \in B /\ \A y \in B : Min(B) <= y
        BY <3>2, MinIsLeast
      <3>4. \A b \in B \ night.todo : Asked < b
        BY <1>1, <1>3, <2>1, Zenon DEF OldestFirst
      <3>5. Asked \in Nat /\ Min(B) \in Nat
        BY <3>2, <3>3
      <3>6. Min(B) = Asked
        <4>1. Min(B) <= Asked
          BY <3>2, <3>3
        <4>2. Asked <= Min(B)
          BY <1>1, <3>3, <3>4, <3>5, SMT
        <4>. QED
          BY <3>5, <4>1, <4>2, SMT
      <3>. QED
        BY <1>2, <2>1, <3>2, <3>6, Zenon DEF Target
    <2>2. CASE Job # Consolidate
      BY <2>2, Zenon DEF Target
    <2>. QED
      BY <2>1, <2>2
  <1>. QED
    BY <1>1, <1>2, <1>3, <1>4, <1>5, SMT

(* What keeps a day from being worked twice.                              *)
RepeatInv == /\ OwnNight /\ FileIsRead
             /\ WorkedIsMarked /\ OwedIsUnmarked /\ OldestFirst /\ SavedUnlessTouched

(* One step per action; a step with a fault in it is excused at once.     *)
LEMMA RepeatStep == ASSUME NightType, RepeatInv, [Next]_vars
                    PROVE  WorkedIsMarked' /\ OwedIsUnmarked' /\ OldestFirst'
                           /\ SavedUnlessTouched'
  <1>. SUFFICES ASSUME NoFault, NoFault'
                PROVE  WorkedIsMarked' /\ OwedIsUnmarked' /\ OldestFirst'
                       /\ SavedUnlessTouched'
    <2>1. NoFault' => NoFault
      <3>1. faults \in Nat
        BY NightAssumption, SMT DEF NightType, TypeOK
      <3>2. faults' = faults \/ faults' = faults + 1
        BY SMT DEF Next, vars, history, DayEnds, Begins, MovesOn, Takes, Makes, Mark, Evolves,
                   Swallows, Fails, Interrupted, Closes, Rebuild, Restart
      <3>3. outlived => outlived'
        BY Zenon DEF Next, vars, history, DayEnds, Begins, MovesOn, Takes, Makes, Mark, Evolves,
                   Swallows, Fails, Interrupted, Closes, Rebuild, Restart
      <3>. QED
        BY <3>1, <3>2, <3>3, SMT DEF NoFault
    <2>. QED
      BY <2>1, Zenon DEF WorkedIsMarked, OwedIsUnmarked, OldestFirst, SavedUnlessTouched
  <1>. USE DEF RepeatInv
  <1>0. /\ Others \subseteq Jobs /\ (\A j \in Others : j # Consolidate) /\ mind \in Minds
        /\ finished \in Nat
    BY NightAssumption, SMT DEF Others, NightType, TypeOK
  <1>1. /\ \A j \in Jobs, d \in Days :
              /\ times[j][d] <= 1
              /\ times[j][d] = 1 => d \in Done(mind, j) \/ InHand(j, d)
        /\ night.at # "none" => night.of = mind
        /\ AtWork => night.todo \cap Done(mind, Job) = {}
        /\ AtWork /\ Job = Consolidate =>
              \A a \in night.todo, b \in Backlog(mind, Job) \ night.todo : a < b
        /\ night.at = "none" \/ ~night.touched =>
              \A j \in Others : ledger[mind][j] \subseteq file[j]
    BY Zenon DEF NoFault, OwnNight, WorkedIsMarked, OwedIsUnmarked, OldestFirst,
                 SavedUnlessTouched
  <1>2. CASE DayEnds
    <2>1. /\ finished' = finished + 1
          /\ UNCHANGED <<mind, ledger, file, night, times, handled, lost, faults, outlived>>
      BY <1>2, Zenon DEF DayEnds, history
    <2>2. (AtWork <=> AtWork') /\ Job' = Job /\ Asked' = Asked
      BY <2>1, Zenon DEF AtWork, Job, Asked
    <2>3. \A j : Done(mind, j)' = Done(mind, j)
      BY <2>1, Zenon DEF Done
    <2>4. WorkedIsMarked'
      BY <1>1, <2>1, <2>2, <2>3, Zenon DEF WorkedIsMarked, InHand
    <2>5. OwedIsUnmarked' /\ SavedUnlessTouched'
      BY <1>1, <2>1, <2>2, <2>3, Zenon DEF OwedIsUnmarked, SavedUnlessTouched
    <2>6. OldestFirst'
      <3>1. SUFFICES ASSUME AtWork, Job = Consolidate, NEW a \in night.todo,
                            NEW b \in Backlog(mind, Job)' \ night.todo
                     PROVE  a < b
        BY <2>1, <2>2, Zenon DEF OldestFirst
      <3>2. night.todo \subseteq 1 .. finished
        BY SMT DEF NightType, NightShape
      <3>3. b \in Backlog(mind, Job) \ night.todo \/ b = finished + 1
        BY <1>0, <2>1, <2>2, <2>3, <3>1, NightAssumption, SMT DEF Backlog
      <3>. QED
        BY <1>0, <1>1, <3>1, <3>2, <3>3, SMT
    <2>. QED
      BY <2>4, <2>5, <2>6
  <1>3. ASSUME NEW byHand \in BOOLEAN, Begins(byHand)
        PROVE  WorkedIsMarked' /\ OwedIsUnmarked' /\ OldestFirst' /\ SavedUnlessTouched'
    <2>1. /\ night.at = "none" /\ night'.at = "choosing" /\ night'.job = 1
          /\ night'.of = mind /\ night'.todo = Backlog(mind, Roster[1])
          /\ night'.touched = FALSE
      BY <1>3, SMT DEF Begins, NoNight
    <2>2. UNCHANGED <<finished, mind, ledger, file, times, handled, lost, faults, outlived>>
      BY <1>3, Zenon DEF Begins, history
    <2>3. Job' = Roster[1] /\ Roster[1] \in Jobs
      BY <2>1, RosterOfJobs, SMT DEF Job
    <2>4. \A j : Done(mind, j)' = Done(mind, j) /\ Backlog(mind, j)' = Backlog(mind, j)
      BY <2>2, Zenon DEF Done, Backlog
    <2>5. Backlog(mind, Roster[1]) \cap Done(mind, Roster[1]) = {}
      BY <1>0, <2>3, BacklogType
    <2>6. WorkedIsMarked'
      BY <1>1, <2>1, <2>2, <2>4, Zenon DEF WorkedIsMarked, InHand
    <2>7. OwedIsUnmarked' /\ OldestFirst'
      BY <2>1, <2>2, <2>3, <2>4, <2>5, Zenon DEF OwedIsUnmarked, OldestFirst
    <2>8. SavedUnlessTouched'
      BY <1>1, <2>1, <2>2, Zenon DEF SavedUnlessTouched
    <2>. QED
      BY <2>6, <2>7, <2>8
  <1>4. CASE MovesOn
    <2>1. night.at = "choosing" /\ night' = NextJob
          /\ UNCHANGED <<finished, mind, ledger, file, times, handled, lost, faults, outlived>>
      BY <1>4, Zenon DEF MovesOn, history
    <2>2. night.of = mind
      BY <1>1, <2>1, Zenon
    <2>3. \A j : Done(mind, j)' = Done(mind, j) /\ Backlog(mind, j)' = Backlog(mind, j)
      BY <2>1, Zenon DEF Done, Backlog
    <2>4. /\ night'.touched = night.touched /\ night'.at # "none" /\ night'.at # "written"
          /\ AtWork' => /\ Job' \in Jobs
                        /\ night'.todo = Backlog(mind, Job')
      BY <2>1, <2>2, NextJobNight, SMT DEF AtWork, Job
    <2>5. WorkedIsMarked'
      BY <1>1, <2>1, <2>3, <2>4, SMT DEF WorkedIsMarked, InHand
    <2>6. AtWork' => Backlog(mind, Job') \cap Done(mind, Job') = {}
      BY <1>0, <2>4, BacklogType
    <2>7. AtWork' => /\ Done(mind, Job)' = Done(mind, Job')
                     /\ Backlog(mind, Job)' = Backlog(mind, Job')
      BY <2>3
    <2>8. OwedIsUnmarked' /\ OldestFirst'
      BY <2>1, <2>4, <2>6, <2>7, Zenon DEF OwedIsUnmarked, OldestFirst
    <2>9. SavedUnlessTouched'
      BY <1>1, <2>1, <2>4, Zenon DEF SavedUnlessTouched
    <2>. QED
      BY <2>5, <2>8, <2>9
  <1>5. CASE Takes \/ UNCHANGED vars
    <2>1. /\ UNCHANGED <<finished, mind, ledger, file, times, handled, lost, faults, outlived>>
          /\ AtWork' <=> AtWork
          /\ night'.todo = night.todo /\ night'.job = night.job /\ night'.touched = night.touched
          /\ night'.at = "none" <=> night.at = "none"
          /\ night'.at = "written" <=> night.at = "written"
      BY <1>5, SMT DEF Takes, vars, history, AtWork, NightType, NightShape, NoNight
    <2>2. \A j : Done(mind, j)' = Done(mind, j) /\ Backlog(mind, j)' = Backlog(mind, j)
      BY <2>1, Zenon DEF Done, Backlog
    <2>3. Job' = Job /\ Asked' = Asked
      BY <2>1, Zenon DEF Job, Asked
    <2>4. WorkedIsMarked'
      BY <1>1, <2>1, <2>2, <2>3, Zenon DEF WorkedIsMarked, InHand
    <2>5. OwedIsUnmarked' /\ OldestFirst'
      BY <1>1, <2>1, <2>2, <2>3, Zenon DEF OwedIsUnmarked, OldestFirst
    <2>6. SavedUnlessTouched'
      BY <1>1, <2>1, Zenon DEF SavedUnlessTouched
    <2>. QED
      BY <2>4, <2>5, <2>6
  <1>6. CASE Makes
    <2>1. /\ night.at = "working" /\ night' = [night EXCEPT !.at = "written"]
          /\ times' = [times EXCEPT ![Job][Target] = @ + 1]
          /\ UNCHANGED <<finished, mind, ledger, file, handled, lost, faults, outlived>>
      BY <1>6, Zenon DEF Makes
    <2>2. /\ Target = Asked /\ Asked \in night.todo /\ Asked \in Days /\ Job \in Jobs
          /\ Asked \notin Done(mind, Job)
      BY <2>1, TargetIsAsked
    <2>3. /\ night'.at = "written" /\ night'.todo = night.todo /\ night'.job = night.job
          /\ night'.touched = night.touched
      BY <2>1, SMT DEF NightType, NightShape, NoNight
    <2>4. \A j : Done(mind, j)' = Done(mind, j) /\ Backlog(mind, j)' = Backlog(mind, j)
      BY <2>1, Zenon DEF Done, Backlog
    <2>5. Job' = Job /\ Asked' = Asked /\ AtWork /\ AtWork'
      BY <2>1, <2>3, SMT DEF Job, Asked, AtWork
    <2>6. WorkedIsMarked'
      <3>1. times[Job][Asked] = 0
        <4>1. times[Job][Asked] \in Nat /\ times[Job][Asked] <= 1
          BY <1>1, <2>2, SMT DEF NightType, TypeOK
        <4>2. times[Job][Asked] # 1
          BY <1>1, <2>1, <2>2, SMT DEF InHand
        <4>. QED
          BY <4>1, <4>2, SMT
      <3>2. ASSUME NEW j \in Jobs, NEW d \in Days
            PROVE  IF j = Job /\ d = Asked THEN times'[j][d] = 1
                   ELSE times'[j][d] = times[j][d]
        BY <2>1, <2>2, <3>1, <3>2, SMT DEF NightType, TypeOK
      <3>. QED
        BY <1>1, <2>1, <2>3, <2>4, <2>5, <3>2, SMT DEF WorkedIsMarked, InHand
    <2>7. OwedIsUnmarked' /\ OldestFirst'
      BY <1>1, <2>1, <2>3, <2>4, <2>5, Zenon DEF OwedIsUnmarked, OldestFirst
    <2>8. SavedUnlessTouched'
      BY <1>1, <2>1, <2>3, SMT DEF SavedUnlessTouched
    <2>. QED
      BY <2>6, <2>7, <2>8
  <1>7. CASE Mark
    <2>1. /\ night.at = "written" /\ Marked(Target)
          /\ UNCHANGED <<finished, mind, times, lost, faults, outlived>>
          /\ night'.at \in {"choosing", "evolving"} /\ night'.job = night.job
          /\ night'.todo = night.todo \ {Asked}
          /\ Job # Consolidate => night'.touched
          /\ Job = Consolidate => night'.touched = night.touched
      BY <1>7, WhatMarkDoes, Zenon
    <2>2. /\ Target = Asked /\ Asked \in night.todo /\ Asked \in Days /\ Job \in Jobs
          /\ night.of = mind
      BY <2>1, TargetIsAsked
    <2>3. Job' = Job /\ AtWork
      BY <2>1, Zenon DEF Job, AtWork
    <2>4. \A j \in Jobs : Done(mind, j)' = IF j = Job THEN Done(mind, j) \cup {Asked}
                                           ELSE Done(mind, j)
      <3>1. SUFFICES ASSUME NEW j \in Jobs
                     PROVE  Done(mind, j)' = IF j = Job THEN Done(mind, j) \cup {Asked}
                                             ELSE Done(mind, j)
        OBVIOUS
      <3>2. CASE j = Consolidate
        <4>1. IF j = Job THEN file'[j] = file[j] \cup {Asked} ELSE file'[j] = file[j]
          BY <2>1, <2>2, <3>2, WhatMarkedDoes, Zenon
        <4>. QED
          BY <3>2, <4>1, SMT DEF Done
      <3>3. CASE j # Consolidate
        <4>1. IF j = Job THEN ledger'[mind][j] = ledger[mind][j] \cup {Asked}
              ELSE ledger'[mind][j] = ledger[mind][j]
          BY <1>0, <2>1, <2>2, <3>3, WhatMarkedDoes, Zenon
        <4>. QED
          BY <2>1, <3>3, <4>1, SMT DEF Done
      <3>. QED
        BY <3>2, <3>3
    <2>5. WorkedIsMarked'
      <3>1. SUFFICES ASSUME NEW j \in Jobs, NEW d \in Days, times[j][d] = 1
                     PROVE  d \in Done(mind, j)'
        BY <1>1, <2>1, Zenon DEF WorkedIsMarked
      <3>2. d \in Done(mind, j) \/ (j = Job /\ d = Asked)
        BY <1>1, <3>1, Zenon DEF InHand
      <3>. QED
        BY <2>4, <3>2, SMT
    <2>6. Done(mind, Job)' = Done(mind, Job) \cup {Asked}
      BY <2>2, <2>3, <2>4, SMT
    <2>7. OwedIsUnmarked'
      BY <1>1, <2>1, <2>3, <2>6, SMT DEF OwedIsUnmarked
    <2>8. OldestFirst'
      <3>1. SUFFICES ASSUME Job = Consolidate, NEW a \in night.todo \ {Asked},
                            NEW b \in Backlog(mind, Job)' \ (night.todo \ {Asked})
                     PROVE  a < b
        BY <2>1, <2>3, Zenon DEF OldestFirst
      <3>2. Backlog(mind, Job)' = Backlog(mind, Job) \ {Asked}
        BY <2>1, <2>3, <2>6, SMT DEF Backlog
      <3>. QED
        BY <1>1, <2>3, <3>1, <3>2, SMT
    <2>9. SavedUnlessTouched'
      <3>1. CASE Job = Consolidate
        <4>1. \A j \in Others : file'[j] = file[j] /\ ledger'[mind][j] = ledger[mind][j]
          BY <1>0, <2>1, <3>1, WhatMarkedDoes, SMT
        <4>. QED
          BY <1>1, <2>1, <3>1, <4>1, SMT DEF SavedUnlessTouched
      <3>2. CASE Job # Consolidate
        BY <2>1, <3>2, SMT DEF SavedUnlessTouched
      <3>. QED
        BY <3>1, <3>2
    <2>. QED
      BY <2>5, <2>7, <2>8, <2>9
  <1>11. CASE Evolves
    <2>1. /\ night.at = "evolving" /\ night' = [Billed EXCEPT !.touched = TRUE]
          /\ UNCHANGED <<finished, mind, ledger, file, times, handled, lost, faults, outlived>>
      BY <1>11, Zenon DEF Evolves, history
    <2>2. /\ night'.at = "choosing" /\ night'.job = night.job /\ night'.todo = night.todo
          /\ night'.touched
      BY <2>1, BilledNight, SMT DEF Rest
    <2>3. \A j : Done(mind, j)' = Done(mind, j) /\ Backlog(mind, j)' = Backlog(mind, j)
      BY <2>1, Zenon DEF Done, Backlog
    <2>4. Job' = Job /\ AtWork
      BY <2>1, <2>2, Zenon DEF Job, AtWork
    <2>5. WorkedIsMarked'
      BY <1>1, <2>1, <2>3, SMT DEF WorkedIsMarked, InHand
    <2>6. OwedIsUnmarked' /\ OldestFirst'
      BY <1>1, <2>1, <2>2, <2>3, <2>4, Zenon DEF OwedIsUnmarked, OldestFirst
    <2>7. SavedUnlessTouched'
      BY <2>2, SMT DEF SavedUnlessTouched
    <2>. QED
      BY <2>5, <2>6, <2>7
  <1>8. CASE Closes
    <2>1. /\ night.at = "closing" /\ night' = NoNight
          /\ UNCHANGED <<finished, mind, ledger, times, handled, lost, faults, outlived>>
      BY <1>8, WhatClosesDoes
    <2>2. night.of = mind
      BY <1>1, <2>1, Zenon
    <2>3. Consolidate \in Jobs => file'[Consolidate] = file[Consolidate]
      BY <1>8, WhatClosesDoes, SMT
    <2>4. \A j \in Jobs : Done(mind, j)' = Done(mind, j)
      BY <2>1, <2>3, NightAssumption, SMT DEF Done
    <2>5. WorkedIsMarked'
      BY <1>1, <2>1, <2>4, SMT DEF WorkedIsMarked, InHand
    <2>6. OwedIsUnmarked' /\ OldestFirst'
      BY <2>1, NoNightShape, SMT DEF OwedIsUnmarked, OldestFirst, AtWork
    <2>7. SavedUnlessTouched'
      <3>1. ASSUME NEW j \in Others PROVE ledger[mind][j] \subseteq file'[j]
        <4>1. CASE night.touched
          BY <1>0, <1>8, <2>2, <4>1, WhatClosesDoes, SMT
        <4>2. CASE ~night.touched
          BY <1>0, <1>1, <1>8, <4>2, WhatClosesDoes, SMT
        <4>. QED
          BY <4>1, <4>2
      <3>. QED
        BY <2>1, <3>1, Zenon DEF SavedUnlessTouched
    <2>. QED
      BY <2>5, <2>6, <2>7
  <1>9. CASE Rebuild
    <2>1. night.at = "none" /\ night' = NoNight /\ Built
      <3>1. faults \in Nat /\ faults' = 0 /\ faults = 0 /\ ~outlived'
        BY SMT DEF NoFault
      <3>. QED
        BY <1>9, <3>1, SMT DEF Rebuild
    <2>2. /\ mind' = mind + 1 /\ UNCHANGED <<finished, file, times, handled, lost>>
          /\ \A j \in Jobs : j # Consolidate => ledger'[mind'][j] = file[j]
      BY <2>1, WhatBuiltDoes, SMT
    <2>3. \A j \in Others : ledger[mind][j] \subseteq file[j]
      BY <1>1, <2>1
    <2>4. \A j \in Jobs : Done(mind, j) \subseteq Done(mind, j)'
      <3>1. ASSUME NEW j \in Jobs PROVE Done(mind, j) \subseteq Done(mind, j)'
        <4>1. CASE j = Consolidate
          BY <2>2, <4>1, SMT DEF Done
        <4>2. CASE j # Consolidate
          <5>1. Done(mind, j)' = file[j] /\ Done(mind, j) = ledger[mind][j]
            BY <2>2, <4>2, SMT DEF Done
          <5>. QED
            BY <2>3, <4>2, <5>1, SMT DEF Others
        <4>. QED
          BY <4>1, <4>2
      <3>. QED
        BY <3>1
    <2>5. WorkedIsMarked'
      BY <1>1, <2>1, <2>2, <2>4, SMT DEF WorkedIsMarked, InHand
    <2>6. OwedIsUnmarked' /\ OldestFirst'
      BY <2>1, NoNightShape, SMT DEF OwedIsUnmarked, OldestFirst, AtWork
    <2>7. SavedUnlessTouched'
      BY <1>0, <2>2, SMT DEF SavedUnlessTouched
    <2>. QED
      BY <2>5, <2>6, <2>7
  <1>10. CASE Swallows \/ Fails \/ Interrupted \/ Restart
    <2>1. faults' = faults + 1
      BY <1>10, Zenon DEF Swallows, Fails, Interrupted, Restart
    <2>. QED
      BY <2>1, SMT DEF NoFault
  <1>. QED
    BY <1>2, <1>3, <1>4, <1>5, <1>6, <1>7, <1>8, <1>9, <1>10, <1>11, Zenon DEF Next

(* All that is kept of a night, and why it stays.                         *)
NightInv == NightType /\ MarkedWasHandled /\ RepeatInv

LEMMA NightInvInit == Init => NightInv
  <1>. SUFFICES ASSUME Init PROVE NightInv
    OBVIOUS
  <1>1. NightType
    BY NightInit
  <1>2. /\ night.at = "none" /\ night.at # "written" /\ ~AtWork
        /\ mind \in Minds /\ Others \subseteq Jobs
    BY <1>1, NoNightShape, SMT DEF Init, AtWork, NightType, TypeOK, Others
  <1>3. /\ \A m \in Minds, j \in Jobs : ledger[m][j] = {}
        /\ \A j \in Jobs : file[j] = {} /\ handled[j] = {}
        /\ \A j \in Jobs, d \in Days : times[j][d] = 0
    BY SMT DEF Init, Nothing
  <1>4. MarkedWasHandled
    BY <1>3, SMT DEF MarkedWasHandled
  <1>5. OwnNight /\ OwedIsUnmarked /\ OldestFirst
    BY <1>2, SMT DEF OwnNight, OwedIsUnmarked, OldestFirst
  <1>6. FileIsRead /\ SavedUnlessTouched
    BY <1>2, <1>3, SMT DEF FileIsRead, SavedUnlessTouched
  <1>7. WorkedIsMarked
    BY <1>3, SMT DEF WorkedIsMarked
  <1>. QED
    BY <1>1, <1>4, <1>5, <1>6, <1>7 DEF NightInv, RepeatInv

LEMMA NightInvHolds == Spec => []NightInv
  <1>1. NightInv /\ [Next]_vars => NightInv'
    BY NightTypeStep, MarkedStep, OwnNightStep, RepeatStep DEF NightInv, RepeatInv
  <1>. QED
    BY NightInvInit, <1>1, PTL DEF Spec

(* Every variable of DREAM keeps its type, and a tick's night is the      *)
(* living mind's (DreamRunner.run, Runtime.set_mind_enabled).             *)
THEOREM NightTypeCorrect == Spec => []TypeOK
  BY NightInvHolds, PTL DEF NightInv, NightType

(* A day is marked for a job, in any runner's memory and on file, only    *)
(* when that job was done whole for it, or when consolidation's own model *)
(* call had failed for it (JobLedger.mark, DreamConsolidator.consolidate, *)
(* SPEC 21.2), for every roster, budget and number of days, minds and     *)
(* failures.                                                              *)
THEOREM MarksAreEarned == Spec => []MarkedWasHandled
  BY NightInvHolds, PTL DEF NightInv

(* A day is worked a second time only after a failed or interrupted job, a*)
(* restart, or a night that outlived its mind (DreamRunner._run,          *)
(* JobLedger.save and __init__).                                          *)
THEOREM NoDayIsWorkedTwice == Spec => []RepeatedOnlyAfterFault
  <1>1. NightInv => RepeatedOnlyAfterFault
    <2>. SUFFICES ASSUME NightInv, NEW j \in Jobs, NEW d \in Days, times[j][d] > 1
                  PROVE  faults > 0 \/ outlived
      BY Zenon DEF RepeatedOnlyAfterFault
    <2>1. faults \in Nat /\ times[j][d] \in Nat
      BY NightAssumption, SMT DEF NightInv, NightType, TypeOK
    <2>2. ~NoFault
      BY <2>1, SMT DEF NightInv, RepeatInv, WorkedIsMarked
    <2>. QED
      BY <2>1, <2>2, SMT DEF NoFault
  <1>. QED
    BY NightInvHolds, <1>1, PTL

(* No save takes a mark off the file, unless a night outlived its mind    *)
(* (JobLedger.save).                                                      *)
THEOREM MarksStay == Spec => MarksAreKept
  <1>1. NightInv /\ [Next]_vars => [outlived \/ \A j \in Jobs : file[j] \subseteq file'[j]]_vars
    <2>. SUFFICES ASSUME NightInv, Next, ~outlived, NEW j \in Jobs
                  PROVE  file[j] \subseteq file'[j]
      BY Zenon
    <2>. USE DEF NightInv, RepeatInv
    <2>1. CASE Mark \/ Swallows
      <3>1. night.at \in {"working", "written"} /\ Marked(Target)
        BY <2>1, Zenon DEF Mark, Swallows
      <3>. QED
        BY <3>1, WhatMarkedDoes, SMT
    <2>2. CASE Closes
      <3>1. night.at = "closing" /\ night.of = mind
        BY <2>2, WhatClosesDoes, SMT DEF OwnNight
      <3>2. j # Consolidate => file[j] \subseteq ledger[mind][j]
        BY SMT DEF FileIsRead, Others
      <3>. QED
        BY <2>2, <3>1, <3>2, WhatClosesDoes, SMT
    <2>3. CASE ~Mark /\ ~Swallows /\ ~Closes
      <3>1. file' = file
        BY <2>3, Zenon DEF Next, DayEnds, Begins, MovesOn, Takes, Makes, Evolves, Fails,
                           Interrupted, Rebuild, Restart, Built, history
      <3>. QED
        BY <3>1, Zenon
    <2>. QED
      BY <2>1, <2>2, <2>3
  <1>. QED
    BY NightInvHolds, <1>1, PTL DEF Spec, MarksAreKept
=============================================================================
