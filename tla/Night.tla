--------------------------------- MODULE Night ---------------------------------
(***************************************************************************)
(* DREAM (mind/dreamjobs/runner.py, mind/dream.py): a night runs every job *)
(* in priority order over the finished days it still owes, within a token  *)
(* budget of which there are two, one for each lane.  A night is the tick's*)
(* or one asked for by hand, and one runs at a time; it is chunked, and the*)
(* next one picks up where it stopped.  What a job has done is marked in   *)
(* the memory of the runner and saved when the night ends; consolidation   *)
(* keeps a progress file of its own, which it writes whether its model call*)
(* answered or failed.                                                     *)
(*                                                                         *)
(* A mind may be switched off and built again, or die: the runner of the   *)
(* new one reads the file.  The prompts, what is written and a night pinned*)
(* to a day by hand are left out.                                          *)
(***************************************************************************)
EXTENDS Naturals, Sequences, FiniteSetsExt

CONSTANTS
    Roster,             \* the jobs, in priority order
    Consolidate,        \* the job that keeps its own progress (owns_ledger)
    Once,               \* jobs that look at the latest finished day only
    Own,                \* jobs billed to the research budget (own_budget)
    Cost,               \* what one day of each job costs
    Ceiling,            \* of each lane's budget
    MaxDays,            \* bound on the days that finish
    MaxMinds,           \* bound on the minds built
    MaxFaults           \* bound on failed and interrupted jobs

Jobs == {Roster[i] : i \in DOMAIN Roster}
Days == 1 .. MaxDays
Minds == 1 .. MaxMinds

ASSUME NightAssumption ==
    /\ Roster \in Seq(Jobs)
    /\ Consolidate \in Jobs /\ Once \subseteq Jobs /\ Own \subseteq Jobs
    /\ Consolidate \notin Once
    /\ Cost \in [Jobs -> Nat \ {0}] /\ Ceiling \in [BOOLEAN -> Nat]
    /\ {MaxDays, MaxFaults} \subseteq Nat /\ MaxMinds \in Nat \ {0}

VARIABLES
    finished,           \* how many days have a closed journal
    mind,               \* the mind that is on, counted from 1
    ledger,             \* JobLedger._data: what each mind's runner has marked
    file,               \* dream_jobs.json, and dream_progress.json
    night               \* the night that holds _NIGHT_LOCK

(* History: how often a job did its work for a day, and the work done whole;*)
(* days consolidation marked though its model call had failed; faults so   *)
(* far; whether a night outlived its mind.                                 *)
VARIABLES times, handled, lost, faults, outlived

history == <<times, handled, lost, faults, outlived>>
vars == <<finished, mind, ledger, file, night, history>>

NoNight == [at |-> "none", of |-> 0, byHand |-> FALSE, job |-> 1, todo |-> {},
            spent |-> [own \in BOOLEAN |-> 0], touched |-> FALSE]

Marks == [Jobs -> SUBSET Days]
Nothing == [j \in Jobs |-> {}]

(* The types, and that a tick's night is the living mind's.                *)
TypeOK ==
    /\ finished \in 0 .. MaxDays /\ mind \in Minds
    /\ ledger \in [Minds -> Marks] /\ file \in Marks
    /\ night.at \in {"none", "choosing", "working", "written", "evolving", "closing"}
    /\ night.at # "none" => /\ night.of \in 1 .. mind
                            /\ night.byHand \/ night.of = mind
                            /\ night.job \in 1 .. Len(Roster) + 1
    /\ times \in [Jobs -> [Days -> Nat]] /\ handled \in Marks /\ lost \subseteq Days
    /\ faults \in 0 .. MaxFaults /\ outlived \in BOOLEAN

Init == /\ finished = 0 /\ mind = 1
        /\ ledger = [m \in Minds |-> Nothing]
        /\ file = Nothing
        /\ night = NoNight
        /\ times = [j \in Jobs |-> [d \in Days |-> 0]]
        /\ handled = Nothing /\ lost = {}
        /\ faults = 0 /\ outlived = FALSE

-----------------------------------------------------------------------------
(* What a job owes: the days nobody marked, of a job that runs once a night*)
(* only the latest.  Consolidation reads its progress file.                *)
Done(m, j) == IF j = Consolidate THEN file[j] ELSE ledger[m][j]

Backlog(m, j) ==
    (IF j \in Once /\ finished > 0 THEN {finished} ELSE 1 .. finished) \ Done(m, j)

DayEnds == /\ finished < MaxDays
           /\ finished' = finished + 1
           /\ UNCHANGED <<mind, ledger, file, night, history>>

(* The ladder goes to DREAM while a job owes a day; by hand, at any time.  *)
Begins(byHand) ==
    /\ night.at = "none"
    /\ byHand \/ \E j \in Jobs : Backlog(mind, j) # {}
    /\ night' = [NoNight EXCEPT !.at = "choosing", !.of = mind, !.byHand = byHand,
                     !.todo = Backlog(mind, Roster[1])]
    /\ UNCHANGED <<finished, mind, ledger, file, history>>

Job == Roster[night.job]
Lane == Job \in Own

(* To the next job, or the end of the night.                               *)
NextJob == IF night.job = Len(Roster)
           THEN [night EXCEPT !.at = "closing", !.job = @ + 1, !.todo = {}]
           ELSE [night EXCEPT !.job = @ + 1,
                     !.todo = Backlog(night.of, Roster[night.job + 1])]

OverCeiling == night.spent[Lane] + Cost[Job] > Ceiling[Lane]

(* The first item of a lane runs however big it is.                        *)
OverBudget == night.spent[Lane] > 0 /\ OverCeiling

MovesOn == /\ night.at = "choosing"
           /\ night.todo = {} \/ OverBudget
           /\ night' = NextJob
           /\ UNCHANGED <<finished, mind, ledger, file, history>>

Takes == /\ night.at = "choosing"
         /\ night.todo # {} /\ ~OverBudget
         /\ night' = [night EXCEPT !.at = "working"]
         /\ UNCHANGED <<finished, mind, ledger, file, history>>

(* The days of a job are asked of it oldest first; consolidation takes its *)
(* oldest day, whichever it was asked for.                                 *)
Asked == Min(night.todo)

Target == IF Job = Consolidate /\ Backlog(night.of, Job) # {}
          THEN Min(Backlog(night.of, Job)) ELSE Asked

(* What the job makes is in the Vault before its day is marked.            *)
Makes == /\ night.at = "working"
         /\ times' = [times EXCEPT ![Job][Target] = @ + 1]
         /\ night' = [night EXCEPT !.at = "written"]
         /\ UNCHANGED <<finished, mind, ledger, file, handled, lost, faults, outlived>>

(* The days left to ask of the job, and the night once this one is paid.   *)
Rest == IF night.at = "evolving" THEN night.todo ELSE night.todo \ {Asked}
Billed == [night EXCEPT !.at = "choosing", !.todo = Rest, !.spent[Lane] = @ + Cost[Job]]

Marked(day) ==
    IF Job = Consolidate
    THEN file' = [file EXCEPT ![Job] = @ \cup {day}] /\ UNCHANGED ledger
    ELSE ledger' = [ledger EXCEPT ![night.of][Job] = @ \cup {day}] /\ UNCHANGED file

(* The runner marks what a job hands back; consolidation has marked its day*)
(* itself by then, and goes on to the partner's page (_evolve_partner).    *)
AfterMark == IF Job = Consolidate THEN [night EXCEPT !.at = "evolving", !.todo = Rest]
             ELSE [Billed EXCEPT !.touched = TRUE]

Mark == /\ night.at = "written"
        /\ Marked(Target)
        /\ handled' = [handled EXCEPT ![Job] = @ \cup {Target}]
        /\ night' = AfterMark
        /\ UNCHANGED <<finished, mind, times, lost, faults, outlived>>

Evolves == /\ night.at = "evolving"
           /\ night' = [Billed EXCEPT !.touched = TRUE]
           /\ UNCHANGED <<finished, mind, ledger, file, history>>

(* A summary that fails, but for a busy model, is a day with no facts.     *)
Swallows == /\ faults < MaxFaults /\ faults' = faults + 1
            /\ night.at = "working" /\ Job = Consolidate
            /\ Marked(Target)
            /\ lost' = lost \cup {Target}
            /\ night' = AfterMark
            /\ UNCHANGED <<finished, mind, times, handled, outlived>>

(* A job that raises before its day is marked keeps it for the next night, *)
(* and costs as much.                                                      *)
FailsAndIsMarked ==
    /\ faults < MaxFaults /\ faults' = faults + 1
    /\ night.at \in {"working", "written"}
    /\ Marked(Target)
    /\ night' = AfterMark
    /\ UNCHANGED <<finished, mind, times, handled, lost, outlived>>

Fails == /\ faults < MaxFaults /\ faults' = faults + 1
         /\ night.at \in {"working", "written", "evolving"}
         /\ night' = Billed
         /\ UNCHANGED <<finished, mind, ledger, file, times, handled, lost, outlived>>

(* A busy model ends the night without a save; so does a cancelled request.*)
Interrupted == /\ faults < MaxFaults /\ faults' = faults + 1
               /\ night.at \in {"working", "written", "evolving"}
               /\ night' = NoNight
               /\ UNCHANGED <<finished, mind, ledger, file, times, handled, lost, outlived>>

Saved == [j \in Jobs |-> IF j = Consolidate THEN file[j] ELSE ledger[night.of][j]]

ForgetsToSave == /\ night.at = "closing"
                 /\ night' = NoNight
                 /\ UNCHANGED <<finished, mind, ledger, file, history>>

Closes == /\ night.at = "closing"
          /\ file' = IF night.touched THEN Saved ELSE file
          /\ night' = NoNight
          /\ UNCHANGED <<finished, mind, ledger, history>>

-----------------------------------------------------------------------------
(* The mind is switched off and built again: the tick is cancelled, a night*)
(* by hand goes on in the runner it has.  A process that dies takes both.  *)
Built == /\ mind < MaxMinds
         /\ mind' = mind + 1
         /\ ledger' = [ledger EXCEPT ![mind + 1] =
                          [j \in Jobs |-> IF j = Consolidate THEN {} ELSE file[j]]]
         /\ UNCHANGED <<finished, file, times, handled, lost>>

RebuildUnderANight == /\ Built
                      /\ outlived' = (outlived \/ night.at # "none")
                      /\ UNCHANGED <<night, faults>>

Rebuild == /\ Built
           /\ IF night.at # "none" /\ night.byHand
              THEN outlived' = TRUE /\ UNCHANGED <<night, faults>>
              ELSE /\ night' = NoNight
                   /\ UNCHANGED outlived
                   /\ faults' = IF night.at = "none" THEN faults ELSE faults + 1
           /\ faults' <= MaxFaults

Restart == /\ Built
           /\ faults < MaxFaults /\ faults' = faults + 1
           /\ night' = NoNight
           /\ UNCHANGED outlived

Next == \/ DayEnds \/ Begins(TRUE) \/ Begins(FALSE) \/ MovesOn \/ Takes
        \/ Makes \/ Mark \/ Evolves \/ Swallows \/ Fails \/ Interrupted
        \/ Closes \/ Rebuild \/ Restart

Spec == Init /\ [][Next]_vars

(* The ladder comes round every night, and model calls return.             *)
Fairness == /\ SF_vars(Begins(FALSE))
            /\ WF_vars(MovesOn \/ Takes) /\ WF_vars(Makes \/ Mark \/ Evolves)
            /\ WF_vars(Closes)

FairSpec == Spec /\ Fairness

-----------------------------------------------------------------------------
(* What a job may be owed and never get.                                   *)
Lost(j) == IF j = Consolidate THEN lost ELSE {}

(* A job that raises is tried again (SPEC 21.2): a day is marked, in any   *)
(* runner's memory and on file, only when its job was done whole, but for  *)
(* the days consolidation marked itself when its model call had failed.    *)
MarkedWasHandled ==
    \A j \in Jobs : /\ file[j] \subseteq handled[j] \cup Lost(j)
                    /\ \A m \in Minds : ledger[m][j] \subseteq handled[j]

(* A day is worked a second time only for a reason: a job that failed, a   *)
(* night cut short, a restart before the save, a night of an older mind.   *)
RepeatedOnlyAfterFault ==
    \A j \in Jobs, d \in Days : times[j][d] > 1 => faults > 0 \/ outlived

(* What is on file is done for good: no save takes a mark back, but for one*)
(* of two minds' runners that wrote over the other's.                      *)
MarksAreKept == [][outlived \/ \A j \in Jobs : file[j] \subseteq file'[j]]_vars

(* The backlog never wedges: every finished day is handled by every job    *)
(* that owes one, however costly, whatever the jobs before it cost, unless *)
(* consolidation lost it to a failed summary.                              *)
EveryDayIsHandled ==
    \A j \in Jobs \ Once, d \in Days : finished >= d ~> d \in handled[j] \cup Lost(j)

(* What dream.py says of a summary that fails: it leaves the backlog       *)
(* intact.  Not so: consolidate() marks the day, and it is not owed again. *)
FailureKeepsItsDay == lost \subseteq Backlog(mind, Consolidate)
=============================================================================
