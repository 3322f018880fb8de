----------------------------- MODULE VaultCommits -----------------------------
(***************************************************************************)
(* The history of a Vault (mind/vaultio.py, app/vaultgit.py).  Everything  *)
(* she keeps is a file in one git repository, written at once; what waits  *)
(* is the history entry, one a day, decided by the age of HEAD.  The mind's*)
(* writers set a dirty flag and commit_if_dirty() runs git in a thread     *)
(* under a lock; a chat turn and a `forget` call git with neither.  A      *)
(* person's own edit is committed at once, under its own message.          *)
(*                                                                         *)
(* A writer's edits are one change, pending until a commit takes it in.    *)
(* Two git processes may meet at index.lock, and then one of them fails.   *)
(***************************************************************************)
EXTENDS Naturals, FiniteSets

CONSTANTS
    Ticks,              \* writers of the mind that wait out the window
    Routes,             \* a person's edits through MindVault, now=True
    Turns,              \* chat turns, which call vaultgit.commit themselves
    Forgets,            \* a person's `forget`, likewise, now=True
    None,               \* nobody
    MaxFails            \* bound on git failures and crashes

Flagged == Ticks \cup Routes
Writers == Flagged \cup Turns \cup Forgets
Now == Routes \cup Forgets

ASSUME VaultAssumption ==
    /\ Flagged \cap (Turns \cup Forgets) = {} /\ Ticks \cap Routes = {}
    /\ Turns \cap Forgets = {}
    /\ None \notin Writers
    /\ MaxFails \in Nat

VARIABLES
    pending,            \* writers whose change no commit holds
    staged,             \* the index: changes added since HEAD
    fresh,              \* HEAD is younger than COMMIT_INTERVAL_S
    dirty,              \* MindVault._dirty
    lock,               \* who holds _commit_lock
    at                  \* where each writer's commit is

(* History: fails so far; changes the window let wait, or a crash; of those*)
(* a person's, where another's commit had just cleared the flag; whose git *)
(* failed last.                                                            *)
VARIABLES fails, waived, swept, failed

vaultHistory == <<fails, waived, swept, failed>>
vaultVars == <<pending, staged, fresh, dirty, lock, at, vaultHistory>>

(* The types, and that git runs under the lock for those who take it.      *)
VaultTypeOK ==
    /\ pending \subseteq Writers /\ staged \subseteq pending
    /\ fresh \in BOOLEAN /\ dirty \in BOOLEAN
    /\ lock \in Flagged \cup {None}
    /\ at \in [Writers -> {"idle", "wrote", "locked", "git", "added"}]
    /\ \A w \in Flagged : at[w] \in {"locked", "git", "added"} <=> lock = w
    /\ fails \in 0 .. MaxFails
    /\ waived \subseteq Writers /\ swept \subseteq Routes /\ failed \subseteq Writers

VaultInit == /\ pending = {} /\ staged = {} /\ fresh = FALSE
             /\ dirty = FALSE /\ lock = None
             /\ at = [w \in Writers |-> "idle"]
             /\ fails = 0 /\ waived = {} /\ swept = {} /\ failed = {}

Goes(w, from, to) == at[w] = from /\ at' = [at EXCEPT ![w] = to]

InGit == {w \in Writers : at[w] \in {"git", "added"}}

-----------------------------------------------------------------------------
(* A change lands in the tree at once.                                     *)
Write(w) == /\ Goes(w, "idle", "wrote")
            /\ pending' = pending \cup {w}
            /\ dirty' = (dirty \/ w \in Flagged)
            /\ waived' = waived \ {w}
            /\ swept' = swept \ {w}
            /\ failed' = failed \ {w}
            /\ UNCHANGED <<staged, fresh, lock, fails>>

(* commit_if_dirty: the lock, then the flag, cleared before git is asked.  *)
TakesLock(w) == /\ w \in Flagged /\ lock = None
                /\ Goes(w, "wrote", "locked")
                /\ lock' = w
                /\ UNCHANGED <<pending, staged, fresh, dirty, vaultHistory>>

FindsItClean(w) == /\ Goes(w, "locked", "idle") /\ ~dirty
                   /\ lock' = None
                   /\ swept' = IF w \in Routes \cap pending THEN swept \cup {w} ELSE swept
                   /\ UNCHANGED <<pending, staged, fresh, dirty, fails, waived, failed>>

ClearsFlag(w) == /\ Goes(w, "locked", "git") /\ dirty
                 /\ dirty' = FALSE
                 /\ UNCHANGED <<pending, staged, fresh, lock, vaultHistory>>

(* A chat turn or a forget goes straight to git.                           *)
Straight(w) == /\ w \notin Flagged
               /\ Goes(w, "wrote", "git")
               /\ UNCHANGED <<pending, staged, fresh, dirty, lock, vaultHistory>>

KeepsTheLock(w) == /\ at' = [at EXCEPT ![w] = "idle"]
                   /\ lock' = lock

Leaves(w) == /\ at' = [at EXCEPT ![w] = "idle"]
             /\ lock' = IF lock = w THEN None ELSE lock

WaitsForTheWindow(w) == ~fresh

DoesNotWait(w) == ~fresh \/ w \in Now

(* Inside the window: the writes stand, the history entry waits.           *)
WaitsOutTheWindow(w) == /\ at[w] = "git" /\ ~DoesNotWait(w)
                        /\ Leaves(w)
                        /\ waived' = waived \cup pending
                        /\ UNCHANGED <<pending, staged, fresh, dirty, fails, swept, failed>>

AddsHerOwn(w) == /\ Goes(w, "git", "added") /\ DoesNotWait(w)
                 /\ staged' = staged \cup ({w} \cap pending)
                 /\ UNCHANGED <<pending, fresh, dirty, lock, vaultHistory>>

(* git add -A, the whole tree.                                             *)
Adds(w) == /\ Goes(w, "git", "added") /\ DoesNotWait(w)
           /\ staged' = pending
           /\ UNCHANGED <<pending, fresh, dirty, lock, vaultHistory>>

(* Nothing staged is not an error.                                         *)
NothingStaged(w) == /\ at[w] = "added" /\ staged = {}
                    /\ Leaves(w)
                    /\ UNCHANGED <<pending, staged, fresh, dirty, vaultHistory>>

Commits(w) == /\ at[w] = "added" /\ staged # {}
              /\ pending' = pending \ staged
              /\ staged' = {}
              /\ fresh' = TRUE
              /\ waived' = waived \ staged
              /\ swept' = swept \ staged
              /\ failed' = failed \ staged
              /\ Leaves(w)
              /\ UNCHANGED <<dirty, fails>>

(* A lock file, a full disk, or the other's commit took what was staged:   *)
(* the flag is put back, where there is one.                               *)
GivesUpSilently(w) == /\ Leaves(w)
                      /\ UNCHANGED dirty

GivesUp(w) == /\ Leaves(w)
              /\ dirty' = (dirty \/ w \in Flagged)

GitFails(w) == /\ fails < MaxFails /\ fails' = fails + 1
               /\ w \in InGit
               /\ GivesUp(w)
               /\ failed' = failed \cup {w}
               /\ UNCHANGED <<pending, staged, fresh, waived, swept>>

(* A day passes since HEAD.                                                *)
WindowOpens == /\ fresh /\ fresh' = FALSE
               /\ UNCHANGED <<pending, staged, dirty, lock, at, vaultHistory>>

(* The process dies; the tree, the index and HEAD are on disk.             *)
Crash == /\ fails < MaxFails /\ fails' = fails + 1
         /\ at' = [w \in Writers |-> "idle"]
         /\ lock' = None /\ dirty' = FALSE
         /\ waived' = waived \cup pending
         /\ failed' = failed \cup pending
         /\ UNCHANGED <<pending, staged, fresh, swept>>

VaultNext == \/ \E w \in Writers :
                   \/ Write(w) \/ TakesLock(w) \/ FindsItClean(w) \/ ClearsFlag(w)
                   \/ Straight(w) \/ WaitsOutTheWindow(w) \/ Adds(w)
                   \/ NothingStaged(w) \/ Commits(w) \/ GitFails(w)
             \/ WindowOpens \/ Crash

VaultSpec == VaultInit /\ [][VaultNext]_vaultVars

(* She goes on ticking and writing, a day always ends, threads return.     *)
VaultFairness == /\ WF_vaultVars(WindowOpens)
                 /\ \A w \in Ticks : SF_vaultVars(Write(w)) /\ SF_vaultVars(TakesLock(w))
                 /\ \A w \in Writers :
                       /\ WF_vaultVars(FindsItClean(w) \/ ClearsFlag(w))
                       /\ WF_vaultVars(Straight(w))
                       /\ WF_vaultVars(WaitsOutTheWindow(w) \/ Adds(w))
                       /\ WF_vaultVars(NothingStaged(w) \/ Commits(w))

VaultFairSpec == VaultSpec /\ VaultFairness

-----------------------------------------------------------------------------
(* SPEC 15.1, every write of the mind is known to be uncommitted: the flag *)
(* is up, or a git that will add it is running, or the window or a crash   *)
(* let it wait.  A write that lands while git runs is not forgotten.       *)
FlagKnowsTheTree ==
    \A w \in pending \cap Flagged :
        \/ dirty
        \/ \E v \in Writers : at[v] = "git" /\ v \in Flagged
        \/ w \in staged \cup waived

(* SPEC 2.1: a person's edit is in history when its route returns, but for *)
(* a git that failed, or a tick that had cleared the flag on it meanwhile. *)
OwnEditIsCommitted ==
    \A w \in Now \cap pending : at[w] = "idle" => w \in failed \cup swept

(* Nothing waits for ever: a pending change is committed in the end, the   *)
(* day after at the latest, however the flag and the window fall.          *)
EveryChangeIsCommitted == \A w \in Writers : w \in pending ~> w \notin pending

(* vaultgit.commit: a message that names a person's edit must commit at    *)
(* once.                                                                   *)
PersonCommitsAtOnce ==
    \A w \in Now \cap pending : at[w] = "idle" => w \in failed
=============================================================================
