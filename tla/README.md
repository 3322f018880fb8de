# YuriOS in TLA+

YuriOS (`src/yurios`) is a companion that lives on one machine: a Python process
that talks with a person by voice and text, and a *mind* that goes on between
conversations. The mind keeps goals, sets timers, takes pictures, writes, and
decides when to reach out. Nearly everything hard about it comes from one fact:
the mind, the conversation, the render worker, the owner's pages and the process
that supervises them share state in memory, on the graphics card and in a
handful of files, and each of them may be between two steps when another one
acts or dies.

This directory holds models of that core, the TLC configurations that check
them, and TLAPS proofs. `SPEC.md`, comments and `tests/` are quoted where they
say what the code should do; every definition is translated from the code, and
`PROJECT.json` names the lines each one stands for.

```
tlc -workers 2 -config MindLoop.cfg MCMindLoop      # likewise every other .cfg
tlapm MindLoopProofs.tla                            # likewise every other *Proofs.tla
```

| module | models | instance and run | proved in |
|---|---|---|---|
| `SignalBus` | `mind/signals.py` | with `MindLoop` | `MindLoopProofs` |
| `MindLoop` | the tick loop's cursor over the bus, `mind/loop.py`, `world/main.py` | `MCMindLoop` | `MindLoopProofs` |
| `InboxSpec` | what bus and loop promise: an at-least-once inbox | refined by `MindLoop` | `MindLoopProofs` |
| `TimerPromise` | timers as promises: board, file, announcement, mirrored goal | `MCTimerPromise` | `TimerPromiseProofs` |
| `PromiseSpec` | what SPEC 7.5 promises of a timer | refined by `TimerPromise` | `TimerPromiseProofs` |
| `Errands` | goals, dispatched renders, queued messages, deliveries | `MCErrands` | `SelfieProofs` |
| `ParkGate` | the park gate, the labs' render jobs and their workers, `world/vram.py`, `world/selfies.py` | `MCParkGate` | `GateTurnsProofs` |
| `WarmCard` | the warm pipeline, its slot and its idle timer, `world/vram.py`, `world/selfies.py` | `MCWarmCard` | `SelfieProofs` |
| `Contexts` | the in-process models, parked and loaded again, `app/providers/gguf.py`, `admission.py` | `MCContexts` | `ContextsProofs` |
| `Conduct` | what she does unasked and what bounds it, `mind/hands.py`, `handwork.py`, `acts.py` | `MCConduct` | `ConductProofs` |
| `AllowanceSpec` | what a daily cap promises | refined twice by `Conduct` | `ConductProofs` |
| `VaultCommits` | the dirty flag and git, `mind/vaultio.py`, `app/vaultgit.py` | `MCVaultCommits` | `VaultNightProofs` |
| `Night` | DREAM's jobs, budgets and marks, `mind/dreamjobs/` | `MCNight` | `VaultNightProofs` |
| `Turns` | text turns of requests and of a channel, the voice connection, Stop, `world/turns.py`, `routes/voice_ws.py`, `desktop/voice/turn.py`, `channels/telegram.py` | `MCTurns` | `GateTurnsProofs` |
| `House` | registry, runtimes and trees, `world/host/`, `characters/` | `MCHouse` | `HouseDaemonProofs` |
| `Daemon` | pid file, supervisor, `yurios stop`, `daemon.py`, `cli.py` | `MCDaemon` | `HouseDaemonProofs` |

## 1. The system

### Components

| component | state | operations | hard behaviour |
|---|---|---|---|
| **Signal bus** `mind/signals.py` | a list of at most `MAX_HELD` signals, `_base`, `epoch`, the wake event, `signals.jsonl` | `post` (any thread), `next`, `ack` | absolute offsets over a list trimmed at the front; a wake that hops threads |
| **Tick loop** `mind/loop.py` | the cursor `offset`, wakeups, pending announcements, promise reviews, delivered timers; `state/engine.json` | SENSE, ENGAGED, ACT (one thing), REFLECT, REGULATE; sleep by cadence or wake | every act awaits; anything may change meanwhile; a tick may raise or be cancelled anywhere |
| **Timer board** `world/tools/timers.py` | timers, which have landed, a `due` queue, `timers.json` | `add`, `poll`, `ack`, `_load`, `_save` | landing is not delivery; best-effort saves |
| **Goals and goal work** `mind/goals.py`, `goalwork.py`, `acts.py` | `goals.md`, durable at every write; meta on goals: `product`, `offered`, `telling` | `add`, `set_state`, `update`, `goal_work`, `queue_telling`, `reach_out`, `land_dispatched`, `settle_strays` | several writers, copies held across awaits; pairs of goals that must be closed together |
| **Selfie lab, gallery** `world/selfies.py`, `gallery.py` | render tasks, the ledger of pictures | `start`, `_serial_job`, `_completed`, `stop` | completes long after the goal that asked has moved on |
| **Hands** `mind/hands.py`, `handwork.py`, `world/tools/guard.py` | two switches, the repeat ledger, the daily count | offer, check, spend, execute | what was offered is checked again at dispatch; spent before it ran; the count is in memory until a tick saves it |
| **Budget, activity, policy** `mind/budget.py`, `policy.py`, `muse.py` | spend of the day, activity state, cooldowns | debit, pressure, Gates 1 and 2 | midnight roll |
| **Runtime and mind switch** `world/main.py`, `boot.py`, `rewire.py` | one runtime per character, live tasks, turns in flight | build, `set_mind_enabled`, `stop_async` | cancel at any await, rebuild on a live bus |
| **Park gate, warm card** `world/vram.py` | open/shut, holders, closers; the warm slot, the idle timer | `wait`, `hold`, `close`, `open`, `claim_card`, `release_card` | renders wait for turns behind a door turns wait at; threads that outlive the task that waits for them |
| **In-process models** `app/providers/gguf.py`, `admission.py` | contexts per model, `_load_gate`, `_parked` | load, generate, `park`, `unpark` | loads and closes on threads; callers that hold what a park is closing |
| **Conversation** `world/turns.py`, `voice_ws.py`, `voice/turn.py`, `brain.py`, `app/conversation.py` | rows, windows, the reply in flight | text and voice turns, unprompted lines, barge-in, abandon | runs beside the tick; a failed turn must leave no trace |
| **DREAM** `mind/dream.py`, `dreamjobs/` | marks per job and day, progress file, two budgets | a night, by ladder or by hand | chunked and resumed; may outlive its mind |
| **Vault** `mind/vaultio.py`, `app/vaultgit.py`, `mind/journal.py` | dirty flag, `_commit_lock`, git | write, commit in a daily window or now | several writers, two roads to git, failed commits |
| **Host, house** `world/host/`, `characters/{registry,clone,archive}.py` | registry rows, trees, archives, runtimes, two locks | start, stop, edit, clone, archive, restore, purge | copies of a row held across awaits; two writes that belong together |
| **Daemon** `daemon.py`, `cli.py`, `world/__main__.py` | the pid file and its lock, the server | start, supervise, stop | several processes, no shared memory |
| **Memory** `app/memory/` | vectors, salience | remember, recall, supersede | mostly numeric, one writer at a time |
| **Inbox and channels** `world/inbox.py`, `kernel/hub.py`, `world/channels/` | unread entries, subscriber queues, Telegram offset | append, mark_read, publish, poll | bounded queues that drop; a channel's turn runs in its poll task |
| **Tools** `world/tools/server.py`, `client.py`, **research** `world/research.py`, **self-edit** `mind/selfedit.py` | contracts, jobs, proposals | discover, call, decide | timeouts |
| **Characters, forge, pairing, migration; web client** | files, cards, devices | parse, render, serve | mostly I/O |

### How they interact

The conversation, the lab, the timer board, the owner's pages and the loop
itself *post signals*; only the loop reads them. At SENSE a tick turns landed
timers and due wakeups into signals, reads a batch and folds it into the goals
and its own lists, sweeps stale goals when the day rolls over or the machine
was suspended, and settles stray messages. Then it acts on **one** thing (an
announcement outranks a promise review, which outranks a goal), and every act
awaits a model call. During those awaits the conversation may run a turn, take
or show a picture, or set a timer; a render may land; the owner may let a goal
go or switch the mind off, which cancels the tick at the await. At REGULATE the
loop persists `engine.json`, releases the batch and commits the vault.

Three clocks of durability run side by side: `goals.md` is written at once;
`engine.json` at the end of a tick (and at a few other points); `timers.json`
whenever the board changes, best effort; the queue, the lab's tasks and the
announcements not at all. Most of the properties are about the gaps between.

The same pattern repeats at other layers. On the card, a render, a conversation
and a load want the same memory: the park gate keeps callers out, the warm slot
says whose pipeline stays, the contexts are closed and built again, all by
threads that a cancelled task leaves running. In a conversation, a line is put
on the page and into the window of the next prompt at different moments, and
what ends a turn must undo exactly that turn. In the house, a request reads a
registry row, awaits, and writes the row back. Around it all, processes know
each other by a file alone.

### What makes each part correct

* **Bus and loop**: no signal is passed by a cursor unread, except what the cap
  lost; nothing is released before the file says it was read; a committed batch
  is not read again; every signal is read in the end.
* **Timers**: a promise on file stays there until handed over; it is always in
  one of the queues; its goal closes with the hand-over, not before and not
  never; it is handed over in the end.
* **Goals and errands**: a waiting goal has a way back; no picture falls between
  the ends of a goal; words go out only while awaited; a closed goal stays closed.
* **Hands and messages**: both daily caps hold, wherever midnight and a crash
  fall; nothing runs under a switch that is off at dispatch or in a cooldown.
* **Park gate**: the door is shut while the model is off the card; no way out of
  a render leaves it shut; a park that waited evicts under no call; nobody waits
  for each other.
* **Warm card**: one pipeline is resident; none is unloaded under a render; one
  that stays warm is dropped in the end.
* **Contexts**: a lent card is clear; no weights stay where no park finds them;
  one call at a time generates on a context; every call and park ends.
* **Turns**: the window is a run of exchanges; a turn talked over leaves no
  trace; memory is closed under no writer; a request's posted reply is finished.
* **Vault**: no change is forgotten; a person's edit is in history when its route
  returns; every change is committed in the end.
* **DREAM**: a day is marked when it was done, or when consolidation's own call
  failed and was swallowed, and only then; done twice only for a reason; no job,
  however dear, wedges the backlog.
* **House**: one runtime on a tree; rows and trees agree; every request is answered.
* **Daemon**: racing starts end with one; "stopped" is true; a stop ends.

## 2. The models

### SignalBus and MindLoop

A signal is its absolute number on its bus, so the list the code keeps is
`base+1 .. end` and an offset `o` stands for signals `1..o`. `Enqueue` is the
locked half of `post`; `PostOnLoop`, `PostFromWorker` and `PostUnlogged` are its
three continuations (wake at once; wake by `call_soon_threadsafe`; the log raises
and the wake is never set). `ReadFrom`/`ReadTo` are `next`, with its branch for an
offset past the end, `Release` is `ack`.

The loop's `pc` is where the coroutine stands: `starting` and `asleep` before a
SENSE, `acting` between SENSE and the cursor's commit, `committing` during the
vault commit, `paused` with its task cancelled, `absent` before
`MindLoop.__init__`. `Sense` reads a batch, `Commit` is the three writes of
REGULATE (cursor, file, queue), `CommitFails` the file write raising between
them, `TickDies` any other exception, `SensePostFails` a post of SENSE's own
raising. `PersistNow` is a write of `engine.json` out of turn. `Pause`/`Resume` are
`set_mind_enabled`; `Discard`/`Build` a mind rebuilt on the live bus, which the
epoch check and the comments of `next` allow for; `Restart` a new process. The
early wakes are *not* guards: a tick may start at any time, because the cadence
may elapse at any time. `wake` matters to `PostWakesTheLoop` only.

`InboxSpec` is the abstraction: signals posted, read, lost, and a settled prefix.
`MindLoop` maps `settled` to `Durable`, the cursor a mind rebuilt now would use.

### TimerPromise

One `SetTimer` per timer, by a turn whose reply makes an explicit promise, a soft
one or none (constants). `Fold` is SENSE: `due` becomes signals, the unread
signals become the batch, timers queue for announcement in any order, explicit
promises are filed as goals (born done when the timer was already delivered),
soft ones become reviews and are persisted at once. `AnnounceTick`, `ReviewTick`
and `OtherTick` are what the tick does next, with the code's priority.
`HandToVoice` and `PostLine` deliver (pop, ack, delivered, goal), `ComposeFails`
does not. `VoiceSays`/`VoiceFails` end the session's task. `Save` may leave the
file as it was. `Crash` keeps `timers.json` (without those a day past due),
`engine.json` and `goals.md`.

`PromiseSpec` has one `standing` per promise (unset, promised, owed, kept,
expired, lost); "lost" is reachable only from "promised", a timer no file held.

### Errands

A goal's id is its line in `goals.md`. The mind's bookkeeping is written as
operators on a record of goals and wakeups (`OfferThePicture`, `PictureShown`,
`SettleTelling`, `LandDispatched`, ...), each the translation of the function of
that name, and composed in the order the handler calls them: `Sense` folds the
whole queue, then the sweeps, then `settle_strays`. Due wakeups join the queue in
any order, where the code sorts them by due time (`loop.py:420`), which the model
leaves out. What walks a batch or the lines of `goals.md` (`FoldedIn`, `Rescued`,
`SettleStrays`) is a recursive function of how far it has come, so that it can be
proved about. A step (`StartWork` ...
`Continue`, `Finish`, `ParkAtHorizon`, `AbandonAtHorizon`, `Dispatch`, `Tell`) holds
in `copy` the `Goal` object it read before its model call and writes its end by
that copy, as the code does. `reach_out` is one action per ruling, with the
picture posted before the words (SPEAK) or with them (SUGGEST). `ChatTakesPicture`,
`ShowHeldPicture`, `ShowUnsent` are the conversation's tools, enabled between the
tick's awaits (`Overlap` says whether also during them). `RenderLands` and
`RenderFails` post the completion; `LetGo` is the owner's page.

Four history variables describe what a reader would call "the known gaps", so
that properties can name them instead of ignoring them: `sent` counts posts;
`cut` holds goals whose wakeup a crash took; `shelved` pictures that the code
leaves on the gallery shelf; `muddled` pictures posted while an act held them,
before their completion was read, or in a batch read twice.

### ParkGate

One card, and for each character a lab with at most one job in the model's eye:
`job` is where `_job`/`_serial_job` stands (`queued` for the render lock, `ready`
asking the camera, `turns` and `calls` in `wait_turns_idle`, `rendering` awaiting
the worker, `draining` cancelled with the worker still running, `finishing` its
tail), `worker` where `LLMParker.parked()` stands on the render thread. `closers` is
the gate's set of that name. A close or open from the loop is immediate
(`CloseFor`, `Opens`), one from the worker goes through `hops`, run in order before
the worker's result reaches the job, as `call_soon_threadsafe` orders them.
Opening the door resumes everyone at it in the same step: they run on the next
turn of the loop, and the next job needs several to get its lock and its camera's
answer before it can shut the door again.

A turn waits at the door, counts itself, streams, and holds the gate while its
reply is filed (`TurnPersists`, no await in between); an off-turn call waits, then
holds. A cancel falls at any await of a job (`CancelQueued`, `CancelWaiting`,
`CancelRendering`); a camera that cannot run leaves by `NotReady`. Whether a render
needs the loan is a free choice, made by the lab and again by the worker, as the
code measures the card twice.

History: `late` are callers that went through a shut door when their patience ran
out, `pressed` the calls a park went ahead under when its own did, `quieted` the
jobs that shut the door and waited. The properties excuse these by name and
nothing else.

### WarmCard

A shot is a render job that is used again when over. `job` is where its coroutine
stands (`queued` for the render lock, `ready` asking the camera, rendering,
failing, finishing, draining after a cancel), `worker` where its thread is:
claiming the slot, ousting the last holder, loading, rendering, deciding whether
the pipeline may stay. `slot` is `_WARM`, `pipe` the backends whose weights are
loaded, `idle` the one idle timer with its task: counting, waiting for the render
lock, unloading. A release is two steps of its thread (the weights go, then the
slot), and the cancel of a task that awaits it leaves the thread behind: those
are the `strays`. `Stop` is the lab's `stop`, which waits for the lock, hands
back what it kept and calls the timer off.

### Contexts

`task` is a call's coroutine (queued for admission, active, cut, over), `thread`
where the worker thread that serves it is: looking at the provider's `_loaded`,
at the door, building a context, assigning it, waiting for the context's lock,
generating. The two part when a task is cancelled. `gate` and `parked` are
`_load_gate` and the word a park gives under the condition; the render's `park`
declares it, drops the handles, closes each context under its own lock, lends the
card, and later rebuilds what it closed. A call whose patience ends loads although
the card is lent: `late`, and the contexts it builds then are `strays`. History:
`leaked` says a lock was taken by a thread whose task was already cancelled,
`torn` that a call read `_loaded` between the provider's write and the park's.

### Conduct

A day has three parts: small hours, open hours, late ones. The tick and a night
started by hand reach for tools at the same time: `StepBegins` offers, `Dispatched`
checks again, books the call and sends it, `CallReturns` goes on with the step.
`StaysQuiet`, `Composes`, `SendsPictureFirst`, `WordsCome`, `NoWords` and `Captioned`
are `reach_out` past Gate 2. `books` are the counts in memory, `disk` those in
`engine.json`; `TickEnds` writes them, `Crash` reads them back. History counts what
really went out on the local day, and what a crash (or a picture whose words
failed) took from the count. `AllowanceSpec` is a cap of so many uses a day, where
only an unbooked use allows one more; both counts are shown to implement it.

### VaultCommits

A writer's edits are one pending change. `Write` sets the flag, `TakesLock`,
`ClearsFlag` and the window decide whether git runs; `Adds`, `NothingStaged`,
`Commits` and `Fails` are git in its thread. `Straight` is the chat turn's and the
forget's own call of `vaultgit.commit`, with neither flag nor lock. A failed or
crashed writer may leave its change staged.

### Night

A night (`Begins`, by the ladder or by hand) goes through the jobs in priority
order; `Takes`, `Makes`, `Mark`, `Fails` and `Interrupted` are one item, `MovesOn` the
end of a job's backlog or its budget, `Closes` the save. Every mind that was built
has a ledger of its own in memory; one that was switched off may still be saved by
the night it started.

Consolidation is not like the others. It reads and writes a progress file of its own
(`owns_ledger`), and it marks its day inside the item, before it goes on to the
partner's page (`Evolves`), which may still raise. Its model call is caught
(`_summarise_day`): only a busy model ends the night, any other failure counts as a day
with no facts, and the day is marked all the same. That is `Swallows`; `lost` records
those days, and the properties excuse exactly them. A job that *raises* keeps its day:
that is `Fails`, after `Mark` too for the partner's page.

### Turns

There are three kinds of client, each in a session of its own: requests (`/api/chat`),
the chat of a channel that polls, and the voice connection. A request's turn is a live
task (`start_live_task`); a channel's runs inside the poll task, one message at a time,
and the runtime does not count it among `_live_tasks`. A turn goes `queued`, `gate`,
`assembling`, `streaming`, `settling`, `done` or `failed`; `at` says where each stands,
and each action is a stretch between awaits of the pump that carries it. A row has two
halves: drawn on the page, admitted to the window; `pending` is the brain adapter's
reply in flight, of which a session has one. `room` is the reader of the voice
connection, which hears a line and then cancels or awaits the previous turn. `Injects`
is an unprompted line. `vault` are post-turn pipelines in the order they take
`vault_lock`; `StopBegins`, `StopWaits`, `StopUnplugs`, `StopCloses` are
`Runtime.stop_async`: it cancels the live tasks that are not committing and waits for
them, while a channel's turn goes on (`GoesOn`; one that only now gets the lock is
`TurnedAway`); then `stop_all` cancels the channel's turn, wherever it is; then it waits
for `vault_lock`. `committing()` finds only a live task to protect (`Committing`).

### House

A request is a list of steps still to do, each as long as the code runs without an
await: it saves a row, retunes a runtime, takes `CharacterHost._lock` to start or stop,
takes `lifecycle_lock` to move a tree. What it read at its beginning (`Asks`) it writes
at its end, as the routes do with their deep copy; an archive keeps the record it looked
up under `lifecycle_lock`, before it stopped the runtime. A failed write, rename or
start raises where it happens and undoes what the code undoes. A crash leaves rows,
trees and archives, one perhaps without its `archive.json`; the next process starts who
is enabled. A `ghost` is a tree that a start made anew for a row whose tree was gone.

### Daemon

Each `yurios start` is a supervisor that runs once, each `yurios stop` a process
used again. A file is an inode; `path` names one. `Acquire` opens, locks, compares
the inode with the path, truncates and signs, in steps; `Release` unlinks and lets
go; `Run` spawns the server, weighs its end, pauses, gives up. A stop probes the
lock, reads the pid, signals, and looks again. The history variables are
`unlinked` (a file was removed under the daemon that holds it) and `broken`
(supervisors killed outright or unable to spawn).

## 3. Runs

Twelve runs, one for each part; all hold. Each checks the deepest invariants, action
and liveness properties of its module. Type invariants and the other properties a
module states (`ReleasedOnlyWhenDurable`, `LossOnlyAtTheCap`, ... in `MindLoop`;
`OnFileUntilHandedOver`, `GoalClosesAfterHandover`, `RepeatedOnlyAfterFault` in
`TimerPromise`; `NoStrandedDoor`, `WarmHasATimer`, `QuietHoursKept`, `MarksAreKept`,
`QuietMoves`, `SomebodyAnswers`, `PutBackUp`, `ClosedStaysClosed`,
`NoErrandForASeenPicture`) hold at the same bounds and are proved where section 5
says so; add a name to the `.cfg` to check it.

| run | bounds | properties | distinct states |
|---|---|---|---|
| `MindLoop` | queue 3, batch 2, 5 signals a process, 2 processes, failing log | `NothingSkipped`, `NoRereadAfterCommit`, `ImplementsInbox`, `EverySignalIsRead` | 91,048 |
| `TimerPromise` | 2 timers (one explicit, one soft), 1 crash, 1 dead tick, pause or failed save | `Carried`, `OpenGoalHasItsTimer`, `ImplementsPromise`, `EveryPromiseHandedOver` | 349,530 |
| `Errands` | 1 picture, 3 goals, 1 letting go, 1 dead tick, pause or crash, overlap, failing calls | `WaitingHasAWayBack`, `NoPictureStranded`, `WordsAreStillAwaited` | 4,659,269 |
| `ParkGate` | 2 cameras on the card and a hosted one, 1 turn, 1 off-turn call, 1 patience that runs out | `DoorShutDuringLoan`, `LoanIsQuiet`, `EveryCallGetsThrough` | 117,040 |
| `WarmCard` | 3 labs on 2 checkpoints, 3 shots, 1 stray release | `OneWarmPipeline`, `NotUnloadedUnderARender`, `TimerFires` | 567,688 |
| `Conduct` | 2 days in five parts, 2 calls, caps of 1 and 1, 1 fault | `HandsKeepTheCap`, `MessagesKeepTheCap`, `CallsInTheirPlace` | 3,784,732 |
| `VaultCommits` | 4 writers, one of each kind, 1 failure or crash | `FlagKnowsTheTree`, `OwnEditIsCommitted`, `EveryChangeIsCommitted` | 243,644 |
| `Night` | 4 jobs, 2 days, 2 minds, 1 fault | `MarkedWasHandled`, `RepeatedOnlyAfterFault`, `EveryDayIsHandled` | 176,170 |
| `Turns` | 3 turns of any kind, 3 sessions | `WindowIsExchanges`, `TalkedOverLeavesNoTrace`, `ClosedUnderNoWriter`, `PostedIsFinished` | 614,515 |
| `House` | 2 ids, 3 requests two at a time, 2 faults | `OneRuntime`, `RowAndTreeAgree`, `Answered` | 652,717 |
| `Daemon` | 2 starts, 1 stop used again, 3 inodes, MAX_FAST_FAILURES 1 | `OneDaemon`, `StoppedMeansStopped`, `StopEnds` | 535,828 |
| `Contexts` | 3 calls, 2 providers, 1 model, 4 contexts, 1 park, 1 cut | `LoanKeepsTheCardClear`, `NoWeightsAreLost`, `OneVoicePerContext`, `EverythingEnds` | 386,382 |

**Why the bounds are enough.** `MindLoop`: five signals through a queue of three
overflow it twice, also with a batch in flight; a batch of two makes a backlog take
several ticks; a second process starts with the first one's file. `TimerPromise`: two
timers give every order of landing, announcing and filing; one crash and one fault (a
dead tick, a pause or a failing save) give every pair; announcements interact only
through the queue's head and the single voice. `Errands`: three goals are a task with
both an errand and a queued message, or an errand of an errand; one picture suffices for
each property as each speaks of one picture's holders. `MaxGoals` blocks steps that
would add a fourth goal, which is why deadlock is not checked. `ParkGate`: two cameras
that share the lock and one that does not are every relation two closers of the door can
have. `WarmCard`: two labs on one checkpoint and one on another, and two shots of the
same lab, are every relation of two renders; one stray is what the idle task or a lab's
stop can leave at a time. `Contexts`: two calls on one provider and one on another share
one model, so loads, assignments and generations meet in every pairing; with two cuts or
two parks it holds as well (1,759,622 and 1,705,509 states). `Conduct`: five parts of
two days put midnight between any two steps; a cap of one is reached at once, and the
crash falls before or after the save. `VaultCommits`: one writer of each kind, as two of
a kind differ in nothing. `Night`: four jobs, of which one costs more than a whole lane
and one is billed to the other lane, over two days and two minds; its one fault may be
the swallowed call, a job that raises, a night cut short or a death. `Turns`: three
turns are a turn, the one that talks over it and an unprompted line between them, or one
of each client when Stop comes. `House`: two ids are a character and its clone or its
returning archive; three requests, two at a time, with two faults. `Daemon`: two starts
race, one stop is used again and again, and three inodes let the path name a third while
two are held. The proofs lift the bounds wherever there is one.

`CHECK_DEADLOCK FALSE` stands where the system may really stop: every goal or
turn of the instance is over (`Errands`, `Turns`), every lab is gone (`WarmCard`),
every call was made (`Contexts`), every start is gone (`Daemon`), the requests of the
instance are used up (`House`).

**Fairness.** `MindLoop!FairSpec`: the event loop runs scheduled callbacks
(`DeliverHop`), the cadence always elapses (`Sense`), the git commit returns
(`EndTick`), and not every tick dies before its commit (strong fairness of
`Commit`: an exception in a tick is caught and the loop goes on, but a batch that
always raises would starve; that is the poison batch listed under hazards). A
loop that stays paused reads nothing, and `EverySignalIsRead` says so.
`TimerPromise!FairSpec`: time passes and the board polls at its next deadline (weak);
turns and voice tasks end (weak); ticks go on (weak); the mind is switched on
again (weak: the property is about a mind that is on); a tick that may announce
does so if that is possible again and again (strong on `AnnounceTick`: the code
announces whenever it may, the freedom is in when conversation lets it), and
composing does not fail for ever (strong on the two deliveries).
`ParkGate!FairSpec`: model calls end, the loop runs its callbacks, the camera's
answer, the HTTP calls and the render return (weak). The wait for her turns is an
`asyncio.Event`, which resumes its waiter when it was set once, even if a new turn
has started by then: strong fairness of `TurnsIdle`. The wait for off-turn calls is
capped in the code, so `CallsIdle` and `QuietWaitBlown` together are weakly fair.
Getting the lock, the owner's cancel and a caller's own patience are not assumed.
`WarmCard!FairSpec`: threads return and the loop runs what is due, so whoever holds
the render lock leaves it (weak); a cancel, a stop and a new shot are never assumed,
and getting the lock only of the idle unload, which any render that gets it first
calls off. `VaultCommits!VaultFairSpec`: threads return (weak), a day always ends (weak), and
she goes on ticking and writing (strong on the tick's `Write` and `TakesLock`: other
writers may hold the lock whenever it looks). `Night!FairSpec`: the ladder comes
round whenever no night holds `_NIGHT_LOCK` (strong), and model calls return (weak).
`Turns!TurnsFairSpec`: the event loop runs what is ready and a post-turn worker ends
(weak). `House!FairSpec`: a request that can go on does, which includes getting a lock
that is free (asyncio's locks are first come, first served), and a start, a stop and
a copy end (weak). `Daemon!DaemonFairSpec`: a supervisor that was not killed goes on and its
deadlines pass (weak); nothing is assumed of starts, stops or servers.
`Contexts!FairSpec`: downloads, loads, generations and renders end, a wait for the
card has its deadline, and a free lock or place is taken (weak).
`Errands` and `Conduct` check safety only.

## 4. What the code does not keep

These sentences of `SPEC.md`, of comments or of tests are stated in the modules and
*violated* by what the code does. None is a run; to see a trace, put the name in
the module's `.cfg` under `INVARIANT` or, for those marked □, `PROPERTY`.

| definition | what happens |
|---|---|
| `MindLoop!PostWakesTheLoop` | `wake.clear()` after a tick (`loop.py:1038`) erases the wake of a signal posted during it: late, not lost |
| `TimerPromise!NeverZeroTimes` | handing the line to a voice session completes the promise before a word is spoken (`acts.py:320`) |
| `TimerPromise!ReviewRetained` | a review is popped, then awaited (`acts.py:230`); a pause loses it |
| `Errands!SentAtMostOnce` | a picture shown by its id before its completion is read is adopted again when it is (`acts.py:1015`) |
| `Errands!NotDoneBeforeDelivered` □ | a landing render reactivates a goal that by then waits on words (`acts.py:956`) |
| `Errands!EveryHolderHandsOn` | a goal closed by its message's delivery drops the picture that landed meanwhile (`acts.py:556`) |
| `ParkGate!NoTurnUnderAPark` | the quiet wait reads this character's count of turns (`main.py:793`); the card is everyone's |
| `Conduct!CapOnMessages` | SPEAK posts the picture first (`acts.py:889`), composing the words raises (`loop.py:337`, caught at 661): sent, not counted, and again next hour, against `SPEC.md:1905` and `docs/mind.md:139` |
| `VaultCommits!PersonCommitsAtOnce` | a tick inside the window clears the flag, and the route's `now=True` finds the tree clean, against `vaultio.py:104` and `vaultgit.py:161` |
| `Night!FailureKeepsItsDay` | a consolidation whose model call fails is caught (`dream.py:226`), returns no facts, and its day is marked done (`dream.py:188`): it is never consolidated, against `dream.py:228` ("a failed night leaves the backlog intact") and `docs/mind.md:340`. Five states: the day ends, the night begins, takes it, the call fails |
| `Turns!EveryPostedIsFinished` | `committing()` protects live tasks only (`main.py:1012`); a Telegram turn runs in the poll task, and `stop_all` (`main.py:1027`) cancels it after its reply was posted, against SPEC 29.5. `turn_filed` and the `turn_committed` signal are skipped, and the update stays unacknowledged, so that the next start fetches the message again and answers it twice. Nine states |
| `Turns!ShownIsRemembered` | an unprompted line let in while the next line is being heard ends with `brain.abandon` (`voice_ws.py:255`) and rolls back the turn that runs by then |
| `Turns!MurmurStaysOutOfTheWindow` | a murmur after a reply with no words is drawn over that reply's row, against `conversation.py:38` |
| `House!RefusedHandsStayDown` | a start grants her hands from a record read before the owner revoked them (`hosting.py:613`, `main.py:1196`, `switchboard.py:396`); a stale copy written back after an await does the same |
| `House!QuietCopies` | a clone asked for while a start or stop is in flight copies a tree that is not quiet (SPEC 36.3) |
| `Daemon!OneDaemonAlways` | a stop that found nobody removes the file a new start has just locked (`cli.py:1320`); a third start makes a file of its own, and two daemons run (SPEC 10.6) |
| `Daemon!AskedBeforeKilled` □ | a SIGTERM between the spawn and `self.child = child` is not passed on; the server is killed after 15 s without having been asked |
| `Contexts!NothingComesBack` | a call that waited out `_PARK_WAIT_SECONDS` loads although the card is lent, against the docstring of `test_gguf_park.py` |
| `Contexts!WeightsOutliveGenerations` | a cancelled call's thread may still generate when its context is closed; the lock it held was given back by its task |
| `Contexts!RidesOutThePark` | the park sets a provider's `_loaded` to nothing between two looks at it: the call fails on a context that is not there |
| `Contexts!LocksComeBack` | a cancel while `to_thread(lock.acquire)` is pending: the thread gets the lock, nobody gives it back |

Met while modelling and not stated:

* Goals: a second picture on a goal that has `meta.offered` is not handed on; a
  crash between `goals.md` saying *waiting* and the end of the tick leaves a goal
  without wakeup (the `cut` of `WaitingHasAWayBack`); letting go of a follow-up
  files a follow-up of it; a stale timer dropped at boot leaves its goal open.
* Timers: an announcement may be repeated after a dead tick without a crash; the
  board's `poll` does not itself wake the loop.
* Card: the worker asks again whether to park (`vram.py:605`), and if the lab's
  answer was no and this one is yes it parks without a quiet wait; a render that
  cancels an idle unload whose thread is running lets that thread free the slot
  under it (`WarmCard`'s `crossed`, SPEC.md:1124); a pipeline may stay warm with no
  timer when the job that called it off never renders (`untimed`, SPEC.md:1137);
  `resident_count()` takes a lock that a load holds for minutes.
* Night: one by hand that outlives its mind and the new runner write over each
  other's `dream_jobs.json`.
* Turns: a text and a voice turn on one shared session overwrite each other's
  `_pending`; a Stop of a voice turn while it settles leaves a reply remembered and
  never drawn; `/api/chat/cancel` while it settles loses `turn_committed`.
* House: a ghost tree blocks the restore of the archive it came from (409); a
  disable while a start is in flight leaves a disabled character running (SPEC 29.5).
* Daemon: a stop may read the pid of the file's last owner between `flock` and
  `ftruncate`; a probe's momentary lock makes a concurrent start say "already
  running"; a supervisor killed outright orphans its server, and the next start
  brings a second one; a stop during the backoff leaves a last-exit record that
  says it will be restarted.
* Migration: a crash after `os.replace` and before `registry.add` leaves a tree no
  row names, and a second run makes `yuri-2`.

## 5. Proofs

`MindLoopProofs` proves, for every queue cap, batch limit, number of signals
and number of processes (`BusAssumption`, `EpochAssumption`: the positive naturals
they must be), every safety and step property `MindLoop` states but for
`PostWakesTheLoop`, and the refinement of `InboxSpec`.

The conjunction of the safety properties is not inductive. `IInv` adds:

* `Window`: `base <= end` and the queue's width, without which `Overflow` could be
  more than one and `Release` could pass the end;
* `EpochOrder`: the file's epoch is never of a later process, so a new process
  never mistakes an old file for its own;
* `CursorOrder`: the memory cursor is at or past the durable one, because
  `PersistNow` writes the memory cursor at arbitrary moments;
* `BatchRead`: while a tick is acting, all its commit would settle has been read or
  lost, which is what makes `Commit` and `CommitFails` keep `NothingSkipped`.

`EnqueueLemma` (what one append does to the window and the losses) and `ReadLemma`
(a batch starts where nothing unread lies behind) carry the arithmetic;
`EnqueueKeepsIInv` and `ControlKeepsIInv` treat the actions that only post, and
those that only move `pc`; `NextLemma` has one step per action; `InboxStep` maps
each to `Post`, `Read`, `Settle`, `Renew` or a stutter. The `PTL` steps join them
into `Invariance` and the eight theorems that follow from it.

`GateTurnsProofs` is about what every turn goes through: the gate, then the
conversation. Of `ParkGate` it proves, for every set of characters, hosted or not, any
number of turns and off-turn calls, any assignment of turns to characters and any number
of patiences running out (`CardAssumption`: a turn is no off-turn call, and each has a
character), `DoorShutDuringLoan`, `NoStrandedDoor` and `LoanIsQuiet`. `IInv` adds:

* `HopsInOrder`: what a worker has on its way to the loop follows from where it is;
  without it an `open` of an earlier render could reach the door during a later loan;
* `ShutOnceRun`: once no close is on its way, the parker is among the closers, which
  with `HopsInOrder` gives `DoorShutDuringLoan`;
* `LabHoldsIt`: a lab that shut the door is still a closer until its worker decides
  otherwise, so that another camera's `Opens` lets nobody through;
* `TurnsAreOver`, `CallsAreOver`: what each wait has established stays true until
  the eviction, as nobody comes through a shut door but the late.

`CallsKeepIInv` treats every step of a caller, `LabMoves`, `WorkerMoves` and
`OpensKeepIInv` every step of a lab, a worker and the door; each action is one step
that cites one of them. `HopFacts` is all the proof needs of sequences.

Of `Turns` it proves, for any number of turns and unprompted lines
(`TurnsAssumption`), `TurnsTypeOK` and `ClosedUnderNoWriter`; and, if web text, chat
text and voice have sessions of their own (`SessionsApart`, as in the run),
`WindowIsExchanges` and `TalkedOverLeavesNoTrace`. The hypothesis is stated in the
theorems and not assumed by the module: on a shared session two kinds of turn
overwrite each other's reply in flight (section 4). The proof has two layers.

* `ControlInv` says what the turns do and nothing of what they write: a text turn
  under way has the floor and a voice turn is the connection's last
  (`OneAtATime`), the reply in flight is a streaming turn's (`OneInFlight`), whoever is
  talked over is still the last to speak until it notices (`TalkedIsMouth`), nobody
  runs once Stop has waited (`NobodyRuns`), and a turn waits for `vault_lock` once
  (`VaultType`). It is inductive by itself, and `ClosedUnderNoWriter` follows.
* `LogInv` says of each session that its rows are `Sound`: the window is a run of
  exchanges, the reply in flight has the last row and no other, and what is taken back was
  once in the window. `NoTrace` adds that the window knows no turn that
  failed or has not begun, and `HersIsDrawn` that a turn under way finds no undrawn
  reply but its own, or it would draw its line over another's.

What one write does to sound rows is a lemma about rows alone (`AskedSound`,
`OpenedSound`, `RepliedSound`, `SpokenSound`, `AbandonedSound`, `MurmuredSound`), from
what drawing, admitting and taking back do to a window (`DrawIs`, `AdmitIs`,
`UnwindIs`, `Grown`, `Shrunk`). `Alone` (two turns of one session are never both under
way) says which of them applies, and `StaysGood` that the other session is left as it was.

`TimerPromiseProofs`, for every set of timers and any number of crashes and faults
(`TimerAssumption`), proves `TypeOK`, `OnFileUntilHandedOver`, `Carried`,
`GoalClosesAfterHandover`, `OpenGoalHasItsTimer`, `RepeatedOnlyAfterFault` and the
refinement of `PromiseSpec`. What a step preserves is seen from both ends of the queue:
`BatchIsQueued` (what a batch in flight has read is queued or has landed again),
`LandedIsCarried` with `DueIsNew` (a timer lands once between boots), `QueuedStands`
(what is queued is on the board or was handed over), and `FileIsOnBoard`,
`DeliveryIsRemembered`, `WrittenIsAccounted` (every timer a file ever held is on the
board, handed over or expired). `OpenIsUndelivered` keeps mirrored goals in step.
`Grows` says what any step may add to what a reader outside sees; `PromiseStep` derives
the abstract step from it. `Once` is for `RepeatedOnlyAfterFault`: while nothing has
failed (restarts are no fault) the queue names nothing twice (`QueuedOnce`, from the
fact that an enumeration of a finite set by as many numbers repeats nobody), the file
has what the board has and nothing handed over (`FileFollows`), no batch is read twice
(`ReadOnce`), and what is being spoken was not heard before (`HeardOnce`).

`ConductProofs`, for every cap, set of calls, cooldown and number of crashes
(`ConductAssumption`), proves that hands and messages each implement
`AllowanceSpec`, and `CallsInTheirPlace` and `QuietHoursKept`. `HandsCounted` and
`MessagesCounted` are the invariant: what was done today is at most what the books
hold, and what the file holds plus what is unsaved, but for what a crash forgot;
`LedgerIsKept` is the same of the repeat ledger, `ComposeInOpenHours` of quiet hours.
`DayTurns` carries the arithmetic of midnight.

`VaultNightProofs` is about two components, as `GateTurnsProofs`, `SelfieProofs` and
`HouseDaemonProofs` are; `VaultCommits`, `Turns`, `Errands` and `Daemon` have names of
their own for what they would share with the other (`VaultSpec`, `TurnsInit`,
`ErrandsNext`, `DaemonNext`). For every set of writers and number of failures
(`VaultAssumption`) it proves `VaultTypeOK`, `FlagKnowsTheTree` and
`OwnEditIsCommitted`; they become inductive with `OnlyFlaggedLock` (only a writer that
knows the flag holds the lock) and `AddedIsStaged` (whoever ran `git add` has its change
in the index or HEAD).

For every roster, every cost and budget and any number of days, minds and failures
(`NightAssumption`) it proves `TypeOK`, `MarkedWasHandled`, `RepeatedOnlyAfterFault` and
`MarksAreKept` of `Night`. That a mark was earned, or is a consolidation's whose model
call failed (`lost`), is inductive with the shape of a night alone. That no day is
worked twice is not: a job may be asked again whenever a ledger lacks the mark, and
there are a ledger per mind and the file. `RepeatInv` is what excludes it while nothing
has failed and no night outlived its mind:

* `OwnNight`, `FileIsRead`: a night is its living mind's, and that mind's ledger has
  every mark of the file;
* `WorkedIsMarked`: a day worked once has its mark, or is the day whose job was made
  and is about to be marked;
* `OwedIsUnmarked`: what a job still owes this night is unmarked, though the list was
  made when its turn came and marks are made under it;
* `OldestFirst`: consolidation looks for its own oldest day, and it is the one asked
  for: what is owed beyond the list finished later (`TargetIsAsked`);
* `SavedUnlessTouched`: between nights the file has every mark of the ledger but
  consolidation's, whose marks are the progress file's own.

`SelfieProofs` follows a selfie from the goal that wants it to the card. Of `Errands`
it proves, for every finite set of pictures and any number of goals, mishaps and
goals let go, calls that fail or not and a conversation that overlaps the tick or not
(`ErrandsAssumption`), `WaitingHasAWayBack`, `NoPictureStranded`,
`WordsAreStillAwaited`, `ErrandsTypeOK` and, beyond the run, `ClosedStaysClosed`.

What a goal holds depends on goals further down, so the three invariants say much
less than what keeps them. `Sound(m, U, A, R)` is what holds of the bookkeeping `m`
between any two of its rewrites, `U` being the pictures never posted, `A` every
picture that has landed and `R` the goals being closed at that moment:

* `Rooted`: a goal names an earlier line, a render, or nothing;
* `HandsOn`: whoever is closed, or has handed its picture on, has it held by a later
  line that stands, unless the picture was posted or left on the shelf. Lines end, so
  some open goal holds it: this is `NoPictureStranded`;
* `WordsHoldWhatIsOffered`, `ErrandsHoldOn`, `StraysHoldTheirs`, `OneFollowUp`: a
  message holds a picture only once its goal has handed one on, an open errand hands
  on nothing, a stray's errand keeps the picture it was adopted for. Each is what some
  operator needs in order not to overwrite the last holder;
* `ShownIsSent`: a goal marked shown holds a picture that was posted.

Every operator that rewrites the goals has a lemma that says it keeps `Sound` and what
it leaves of its argument: `Keeps` (lines keep their names, and no picture loses its
last place), `Calms` (nothing new waits, opens again or is told: SENSE), `Stills` (the
same of every goal but the one being worked on). `Sense` is then a chain of such
lemmas. Its three passes (`FoldedIn`, `Rescued`, `SettleStrays`) are proved without an
induction schema, which the provers cannot instantiate: were the claim false after
some step, it would be false after a least one (`Least`, from the library's theorem
that `<` is well founded), and it holds before it.

`ErrandsInv` adds the rest of the state: `Woken` is `WaitingHasAWayBack` (that goals and
wakeups agree is what needs the rest), `Acting` (what the act in flight may count on of
the copy it holds), `Queued` and `Shelved` (each signal's picture is somebody's, or safe
once it is read), `LabHolds` and `RendersFor` (what renders are for), `Settled` (after
`settle_strays` every open message is awaited, until an act begins), `Saved`, `Counted`.
`MindStep` has one step per action of what a step does to the bookkeeping; `ActingStep`,
`QueuedStep`, `ShelvedStep`, `RendersForStep`, `SettledStep` take the other parts.

Of `WarmCard` it proves, for every set of labs, backends, shots and strays
(`WarmAssumption`), `OneWarmPipeline`, `NotUnloadedUnderARender` and, beyond the run,
`WarmHasATimer`. The invariant: `LockIsExclusive` (the render lock has one holder, be it
a job, the idle unload or a stopping lab), `ClaimHolds` and `PipeIsKnown` (a loaded
pipeline is the slot's, is being ousted by whoever took the slot, or had its slot freed
by a stray), `UnloadedFirst` (a slot is freed after its weights), `TimerIsOf`.
`WarmIsMinded` says which job a warm pipeline without a timer may count on: one whose
worker has the card, or one that left it warm in a lab that keeps it so and is still to
arm the timer.

`ContextsProofs`, for every set of calls, providers, models and contexts and every
number of parks and cuts (`ContextsAssumption`), proves `LoanKeepsTheCardClear`,
`NoWeightsAreLost` and `OneVoicePerContext`. The invariant: `InHand` (which thread has
a context), `LoadsAlone` (one load at a time, into an empty place of the cache),
`LoadIsPrivate` (nobody but its loader knows a context that is loading),
`RenderInHand` (what the park is closing or building), `OwnLock` (a live call that
generates holds the lock), `LateLoadsOnly`.

`HouseDaemonProofs`, for every number of starts, stops and inodes and every
`MAX_FAST_FAILURES` (`DaemonAssumption`), proves `OneDaemon` and
`StoppedMeansStopped`. The invariant: `FileInHand` (who has a file open), `LockIsHeld`
(past `acquire()` a supervisor has the lock of the file in its hand), `NamesItself`
(and the path names that file, unless it was unlinked), `SignedIt` (and its pid is in
it), `FoundIsNamed` (a stop signals a supervisor it read), `ServerIsWatched` (a live
server has a supervisor that will wait for it).

For every set of characters and any number of requests and faults (`HouseAssumption`)
it proves `TypeOK`, `OneRuntime`, `RowAndTreeAgree`, and two properties the run does
not list: `SomebodyAnswers` (while anything runs, the primary does) and `QuietMoves`
(a tree is moved away only when nothing runs on it, is built on it or copies it).
What a request will still do is a sequence that its own steps replace, so the
invariant has to say which plans fit which request:

* `AllWellAsked`: what a request carries (its operation, row, destination and plan) is
  one of the shapes the routes can make, and whoever is under way has read a row, an
  archive too, long before its tree moves; `GoodPlans` and `OnwardFits` show that every
  step's continuation is one again;
* `HostHeld`, `Host`: whoever builds or stops a runtime has the host's lock, and the
  character it does it to is not up; the lock has a holder that is doing so;
* `LifeHeld`, `LifeLock`: whoever clones, archives, purges or restores has had
  `lifecycle_lock` from before its stop;
* `BuildHasRow`: a row that was there before a build is there when the build ends;
* `KeptRows`: an archive has a row to restore, the one its request read;
* `Answers`: while anything is up the primary is, or a request is stopping it.

`OneRuntime` follows from `HostHeld` by `OneLive`. For `RowAndTreeAgree` the writers of
the registry are taken one by one (`DiskStep`): a stale row is written back only over
a row, or else leaves the character among the `torn`. A crash between
the rename and the row's removal is `CrashKeeps`.

**Only model-checked**: every liveness property (liveness under fairness is out of
this prover's reach), and `NoErrandForASeenPicture` of `Errands`, which no run lists.
Every invariant and every action property of the runs is proved, and so is each
refinement.

## 6. What the models leave out

* The bus's batch limit is 64 in the code and its cap far above that: `MindLoop`
  has both as parameters; `TimerPromise` and `Errands` read the whole queue at once.
* A tick's synchronous stretches are one action; a crash falls between actions and
  at awaits, not between two statements of a synchronous handler, except where the
  code writes two files in a row and the models separate them.
* `MindLoop` leaves out what a signal says. A failing write of `engine.json` appears
  there only.
* `TimerPromise`: a timer is set once and not cancelled; each promise names one
  timer; `delivered_timers` keeps every id (the code: the last 100); which tick
  chooses to review is free. `set_timer` given a goal to complete is left out.
* `Errands`: one task to begin with; root errands that need preparing (18.2c), the
  owner's own renders, research as dispatched work, progress counts, backoff,
  cooldowns, quiet hours, the daily cap and scores are left out or are free
  choices. A mind's render never completes its goal directly: the arguments that
  would say so are not shown to the mind. A suspend gap's sweep may follow any
  queue, a superset of the code's.
* `ParkGate`: how much of the card is free, and a runtime closing with renders in
  flight. A lab's jobs are one at a time: a second one queues on the lock and adds
  nothing to the door.
* `WarmCard`: hosted cameras claim nothing; whether a pipeline may stay warm is free.
* `Contexts`: preflights and their records, options, download details, LM Studio, a
  context that does not close cleanly. A call is made once, and any load may fail.
* `Conduct`: the score of Gate 2, the token budget's pressure and the guard's rate
  limits are free refusals; which goal is worked on is free.
* `VaultCommits`: `init_vault`, reads of the history, what a commit message says.
* `Night`: what a job writes, the partner rewrite's backlog, standing jobs, a night
  pinned to a day, dry runs, and other characters' nights, which share the lock.
* `Turns`: greetings, replays, two connections or a session two kinds share, an
  empty reply told from one that raised, other users of `vault_lock`.
* `House`: create and import, model settings, purge's one-use challenge, the mind
  switch, a cloning request that is cancelled, autostart apart from enabled, two
  archives within one second, a stop that raises, the words of states and errors.
* `Daemon`: logs, the record of the last exit, an attached run, systems without
  `flock`, the start command's own probe.

## 7. Not modelled, and what would come next

* **Memory and recall**, prompt assembly, compaction, the activity ladder's scores:
  numeric or textual functions of one writer at a time, whose unit tests reach what
  a model would.
* **Inbox, hub, channels**: a durable list that is marked read as a whole, queues that
  drop when full, the poll's offset in memory, delivery to the chat. A channel's turn,
  and the Stop that cuts it, are in `Turns`; that Telegram hands an unacknowledged
  update out again after a restart, and what the chat then sees, is not.
* **Tool server and client, research, self-edit**: protocol and filing; their effects
  arrive as contracts and signals, which `TimerPromise`, `Errands` and `Conduct` have.
* **Character cards, forge back ends, pairing, migration, most of the command line,
  environment files, debug pages, live checks, web client and desktop shell**:
  parsing, rendering and I/O. These make up most of the repository's lines, and are
  the reason the map covers a small part of it.

Next, in order: the proof of `NoErrandForASeenPicture`, which needs for each operator of
`Errands` what it does to the errands of a picture already posted; `Turns` with a
session that voice and text share, once the code decides what that should do; create,
import and purge's challenge in `House`. The runs are kept to a dozen, few enough to
repeat on every change.
