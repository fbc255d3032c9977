# Formal model of Subfloor

TLA+ modules, TLC configurations and TLAPS proofs for the code under
`src/.super-coder/`. Every definition here is translated from the Python and SQL
it cites in `PROJECT.json` (`map`). Four parts of the system are modelled:

- the *conversation runtime*, which turns messages into turns of a harness
  (section 2; the repository's guide is `docs/conversation-runtime.md`);
- *wake delivery*, which turns events into messages (section 3.1);
- the *sprint*, whose plan sends those messages (section 3.2);
- the *installation* under them: one database that updates, rollbacks and
  relocations move while servers want to use it (section 3.3).

1. [Inventory](#1-inventory): the system, its state, what is hard about it
2. [The conversation runtime](#2-the-conversation-runtime): modules and code
3. [What runs around it](#3-what-runs-around-it): wakes, sprints, the installation
4. [Runs](#4-runs): what is checked, with which bounds, and what it shows
5. [Liveness and fairness](#5-liveness-and-fairness)
6. [Proofs](#6-proofs)
7. [Disagreements found](#7-disagreements-found)
8. [Abstractions and what is not modelled](#8-abstractions-and-what-is-not-modelled)
9. [Plan](#9-plan)

## 1. Inventory

Subfloor runs coding agents ("shells") on one machine. Each shell is a seat
with one git worktree. A person feeds a shell through browser chats, or the
Sprint machinery wakes it. Everything durable is in one SQLite database; an API
server holds the background services as threads; the agents themselves are
native harness processes that outlive the server.

| Component | State | Operations | Talks to |
|---|---|---|---|
| Conversation broker | `conversation_runs`, `conversation_outbox`; in memory `_active`, `_wake`, `_deferrals` | claim, lease, renew, adopt, start, follow a stream, finish, linger, continue, defer, interrupt | API (commit notifications), harness adapters, registry |
| Conversation API verbs | `conversations`, `conversation_messages` | create, send, reopen, stop, close | broker, registry, `shell_liveness.terminate` |
| Active-chat registry | `active_shell_chats` | register, link and unlink a process, close, displace | every writer of a chat |
| Conversation reaper | `reaper_last_signal` on runs, `run.reaped` events | sweep: interrupt, SIGTERM, SIGKILL, record | broker (`interrupt`), process groups |
| Activity monitor | chat activity stamps | inactivity ceiling, recovery of failed wakes | registry, wake delivery |
| Shell liveness | none: reads `/proc` and the rows | who holds a worktree | launch preparation, API |
| Wake delivery | `sprint_wake_outbox`, `wake_message`, attempts | claim, expire, resolve or create a chat, enqueue, record, defer, fail | API verbs, broker |
| Engine-run wakes | `engine_wake_receipts`, `runs.wake_state` | record enqueue, reconcile a receipt, back off, block | wake delivery, runs |
| Background runs | `runs`, `meta.json` and an output file per run | admit, supervise, terminal callback, cancel, reconcile | wakes |
| Sprint domain | sprints, work units, assignments, review requests, spec revisions | arm, pause, resume, complete; plan, replan, dispatch, recall, resolve, cancel, reroute | wakes, PR watcher |
| Sprint runtime and recovery | none of its own | the pulse (delivery, polls, cleanup), resume and restart as a read and a commit | all of the above |
| PR watcher | registered pull requests, observations | register, poll, record, project a merge | GitHub, sprint domain, wakes |
| Review loop, close, cleanup | rounds, verdicts, cleanup rows and their claims | request, verdict, complete, remove a worktree under lease and lock | git, GitHub, sprint domain |
| Instance lifecycle | database files, relocation receipt, restore points, `engine.ref`, `update-runtime-intent.json`, the lease | update with service cutover, migrate, rollback, relocate and restore | review servers, file system |
| Review server | its database path, the shared lease | select, check, own, serve | every writer above |
| Everything else | | privileged brokers, VM and remote-seat drivers, memory, skills, map, git tools, UI, install and remove | |

What is hard in it, and hardly testable:

- *Several writers per row.* A turn's run row may be ended by its worker, by a
  recovery of the same run, by the reaper, or after a close; the chat row moves
  under all of them and under the API verbs.
- *Two lifetimes.* Threads and memory die with the server; rows and native
  processes do not. A run found after a restart may or may not have reached its
  process.
- *A turn is not its process.* A harness may report its result and work on. The
  run is then finished early and its process stays linked ("lingering"); later
  output opens a continuation run with the same message and process.
- *Check, then act.* Create closes one chat and registers another in two
  transactions; the reaper reads, signals and records in three; close commits
  and then kills.
- *Wakes, not polls.* Dispatch happens only after a commit notification, a
  worker's end or a restart. A lost wake is a stuck message.
- *Leases that lapse.* A wake claim, a broker lease and a cleanup claim expire
  under the thread that holds them, which goes on and reports later.
- *Evidence in two places.* The result of a background run is a row and a file;
  what a recipient was told is a row and a transcript; a merge is a row and a
  pull request. One is read, then the other, and they change in between.
- *Files without transactions.* An update changes an engine tree, two pins, a
  database that may have to move, a receipt, a restore point and an intent
  file, one at a time, and may die after each.

What would make each component correct, in a sentence:

| Component | Correct when |
|---|---|
| Broker | one live turn per shell, a prompt submitted at most once, an outcome never rewritten, every accepted message settled or visibly parked |
| API verbs and registry | one open chat per shell, named by the registry; a chat's state agrees with its queue |
| Reaper | it never signals the process of an open chat, and it ends what no chat links |
| Wake delivery | a wake is delivered once, in order, or fails visibly after three attempts; force-new never interrupts a live turn |
| Runs | one terminal result per run, the real one when it exists |
| Sprint domain | one lane per developer, released on completed work, told when done; a paused sprint holds still |
| PR watcher, review loop, cleanup | no merge without its verdict; every merge reaches the plan; one remover at a time, and success means gone |
| Instance lifecycle, review server | there is one database, no row of it is lost by a move, servers serve it and its schema, and what an update stopped it brings back |

`PROJECT.json` lists the hazards at the lines where they bite.

## 2. The conversation runtime

| Module | Models | Lines of code it stands for |
|---|---|---|
| `ConversationState` | transition tables, outcome of a message | `scripts/conversation_state.py`, migration 0132 |
| `ConversationTables` | the rows, the processes, the in-memory broker; Init; readings of the rows; the occupancy verdict | migrations 0132 and 0162, `conversation_launch.py`, `shell_liveness.py` |
| `ConversationBroker` | `BrokerStore` transactions, dispatch loop, worker thread, recovery, interrupt; crash and restart | `scripts/conversation_broker.py` |
| `ActiveChats` | create, wake displacement, send, reopen, stop, close, inactivity ceiling | `api/conversation_routes.py`, `active_chat_registry.py`, `activity_monitor.py` |
| `ConversationReaper` | candidates, ladder, outcome | `scripts/conversation_reaper.py` |
| `ConversationRuntime` | their composition, fairness, all properties | |
| `TurnContract` | what a sender is promised, with none of the machinery | |
| `MC_Conversation` | shells and symmetry of the instances | |
| `ConversationRuntimeProofs` | proof that every row keeps its shape | |
| `ConversationHistoryProofs` | proofs that outcomes stand and that a shell has one live run | |
| `ActiveChatProofs` | proof that a shell has one open chat | |
| `SubmissionProofs` | proofs that a prompt is submitted at most once, that a shell holds one process, and that a process that lost its link stays unlinked | |
| `TurnContractProofs` | proofs that the runtime implements `TurnContract`, that follow-ups survive all but a close, that a chat's state agrees with its live runs and its queue, and which steps may lose a wake | |

**State.** `chats`, `registry`, `messages` and `runs` are tables. A message row
carries its outbox intent. `procs` are operating-system processes: `alive`
under a server that knows them, `orphan` when their server has died, `gone`.
`workers[r]` is the thread that was activated for run `r`: `pc` is its place in
`_execute`, `cur` the run it writes to now (`_ActiveRun.run_id`, which a
continuation changes), `terminal` the terminal line it holds back. `broker`
holds the server: up or down, the wake event, whether the dispatch loop is
between its `clear` and its end. `creating` are creates between their two
transactions, `killing` the processes a committed close has still to terminate.

**Steps.** One write transaction is one step, and so is one adapter call.
Between a worker's steps anything may happen. The worker goes

    prepare -> start -> spawn -> native -> stream -> (end)
       |                                     |  \-> linger -> stream (continuation)
       +-> deferred, refused                 +----> reconcile -> (end)

and an adopted run enters at `prepare` (leased), `lost` (starting), `tail`
(running, process alive) or `reconcile` (running, process gone). Each label is
a step of `_execute`, `_consume_stream` or `_reconcile_loop`; a failing
`require_transition` or compare-and-set rolls the step back, which is why
`FinishRun` has the guard `FinishLegal` and `TryFinish` the other branch.

**Environment.** What a harness reports, when its process ends, whether a start
fails and what a reconcile finds are free choices. A server may crash at any
step, up to `MaxCrashes` times.

**The abstract specification.** `TurnContract` has two variables, the state and
the chat of each message, and four actions: accept, start in order and alone on
the shell, settle once, cancel unstarted. `KeepsTurnContract` is its `Spec`
under the mapping that forgets everything but the message rows; any other
writing of a message row is neither a step nor a stutter of it.

## 3. What runs around it

`SprintRuntime` composes three systems over one rigid variable, `part`: a
behaviour is about `wakes`, a `sprint` or the `files`. The services share the
runtime's pulse and one database, but no row that either model tells apart:
sprints send messages, which `SprintPlan` abstracts by `DeliverMail` and
`WakeDelivery` details; both write rows, which `InstanceSystem` abstracts by
`WriteRow`. Interleaving them would multiply states and add no behaviour.

| Module | Models | Lines of code it stands for |
|---|---|---|
| `WakeTables` | rows of messages, wakes, receipts, runs; send and coalesce | `sprint_message_delivery.py`, migrations 0164, 0173, 0275 |
| `WakeDelivery` | `SprintWakeDeliveryService` | `sprint_message_delivery.py`, `sprint_participant_chats.py` |
| `BackgroundRuns` | register, supervisor, result file, kill, reconcile | `runs.py`, `job.py` |
| `EngineWakes` | receipts, `SHELL_BUSY` ladder, replay, transcript evidence | `run_wakes.py`, `conversation_broker.py`, `activity_monitor.py` |
| `WakeSystem` | their composition, the recipient's chat, fairness, properties | |
| `SprintPlan` | lifecycle, units, dispatch, assignments, planner verbs | `sprint_domain.py`, `sprint_message_delivery.py` |
| `ReviewLane` | GitHub, the watcher, review rounds, resume and restart | `sprint_pr_watcher.py`, `sprint_review_loop.py`, `sprint_recovery.py` |
| `SprintCleanup` | the cleanup row, its claims, executors, the lock, manual retry | `sprint_cleanup.py`, migration 0201 |
| `SprintSystem` | their composition, fairness, properties | `sprint_close.py`, `sprint_runtime.py` |
| `InstanceState` | the files, selection of the live database, the lease, review servers | `instance_state.py`, `state_relocation.py`, `api/server.py` |
| `StateRelocation` | the move of the database out of the repository and back | `state_relocation.py` |
| `ServiceCutover` | update, migrate, rollback and its engine-only form | `update.py`, `migrate.py`, `rollback.py` |
| `OneStore` | what the users of an installation believe | |
| `InstanceSystem` | outings, composition, properties | |
| `SprintRuntime` | the composition of the three | `sprint_runtime.py` |
| `MC_Wakes`, `MC_Runtime` | workloads, agendas and outings of the instances | |
| `SprintProofs`, `WakeProofs`, `InstanceProofs` | section 6 | |

### 3.1 Wakes

A message (`letters[m]`) is joined to a wake (`wakes[w]`), the durable intent to
run the receiver once. The pulse claims a due wake under a lease
(`Claim`) with every undelivered message joined to it, waits for a quiet window
if it is force-new (`DeferForceNew`), resolves the chat or closes and creates
one in two transactions (`Resolve`, `Rotate`, `Create`), queues one turn per
batch under an idempotency key (`EnqueueTurn`) and records delivery
(`RecordDelivered`). `lease.pc` is
where the service is between those commits; `PulseDies` may cut it anywhere. A
failure goes back to pending, or to `failed` at the third attempt; for a wake of
the engine, a fault of transport is retried and what delivery itself refuses (an
invalid route, a closed chat, a key that names another prompt) fails the wake and
blocks the runs whose outcomes it carries.

A background run (`jobs[j]`) has a supervisor (`sups[j]`) that writes a result
file before the row. The pulse reads the row, probes the supervisor, reads the
file again and only then declares a run lost. A terminal run sends a message of
its own (`receipts[m]`), and a turn refused with `SHELL_BUSY` is replayed under
a new key along a ladder until the transcript shows it. `pulse` holds what the
pulse has read of one receipt when it writes.

*Properties.* `OnePendingWake`: the transactions that make a wake pending keep
one per receiver. `LetterIsCarried`: no hand-over strands an unread message.
`ForceNewStartsFresh`: such a message is queued only in a chat that its own wake
opened. `FailureIsSeen`, of each message that stays on a failed wake: one of the
sprint has paused the sprint; a run's outcome has its run blocked or is followed
by its own receipt; any other waits for the recovery of its wake or is flagged.
It excepts the one case the code forgets (section 7). `ConsumedWasShown`
and `ReplaysFollowRefusals`: an outcome counts as told only when the transcript
shows it, and is told again only after a refusal that has been counted, once for
each number in a chat. `LostHasNoEvidence`: a run is
not declared lost while its result exists.

### 3.2 Sprints

`book` is the sprint: its phase, its units with status, developer, needs,
assignment (`task`), review request (`ask`) and rounds, its registered pull
requests, and the closeout notices sent. `hub` is GitHub, `held` a reading of it
that has not been recorded yet (a poll's or a resume's). `target`, `hands`,
`tree` and the lock are the cleanup row, the executors, the directory and the
repository lock. A pull request is first subscribed (`Discover`, or by hand) or
registered for a unit (`RegisterPr`), in either order: registration links a
subscription and leaves what was recorded of it. So a row has two states, the
subscription's (`state`), which polls compare with, and the sprint's (`own`),
which reviews and resumes read.

A verb is one action because it is one transaction; it dispatches ready units,
retires assignments and announces the end inside it, as the code does. A poll, a
resume and every executor are sequences of steps with commits between them.

*Properties.* `OneLanePerDeveloper`, `ReleasedAfterUpstream`,
`AssignmentMatchesLane` and `ClosedIsAnnounced` relate units that different verbs
of different actors move. `MergeNeedsVerdict`: a unit is ready to merge, or
completed by a merge, only on the verdict that answers its latest request.
`CompletedSprintIsDone` and `PausedHoldsStill` bound what late events may do.
`OneRemover`, `SupersededWritesNothing` and `SuccessMeansGone` say what the
lapse of a claim in the middle of a removal cannot do.

### 3.3 The installation

`disk` holds what survives every process: the database in the repository
(`legacy`) and the owner-only one (`private`), the `candidate` of a move, the
relocation `receipt`, the newest preupdate backup (`points`), the runtime
`intent`, the engine version with `pin` and `prev`. A file is the set of its
contents, empty when it does not exist; a database is the number of migrations in
its ledger and the stamp of its newest row, which is what fingerprints and
ledger checks tell apart.

A review server selects its path when it is imported, checks the receipt, and
only then takes the shared lease and compares its ledger with the engine
(`LaunchServer`, `CheckServer`, `OwnServer`). A command is a program counter
over the files: `Updating` lays the engine, stops the runtimes and notes each,
takes the lease, relocates, backs up, migrates, repins, releases, restarts and
forgets; `RollingBack` restores database and engine, and reconstructs the
database in the repository for an engine older than private state (`Mirror`,
`SignOff`, `DropPrivate`); `Dies` ends any of them after any write. `Relocate`
is the case distinction a later command makes on what it finds.

The abstract specification is `OneStore`: one database that takes a row, a
migration or a restore point, and goes back to a restore point. `KeepsOneStore`
is its `Spec` with `store` mapped to `Authority`, the content that counts: the
receipt's while a move is announced, otherwise the private or the repository's
file. A move is therefore a stutter, at whichever step it dies and whoever
finishes it. `ServesTheAuthority` adds that servers have that very content open
and that its schema is that of their code. Both hold of servers launched at any
moment, in the middle of an update, after a death, around a rollback, but for one
that is *overtaken*: the files turn away, to the other place or to an older
engine, between its import and its lease. Under the lease the code reads no
receipt again, and compares the ledger with the engine then on disk rather than
with the code it runs, so that server may serve what was left behind (section 7). `overtaken`
is a record of the past no step reads; `ServesTheAuthority` excepts the servers
in it, and `OneStore` has a step `Miss` for the rows they write elsewhere. `RestartsAreRemembered`: a runtime an
update stopped is in the intent file or in a running update until one of them
has restarted it.

An *outing* says how an installation starts (an old floor whose updater laid the
new engine unpinned or pinned; a fresh private one; one whose engine is ahead of
its schema), who runs which commands, and how many rows, launches and deaths may
happen; `rush` lets servers be launched while commands run, also when these die
or go back. One person's commands meet one or two deaths, two persons' commands
one. Two limits are not only size, and concern two persons: no outing has two
updates at once, of which the second to finish forgets what the first has
stopped, and none has a rollback beside an update that moves the database, for
the rollback has chosen its file before it waits for the lease (section 7).

## 4. Runs

All instances are small because the state is wide: every run already has five
or more actors (dispatcher, worker, reaper, API, environment).

| Run | Instance | Checks | Shows |
|---|---|---|---|
| `one_chat` | 1 chat, 2 messages, 2 workers, 1 crash, closes, late heartbeats | `TypeOK`, `OneProcess`, `AtMostOnce`, `ChatStateIsHonest`, `NoOrphanMessage`, `OutcomeStands`, `UnlinkedForGood` | the turn and its process under every ending |
| `rotation` | 2 chats of 1 shell, 2 messages, 1 worker, closes | `OneOpenChat`, `FollowUpsSurviveStop`, `KeepsTurnContract` | creates, reopens, displacements and closes against a running turn |
| `seats` | 2 shells, 1 worker slot, a continuation | `NoLostWake` | capacity: the end of a worker is what dispatches the next turn |
| `carried_on` | 1 chat, 2 messages, 1 continuation, 2 workers, 1 crash | `OneLiveRun`, `OneProcess` | continuations against follow-ups that are claimed, deferred or recovered |
| `settles` | 1 chat, 2 messages, 1 crash, no closes | `QueuedSettles`, `RunningSettles` | progress |
| `sprint` | 16 agendas of a sprint, 11 workloads of wakes, 19 outings of an installation (below) | 21 properties | sections 3.1 to 3.3, safety |
| `runtime_settles` | 4 agendas, 5 workloads | `MergeReachesThePlan`, `CleanupSettles`, `LettersArrive`, `OutcomesSettle` | the same, progress |
| `late_settle`, `late_release`, `stopped_linger`, `displaced_error`, `wake_wedge` | as small as the case allows | one statement of the sources each | section 7 |

**Bounds of the conversation runs.** `MaxMessages` bounds accepted messages: two give a turn and a
follow-up, which is what queueing, lingering, deferral and a late worker need.
`MaxContinues` bounds continuation runs. `Procs` has one process more than
there are messages, so that a prompt submitted twice has a process to show it.
`MaxWorkers` is the pool size, 8 in the code; 1 is the case where capacity
binds, 2 the case where two workers overlap. `MaxCrashes` bounds crashes, and
`Stalls` and `Closes` switch late heartbeats and closes off where a run is not
about them. Each of the interesting cases occurs within these bounds: the
mutants and the violated runs are counterexamples found in them.

**Bounds of the runs of section 3.** `sprint` has 0.84 million states,
`runtime_settles` 53 thousand.

- *Sprint.* `MaxUnits` 3, `MaxPrs` 2, two developers, two owners: three units
  give a chain and a second lane, two pull requests a unit with more than one.
  `MaxHeads` 2 (one push after a review), `MaxRounds` 3 with `RoundCeiling` 2
  instead of 8, so that the ceiling is reached; `MaxTerms` 2 bounds changes of
  owner and of assignment. An agenda gives the number of planner `verbs`,
  pull requests the watcher may find (`finds`), `refusals`, `pushes`, `losses` (restarts, owners who leave) and `faults`; most
  pairs of kinds meet in one of them.
- *Cleanup.* One target, two executors, `MaxTries` 3 as in the code, one
  idempotency key for the manual retry.
- *Wakes.* `MaxLetters` 2, `MaxWakes` 4, `MaxChats` 4, `MaxTurns` 6, `MaxJobs` 2,
  `Ladder` 1 instead of 4 rungs. Two messages are what coalescing, absorption
  and hand-over need; one refusal more than the ladder reaches its end.
  `wake_wedge` needs three messages.  A workload has at most two things that go
  wrong at once, and the constraint `RunsInTurn` starts a second run once the
  command of the first has ended, so that their outcomes still share a wake and
  a turn while the two commands do not interleave.
- *Installation.* Three runtimes, `MaxFloor` 2 with ledgers 1, 1, 2: version 0
  knows no private state, version 1 introduces it without a migration, version
  2 has one. Two commanders. The outings are at most four commands long: there,
  back and there again, with the recoveries between.


Deadlock is not checked: when the messages are used up and every process has
ended, the runtime rightly waits for the next person to type. The same holds of
a workload, an agenda and an outing that are used up.

**Mutants.** For each property `PROJECT.json` names a definition and a
plausible wrong form of it, kept beside it in the module ("A mistake to be
caught"), with which TLC finds the property violated.

**What the properties say together.** A shell has one open chat
(`OneOpenChat`), one live turn (`OneLiveRun`) and one process (`OneProcess`).
A prompt reaches a harness at most once (`AtMostOnce`), its run's outcome is
final (`OutcomeStands`), its message is not left behind (`NoOrphanMessage`) and
its chat's state can be trusted by the next verb (`ChatStateIsHonest`). A
follow-up is cancelled only by a close (`FollowUpsSurviveStop`). The reaper's
three-step check cannot be overtaken by a new link (`UnlinkedForGood`). What the
properties of run `sprint` say is in sections 3.1 to 3.3.

`NoLostWake` is checked without closes and without crashes because with either
it fails, and in one way only: the reaper ends a turn that has no worker any
more, which frees the shell or puts the chat back to queued, and it wakes
nobody. With closes: a chat is closed during a turn and reopened by a send; the
worker cannot commit its outcome (section 7) and leaves; the dispatcher finds
the shell taken; the reaper then ends the old run. With a crash: the late
release of an earlier turn unlinks the process of a running one (section 7),
the server dies, the restarted one may not adopt that run, and the reaper ends
it before a waiting follow-up. The intent waits for the next commit. The
documentation promises no more than the wakes it lists, so this is noted here
and not reported as a disagreement; the theorems of section 6 say that there is
no other way.

## 5. Liveness and fairness

**Conversations.** `Fairness` is weak fairness of: the dispatch loop; each worker's own steps; the
lease clock; adoption; the reaper; each process ending; and a restart. The
threads are daemon loops that retry after every exception (`run`,
`_reconcile_loop`, `sweep_once`), a lease is a time stamp, and the API server
is supervised. Processes ending is an assumption about harnesses: a turn that
never ends may run for ever, and nothing in the code bounds it while its chat
is open and active. Nothing is assumed of people: `Report`, `Send`, `Stop`,
`Close`, `CreateCloses` and `Crash` carry no fairness.

`RunningSettles`: a started message settles, though its server died in any
step. `QueuedSettles`: an accepted message settles, or it waits in a chat in
`error`. The exception is what the code does: `finish_run` puts the chat of a
failed turn in `error`, from which only a send leads back to `queued`, so
follow-ups accepted during that turn wait for the person. Both are checked
without closes, because of the finding on late settlement.

**Wakes.** `WakesFairness` is weak fairness of delivery, of the recovery of
failed wakes, of each step of a pulse that has begun, of clocks, of the start and
end of turns and of supervisors; strong fairness of taking up each run and each
receipt, because the pulse passes over all of them in one round and the model
takes one at a time. Nothing is assumed of senders, of the recipient who reads,
of faults and deaths. `LettersArrive`: a message arrives, or its failure is
recorded, or it waits for a paused sprint. `OutcomesSettle`: an outcome is
consumed or visibly blocked. They are checked on workloads with one crash or
one fault; three messages with two faults are `wake_wedge`, and a crash together
with a refusal is left out (section 7).

**Sprints.** `SprintFairness` is weak fairness of recording a poll, of each
executor of the crew, of retry times and of the lapse of a dead executor's
claim, and strong fairness of polling each pull request, for the reason above.
`MergeReachesThePlan`: a merge on GitHub of a registered pull request, when it is
still to be recorded, closes its unit or is on record as a bypass, through
restarts, pauses and polls cut short. (One recorded before the registration
never does: section 7.) `CleanupSettles`: a
cleanup ends in success or a visible failure, though executors stall, die and
lose their claims.

**Installation.** Nothing: commands are people's.

## 6. Proofs

**Conversations.** Every theorem holds for all values of the constants that satisfy
`TablesAssumption`: a function from chats to shells, a value that is no chat,
natural bounds and at least one worker. Nothing else is assumed, save where the
statement says so; in particular the theorems hold with late heartbeats, closes
and any number of crashes.

| Theorem | Module | Statement |
|---|---|---|
| `TypesHold` | `ConversationRuntimeProofs` | `Spec => []TypeOK` |
| `OutcomesStand` | `ConversationHistoryProofs` | `Spec => OutcomeStands` |
| `OneLiveRunHolds` | `ConversationHistoryProofs` | `Spec => []OneLiveRun` |
| `OneOpenChatHolds` | `ActiveChatProofs` | `Spec => []OneOpenChat` |
| `AtMostOnceHolds` | `SubmissionProofs` | `Spec => []AtMostOnce` |
| `OneProcessHolds` | `SubmissionProofs` | `Spec => []OneProcess` |
| `UnlinkedForGoodHolds` | `SubmissionProofs` | `Spec => UnlinkedForGood` |
| `NoOrphanHolds` | `TurnContractProofs` | `Spec => []NoOrphanMessage` |
| `FollowUpsSurvive` | `TurnContractProofs` | `Spec => FollowUpsSurviveStop` |
| `ContractKept` | `TurnContractProofs` | `Spec => KeepsTurnContract` |
| `HonestHolds` | `TurnContractProofs` | `Spec => []ChatStateIsHonest` |
| `OnlyTheReaperLosesWakes` | `TurnContractProofs` | `Spec /\ [][~ReaperRequeues]_vars => []NoLostWake` |
| `NoLostWakeHolds` | `TurnContractProofs` | `Spec => []NoLostWake`, if `~Closes` and `MaxCrashes = 0` |
| `OnlyClosesLeaveRunsLive` | `TurnContractProofs` | `Spec => WorkerSettlesRun`, if `~Closes` |

Each proof has the same shape. A predicate on one step says, actor by actor,
all that the argument needs to know of it; one lemma for each actor (`Work`,
`Dispatch`, recovery, `Sweep`, `Api`) shows that its actions satisfy it; and
the invariant follows from the predicate without looking at the actions again.

- **Types.** `TypeInv` is `TypeOK` and that a worker at work holds a run. The
  second part is what makes the row of a continuation well formed: it copies
  the message of `runs[workers[w].cur]`.
- **History.** `RefInv` says that rows refer to rows that exist. `HistoryStep`
  says that a step either moves live runs only (`RunsSettle`) or creates one
  live run on a shell that has none (`RunAppears`), that accepted messages stay
  in their chat and that chats do not vanish. So a finished run keeps its
  outcome. Two live runs of a shell would need the second to appear beside the
  first, or a run to change its message or a message its chat.
- **Open chats.** `OpenInv` adds to `OneOpenChat` that a registry row names a
  chat of its own shell and that a chat between the two transactions of create
  does not exist yet. Without the first, closing the chat a shell has open
  could touch another shell's row; without the second, the registering
  transaction could be a reopening of a chat that another step had created.
- **Submission.** `SubmitInv` rests on `SubmittableIsSole`: a run that is leased
  or whose worker is at the start call is the only run of a message without
  process. It needs that messages nobody claimed have neither run nor process
  (`UntakenIsFresh`), that only the run's own worker can be at its start call
  (`WorkersKnowTheirRun`: a worker that follows a continuation writes to a run
  past its start), and that such a run names no process, so the reaper leaves
  it alone (`NoEarlyProcess`). Steps that submit nothing are `Quiet`, and the
  start call is treated by itself (`LaunchKeeps`).
- **One process.** `SlotInv` says that living processes of one shell are the same
  process, and of a live run whose worker is between the preparer's verdict and
  the call of the harness (`AboutToStart`) that no process lives on its shell
  (`SlotHeld`). The verdict is a look at `/proc` in one transaction and the call
  comes two steps later, so the second part is what has to survive the steps of
  everybody else: only a launch could break it, a launch needs a live run whose
  worker is at the call (`SubmitInv`), and the shell has one live run. Processes
  that linger or were orphaned need no clause of their own: they live, and the
  verdict counts them.
- **Links.** A link is made by one step, the start of a run, for the process its
  worker has just launched. `LinkInv` says that no row names that process before
  (`NativesWait` and `PidsServe`: a row names a process of its own message only;
  `UnstartedSole`: the starting run is the only one of its message). So the link
  that is made is never that of a candidate. A reopening send makes a row that
  names none.
- **Contract.** `ContractInv` says that a message is queued exactly while its
  intent is pending, that a recorded close has closed its chat and left nothing
  pending there, and `NoOrphanMessage`. The last gives the guard of the
  contract's `Start`: a message in progress on the shell would have a live run,
  which the claim excludes. The second is why a terminal commit settles one
  message and cancels none, although `finish_run` has code for both: a step of
  the contract does one or the other. `MessageStep` lists the ways a step may
  write message rows, and `MessageStepRefines` maps each to the contract. The
  one way that cancels queued messages closes their chat in the same step, which
  is `FollowUpsSurvive`.
- **Chat states.** `HonestInv` is `ChatStateIsHonest` and that live runs of one
  shell are the same run; the latter makes the end of a run the end of all live
  runs of its chat (`EndOfRun`), so `finish_run` may leave the chat `idle` or in
  `error`. The argument for the other chats is that a step leaves their state,
  live runs and queue alone or closes them (`StaysHonest`). It uses the contract
  invariant: without `ClosingInv`, a recorded close could cancel the intents a
  chat is left `queued` for.
- **Wakes.** `NoLostWake` is inductive but for one step. A step either makes
  nothing claimable and lets nobody go (`NothingNew`), or leaves somebody who
  will look (`Attending`): a commit that notifies, a worker that stays or wakes
  the dispatcher as it leaves, a restart that dispatches. The exception is
  `ReaperRequeues`, the reaper ending a live run when no worker is active;
  `OnlyTheReaperLosesWakes` is the theorem of all behaviours without it. For the
  configuration of run `seats`, and any size of it, `CalmInv` shows the exception
  away: chats stay open and `running` while a live run has them, so that no
  terminal commit is refused (`FinishCalm`) and every running turn keeps its
  worker (`TurnsFollowed`); the reaper needs a recorded process, so it ends a
  running turn only.
- **Settlement.** Run `late_settle` refutes `WorkerSettlesRun` with a close and a
  reopening send. `OnlyClosesLeaveRunsLive` shows that nothing else does, crashes
  and expired leases included: it keeps of `CalmInv` the part a crash leaves alone
  (`SteadyInv`), under which a terminal commit of a run past its lease is legal
  (`LiveFinishLegal`) unless it reports success of a run still `starting`;
  `StreamInv` adds that a worker with an outcome to report follows a run that has
  started. A fix of the finding may thus look at `finish_run` after a close, a
  displacement or a rotation alone.

**Sprints** (`SprintProofs`). The theorems hold for any number of units, pull
requests, heads, rounds, terms, developers, owners, executors and retries and
every agenda.

| Theorem | Property |
|---|---|
| `OneLaneHolds` | `OneLanePerDeveloper` |
| `FoundationsHold` | `ReleasedAfterUpstream` |
| `NoticesHold` | `ClosedIsAnnounced` |
| `AssignmentsHold` | `AssignmentMatchesLane` |
| `VerdictsHold` | `MergeNeedsVerdict` |
| `CompletionHolds` | `CompletedSprintIsDone` |
| `PauseHolds` | `PausedHoldsStill` |
| `OneRemoverHolds`, `SuccessHolds`, `FenceHolds` | `OneRemover`, `SuccessMeansGone`, `SupersededWritesNothing` |

`SprintInvariant` is one invariant of two halves, for a step moves one or the
other. `PlanInv` says of the units (`UnitsOK`) that each row keeps its assignment
and its approval consistent with its status (`Assigned`, `Approved`), that lanes
are held once (`Laned`) and stand on completed units (`Founded`); and that an
armed sprint with nothing open has told its owner (`Told`), a completed one has
nothing open (`Done`). Most verbs are `Modest`: they occupy no lane anew and
reopen nothing, and `ModestSteps` is enough for them. Release is the exception,
and `Dispatched` is treated once, for all verbs that end in it. A verdict or a
merge uses `Approved`, which is why it is in the invariant: `merge_ready` alone
does not say that the latest request was answered. `CleanupInv` says that
whoever is inside the directory holds the repository lock: `OneRemover` follows
from the lock being one, and would not follow from the claims, which may lapse.

**Wakes** (`WakeProofs`). The theorems hold for any number of messages, wakes,
chats, turns and runs and every workload.

| Theorem | Property |
|---|---|
| `OnePendingHolds` | `OnePendingWake` |
| `LettersCarriedHolds` | `LetterIsCarried` |
| `ForceNewHolds` | `ForceNewStartsFresh` |
| `ConsumedHolds` | `ConsumedWasShown` |
| `FailureHolds` | `FailureIsSeen` |
| `ReplaysHold` | `ReplaysFollowRefusals` |
| `LostHolds` | `LostHasNoEvidence` |

`WakesInv` is `Core` (mail, desk, turns, lease) and `Followed` (receipts, runs).
What `Core` adds to the properties is about a claim in progress (`HeldOK`,
`LeaseOK`): its wake is delivering and carries every undelivered message joined
to it, each of which is in a turn already or in a batch still to be queued, and
an assignment's chat was made by this wake; between a queued turn and its record
the turn is there to be found (`QueuedOK`); delivery and the pulse's follow-up
of receipts never overlap (`Alone`). Without them, the commit that marks
messages delivered could mark one that no turn tells (`ToldOK`). `Followed` carries the pulse's reading of a receipt
(`PulseOK`): the turn it read may have been replayed since, so a reading proves
only that *some* turn of the message was shown, which is what `ConsumedWasShown`
needs.

Two more invariants stand on `WakesInv`, and their steps cite it as a lemma.
`ReplaysInv`: a message whose refusals were counted has been refused; from the
moment the pulse counts until it is done with the receipt, its view agrees with
the row, so the number a replay is queued under is one that was counted; and
within a chat a number is used once. `FailInv`: each message left behind on a failed
wake is seen, by itself, or is the exception; a wake held for the sprint carries an undelivered message of the
sprint; a run that told its outcome is over. Failing a wake strands all its
messages at once, so the proof follows the *fate* of a message (`Fates`): none
joins a failed wake, and those on one leave it together or for a recovery.

**The installation** (`InstanceProofs`). The theorems hold for any number of
engine versions, any ledger, any runtimes and any number of writes, deaths,
launches and retries.

| Theorem | Property |
|---|---|
| `RuntimeTypes` | `RuntimeTypeOK`, with `SprintTypes` and `WakeTypes` |
| `ServersHold` | `ServesTheAuthority` |
| `RestartsHold` | `RestartsAreRemembered` |
| `OneStoreHolds` | `KeepsOneStore` |

Types hold for any number of persons: `TypesInv` says that the pin is always
there and what each command must find for its next write to be one (`Fits`);
the lease keeps others from taking it away. The other three are theorems of
`RuntimeSpec /\ OnePerson`, the behaviours in which commands come one after the
other; servers are launched at any moment, a command may die after
any of its writes, and any command may follow. Without that hypothesis the
properties are false beyond the bounds of the run, in two windows of section 7.
Thirteen of the run's nineteen outings satisfy it; TLC alone speaks for the other
six.

`FilesInv` says where the database is for each state of the receipt (`Placed`),
that an engine without private state finds its database in the repository
(`OldEngineFinds`), that no database is older than the first ledger (`OldEnough`);
of a server, that what it has checked so far is still so or the server is
overtaken (`ServerOK`, and `ServersStay` for the steps that move files); of the
command, what it may rely on by how far it has come (`Underway`, `Moving`,
`Noting`), and that it alone is busy and holds the lease exactly between taking
it and leaving (`OneBusy`). The order of the writes of a move is what makes `Placed`
inductive: the receipt announces only a candidate equal to the repository's
file, and that file goes only after the seal. With it, `StoreMoves` shows every
step of a move to be a stutter of `OneStore`, and each other write to be one of
its steps (`StoreWrite`, which tells a row of the store from one of an overtaken
server, `StoreAdvance`, `StoreSave`, `StoreRestore`).

**What stays with TLC**: the liveness properties, which rest on fairness and
`ENABLED`; `NoLostWake` beyond the hypotheses of its two theorems, where it is
false; and the installation with two persons. Every other property of the passing runs is stated by a theorem.
No module declares a `RECURSIVE` operator.


## 7. Disagreements found

Five runs expect a violation. Each checks one statement a source makes of
itself; TLC refutes it with what the code does.

1. **A turn that cannot be settled** (`late_settle`). A chat is closed while its
   turn starts, and a send reopens it before the turn has ended, so the chat is
   `queued`. `finish_run` must now take it to `error`, which is no edge from
   `queued`; the transaction rolls back, and so does the retry in `_execute`.
   The worker ends and the run stays live. The module comment of
   `conversation_broker.py` says that such an outcome "is recorded as unknown".
   The shell takes no turn until the chat is closed again.
2. **A late release** (`late_release`). `release_process_link` clears the
   registry's process by shell and chat, whatever process is linked by then. A
   follow-up turn that started between the lingering process's end and that
   commit loses its link and becomes a candidate of the reaper.
3. **A stopped turn that lingers is never reaped** (`stopped_linger`). The
   reaper ends a ladder at the event `run.interrupted`, which it takes for its
   own; the broker writes the same event for each cancelled turn.
4. **Displacement in error** (`displaced_error`). `close_for_displacement`
   cancels queued work of a chat that is queued or running, but a chat in
   `error` may have pending follow-ups too. They stay pending on the closed
   chat.
5. **Two expired claims of one receiver** (`wake_wedge`). A failed delivery
   cannot go back to pending beside a newer pending wake, and waits as an
   expired claim. A second one beside it makes the requeue, one `UPDATE` for all
   receivers, violate the one-pending index; `claim_next` raises on every pulse
   and nothing is delivered. `docs/README.md:756-758` promises durable delivery
   intent for every wake message.

**Other behaviour worth knowing**; what a source says of it is quoted. Of
conversations:

- A server that dies between `bind_archive` and `mark_starting` leaves a lease
  that cannot be bound again; the turn fails, though nothing was sent.
- A process that lingers across a crash reads as an orphan, so its chat's
  follow-up fails with `SHELL_BUSY` where it would have been deferred.
- Of a turn whose start races a displacement, the process may live with no row
  naming it: `set_process` raises, the run ends as `unknown`, and only the
  occupancy scan sees the process.
- A run whose lease runs out while its worker has moved on to a continuation
  may get a second worker, for `_active` is keyed by the original run.
- The `close_after` branch of `finish_run` never closes a chat: the request
  that sets it closes the chat in its own transaction.

Of wakes:

- A crash after a turn is queued and before delivery is recorded delivers again,
  and `record_enqueue` then moves the receipt to the turn that is queued now. If
  that is the first turn again, which was refused and counted, the receipt
  waits. If it is another turn of the message, the retry that was due replays a
  turn that may never have been refused, where `docs/runs.md:43` says that
  "ordinary native failures are not replayed".
- After the same crash the second claim may fail for good and block the run
  (`wake_state = 'blocked'`); the receipt of the first delivery, when it is read
  next, says `enqueued` again.
- The same crash, followed by a new message that claims before the lease
  expires, queues the first message in two turns.
- Reconciliation of a run that was read with stale metadata may null its process
  id. A run is declared lost after thirty seconds although a slow supervisor may
  still launch it.
- A message that shares a wake of the engine with a run's outcome is lost when
  the wake fails for good: the run is blocked, but no recovery takes the wake, for
  it has been told of a run, and no flag is raised (`run_wakes.py:91-96`,
  `activity_monitor.py:150-176`). This is the exception of `FailureIsSeen`.

Of sprints:

- A pull request merged while the sprint is `prepared` is projected to no unit
  until a resume or a restart (`sprint_domain.py:4958`), although
  `docs/sprint-pr-watcher.md:101-104` can be read as promising it at once;
  merged and closed pull requests are not polled again.
- A pull request the watcher follows before it is registered
  (`SprintPRWatcher.subscribe`, `discover_once`) keeps what was recorded of it:
  registration only links it (`sprint_pr_watcher.py:391-397`), an unchanged
  reading records nothing (`1294-1300`), and review and resume read transitions
  recorded for the sprint (`sprint_domain.py:2034-2042`). A merge seen before the
  registration therefore never reaches the plan, which is why
  `MergeReachesThePlan` speaks of merges still to be recorded; a green seen
  before it cannot be sent to review until the state changes once more.
- A merge recorded as a bypass of a unit in review is applied after the later
  approval only by a resume or a restart.
- After a reroute, a developer who requests a review before reading the new
  assignment makes it unreadable; declining the assignment of a rerouted active
  unit leaves the unit active.
- A manual cleanup retry leaves the count of attempts where it was.

Of the installation:

- A server that has passed its receipt check, while an update announces a move
  and dies, takes the free lease and writes to the file the receipt no longer
  calls live, although "a durable ``publishing`` receipt remains fail-stopped"
  for ordinary consumers (`instance_state.py:634-636`). A server whose checks
  precede a rollback and whose lease follows it runs the new code on the old
  schema, although `require_current_schema` promises to "fail loudly before new
  engine code touches an older DB schema" (`api/server.py:315`): it is called
  under the lease (`api/server.py:6529`), but reads the migrations of the engine
  then on disk, which the rollback has laid back, while the code that runs was
  imported before. The receipt is read before the lease (`api/server.py:6611`)
  and the path at import (`api/server.py:118`). These two windows are
  `overtaken`, the exception of `ServesTheAuthority` and of `KeepsOneStore`
  (section 3.3); the run `sprint` reaches both, and the properties hold of every
  other server.
- `migrate` and `rollback` choose their path before the lease. If another
  person's update moves the database in between, `rollback` acts on the old
  path: it lays an engine without private state back and does not bring its
  database back to the repository. No run includes this.
- Of two updates at once, the second to finish clears an intent it never loaded.
  No run includes this either.
- A crash between the stop of a runtime and the note of it forgets the runtime.
- `--engine-only` refuses the half floor that the present updater leaves, whose
  pin is still the previous one (`rollback.py:200-205`), although
  `api/server.py:352` recommends it.
- A crash of `restore_legacy_for_old_floor` between its receipt and the removal
  of the private database leaves two databases that every command refuses. After
  a completed one, any row written to the database in the repository makes every
  later update refuse it as conflicting with its receipt.
- An update that finishes a published move takes no restore point
  (`update.py:1574`): rows written since are not in the one a rollback will use.
- `update --no-fetch` after an update replaces the restore point and keeps
  `engine.ref.prev`: a rollback then pairs the migrated database with the
  previous engine, whose server starts on it.
- The health check of a restart is satisfied by any server on the port.

## 8. Abstractions and what is not modelled

Everywhere: a write transaction is one step, for SQLite serialises writers, and
reads before it are in its guard only where the code repeats them inside. Time
is a choice. Idempotency keys are modelled where a retry relies on them.

**Conversations**

- The outbox state `claimed` is left in the transaction that writes it, and
  `waiting` is in the table but nothing writes it.
- A finished run's lease, archive and interrupt intent are dropped: nothing
  reads them.
- The worker's last commit and `_deactivate` are one step; so are the reaper's
  check, signal and record, which `UnlinkedForGood` justifies.
- Deferrals are not counted (120 in the code): running out of them is
  `PrepareRefused`, as is a CLI session in the worktree.
- Only print-mode subprocess harnesses, whose stream ends with the process.
- One broker: the service starts after the TCP bind, so lease owners are not
  told apart. A stopped server and a crashed one are the same.
- Stop on a lingering process signals it and changes no row; its effect is
  `ProcessExits`.
- Versions, route bindings, titles, uploads and event rows are data, except the
  events that end a ladder (`rung`) and record a close (`closing`).
- Process ids are not reused: the code compares start ticks.

**Wakes**

- One receiver: rows of different receivers meet only in the requeue of finding
  5. One service thread, so the owner of a claim is implied by `lease`.
- A run's exit status is folded into "done". Receipts of dev-kit runs, deletion
  of owners, the age limit of a recovery and the retry after an `OSError` of a
  replay are left out.
- The code reads all receipts of a pulse, then retries once per shared turn; the
  model reads again for each message, which allows more interleavings.
- The sprint's own messages (assignments, review requests) appear here with
  their kind only, and in `SprintPlan` with their effect.

**Sprints**

- Waves are part of the order of units. One reviewer. A planner's verb is what
  its transaction does; who may call it is not modelled.
- `authorize_merge` answers a question and changes no plan. Reports, liveness
  expectations, spec revisions and approvals, route bindings, coordinate mode,
  interrupts and the repair of an aborted registration are left out; that repair
  (`reconcile_aborted_registration`) completes a unit without a verdict, so
  `MergeNeedsVerdict` says nothing of it. The bounded pickup recovery appears as
  `SystemPauses`.
- All merges of one transaction are applied together (`MergesSeen`). GitHub does
  not reopen pull requests.
- Cleanup: whether a claim is still an executor's own (`mine`) stands for equal
  generations; `tries` saturates at `MaxTries`; the repository lock of a failure
  is left before its row is written, as in the code; notices are left out.

**Installation**

- Copies are atomic, though `restore_db` copies in place. Rows that an update
  itself writes after its migrations are not told apart from the migration.
- Only preupdate restore points, and of these the newest. Prerollback,
  premigrate and prerebuild copies are never chosen while one exists.
- Auxiliary files (snapshots, logs), the discard of a blank database in the
  repository, unbound installations, the rebuild of a missing database, brokers,
  skills and linked worktrees are left out; so are the writers of the command
  line, which take no lease, and a stop that fails in `Undo`.
- `OldUpdate` is an updater of an engine that is not in this repository.

**Not modelled**, with reasons, are the components `PROJECT.json` marks
`not_modelled`: install, remove and eject are one-shot sequences of file
operations; privileged brokers, virtual machines, browsers and probes drive
external programs; memory, skills, map and git tools are single-transaction
commands over independent rows; the interface keeps no state of its own.

## 9. Plan

Modelled are the four parts this document describes. Left, in order of worth:

1. Proofs: the installation with two persons, where the lease has to do what one
   person's order does now; and what the violated runs leave open, namely under
   which hypotheses `RunningTurnKeepsLink` does hold.
2. Wakes of several receivers, whose rows the requeue of finding 5 couples; the
   sprint's liveness expectations and its bounded pickup recovery.
3. Snapshot and rebuild beside migrations; the writers that take no lease.
