------------------------- MODULE ConversationBroker -------------------------
(***************************************************************************)
(* The dispatcher of browser turns: it claims the oldest eligible outbox   *)
(* intent as a leased run, gives the run to a worker thread that launches  *)
(* one native process and follows its stream, and recovers runs whose      *)
(* lease expired.                                                          *)
(*                                                                         *)
(* The harness is external: which events a process emits, when it exits    *)
(* and what a reconcile finds are free choices, within what the adapters   *)
(* can observe.  The modelled harness is the print-mode subprocess, whose  *)
(* stream ends when its process exits.                                     *)
(***************************************************************************)
EXTENDS ConversationTables

-----------------------------------------------------------------------------
(* BrokerStore: the transactions. *)

\* A mistake to be caught: the shell's live run is not looked at.
ClaimableBesides ==
    {m \in Messages :
        LET c == messages[m].chat IN
        /\ messages[m].outbox = "pending"
        /\ chats[c].state = "queued"
        /\ IsActive(c)}

\* The outbox intents claim_next may turn into a run.
Claimable ==
    {m \in Messages :
        LET c == messages[m].chat IN
        /\ messages[m].outbox = "pending"
        /\ messages[m].state = "queued"
        /\ chats[c].state = "queued"
        /\ ~ chats[c].closing
        /\ IsActive(c)
        /\ \A k \in Messages :
              /\ messages[k].chat = c
              /\ k < m
              => messages[k].state \notin {"queued", "running"}
        /\ LiveRunsOn(ShellOf[c]) = {}}

\* A mistake to be caught: waiting intents are not looked at.
FinishTargetIdle(outcome, pending) ==
    IF outcome \in {"failed", "unknown"} THEN "error" ELSE "idle"

\* Where a finished run leaves its conversation, given the intents that stay.
FinishTarget(outcome, pending) ==
    IF outcome \in {"failed", "unknown"} THEN "error"
    ELSE IF pending THEN "queued" ELSE "idle"

\* A mistake to be caught: the end of any turn cancels what waits behind it.
CancelledByAnyFinish(r) == PendingOf(ChatOfRun(r))

\* A recorded close cancels the intents still pending when the run finishes.
CancelledByFinish(r) ==
    IF chats[ChatOfRun(r)].closing THEN PendingOf(ChatOfRun(r)) ELSE {}

FinishedChatState(r, outcome) ==
    FinishTarget(outcome, PendingOf(ChatOfRun(r)) # CancelledByFinish(r))

\* Every require_transition of finish_run passes; if not, it raises and the
\* transaction rolls back.
FinishLegal(r, outcome) ==
    LET c == ChatOfRun(r) IN
    /\ TransitionAllowed(RUN_TRANSITIONS, runs[r].state, outcome)
    /\ \/ chats[c].state = "closed"
       \/ /\ TransitionAllowed(CONVERSATION_TRANSITIONS, chats[c].state,
                               FinishedChatState(r, outcome))
          /\ chats[c].closing =>
               TransitionAllowed(CONVERSATION_TRANSITIONS,
                                 FinishedChatState(r, outcome), "closed")

\* A finished run.  Its lease, archive and interrupt intent are never read
\* again, so they are dropped.  "run.interrupted" is also the event that ends
\* a reaper ladder.
Settled(r, outcome, exited) ==
    [NoRun EXCEPT !.state = outcome,
                  !.msg   = runs[r].msg,
                  !.pid   = IF exited THEN None ELSE runs[r].pid,
                  !.rung  = IF outcome = "cancelled" THEN "ended"
                            ELSE runs[r].rung]

\* The terminal commit of a live run: run, message, conversation and
\* registry link change together.  keep leaves the process linked (the turn
\* lingers); exited says the caller watched the process exit.
FinishRun(r, outcome, keep, exited) ==
    LET c      == ChatOfRun(r)
        s      == ShellOf[c]
        open   == chats[c].state # "closed"
        closes == open /\ chats[c].closing
    IN
    /\ FinishLegal(r, outcome)
    /\ runs' = [runs EXCEPT ![r] = Settled(r, outcome, exited)]
    /\ messages' = [m \in Messages |->
          IF m \in CancelledByFinish(r)
          THEN [messages[m] EXCEPT !.state = "cancelled",
                                   !.outbox = "cancelled"]
          ELSE IF /\ m = runs[r].msg
                  /\ messages[m].state \notin TERMINAL_MESSAGE_STATES
               THEN [messages[m] EXCEPT !.state = MessageOutcome[outcome]]
               ELSE messages[m]]
    /\ chats' = IF ~open THEN chats
                ELSE [chats EXCEPT ![c].state =
                        IF closes THEN "closed"
                        ELSE FinishedChatState(r, outcome)]
    /\ registry' = IF closes THEN Unlink(s)
                   ELSE IF ~keep /\ registry[s].chat = c
                        THEN [registry EXCEPT ![s].proc = None]
                        ELSE registry

\* finish_run as its callers see it: a terminal run is left alone, an illegal
\* edge raises and leaves every row as it was.  _execute then tries once more
\* with "unknown", which the same edge refuses: only a chat in error would
\* tell the two apart, and that chat has no live run (ChatStateIsHonest).
TryFinish(r, outcome, keep, exited) ==
    \/ /\ Live(r)
       /\ FinishRun(r, outcome, keep, exited)
    \/ /\ ~(Live(r) /\ FinishLegal(r, outcome))
       /\ UNCHANGED rows

-----------------------------------------------------------------------------
(* The dispatch loop. *)

Capacity == MaxWorkers > Cardinality({w \in Runs : Active(w)})

\* run: the event is cleared before dispatch, so a later commit sets it again.
BeginDispatch ==
    /\ broker.up /\ broker.wake /\ ~broker.dispatching
    /\ broker' = [broker EXCEPT !.wake = FALSE, !.dispatching = TRUE]
    /\ UNCHANGED <<rows, procs, workers, creating, killing>>

\* claim_next and _activate: one transaction, then a worker for the run.
ClaimNext ==
    /\ broker.up /\ broker.dispatching /\ Capacity
    /\ \E m \in Claimable, r \in FirstUnused(Runs, runs) :
         LET c == messages[m].chat IN
         /\ \A k \in Claimable : m <= k
         /\ messages' = [messages EXCEPT ![m].state = "running",
                                         ![m].outbox = "dispatched"]
         /\ runs' = [runs EXCEPT ![r] = [NoRun EXCEPT !.state = "leased",
                                                      !.msg = m]]
         /\ chats' = [chats EXCEPT ![c].state = "running"]
         /\ workers' = [workers EXCEPT ![r] = [NoWorker EXCEPT
                                          !.pc = "prepare", !.cur = r]]
    /\ UNCHANGED <<registry, procs, broker, creating, killing>>

EndDispatch ==
    /\ broker.up /\ broker.dispatching
    /\ Capacity => Claimable = {}
    /\ broker' = [broker EXCEPT !.dispatching = FALSE]
    /\ UNCHANGED <<rows, procs, workers, creating, killing>>

-----------------------------------------------------------------------------
(* Leases and recovery. *)

\* A lease nobody renews runs out.  The heartbeat renews the current run of
\* every live worker, unless it is delayed past the lease (Stalls).
LeaseExpires(r) ==
    /\ Live(r) /\ ~runs[r].expired
    /\ Stalls \/ \A w \in Runs : Active(w) => workers[w].cur # r
    /\ runs' = [runs EXCEPT ![r].expired = TRUE]
    /\ UNCHANGED <<chats, registry, messages, procs, workers, broker,
                   creating, killing>>

\* A mistake to be caught: a run lost in its dispatch window is started again.
RecoveredReplay(r) ==
    CASE runs[r].state = "leased"   -> "prepare"
      [] runs[r].state = "starting" -> "spawn"
      [] OTHER -> IF Alive(runs[r].pid) THEN "tail" ELSE "reconcile"

\* What _execute does first with an adopted run, by the state it was in.
RecoveredStep(r) ==
    CASE runs[r].state = "leased"   -> "prepare"
      [] runs[r].state = "starting" -> "lost"
      [] OTHER -> IF Alive(runs[r].pid) THEN "tail" ELSE "reconcile"

\* A mistake to be caught: a run with a process is never taken over.
AdoptableUnstarted(r) == runs[r].pid = None

\* A run whose process no open chat links is the reaper's.
Adoptable(r) == runs[r].pid = None \/ Protected(runs[r].pid)

\* adopt_recoverable and _activate.  A run this broker still works on keeps
\* its worker.
Adopt(r) ==
    /\ broker.up /\ Capacity
    /\ Live(r) /\ runs[r].expired
    /\ Adoptable(r)
    /\ runs' = [runs EXCEPT ![r].expired = FALSE]
    /\ workers' =
         IF Active(r) THEN workers
         ELSE [workers EXCEPT ![r] = [NoWorker EXCEPT
                 !.pc = RecoveredStep(r), !.cur = r, !.proc = runs[r].pid,
                 !.interrupt = runs[r].intent]]
    /\ UNCHANGED <<chats, registry, messages, procs, broker,
                   creating, killing>>

-----------------------------------------------------------------------------
(* The worker: _execute, one step for each transaction or adapter call. *)

At(w, pc)    == workers[w].pc = pc
Goto(w, pc)  == workers' = [workers EXCEPT ![w].pc = pc]
Aside        == <<procs, creating, killing>>
InMemory     == <<Aside, broker>>

\* A mistake to be caught: the worker leaves without a word.
DeactivateSilently(w) ==
    /\ workers' = [workers EXCEPT ![w] = NoWorker]
    /\ UNCHANGED broker

\* However _execute ends, _deactivate forgets the worker and wakes the
\* dispatcher.
Deactivate(w) ==
    /\ workers' = [workers EXCEPT ![w] = NoWorker]
    /\ broker' = [broker EXCEPT !.wake = TRUE]

\* The worker ends after a terminal commit of its current run.
FinishAndStop(w, outcome, keep, exited) ==
    /\ TryFinish(workers[w].cur, outcome, keep, exited)
    /\ Deactivate(w)
    /\ UNCHANGED Aside

\* The slot is free: bind_archive attaches the prepared shell session.
Prepare(w) ==
    /\ At(w, "prepare") /\ Occupancy(ChatOfRun(w)) = "free"
    /\ runs[w].state = "leased" /\ ~runs[w].archived
    /\ runs' = [runs EXCEPT ![w].archived = TRUE]
    /\ Goto(w, "start")
    /\ UNCHANGED <<chats, registry, messages, InMemory>>

\* bind_archive refuses a run that is no longer an unbound lease; like every
\* refusal before dispatch, that fails the run.
PrepareRebound(w) ==
    /\ At(w, "prepare") /\ Occupancy(ChatOfRun(w)) = "free"
    /\ runs[w].state # "leased" \/ runs[w].archived
    /\ FinishAndStop(w, "failed", FALSE, FALSE)

\* SHELL_BUSY, or any other refusal of the launch preparation.
PrepareRefused(w) ==
    /\ At(w, "prepare")
    /\ FinishAndStop(w, "failed", FALSE, FALSE)

\* SHELL_LINGERING: defer_run re-arms the lease and the worker lets go.
Defer(w) ==
    /\ At(w, "prepare") /\ Occupancy(ChatOfRun(w)) = "lingering"
    /\ runs[w].state = "leased"
    /\ runs' = [runs EXCEPT ![w].expired = FALSE]
    /\ Deactivate(w)
    /\ UNCHANGED <<chats, registry, messages, Aside>>

MarkStarting(w) ==
    /\ At(w, "start")
    /\ IF runs[w].state = "leased"
       THEN /\ runs' = [runs EXCEPT ![w].state = "starting",
                                    ![w].expired = FALSE]
            /\ Goto(w, "spawn")
            /\ UNCHANGED <<chats, registry, messages, InMemory>>
       ELSE FinishAndStop(w, "unknown", FALSE, FALSE)

\* A native process for the run's message: adapter.start or adapter.resume.
Launched(w, p) ==
    procs' = [procs EXCEPT ![p] = [state |-> "alive", msg |-> runs[w].msg]]

Spawn(w) ==
    /\ At(w, "spawn")
    /\ \E p \in FirstUnused(Procs, procs) :
         /\ Launched(w, p)
         /\ workers' = [workers EXCEPT ![w].pc = "native", ![w].proc = p]
    /\ UNCHANGED <<rows, broker, creating, killing>>

\* The adapter raised; the prompt may or may not have reached a process.
SpawnFails(w) ==
    /\ At(w, "spawn")
    /\ TryFinish(w, "unknown", FALSE, FALSE)
    /\ Deactivate(w)
    /\ \/ UNCHANGED procs
       \/ \E p \in FirstUnused(Procs, procs) : Launched(w, p)
    /\ UNCHANGED <<creating, killing>>

\* mark_native_started: the run names its process and so does the registry.
\* set_process raises when the chat is not the open one any more.
MarkNativeStarted(w) ==
    /\ At(w, "native") /\ runs[w].state = "starting"
    /\ IsActive(ChatOfRun(w))
    /\ runs' = [runs EXCEPT ![w].state = "running", ![w].expired = FALSE,
                            ![w].pid = workers[w].proc]
    /\ registry' = [registry EXCEPT
                      ![ShellOfRun(w)].proc = workers[w].proc]
    /\ Goto(w, "stream")
    /\ UNCHANGED <<chats, messages, InMemory>>

NativeStartRollsBack(w) ==
    /\ At(w, "native")
    /\ runs[w].state # "starting" \/ ~IsActive(ChatOfRun(w))
    /\ FinishAndStop(w, "unknown", FALSE, FALSE)

Streaming(w) == At(w, "stream") \/ At(w, "tail")

\* A terminal line is held back; a later one supersedes it.  The harness
\* reports "cancelled" only to an interrupt.
StreamTerminal(w, outcome) ==
    /\ Streaming(w)
    /\ outcome = "cancelled" => workers[w].interrupt
    /\ workers' = [workers EXCEPT ![w].terminal = outcome]
    /\ UNCHANGED <<rows, InMemory>>

\* append_events refuses a run somebody else has finished.
StreamRefused(w) ==
    /\ Streaming(w) /\ ~Live(workers[w].cur)
    /\ FinishAndStop(w, "unknown", FALSE, FALSE)

\* _finish_adapter_event: a failure of an interrupted turn is a cancellation.
AdapterOutcome(w) ==
    IF workers[w].terminal = "failed" /\ workers[w].interrupt
    THEN "cancelled"
    ELSE workers[w].terminal

\* The reply is in, the process is quiet but alive: finish early, keep the
\* process linked, and watch on.
LingerFinish(w) ==
    /\ At(w, "stream") /\ workers[w].terminal # "none"
    /\ Alive(workers[w].proc)
    /\ LET r == workers[w].cur IN
       /\ TryFinish(r, AdapterOutcome(w), TRUE, FALSE)
       /\ IF Live(r) /\ ~FinishLegal(r, AdapterOutcome(w))
          THEN Deactivate(w)
          ELSE /\ workers' = [workers EXCEPT ![w].pc = "linger",
                                             ![w].terminal = "none"]
               /\ UNCHANGED broker
    /\ UNCHANGED Aside

\* The stream ended with its process; the pending terminal is the outcome.
StreamEnds(w) ==
    /\ Streaming(w) /\ workers[w].terminal # "none"
    /\ ~Alive(workers[w].proc)
    /\ FinishAndStop(w, AdapterOutcome(w), FALSE, TRUE)

\* The stream raised: the pending terminal, if any, still decides, but nobody
\* saw the process exit.  Without one the exact turn is reconciled, or, when
\* the submission itself failed, recorded as unknown.
StreamBreaks(w) ==
    /\ Streaming(w)
    /\ IF workers[w].terminal # "none"
       THEN FinishAndStop(w, AdapterOutcome(w), FALSE, FALSE)
       ELSE \/ /\ Goto(w, "reconcile")
               /\ UNCHANGED <<rows, InMemory>>
            \/ FinishAndStop(w, "unknown", FALSE, FALSE)

\* A mistake to be caught: the live-run fences are not there.
MayContinueUnfenced(c) == chats[c].state # "closed"

\* A closed chat takes no continuation, and the live-run indexes refuse one
\* while another run holds the shell.
MayContinue(c) == chats[c].state # "closed" /\ LiveRunsOn(ShellOf[c]) = {}

\* open_continuation: output after a lingering finish is the next attempt of
\* the same message, with the same process.
OpenContinuation(w) ==
    LET c == ChatOfRun(workers[w].cur) IN
    /\ At(w, "linger") /\ MayContinue(c)
    /\ Cardinality({r \in Runs : Continues(r)}) < MaxContinues
    /\ \E r \in FirstUnused(Runs, runs) :
         /\ runs' = [runs EXCEPT ![r] = [NoRun EXCEPT
                        !.state = "running",
                        !.msg = runs[workers[w].cur].msg,
                        !.pid = runs[workers[w].cur].pid]]
         /\ workers' = [workers EXCEPT ![w].pc = "stream", ![w].cur = r,
                                       ![w].terminal = "none"]
    /\ chats' = [chats EXCEPT ![c].state = "running"]
    /\ UNCHANGED <<registry, messages, InMemory>>

\* Refused, the worker stops watching and leaves the link as it is.
ContinuationRefused(w) ==
    /\ At(w, "linger") /\ ~MayContinue(ChatOfRun(workers[w].cur))
    /\ Deactivate(w)
    /\ UNCHANGED <<rows, Aside>>

\* release_process_link: no attempt of the message names a process any more,
\* and neither does the chat's registry row.
ReleaseProcessLink(w) ==
    LET r == workers[w].cur
        c == ChatOfRun(r)
    IN
    /\ runs' = [q \in Runs |-> IF runs[q].msg = runs[r].msg
                               THEN [runs[q] EXCEPT !.pid = None]
                               ELSE runs[q]]
    /\ registry' = IF IsActive(c)
                   THEN [registry EXCEPT ![ShellOf[c]].proc = None]
                   ELSE registry

\* The stream of a lingering turn ended or raised.
LingerEnds(w) ==
    /\ At(w, "linger")
    /\ ReleaseProcessLink(w)
    /\ Deactivate(w)
    /\ UNCHANGED <<chats, messages, Aside>>

\* _reconcile_loop: while the turn is proven running it is left alone; any
\* other answer, or none, is a terminal commit without an exit proof.
Reconcile(w, outcome) ==
    /\ At(w, "reconcile")
    /\ outcome = "cancelled" =>
         workers[w].interrupt \/ runs[workers[w].cur].intent
    /\ FinishAndStop(w, outcome, FALSE, FALSE)

\* A run adopted inside the dispatch window has no native identity.
RecoverLost(w) ==
    /\ At(w, "lost")
    /\ FinishAndStop(w, "unknown", FALSE, FALSE)

-----------------------------------------------------------------------------
(* Interrupts, from Stop or from the reaper. *)

\* interrupt: the intent is durable on a live run, and the worker that holds
\* the run is told.  Between them this yields the next runs and workers.
WorkersOn(r)        == {w \in Runs : Active(w) /\ (w = r \/ workers[w].cur = r)}
InterruptedRun(r)   == IF WorkersOn(r) = {} THEN r
                       ELSE workers[CHOOSE w \in WorkersOn(r) : TRUE].cur
InterruptWorkers(r) ==
    workers' = IF WorkersOn(r) = {} THEN workers
               ELSE [workers EXCEPT
                       ![CHOOSE w \in WorkersOn(r) : TRUE].interrupt = TRUE]
WithIntent(r, rs)   == IF Live(InterruptedRun(r))
                       THEN [rs EXCEPT ![InterruptedRun(r)].intent = TRUE]
                       ELSE rs

-----------------------------------------------------------------------------
(* The environment: native processes, and the server they outlive. *)

ProcessExits(p) ==
    /\ Alive(p)
    /\ procs' = [procs EXCEPT ![p].state = "gone"]
    /\ UNCHANGED <<rows, workers, broker, creating, killing>>

\* The server dies with every thread; native processes and rows survive.
Crash ==
    /\ broker.up /\ broker.crashes < MaxCrashes
    /\ broker' = [up |-> FALSE, wake |-> FALSE, dispatching |-> FALSE,
                  crashes |-> broker.crashes + 1]
    /\ workers' = [w \in Runs |-> NoWorker]
    /\ procs' = [p \in Procs |-> IF Alive(p)
                                 THEN [procs[p] EXCEPT !.state = "orphan"]
                                 ELSE procs[p]]
    /\ creating' = {} /\ killing' = {}
    /\ UNCHANGED rows

\* Startup adopts what has expired and dispatches without waiting for a wake.
Restart ==
    /\ ~broker.up
    /\ broker' = [broker EXCEPT !.up = TRUE, !.dispatching = TRUE]
    /\ UNCHANGED <<rows, procs, workers, creating, killing>>

=============================================================================
