------------------------- MODULE ConversationRuntime -------------------------
(***************************************************************************)
(* The browser-conversation runtime: the API verbs, the broker, the reaper *)
(* and the processes they launch, run together over one set of rows.       *)
(***************************************************************************)
EXTENDS ConversationReaper

\* What the harness reports while a worker follows its stream.
Report(w) ==
    /\ broker.up
    /\ \E o \in {"succeeded", "failed", "cancelled"} : StreamTerminal(w, o)

\* What the worker does of its own accord.
Work(w) ==
    /\ broker.up
    /\ \/ Prepare(w)
       \/ PrepareRebound(w)
       \/ PrepareRefused(w)
       \/ Defer(w)
       \/ MarkStarting(w)
       \/ Spawn(w)
       \/ SpawnFails(w)
       \/ MarkNativeStarted(w)
       \/ NativeStartRollsBack(w)
       \/ StreamRefused(w)
       \/ LingerFinish(w)
       \/ StreamEnds(w)
       \/ StreamBreaks(w)
       \/ OpenContinuation(w)
       \/ ContinuationRefused(w)
       \/ LingerEnds(w)
       \/ \E o \in TERMINAL_RUN_STATES : Reconcile(w, o)
       \/ RecoverLost(w)

Dispatch == BeginDispatch \/ ClaimNext \/ EndDispatch

Api(c) ==
    \/ CreateCloses(c)
    \/ WakeCloses(c)
    \/ CreateRegisters(c)
    \/ CreateLoses(c)
    \/ Send(c)
    \/ SendReopens(c)
    \/ Stop(c)
    \/ Close(c)
    \/ CloseInactive(c)

Sweep(r) ==
    \/ SweepGone(r)
    \/ SweepInterrupt(r)
    \/ SweepSignals(r)
    \/ SweepKilled(r)

Next ==
    \/ \E w \in Runs : Report(w) \/ Work(w)
    \/ Dispatch
    \/ \E r \in Runs : LeaseExpires(r) \/ Adopt(r) \/ Sweep(r)
    \/ \E c \in Chats : Api(c)
    \/ \E p \in Procs : Terminate(p) \/ ProcessExits(p)
    \/ Crash
    \/ Restart

Spec == Init /\ [][Next]_vars

\* The broker and reaper threads keep running, leases are a clock, a server
\* that died is started again, and a harness process ends at last.  Nobody
\* has to type, stop or close anything, and nothing has to crash.
Fairness ==
    /\ WF_vars(BeginDispatch)
    /\ WF_vars(ClaimNext \/ EndDispatch)
    /\ \A r \in Runs : /\ WF_vars(Work(r))
                       /\ WF_vars(LeaseExpires(r))
                       /\ WF_vars(Adopt(r))
                       /\ WF_vars(Sweep(r))
    /\ \A p \in Procs : WF_vars(ProcessExits(p))
    /\ WF_vars(Restart)

FairSpec == Spec /\ Fairness

-----------------------------------------------------------------------------

\* Every variable keeps to the row shapes of ConversationTables.
TypeOK ==
    /\ chats \in [Chats -> ChatRow]
    /\ registry \in [Shells -> ActiveRow]
    /\ messages \in [Messages -> MessageRow]
    /\ runs \in [Runs -> RunRow]
    /\ procs \in [Procs -> ProcRow]
    /\ workers \in [Runs -> WorkerRow]
    /\ broker \in BrokerRow
    /\ creating \subseteq Chats
    /\ killing \subseteq Procs

-----------------------------------------------------------------------------
(* Exclusion: one seat, one open chat, one turn, one process. *)

\* Two live runs never share a shell.  claim_next and open_continuation check
\* it; the live-run indexes of migration 0132 are their last fence.
OneLiveRun == \A s \in Shells : Cardinality(LiveRunsOn(s)) <= 1

\* Two native processes never share a shell's worktree, whatever lingered,
\* outlived its server, was closed over or was adopted before.
OneProcess == \A s \in Shells : Cardinality(ShellProcs(s)) <= 1

\* A prompt reaches a harness at most once: neither a crash, nor a lost lease,
\* nor a deferral makes recovery submit it again.
AtMostOnce ==
    \A m \in Messages : Cardinality({p \in Procs : procs[p].msg = m}) <= 1

\* The registry names exactly the chats that are open, so a shell has at most
\* one, however creates, reopens, wakes, closes and rotations interleave.
OneOpenChat == \A c \in Chats : Open(c) <=> IsActive(c)

-----------------------------------------------------------------------------
(* The queue. *)

\* A chat's state tells the truth about its queue: running means a live run
\* will end the turn, queued means an intent waits, an idle chat holds no
\* intent, for nothing would ever dispatch it, and error means that no turn
\* is in progress, so a send may queue again.
ChatStateIsHonest ==
    \A c \in Chats :
        /\ chats[c].state = "running" => LiveRunsOf(c) # {}
        /\ chats[c].state = "queued"  => PendingOf(c) # {}
        /\ chats[c].state = "idle"    => PendingOf(c) = {}
        /\ chats[c].state = "error"   => LiveRunsOf(c) = {}

\* A message in progress has a live run that will settle it, whoever ends
\* the turn: its worker, a recovery, the reaper or a close.
NoOrphanMessage ==
    \A m \in Messages :
        messages[m].state = "running" =>
            \E r \in Runs : Live(r) /\ runs[r].msg = m

\* Dispatch is commit-woken, not polled: while an intent is claimable, the
\* dispatcher is woken, or dispatching, or has a worker whose end wakes it.
NoLostWake ==
    Claimable # {} /\ broker.up =>
        \/ broker.wake
        \/ broker.dispatching
        \/ \E w \in Runs : Active(w)

\* A finished run keeps its outcome: a late worker, a second recovery or the
\* reaper's ladder on a lingering process never rewrites it.
OutcomeStands ==
    [][\A r \in Runs : Finished(r) => runs'[r].state = runs[r].state]_vars

\* Stop and the reaper cancel a turn in progress only; a queued follow-up is
\* cancelled only by the transaction that closes its chat.
FollowUpsSurviveStop ==
    [][\A m \in Messages :
         /\ messages[m].state = "queued"
         /\ messages'[m].state = "cancelled"
         => chats'[messages[m].chat].state = "closed"]_vars

\* Messages are accepted, started one at a time and in order, and settled
\* once, as TurnContract states it with nothing of this machinery.
Contract == INSTANCE TurnContract WITH
    turn <- [m \in Messages |-> messages[m].state],
    home <- [m \in Messages |-> messages[m].chat]

KeepsTurnContract == Contract!Spec

-----------------------------------------------------------------------------
(* Processes and the reaper. *)

\* A process the reaper may signal has lost its chat for good: no later turn,
\* continuation or reopen links it again, so eligibility read before a signal
\* still holds when the signal is delivered.
UnlinkedForGood ==
    [][\A r \in Runs : Candidate(r) =>
         \A s \in Shells : registry'[s].proc # runs[r].pid]_vars

-----------------------------------------------------------------------------
(* Liveness, when nobody closes a chat and heartbeats keep their leases. *)

IsSettled(m) == messages[m].state \in TERMINAL_MESSAGE_STATES

\* An accepted message is settled at last, across deferrals and a crash of
\* the server, unless an earlier failed turn left its chat in error, where
\* it waits for the next send.
QueuedSettles ==
    \A m \in Messages :
        messages[m].state = "queued" ~>
            IsSettled(m) \/ (/\ messages[m].state = "queued"
                           /\ chats[messages[m].chat].state = "error")

\* A turn in progress is settled at last, whatever its process, its worker or
\* its server did.
RunningSettles ==
    \A m \in Messages : messages[m].state = "running" ~> IsSettled(m)

-----------------------------------------------------------------------------
(* What the sources say of themselves and the code does not keep. *)

\* conversation_broker.py:9-12: an outcome that cannot be proved is recorded
\* as unknown.  So a worker that ends after dispatch leaves no live run.
WorkerSettlesRun ==
    [][\A w \in Runs :
         LET r == workers[w].cur IN
         /\ Active(w) /\ workers'[w] = NoWorker /\ broker'.up
         /\ runs[r].state # "leased"
         => runs'[r].state \in TERMINAL_RUN_STATES]_vars

\* release_process_link: clear the link a lingering finish kept.  So the link
\* of a running turn stays while the turn runs and its chat is open.
RunningTurnKeepsLink ==
    [][\A r \in Runs :
         /\ runs[r].state = "running" /\ runs'[r].state = "running"
         /\ Alive(runs[r].pid) /\ Protected(runs[r].pid)
         /\ chats'[ChatOfRun(r)].state # "closed"
         => \E s \in Shells : registry'[s].proc = runs[r].pid]_vars

\* conversation_reaper.py _sweepable_sql: a lingering process is reapable the
\* moment its link goes, until the reaper's own outcome ends the ladder,
\* which is after it saw the process gone or killed it.
ReapableOnceUnlinked ==
    \A r \in Runs :
        /\ Finished(r) /\ Alive(runs[r].pid)
        /\ ~Protected(runs[r].pid)
        => Candidate(r)

\* close_for_displacement: cancel queued work, then close and unlink.
DisplacementCancels ==
    [][\A c \in Chats :
         LET d == registry[ShellOf[c]].chat IN
         WakeCloses(c) => \A m \in PendingOf(d) :
                             messages'[m].state = "cancelled"]_vars

=============================================================================
