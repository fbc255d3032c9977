----------------------------- MODULE WakeSystem -----------------------------
(***************************************************************************)
(* Producers, the runtime pulse with its delivery service, the recipient's *)
(* chat and its turns, and the supervisors of background runs, together.   *)
(***************************************************************************)
EXTENDS EngineWakes

\* A workload: the messages sent (mail), the kinds of the runs started
\* (runs), whether the sprint coordinates its wakes, and how many servers die
\* (crashes), supervisors die or are told to kill (deaths), deliveries fail
\* for an outside reason (faults), chats a person opens or closes (visits)
\* and turns are refused with SHELL_BUSY (refusals).
CONSTANT Workloads

RunKinds == {"job", "devkit", "foreground"}

WorkloadRow == [mail : Seq(Kinds), runs : Seq(RunKinds), coordinate : BOOLEAN,
                crashes : Nat, deaths : Nat, faults : Nat, visits : Nat,
                refusals : Nat]

ASSUME WorkloadRows == Workloads \subseteq WorkloadRow

VARIABLE supply  \* what is left of the workload

wvars == <<letters, wakes, desk, turns, receipts, jobs, notice, lease, sups,
           pulse, supply>>

wRows == <<letters, wakes, desk, turns, receipts, jobs, notice, lease, sups,
           pulse>>

WakesInit ==
    /\ letters = [m \in Letters |-> NoLetter]
    /\ wakes = [w \in Wakes |-> NoWake]
    /\ desk = [active |-> 0, live |-> FALSE, opened |-> 0,
               maker |-> [c \in Chats |-> 0]]
    /\ turns = <<>>
    /\ receipts = [m \in Letters |-> NoReceipt]
    /\ jobs = [j \in Jobs |-> NoJob]
    /\ sups = [j \in Jobs |-> NoSup]
    /\ lease = NoLease
    /\ pulse = IdlePulse
    /\ \E load \in Workloads :
         /\ supply = load
         /\ notice = [armed |-> TRUE, coordinate |-> load.coordinate,
                      flagged |-> FALSE]

-----------------------------------------------------------------------------
(* The recipient's chat, as delivery sees it. *)

ChatOpens ==
    /\ supply.visits > 0 /\ desk.active = 0 /\ desk.opened < MaxChats
    /\ desk' = [desk EXCEPT !.active = desk.opened + 1, !.opened = @ + 1]
    /\ supply' = [supply EXCEPT !.visits = @ - 1]
    /\ UNCHANGED <<letters, wakes, turns, receipts, jobs, notice, lease, sups,
                   pulse>>

\* Closed by a person between turns, or for inactivity during one.
ChatCloses ==
    /\ supply.visits > 0 /\ desk.active # 0
    /\ CloseDesk
    /\ supply' = [supply EXCEPT !.visits = @ - 1]
    /\ UNCHANGED <<letters, wakes, receipts, jobs, notice, lease, sups, pulse>>

FirstQueued(t) ==
    /\ turns[t].state = "queued" /\ turns[t].chat = desk.active
    /\ \A u \in 1..(t - 1) : turns[u].state = "queued"
                               => turns[u].chat # desk.active

TurnStarts(t) ==
    /\ FirstQueued(t) /\ ~desk.live
    /\ turns' = [turns EXCEPT ![t].state = "running"]
    /\ desk' = [desk EXCEPT !.live = TRUE]
    /\ UNCHANGED <<letters, wakes, receipts, jobs, notice, lease, sups, pulse,
                   supply>>

\* A command line holds the shell: the turn fails before dispatch.
TurnRefusedBusy(t) ==
    /\ supply.refusals > 0
    /\ FirstQueued(t) /\ ~desk.live
    /\ turns' = [turns EXCEPT ![t].state = "busy"]
    /\ supply' = [supply EXCEPT !.refusals = @ - 1]
    /\ UNCHANGED <<letters, wakes, desk, receipts, jobs, notice, lease, sups,
                   pulse>>

TurnShows(t) ==
    /\ turns[t].state = "running" /\ ~turns[t].shown
    /\ turns' = [turns EXCEPT ![t].shown = TRUE]
    /\ UNCHANGED <<letters, wakes, desk, receipts, jobs, notice, lease, sups,
                   pulse, supply>>

TurnEnds(t) ==
    /\ turns[t].state = "running"
    /\ turns' = [turns EXCEPT ![t].state = "done"]
    /\ desk' = [desk EXCEPT !.live = @ /\ turns[t].chat # desk.active]
    /\ UNCHANGED <<letters, wakes, receipts, jobs, notice, lease, sups, pulse,
                   supply>>

-----------------------------------------------------------------------------
(* The composition. *)

Post ==
    /\ supply.mail # <<>>
    /\ SendLetter(Head(supply.mail))
    /\ supply' = [supply EXCEPT !.mail = Tail(@)]
    /\ UNCHANGED <<desk, turns, receipts, jobs, notice, lease, sups, pulse>>

StartRun(j) ==
    /\ supply.runs # <<>>
    /\ \A i \in 1..(j - 1) : jobs[i].state # "none"
    /\ Register(j, Head(supply.runs))
    /\ supply' = [supply EXCEPT !.runs = Tail(@)]

\* The server dies, or a pulse is cut short by an error of the database.
PulseDies ==
    /\ supply.crashes > 0
    /\ lease.pc # "idle" \/ pulse.pc # "idle"
    /\ lease' = NoLease /\ pulse' = IdlePulse
    /\ supply' = [supply EXCEPT !.crashes = @ - 1]
    /\ UNCHANGED <<letters, wakes, desk, turns, receipts, jobs, notice, sups>>

ServerFaults == lease.pc = "turns" /\ FailDelivery(FALSE)

Outage ==
    /\ supply.faults > 0
    /\ \/ (RouteFails \/ ServerFaults) /\ UNCHANGED <<sups, pulse>>
       \/ \E j \in Jobs : EvidenceUnreadable(j) \/ LaunchFails(j)
    /\ supply' = [supply EXCEPT !.faults = @ - 1]

DeliverStep == pulse.pc = "idle" /\ Deliver /\ UNCHANGED <<sups, pulse, supply>>

RecoverFailed == /\ pulse.pc = "idle"
           /\ \E w \in Wakes : RecoverEngineWake(w)
           /\ UNCHANGED <<sups, pulse, supply>>

ReconcileRuns ==
    /\ \/ \E j \in Jobs : ReadEvidence(j)
       \/ ProbeSupervisor \/ RereadEvidence
    /\ UNCHANGED supply

Clock ==
    \/ \E w \in Wakes : Tick(w) /\ UNCHANGED <<sups, pulse, supply>>
    \/ \E m \in Letters : RetryTimeComes(m) /\ UNCHANGED supply

Read == \E m \in Letters : ReadLetter(m) /\ UNCHANGED <<sups, pulse, supply>>

SupervisorStep(j) == Supervise(j) /\ UNCHANGED supply

TurnMoves == \E t \in DOMAIN turns :
    \/ TurnStarts(t) \/ TurnRefusedBusy(t) \/ TurnShows(t) \/ TurnEnds(t)
    \/ (CodexObserves(t) /\ UNCHANGED supply)

WakesNext ==
    \/ Post
    \/ DeliverStep
    \/ RecoverFailed
    \/ ReconcileRuns
    \/ Follow /\ UNCHANGED supply
    \/ Clock
    \/ Read
    \/ TurnMoves
    \/ ChatOpens \/ ChatCloses
    \/ \E j \in Jobs :
         \/ StartRun(j)
         \/ SupervisorStep(j)
         \/ /\ supply.deaths > 0
            /\ SupervisorDies(j) \/ Kill(j)
            /\ supply' = [supply EXCEPT !.deaths = @ - 1]
    \/ Outage
    \/ PulseDies

\* The pulse comes every five seconds and passes over every row, clocks run,
\* turns start and end, and supervisors run on until they die.
WakesFairness ==
    /\ WF_wvars(DeliverStep)
    /\ WF_wvars(RecoverFailed)
    /\ WF_wvars((\/ ProbeSupervisor \/ RereadEvidence
                 \/ JudgeReceipt \/ ReplayTurn \/ RecordReplay) /\ UNCHANGED supply)
    /\ \A j \in Jobs : SF_wvars(ReadEvidence(j) /\ UNCHANGED supply)
    /\ \A m \in Letters : SF_wvars(ReadReceipts(m) /\ UNCHANGED supply)
    /\ WF_wvars(\E j \in Jobs : SupervisorStep(j))
    /\ WF_wvars(Clock)
    /\ WF_wvars(\E t \in DOMAIN turns : TurnStarts(t) \/ TurnEnds(t))

WakesSpec == WakesInit /\ [][WakesNext]_wvars /\ WakesFairness

-----------------------------------------------------------------------------
(* Properties. *)

\* Every row is well formed.
WakesTypeOK ==
    /\ letters \in [Letters -> LetterRow]
    /\ wakes \in [Wakes -> WakeRow]
    /\ desk \in DeskRow
    /\ Len(turns) <= MaxTurns /\ \A t \in DOMAIN turns : turns[t] \in TurnRow
    /\ receipts \in [Letters -> ReceiptRow]
    /\ jobs \in [Jobs -> JobRow]
    /\ notice \in NoticeRow
    /\ lease \in LeaseRow
    /\ sups \in [Jobs -> SupRow]
    /\ pulse \in PulseRow

\* Migration 0164's one-pending index: the transactions that make a wake
\* pending, of send, retry, deferral, requeue and recovery, leave a receiver
\* at most one.
OnePendingWake == Cardinality(Pending) <= 1

\* A delivered message was queued as a turn; an undelivered unread one is
\* joined to a wake that is still to be delivered, or that has failed.  No
\* hand-over between wakes (claim, deferral, retry, recovery) strands one.
LetterIsCarried ==
    \A m \in Letters : Sent(m) =>
        IF letters[m].delivered THEN \E t \in DOMAIN turns : m \in turns[t].letters
        ELSE letters[m].read
             \/ wakes[letters[m].wake].state \in {"pending", "delivering", "failed"}

\* A force-new message is queued only in a chat that its own wake opened,
\* whatever chats were opened, closed or made live between the transactions
\* of its delivery.
ForceNewStartsFresh ==
    \A t \in DOMAIN turns :
        (\E m \in turns[t].letters : Declared(letters[m].kind) = "force-new")
        => desk.maker[turns[t].chat] = turns[t].key[1]

\* An unread message left behind on a failed wake is not silently lost, each by
\* itself: a message of the sprint, or any on a wake of the sprint, has paused
\* the sprint; the run that an outcome tells is blocked, or that outcome's own
\* receipt follows it since an earlier delivery; and any other engine message
\* waits for the recovery of its wake, or the recovery failed and was flagged.
\* Excepted, because the code does neither for it, is such a message on a wake
\* that also carries a run's outcome.
FailureIsSeen ==
    \A m \in Undelivered :
        LET w       == letters[m].wake
            telling == {j \in Jobs : jobs[j].letter = m}
            beside  == \E j \in Jobs : jobs[j].letter \in Joined(w) \ {m}
        IN
        ~letters[m].read /\ wakes[w].state = "failed" =>
            IF wakes[w].sprint \/ ~Engine(m) THEN ~notice.armed
            ELSE IF telling # {}
            THEN \/ \A j \in telling : jobs[j].wake = "blocked"
                 \/ receipts[m].turn # 0
            ELSE \/ Recoverable(w)
                 \/ wakes[w].recovery /\ notice.flagged
                 \/ beside

\* A run is declared lost only while no finish record exists, though its
\* supervisor writes one between the pulse's two readings.
LostHasNoEvidence ==
    [][\A j \in Jobs : jobs'[j].state = "lost" /\ jobs[j].state # "lost"
                         => sups[j].result = "none"]_wvars

\* A run's outcome is consumed only if a turn that told it reached the
\* transcript: neither a turn that merely ran, nor one refused or replayed,
\* nor a reading made before a replay counts.
ConsumedWasShown ==
    \A j \in Jobs : jobs[j].wake = "consumed" =>
        \E t \in DOMAIN turns : jobs[j].letter \in turns[t].letters /\ turns[t].shown

\* A replay is queued only for a message of a turn that the shell refused
\* before dispatch, under a number of refusals it has counted, and once for
\* each number in a chat, whichever transactions of a crashed delivery or
\* reconciliation are done again.
ReplaysFollowRefusals ==
    \A t \in DOMAIN turns : turns[t].key[1] = 0 =>
        LET m == turns[t].key[2] IN
        /\ m \in turns[t].letters
        /\ \E u \in 1..(t - 1) : turns[u].state = "busy" /\ m \in turns[u].letters
        /\ turns[t].key[3] \in 1..receipts[m].busy
        /\ \A u \in 1..(t - 1) : turns[u].chat = turns[t].chat
                                 => turns[u].key # turns[t].key

\* Every message arrives at last, or its failure is recorded, or it waits for
\* a paused sprint.
LettersArrive ==
    \A m \in Letters :
        m \in Undelivered ~>
            \/ letters[m].delivered \/ letters[m].read
            \/ \E w \in Wakes : m \in Joined(w) /\ wakes[w].state = "failed"
            \/ ~Engine(m) /\ ~notice.armed

\* The outcome of a background run is consumed or visibly blocked at last.
OutcomesSettle ==
    \A j \in Jobs :
        jobs[j].letter # 0 ~> \/ jobs[j].wake \in {"consumed", "blocked"}
                             \/ \E m \in Letters : /\ jobs[j].letter = m
                                                   /\ letters[m].read

=============================================================================
