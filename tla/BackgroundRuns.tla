--------------------------- MODULE BackgroundRuns ---------------------------
(***************************************************************************)
(* Background runs: registered first, supervised by a detached process     *)
(* that writes its result to disk before it submits it, and reconciled     *)
(* from that evidence when the supervisor cannot.                          *)
(***************************************************************************)
EXTENDS WakeDelivery

VARIABLES
    sups,    \* the supervisors, one per run
    pulse    \* what the runtime pulse holds between two readings

Outcomes == {"done", "failed", "killed"}

\* known: meta.json names the supervisor; result: its finish record.
SupRow == [pc : {"none", "starting", "up", "ready", "running", "submitting",
                 "gone"},
           known : BOOLEAN,
           result : Outcomes \cup {"none"},
           killing : BOOLEAN]

NoSup == [pc |-> "none", known |-> FALSE, result |-> "none", killing |-> FALSE]

\* A receipt as the pulse read it, with its turn and chat at that time.
ViewRow == [receipt : ReceiptRow, ended : BOOLEAN, busy : BOOLEAN,
            closed : BOOLEAN]

NoView == [receipt |-> NoReceipt, ended |-> FALSE, busy |-> FALSE,
           closed |-> FALSE]

PulseRow == [pc : {"idle", "probe", "reread", "judge", "retry", "replayed"},
             job : 0..MaxJobs, known : BOOLEAN, letter : 0..MaxLetters,
             view : ViewRow]

IdlePulse == [pc |-> "idle", job |-> 0, known |-> FALSE, letter |-> 0,
              view |-> NoView]

runRows == <<desk, turns, receipts, notice, lease>>

SupAlive(j) == sups[j].pc \in {"up", "ready", "running", "submitting"}

-----------------------------------------------------------------------------
(* The client and the supervisor. *)

\* Register, then detach a supervisor; the kind is the caller's.
Register(j, kind) ==
    /\ jobs[j].state = "none"
    /\ jobs' = [jobs EXCEPT ![j] = [kind |-> kind, state |-> "registered",
                                    wake |-> "none", letter |-> 0]]
    /\ sups' = [sups EXCEPT ![j].pc = "starting"]
    /\ UNCHANGED <<letters, wakes, pulse, runRows>>

\* The supervisor's first write names it.
SupervisorStarts(j) ==
    /\ sups[j].pc = "starting"
    /\ sups' = [sups EXCEPT ![j].pc = "up", ![j].known = TRUE]
    /\ UNCHANGED <<jobs, letters, wakes, pulse, runRows>>

\* running: a row that is already terminal is left as it is.
MarkRunning(j) ==
    jobs' = IF Terminal(j) THEN jobs ELSE [jobs EXCEPT ![j].state = "running"]

CheckIn(j) ==
    /\ sups[j].pc = "up"
    /\ MarkRunning(j)
    /\ sups' = [sups EXCEPT ![j].pc = "ready"]
    /\ UNCHANGED <<letters, wakes, pulse, runRows>>

\* Without a check-in no command is launched, and a launch may fail.
LaunchFails(j) ==
    /\ sups[j].pc \in {"up", "ready"}
    /\ sups' = [sups EXCEPT ![j].pc = "submitting", ![j].result = "failed"]
    /\ UNCHANGED <<jobs, letters, wakes, pulse, runRows>>

Launch(j) ==
    /\ sups[j].pc = "ready"
    /\ sups' = [sups EXCEPT ![j].pc = "running"]
    /\ UNCHANGED <<jobs, letters, wakes, pulse, runRows>>

\* The command ends, whatever its exit status, or the supervisor ends it
\* because a kill was asked for.
CommandEnds(j) ==
    /\ sups[j].pc = "running"
    /\ sups' = [sups EXCEPT ![j].pc = "submitting", ![j].result =
                   IF sups[j].killing THEN "killed" ELSE "done"]
    /\ UNCHANGED <<jobs, letters, wakes, pulse, runRows>>

SupervisorDies(j) ==
    /\ SupAlive(j) \/ sups[j].pc = "starting"
    /\ sups' = [sups EXCEPT ![j].pc = "gone"]
    /\ UNCHANGED <<jobs, letters, wakes, pulse, runRows>>

\* A kill only leaves a marker for the supervisor of a live run.
Kill(j) ==
    /\ jobs[j].state \in {"registered", "running"}
    /\ sups[j].pc = "running" /\ ~sups[j].killing
    /\ sups' = [sups EXCEPT ![j].killing = TRUE]
    /\ UNCHANGED <<jobs, letters, wakes, pulse, runRows>>

\* terminal: the outcome and the message that tells it, in one transaction.
Conclude(j, outcome) ==
    IF jobs[j].kind = "foreground"
    THEN /\ jobs' = [jobs EXCEPT ![j].state = outcome]
         /\ UNCHANGED <<letters, wakes>>
    ELSE /\ SendLetter("outcome")
         /\ jobs' = [jobs EXCEPT ![j] = [@ EXCEPT !.state = outcome,
                                            !.wake = "pending",
                                            !.letter = NextLetter]]

\* Submitting the same outcome again changes nothing; another one is refused,
\* which ends the supervisor as well.
Submit(j) ==
    /\ sups[j].pc = "submitting"
    /\ IF Terminal(j) THEN UNCHANGED <<jobs, letters, wakes>>
       ELSE Conclude(j, sups[j].result)
    /\ sups' = [sups EXCEPT ![j].pc = "gone"]
    /\ UNCHANGED <<pulse, runRows>>

-----------------------------------------------------------------------------
(* The pulse. *)

\* _reconcile_row reads the evidence first.
ReadEvidence(j) ==
    /\ lease.pc = "idle" /\ pulse.pc = "idle"
    /\ jobs[j].state \in {"registered", "running"}
    /\ jobs[j].wake # "blocked"
    /\ IF sups[j].result # "none"
       THEN Conclude(j, sups[j].result) /\ UNCHANGED pulse
       ELSE /\ pulse' = [IdlePulse EXCEPT !.pc = "probe", !.job = j,
                                          !.known = sups[j].known]
            /\ IF sups[j].known THEN MarkRunning(j) ELSE UNCHANGED jobs
            /\ UNCHANGED <<letters, wakes>>
    /\ UNCHANGED <<sups, runRows>>

\* Evidence that cannot be read blocks the run, which is then left alone.
EvidenceUnreadable(j) ==
    /\ lease.pc = "idle" /\ pulse.pc = "idle"
    /\ jobs[j].state \in {"registered", "running"}
    /\ jobs[j].wake # "blocked"
    /\ jobs' = [jobs EXCEPT ![j].wake = "blocked"]
    /\ UNCHANGED <<letters, wakes, sups, pulse, runRows>>

\* Then it asks whether the supervisor it read of is alive.  One it did not
\* read of counts as gone once the row is old enough.
ProbeSupervisor ==
    LET j == pulse.job IN
    /\ pulse.pc = "probe"
    /\ \/ /\ pulse.known => SupAlive(j)
          /\ pulse' = IdlePulse
       \/ /\ pulse.known => ~SupAlive(j)
          /\ pulse' = [pulse EXCEPT !.pc = "reread"]
    /\ UNCHANGED <<jobs, sups, letters, wakes, runRows>>

\* A mistake to be caught: the first reading is trusted.
LostAtOnce ==
    LET j == pulse.job IN
    /\ pulse.pc = "reread"
    /\ pulse' = IdlePulse
    /\ IF Terminal(j) THEN UNCHANGED <<jobs, letters, wakes>>
       ELSE Conclude(j, "lost")
    /\ UNCHANGED <<sups, runRows>>

\* The evidence is read again before a run is declared lost.
RereadEvidence ==
    LET j == pulse.job IN
    /\ pulse.pc = "reread"
    /\ pulse' = IdlePulse
    /\ IF Terminal(j) THEN UNCHANGED <<jobs, letters, wakes>>
       ELSE Conclude(j, IF sups[j].result = "none" THEN "lost"
                        ELSE sups[j].result)
    /\ UNCHANGED <<sups, runRows>>

Supervise(j) ==
    \/ SupervisorStarts(j) \/ CheckIn(j) \/ Launch(j) \/ CommandEnds(j)
    \/ Submit(j)

=============================================================================
