------------------------- MODULE ConversationReaper -------------------------
(***************************************************************************)
(* The sweep that terminates process groups no open chat links.  A         *)
(* candidate climbs one rung per sweep: native interrupt, SIGTERM,         *)
(* SIGKILL, then the reaper's own outcome on the run.  The graces between  *)
(* rungs are elapsed time and are abstracted: a rung may be taken whenever *)
(* the previous one was recorded.                                          *)
(***************************************************************************)
EXTENDS ActiveChats

\* A run the reaper may still act on: a live one, or a finished one whose
\* ladder has not ended.
Sweepable(r) == \/ runs[r].state \in {"starting", "running"}
                \/ Finished(r) /\ runs[r].rung # "ended"

\* candidates and eligible: the run names a process no open chat links.
Candidate(r) == Sweepable(r) /\ runs[r].pid # None /\ ~Protected(runs[r].pid)

\* A mistake to be caught: the run's message is left in progress.
ReaperFinishRunOnly(r, exited) ==
    /\ runs' = [runs EXCEPT ![r] =
          [Settled(r, IF Live(r) THEN "cancelled" ELSE runs[r].state, exited)
             EXCEPT !.rung = "ended"]]
    /\ UNCHANGED <<messages, chats, registry>>

\* A mistake to be caught: a finished run is cancelled like a live one.
ReaperFinishAny(r, exited) ==
    /\ runs' = [runs EXCEPT ![r] = Settled(r, "cancelled", exited)]
    /\ UNCHANGED <<messages, chats, registry>>

\* finish_interrupted: a live run is cancelled with its message; a finished
\* run only gets the record that ends its ladder.
ReaperFinish(r, exited) ==
    LET c == ChatOfRun(r)
        m == runs[r].msg
    IN
    /\ runs' = [runs EXCEPT ![r] =
          [Settled(r, IF Live(r) THEN "cancelled" ELSE runs[r].state, exited)
             EXCEPT !.rung = "ended"]]
    /\ messages' = IF Live(r) /\ messages[m].state \notin TERMINAL_MESSAGE_STATES
                   THEN [messages EXCEPT ![m].state = "cancelled"]
                   ELSE messages
    /\ chats' = IF Live(r) /\ chats[c].state = "running"
                THEN [chats EXCEPT ![c].state =
                        IF PendingOf(c) # {} THEN "queued" ELSE "idle"]
                ELSE chats
    /\ UNCHANGED registry

Sweeping(r) == broker.up /\ Candidate(r)

\* The recorded process exited: record the outcome and forget the identity.
\* A signal step that finds the process gone ends the same way.
SweepGone(r) ==
    /\ Sweeping(r) /\ ~Alive(runs[r].pid)
    /\ ReaperFinish(r, TRUE)
    /\ UNCHANGED <<procs, workers, broker, creating, killing>>

\* First rung: interrupt through the broker, then record it.
SweepInterrupt(r) ==
    /\ Sweeping(r) /\ Alive(runs[r].pid) /\ runs[r].rung = "none"
    /\ InterruptWorkers(r)
    /\ runs' = WithIntent(r, [runs EXCEPT ![r].rung = "interrupt"])
    /\ broker' = [broker EXCEPT
                    !.wake = @ \/ Live(InterruptedRun(r)) \/ WorkersOn(r) # {}]
    /\ UNCHANGED <<chats, registry, messages, procs, creating, killing>>

\* A signal rung: SIGTERM may be survived, SIGKILL may not.  Eligibility is
\* read before the signal and again to record it; once a run is a candidate
\* only its own end can change that, so one step stands for the three.
SweepSignals(r) ==
    /\ Sweeping(r) /\ Alive(runs[r].pid)
    /\ runs[r].rung \in {"interrupt", "SIGTERM"}
    /\ LET killed == runs[r].rung = "SIGTERM" IN
       /\ runs' = [runs EXCEPT
                     ![r].rung = IF killed THEN "SIGKILL" ELSE "SIGTERM"]
       /\ \/ procs' = [procs EXCEPT ![runs[r].pid].state = "gone"]
          \/ ~killed /\ UNCHANGED procs
    /\ UNCHANGED <<chats, registry, messages, workers, broker, creating,
                   killing>>

\* After SIGKILL was delivered the outcome is recorded without an exit proof.
SweepKilled(r) ==
    /\ Sweeping(r) /\ runs[r].rung = "SIGKILL"
    /\ ReaperFinish(r, FALSE)
    /\ UNCHANGED <<procs, workers, broker, creating, killing>>

=============================================================================
