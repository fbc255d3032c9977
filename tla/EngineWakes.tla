---------------------------- MODULE EngineWakes -----------------------------
(***************************************************************************)
(* What follows an engine message once its turn is queued: its receipt is  *)
(* settled by the transcript, replayed while a command line holds the      *)
(* shell, or blocked for the operator.                                     *)
(***************************************************************************)
EXTENDS BackgroundRuns

receiptRows == <<wakes, desk, lease, letters, notice, sups>>

Following(m) == receipts[m].turn # 0 /\ receipts[m].settled = "no"

TheTurn(m) == turns[receipts[m].turn]

\* The transcript of the turn holds this message's part of the prompt.
Consumed(t, m) == turns[t].shown /\ m \in turns[t].letters

Block(ms) ==
    /\ receipts' = [m \in Letters |-> IF m \in ms
                      THEN [receipts[m] EXCEPT !.settled = "blocked",
                                               !.retry = "none"]
                      ELSE receipts[m]]
    /\ jobs' = TellJobs(ms, "blocked")

ReadReceipts(m) ==
    LET t == TheTurn(m) IN
    /\ lease.pc = "idle" /\ pulse.pc = "idle"
    /\ Following(m)
    /\ pulse' = [IdlePulse EXCEPT !.pc = "judge", !.letter = m, !.view =
                   [receipt |-> receipts[m],
                    ended |-> t.state \in {"done", "cancelled"},
                    busy |-> t.state = "busy",
                    closed |-> ChatClosed(t.chat)]]
    /\ UNCHANGED <<receipts, jobs, turns, receiptRows>>

\* A mistake to be caught: no retry is set.
CountRefusalOnly(m, seen) ==
    LET n == seen.busy + 1
        r == receipts[m]
    IN
    /\ receipts' = [receipts EXCEPT ![m] =
         [r EXCEPT !.busy = n, !.seen = seen.turn,
                   !.retry = "none",
                   !.settled = IF n > Ladder THEN "blocked" ELSE "no"]]
    /\ jobs' = [j \in Jobs |-> IF jobs[j].letter = m
                  THEN [jobs[j] EXCEPT
                          !.wake = IF n > Ladder THEN "blocked" ELSE "pending"]
                  ELSE jobs[j]]

\* A turn refused with SHELL_BUSY counts once; past the ladder it is blocked.
CountRefusal(m, seen) ==
    LET n == seen.busy + 1
        r == receipts[m]
    IN
    /\ receipts' = [receipts EXCEPT ![m] =
         [r EXCEPT !.busy = n, !.seen = seen.turn,
                   !.retry = IF n > Ladder THEN "none" ELSE "waiting",
                   !.settled = IF n > Ladder THEN "blocked" ELSE "no"]]
    /\ jobs' = [j \in Jobs |-> IF jobs[j].letter = m
                  THEN [jobs[j] EXCEPT
                          !.wake = IF n > Ladder THEN "blocked" ELSE "pending"]
                  ELSE jobs[j]]

\* _reconcile_receipt, its cases in order.  Only the transcript is read anew;
\* the rest is judged by the row as the pulse first read it.
JudgeReceipt ==
    LET m    == pulse.letter
        view == pulse.view
        seen == view.receipt
        done == pulse' = IdlePulse
    IN
    /\ pulse.pc = "judge"
    /\ \/ /\ Consumed(seen.turn, m)
          /\ receipts' = [receipts EXCEPT ![m] =
                [receipts[m] EXCEPT !.settled = "consumed", !.retry = "none"]]
          /\ jobs' = TellJobs({m}, "consumed") /\ done
       \/ /\ ~Consumed(seen.turn, m)
          /\ \/ /\ view.busy /\ seen.seen # seen.turn
                /\ CountRefusal(m, seen) /\ done
             \/ /\ ~(view.busy /\ seen.seen # seen.turn)
                /\ \/ /\ seen.retry = "due" /\ view.closed
                      /\ Block({m}) /\ done
                   \/ /\ seen.retry = "due" /\ ~view.closed
                      /\ pulse' = [pulse EXCEPT !.pc = "retry"]
                      /\ UNCHANGED <<receipts, jobs>>
                   \/ /\ \/ seen.retry = "waiting"
                         \/ seen.retry = "none" /\ view.busy
                      /\ done /\ UNCHANGED <<receipts, jobs>>
                   \/ /\ seen.retry = "none" /\ ~view.busy
                      /\ view.ended \/ view.closed
                      /\ Block({m}) /\ done
                   \/ /\ seen.retry = "none" /\ ~view.busy
                      /\ ~view.ended /\ ~view.closed
                      /\ jobs' = TellJobs({m}, "enqueued")
                      /\ done /\ UNCHANGED receipts
    /\ UNCHANGED <<turns, receiptRows>>

RetryTimeComes(m) ==
    /\ receipts[m].retry = "waiting"
    /\ receipts' = [receipts EXCEPT ![m].retry = "due"]
    /\ UNCHANGED <<jobs, turns, pulse, receiptRows>>

\* Messages that share the turn follow it to its replay.
Sharing(t) == {n \in Letters : receipts[n].turn = t}

DueWith(t) ==
    {n \in Sharing(t) : Following(n) /\ receipts[n].retry = "due"}

\* A mistake to be caught: the key counts from zero.
RetryKeyBefore == <<0, pulse.letter, pulse.view.receipt.busy - 1>>

RetryKey == <<0, pulse.letter, pulse.view.receipt.busy>>

\* The replay is queued under a key of its own, in a commit of its own.  A
\* closed chat, or a key that names another prompt, blocks those due with it.
ReplayTurn ==
    LET t == pulse.view.receipt.turn
        c == turns[t].chat
    IN
    /\ pulse.pc = "retry"
    /\ IF TurnRefused(c, RetryKey, turns[t].letters)
       THEN Block(DueWith(t)) /\ pulse' = IdlePulse /\ UNCHANGED turns
       ELSE /\ Len(turns) < MaxTurns \/ Keyed(c, RetryKey) # {}
            /\ QueueTurn(c, RetryKey, turns[t].letters)
            /\ pulse' = [pulse EXCEPT !.pc = "replayed"]
            /\ UNCHANGED <<receipts, jobs>>
    /\ UNCHANGED receiptRows

RecordReplay ==
    LET t == pulse.view.receipt.turn
        u == CHOOSE v \in Keyed(turns[t].chat, RetryKey) : TRUE
    IN
    /\ pulse.pc = "replayed"
    /\ receipts' = [n \in Letters |-> IF n \in Sharing(t)
                      THEN [receipts[n] EXCEPT !.turn = u, !.retry = "none"]
                      ELSE receipts[n]]
    /\ pulse' = IdlePulse
    /\ UNCHANGED <<jobs, turns, receiptRows>>

\* A mistake to be caught: a turn that runs has read its prompt.
CodexTrusts(t) ==
    LET ms == {m \in turns[t].letters : Engine(m)} IN
    /\ turns[t].state = "running"
    /\ \E m \in ms : receipts[m].settled # "consumed"
    /\ receipts' = [m \in Letters |-> IF m \in ms
         THEN [receipts[m] EXCEPT !.settled = "consumed", !.retry = "none",
                !.turn = IF receipts[m].turn = 0 THEN t ELSE receipts[m].turn]
         ELSE receipts[m]]
    /\ jobs' = TellJobs(ms, "consumed")
    /\ UNCHANGED <<turns, pulse, receiptRows>>

\* A codex turn is inspected by the broker when it ends: its receipts are
\* settled, or made, whatever the pulse is doing.
CodexObserves(t) ==
    LET ms == {m \in turns[t].letters : Engine(m)} IN
    /\ turns[t].state = "running" /\ turns[t].shown
    /\ \E m \in ms : receipts[m].settled # "consumed"
    /\ receipts' = [m \in Letters |-> IF m \in ms
         THEN [receipts[m] EXCEPT !.settled = "consumed", !.retry = "none",
                !.turn = IF receipts[m].turn = 0 THEN t ELSE receipts[m].turn]
         ELSE receipts[m]]
    /\ jobs' = TellJobs(ms, "consumed")
    /\ UNCHANGED <<turns, pulse, receiptRows>>

Follow ==
    \/ \E m \in Letters : ReadReceipts(m)
    \/ JudgeReceipt \/ ReplayTurn \/ RecordReplay

=============================================================================
