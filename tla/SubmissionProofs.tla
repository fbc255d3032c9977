-------------------------- MODULE SubmissionProofs --------------------------
(***************************************************************************)
(* A prompt reaches a harness at most once.  The argument: a run that may  *)
(* still be submitted (leased, or with its worker at the start call) is    *)
(* the only run of its message, and no process was launched for it.  From  *)
(* the same invariant: a shell has one process at most, and a process that *)
(* lost its link is not linked again.                                      *)
(***************************************************************************)
EXTENDS ConversationHistoryProofs

Unstarted == {"leased", "starting"}
Started   == {"running"} \cup TERMINAL_RUN_STATES
Untaken   == {"absent", "queued"}

Unsent(r) == \A p \in Procs : procs[p].msg # runs[r].msg
Sole(r)   == \A q \in Runs \ {r} : runs[q].msg # runs[r].msg

\* Each message has one process at most.
SentOnce ==
    /\ \A p \in Procs : procs[p].state = "absent" => procs[p].msg = None
    /\ \A p, q \in Procs :
          procs[p].msg = procs[q].msg /\ procs[p].msg # None => p = q

\* A message nobody has claimed has neither run nor process.
UntakenIsFresh ==
    /\ \A r \in Runs : runs[r].state = "absent" => runs[r].msg = None
    /\ \A m \in Messages : messages[m].state \in Untaken =>
          /\ \A r \in Runs : runs[r].msg # m
          /\ \A p \in Procs : procs[p].msg # m

\* A run that may still be submitted is the sole run of an unsent message.
SubmittableIsSole ==
    \A r \in Runs :
        runs[r].state = "leased" \/ At(r, "spawn") => Unsent(r) /\ Sole(r)

\* A worker at the start call has its own starting run; a worker that writes
\* to another run than it was activated for, or lingers, is past the start.
WorkersKnowTheirRun ==
    /\ \A w \in Runs : At(w, "spawn") => runs[w].state = "starting"
    /\ \A w \in Runs : Active(w) /\ workers[w].cur # w =>
                          runs[workers[w].cur].state \in Started
    /\ \A w \in Runs : At(w, "linger") => Finished(workers[w].cur)

NoEarlyProcess ==
    \A r \in Runs : runs[r].state \in Unstarted => runs[r].pid = None

SubmitInv ==
    /\ SentOnce
    /\ UntakenIsFresh
    /\ SubmittableIsSole
    /\ WorkersKnowTheirRun
    /\ NoEarlyProcess

-----------------------------------------------------------------------------
(* Steps that submit nothing and make nothing submittable.                 *)

RunsQuiet ==
    \A r \in Runs :
        /\ runs'[r].msg = runs[r].msg
        /\ runs'[r].state = "absent" => runs[r].state = "absent"
        /\ runs'[r].state \in Unstarted =>
             /\ runs[r].state \in Unstarted
             /\ runs[r].pid = None => runs'[r].pid = None
        /\ runs'[r].state = "leased" => runs[r].state = "leased"
        /\ runs[r].state \in Started => runs'[r].state \in Started
        /\ Finished(r) => runs'[r].state \in TERMINAL_RUN_STATES

ProcsQuiet ==
    \A p \in Procs :
        /\ procs'[p].msg = procs[p].msg
        /\ procs'[p].state = "absent" => procs[p].state = "absent"

MessagesQuiet ==
    \A m \in Messages :
        messages'[m].state \in Untaken => messages[m].state \in Untaken

WorkersQuiet ==
    \A w \in Runs :
        /\ workers'[w].pc = "spawn" =>
             /\ At(w, "spawn") \/ runs[w].state = "leased"
             /\ runs'[w].state = "starting"
        /\ workers'[w].pc # "off" =>
             \/ workers'[w].cur = w
             \/ Active(w) /\ workers'[w].cur = workers[w].cur
        /\ workers'[w].pc = "linger" =>
             \/ At(w, "linger") /\ workers'[w].cur = workers[w].cur
             \/ /\ workers'[w].cur \in Runs
                /\ runs'[workers'[w].cur].state \in TERMINAL_RUN_STATES

Quiet == RunsQuiet /\ MessagesQuiet /\ WorkersQuiet

LEMMA QuietRows ==
    ASSUME TypeInv, RefInv, SubmitInv, Quiet
    PROVE  /\ WorkersKnowTheirRun'
           /\ NoEarlyProcess'
           /\ \A r \in Runs : runs'[r].state = "absent" => runs'[r].msg = None
           /\ \A m \in Messages : messages'[m].state \in Untaken =>
                \A r \in Runs : runs'[r].msg # m
           /\ \A r \in Runs : runs'[r].state = "leased" \/ At(r, "spawn")' =>
                Unsent(r) /\ Sole(r) /\ Sole(r)'
<1>1. \A w \in Runs : At(w, "spawn")' => runs'[w].state = "starting"
  BY DEF Quiet, WorkersQuiet, At
<1>2. ASSUME NEW w \in Runs, Active(w)', workers'[w].cur # w
      PROVE  runs'[workers'[w].cur].state \in Started
  <2>1. /\ Active(w) /\ workers'[w].cur = workers[w].cur
        /\ workers[w].cur \in Runs
    BY <1>2 DEF Quiet, WorkersQuiet, Active, TypeInv, WorkersOK
  <2> QED
    BY <1>2, <2>1 DEF Quiet, RunsQuiet, SubmitInv, WorkersKnowTheirRun
<1>3. ASSUME NEW w \in Runs, At(w, "linger")'
      PROVE  Finished(workers[w].cur)'
  <2>1. CASE At(w, "linger") /\ workers'[w].cur = workers[w].cur
    <3>1. workers[w].cur \in Runs
      BY <2>1 DEF At, Active, TypeInv, WorkersOK
    <3> QED
      BY <2>1, <3>1
         DEF Quiet, RunsQuiet, SubmitInv, WorkersKnowTheirRun, Finished
  <2>2. CASE runs'[workers'[w].cur].state \in TERMINAL_RUN_STATES
    BY <2>2 DEF Finished
  <2> QED
    BY <1>3, <2>1, <2>2 DEF Quiet, WorkersQuiet, At
<1>4. NoEarlyProcess'
  BY DEF Quiet, RunsQuiet, SubmitInv, NoEarlyProcess
<1>5. \A r \in Runs : runs'[r].state = "absent" => runs'[r].msg = None
  BY DEF Quiet, RunsQuiet, SubmitInv, UntakenIsFresh
<1>6. \A m \in Messages : messages'[m].state \in Untaken =>
        \A r \in Runs : runs'[r].msg # m
  BY DEF Quiet, RunsQuiet, MessagesQuiet, SubmitInv, UntakenIsFresh
<1>7. ASSUME NEW r \in Runs, runs'[r].state = "leased" \/ At(r, "spawn")'
      PROVE  Unsent(r) /\ Sole(r) /\ Sole(r)'
  <2>1. runs[r].state = "leased" \/ At(r, "spawn")
    BY <1>7 DEF Quiet, RunsQuiet, WorkersQuiet, Unstarted, At
  <2>2. Unsent(r) /\ Sole(r)
    BY <2>1 DEF SubmitInv, SubmittableIsSole
  <2> QED
    BY <2>2 DEF Sole, Quiet, RunsQuiet
<1> QED
  BY <1>1, <1>2, <1>3, <1>4, <1>5, <1>6, <1>7 DEF WorkersKnowTheirRun

LEMMA QuietKeeps ==
    ASSUME TypeInv, RefInv, SubmitInv, Quiet, ProcsQuiet
    PROVE  SubmitInv'
<1>1. SentOnce'
  BY DEF ProcsQuiet, SubmitInv, SentOnce
<1>2. UntakenIsFresh'
  <2>1. \A m \in Messages : messages'[m].state \in Untaken =>
          \A p \in Procs : procs'[p].msg # m
    BY DEF Quiet, MessagesQuiet, ProcsQuiet, SubmitInv, UntakenIsFresh
  <2> QED
    BY <2>1, QuietRows DEF UntakenIsFresh
<1>3. SubmittableIsSole'
  <2>1. \A r \in Runs : Unsent(r) => Unsent(r)'
    BY DEF Unsent, ProcsQuiet, Quiet, RunsQuiet
  <2> QED
    BY <2>1, QuietRows DEF SubmittableIsSole
<1> QED
  BY <1>1, <1>2, <1>3, QuietRows DEF SubmitInv

\* The start call itself: the launched process is the message's first.
LEMMA LaunchKeeps ==
    ASSUME TypeInv, RefInv, SubmitInv, Quiet,
           NEW w \in Runs, At(w, "spawn"), workers'[w].pc # "spawn",
           NEW p \in FirstUnused(Procs, procs), Launched(w, p)
    PROVE  SubmitInv'
<1> DEFINE m == runs[w].msg
<1>1. /\ p \in Procs
      /\ procs'[p].msg = m /\ procs'[p].state = "alive"
      /\ \A q \in Procs \ {p} : procs'[q] = procs[q]
  BY DEF FirstUnused, Launched, TypeInv, RestOK
<1>2. /\ runs[w].state = "starting" /\ Unsent(w) /\ Sole(w)
      /\ m \in Messages
  BY DEF SubmitInv, WorkersKnowTheirRun, SubmittableIsSole, RefInv
<1>3. SentOnce'
  BY <1>1, <1>2 DEF SubmitInv, SentOnce, Unsent
<1>4. UntakenIsFresh'
  <2>1. messages'[m].state \notin Untaken
    BY <1>2 DEF Quiet, MessagesQuiet, SubmitInv, UntakenIsFresh
  <2>2. \A k \in Messages : messages'[k].state \in Untaken =>
          \A q \in Procs : procs'[q].msg # k
    BY <1>1, <2>1 DEF Quiet, MessagesQuiet, SubmitInv, UntakenIsFresh
  <2> QED
    BY <2>2, QuietRows DEF UntakenIsFresh
<1>5. SubmittableIsSole'
  <2>1. ASSUME NEW r \in Runs, runs'[r].state = "leased" \/ At(r, "spawn")'
        PROVE  Unsent(r)' /\ Sole(r)'
    <3>1. r # w
      BY <1>2, <2>1 DEF At, Quiet, RunsQuiet, Unstarted
    <3>2. Unsent(r) /\ Sole(r) /\ Sole(r)'
      BY <2>1, QuietRows
    <3>3. runs'[r].msg = runs[r].msg /\ runs[r].msg # m
      BY <3>1, <3>2 DEF Sole, Quiet, RunsQuiet
    <3> QED
      BY <1>1, <3>2, <3>3 DEF Unsent
  <2> QED
    BY <2>1 DEF SubmittableIsSole
<1> QED
  BY <1>3, <1>4, <1>5, QuietRows DEF SubmitInv

\* A step disturbs no start call: nobody else's run changes its state.
StartsKept(w) ==
    \A v \in Runs \ {w} : At(v, "spawn") => runs'[v].state = runs[v].state

LEMMA UnchangedQuiet ==
    /\ UNCHANGED runs => RunsQuiet
    /\ UNCHANGED procs => ProcsQuiet
    /\ UNCHANGED messages => MessagesQuiet
<1>1. UNCHANGED runs => RunsQuiet
  BY DEF RunsQuiet, Finished
<1>2. UNCHANGED procs => ProcsQuiet
  BY DEF ProcsQuiet
<1>3. UNCHANGED messages => MessagesQuiet
  BY DEF MessagesQuiet
<1> QED
  BY <1>1, <1>2, <1>3

\* A worker that moves on, but not to the start call or to its linger, or
\* that ends.
LEMMA WorkerQuiet ==
    ASSUME TypeInv, SubmitInv, NEW w, StartsKept(w)
    PROVE  /\ \A pc : /\ Active(w) /\ Goto(w, pc)
                      /\ pc \notin {"spawn", "linger"}
                      => WorkersQuiet
           /\ Deactivate(w) => WorkersQuiet
<1>1. \A v \in Runs \ {w} : At(v, "spawn") => runs'[v].state = "starting"
  BY DEF StartsKept, SubmitInv, WorkersKnowTheirRun
<1>2. ASSUME NEW pc, Active(w), Goto(w, pc), pc \notin {"spawn", "linger"}
      PROVE  WorkersQuiet
  BY <1>1, <1>2
     DEF Goto, WorkersQuiet, Active, At, TypeInv, WorkersOK, WorkerRow
<1>3. ASSUME Deactivate(w)
      PROVE  WorkersQuiet
  <2>1. NoWorker.pc = "off"
    BY DEF NoWorker
  <2>2. \A v \in Runs : \/ workers'[v] = workers[v] /\ v # w
                        \/ workers'[v] = NoWorker
    BY <1>3 DEF Deactivate, TypeInv, WorkersOK
  <2> QED
    BY <1>1, <2>1, <2>2 DEF WorkersQuiet, Active, At
<1> QED
  BY <1>2, <1>3

\* Nobody writes to the run another worker is about to start.
LEMMA NobodyElseStarts ==
    ASSUME SubmitInv, NEW w \in Runs, Active(w)
    PROVE  \A v \in Runs \ {w} : At(v, "spawn") => v # workers[w].cur
  BY DEF SubmitInv, WorkersKnowTheirRun, Started, TERMINAL_RUN_STATES

LEMMA FinishQuiet ==
    ASSUME TypeInv, RefInv, NEW r \in Runs,
           NEW outcome \in TERMINAL_RUN_STATES,
           NEW keep \in BOOLEAN, NEW exited \in BOOLEAN,
           TryFinish(r, outcome, keep, exited)
    PROVE  /\ RunsQuiet /\ MessagesQuiet
           /\ \A v \in Runs \ {r} : runs'[v] = runs[v]
<1>1. CASE UNCHANGED rows
  BY <1>1, UnchangedQuiet DEF rows
<1>2. CASE Live(r) /\ FinishRun(r, outcome, keep, exited)
  <2>1. runs' = [runs EXCEPT ![r] = Settled(r, outcome, exited)]
    BY <1>2 DEF FinishRun
  <2>2. /\ Settled(r, outcome, exited).state = outcome
        /\ Settled(r, outcome, exited).msg = runs[r].msg
    BY DEF Settled, NoRun
  <2>3. RunsQuiet
    BY <1>2, <2>1, <2>2 DEF RunsQuiet, TypeInv, RowsOK, Live, Finished,
       Unstarted, Started, LIVE_RUN_STATES, TERMINAL_RUN_STATES
  <2>4. MessageOutcome[outcome] \notin Untaken
    BY DEF MessageOutcome, TERMINAL_RUN_STATES, Untaken
  <2>5. MessagesQuiet
    BY <1>2, <2>4 DEF FinishRun, MessagesQuiet, TypeInv, RowsOK, MessageRow,
                      Untaken
  <2> QED
    BY <2>1, <2>3, <2>5 DEF TypeInv, RowsOK
<1> QED
  BY <1>1, <1>2 DEF TryFinish

LEMMA FinishAndStopKeeps ==
    ASSUME TypeInv, RefInv, SubmitInv, NEW w \in Runs, Active(w),
           NEW outcome \in TERMINAL_RUN_STATES,
           NEW keep \in BOOLEAN, NEW exited \in BOOLEAN,
           FinishAndStop(w, outcome, keep, exited)
    PROVE  SubmitInv'
<1> DEFINE r == workers[w].cur
<1>1. r \in Runs
  BY WorkerTypes
<1>2. /\ RunsQuiet /\ MessagesQuiet
      /\ \A v \in Runs \ {r} : runs'[v] = runs[v]
  BY <1>1, FinishQuiet DEF FinishAndStop
<1>3. StartsKept(w)
  BY <1>2, NobodyElseStarts DEF StartsKept
<1>4. WorkersQuiet
  BY <1>3, WorkerQuiet DEF FinishAndStop
<1> QED
  BY <1>2, <1>4, QuietKeeps, UnchangedQuiet DEF FinishAndStop, Aside, Quiet

\* One field of one run, other than its message and its state.
LEMMA FieldQuiet ==
    ASSUME TypeInv, NEW r
    PROVE  /\ \A b : runs' = [runs EXCEPT ![r].expired = b] =>
                       RunsQuiet /\ \A w : StartsKept(w)
           /\ \A b : runs' = [runs EXCEPT ![r].archived = b] =>
                       RunsQuiet /\ \A w : StartsKept(w)
           /\ \A b : runs' = [runs EXCEPT ![r].intent = b] =>
                       RunsQuiet /\ \A w : StartsKept(w)
           /\ \A g : runs' = [runs EXCEPT ![r].rung = g] =>
                       RunsQuiet /\ \A w : StartsKept(w)
<1>1. ASSUME \A q \in Runs : /\ runs'[q].msg = runs[q].msg
                             /\ runs'[q].state = runs[q].state
                             /\ runs'[q].pid = runs[q].pid
      PROVE  RunsQuiet /\ \A w : StartsKept(w)
  BY <1>1 DEF RunsQuiet, StartsKept, Finished
<1>2. \A b : runs' = [runs EXCEPT ![r].expired = b] =>
               RunsQuiet /\ \A w : StartsKept(w)
  BY <1>1 DEF TypeInv, RowsOK, RunRow
<1>3. \A b : runs' = [runs EXCEPT ![r].archived = b] =>
               RunsQuiet /\ \A w : StartsKept(w)
  BY <1>1 DEF TypeInv, RowsOK, RunRow
<1>4. \A b : runs' = [runs EXCEPT ![r].intent = b] =>
               RunsQuiet /\ \A w : StartsKept(w)
  BY <1>1 DEF TypeInv, RowsOK, RunRow
<1>5. \A g : runs' = [runs EXCEPT ![r].rung = g] =>
               RunsQuiet /\ \A w : StartsKept(w)
  BY <1>1 DEF TypeInv, RowsOK, RunRow
<1> QED
  BY <1>2, <1>3, <1>4, <1>5

-----------------------------------------------------------------------------
(* One actor at a time. *)

\* The run a worker carries on is the next attempt of a finished one.
LEMMA ContinuationKeeps ==
    ASSUME TypeInv, RefInv, SubmitInv, NEW w \in Runs, OpenContinuation(w)
    PROVE  SubmitInv'
<1> DEFINE old == workers[w].cur
           row == [NoRun EXCEPT !.state = "running",
                                !.msg = runs[old].msg,
                                !.pid = runs[old].pid]
<1>1. PICK r \in FirstUnused(Runs, runs) :
        /\ runs' = [runs EXCEPT ![r] = row]
        /\ workers' = [workers EXCEPT ![w].pc = "stream", ![w].cur = r,
                                      ![w].terminal = "none"]
  BY DEF OpenContinuation
<1>2. At(w, "linger") /\ Active(w) /\ UNCHANGED <<messages, procs>>
  BY DEF OpenContinuation, At, Active, InMemory, Aside
<1>3. r \in Runs /\ runs[r].state = "absent" /\ old \in Runs /\ Finished(old)
  BY <1>2, WorkerTypes
     DEF FirstUnused, SubmitInv, WorkersKnowTheirRun
<1>4. row.state = "running" /\ row.msg = runs[old].msg
  BY DEF NoRun
<1>5. runs'[r] = row /\ \A q \in Runs \ {r} : runs'[q] = runs[q]
  BY <1>1, <1>3 DEF TypeInv, RowsOK
<1>6. /\ workers'[w].pc = "stream" /\ workers'[w].cur = r
      /\ \A v \in Runs \ {w} : workers'[v] = workers[v]
  BY <1>1 DEF TypeInv, WorkersOK, WorkerRow
<1> HIDE DEF row
<1>7. SentOnce'
  BY <1>2 DEF SubmitInv, SentOnce
<1>8. UntakenIsFresh'
  BY <1>2, <1>3, <1>4, <1>5 DEF SubmitInv, UntakenIsFresh
<1>9. SubmittableIsSole'
  <2>1. ASSUME NEW q \in Runs, runs'[q].state = "leased" \/ At(q, "spawn")'
        PROVE  Unsent(q)' /\ Sole(q)'
    <3>1. q # r /\ (runs[q].state = "leased" \/ At(q, "spawn"))
      BY <1>3, <1>4, <1>5, <1>6, <2>1
         DEF At, SubmitInv, WorkersKnowTheirRun
    <3>2. Unsent(q) /\ Sole(q)
      BY <3>1 DEF SubmitInv, SubmittableIsSole
    <3>3. q # old
      BY <1>3, <3>1 DEF Finished, TERMINAL_RUN_STATES, SubmitInv,
                        WorkersKnowTheirRun
    <3>4. Sole(q)'
      BY <1>3, <1>4, <1>5, <3>1, <3>2, <3>3 DEF Sole
    <3>5. Unsent(q)'
      BY <1>2, <1>5, <3>1, <3>2 DEF Unsent
    <3> QED
      BY <3>4, <3>5
  <2> QED
    BY <2>1 DEF SubmittableIsSole
<1>10. WorkersKnowTheirRun'
  <2>1. \A v \in Runs : At(v, "spawn")' => runs'[v].state = "starting"
    BY <1>3, <1>5, <1>6 DEF At, SubmitInv, WorkersKnowTheirRun
  <2>2. ASSUME NEW v \in Runs, Active(v)', workers'[v].cur # v
        PROVE  runs'[workers'[v].cur].state \in Started
    <3>1. CASE v = w
      BY <1>4, <1>5, <1>6, <3>1 DEF Started
    <3>2. CASE v # w
      <4>1. /\ Active(v) /\ workers'[v].cur = workers[v].cur
            /\ workers[v].cur \in Runs
        BY <1>6, <2>2, <3>2, WorkerTypes DEF Active
      <4>2. runs[workers[v].cur].state \in Started
        BY <2>2, <4>1 DEF SubmitInv, WorkersKnowTheirRun
      <4> QED
        BY <1>3, <1>5, <4>1, <4>2 DEF Started, TERMINAL_RUN_STATES
    <3> QED
      BY <3>1, <3>2
  <2>3. ASSUME NEW v \in Runs, At(v, "linger")'
        PROVE  Finished(workers[v].cur)'
    <3>1. v # w /\ At(v, "linger") /\ workers'[v].cur = workers[v].cur
      BY <1>6, <2>3 DEF At
    <3>2. workers[v].cur \in Runs /\ Finished(workers[v].cur)
      BY <3>1, WorkerTypes DEF At, Active, SubmitInv, WorkersKnowTheirRun
    <3> QED
      BY <1>3, <1>5, <3>1, <3>2 DEF Finished, TERMINAL_RUN_STATES
  <2> QED
    BY <2>1, <2>2, <2>3 DEF WorkersKnowTheirRun
<1>11. NoEarlyProcess'
  BY <1>4, <1>5 DEF SubmitInv, NoEarlyProcess, Unstarted
<1> QED
  BY <1>7, <1>8, <1>9, <1>10, <1>11 DEF SubmitInv

LEMMA LingerQuiet ==
    ASSUME TypeInv, RefInv, SubmitInv, NEW w \in Runs, LingerFinish(w)
    PROVE  Quiet
<1> DEFINE r == workers[w].cur
<1>1. r \in Runs /\ Active(w) /\ runs[r].state # "absent"
  BY WorkerTypes DEF LingerFinish, At, Active, RefInv
<1>2. /\ TryFinish(r, AdapterOutcome(w), TRUE, FALSE)
      /\ AdapterOutcome(w) \in TERMINAL_RUN_STATES
  BY OutcomeTypes DEF LingerFinish
<1>3. /\ RunsQuiet /\ MessagesQuiet
      /\ \A v \in Runs \ {r} : runs'[v] = runs[v]
  BY <1>1, <1>2, FinishQuiet
<1>4. StartsKept(w)
  BY <1>1, <1>3, NobodyElseStarts DEF StartsKept
<1>5. CASE Live(r) /\ ~FinishLegal(r, AdapterOutcome(w))
  BY <1>3, <1>4, <1>5, WorkerQuiet DEF LingerFinish, Quiet
<1>6. CASE ~(Live(r) /\ ~FinishLegal(r, AdapterOutcome(w)))
  <2>1. workers' = [workers EXCEPT ![w].pc = "linger",
                                   ![w].terminal = "none"]
    BY <1>6 DEF LingerFinish
  <2>2. runs'[r].state \in TERMINAL_RUN_STATES
    <3>1. CASE Finished(r)
      BY <1>1, <1>3, <3>1 DEF RunsQuiet
    <3>2. CASE Live(r) /\ FinishRun(r, AdapterOutcome(w), TRUE, FALSE)
      <4>1. runs' = [runs EXCEPT ![r] = Settled(r, AdapterOutcome(w), FALSE)]
        BY <3>2 DEF FinishRun
      <4>2. Settled(r, AdapterOutcome(w), FALSE).state = AdapterOutcome(w)
        BY DEF Settled, NoRun
      <4> QED
        BY <1>1, <1>2, <4>1, <4>2 DEF TypeInv, RowsOK
    <3>3. Live(r) \/ Finished(r)
      BY <1>1 DEF Live, Finished, TypeInv, RowsOK, RunRow, RunStates,
         RUN_TRANSITIONS, LIVE_RUN_STATES, TERMINAL_RUN_STATES
    <3> QED
      BY <1>2, <1>6, <3>1, <3>2, <3>3 DEF TryFinish
  <2>3. \A v \in Runs \ {w} : At(v, "spawn") => runs'[v].state = "starting"
    BY <1>4 DEF StartsKept, SubmitInv, WorkersKnowTheirRun
  <2>4. /\ workers'[w].pc = "linger" /\ workers'[w].cur = r
        /\ \A v \in Runs \ {w} : workers'[v] = workers[v]
    BY <2>1 DEF TypeInv, WorkersOK, WorkerRow
  <2>5. WorkersQuiet
    BY <1>1, <2>2, <2>3, <2>4 DEF WorkersQuiet, At, Active
  <2> QED
    BY <1>3, <2>5 DEF Quiet
<1> QED
  BY <1>5, <1>6

LEMMA WorkKeeps ==
    ASSUME TypeInv, RefInv, SubmitInv, NEW w \in Runs, Work(w)
    PROVE  SubmitInv'
<1>0. Active(w) /\ {"failed", "unknown"} \subseteq TERMINAL_RUN_STATES
  BY DEF Work, At, Active, Prepare, PrepareRebound, PrepareRefused, Defer,
         MarkStarting, Spawn, SpawnFails, MarkNativeStarted,
         NativeStartRollsBack, StreamRefused, LingerFinish, StreamEnds,
         StreamBreaks, OpenContinuation, ContinuationRefused, LingerEnds,
         Reconcile, RecoverLost, Streaming, TERMINAL_RUN_STATES
<1>1. CASE Prepare(w)
  <2>1. RunsQuiet /\ StartsKept(w)
    BY <1>1, FieldQuiet DEF Prepare
  <2>2. WorkersQuiet
    BY <1>0, <1>1, <2>1, WorkerQuiet DEF Prepare
  <2> QED
    BY <1>1, <2>1, <2>2, QuietKeeps, UnchangedQuiet
       DEF Prepare, Quiet, InMemory, Aside
<1>2. CASE PrepareRebound(w)
  BY <1>0, <1>2, FinishAndStopKeeps DEF PrepareRebound
<1>3. CASE PrepareRefused(w)
  BY <1>0, <1>3, FinishAndStopKeeps DEF PrepareRefused
<1>4. CASE Defer(w)
  <2>1. RunsQuiet /\ StartsKept(w)
    BY <1>4, FieldQuiet DEF Defer
  <2>2. WorkersQuiet
    BY <1>4, <2>1, WorkerQuiet DEF Defer
  <2> QED
    BY <1>4, <2>1, <2>2, QuietKeeps, UnchangedQuiet DEF Defer, Quiet, Aside
<1>5. CASE MarkStarting(w)
  <2>1. CASE runs[w].state = "leased"
    <3>1. /\ runs' = [runs EXCEPT ![w].state = "starting",
                                  ![w].expired = FALSE]
          /\ Goto(w, "spawn") /\ UNCHANGED <<messages, procs>>
      BY <1>5, <2>1 DEF MarkStarting, InMemory, Aside
    <3>2. /\ runs'[w].state = "starting" /\ runs'[w].msg = runs[w].msg
          /\ runs'[w].pid = runs[w].pid
          /\ \A q \in Runs \ {w} : runs'[q] = runs[q]
      BY <3>1 DEF TypeInv, RowsOK, RunRow
    <3>3. RunsQuiet
      BY <2>1, <3>2 DEF RunsQuiet, Unstarted, Started, Finished,
                        TERMINAL_RUN_STATES
    <3>4. /\ workers'[w].pc = "spawn" /\ workers'[w].cur = workers[w].cur
          /\ \A v \in Runs \ {w} : workers'[v] = workers[v]
      BY <3>1 DEF Goto, TypeInv, WorkersOK, WorkerRow
    <3>5. WorkersQuiet
      BY <1>0, <2>1, <3>2, <3>4
         DEF WorkersQuiet, At, Active, SubmitInv, WorkersKnowTheirRun
    <3> QED
      BY <3>1, <3>3, <3>5, QuietKeeps, UnchangedQuiet DEF Quiet
  <2>2. CASE runs[w].state # "leased"
    BY <1>0, <1>5, <2>2, FinishAndStopKeeps DEF MarkStarting
  <2> QED
    BY <2>1, <2>2
<1>6. CASE Spawn(w)
  <2>1. PICK p \in FirstUnused(Procs, procs) :
          /\ Launched(w, p)
          /\ workers' = [workers EXCEPT ![w].pc = "native", ![w].proc = p]
    BY <1>6 DEF Spawn
  <2>2. UNCHANGED runs /\ UNCHANGED messages
    BY <1>6 DEF Spawn, rows
  <2>3. /\ workers'[w].pc = "native" /\ workers'[w].cur = workers[w].cur
        /\ \A v \in Runs \ {w} : workers'[v] = workers[v]
    BY <2>1 DEF TypeInv, WorkersOK, WorkerRow
  <2>4. WorkersQuiet
    BY <1>0, <2>2, <2>3
       DEF WorkersQuiet, At, Active, SubmitInv, WorkersKnowTheirRun
  <2>5. Quiet
    BY <2>2, <2>4, UnchangedQuiet DEF Quiet
  <2> QED
    BY <1>6, <2>1, <2>3, <2>5, LaunchKeeps DEF Spawn
<1>7. CASE SpawnFails(w)
  <2>1. /\ RunsQuiet /\ MessagesQuiet
        /\ \A v \in Runs \ {w} : runs'[v] = runs[v]
    BY <1>0, <1>7, FinishQuiet DEF SpawnFails
  <2>2. StartsKept(w)
    BY <2>1 DEF StartsKept
  <2>3. Quiet
    BY <1>7, <2>1, <2>2, WorkerQuiet DEF SpawnFails, Quiet
  <2>4. workers'[w].pc # "spawn"
    BY <1>7 DEF SpawnFails, Deactivate, NoWorker, TypeInv, WorkersOK
  <2>5. CASE UNCHANGED procs
    BY <2>3, <2>5, QuietKeeps, UnchangedQuiet
  <2>6. CASE \E p \in FirstUnused(Procs, procs) : Launched(w, p)
    BY <1>7, <2>3, <2>4, <2>6, LaunchKeeps DEF SpawnFails
  <2> QED
    BY <1>7, <2>5, <2>6 DEF SpawnFails
<1>8. CASE MarkNativeStarted(w)
  <2>1. /\ runs' = [runs EXCEPT ![w].state = "running", ![w].expired = FALSE,
                                ![w].pid = workers[w].proc]
        /\ runs[w].state = "starting" /\ Goto(w, "stream")
        /\ UNCHANGED <<messages, procs>>
    BY <1>8 DEF MarkNativeStarted, InMemory, Aside
  <2>2. /\ runs'[w].state = "running" /\ runs'[w].msg = runs[w].msg
        /\ \A q \in Runs \ {w} : runs'[q] = runs[q]
    BY <2>1 DEF TypeInv, RowsOK, RunRow
  <2>3. RunsQuiet /\ StartsKept(w)
    BY <2>1, <2>2 DEF RunsQuiet, StartsKept, Unstarted, Started, Finished,
                      TERMINAL_RUN_STATES
  <2>4. WorkersQuiet
    BY <1>0, <2>1, <2>3, WorkerQuiet
  <2> QED
    BY <2>1, <2>3, <2>4, QuietKeeps, UnchangedQuiet DEF Quiet
<1>9. CASE NativeStartRollsBack(w)
  BY <1>0, <1>9, FinishAndStopKeeps DEF NativeStartRollsBack
<1>10. CASE StreamRefused(w)
  BY <1>0, <1>10, FinishAndStopKeeps DEF StreamRefused
<1>11. CASE LingerFinish(w)
  BY <1>11, LingerQuiet, QuietKeeps, UnchangedQuiet DEF LingerFinish, Aside
<1>12. CASE StreamEnds(w)
  BY <1>0, <1>12, FinishAndStopKeeps, OutcomeTypes DEF StreamEnds
<1>13. CASE StreamBreaks(w)
  <2>1. CASE Goto(w, "reconcile") /\ UNCHANGED <<rows, InMemory>>
    <3>1. StartsKept(w) /\ UNCHANGED <<runs, messages, procs>>
      BY <2>1 DEF StartsKept, rows, InMemory, Aside
    <3> QED
      BY <1>0, <2>1, <3>1, WorkerQuiet, QuietKeeps, UnchangedQuiet DEF Quiet
  <2>2. CASE FinishAndStop(w, "unknown", FALSE, FALSE)
    BY <1>0, <2>2, FinishAndStopKeeps
  <2>3. CASE /\ workers[w].terminal # "none"
             /\ FinishAndStop(w, AdapterOutcome(w), FALSE, FALSE)
    BY <1>0, <2>3, FinishAndStopKeeps, OutcomeTypes
  <2> QED
    BY <1>13, <2>1, <2>2, <2>3 DEF StreamBreaks
<1>14. CASE OpenContinuation(w)
  BY <1>14, ContinuationKeeps
<1>15. CASE ContinuationRefused(w)
  <2>1. StartsKept(w) /\ UNCHANGED <<runs, messages, procs>>
    BY <1>15 DEF ContinuationRefused, StartsKept, rows, Aside
  <2> QED
    BY <1>15, <2>1, WorkerQuiet, QuietKeeps, UnchangedQuiet
       DEF ContinuationRefused, Quiet
<1>16. CASE LingerEnds(w)
  <2>1. \A q \in Runs : /\ runs'[q].msg = runs[q].msg
                        /\ runs'[q].state = runs[q].state
                        /\ runs'[q].pid \in {runs[q].pid, None}
    BY <1>16 DEF LingerEnds, ReleaseProcessLink, TypeInv, RowsOK, RunRow
  <2>2. RunsQuiet /\ StartsKept(w)
    BY <2>1 DEF RunsQuiet, StartsKept, Finished
  <2> QED
    BY <1>16, <2>2, WorkerQuiet, QuietKeeps, UnchangedQuiet
       DEF LingerEnds, Aside, Quiet
<1>17. CASE \E o \in TERMINAL_RUN_STATES : Reconcile(w, o)
  BY <1>0, <1>17, FinishAndStopKeeps DEF Reconcile
<1>18. CASE RecoverLost(w)
  BY <1>0, <1>18, FinishAndStopKeeps DEF RecoverLost
<1> QED
  BY <1>1, <1>2, <1>3, <1>4, <1>5, <1>6, <1>7, <1>8, <1>9, <1>10, <1>11,
     <1>12, <1>13, <1>14, <1>15, <1>16, <1>17, <1>18 DEF Work


\* A claimed message is fresh, so its run is its only one and it was not sent.
LEMMA ClaimKeeps ==
    ASSUME TypeInv, RefInv, SubmitInv, ClaimNext
    PROVE  SubmitInv'
<1> DEFINE row(m) == [NoRun EXCEPT !.state = "leased", !.msg = m]
           new(r) == [NoWorker EXCEPT !.pc = "prepare", !.cur = r]
<1>1. PICK m \in Claimable, r \in FirstUnused(Runs, runs) :
        /\ messages' = [messages EXCEPT ![m].state = "running",
                                        ![m].outbox = "dispatched"]
        /\ runs' = [runs EXCEPT ![r] = row(m)]
        /\ workers' = [workers EXCEPT ![r] = new(r)]
  BY DEF ClaimNext
<1>2. /\ m \in Messages /\ r \in Runs /\ runs[r].state = "absent"
      /\ messages[m].state \in Untaken
  BY DEF Claimable, FirstUnused, Untaken
<1>3. /\ row(m).state = "leased" /\ row(m).msg = m /\ row(m).pid = None
      /\ new(r).pc = "prepare" /\ new(r).cur = r
  BY DEF NoRun, NoWorker
<1>4. /\ runs'[r] = row(m) /\ \A q \in Runs \ {r} : runs'[q] = runs[q]
      /\ workers'[r] = new(r)
      /\ \A v \in Runs \ {r} : workers'[v] = workers[v]
      /\ procs' = procs
  BY <1>1, <1>2 DEF ClaimNext, TypeInv, RowsOK, WorkersOK
<1>5. /\ messages'[m].state \notin Untaken
      /\ \A k \in Messages \ {m} : messages'[k] = messages[k]
  BY <1>1, <1>2 DEF TypeInv, RowsOK, MessageRow, Untaken
<1> HIDE DEF row, new
<1>6. /\ \A q \in Runs : runs[q].msg # m
      /\ \A p \in Procs : procs[p].msg # m
  BY <1>2 DEF SubmitInv, UntakenIsFresh
<1>7. SentOnce'
  BY <1>4 DEF SubmitInv, SentOnce
<1>8. UntakenIsFresh'
  <2>1. ASSUME NEW k \in Messages, messages'[k].state \in Untaken
        PROVE  /\ \A q \in Runs : runs'[q].msg # k
               /\ \A p \in Procs : procs'[p].msg # k
    <3>1. k # m /\ messages[k].state \in Untaken
      BY <1>5, <2>1
    <3> QED
      BY <1>3, <1>4, <3>1 DEF SubmitInv, UntakenIsFresh
  <2>2. \A q \in Runs : runs'[q].state = "absent" => runs'[q].msg = None
    BY <1>3, <1>4 DEF SubmitInv, UntakenIsFresh
  <2> QED
    BY <2>1, <2>2 DEF UntakenIsFresh
<1>9. SubmittableIsSole'
  <2>1. Unsent(r)' /\ Sole(r)'
    BY <1>3, <1>4, <1>6 DEF Unsent, Sole
  <2>2. ASSUME NEW q \in Runs \ {r},
               runs'[q].state = "leased" \/ At(q, "spawn")'
        PROVE  Unsent(q)' /\ Sole(q)'
    <3>1. Unsent(q) /\ Sole(q)
      BY <1>4, <2>2 DEF At, SubmitInv, SubmittableIsSole
    <3> QED
      BY <1>3, <1>4, <1>6, <3>1 DEF Unsent, Sole
  <2> QED
    BY <2>1, <2>2 DEF SubmittableIsSole
<1>10. WorkersKnowTheirRun'
  <2>1. \A v \in Runs : At(v, "spawn")' =>
           v # r /\ runs'[v].state = "starting"
    BY <1>3, <1>4 DEF At, SubmitInv, WorkersKnowTheirRun
  <2>2. ASSUME NEW v \in Runs \ {r}, Active(v)
        PROVE  workers[v].cur # r /\ workers[v].cur \in Runs
    BY <1>2, <2>2, WorkerTypes DEF RefInv
  <2>3. \A v \in Runs : Active(v)' /\ workers'[v].cur # v =>
           runs'[workers'[v].cur].state \in Started
    BY <1>3, <1>4, <2>2 DEF Active, SubmitInv, WorkersKnowTheirRun
  <2>4. \A v \in Runs : At(v, "linger")' => Finished(workers[v].cur)'
    BY <1>3, <1>4, <2>2
       DEF Active, At, Finished, SubmitInv, WorkersKnowTheirRun
  <2> QED
    BY <2>1, <2>3, <2>4 DEF WorkersKnowTheirRun
<1>11. NoEarlyProcess'
  BY <1>3, <1>4 DEF SubmitInv, NoEarlyProcess
<1> QED
  BY <1>7, <1>8, <1>9, <1>10, <1>11 DEF SubmitInv

\* Workers that stay where they are, while no run moves to another state.
LEMMA SameWorkers ==
    ASSUME TypeInv, SubmitInv,
           \A v \in Runs : At(v, "spawn") => runs'[v].state = runs[v].state,
           \A v \in Runs : /\ workers'[v].pc = workers[v].pc
                           /\ workers'[v].cur = workers[v].cur
    PROVE  WorkersQuiet
  BY DEF WorkersQuiet, At, Active, SubmitInv, WorkersKnowTheirRun

LEMMA InterruptQuiet ==
    ASSUME TypeInv, SubmitInv, NEW r
    PROVE  /\ runs' = WithIntent(r, runs) /\ InterruptWorkers(r)
                => RunsQuiet /\ WorkersQuiet
           /\ \A q, g : /\ runs' = WithIntent(r, [runs EXCEPT ![q].rung = g])
                        /\ InterruptWorkers(r)
                        => RunsQuiet /\ WorkersQuiet
<1>1. ASSUME InterruptWorkers(r)
      PROVE  \A v \in Runs : /\ workers'[v].pc = workers[v].pc
                             /\ workers'[v].cur = workers[v].cur
  BY <1>1 DEF InterruptWorkers, TypeInv, WorkersOK, WorkerRow
<1>2. ASSUME InterruptWorkers(r),
             \A q \in Runs : /\ runs'[q].msg = runs[q].msg
                             /\ runs'[q].state = runs[q].state
                             /\ runs'[q].pid = runs[q].pid
      PROVE  RunsQuiet /\ WorkersQuiet
  <2>1. RunsQuiet
    BY <1>2 DEF RunsQuiet, Finished
  <2> QED
    BY <1>1, <1>2, <2>1, SameWorkers
<1>3. ASSUME NEW rs, DOMAIN rs = Runs,
             \A k \in Runs : /\ DOMAIN rs[k] = DOMAIN runs[k]
                             /\ rs[k].msg = runs[k].msg
                             /\ rs[k].state = runs[k].state
                             /\ rs[k].pid = runs[k].pid,
             runs' = WithIntent(r, rs)
      PROVE  \A q \in Runs : /\ runs'[q].msg = runs[q].msg
                             /\ runs'[q].state = runs[q].state
                             /\ runs'[q].pid = runs[q].pid
  <2> DEFINE x == InterruptedRun(r)
  <2>1. runs' = rs \/ runs' = [rs EXCEPT ![x].intent = TRUE]
    BY <1>3 DEF WithIntent
  <2>2. \A k \in Runs : {"state", "msg", "pid"} \subseteq DOMAIN rs[k]
    BY <1>3 DEF TypeInv, RowsOK, RunRow
  <2>3. ASSUME NEW k \in Runs
        PROVE  /\ runs'[k].msg = rs[k].msg
               /\ runs'[k].state = rs[k].state
               /\ runs'[k].pid = rs[k].pid
    BY <1>3, <2>1, <2>2
  <2> QED
    BY <1>3, <2>3
<1>4. ASSUME runs' = WithIntent(r, runs), InterruptWorkers(r)
      PROVE  RunsQuiet /\ WorkersQuiet
  BY <1>2, <1>3, <1>4 DEF TypeInv, RowsOK
<1>5. ASSUME NEW q, NEW g,
             runs' = WithIntent(r, [runs EXCEPT ![q].rung = g]),
             InterruptWorkers(r)
      PROVE  RunsQuiet /\ WorkersQuiet
  <2> DEFINE rs == [runs EXCEPT ![q].rung = g]
  <2>1. /\ DOMAIN rs = Runs
        /\ \A k \in Runs : /\ DOMAIN rs[k] = DOMAIN runs[k]
                           /\ rs[k].msg = runs[k].msg
                           /\ rs[k].state = runs[k].state
                           /\ rs[k].pid = runs[k].pid
    BY DEF TypeInv, RowsOK, RunRow
  <2>2. runs' = WithIntent(r, rs)
    BY <1>5
  <2> HIDE DEF rs
  <2> QED
    BY <1>2, <1>3, <1>5, <2>1, <2>2
<1> QED
  BY <1>4, <1>5

LEMMA RecoveryKeeps ==
    ASSUME TypeInv, RefInv, SubmitInv,
           NEW r \in Runs, LeaseExpires(r) \/ Adopt(r)
    PROVE  SubmitInv'
<1>1. CASE LeaseExpires(r)
  <2>1. RunsQuiet /\ WorkersQuiet
    BY <1>1, FieldQuiet, SameWorkers DEF LeaseExpires, TypeInv, RowsOK, RunRow
  <2> QED
    BY <1>1, <2>1, QuietKeeps, UnchangedQuiet DEF LeaseExpires, Quiet
<1>2. CASE Adopt(r)
  <2> DEFINE row == [NoWorker EXCEPT
                       !.pc = RecoveredStep(r), !.cur = r,
                       !.proc = runs[r].pid, !.interrupt = runs[r].intent]
  <2>1. RunsQuiet /\ StartsKept(r)
    BY <1>2, FieldQuiet DEF Adopt
  <2>2. runs' = [runs EXCEPT ![r].expired = FALSE]
    BY <1>2 DEF Adopt
  <2>3. \A v \in Runs : runs'[v].state = runs[v].state
    BY <2>2 DEF TypeInv, RowsOK, RunRow
  <2>4. row.pc \notin {"spawn", "linger"} /\ row.cur = r
    BY DEF NoWorker, RecoveredStep
  <2>5. workers' = workers \/ workers' = [workers EXCEPT ![r] = row]
    BY <1>2 DEF Adopt
  <2> HIDE DEF row
  <2>6. WorkersQuiet
    <3>1. CASE workers' = workers
      BY <2>3, <3>1, SameWorkers
    <3>2. CASE workers' = [workers EXCEPT ![r] = row]
      <4>1. /\ workers'[r] = row
            /\ \A v \in Runs \ {r} : workers'[v] = workers[v]
        BY <3>2 DEF TypeInv, WorkersOK
      <4> QED
        BY <2>3, <2>4, <4>1
           DEF WorkersQuiet, At, Active, SubmitInv, WorkersKnowTheirRun
    <3> QED
      BY <2>5, <3>1, <3>2
  <2> QED
    BY <1>2, <2>1, <2>6, QuietKeeps, UnchangedQuiet DEF Adopt, Quiet
<1> QED
  BY <1>1, <1>2


\* The reaper finishes no run that may still be submitted: it has no process.
LEMMA ReaperFinishQuiet ==
    ASSUME TypeInv, RefInv, SubmitInv, NEW r \in Runs,
           NEW exited \in BOOLEAN, Candidate(r), ReaperFinish(r, exited)
    PROVE  /\ RunsQuiet /\ MessagesQuiet
           /\ \A v \in Runs : At(v, "spawn") => runs'[v].state = runs[v].state
<1> DEFINE final == IF Live(r) THEN "cancelled" ELSE runs[r].state
           row   == [Settled(r, final, exited) EXCEPT !.rung = "ended"]
<1>1. runs' = [runs EXCEPT ![r] = row]
  BY DEF ReaperFinish
<1>2. row.state = final /\ row.msg = runs[r].msg
  BY DEF Settled, NoRun
<1>3. runs'[r] = row /\ \A v \in Runs \ {r} : runs'[v] = runs[v]
  BY <1>1 DEF TypeInv, RowsOK
<1> HIDE DEF row
<1>4. runs[r].state \notin Unstarted
  BY DEF Candidate, SubmitInv, NoEarlyProcess
<1>5. final \in TERMINAL_RUN_STATES
  BY DEF Candidate, Sweepable, Live, Finished, LIVE_RUN_STATES,
         TERMINAL_RUN_STATES
<1>6. RunsQuiet
  BY <1>2, <1>3, <1>5 DEF RunsQuiet, Unstarted, Started, Finished,
                          TERMINAL_RUN_STATES
<1>7. MessagesQuiet
  BY DEF ReaperFinish, MessagesQuiet, TypeInv, RowsOK, MessageRow, Untaken
<1>8. \A v \in Runs : At(v, "spawn") => v # r
  BY <1>4 DEF SubmitInv, WorkersKnowTheirRun, Unstarted
<1> QED
  BY <1>3, <1>6, <1>7, <1>8

LEMMA SweepKeeps ==
    ASSUME TypeInv, RefInv, SubmitInv, NEW r \in Runs, Sweep(r)
    PROVE  SubmitInv'
<1>1. ASSUME NEW exited \in BOOLEAN, Sweeping(r), ReaperFinish(r, exited),
             UNCHANGED <<procs, workers>>
      PROVE  SubmitInv'
  <2>1. /\ RunsQuiet /\ MessagesQuiet
        /\ \A v \in Runs : At(v, "spawn") => runs'[v].state = runs[v].state
    BY <1>1, ReaperFinishQuiet DEF Sweeping
  <2>2. WorkersQuiet
    BY <1>1, <2>1, SameWorkers
  <2> QED
    BY <1>1, <2>1, <2>2, QuietKeeps, UnchangedQuiet DEF Quiet
<1>2. CASE SweepInterrupt(r)
  <2>1. RunsQuiet /\ WorkersQuiet
    BY <1>2, InterruptQuiet DEF SweepInterrupt
  <2> QED
    BY <1>2, <2>1, QuietKeeps, UnchangedQuiet DEF SweepInterrupt, Quiet
<1>3. CASE SweepSignals(r)
  <2>1. RunsQuiet /\ \A w : StartsKept(w)
    BY <1>3, FieldQuiet DEF SweepSignals
  <2>2. \A v \in Runs : runs'[v].state = runs[v].state
    BY <1>3 DEF SweepSignals, TypeInv, RowsOK, RunRow
  <2>3. WorkersQuiet
    BY <1>3, <2>2, SameWorkers DEF SweepSignals
  <2>4. ProcsQuiet
    <3>1. procs' = procs \/ procs' = [procs EXCEPT ![runs[r].pid].state = "gone"]
      BY <1>3 DEF SweepSignals
    <3> QED
      BY <3>1 DEF ProcsQuiet, TypeInv, RestOK, ProcRow
  <2> QED
    BY <1>3, <2>1, <2>3, <2>4, QuietKeeps, UnchangedQuiet
       DEF SweepSignals, Quiet
<1>4. CASE SweepGone(r)
  BY <1>1, <1>4 DEF SweepGone
<1>5. CASE SweepKilled(r)
  BY <1>1, <1>5 DEF SweepKilled
<1> QED
  BY <1>2, <1>3, <1>4, <1>5 DEF Sweep

\* A verb that leaves runs, workers and processes alone claims no message.
LEMMA VerbKeeps ==
    ASSUME TypeInv, RefInv, SubmitInv,
           UNCHANGED <<runs, workers, procs>>, MessagesQuiet
    PROVE  SubmitInv'
<1>1. RunsQuiet /\ ProcsQuiet
  BY UnchangedQuiet
<1>2. WorkersQuiet
  BY SameWorkers
<1> QED
  BY <1>1, <1>2, QuietKeeps DEF Quiet

LEMMA ApiKeeps ==
    ASSUME TypeInv, RefInv, SubmitInv, NEW c \in Chats, Api(c)
    PROVE  SubmitInv'
<1>1. \A d : CancelPending(d) => MessagesQuiet
  BY DEF CancelPending, MessagesQuiet, TypeInv, RowsOK, MessageRow, Untaken
<1>2. ASSUME NEW m \in FirstUnused(Messages, messages), NEW cs,
             Accept(c, m, cs)
      PROVE  MessagesQuiet
  BY <1>2 DEF Accept, FirstUnused, MessagesQuiet, TypeInv, RowsOK, MessageRow,
              Untaken
<1>3. CASE Stop(c)
  <2>1. RunsQuiet /\ WorkersQuiet
    BY <1>3, InterruptQuiet DEF Stop
  <2> QED
    BY <1>3, <2>1, QuietKeeps, UnchangedQuiet DEF Stop, Quiet
<1>4. CASE \/ CreateCloses(c) \/ CreateRegisters(c) \/ CreateLoses(c)
  BY <1>4, VerbKeeps, UnchangedQuiet
     DEF CreateCloses, CreateRegisters, CreateLoses, rows
<1>5. CASE WakeCloses(c)
  BY <1>1, <1>5, VerbKeeps, UnchangedQuiet DEF WakeCloses
<1>6. CASE Send(c) \/ SendReopens(c)
  BY <1>2, <1>6, VerbKeeps DEF Send, SendReopens
<1>7. CASE Close(c)
  BY <1>1, <1>7, VerbKeeps DEF Close
<1>8. CASE CloseInactive(c)
  BY <1>1, <1>8, VerbKeeps, UnchangedQuiet DEF CloseInactive
<1> QED
  BY <1>3, <1>4, <1>5, <1>6, <1>7, <1>8 DEF Api

LEMMA SubmitStep ==
    ASSUME TypeInv, RefInv, SubmitInv, [Next]_vars
    PROVE  SubmitInv'
<1>1. CASE UNCHANGED vars
  BY <1>1, VerbKeeps, UnchangedQuiet DEF vars
<1>2. ASSUME NEW w \in Runs, Report(w)
      PROVE  SubmitInv'
  <2>1. \A v \in Runs : /\ workers'[v].pc = workers[v].pc
                        /\ workers'[v].cur = workers[v].cur
    BY <1>2 DEF Report, StreamTerminal, TypeInv, WorkersOK, WorkerRow
  <2>2. UNCHANGED <<runs, messages, procs>>
    BY <1>2 DEF Report, StreamTerminal, rows, InMemory, Aside
  <2> QED
    BY <2>1, <2>2, SameWorkers, QuietKeeps, UnchangedQuiet DEF Quiet
<1>3. CASE BeginDispatch \/ EndDispatch \/ Restart
  BY <1>3, VerbKeeps, UnchangedQuiet
     DEF BeginDispatch, EndDispatch, Restart, rows
<1>4. ASSUME NEW p \in Procs, Terminate(p) \/ ProcessExits(p)
      PROVE  SubmitInv'
  <2>1. UNCHANGED <<runs, messages, workers>>
    BY <1>4 DEF Terminate, ProcessExits, rows
  <2>2. procs' = procs \/ procs' = [procs EXCEPT ![p].state = "gone"]
    BY <1>4 DEF Terminate, ProcessExits
  <2>3. ProcsQuiet
    BY <2>2 DEF ProcsQuiet, TypeInv, RestOK, ProcRow
  <2> QED
    BY <2>1, <2>3, SameWorkers, QuietKeeps, UnchangedQuiet DEF Quiet
<1>5. CASE Crash
  <2>1. ProcsQuiet
    BY <1>5 DEF Crash, ProcsQuiet, Alive, TypeInv, RestOK, ProcRow
  <2>2. WorkersQuiet
    BY <1>5 DEF Crash, NoWorker, WorkersQuiet
  <2> QED
    BY <1>5, <2>1, <2>2, QuietKeeps, UnchangedQuiet DEF Crash, rows, Quiet
<1> QED
  BY <1>1, <1>2, <1>3, <1>4, <1>5, WorkKeeps, ClaimKeeps, RecoveryKeeps,
     SweepKeeps, ApiKeeps DEF Next, Dispatch

-----------------------------------------------------------------------------

LEMMA SubmitInit == Init => SubmitInv
  BY DEF Init, SubmitInv, SentOnce, UntakenIsFresh, SubmittableIsSole,
         WorkersKnowTheirRun, NoEarlyProcess, NoRun, NoWorker, At, Active,
         None, Messages, Unstarted

\* A prompt reaches a harness at most once, whatever crashes, lost leases,
\* deferrals, recoveries, continuations and reopens come between.
THEOREM AtMostOnceHolds == Spec => []AtMostOnce
<1>1. SubmitInv => AtMostOnce
  <2>1. ASSUME SubmitInv, NEW m \in Messages
        PROVE  Cardinality({p \in Procs : procs[p].msg = m}) <= 1
    <3>1. m # None
      BY TablesAssumption DEF Messages, None
    <3>2. \A p, q \in {p \in Procs : procs[p].msg = m} : p = q
      BY <2>1, <3>1 DEF SubmitInv, SentOnce
    <3> QED
      BY <3>2, AtMostOneMember
  <2> QED
    BY <2>1 DEF AtMostOnce
<1>2. TypeInv /\ RefInv /\ SubmitInv /\ [Next]_vars => SubmitInv'
  BY SubmitStep
<1> QED
  BY <1>1, <1>2, SubmitInit, RefHolds, PTL DEF Spec

-----------------------------------------------------------------------------
(* A worktree holds one process.  The preparer looks for processes in one   *)
(* transaction and the harness is called two steps later; between them no   *)
(* other process comes to the shell, for it would need a live run there.    *)

\* A live run whose worker has found its shell free and will call the harness.
AboutToStart(w) == Live(w) /\ (At(w, "start") \/ At(w, "spawn"))

ProcsApart ==
    \A p, q \in Procs :
        Alive(p) /\ Alive(q) /\ ShellOfProc(p) = ShellOfProc(q) => p = q

ProcsServe == \A p \in Procs : Alive(p) => procs[p].msg \in Messages

StartHasRun == \A w \in Runs : At(w, "start") => runs[w].state # "absent"

SlotHeld(w) == \A p \in Procs : Alive(p) => ShellOfProc(p) # ShellOfRun(w)

SlotInv ==
    /\ ProcsApart
    /\ ProcsServe
    /\ StartHasRun
    /\ \A w \in Runs : AboutToStart(w) => SlotHeld(w)

\* A step that launches no process...
NoLaunch ==
    \A p \in Procs : Alive(p)' => Alive(p) /\ procs'[p].msg = procs[p].msg

\* ... and one that brings no worker nearer to the call, save within it.
NobodyPrepared ==
    \A w \in Runs :
        /\ workers'[w].pc = "start" => At(w, "start")
        /\ workers'[w].pc = "spawn" => At(w, "start") \/ At(w, "spawn")

\* What the history of the rows says about runs and processes that are there.
LEMMA ShellsStay ==
    ASSUME TypeInv, RefInv, SubmitInv, SlotInv, HistoryStep
    PROVE  /\ \A r \in Runs : runs[r].state # "absent" =>
                /\ runs'[r].state # "absent"
                /\ Live(r)' => Live(r)
                /\ runs'[r].msg = runs[r].msg
                /\ ShellOfRun(r)' = ShellOfRun(r)
           /\ \A p \in Procs :
                Alive(p) /\ procs'[p].msg = procs[p].msg =>
                  ShellOfProc(p)' = ShellOfProc(p)
<1>1. ASSUME NEW r \in Runs, runs[r].state # "absent"
      PROVE  /\ runs'[r].state # "absent" /\ runs'[r].msg = runs[r].msg
             /\ Live(r)' => Live(r)
  BY <1>1 DEF HistoryStep, RunsSettle, RunAppears, Live, LIVE_RUN_STATES,
              TERMINAL_RUN_STATES
<1>2. ASSUME NEW r \in Runs, runs[r].state # "absent"
      PROVE  ShellOfRun(r)' = ShellOfRun(r)
  BY <1>1, <1>2 DEF HistoryStep, MessagesStay, RefInv, ShellOfRun, ChatOfRun
<1>3. ASSUME NEW p \in Procs, Alive(p), procs'[p].msg = procs[p].msg
      PROVE  ShellOfProc(p)' = ShellOfProc(p)
  <2>1. /\ procs[p].msg \in Messages
        /\ messages[procs[p].msg].state # "absent"
    BY <1>3 DEF SlotInv, ProcsServe, SubmitInv, UntakenIsFresh, Untaken
  <2> QED
    BY <1>3, <2>1 DEF HistoryStep, MessagesStay, ShellOfProc
<1> QED
  BY <1>1, <1>2, <1>3

LEMMA SlotsKept ==
    ASSUME TypeInv, RefInv, SubmitInv, SlotInv, HistoryStep,
           NoLaunch, NobodyPrepared
    PROVE  SlotInv'
<1>1. ProcsApart'
  BY ShellsStay DEF NoLaunch, SlotInv, ProcsApart
<1>2. ProcsServe'
  BY DEF NoLaunch, SlotInv, ProcsServe
<1>3. StartHasRun'
  BY ShellsStay DEF NobodyPrepared, At, SlotInv, StartHasRun
<1>4. ASSUME NEW w \in Runs, AboutToStart(w)'
      PROVE  SlotHeld(w)'
  <2>1. At(w, "start") \/ At(w, "spawn")
    BY <1>4 DEF AboutToStart, NobodyPrepared, At
  <2>2. runs[w].state # "absent"
    BY <2>1 DEF SlotInv, StartHasRun, SubmitInv, WorkersKnowTheirRun
  <2>3. AboutToStart(w)
    BY <1>4, <2>1, <2>2, ShellsStay DEF AboutToStart
  <2> QED
    BY <2>2, <2>3, ShellsStay DEF NoLaunch, SlotInv, SlotHeld
<1> QED
  BY <1>1, <1>2, <1>3, <1>4 DEF SlotInv

\* The call itself: the one process of a shell that had none.
LEMMA LaunchSlots ==
    ASSUME TypeInv, RefInv, SubmitInv, SlotInv, HistoryStep, LiveRunsAgree,
           NobodyPrepared,
           NEW w \in Runs, At(w, "spawn"), workers'[w].pc \notin {"start", "spawn"},
           NEW p \in FirstUnused(Procs, procs), Launched(w, p)
    PROVE  SlotInv'
<1>1. /\ p \in Procs /\ procs'[p].msg = runs[w].msg
      /\ \A q \in Procs \ {p} : procs'[q] = procs[q]
  BY DEF FirstUnused, Launched, TypeInv, RestOK
<1>2. /\ runs[w].state = "starting" /\ Live(w)
      /\ runs[w].msg \in Messages /\ messages[runs[w].msg].state # "absent"
  BY DEF SubmitInv, WorkersKnowTheirRun, RefInv, Live, LIVE_RUN_STATES
<1>3. AboutToStart(w) /\ SlotHeld(w)
  BY <1>2 DEF AboutToStart, SlotInv
<1>4. ShellOfProc(p)' = ShellOfRun(w)
  BY <1>1, <1>2
     DEF HistoryStep, MessagesStay, ShellOfProc, ShellOfRun, ChatOfRun
<1>5. ASSUME NEW q \in Procs \ {p}, Alive(q)'
      PROVE  /\ Alive(q) /\ procs'[q].msg = procs[q].msg
             /\ ShellOfProc(q)' = ShellOfProc(q)
             /\ ShellOfProc(q)' # ShellOfProc(p)'
  <2>1. Alive(q) /\ procs'[q].msg = procs[q].msg
    BY <1>1, <1>5 DEF Alive
  <2> QED
    BY <1>3, <1>4, <2>1, ShellsStay DEF SlotHeld
<1>6. ProcsApart'
  BY <1>5 DEF SlotInv, ProcsApart
<1>7. ProcsServe'
  BY <1>1, <1>2, <1>5 DEF SlotInv, ProcsServe
<1>8. StartHasRun'
  BY ShellsStay DEF NobodyPrepared, At, SlotInv, StartHasRun
<1>9. ASSUME NEW v \in Runs, AboutToStart(v)'
      PROVE  SlotHeld(v)'
  <2>1. v # w /\ (At(v, "start") \/ At(v, "spawn"))
    BY <1>9 DEF AboutToStart, NobodyPrepared, At
  <2>2. runs[v].state # "absent"
    BY <2>1 DEF SlotInv, StartHasRun, SubmitInv, WorkersKnowTheirRun
  <2>3. AboutToStart(v) /\ ShellOfRun(v)' = ShellOfRun(v)
    BY <1>9, <2>1, <2>2, ShellsStay DEF AboutToStart
  <2>4. ShellOfRun(v) # ShellOfRun(w)
    BY <1>2, <2>1, <2>3 DEF AboutToStart, LiveRunsAgree
  <2> QED
    BY <1>4, <1>5, <2>3, <2>4 DEF SlotInv, SlotHeld
<1> QED
  BY <1>6, <1>7, <1>8, <1>9 DEF SlotInv

\* The preparer saw that the shell of the run holds no process.
LEMMA PrepareSlots ==
    ASSUME TypeInv, RefInv, SubmitInv, SlotInv, HistoryStep,
           NEW w \in Runs, Prepare(w)
    PROVE  SlotInv'
<1>1. /\ runs[w].state = "leased" /\ ShellProcs(ShellOfRun(w)) = {}
      /\ UNCHANGED <<messages, procs>>
  BY DEF Prepare, Occupancy, InMemory, Aside, ShellOfRun
<1>2. /\ workers'[w].pc = "start"
      /\ \A v \in Runs \ {w} : workers'[v] = workers[v]
  BY DEF Prepare, Goto, TypeInv, WorkersOK, WorkerRow
<1>3. ShellOfRun(w)' = ShellOfRun(w) /\ runs'[w].state # "absent"
  BY <1>1, ShellsStay
<1>4. SlotHeld(w)'
  BY <1>1, <1>3 DEF ShellProcs, SlotHeld, ShellOfProc, Alive
<1>5. ProcsApart' /\ ProcsServe'
  BY <1>1 DEF SlotInv, ProcsApart, ProcsServe, ShellOfProc, Alive
<1>6. StartHasRun'
  BY <1>2, <1>3, ShellsStay DEF At, SlotInv, StartHasRun
<1>7. ASSUME NEW v \in Runs \ {w}, AboutToStart(v)'
      PROVE  SlotHeld(v)'
  <2>1. At(v, "start") \/ At(v, "spawn")
    BY <1>2, <1>7 DEF AboutToStart, At
  <2>2. runs[v].state # "absent"
    BY <2>1 DEF SlotInv, StartHasRun, SubmitInv, WorkersKnowTheirRun
  <2>3. AboutToStart(v) /\ ShellOfRun(v)' = ShellOfRun(v)
    BY <1>7, <2>1, <2>2, ShellsStay DEF AboutToStart
  <2> QED
    BY <1>1, <2>3 DEF SlotInv, SlotHeld, ShellOfProc, Alive
<1> QED
  BY <1>4, <1>5, <1>6, <1>7 DEF SlotInv

\* The moves of one worker that are not towards the call.
LEMMA WorkerUnprepared ==
    ASSUME TypeInv, NEW w
    PROVE  /\ UNCHANGED workers => NobodyPrepared
           /\ Deactivate(w) => NobodyPrepared
           /\ \A pc : Goto(w, pc) /\ pc \notin {"start", "spawn"}
                        => NobodyPrepared
<1>1. UNCHANGED workers => NobodyPrepared
  BY DEF NobodyPrepared, At
<1>2. Deactivate(w) => NobodyPrepared
  BY DEF Deactivate, NoWorker, NobodyPrepared, At, TypeInv, WorkersOK
<1>3. \A pc : Goto(w, pc) /\ pc \notin {"start", "spawn"} => NobodyPrepared
  BY DEF Goto, NobodyPrepared, At, TypeInv, WorkersOK, WorkerRow
<1> QED
  BY <1>1, <1>2, <1>3

\* Whatever a worker does but find the shell free and call the harness.
LEMMA WorkSlots ==
    ASSUME TypeInv, NEW w \in Runs, Work(w)
    PROVE  \/ Prepare(w) \/ Spawn(w) \/ SpawnFails(w)
           \/ NobodyPrepared /\ UNCHANGED procs
<1>1. \A o, k, e : FinishAndStop(w, o, k, e) =>
                     NobodyPrepared /\ UNCHANGED procs
  BY WorkerUnprepared DEF FinishAndStop, Aside
<1>2. CASE PrepareRebound(w) \/ PrepareRefused(w)
  BY <1>1, <1>2 DEF PrepareRebound, PrepareRefused
<1>3. CASE Defer(w) \/ ContinuationRefused(w) \/ LingerEnds(w)
  BY <1>3, WorkerUnprepared DEF Defer, ContinuationRefused, LingerEnds, Aside
<1>4. CASE MarkStarting(w)
  <2>1. CASE Goto(w, "spawn") /\ UNCHANGED procs
    BY <1>4, <2>1
       DEF MarkStarting, Goto, NobodyPrepared, At, TypeInv, WorkersOK, WorkerRow
  <2> QED
    BY <1>1, <1>4, <2>1 DEF MarkStarting, InMemory, Aside
<1>5. CASE MarkNativeStarted(w)
  BY <1>5, WorkerUnprepared DEF MarkNativeStarted, InMemory, Aside
<1>6. CASE \/ NativeStartRollsBack(w) \/ StreamRefused(w) \/ StreamEnds(w)
           \/ RecoverLost(w) \/ \E o \in TERMINAL_RUN_STATES : Reconcile(w, o)
  BY <1>1, <1>6 DEF NativeStartRollsBack, StreamRefused, StreamEnds,
                    RecoverLost, Reconcile
<1>7. CASE LingerFinish(w)
  <2>1. CASE workers' = [workers EXCEPT ![w].pc = "linger",
                                        ![w].terminal = "none"]
    <3>1. /\ workers'[w].pc = "linger"
          /\ \A v \in Runs \ {w} : workers'[v] = workers[v]
      BY <2>1 DEF TypeInv, WorkersOK, WorkerRow
    <3> QED
      BY <1>7, <3>1 DEF NobodyPrepared, At, LingerFinish, Aside
  <2> QED
    BY <1>7, <2>1, WorkerUnprepared DEF LingerFinish, Aside
<1>8. CASE StreamBreaks(w)
  <2>1. CASE Goto(w, "reconcile") /\ UNCHANGED <<rows, InMemory>>
    BY <2>1, WorkerUnprepared DEF InMemory, Aside
  <2> QED
    BY <1>1, <1>8, <2>1 DEF StreamBreaks
<1>9. CASE OpenContinuation(w)
  <2>1. PICK r \in Runs :
          workers' = [workers EXCEPT ![w].pc = "stream", ![w].cur = r,
                                     ![w].terminal = "none"]
    BY <1>9 DEF OpenContinuation, FirstUnused
  <2>2. NobodyPrepared
    BY <2>1 DEF NobodyPrepared, At, TypeInv, WorkersOK, WorkerRow
  <2> QED
    BY <1>9, <2>2 DEF OpenContinuation, InMemory, Aside
<1> QED
  BY <1>2, <1>3, <1>4, <1>5, <1>6, <1>7, <1>8, <1>9 DEF Work

LEMMA StepSlots ==
    ASSUME TypeInv, [Next]_vars
    PROVE  \/ \E w \in Runs : Prepare(w) \/ Spawn(w) \/ SpawnFails(w)
           \/ NobodyPrepared /\ NoLaunch
<1>0. UNCHANGED procs => NoLaunch
  BY DEF NoLaunch, Alive
<1>1. CASE UNCHANGED vars
  BY <1>0, <1>1, WorkerUnprepared DEF vars
<1>2. ASSUME NEW w \in Runs, Report(w) \/ Work(w)
      PROVE  \/ Prepare(w) \/ Spawn(w) \/ SpawnFails(w)
             \/ NobodyPrepared /\ NoLaunch
  <2>1. CASE Report(w)
    BY <1>0, <2>1 DEF Report, StreamTerminal, InMemory, Aside, NobodyPrepared,
                      At, TypeInv, WorkersOK, WorkerRow
  <2>2. CASE Work(w)
    BY <1>0, <2>2, WorkSlots
  <2> QED
    BY <1>2, <2>1, <2>2
<1>3. CASE BeginDispatch \/ EndDispatch \/ Restart
  BY <1>0, <1>3, WorkerUnprepared DEF BeginDispatch, EndDispatch, Restart
<1>4. CASE ClaimNext
  <2>1. PICK r \in Runs :
          workers' = [workers EXCEPT ![r] = [NoWorker EXCEPT
                                               !.pc = "prepare", !.cur = r]]
    BY <1>4 DEF ClaimNext, FirstUnused
  <2>2. NobodyPrepared
    BY <2>1 DEF NobodyPrepared, At, NoWorker, TypeInv, WorkersOK
  <2> QED
    BY <1>0, <1>4, <2>2 DEF ClaimNext
<1>5. ASSUME NEW r \in Runs, LeaseExpires(r) \/ Adopt(r)
      PROVE  NobodyPrepared /\ NoLaunch
  <2>1. CASE LeaseExpires(r)
    BY <1>0, <2>1, WorkerUnprepared DEF LeaseExpires
  <2>2. CASE Adopt(r)
    <3>1. PICK row :
            /\ row.pc = RecoveredStep(r)
            /\ workers' = workers \/ workers' = [workers EXCEPT ![r] = row]
      <4> DEFINE row == [NoWorker EXCEPT
                           !.pc = RecoveredStep(r), !.cur = r,
                           !.proc = runs[r].pid, !.interrupt = runs[r].intent]
      <4>1. workers' = workers \/ workers' = [workers EXCEPT ![r] = row]
        BY <2>2 DEF Adopt
      <4>2. row.pc = RecoveredStep(r)
        BY DEF NoWorker
      <4> QED
        BY <4>1, <4>2
    <3>2. RecoveredStep(r) \notin {"start", "spawn"}
      BY DEF RecoveredStep
    <3>3. NobodyPrepared
      BY <3>1, <3>2 DEF NobodyPrepared, At, TypeInv, WorkersOK
    <3> QED
      BY <1>0, <2>2, <3>3 DEF Adopt
  <2> QED
    BY <1>5, <2>1, <2>2
<1>6. ASSUME NEW r, InterruptWorkers(r)
      PROVE  NobodyPrepared
  <2>1. PICK w : \/ workers' = workers
                 \/ workers' = [workers EXCEPT ![w].interrupt = TRUE]
    BY <1>6 DEF InterruptWorkers
  <2> QED
    BY <2>1 DEF NobodyPrepared, At, TypeInv, WorkersOK, WorkerRow
<1>7. ASSUME NEW r \in Runs, Sweep(r)
      PROVE  NobodyPrepared /\ NoLaunch
  <2>1. CASE SweepInterrupt(r)
    BY <1>0, <1>6, <2>1 DEF SweepInterrupt
  <2>2. CASE SweepSignals(r)
    <3>1. procs' = procs \/ procs' = [procs EXCEPT ![runs[r].pid].state = "gone"]
      BY <2>2 DEF SweepSignals
    <3>2. NoLaunch
      BY <3>1 DEF NoLaunch, Alive, TypeInv, RestOK, ProcRow
    <3> QED
      BY <2>2, <3>2, WorkerUnprepared DEF SweepSignals
  <2>3. CASE SweepGone(r) \/ SweepKilled(r)
    BY <1>0, <2>3, WorkerUnprepared DEF SweepGone, SweepKilled
  <2> QED
    BY <1>7, <2>1, <2>2, <2>3 DEF Sweep
<1>8. ASSUME NEW c \in Chats, Api(c)
      PROVE  NobodyPrepared /\ NoLaunch
  <2>1. CASE Stop(c)
    BY <1>0, <1>6, <2>1 DEF Stop
  <2>2. CASE ~Stop(c)
    BY <1>0, <1>8, <2>2, WorkerUnprepared
       DEF Api, CreateCloses, WakeCloses, CreateRegisters, CreateLoses, Send,
           SendReopens, Close, CloseInactive
  <2> QED
    BY <2>1, <2>2
<1>9. ASSUME NEW p \in Procs, Terminate(p) \/ ProcessExits(p)
      PROVE  NobodyPrepared /\ NoLaunch
  <2>1. procs' = procs \/ procs' = [procs EXCEPT ![p].state = "gone"]
    BY <1>9 DEF Terminate, ProcessExits
  <2>2. NoLaunch
    BY <2>1 DEF NoLaunch, Alive, TypeInv, RestOK, ProcRow
  <2> QED
    BY <1>9, <2>2, WorkerUnprepared DEF Terminate, ProcessExits
<1>10. CASE Crash
  <2>1. NoLaunch
    BY <1>10 DEF Crash, NoLaunch, Alive, TypeInv, RestOK, ProcRow
  <2>2. NobodyPrepared
    BY <1>10 DEF Crash, NobodyPrepared, NoWorker
  <2> QED
    BY <2>1, <2>2
<1> QED
  BY <1>1, <1>2, <1>3, <1>4, <1>5, <1>7, <1>8, <1>9, <1>10 DEF Next, Dispatch

LEMMA SlotStep ==
    ASSUME TypeInv, RefInv, SubmitInv, LiveRunsAgree, SlotInv, [Next]_vars
    PROVE  SlotInv'
<1>1. HistoryStep
  BY StepStays
<1>2. ASSUME NEW w \in Runs, Spawn(w) \/ SpawnFails(w)
      PROVE  SlotInv'
  <2>1. /\ At(w, "spawn") /\ NobodyPrepared
        /\ workers'[w].pc \notin {"start", "spawn"}
    <3>1. CASE Spawn(w)
      BY <3>1 DEF Spawn, NobodyPrepared, At, TypeInv, WorkersOK, WorkerRow
    <3>2. CASE SpawnFails(w)
      BY <3>2, WorkerUnprepared
         DEF SpawnFails, Deactivate, NoWorker, TypeInv, WorkersOK
    <3> QED
      BY <1>2, <3>1, <3>2
  <2>2. CASE UNCHANGED procs
    BY <1>1, <2>1, <2>2, SlotsKept DEF NoLaunch, Alive
  <2>3. CASE \E p \in FirstUnused(Procs, procs) : Launched(w, p)
    BY <1>1, <2>1, <2>3, LaunchSlots
  <2> QED
    BY <1>2, <2>2, <2>3 DEF Spawn, SpawnFails
<1> QED
  BY <1>1, <1>2, StepSlots, SlotsKept, PrepareSlots

LEMMA SlotInit == Init => SlotInv
  BY DEF Init, SlotInv, ProcsApart, ProcsServe, StartHasRun, AboutToStart,
         Alive, At, NoWorker

\* Two native processes never share a shell's worktree, whatever lingered,
\* outlived its server, was closed over or was adopted before.
THEOREM OneProcessHolds == Spec => []OneProcess
<1>1. SlotInv => OneProcess
  BY AtMostOneMember DEF SlotInv, ProcsApart, OneProcess, ShellProcs
<1>2. Init => SubmitInv /\ LiveRunsAgree /\ SlotInv
  BY SubmitInit, SlotInit
     DEF Init, LiveRunsAgree, Live, NoRun, LIVE_RUN_STATES
<1>3. TypeInv /\ RefInv /\ SubmitInv /\ LiveRunsAgree /\ SlotInv /\ [Next]_vars
        => SubmitInv' /\ LiveRunsAgree' /\ SlotInv'
  BY SubmitStep, StepStays, LiveRunsStep, SlotStep
<1> QED
  BY <1>1, <1>2, <1>3, RefHolds, PTL DEF Spec

-----------------------------------------------------------------------------
(* A process that has lost its chat is linked by nobody again.  The one     *)
(* step that links a process is the start of its run, and until then no row *)
(* names that process, so nobody had it to lose.                            *)

UnstartedSole == \A r \in Runs : runs[r].state \in Unstarted => Sole(r)

PidsServe ==
    \A r \in Runs : runs[r].pid # None =>
        /\ runs[r].state # "absent"
        /\ procs[runs[r].pid].msg = runs[r].msg

NativesWait ==
    \A w \in Runs : At(w, "native") =>
        /\ runs[w].state # "absent"
        /\ workers[w].proc # None
        /\ procs[workers[w].proc].msg = runs[w].msg

LinkInv == UnstartedSole /\ PidsServe /\ NativesWait

\* Steps that name no process in any row, and start no run.
RunsName ==
    \A r \in Runs :
        /\ runs'[r].msg = runs[r].msg
        /\ runs'[r].pid \in {runs[r].pid, None}
        /\ runs'[r].state \in Unstarted => runs[r].state \in Unstarted
        /\ runs'[r].state = "absent" => runs[r].state = "absent"

RegistryNames ==
    \A s \in Shells : registry'[s].proc \in {registry[s].proc, None}

WorkersName ==
    \A w \in Runs : workers'[w].pc = "native" =>
        At(w, "native") /\ workers'[w].proc = workers[w].proc

NamesNobody == RunsName /\ WorkersName /\ ProcsQuiet

LEMMA NamesKept ==
    ASSUME TypeInv, RefInv, SubmitInv, LinkInv, NamesNobody
    PROVE  LinkInv'
<1>1. UnstartedSole'
  BY DEF NamesNobody, RunsName, LinkInv, UnstartedSole, Sole
<1>2. ASSUME NEW r \in Runs, runs'[r].pid # None
      PROVE  /\ runs'[r].state # "absent"
             /\ procs'[runs'[r].pid].msg = runs'[r].msg
  <2>1. /\ runs'[r].pid = runs[r].pid /\ runs'[r].msg = runs[r].msg
        /\ runs[r].pid \in Procs
    BY <1>2 DEF NamesNobody, RunsName, TypeInv, RowsOK, RunRow
  <2> QED
    BY <1>2, <2>1 DEF NamesNobody, RunsName, ProcsQuiet, LinkInv, PidsServe
<1>3. ASSUME NEW w \in Runs, At(w, "native")'
      PROVE  /\ runs'[w].state # "absent"
             /\ workers'[w].proc # None
             /\ procs'[workers'[w].proc].msg = runs'[w].msg
  <2>1. At(w, "native") /\ workers'[w].proc = workers[w].proc
    BY <1>3 DEF NamesNobody, WorkersName, At
  <2>2. /\ workers[w].proc # None /\ runs[w].state # "absent"
        /\ procs[workers[w].proc].msg = runs[w].msg
        /\ workers[w].proc \in Procs
    BY <2>1 DEF LinkInv, NativesWait, TypeInv, WorkersOK, WorkerRow
  <2> QED
    BY <2>1, <2>2 DEF NamesNobody, RunsName, ProcsQuiet
<1> QED
  BY <1>1, <1>2, <1>3 DEF LinkInv, PidsServe, NativesWait

LEMMA NamesUnchanged ==
    ASSUME TypeInv, NEW w
    PROVE  /\ UNCHANGED runs => RunsName
           /\ UNCHANGED registry => RegistryNames
           /\ UNCHANGED workers => WorkersName
           /\ Deactivate(w) => WorkersName
           /\ \A pc : Goto(w, pc) /\ pc # "native" => WorkersName
<1>1. /\ UNCHANGED runs => RunsName
      /\ UNCHANGED registry => RegistryNames
      /\ UNCHANGED workers => WorkersName
  BY DEF RunsName, RegistryNames, WorkersName, At
<1>2. Deactivate(w) => WorkersName
  BY DEF Deactivate, NoWorker, WorkersName, At, TypeInv, WorkersOK
<1>3. \A pc : Goto(w, pc) /\ pc # "native" => WorkersName
  BY DEF Goto, WorkersName, At, TypeInv, WorkersOK, WorkerRow
<1> QED
  BY <1>1, <1>2, <1>3

\* One field of one run, which is neither its process nor its message.
LEMMA FieldNames ==
    ASSUME TypeInv, NEW r, NEW b
    PROVE  /\ runs' = [runs EXCEPT ![r].expired = b] => RunsName
           /\ runs' = [runs EXCEPT ![r].archived = b] => RunsName
           /\ runs' = [runs EXCEPT ![r].intent = b] => RunsName
           /\ runs' = [runs EXCEPT ![r].rung = b] => RunsName
<1>1. runs' = [runs EXCEPT ![r].expired = b] => RunsName
  BY DEF RunsName, TypeInv, RowsOK, RunRow
<1>2. runs' = [runs EXCEPT ![r].archived = b] => RunsName
  BY DEF RunsName, TypeInv, RowsOK, RunRow
<1>3. runs' = [runs EXCEPT ![r].intent = b] => RunsName
  BY DEF RunsName, TypeInv, RowsOK, RunRow
<1>4. runs' = [runs EXCEPT ![r].rung = b] => RunsName
  BY DEF RunsName, TypeInv, RowsOK, RunRow
<1> QED
  BY <1>1, <1>2, <1>3, <1>4

LEMMA UnlinkNames ==
    ASSUME TypeInv, NEW s, registry' = Unlink(s)
    PROVE  RegistryNames
  BY DEF Unlink, RegistryNames, TypeInv, RowsOK, ActiveRow

LEMMA FinishNames ==
    ASSUME TypeInv, NEW r \in Runs, NEW outcome \in TERMINAL_RUN_STATES,
           NEW keep, NEW exited, TryFinish(r, outcome, keep, exited)
    PROVE  RunsName /\ RegistryNames
<1>1. CASE UNCHANGED rows
  BY <1>1, NamesUnchanged DEF rows
<1>2. CASE Live(r) /\ FinishRun(r, outcome, keep, exited)
  <2>1. runs' = [runs EXCEPT ![r] = Settled(r, outcome, exited)]
    BY <1>2 DEF FinishRun
  <2>2. /\ Settled(r, outcome, exited).msg = runs[r].msg
        /\ Settled(r, outcome, exited).pid \in {runs[r].pid, None}
        /\ Settled(r, outcome, exited).state = outcome
    BY DEF Settled, NoRun
  <2>3. RunsName
    BY <2>1, <2>2 DEF RunsName, TypeInv, RowsOK, Unstarted,
                      TERMINAL_RUN_STATES
  <2>4. \/ UNCHANGED registry
        \/ \E s : registry' = Unlink(s)
        \/ \E s : registry' = [registry EXCEPT ![s].proc = None]
    BY <1>2 DEF FinishRun
  <2>5. ASSUME NEW s, registry' = [registry EXCEPT ![s].proc = None]
        PROVE  RegistryNames
    BY <2>5 DEF RegistryNames, TypeInv, RowsOK, ActiveRow
  <2> QED
    BY <2>3, <2>4, <2>5, UnlinkNames, NamesUnchanged
<1> QED
  BY <1>1, <1>2 DEF TryFinish

\* A worker at work, save when it launches, links or carries on a process.
LEMMA WorkNames ==
    ASSUME TypeInv, NEW w \in Runs, Work(w)
    PROVE  \/ Spawn(w) \/ SpawnFails(w) \/ MarkNativeStarted(w)
           \/ OpenContinuation(w)
           \/ NamesNobody /\ RegistryNames
<1>0. {"failed", "unknown"} \subseteq TERMINAL_RUN_STATES
  BY DEF TERMINAL_RUN_STATES
<1>1. UNCHANGED procs => ProcsQuiet
  BY UnchangedQuiet
<1>2. ASSUME NEW o \in TERMINAL_RUN_STATES, NEW k, NEW e,
             Active(w), FinishAndStop(w, o, k, e)
      PROVE  NamesNobody /\ RegistryNames
  <2>1. workers[w].cur \in Runs
    BY <1>2, WorkerTypes
  <2> QED
    BY <1>1, <1>2, <2>1, FinishNames, NamesUnchanged
       DEF FinishAndStop, Aside, NamesNobody
<1>3. CASE Prepare(w)
  BY <1>1, <1>3, FieldNames, NamesUnchanged
     DEF Prepare, InMemory, Aside, NamesNobody
<1>4. CASE PrepareRebound(w) \/ PrepareRefused(w)
  BY <1>0, <1>2, <1>4 DEF PrepareRebound, PrepareRefused, At, Active
<1>5. CASE Defer(w)
  BY <1>1, <1>5, FieldNames, NamesUnchanged DEF Defer, Aside, NamesNobody
<1>6. CASE MarkStarting(w)
  <2>1. CASE runs[w].state = "leased"
    <3>1. runs' = [runs EXCEPT ![w].state = "starting", ![w].expired = FALSE]
      BY <1>6, <2>1 DEF MarkStarting
    <3>2. RunsName
      BY <2>1, <3>1 DEF RunsName, TypeInv, RowsOK, RunRow, Unstarted
    <3> QED
      BY <1>1, <1>6, <2>1, <3>2, NamesUnchanged
         DEF MarkStarting, InMemory, Aside, NamesNobody
  <2> QED
    BY <1>0, <1>2, <1>6, <2>1 DEF MarkStarting, At, Active
<1>7. CASE \/ NativeStartRollsBack(w) \/ StreamRefused(w) \/ RecoverLost(w)
           \/ \E o \in TERMINAL_RUN_STATES : Reconcile(w, o)
  BY <1>0, <1>2, <1>7 DEF NativeStartRollsBack, StreamRefused, RecoverLost,
                          Reconcile, Streaming, At, Active
<1>8. CASE LingerFinish(w)
  <2>1. RunsName /\ RegistryNames
    BY <1>8, FinishNames, OutcomeTypes, WorkerTypes
       DEF LingerFinish, At, Active
  <2>2. CASE workers' = [workers EXCEPT ![w].pc = "linger",
                                        ![w].terminal = "none"]
    <3>1. /\ workers'[w].pc = "linger"
          /\ \A v \in Runs \ {w} : workers'[v] = workers[v]
      BY <2>2 DEF TypeInv, WorkersOK, WorkerRow
    <3> QED
      BY <1>1, <1>8, <2>1, <3>1
         DEF NamesNobody, WorkersName, At, LingerFinish, Aside
  <2> QED
    BY <1>1, <1>8, <2>1, <2>2, NamesUnchanged
       DEF LingerFinish, Aside, NamesNobody
<1>9. CASE StreamEnds(w)
  BY <1>2, <1>9, OutcomeTypes DEF StreamEnds, Streaming, At, Active
<1>10. CASE StreamBreaks(w)
  <2>1. CASE Goto(w, "reconcile") /\ UNCHANGED <<rows, InMemory>>
    BY <1>1, <2>1, NamesUnchanged DEF rows, InMemory, Aside, NamesNobody
  <2> QED
    BY <1>0, <1>2, <1>10, <2>1, OutcomeTypes
       DEF StreamBreaks, Streaming, At, Active
<1>11. CASE ContinuationRefused(w)
  BY <1>1, <1>11, NamesUnchanged
     DEF ContinuationRefused, rows, Aside, NamesNobody
<1>12. CASE LingerEnds(w)
  <2>1. RunsName
    BY <1>12 DEF LingerEnds, ReleaseProcessLink, RunsName, TypeInv, RowsOK,
                 RunRow
  <2>2. RegistryNames
    BY <1>12 DEF LingerEnds, ReleaseProcessLink, RegistryNames, TypeInv,
                 RowsOK, ActiveRow
  <2> QED
    BY <1>1, <1>12, <2>1, <2>2, NamesUnchanged
       DEF LingerEnds, Aside, NamesNobody
<1> QED
  BY <1>3, <1>4, <1>5, <1>6, <1>7, <1>8, <1>9, <1>10, <1>11, <1>12 DEF Work

LEMMA InterruptNames ==
    ASSUME TypeInv, NEW r
    PROVE  /\ InterruptWorkers(r) => WorkersName
           /\ runs' = WithIntent(r, runs) => RunsName
           /\ \A q, g : runs' = WithIntent(r, [runs EXCEPT ![q].rung = g])
                          => RunsName
<1>1. ASSUME InterruptWorkers(r)
      PROVE  WorkersName
  <2>1. PICK w : \/ workers' = workers
                 \/ workers' = [workers EXCEPT ![w].interrupt = TRUE]
    BY <1>1 DEF InterruptWorkers
  <2> QED
    BY <2>1 DEF WorkersName, At, TypeInv, WorkersOK, WorkerRow
<1>2. ASSUME runs' = WithIntent(r, runs)
      PROVE  RunsName
  <2>1. PICK k : runs' = runs \/ runs' = [runs EXCEPT ![k].intent = TRUE]
    BY <1>2 DEF WithIntent
  <2> QED
    BY <2>1, FieldNames, NamesUnchanged
<1>3. ASSUME NEW q, NEW g, runs' = WithIntent(r, [runs EXCEPT ![q].rung = g])
      PROVE  RunsName
  <2>1. PICK rs : rs = [runs EXCEPT ![q].rung = g]
    OBVIOUS
  <2>2. PICK k : runs' = rs \/ runs' = [rs EXCEPT ![k].intent = TRUE]
    BY <1>3, <2>1 DEF WithIntent
  <2>3. /\ DOMAIN rs = Runs
        /\ \A n \in Runs : /\ rs[n].msg = runs[n].msg
                           /\ rs[n].pid = runs[n].pid
                           /\ rs[n].state = runs[n].state
                           /\ DOMAIN rs[n] = DOMAIN runs[n]
    BY <2>1 DEF TypeInv, RowsOK, RunRow
  <2>4. \A n \in Runs : {"msg", "pid", "state"} \subseteq DOMAIN rs[n]
    BY <2>3 DEF TypeInv, RowsOK, RunRow
  <2>5. \A n \in Runs : /\ runs'[n].msg = rs[n].msg
                        /\ runs'[n].pid = rs[n].pid
                        /\ runs'[n].state = rs[n].state
    BY <2>2, <2>3, <2>4
  <2> QED
    BY <2>3, <2>5 DEF RunsName
<1> QED
  BY <1>1, <1>2, <1>3

\* The reaper only forgets processes.
LEMMA SweepNames ==
    ASSUME TypeInv, SubmitInv, NEW r \in Runs, Sweep(r)
    PROVE  NamesNobody /\ RegistryNames
<1>1. ASSUME NEW exited, Sweeping(r), ReaperFinish(r, exited),
             UNCHANGED <<procs, workers>>
      PROVE  NamesNobody /\ RegistryNames
  <2> DEFINE final == IF Live(r) THEN "cancelled" ELSE runs[r].state
             row   == [Settled(r, final, exited) EXCEPT !.rung = "ended"]
  <2>1. runs' = [runs EXCEPT ![r] = row]
    BY <1>1 DEF ReaperFinish
  <2>2. /\ row.state = final /\ row.msg = runs[r].msg
        /\ row.pid \in {runs[r].pid, None}
    BY DEF Settled, NoRun
  <2>3. runs'[r] = row /\ \A v \in Runs \ {r} : runs'[v] = runs[v]
    BY <2>1 DEF TypeInv, RowsOK
  <2> HIDE DEF row
  <2>4. RunsName
    BY <2>2, <2>3 DEF RunsName, Unstarted
  <2> QED
    BY <1>1, <2>4, NamesUnchanged, UnchangedQuiet DEF ReaperFinish, NamesNobody
<1>2. CASE SweepInterrupt(r)
  BY <1>2, InterruptNames, NamesUnchanged, UnchangedQuiet
     DEF SweepInterrupt, NamesNobody
<1>3. CASE SweepSignals(r)
  <2>1. procs' = procs \/ procs' = [procs EXCEPT ![runs[r].pid].state = "gone"]
    BY <1>3 DEF SweepSignals
  <2>2. ProcsQuiet
    BY <2>1 DEF ProcsQuiet, TypeInv, RestOK, ProcRow
  <2> QED
    BY <1>3, <2>2, FieldNames, NamesUnchanged DEF SweepSignals, NamesNobody
<1>4. CASE SweepGone(r) \/ SweepKilled(r)
  BY <1>1, <1>4 DEF SweepGone, SweepKilled
<1> QED
  BY <1>2, <1>3, <1>4 DEF Sweep

\* The verbs link no process: a new or a reopened chat has none.
LEMMA ApiNames ==
    ASSUME TypeInv, NEW c \in Chats, Api(c)
    PROVE  NamesNobody /\ RegistryNames
<1>1. UNCHANGED procs /\ ProcsQuiet
  BY UnchangedQuiet
     DEF Api, CreateCloses, WakeCloses, CreateRegisters, CreateLoses, Send,
         SendReopens, Stop, Close, CloseInactive
<1>2. CASE Stop(c)
  BY <1>1, <1>2, InterruptNames, NamesUnchanged DEF Stop, NamesNobody
<1>3. CASE ~Stop(c)
  <2>1. NamesNobody
    BY <1>1, <1>3, NamesUnchanged
       DEF Api, CreateCloses, WakeCloses, CreateRegisters, CreateLoses, Send,
           SendReopens, Close, CloseInactive, rows, NamesNobody
  <2>2. \/ UNCHANGED registry
        \/ \E s : registry' = Unlink(s)
        \/ \E s : registry' = [registry EXCEPT ![s].chat = c]
        \/ \E s : registry' = [registry EXCEPT ![s] = ReopenedLink(c)]
    BY <1>3 DEF Api, CreateCloses, WakeCloses, CreateRegisters, CreateLoses,
                Send, SendReopens, Close, CloseInactive, rows
  <2>3. ASSUME NEW s, registry' = [registry EXCEPT ![s].chat = c]
        PROVE  RegistryNames
    BY <2>3 DEF RegistryNames, TypeInv, RowsOK, ActiveRow
  <2>4. ASSUME NEW s, registry' = [registry EXCEPT ![s] = ReopenedLink(c)]
        PROVE  RegistryNames
    BY <2>4 DEF RegistryNames, ReopenedLink, TypeInv, RowsOK, ActiveRow
  <2> QED
    BY <2>1, <2>2, <2>3, <2>4, UnlinkNames, NamesUnchanged
<1> QED
  BY <1>2, <1>3

LEMMA StepNames ==
    ASSUME TypeInv, SubmitInv, [Next]_vars
    PROVE  \/ \E w \in Runs : \/ Spawn(w) \/ SpawnFails(w)
                              \/ MarkNativeStarted(w) \/ OpenContinuation(w)
           \/ ClaimNext
           \/ NamesNobody /\ RegistryNames
<1>1. CASE UNCHANGED vars
  BY <1>1, NamesUnchanged, UnchangedQuiet DEF vars, NamesNobody
<1>2. ASSUME NEW w \in Runs, Report(w)
      PROVE  NamesNobody /\ RegistryNames
  <2>1. WorkersName
    BY <1>2 DEF Report, StreamTerminal, WorkersName, At, TypeInv, WorkersOK,
                WorkerRow
  <2> QED
    BY <1>2, <2>1, NamesUnchanged, UnchangedQuiet
       DEF Report, StreamTerminal, rows, InMemory, Aside, NamesNobody
<1>3. CASE BeginDispatch \/ EndDispatch \/ Restart
  BY <1>3, NamesUnchanged, UnchangedQuiet
     DEF BeginDispatch, EndDispatch, Restart, rows, NamesNobody
<1>4. ASSUME NEW r \in Runs, LeaseExpires(r) \/ Adopt(r)
      PROVE  NamesNobody /\ RegistryNames
  <2>1. CASE LeaseExpires(r)
    BY <2>1, FieldNames, NamesUnchanged, UnchangedQuiet
       DEF LeaseExpires, NamesNobody
  <2>2. CASE Adopt(r)
    <3>1. PICK row :
            /\ row.pc = RecoveredStep(r)
            /\ workers' = workers \/ workers' = [workers EXCEPT ![r] = row]
      <4> DEFINE row == [NoWorker EXCEPT
                           !.pc = RecoveredStep(r), !.cur = r,
                           !.proc = runs[r].pid, !.interrupt = runs[r].intent]
      <4>1. workers' = workers \/ workers' = [workers EXCEPT ![r] = row]
        BY <2>2 DEF Adopt
      <4>2. row.pc = RecoveredStep(r)
        BY DEF NoWorker
      <4> QED
        BY <4>1, <4>2
    <3>2. RecoveredStep(r) # "native"
      BY DEF RecoveredStep
    <3>3. WorkersName
      BY <3>1, <3>2 DEF WorkersName, At, TypeInv, WorkersOK
    <3> QED
      BY <2>2, <3>3, FieldNames, NamesUnchanged, UnchangedQuiet
         DEF Adopt, NamesNobody
  <2> QED
    BY <1>4, <2>1, <2>2
<1>5. ASSUME NEW p \in Procs, Terminate(p) \/ ProcessExits(p)
      PROVE  NamesNobody /\ RegistryNames
  <2>1. procs' = procs \/ procs' = [procs EXCEPT ![p].state = "gone"]
    BY <1>5 DEF Terminate, ProcessExits
  <2>2. ProcsQuiet
    BY <2>1 DEF ProcsQuiet, TypeInv, RestOK, ProcRow
  <2> QED
    BY <1>5, <2>2, NamesUnchanged DEF Terminate, ProcessExits, rows, NamesNobody
<1>6. CASE Crash
  <2>1. ProcsQuiet
    BY <1>6 DEF Crash, ProcsQuiet, Alive, TypeInv, RestOK, ProcRow
  <2>2. WorkersName
    BY <1>6 DEF Crash, WorkersName, NoWorker
  <2> QED
    BY <1>6, <2>1, <2>2, NamesUnchanged DEF Crash, rows, NamesNobody
<1> QED
  BY <1>1, <1>2, <1>3, <1>4, <1>5, <1>6, WorkNames, SweepNames, ApiNames
     DEF Next, Dispatch

\* The call: the new process is named by no run yet.
LEMMA LaunchNames ==
    ASSUME TypeInv, RefInv, SubmitInv, LinkInv,
           NEW w \in Runs, At(w, "spawn"), RunsName,
           NEW p \in FirstUnused(Procs, procs), Launched(w, p),
           \A v \in Runs : workers'[v].pc = "native" =>
             \/ At(v, "native") /\ workers'[v].proc = workers[v].proc
             \/ v = w /\ workers'[v].proc = p
    PROVE  LinkInv'
<1>1. /\ p \in Procs /\ procs[p].state = "absent"
      /\ procs'[p].msg = runs[w].msg
      /\ \A q \in Procs \ {p} : procs'[q] = procs[q]
  BY DEF FirstUnused, Launched, TypeInv, RestOK
<1>2. runs[w].state = "starting"
  BY DEF SubmitInv, WorkersKnowTheirRun
<1>3. procs[p].msg = None /\ None \notin Messages /\ None \notin Procs
  BY <1>1, TablesAssumption DEF SubmitInv, SentOnce, Messages, None, Procs
<1>4. UnstartedSole'
  BY DEF RunsName, LinkInv, UnstartedSole, Sole
<1>5. ASSUME NEW r \in Runs, runs'[r].pid # None
      PROVE  /\ runs'[r].state # "absent"
             /\ procs'[runs'[r].pid].msg = runs'[r].msg
  <2>1. /\ runs'[r].pid = runs[r].pid /\ runs'[r].msg = runs[r].msg
        /\ runs[r].pid \in Procs
    BY <1>5 DEF RunsName, TypeInv, RowsOK, RunRow
  <2>2. /\ runs[r].state # "absent"
        /\ procs[runs[r].pid].msg = runs[r].msg
    BY <1>5, <2>1 DEF LinkInv, PidsServe
  <2>3. runs[r].pid # p
    BY <1>3, <2>2 DEF RefInv
  <2> QED
    BY <1>1, <2>1, <2>2, <2>3 DEF RunsName
<1>6. ASSUME NEW v \in Runs, At(v, "native")'
      PROVE  /\ runs'[v].state # "absent"
             /\ workers'[v].proc # None
             /\ procs'[workers'[v].proc].msg = runs'[v].msg
  <2>1. CASE At(v, "native") /\ workers'[v].proc = workers[v].proc
    <3>1. /\ workers[v].proc # None /\ runs[v].state # "absent"
          /\ procs[workers[v].proc].msg = runs[v].msg
          /\ workers[v].proc \in Procs
      BY <2>1 DEF LinkInv, NativesWait, TypeInv, WorkersOK, WorkerRow
    <3>2. workers[v].proc # p
      BY <1>3, <3>1 DEF RefInv
    <3> QED
      BY <1>1, <2>1, <3>1, <3>2 DEF RunsName
  <2>2. CASE v = w /\ workers'[v].proc = p
    BY <1>1, <1>2, <1>3, <2>2 DEF RunsName
  <2> QED
    BY <1>6, <2>1, <2>2 DEF At
<1> QED
  BY <1>4, <1>5, <1>6 DEF LinkInv, PidsServe, NativesWait

LEMMA SpawnNames ==
    ASSUME TypeInv, RefInv, SubmitInv, LinkInv,
           NEW w \in Runs, Spawn(w) \/ SpawnFails(w)
    PROVE  LinkInv' /\ RegistryNames
<1>1. CASE Spawn(w)
  <2>1. PICK p \in FirstUnused(Procs, procs) :
          /\ Launched(w, p)
          /\ workers' = [workers EXCEPT ![w].pc = "native", ![w].proc = p]
    BY <1>1 DEF Spawn
  <2>2. /\ workers'[w].proc = p
        /\ \A v \in Runs \ {w} : workers'[v] = workers[v]
    BY <2>1 DEF TypeInv, WorkersOK, WorkerRow
  <2>3. At(w, "spawn") /\ RunsName /\ RegistryNames
    BY <1>1, NamesUnchanged DEF Spawn, rows
  <2>4. \A v \in Runs : workers'[v].pc = "native" =>
          \/ At(v, "native") /\ workers'[v].proc = workers[v].proc
          \/ v = w /\ workers'[v].proc = p
    BY <2>2 DEF At
  <2>5. LinkInv'
    BY <2>1, <2>3, <2>4, LaunchNames
  <2> QED
    BY <2>3, <2>5
<1>2. CASE SpawnFails(w)
  <2>1. /\ At(w, "spawn") /\ RunsName /\ RegistryNames /\ WorkersName
    BY <1>2, FinishNames, NamesUnchanged DEF SpawnFails, TERMINAL_RUN_STATES
  <2>2. CASE UNCHANGED procs
    BY <2>1, <2>2, NamesKept, UnchangedQuiet DEF NamesNobody
  <2>3. CASE \E p \in FirstUnused(Procs, procs) : Launched(w, p)
    BY <2>1, <2>3, LaunchNames DEF WorkersName
  <2> QED
    BY <1>2, <2>1, <2>2, <2>3 DEF SpawnFails
<1> QED
  BY <1>1, <1>2

\* The start of the run: the worker's process becomes the run's and the
\* chat's, and no other run names it.
LEMMA StartNames ==
    ASSUME TypeInv, RefInv, SubmitInv, LinkInv,
           NEW w \in Runs, MarkNativeStarted(w)
    PROVE  /\ LinkInv'
           /\ \A r \in Runs : runs[r].pid # workers[w].proc
           /\ \A s \in Shells : registry'[s].proc \in
                {registry[s].proc, workers[w].proc}
<1>1. /\ workers[w].proc \in Procs \cup {None}
      /\ workers[w].proc # None /\ runs[w].state = "starting"
      /\ procs[workers[w].proc].msg = runs[w].msg
      /\ At(w, "native") /\ UNCHANGED procs
  BY DEF MarkNativeStarted, InMemory, Aside, LinkInv, NativesWait, TypeInv,
         WorkersOK, WorkerRow
<1>2. Sole(w) /\ runs[w].pid = None
  BY <1>1 DEF LinkInv, UnstartedSole, SubmitInv, NoEarlyProcess, Unstarted
<1>3. \A r \in Runs : runs[r].pid # workers[w].proc
  BY <1>1, <1>2 DEF LinkInv, PidsServe, Sole
<1>4. /\ runs'[w].state = "running" /\ runs'[w].msg = runs[w].msg
      /\ runs'[w].pid = workers[w].proc
      /\ \A r \in Runs \ {w} : runs'[r] = runs[r]
  BY DEF MarkNativeStarted, TypeInv, RowsOK, RunRow
<1>5. /\ workers'[w].pc = "stream"
      /\ \A v \in Runs \ {w} : workers'[v] = workers[v]
  BY DEF MarkNativeStarted, Goto, TypeInv, WorkersOK, WorkerRow
<1>6. UnstartedSole'
  BY <1>4 DEF LinkInv, UnstartedSole, Sole, Unstarted
<1>7. PidsServe'
  BY <1>1, <1>4 DEF LinkInv, PidsServe
<1>8. NativesWait'
  BY <1>1, <1>4, <1>5 DEF LinkInv, NativesWait, At
<1>9. \A s \in Shells : registry'[s].proc \in
         {registry[s].proc, workers[w].proc}
  BY DEF MarkNativeStarted, TypeInv, RowsOK, ActiveRow
<1> QED
  BY <1>3, <1>6, <1>7, <1>8, <1>9 DEF LinkInv

\* The next attempt of a message names the process of the one before.
LEMMA ContinuationNames ==
    ASSUME TypeInv, RefInv, SubmitInv, LinkInv,
           NEW w \in Runs, OpenContinuation(w)
    PROVE  LinkInv' /\ RegistryNames
<1>1. PICK old, new, row :
        /\ old \in Runs /\ new \in Runs
        /\ old = workers[w].cur /\ Finished(old)
        /\ runs[new].state = "absent"
        /\ row.state = "running" /\ row.msg = runs[old].msg
        /\ row.pid = runs[old].pid
        /\ runs' = [runs EXCEPT ![new] = row]
        /\ workers' = [workers EXCEPT ![w].pc = "stream", ![w].cur = new,
                                      ![w].terminal = "none"]
  <2> DEFINE row == [NoRun EXCEPT !.state = "running",
                                  !.msg = runs[workers[w].cur].msg,
                                  !.pid = runs[workers[w].cur].pid]
  <2>1. PICK new \in FirstUnused(Runs, runs) :
          /\ runs' = [runs EXCEPT ![new] = row]
          /\ workers' = [workers EXCEPT ![w].pc = "stream", ![w].cur = new,
                                        ![w].terminal = "none"]
    BY DEF OpenContinuation
  <2>2. workers[w].cur \in Runs /\ Finished(workers[w].cur)
    BY WorkerTypes DEF OpenContinuation, At, Active, SubmitInv,
                       WorkersKnowTheirRun
  <2>3. /\ row.state = "running" /\ row.msg = runs[workers[w].cur].msg
        /\ row.pid = runs[workers[w].cur].pid
    BY DEF NoRun
  <2>4. new \in Runs /\ runs[new].state = "absent"
    BY <2>1 DEF FirstUnused
  <2> HIDE DEF row
  <2> QED
    BY <2>1, <2>2, <2>3, <2>4
<1>2. runs'[new] = row /\ \A r \in Runs \ {new} : runs'[r] = runs[r]
  BY <1>1 DEF TypeInv, RowsOK
<1>3. /\ workers'[w].pc = "stream"
      /\ \A v \in Runs \ {w} : workers'[v] = workers[v]
  BY <1>1 DEF TypeInv, WorkersOK, WorkerRow
<1>4. UNCHANGED <<registry, procs>>
  BY DEF OpenContinuation, InMemory, Aside
<1>5. ASSUME NEW r \in Runs, runs'[r].state \in Unstarted
      PROVE  Sole(r)'
  <2>1. r # new /\ runs[r].state \in Unstarted
    BY <1>1, <1>2, <1>5 DEF Unstarted
  <2>2. r # old
    BY <1>1, <2>1 DEF Finished, Unstarted, TERMINAL_RUN_STATES
  <2> QED
    BY <1>1, <1>2, <2>1, <2>2 DEF LinkInv, UnstartedSole, Sole
<1>6. PidsServe'
  BY <1>1, <1>2, <1>4 DEF LinkInv, PidsServe
<1>7. NativesWait'
  BY <1>1, <1>2, <1>3, <1>4 DEF LinkInv, NativesWait, At
<1> QED
  BY <1>4, <1>5, <1>6, <1>7, NamesUnchanged DEF LinkInv, UnstartedSole

\* A claimed message is fresh: no run has it, and its run has no process.
LEMMA ClaimNames ==
    ASSUME TypeInv, RefInv, SubmitInv, LinkInv, ClaimNext
    PROVE  LinkInv' /\ RegistryNames
<1>1. PICK m, new, row, wrk :
        /\ m \in Messages /\ new \in Runs
        /\ runs[new].state = "absent" /\ messages[m].state \in Untaken
        /\ row.state = "leased" /\ row.msg = m /\ row.pid = None
        /\ runs' = [runs EXCEPT ![new] = row]
        /\ wrk.pc = "prepare" /\ workers' = [workers EXCEPT ![new] = wrk]
  <2> DEFINE row(m) == [NoRun EXCEPT !.state = "leased", !.msg = m]
             wrk(r) == [NoWorker EXCEPT !.pc = "prepare", !.cur = r]
  <2>1. PICK m \in Claimable, r \in FirstUnused(Runs, runs) :
          /\ runs' = [runs EXCEPT ![r] = row(m)]
          /\ workers' = [workers EXCEPT ![r] = wrk(r)]
    BY DEF ClaimNext
  <2>2. /\ m \in Messages /\ r \in Runs /\ runs[r].state = "absent"
        /\ messages[m].state \in Untaken
    BY <2>1 DEF Claimable, FirstUnused, Untaken
  <2>3. /\ row(m).state = "leased" /\ row(m).msg = m /\ row(m).pid = None
        /\ wrk(r).pc = "prepare"
    BY DEF NoRun, NoWorker
  <2> HIDE DEF row, wrk
  <2> QED
    BY <2>1, <2>2, <2>3
<1>2. /\ runs'[new] = row /\ \A r \in Runs \ {new} : runs'[r] = runs[r]
      /\ workers'[new] = wrk
      /\ \A v \in Runs \ {new} : workers'[v] = workers[v]
  BY <1>1 DEF TypeInv, RowsOK, WorkersOK
<1>3. UNCHANGED <<registry, procs>>
  BY DEF ClaimNext
<1>4. \A r \in Runs : runs[r].msg # m
  BY <1>1 DEF SubmitInv, UntakenIsFresh
<1>5. UnstartedSole'
  BY <1>1, <1>2, <1>4 DEF LinkInv, UnstartedSole, Sole
<1>6. PidsServe'
  BY <1>1, <1>2, <1>3 DEF LinkInv, PidsServe
<1>7. NativesWait'
  BY <1>1, <1>2, <1>3 DEF LinkInv, NativesWait, At
<1> QED
  BY <1>3, <1>5, <1>6, <1>7, NamesUnchanged DEF LinkInv

LEMMA LinkStep ==
    ASSUME TypeInv, RefInv, SubmitInv, LinkInv, [Next]_vars
    PROVE  /\ LinkInv'
           /\ \/ RegistryNames
              \/ \E p : /\ \A r \in Runs : runs[r].pid # p
                        /\ \A s \in Shells :
                             registry'[s].proc \in {registry[s].proc, p}
  BY StepNames, NamesKept, SpawnNames, StartNames, ContinuationNames,
     ClaimNames

LEMMA LinkInit == Init => LinkInv
  BY DEF Init, LinkInv, UnstartedSole, PidsServe, NativesWait, NoRun,
         NoWorker, At, Unstarted

\* A process the reaper may signal has lost its chat for good: no later turn,
\* continuation or reopen links it again.
THEOREM UnlinkedForGoodHolds == Spec => UnlinkedForGood
<1>1. ASSUME TypeInv, RefInv, SubmitInv, LinkInv, [Next]_vars,
             NEW r \in Runs, Candidate(r), NEW s \in Shells
      PROVE  registry'[s].proc # runs[r].pid
  <2>1. runs[r].pid # None /\ registry[s].proc # runs[r].pid
    BY <1>1 DEF Candidate, Protected
  <2> QED
    BY <1>1, <2>1, LinkStep DEF RegistryNames
<1>2. TypeInv /\ RefInv /\ SubmitInv /\ LinkInv /\ [Next]_vars =>
        [\A r \in Runs : Candidate(r) =>
           \A s \in Shells : registry'[s].proc # runs[r].pid]_vars
  BY <1>1
<1>3. TypeInv /\ RefInv /\ SubmitInv /\ LinkInv /\ [Next]_vars =>
        SubmitInv' /\ LinkInv'
  BY SubmitStep, LinkStep
<1>4. Init => SubmitInv /\ LinkInv
  BY SubmitInit, LinkInit
<1> QED
  BY <1>2, <1>3, <1>4, RefHolds, PTL DEF Spec, UnlinkedForGood

=============================================================================
