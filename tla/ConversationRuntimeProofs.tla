---------------------- MODULE ConversationRuntimeProofs ----------------------
(***************************************************************************)
(* Theorems about the conversation runtime, for every number of chats,     *)
(* shells, messages, continuations, workers and crashes.                   *)
(***************************************************************************)
EXTENDS ConversationRuntime, TLAPS

\* A worker that is at work holds a run.
WorkersOK ==
    /\ workers \in [Runs -> WorkerRow]
    /\ \A w \in Runs : Active(w) => workers[w].cur \in Runs

RowsOK ==
    /\ chats \in [Chats -> ChatRow]
    /\ registry \in [Shells -> ActiveRow]
    /\ messages \in [Messages -> MessageRow]
    /\ runs \in [Runs -> RunRow]

RestOK ==
    /\ procs \in [Procs -> ProcRow]
    /\ broker \in BrokerRow
    /\ creating \subseteq Chats
    /\ killing \subseteq Procs

\* TypeOK with what OpenContinuation needs to know of its worker.
TypeInv == RowsOK /\ WorkersOK /\ RestOK

-----------------------------------------------------------------------------
(* An update of one field of one row keeps a table well formed.            *)

LEMMA ChatUpdate ==
    ASSUME NEW f \in [Chats -> ChatRow], NEW c,
           NEW s \in ChatStates, NEW row \in ChatRow
    PROVE  /\ [f EXCEPT ![c].state = s] \in [Chats -> ChatRow]
           /\ [f EXCEPT ![c] = row] \in [Chats -> ChatRow]
  BY DEF ChatRow

LEMMA RegistryUpdate ==
    ASSUME NEW f \in [Shells -> ActiveRow], NEW s,
           NEW c \in Chats \cup {NoChat}, NEW p \in Procs \cup {None}
    PROVE  /\ [f EXCEPT ![s].chat = c] \in [Shells -> ActiveRow]
           /\ [f EXCEPT ![s].proc = p] \in [Shells -> ActiveRow]
           /\ [f EXCEPT ![s] = [chat |-> c, proc |-> p]]
                \in [Shells -> ActiveRow]
  BY DEF ActiveRow

LEMMA MessageUpdate ==
    ASSUME NEW row \in MessageRow,
           NEW s \in MessageStates, NEW o \in OutboxStates
    PROVE  /\ [row EXCEPT !.state = s] \in MessageRow
           /\ [row EXCEPT !.state = s, !.outbox = o] \in MessageRow
  BY DEF MessageRow

LEMMA MessageTableUpdate ==
    ASSUME NEW f \in [Messages -> MessageRow], NEW m,
           NEW s \in MessageStates, NEW o \in OutboxStates,
           NEW row \in MessageRow
    PROVE  /\ [f EXCEPT ![m].state = s] \in [Messages -> MessageRow]
           /\ [f EXCEPT ![m].state = s, ![m].outbox = o]
                \in [Messages -> MessageRow]
           /\ [f EXCEPT ![m] = row] \in [Messages -> MessageRow]
  BY DEF MessageRow

LEMMA RunUpdate ==
    ASSUME NEW f \in [Runs -> RunRow], NEW r
    PROVE  /\ \A b \in BOOLEAN :
                /\ [f EXCEPT ![r].expired = b] \in [Runs -> RunRow]
                /\ [f EXCEPT ![r].archived = b] \in [Runs -> RunRow]
                /\ [f EXCEPT ![r].intent = b] \in [Runs -> RunRow]
           /\ \A g \in Rungs :
                [f EXCEPT ![r].rung = g] \in [Runs -> RunRow]
           /\ \A s \in RunStates, b \in BOOLEAN :
                [f EXCEPT ![r].state = s, ![r].expired = b]
                  \in [Runs -> RunRow]
           /\ \A s \in RunStates, b \in BOOLEAN, p \in Procs \cup {None} :
                [f EXCEPT ![r].state = s, ![r].expired = b, ![r].pid = p]
                  \in [Runs -> RunRow]
           /\ \A row \in RunRow : [f EXCEPT ![r] = row] \in [Runs -> RunRow]
<1>1. \A b \in BOOLEAN :
       /\ [f EXCEPT ![r].expired = b] \in [Runs -> RunRow]
       /\ [f EXCEPT ![r].archived = b] \in [Runs -> RunRow]
       /\ [f EXCEPT ![r].intent = b] \in [Runs -> RunRow]
  BY DEF RunRow
<1>2. \A g \in Rungs :
       [f EXCEPT ![r].rung = g] \in [Runs -> RunRow]
  BY DEF RunRow
<1>3. \A s \in RunStates, b \in BOOLEAN :
       [f EXCEPT ![r].state = s, ![r].expired = b]
         \in [Runs -> RunRow]
  BY DEF RunRow
<1>4. ASSUME NEW s \in RunStates, NEW b \in BOOLEAN,
             NEW p \in Procs \cup {None}
      PROVE  [f EXCEPT ![r].state = s, ![r].expired = b, ![r].pid = p]
               \in [Runs -> RunRow]
  <2> DEFINE g == [f EXCEPT ![r].state = s, ![r].expired = b]
  <2>1. g \in [Runs -> RunRow]
    BY <1>3
  <2>2. \A h \in [Runs -> RunRow] :
          [h EXCEPT ![r].pid = p] \in [Runs -> RunRow]
    BY DEF RunRow
  <2> QED
    BY <2>1, <2>2
<1>5. \A row \in RunRow : [f EXCEPT ![r] = row] \in [Runs -> RunRow]
  BY DEF RunRow
<1> QED
  BY <1>1, <1>2, <1>3, <1>4, <1>5

LEMMA NewRun ==
    /\ NoRun \in RunRow
    /\ \A m \in Messages :
         [NoRun EXCEPT !.state = "leased", !.msg = m] \in RunRow
    /\ \A m \in Messages \cup {None}, p \in Procs \cup {None} :
         [NoRun EXCEPT !.state = "running", !.msg = m, !.pid = p] \in RunRow
  BY DEF NoRun, RunRow, RunStates, RUN_TRANSITIONS, Rungs, None

LEMMA WorkerUpdate ==
    ASSUME NEW f \in [Runs -> WorkerRow], NEW w
    PROVE  /\ \A pc \in WorkerSteps :
                [f EXCEPT ![w].pc = pc] \in [Runs -> WorkerRow]
           /\ \A pc \in WorkerSteps, p \in Procs \cup {None} :
                [f EXCEPT ![w].pc = pc, ![w].proc = p]
                  \in [Runs -> WorkerRow]
           /\ \A t \in {"none", "succeeded", "failed", "cancelled"} :
                [f EXCEPT ![w].terminal = t] \in [Runs -> WorkerRow]
           /\ \A pc \in WorkerSteps :
                [f EXCEPT ![w].pc = pc, ![w].terminal = "none"]
                  \in [Runs -> WorkerRow]
           /\ \A pc \in WorkerSteps, r \in Runs :
                [f EXCEPT ![w].pc = pc, ![w].cur = r, ![w].terminal = "none"]
                  \in [Runs -> WorkerRow]
           /\ [f EXCEPT ![w].interrupt = TRUE] \in [Runs -> WorkerRow]
           /\ \A row \in WorkerRow :
                [f EXCEPT ![w] = row] \in [Runs -> WorkerRow]
<1>1. \A pc \in WorkerSteps :
       [f EXCEPT ![w].pc = pc] \in [Runs -> WorkerRow]
  BY DEF WorkerRow
<1>2. \A pc \in WorkerSteps, p \in Procs \cup {None} :
       [f EXCEPT ![w].pc = pc, ![w].proc = p]
         \in [Runs -> WorkerRow]
  BY DEF WorkerRow
<1>3. \A t \in {"none", "succeeded", "failed", "cancelled"} :
       [f EXCEPT ![w].terminal = t] \in [Runs -> WorkerRow]
  BY DEF WorkerRow
<1>4. \A pc \in WorkerSteps :
       [f EXCEPT ![w].pc = pc, ![w].terminal = "none"]
         \in [Runs -> WorkerRow]
  BY DEF WorkerRow
<1>5. \A pc \in WorkerSteps, r \in Runs :
       [f EXCEPT ![w].pc = pc, ![w].cur = r, ![w].terminal = "none"]
         \in [Runs -> WorkerRow]
  BY DEF WorkerRow
<1>6. [f EXCEPT ![w].interrupt = TRUE] \in [Runs -> WorkerRow]
  BY DEF WorkerRow
<1>7. \A row \in WorkerRow :
       [f EXCEPT ![w] = row] \in [Runs -> WorkerRow]
  BY DEF WorkerRow
<1> QED
  BY <1>1, <1>2, <1>3, <1>4, <1>5, <1>6, <1>7

LEMMA BrokerUpdate ==
    ASSUME NEW b \in BrokerRow, NEW x \in BOOLEAN, NEW y \in BOOLEAN
    PROVE  /\ [b EXCEPT !.wake = x] \in BrokerRow
           /\ [b EXCEPT !.dispatching = x] \in BrokerRow
           /\ [b EXCEPT !.wake = x, !.dispatching = y] \in BrokerRow
           /\ [b EXCEPT !.up = x, !.dispatching = y] \in BrokerRow
  BY DEF BrokerRow

LEMMA SettledType ==
    ASSUME RowsOK, NEW r \in Runs, NEW outcome \in RunStates,
           NEW exited \in BOOLEAN
    PROVE  /\ Settled(r, outcome, exited) \in RunRow
           /\ [Settled(r, outcome, exited) EXCEPT !.rung = "ended"] \in RunRow
  BY DEF RowsOK, Settled, NoRun, RunRow, Rungs

-----------------------------------------------------------------------------
(* The parts several actions share. *)

LEMMA FinishTypes ==
    ASSUME RowsOK, NEW r, Live(r) => r \in Runs,
           NEW outcome \in TERMINAL_RUN_STATES,
           NEW keep \in BOOLEAN, NEW exited \in BOOLEAN,
           TryFinish(r, outcome, keep, exited)
    PROVE  RowsOK'
<1>1. CASE UNCHANGED rows
  BY <1>1 DEF RowsOK, rows
<1>2. CASE Live(r) /\ FinishRun(r, outcome, keep, exited)
  <2> DEFINE c == ChatOfRun(r)
  <2>1. r \in Runs /\ outcome \in RunStates
    BY <1>2 DEF TERMINAL_RUN_STATES, RunStates, RUN_TRANSITIONS
  <2>2. runs' \in [Runs -> RunRow]
    BY <1>2, <2>1, SettledType, RunUpdate DEF FinishRun, RowsOK
  <2>3. MessageOutcome[outcome] \in MessageStates
    BY DEF MessageOutcome, MessageStates, TERMINAL_RUN_STATES
  <2>4. messages' \in [Messages -> MessageRow]
    <3>1. \A m \in Messages :
            /\ [messages[m] EXCEPT !.state = "cancelled",
                                   !.outbox = "cancelled"] \in MessageRow
            /\ [messages[m] EXCEPT !.state = MessageOutcome[outcome]]
                 \in MessageRow
            /\ messages[m] \in MessageRow
      BY <2>3, MessageUpdate DEF RowsOK, MessageStates, OutboxStates
    <3> QED
      BY <1>2, <3>1 DEF FinishRun
  <2>5. chats' \in [Chats -> ChatRow]
    <3> DEFINE target == IF chats[c].state # "closed" /\ chats[c].closing
                         THEN "closed" ELSE FinishedChatState(r, outcome)
    <3>1. target \in ChatStates
      BY DEF FinishedChatState, FinishTarget, ChatStates,
             CONVERSATION_TRANSITIONS
    <3>2. chats' = chats \/ chats' = [chats EXCEPT ![c].state = target]
      BY <1>2 DEF FinishRun
    <3> QED
      BY <3>1, <3>2, ChatUpdate DEF RowsOK, ChatRow
  <2>6. registry' \in [Shells -> ActiveRow]
    BY <1>2, RegistryUpdate DEF FinishRun, Unlink, RowsOK
  <2> QED
    BY <2>2, <2>4, <2>5, <2>6 DEF RowsOK
<1> QED
  BY <1>1, <1>2 DEF TryFinish

LEMMA WorkerTypes ==
    ASSUME TypeInv, NEW w \in Runs
    PROVE  /\ \A pc \in WorkerSteps :
                 Active(w) /\ Goto(w, pc) => WorkersOK'
           /\ Deactivate(w) => WorkersOK' /\ broker' \in BrokerRow
           /\ Active(w) => workers[w].cur \in Runs
<1>1. ASSUME NEW pc \in WorkerSteps, Active(w), Goto(w, pc)
      PROVE  WorkersOK'
  <2>1. workers' \in [Runs -> WorkerRow]
    BY <1>1, WorkerUpdate DEF Goto, TypeInv, WorkersOK, WorkerRow
  <2>2. \A v \in Runs : workers'[v].cur = workers[v].cur
                        /\ (Active(v)' => Active(v))
    BY <1>1 DEF Goto, Active, TypeInv, WorkersOK, WorkerRow
  <2> QED
    BY <2>1, <2>2 DEF TypeInv, WorkersOK
<1>2. ASSUME Deactivate(w)
      PROVE  WorkersOK' /\ broker' \in BrokerRow
  <2>1. NoWorker \in WorkerRow /\ NoWorker.pc = "off"
    BY DEF NoWorker, WorkerRow, WorkerSteps, None
  <2>2. workers' \in [Runs -> WorkerRow]
    BY <1>2, <2>1 DEF Deactivate, TypeInv, WorkersOK
  <2>3. \A v \in Runs : \/ workers'[v] = workers[v]
                        \/ workers'[v] = NoWorker
    BY <1>2 DEF Deactivate, TypeInv, WorkersOK
  <2>4. broker' \in BrokerRow
    BY <1>2, BrokerUpdate DEF Deactivate, TypeInv, RestOK
  <2> QED
    BY <2>1, <2>2, <2>3, <2>4 DEF TypeInv, WorkersOK, Active
<1>3. Active(w) => workers[w].cur \in Runs
  BY DEF TypeInv, WorkersOK
<1> QED
  BY <1>1, <1>2, <1>3

LEMMA FinishAndStopTypes ==
    ASSUME TypeInv, NEW w \in Runs, Active(w),
           NEW outcome \in TERMINAL_RUN_STATES,
           NEW keep \in BOOLEAN, NEW exited \in BOOLEAN,
           FinishAndStop(w, outcome, keep, exited)
    PROVE  TypeInv'
<1>1. RowsOK'
  BY FinishTypes, WorkerTypes DEF FinishAndStop, TypeInv
<1>2. WorkersOK' /\ broker' \in BrokerRow
  BY WorkerTypes DEF FinishAndStop
<1>3. UNCHANGED <<procs, creating, killing>>
  BY DEF FinishAndStop, Aside
<1> QED
  BY <1>1, <1>2, <1>3 DEF TypeInv, RestOK

LEMMA LaunchTypes ==
    ASSUME TypeInv, NEW w \in Runs, NEW p \in Procs, Launched(w, p)
    PROVE  procs' \in [Procs -> ProcRow]
<1>1. runs[w].msg \in Messages \cup {None}
  BY DEF TypeInv, RowsOK, RunRow
<1> QED
  BY <1>1 DEF Launched, TypeInv, RestOK, ProcRow, ProcStates

LEMMA OutcomeTypes ==
    ASSUME TypeInv, NEW w \in Runs, workers[w].terminal # "none"
    PROVE  AdapterOutcome(w) \in TERMINAL_RUN_STATES
  BY DEF TypeInv, WorkersOK, WorkerRow, AdapterOutcome, TERMINAL_RUN_STATES

-----------------------------------------------------------------------------
(* One actor at a time. *)

LEMMA WorkTypes ==
    ASSUME TypeInv, NEW w \in Runs, Work(w)
    PROVE  TypeInv'
<1>0. /\ Active(w)
      /\ {"failed", "unknown"} \subseteq TERMINAL_RUN_STATES
      /\ {"starting", "running"} \subseteq RunStates
  BY DEF Work, At, Active, Prepare, PrepareRebound, PrepareRefused, Defer,
         MarkStarting, Spawn, SpawnFails, MarkNativeStarted,
         NativeStartRollsBack, StreamRefused, LingerFinish, StreamEnds,
         StreamBreaks, OpenContinuation, ContinuationRefused, LingerEnds,
         Reconcile, RecoverLost, Streaming, TERMINAL_RUN_STATES, RunStates,
         RUN_TRANSITIONS
<1>1. CASE Prepare(w)
  <2>1. RowsOK'
    BY <1>1, RunUpdate DEF Prepare, TypeInv, RowsOK
  <2>2. WorkersOK'
    BY <1>0, <1>1, WorkerTypes DEF Prepare, WorkerSteps
  <2> QED
    BY <1>1, <2>1, <2>2 DEF Prepare, InMemory, Aside, TypeInv, RestOK
<1>2. CASE PrepareRebound(w)
  BY <1>0, <1>2, FinishAndStopTypes DEF PrepareRebound
<1>3. CASE PrepareRefused(w)
  BY <1>0, <1>3, FinishAndStopTypes DEF PrepareRefused
<1>4. CASE Defer(w)
  <2>1. RowsOK'
    BY <1>4, RunUpdate DEF Defer, TypeInv, RowsOK
  <2> QED
    BY <1>4, <2>1, WorkerTypes DEF Defer, Aside, TypeInv, RestOK
<1>5. CASE MarkStarting(w)
  <2>1. CASE runs[w].state = "leased"
    <3>1. /\ runs \in [Runs -> RunRow]
          /\ runs' = [runs EXCEPT ![w].state = "starting",
                                 ![w].expired = FALSE]
      BY <1>5, <2>1 DEF MarkStarting, TypeInv, RowsOK
    <3>2. runs' \in [Runs -> RunRow]
      BY <1>0, <3>1, RunUpdate
    <3>3. RowsOK'
      BY <1>5, <2>1, <3>2 DEF MarkStarting, TypeInv, RowsOK
    <3>4. WorkersOK'
      BY <1>0, <1>5, <2>1, WorkerTypes DEF MarkStarting, WorkerSteps
    <3> QED
      BY <1>5, <2>1, <3>3, <3>4
         DEF MarkStarting, InMemory, Aside, TypeInv, RestOK
  <2>2. CASE runs[w].state # "leased"
    BY <1>0, <1>5, <2>2, FinishAndStopTypes DEF MarkStarting
  <2> QED
    BY <2>1, <2>2
<1>6. CASE Spawn(w)
  <2>1. PICK p \in FirstUnused(Procs, procs) :
           /\ Launched(w, p)
           /\ workers' = [workers EXCEPT ![w].pc = "native", ![w].proc = p]
    BY <1>6 DEF Spawn
  <2>2. p \in Procs
    BY DEF FirstUnused
  <2>3. procs' \in [Procs -> ProcRow]
    BY <2>1, <2>2, LaunchTypes
  <2>4. workers' \in [Runs -> WorkerRow]
    <3>1. "native" \in WorkerSteps
      BY DEF WorkerSteps
    <3> QED
      BY <2>1, <2>2, <3>1, WorkerUpdate DEF TypeInv, WorkersOK
  <2>5. \A v \in Runs : workers'[v].cur = workers[v].cur
                        /\ (Active(v)' => Active(v))
    BY <1>0, <2>1 DEF Active, TypeInv, WorkersOK, WorkerRow
  <2> QED
    BY <1>6, <2>3, <2>4, <2>5
       DEF Spawn, rows, TypeInv, RowsOK, WorkersOK, RestOK
<1>7. CASE SpawnFails(w)
  <2>1. RowsOK'
    BY <1>0, <1>7, FinishTypes DEF SpawnFails, TypeInv
  <2>2. procs' \in [Procs -> ProcRow]
    BY <1>7, LaunchTypes DEF SpawnFails, FirstUnused, TypeInv, RestOK
  <2> QED
    BY <1>7, <2>1, <2>2, WorkerTypes DEF SpawnFails, TypeInv, RestOK
<1>8. CASE MarkNativeStarted(w)
  <2>1. workers[w].proc \in Procs \cup {None}
    BY DEF TypeInv, WorkersOK, WorkerRow
  <2>2. RowsOK'
    BY <1>0, <1>8, <2>1, RunUpdate, RegistryUpdate
       DEF MarkNativeStarted, TypeInv, RowsOK
  <2>3. WorkersOK'
    BY <1>0, <1>8, WorkerTypes DEF MarkNativeStarted, WorkerSteps
  <2> QED
    BY <1>8, <2>2, <2>3
       DEF MarkNativeStarted, InMemory, Aside, TypeInv, RestOK
<1>9. CASE NativeStartRollsBack(w)
  BY <1>0, <1>9, FinishAndStopTypes DEF NativeStartRollsBack
<1>10. CASE StreamRefused(w)
  BY <1>0, <1>10, FinishAndStopTypes DEF StreamRefused
<1>11. CASE LingerFinish(w)
  <2>1. RowsOK'
    BY <1>0, <1>11, FinishTypes, WorkerTypes, OutcomeTypes
       DEF LingerFinish, TypeInv
  <2>2. CASE Deactivate(w)
    BY <1>11, <2>1, <2>2, WorkerTypes
       DEF LingerFinish, Aside, TypeInv, RestOK
  <2>3. CASE /\ workers' = [workers EXCEPT ![w].pc = "linger",
                                           ![w].terminal = "none"]
             /\ UNCHANGED broker
    <3>1. workers' \in [Runs -> WorkerRow]
      BY <2>3, WorkerUpdate DEF TypeInv, WorkersOK, WorkerSteps
    <3>2. \A v \in Runs : workers'[v].cur = workers[v].cur
                          /\ (Active(v)' => Active(v))
      BY <1>0, <2>3 DEF Active, TypeInv, WorkersOK, WorkerRow
    <3> QED
      BY <1>11, <2>1, <2>3, <3>1, <3>2
         DEF LingerFinish, Aside, TypeInv, WorkersOK, RestOK
  <2> QED
    BY <1>11, <2>2, <2>3 DEF LingerFinish
<1>12. CASE StreamEnds(w)
  BY <1>0, <1>12, FinishAndStopTypes, OutcomeTypes DEF StreamEnds
<1>13. CASE StreamBreaks(w)
  <2>1. CASE Goto(w, "reconcile") /\ UNCHANGED <<rows, InMemory>>
    <3>1. WorkersOK'
      BY <1>0, <2>1, WorkerTypes DEF WorkerSteps
    <3> QED
      BY <2>1, <3>1 DEF InMemory, Aside, rows, TypeInv, RowsOK, RestOK
  <2>2. CASE FinishAndStop(w, "unknown", FALSE, FALSE)
    BY <1>0, <2>2, FinishAndStopTypes
  <2>3. CASE /\ workers[w].terminal # "none"
             /\ FinishAndStop(w, AdapterOutcome(w), FALSE, FALSE)
    BY <1>0, <2>3, FinishAndStopTypes, OutcomeTypes
  <2> QED
    BY <1>13, <2>1, <2>2, <2>3 DEF StreamBreaks
<1>14. CASE OpenContinuation(w)
  <2> DEFINE old == workers[w].cur
             new(r) == [NoRun EXCEPT !.state = "running",
                                     !.msg = runs[old].msg,
                                     !.pid = runs[old].pid]
  <2>1. PICK r \in FirstUnused(Runs, runs) :
          /\ runs' = [runs EXCEPT ![r] = new(r)]
          /\ workers' = [workers EXCEPT ![w].pc = "stream", ![w].cur = r,
                                        ![w].terminal = "none"]
    BY <1>14 DEF OpenContinuation
  <2>2. r \in Runs /\ old \in Runs
    BY <1>0, WorkerTypes DEF FirstUnused
  <2>3. new(r) \in RunRow
    BY <2>2, NewRun DEF TypeInv, RowsOK, RunRow
  <2>4. runs' \in [Runs -> RunRow]
    BY <2>1, <2>3 DEF TypeInv, RowsOK
  <2>5. chats' \in [Chats -> ChatRow]
    BY <1>14, ChatUpdate DEF OpenContinuation, TypeInv, RowsOK, ChatRow,
                             ChatStates, CONVERSATION_TRANSITIONS
  <2>6. RowsOK'
    BY <1>14, <2>4, <2>5 DEF OpenContinuation, TypeInv, RowsOK
  <2>7. workers' \in [Runs -> WorkerRow]
    BY <2>1, <2>2, WorkerUpdate DEF TypeInv, WorkersOK, WorkerSteps
  <2>8. \A v \in Runs : \/ workers'[v].cur = r
                        \/ workers'[v] = workers[v]
    BY <2>1 DEF TypeInv, WorkersOK, WorkerRow
  <2>9. WorkersOK'
    BY <2>2, <2>7, <2>8 DEF TypeInv, WorkersOK, Active
  <2> QED
    BY <1>14, <2>6, <2>9
       DEF OpenContinuation, InMemory, Aside, TypeInv, RestOK
<1>15. CASE ContinuationRefused(w)
  BY <1>15, WorkerTypes
     DEF ContinuationRefused, Aside, rows, TypeInv, RowsOK, RestOK
<1>16. CASE LingerEnds(w)
  <2>1. \A q \in Runs : [runs[q] EXCEPT !.pid = None] \in RunRow
    BY DEF TypeInv, RowsOK, RunRow, None
  <2>2. runs' \in [Runs -> RunRow]
    BY <1>16, <2>1 DEF LingerEnds, ReleaseProcessLink, TypeInv, RowsOK
  <2>3. registry' \in [Shells -> ActiveRow]
    BY <1>16, RegistryUpdate
       DEF LingerEnds, ReleaseProcessLink, TypeInv, RowsOK
  <2> QED
    BY <1>16, <2>2, <2>3, WorkerTypes
       DEF LingerEnds, Aside, TypeInv, RowsOK, RestOK
<1>17. CASE \E o \in TERMINAL_RUN_STATES : Reconcile(w, o)
  BY <1>0, <1>17, FinishAndStopTypes DEF Reconcile
<1>18. CASE RecoverLost(w)
  BY <1>0, <1>18, FinishAndStopTypes DEF RecoverLost
<1> QED
  BY <1>1, <1>2, <1>3, <1>4, <1>5, <1>6, <1>7, <1>8, <1>9, <1>10, <1>11,
     <1>12, <1>13, <1>14, <1>15, <1>16, <1>17, <1>18 DEF Work

LEMMA InterruptTypes ==
    ASSUME TypeInv, NEW r
    PROVE  /\ \A rs \in [Runs -> RunRow] : WithIntent(r, rs) \in [Runs -> RunRow]
           /\ InterruptWorkers(r) => WorkersOK'
<1>1. ASSUME NEW rs \in [Runs -> RunRow]
      PROVE  WithIntent(r, rs) \in [Runs -> RunRow]
  BY RunUpdate DEF WithIntent
<1>2. ASSUME InterruptWorkers(r)
      PROVE  WorkersOK'
  <2> DEFINE w == CHOOSE v \in WorkersOn(r) : TRUE
  <2>1. CASE workers' = workers
    BY <2>1 DEF TypeInv, WorkersOK, Active
  <2>2. CASE workers' = [workers EXCEPT ![w].interrupt = TRUE]
    <3>1. workers' \in [Runs -> WorkerRow]
      BY <2>2, WorkerUpdate DEF TypeInv, WorkersOK
    <3>2. \A v \in Runs : /\ workers'[v].cur = workers[v].cur
                          /\ workers'[v].pc = workers[v].pc
      BY <2>2 DEF TypeInv, WorkersOK, WorkerRow
    <3> QED
      BY <3>1, <3>2 DEF TypeInv, WorkersOK, Active
  <2> QED
    BY <1>2, <2>1, <2>2 DEF InterruptWorkers
<1> QED
  BY <1>1, <1>2

LEMMA ReportTypes ==
    ASSUME TypeInv, NEW w \in Runs, Report(w)
    PROVE  TypeInv'
<1>1. PICK o \in {"succeeded", "failed", "cancelled"} : StreamTerminal(w, o)
  BY DEF Report
<1>2. workers' \in [Runs -> WorkerRow]
  BY <1>1, WorkerUpdate DEF StreamTerminal, TypeInv, WorkersOK
<1>3. \A v \in Runs : /\ workers'[v].cur = workers[v].cur
                      /\ workers'[v].pc = workers[v].pc
  BY <1>1 DEF StreamTerminal, TypeInv, WorkersOK, WorkerRow
<1> QED
  BY <1>1, <1>2, <1>3
     DEF StreamTerminal, InMemory, Aside, rows, TypeInv, WorkersOK, Active,
         RowsOK, RestOK

LEMMA DispatchTypes ==
    ASSUME TypeInv, Dispatch
    PROVE  TypeInv'
<1>1. CASE BeginDispatch \/ EndDispatch
  <2>1. broker' \in BrokerRow
    BY <1>1, BrokerUpdate DEF BeginDispatch, EndDispatch, TypeInv, RestOK
  <2> QED
    BY <1>1, <2>1 DEF BeginDispatch, EndDispatch, rows, TypeInv, WorkersOK,
                      Active, RowsOK, RestOK
<1>2. CASE ClaimNext
  <2>1. PICK m \in Claimable, r \in FirstUnused(Runs, runs) :
          /\ messages' = [messages EXCEPT ![m].state = "running",
                                          ![m].outbox = "dispatched"]
          /\ runs' = [runs EXCEPT ![r] = [NoRun EXCEPT !.state = "leased",
                                                       !.msg = m]]
          /\ chats' = [chats EXCEPT ![messages[m].chat].state = "running"]
          /\ workers' = [workers EXCEPT ![r] = [NoWorker EXCEPT
                                           !.pc = "prepare", !.cur = r]]
    BY <1>2 DEF ClaimNext
  <2>2. m \in Messages /\ r \in Runs
    BY DEF Claimable, FirstUnused
  <2>3. messages' \in [Messages -> MessageRow]
    <3>1. "running" \in MessageStates /\ "dispatched" \in OutboxStates
      BY DEF MessageStates, OutboxStates
    <3> QED
      BY <2>1, <3>1 DEF TypeInv, RowsOK, MessageRow
  <2>4. runs' \in [Runs -> RunRow]
    <3>1. [NoRun EXCEPT !.state = "leased", !.msg = m] \in RunRow
      BY <2>2, NewRun
    <3> QED
      BY <2>1, <3>1, RunUpdate DEF TypeInv, RowsOK
  <2>5. chats' \in [Chats -> ChatRow]
    BY <2>1 DEF TypeInv, RowsOK, ChatRow, ChatStates,
                CONVERSATION_TRANSITIONS
  <2>6. WorkersOK'
    <3> DEFINE row == [NoWorker EXCEPT !.pc = "prepare", !.cur = r]
    <3>1. row \in WorkerRow /\ row.cur = r
      BY <2>2 DEF NoWorker, WorkerRow, WorkerSteps, None
    <3>2. workers' \in [Runs -> WorkerRow]
      BY <2>1, <3>1, WorkerUpdate DEF TypeInv, WorkersOK
    <3>3. \A v \in Runs : workers'[v] = row \/ workers'[v] = workers[v]
      BY <2>1 DEF TypeInv, WorkersOK
    <3> QED
      BY <2>2, <3>1, <3>2, <3>3 DEF TypeInv, WorkersOK, Active
  <2> QED
    BY <1>2, <2>3, <2>4, <2>5, <2>6 DEF ClaimNext, TypeInv, RowsOK, RestOK
<1> QED
  BY <1>1, <1>2 DEF Dispatch

LEMMA RecoveryTypes ==
    ASSUME TypeInv, NEW r \in Runs, LeaseExpires(r) \/ Adopt(r)
    PROVE  TypeInv'
<1>1. CASE LeaseExpires(r)
  <2>1. runs' \in [Runs -> RunRow]
    BY <1>1, RunUpdate DEF LeaseExpires, TypeInv, RowsOK
  <2> QED
    BY <1>1, <2>1
       DEF LeaseExpires, TypeInv, RowsOK, WorkersOK, Active, RestOK
<1>2. CASE Adopt(r)
  <2> DEFINE row == [NoWorker EXCEPT
                       !.pc = RecoveredStep(r), !.cur = r,
                       !.proc = runs[r].pid, !.interrupt = runs[r].intent]
  <2>1. runs' \in [Runs -> RunRow]
    BY <1>2, RunUpdate DEF Adopt, TypeInv, RowsOK
  <2>2. row \in WorkerRow /\ row.cur = r
    <3>1. RecoveredStep(r) \in WorkerSteps
      BY DEF RecoveredStep, WorkerSteps
    <3>2. runs[r].pid \in Procs \cup {None} /\ runs[r].intent \in BOOLEAN
      BY DEF TypeInv, RowsOK, RunRow
    <3>3. \A pc \in WorkerSteps, p \in Procs \cup {None}, b \in BOOLEAN :
            LET x == [NoWorker EXCEPT !.pc = pc, !.cur = r,
                                      !.proc = p, !.interrupt = b]
            IN  x \in WorkerRow /\ x.cur = r
      BY DEF NoWorker, WorkerRow, WorkerSteps
    <3> QED
      BY <3>1, <3>2, <3>3
  <2>3. workers' = workers \/ workers' = [workers EXCEPT ![r] = row]
    BY <1>2 DEF Adopt
  <2> HIDE DEF row
  <2>4. workers' \in [Runs -> WorkerRow]
    BY <2>2, <2>3 DEF TypeInv, WorkersOK
  <2>5. \A v \in Runs : workers'[v] = workers[v] \/ workers'[v] = row
    BY <2>3 DEF TypeInv, WorkersOK
  <2>6. WorkersOK'
    BY <2>2, <2>4, <2>5 DEF TypeInv, WorkersOK, Active
  <2> QED
    BY <1>2, <2>1, <2>6 DEF Adopt, TypeInv, RowsOK, RestOK
<1> QED
  BY <1>1, <1>2

LEMMA AcceptTypes ==
    ASSUME TypeInv, NEW c \in Chats, NEW m \in Messages,
           NEW cs \in [Chats -> ChatRow], Accept(c, m, cs)
    PROVE  /\ messages' \in [Messages -> MessageRow]
           /\ chats' \in [Chats -> ChatRow]
           /\ broker' \in BrokerRow
<1>1. [state |-> "queued", chat |-> c, outbox |-> "pending"] \in MessageRow
  BY DEF MessageRow, MessageStates, OutboxStates
<1>2. messages' \in [Messages -> MessageRow]
  BY <1>1 DEF Accept, TypeInv, RowsOK
<1>3. chats' \in [Chats -> ChatRow]
  <2> DEFINE s == IF cs[c].state \in {"queued", "running"}
                  THEN cs[c].state ELSE "queued"
  <2>1. s \in ChatStates
    BY DEF ChatStates, CONVERSATION_TRANSITIONS
  <2>2. chats' = [cs EXCEPT ![c].state = s]
    BY DEF Accept
  <2>3. [cs EXCEPT ![c].state = s] \in [Chats -> ChatRow]
    BY <2>1, ChatUpdate DEF ChatRow
  <2> QED
    BY <2>2, <2>3
<1>4. broker' \in BrokerRow
  BY BrokerUpdate DEF Accept, TypeInv, RestOK
<1> QED
  BY <1>2, <1>3, <1>4

\* Closing a chat, cancelling its intents and unlinking it keep the tables.
LEMMA CloseTypes ==
    ASSUME TypeInv
    PROVE  /\ \A d : \A b \in BOOLEAN :
                ClosedRows(chats, d, b) \in [Chats -> ChatRow]
           /\ \A d : CancelPending(d) => messages' \in [Messages -> MessageRow]
           /\ \A s : Unlink(s) \in [Shells -> ActiveRow]
<1>1. ASSUME NEW d, NEW b \in BOOLEAN
      PROVE  ClosedRows(chats, d, b) \in [Chats -> ChatRow]
  <2> DEFINE row == [state |-> "closed", closing |-> chats[d].closing \/ b]
  <2>1. d \in Chats => row \in ChatRow
    BY DEF TypeInv, RowsOK, ChatRow, ChatStates, CONVERSATION_TRANSITIONS
  <2> QED
    BY <2>1 DEF ClosedRows, TypeInv, RowsOK
<1>2. ASSUME NEW d, CancelPending(d)
      PROVE  messages' \in [Messages -> MessageRow]
  <2>1. \A m \in Messages :
          /\ [messages[m] EXCEPT !.state = "cancelled",
                                 !.outbox = "cancelled"] \in MessageRow
          /\ messages[m] \in MessageRow
    BY MessageUpdate DEF TypeInv, RowsOK, MessageStates, OutboxStates
  <2> QED
    BY <1>2, <2>1 DEF CancelPending
<1>3. \A s : Unlink(s) \in [Shells -> ActiveRow]
  BY RegistryUpdate DEF Unlink, TypeInv, RowsOK, None
<1> QED
  BY <1>1, <1>2, <1>3

LEMMA ApiTypes ==
    ASSUME TypeInv, NEW c \in Chats, Api(c)
    PROVE  TypeInv'
<1> DEFINE s == ShellOf[c]
<1>0. /\ chats \in [Chats -> ChatRow]
      /\ WithoutActive(s) \in [Chats -> ChatRow]
      /\ {"idle", "queued"} \subseteq ChatStates
  BY CloseTypes DEF TypeInv, RowsOK, WithoutActive, ChatStates,
                    CONVERSATION_TRANSITIONS
<1>1. CASE CreateCloses(c)
  BY <1>0, <1>1, CloseTypes
     DEF CreateCloses, TypeInv, RowsOK, WorkersOK, Active, RestOK
<1>2. CASE WakeCloses(c)
  <2>1. messages' \in [Messages -> MessageRow]
    BY <1>2, CloseTypes DEF WakeCloses, TypeInv, RowsOK
  <2> QED
    BY <1>2, <2>1, CloseTypes
       DEF WakeCloses, TypeInv, RowsOK, WorkersOK, Active, RestOK
<1>3. CASE CreateRegisters(c)
  <2>1. chats' \in [Chats -> ChatRow] /\ registry' \in [Shells -> ActiveRow]
    BY <1>0, <1>3, ChatUpdate, RegistryUpdate
       DEF CreateRegisters, TypeInv, RowsOK, ChatRow, None
  <2> QED
    BY <1>3, <2>1
       DEF CreateRegisters, TypeInv, RowsOK, WorkersOK, Active, RestOK
<1>4. CASE CreateLoses(c)
  BY <1>4 DEF CreateLoses, rows, TypeInv, RowsOK, WorkersOK, Active, RestOK
<1>5. CASE Send(c)
  <2>1. PICK m \in Messages : Accept(c, m, chats)
    BY <1>5 DEF Send, FirstUnused
  <2> QED
    BY <1>0, <1>5, <2>1, AcceptTypes
       DEF Send, TypeInv, RowsOK, WorkersOK, Active, RestOK
<1>6. CASE SendReopens(c)
  <2> DEFINE reopened == [WithoutActive(s) EXCEPT
                            ![c] = [state |-> "idle", closing |-> FALSE]]
  <2>1. reopened \in [Chats -> ChatRow]
    BY <1>0, ChatUpdate DEF ChatRow
  <2>2. PICK m \in Messages : Accept(c, m, reopened)
    BY <1>6 DEF SendReopens, FirstUnused
  <2>3. registry' \in [Shells -> ActiveRow]
    BY <1>6 DEF SendReopens, ReopenedLink, TypeInv, RowsOK, ActiveRow, None
  <2> QED
    BY <1>6, <2>1, <2>2, <2>3, AcceptTypes
       DEF SendReopens, TypeInv, RowsOK, WorkersOK, Active, RestOK
<1>7. CASE Stop(c)
  <2> DEFINE r == CHOOSE q \in LiveRunsOf(c) :
                    \A k \in LiveRunsOf(c) : k <= q
  <2>1. runs' = WithIntent(r, runs) /\ InterruptWorkers(r)
    BY <1>7 DEF Stop
  <2>2. runs' \in [Runs -> RunRow] /\ WorkersOK'
    BY <2>1, InterruptTypes DEF TypeInv, RowsOK
  <2>3. broker' \in BrokerRow
    BY <1>7, BrokerUpdate DEF Stop, TypeInv, RestOK
  <2> QED
    BY <1>7, <2>2, <2>3 DEF Stop, TypeInv, RowsOK, RestOK
<1>8. CASE Close(c)
  <2>1. chats' \in [Chats -> ChatRow] /\ messages' \in [Messages -> MessageRow]
    BY <1>8, CloseTypes DEF Close
  <2>2. registry' \in [Shells -> ActiveRow]
    BY <1>8, CloseTypes DEF Close, TypeInv, RowsOK
  <2> QED
    BY <1>8, <2>1, <2>2
       DEF Close, LinkedProcs, TypeInv, RowsOK, WorkersOK, Active, RestOK
<1>9. CASE CloseInactive(c)
  <2>1. chats' \in [Chats -> ChatRow] /\ registry' \in [Shells -> ActiveRow]
    BY <1>9, CloseTypes DEF CloseInactive
  <2>2. messages' \in [Messages -> MessageRow]
    BY <1>9, CloseTypes DEF CloseInactive, TypeInv, RowsOK
  <2> QED
    BY <1>9, <2>1, <2>2
       DEF CloseInactive, TypeInv, RowsOK, WorkersOK, Active, RestOK
<1> QED
  BY <1>1, <1>2, <1>3, <1>4, <1>5, <1>6, <1>7, <1>8, <1>9 DEF Api

LEMMA ReaperFinishTypes ==
    ASSUME TypeInv, NEW r \in Runs, NEW exited \in BOOLEAN,
           ReaperFinish(r, exited)
    PROVE  RowsOK'
<1> DEFINE final == IF Live(r) THEN "cancelled" ELSE runs[r].state
           row   == [Settled(r, final, exited) EXCEPT !.rung = "ended"]
<1>1. runs' = [runs EXCEPT ![r] = row]
  BY DEF ReaperFinish
<1>2. row \in RunRow
  BY SettledType DEF TypeInv, RowsOK, RunRow, RunStates, RUN_TRANSITIONS
<1>3. runs' \in [Runs -> RunRow]
  <2> HIDE DEF row
  <2> QED
    BY <1>1, <1>2 DEF TypeInv, RowsOK
<1>4. messages' \in [Messages -> MessageRow]
  BY DEF ReaperFinish, TypeInv, RowsOK, MessageRow, MessageStates
<1>5. chats' \in [Chats -> ChatRow]
  BY DEF ReaperFinish, TypeInv, RowsOK, ChatRow, ChatStates,
         CONVERSATION_TRANSITIONS
<1> QED
  BY <1>3, <1>4, <1>5 DEF ReaperFinish, TypeInv, RowsOK

LEMMA SweepTypes ==
    ASSUME TypeInv, NEW r \in Runs, Sweep(r)
    PROVE  TypeInv'
<1>1. CASE SweepGone(r)
  BY <1>1, ReaperFinishTypes
     DEF SweepGone, TypeInv, WorkersOK, Active, RestOK
<1>2. CASE SweepInterrupt(r)
  <2>1. [runs EXCEPT ![r].rung = "interrupt"] \in [Runs -> RunRow]
    BY RunUpdate DEF TypeInv, RowsOK, Rungs
  <2>2. runs' \in [Runs -> RunRow] /\ WorkersOK'
    BY <1>2, <2>1, InterruptTypes DEF SweepInterrupt
  <2>3. broker' \in BrokerRow
    BY <1>2, BrokerUpdate DEF SweepInterrupt, TypeInv, RestOK, BrokerRow
  <2> QED
    BY <1>2, <2>2, <2>3 DEF SweepInterrupt, TypeInv, RowsOK, RestOK
<1>3. CASE SweepSignals(r)
  <2> DEFINE rung == IF runs[r].rung = "SIGTERM" THEN "SIGKILL" ELSE "SIGTERM"
  <2>1. runs' = [runs EXCEPT ![r].rung = rung] /\ rung \in Rungs
    BY <1>3 DEF SweepSignals, Rungs
  <2>2. runs' \in [Runs -> RunRow]
    BY <2>1, RunUpdate DEF TypeInv, RowsOK
  <2>3. procs' \in [Procs -> ProcRow]
    BY <1>3 DEF SweepSignals, TypeInv, RestOK, ProcRow, ProcStates
  <2> QED
    BY <1>3, <2>2, <2>3
       DEF SweepSignals, TypeInv, RowsOK, WorkersOK, Active, RestOK
<1>4. CASE SweepKilled(r)
  BY <1>4, ReaperFinishTypes
     DEF SweepKilled, TypeInv, WorkersOK, Active, RestOK
<1> QED
  BY <1>1, <1>2, <1>3, <1>4 DEF Sweep

LEMMA EnvironmentTypes ==
    ASSUME TypeInv, \/ \E p \in Procs : Terminate(p) \/ ProcessExits(p)
                    \/ Crash
                    \/ Restart
    PROVE  TypeInv'
<1>1. CASE \E p \in Procs : Terminate(p) \/ ProcessExits(p)
  <2>1. procs' \in [Procs -> ProcRow]
    BY <1>1 DEF Terminate, ProcessExits, TypeInv, RestOK, ProcRow, ProcStates
  <2> QED
    BY <1>1, <2>1 DEF Terminate, ProcessExits, rows, TypeInv, RowsOK,
                      WorkersOK, Active, RestOK
<1>2. CASE Crash
  <2>1. NoWorker \in WorkerRow /\ NoWorker.pc = "off"
    BY DEF NoWorker, WorkerRow, WorkerSteps, None
  <2>2. WorkersOK'
    BY <1>2, <2>1 DEF Crash, WorkersOK, Active
  <2>3. procs' \in [Procs -> ProcRow]
    BY <1>2 DEF Crash, TypeInv, RestOK, ProcRow, ProcStates
  <2>4. broker.crashes + 1 \in 0 .. MaxCrashes
    BY <1>2, TablesAssumption DEF Crash, TypeInv, RestOK, BrokerRow
  <2>5. broker' \in BrokerRow
    BY <1>2, <2>4 DEF Crash, BrokerRow
  <2> QED
    BY <1>2, <2>2, <2>3, <2>5 DEF Crash, rows, TypeInv, RowsOK, RestOK
<1>3. CASE Restart
  <2>1. broker' \in BrokerRow
    BY <1>3, BrokerUpdate DEF Restart, TypeInv, RestOK
  <2> QED
    BY <1>3, <2>1 DEF Restart, rows, TypeInv, RowsOK, WorkersOK, Active,
                      RestOK
<1> QED
  BY <1>1, <1>2, <1>3

LEMMA InitTypes == Init => TypeInv
<1> SUFFICES ASSUME Init PROVE TypeInv
  OBVIOUS
<1>1. RowsOK
  <2>1. \A c \in Chats : [state |-> "absent", closing |-> FALSE] \in ChatRow
    BY DEF ChatRow, ChatStates
  <2>2. [chat |-> NoChat, proc |-> None] \in ActiveRow
    BY DEF ActiveRow, None
  <2>3. [state |-> "absent", chat |-> NoChat, outbox |-> "absent"]
          \in MessageRow
    BY DEF MessageRow, MessageStates, OutboxStates
  <2> QED
    BY <2>1, <2>2, <2>3, NewRun DEF Init, RowsOK
<1>2. WorkersOK
  <2>1. NoWorker \in WorkerRow /\ NoWorker.pc = "off"
    BY DEF NoWorker, WorkerRow, WorkerSteps, None
  <2> QED
    BY <2>1 DEF Init, WorkersOK, Active
<1>3. RestOK
  <2>1. [state |-> "absent", msg |-> None] \in ProcRow
    BY DEF ProcRow, ProcStates, None
  <2>2. 0 \in 0 .. MaxCrashes
    BY TablesAssumption
  <2> QED
    BY <2>1, <2>2 DEF Init, RestOK, BrokerRow
<1> QED
  BY <1>1, <1>2, <1>3 DEF TypeInv

LEMMA StepTypes == TypeInv /\ [Next]_vars => TypeInv'
<1> SUFFICES ASSUME TypeInv, [Next]_vars PROVE TypeInv'
  OBVIOUS
<1>1. CASE UNCHANGED vars
  BY <1>1 DEF vars, TypeInv, RowsOK, WorkersOK, Active, RestOK
<1> QED
  BY <1>1, ReportTypes, WorkTypes, DispatchTypes, RecoveryTypes, SweepTypes,
     ApiTypes, EnvironmentTypes DEF Next

-----------------------------------------------------------------------------

\* Every variable keeps to its row shape, whatever the size of the system.
\* The inductive invariant adds that a worker at work holds a run, which is
\* what makes the row of a continuation well formed.
THEOREM TypesHold == Spec => []TypeOK
<1>1. TypeInv => TypeOK
  BY DEF TypeInv, RowsOK, WorkersOK, RestOK, TypeOK
<1> QED
  BY <1>1, InitTypes, StepTypes, PTL DEF Spec

=============================================================================
