---------------------- MODULE ConversationHistoryProofs ----------------------
(***************************************************************************)
(* What the rows of the conversation runtime remember: a run keeps its     *)
(* message and its outcome, a message its chat, and a shell one live run.  *)
(***************************************************************************)
EXTENDS ConversationRuntimeProofs, FiniteSetTheorems

\* The rows refer to rows that exist.
RefInv ==
    /\ \A r \in Runs : runs[r].state # "absent" =>
          runs[r].msg \in Messages /\ messages[runs[r].msg].state # "absent"
    /\ \A m \in Messages : messages[m].state # "absent" =>
          messages[m].chat \in Chats /\ Exists(messages[m].chat)
    /\ \A m \in Messages : messages[m].outbox = "pending" =>
          messages[m].state # "absent"
    /\ \A w \in Runs : Active(w) => runs[workers[w].cur].state # "absent"

\* What a step may do to the runs: none appears, and only a live one moves...
RunsSettle ==
    \A r \in Runs :
        /\ runs'[r].msg = runs[r].msg
        /\ \/ runs'[r].state = runs[r].state
           \/ Live(r) /\ runs'[r].state \in LIVE_RUN_STATES \cup TERMINAL_RUN_STATES

\* ... or one live run appears for a message whose shell has none.
RunAppears ==
    \E new \in Runs, m \in Messages :
        /\ runs[new].state = "absent"
        /\ \A r \in Runs \ {new} : runs'[r] = runs[r]
        /\ runs'[new].state \in LIVE_RUN_STATES
        /\ runs'[new].msg = m
        /\ messages[m].state # "absent"
        /\ LiveRunsOn(ShellOf[messages[m].chat]) = {}

\* An accepted message stays in its chat; a new one has an existing chat.
MessagesStay ==
    \A m \in Messages :
        /\ messages[m].state # "absent" =>
             /\ messages'[m].state # "absent"
             /\ messages'[m].chat = messages[m].chat
        /\ messages[m].state = "absent" =>
             \/ messages'[m] = messages[m]
             \/ /\ messages'[m].state # "absent"
                /\ messages'[m].chat \in Chats
                /\ chats'[messages'[m].chat].state # "absent"

ChatsStay == \A c \in Chats : Exists(c) => chats'[c].state # "absent"

\* A worker keeps its run or takes one that exists.
WorkersStay ==
    \A w \in Runs : workers'[w].pc # "off" =>
        \/ Active(w) /\ workers'[w].cur = workers[w].cur
        \/ workers'[w].cur \in Runs /\ runs'[workers'[w].cur].state # "absent"

HistoryStep ==
    /\ RunsSettle \/ RunAppears
    /\ MessagesStay
    /\ ChatsStay
    /\ WorkersStay

-----------------------------------------------------------------------------
(* The parts several actions share. *)

\* A table that is left alone keeps its history.
LEMMA UnchangedStays ==
    /\ UNCHANGED runs => RunsSettle
    /\ UNCHANGED messages => MessagesStay
    /\ UNCHANGED chats => ChatsStay
    /\ UNCHANGED workers => WorkersStay
  BY DEF RunsSettle, MessagesStay, ChatsStay, WorkersStay, Exists, Active

\* A terminal commit settles one live run and moves no message or chat.
LEMMA FinishStays ==
    ASSUME TypeInv, RefInv, NEW r \in Runs,
           NEW outcome \in TERMINAL_RUN_STATES,
           NEW keep \in BOOLEAN, NEW exited \in BOOLEAN,
           TryFinish(r, outcome, keep, exited)
    PROVE  RunsSettle /\ MessagesStay /\ ChatsStay
<1>1. CASE UNCHANGED rows
  BY <1>1, UnchangedStays DEF rows
<1>2. CASE Live(r) /\ FinishRun(r, outcome, keep, exited)
  <2>1. RunsSettle
    <3>1. runs' = [runs EXCEPT ![r] = Settled(r, outcome, exited)]
      BY <1>2 DEF FinishRun
    <3>2. /\ Settled(r, outcome, exited).state = outcome
          /\ Settled(r, outcome, exited).msg = runs[r].msg
      BY DEF Settled, NoRun
    <3> QED
      BY <1>2, <3>1, <3>2 DEF RunsSettle, TypeInv, RowsOK
  <2>2. MessagesStay
    <3>1. MessageOutcome[outcome] # "absent"
      BY DEF MessageOutcome, TERMINAL_RUN_STATES
    <3>2. messages[runs[r].msg].state # "absent"
      BY <1>2 DEF RefInv, Live, LIVE_RUN_STATES
    <3>3. \A m \in CancelledByFinish(r) : messages[m].state # "absent"
      BY DEF CancelledByFinish, PendingOf, RefInv
    <3>4. ASSUME NEW m \in Messages
          PROVE  \/ messages'[m] = messages[m]
                 \/ /\ messages[m].state # "absent"
                    /\ messages'[m].state # "absent"
                    /\ messages'[m].chat = messages[m].chat
      BY <1>2, <3>1, <3>2, <3>3 DEF FinishRun, TypeInv, RowsOK, MessageRow
    <3> QED
      BY <3>4 DEF MessagesStay
  <2>3. ChatsStay
    <3>1. FinishedChatState(r, outcome) # "absent"
      BY DEF FinishedChatState, FinishTarget
    <3> QED
      BY <1>2, <3>1 DEF FinishRun, ChatsStay, Exists, TypeInv, RowsOK, ChatRow
  <2> QED
    BY <2>1, <2>2, <2>3
<1> QED
  BY <1>1, <1>2 DEF TryFinish

\* A worker that moves on or ends takes no other run.
LEMMA WorkerStays ==
    ASSUME TypeInv, NEW w \in Runs
    PROVE  /\ \A pc : Active(w) /\ Goto(w, pc) => WorkersStay
           /\ Deactivate(w) => WorkersStay
<1>1. ASSUME NEW pc, Active(w), Goto(w, pc)
      PROVE  WorkersStay
  BY <1>1 DEF Goto, WorkersStay, Active, TypeInv, WorkersOK, WorkerRow
<1>2. ASSUME Deactivate(w)
      PROVE  WorkersStay
  BY <1>2 DEF Deactivate, NoWorker, WorkersStay, Active, TypeInv, WorkersOK
<1> QED
  BY <1>1, <1>2

LEMMA FinishAndStopStays ==
    ASSUME TypeInv, RefInv, NEW w \in Runs, Active(w),
           NEW outcome \in TERMINAL_RUN_STATES,
           NEW keep \in BOOLEAN, NEW exited \in BOOLEAN,
           FinishAndStop(w, outcome, keep, exited)
    PROVE  HistoryStep
<1>1. workers[w].cur \in Runs
  BY WorkerTypes
<1> QED
  BY <1>1, FinishStays, WorkerStays DEF FinishAndStop, HistoryStep

\* One field of one run, other than its message and its state.
LEMMA FieldStays ==
    ASSUME TypeInv, NEW r
    PROVE  /\ \A b : runs' = [runs EXCEPT ![r].expired = b] => RunsSettle
           /\ \A b : runs' = [runs EXCEPT ![r].archived = b] => RunsSettle
           /\ \A b : runs' = [runs EXCEPT ![r].intent = b] => RunsSettle
           /\ \A g : runs' = [runs EXCEPT ![r].rung = g] => RunsSettle
<1>1. \A b : runs' = [runs EXCEPT ![r].expired = b] => RunsSettle
  BY DEF RunsSettle, TypeInv, RowsOK, RunRow
<1>2. \A b : runs' = [runs EXCEPT ![r].archived = b] => RunsSettle
  BY DEF RunsSettle, TypeInv, RowsOK, RunRow
<1>3. \A b : runs' = [runs EXCEPT ![r].intent = b] => RunsSettle
  BY DEF RunsSettle, TypeInv, RowsOK, RunRow
<1>4. \A g : runs' = [runs EXCEPT ![r].rung = g] => RunsSettle
  BY DEF RunsSettle, TypeInv, RowsOK, RunRow
<1> QED
  BY <1>1, <1>2, <1>3, <1>4

-----------------------------------------------------------------------------
(* One actor at a time. *)

LEMMA WorkStays ==
    ASSUME TypeInv, RefInv, NEW w \in Runs, Work(w)
    PROVE  HistoryStep
<1>0. Active(w) /\ {"failed", "unknown"} \subseteq TERMINAL_RUN_STATES
  BY DEF Work, At, Active, Prepare, PrepareRebound, PrepareRefused, Defer,
         MarkStarting, Spawn, SpawnFails, MarkNativeStarted,
         NativeStartRollsBack, StreamRefused, LingerFinish, StreamEnds,
         StreamBreaks, OpenContinuation, ContinuationRefused, LingerEnds,
         Reconcile, RecoverLost, Streaming, TERMINAL_RUN_STATES
<1>1. CASE Prepare(w)
  BY <1>0, <1>1, FieldStays, UnchangedStays, WorkerStays
     DEF Prepare, HistoryStep
<1>2. CASE PrepareRebound(w)
  BY <1>0, <1>2, FinishAndStopStays DEF PrepareRebound
<1>3. CASE PrepareRefused(w)
  BY <1>0, <1>3, FinishAndStopStays DEF PrepareRefused
<1>4. CASE Defer(w)
  BY <1>0, <1>4, FieldStays, UnchangedStays, WorkerStays
     DEF Defer, HistoryStep
<1>5. CASE MarkStarting(w)
  <2>1. CASE runs[w].state = "leased"
    <3>1. runs' = [runs EXCEPT ![w].state = "starting", ![w].expired = FALSE]
      BY <1>5, <2>1 DEF MarkStarting
    <3>2. Live(w) /\ "starting" \in LIVE_RUN_STATES
      BY <2>1 DEF Live, LIVE_RUN_STATES
    <3>3. RunsSettle
      BY <3>1, <3>2 DEF RunsSettle, TypeInv, RowsOK, RunRow
    <3> QED
      BY <1>0, <1>5, <2>1, <3>3, UnchangedStays, WorkerStays
         DEF MarkStarting, HistoryStep
  <2>2. CASE runs[w].state # "leased"
    BY <1>0, <1>5, <2>2, FinishAndStopStays DEF MarkStarting
  <2> QED
    BY <2>1, <2>2
<1>6. CASE Spawn(w)
  <2>1. WorkersStay
    BY <1>0, <1>6 DEF Spawn, WorkersStay, Active, TypeInv, WorkersOK, WorkerRow
  <2> QED
    BY <1>6, <2>1, UnchangedStays DEF Spawn, rows, HistoryStep
<1>7. CASE SpawnFails(w)
  BY <1>0, <1>7, FinishStays, WorkerStays DEF SpawnFails, HistoryStep
<1>8. CASE MarkNativeStarted(w)
  <2>1. runs' = [runs EXCEPT ![w].state = "running", ![w].expired = FALSE,
                             ![w].pid = workers[w].proc]
    BY <1>8 DEF MarkNativeStarted
  <2>2. Live(w) /\ "running" \in LIVE_RUN_STATES
    BY <1>8 DEF MarkNativeStarted, Live, LIVE_RUN_STATES
  <2>3. RunsSettle
    BY <2>1, <2>2 DEF RunsSettle, TypeInv, RowsOK, RunRow
  <2> QED
    BY <1>0, <1>8, <2>3, UnchangedStays, WorkerStays
       DEF MarkNativeStarted, HistoryStep
<1>9. CASE NativeStartRollsBack(w)
  BY <1>0, <1>9, FinishAndStopStays DEF NativeStartRollsBack
<1>10. CASE StreamRefused(w)
  BY <1>0, <1>10, FinishAndStopStays DEF StreamRefused
<1>11. CASE LingerFinish(w)
  <2>1. RunsSettle /\ MessagesStay /\ ChatsStay
    BY <1>0, <1>11, FinishStays, WorkerTypes, OutcomeTypes DEF LingerFinish
  <2>2. WorkersStay
    <3>1. CASE Deactivate(w)
      BY <3>1, WorkerStays
    <3>2. CASE workers' = [workers EXCEPT ![w].pc = "linger",
                                          ![w].terminal = "none"]
      BY <1>0, <3>2 DEF WorkersStay, Active, TypeInv, WorkersOK, WorkerRow
    <3> QED
      BY <1>11, <3>1, <3>2 DEF LingerFinish
  <2> QED
    BY <2>1, <2>2 DEF HistoryStep
<1>12. CASE StreamEnds(w)
  BY <1>0, <1>12, FinishAndStopStays, OutcomeTypes DEF StreamEnds
<1>13. CASE StreamBreaks(w)
  <2>1. CASE Goto(w, "reconcile") /\ UNCHANGED <<rows, InMemory>>
    BY <1>0, <2>1, UnchangedStays, WorkerStays DEF rows, HistoryStep
  <2>2. CASE FinishAndStop(w, "unknown", FALSE, FALSE)
    BY <1>0, <2>2, FinishAndStopStays
  <2>3. CASE /\ workers[w].terminal # "none"
             /\ FinishAndStop(w, AdapterOutcome(w), FALSE, FALSE)
    BY <1>0, <2>3, FinishAndStopStays, OutcomeTypes
  <2> QED
    BY <1>13, <2>1, <2>2, <2>3 DEF StreamBreaks
<1>14. CASE OpenContinuation(w)
  <2> DEFINE old == workers[w].cur
             row == [NoRun EXCEPT !.state = "running",
                                  !.msg = runs[old].msg,
                                  !.pid = runs[old].pid]
  <2>1. PICK r \in FirstUnused(Runs, runs) :
          /\ runs' = [runs EXCEPT ![r] = row]
          /\ workers' = [workers EXCEPT ![w].pc = "stream", ![w].cur = r,
                                        ![w].terminal = "none"]
    BY <1>14 DEF OpenContinuation
  <2>2. r \in Runs /\ runs[r].state = "absent" /\ old \in Runs
    BY <1>0, WorkerTypes DEF FirstUnused
  <2>3. row.state = "running" /\ row.msg = runs[old].msg
    BY DEF NoRun
  <2>4. /\ runs[old].msg \in Messages
        /\ messages[runs[old].msg].state # "absent"
    BY <1>0, <2>2 DEF RefInv
  <2>5. runs'[r] = row /\ \A q \in Runs \ {r} : runs'[q] = runs[q]
    BY <2>1, <2>2 DEF TypeInv, RowsOK
  <2> HIDE DEF row
  <2>6. LiveRunsOn(ShellOf[messages[runs[old].msg].chat]) = {}
    BY <1>14 DEF OpenContinuation, MayContinue, ChatOfRun
  <2>7. RunAppears
    BY <2>2, <2>3, <2>4, <2>5, <2>6 DEF RunAppears, LIVE_RUN_STATES
  <2>8. WorkersStay
    <3>1. runs'[r].state # "absent"
      BY <2>3, <2>5
    <3> QED
      BY <1>0, <2>1, <2>2, <3>1
         DEF WorkersStay, Active, TypeInv, WorkersOK, WorkerRow
  <2>9. ChatsStay
    BY <1>14 DEF OpenContinuation, ChatsStay, Exists, TypeInv, RowsOK, ChatRow
  <2> QED
    BY <1>14, <2>7, <2>8, <2>9, UnchangedStays
       DEF OpenContinuation, HistoryStep
<1>15. CASE ContinuationRefused(w)
  BY <1>15, WorkerStays, UnchangedStays
     DEF ContinuationRefused, rows, HistoryStep
<1>16. CASE LingerEnds(w)
  <2>1. RunsSettle
    BY <1>16 DEF LingerEnds, ReleaseProcessLink, RunsSettle, TypeInv, RowsOK,
                 RunRow
  <2> QED
    BY <1>16, <2>1, WorkerStays, UnchangedStays DEF LingerEnds, HistoryStep
<1>17. CASE \E o \in TERMINAL_RUN_STATES : Reconcile(w, o)
  BY <1>0, <1>17, FinishAndStopStays DEF Reconcile
<1>18. CASE RecoverLost(w)
  BY <1>0, <1>18, FinishAndStopStays DEF RecoverLost
<1> QED
  BY <1>1, <1>2, <1>3, <1>4, <1>5, <1>6, <1>7, <1>8, <1>9, <1>10, <1>11,
     <1>12, <1>13, <1>14, <1>15, <1>16, <1>17, <1>18 DEF Work

LEMMA InterruptStays ==
    ASSUME TypeInv, NEW r
    PROVE  /\ runs' = WithIntent(r, runs) => RunsSettle
           /\ \A q, g : runs' = WithIntent(r, [runs EXCEPT ![q].rung = g])
                        => RunsSettle
           /\ InterruptWorkers(r) => WorkersStay
<1>1. ASSUME NEW q, NEW g,
             runs' = WithIntent(r, [runs EXCEPT ![q].rung = g])
      PROVE  RunsSettle
  <2> DEFINE x == InterruptedRun(r)
             rs == [runs EXCEPT ![q].rung = g]
  <2>1. runs' = rs \/ runs' = [rs EXCEPT ![x].intent = TRUE]
    BY <1>1 DEF WithIntent
  <2>2. /\ DOMAIN rs = Runs
        /\ \A k \in Runs : rs[k].msg = runs[k].msg /\ rs[k].state = runs[k].state
                           /\ DOMAIN rs[k] = DOMAIN runs[k]
                           /\ "state" \in DOMAIN rs[k] /\ "msg" \in DOMAIN rs[k]
    BY DEF TypeInv, RowsOK, RunRow
  <2> HIDE DEF rs
  <2>3. \A k \in Runs : runs'[k].msg = rs[k].msg /\ runs'[k].state = rs[k].state
    BY <2>1, <2>2
  <2> QED
    BY <2>2, <2>3 DEF RunsSettle
<1>2. runs' = WithIntent(r, runs) => RunsSettle
  BY FieldStays, UnchangedStays DEF WithIntent
<1>3. ASSUME InterruptWorkers(r)
      PROVE  WorkersStay
  BY <1>3 DEF InterruptWorkers, WorkersStay, Active, TypeInv, WorkersOK,
              WorkerRow
<1> QED
  BY <1>1, <1>2, <1>3

LEMMA DispatchStays ==
    ASSUME TypeInv, RefInv, Dispatch
    PROVE  HistoryStep
<1>1. CASE BeginDispatch \/ EndDispatch
  BY <1>1, UnchangedStays DEF BeginDispatch, EndDispatch, rows, HistoryStep
<1>2. CASE ClaimNext
  <2> DEFINE row(m) == [NoRun EXCEPT !.state = "leased", !.msg = m]
  <2>1. PICK m \in Claimable, r \in FirstUnused(Runs, runs) :
          /\ messages' = [messages EXCEPT ![m].state = "running",
                                          ![m].outbox = "dispatched"]
          /\ runs' = [runs EXCEPT ![r] = row(m)]
          /\ chats' = [chats EXCEPT ![messages[m].chat].state = "running"]
          /\ workers' = [workers EXCEPT ![r] = [NoWorker EXCEPT
                                           !.pc = "prepare", !.cur = r]]
    BY <1>2 DEF ClaimNext
  <2>2. /\ m \in Messages /\ r \in Runs /\ runs[r].state = "absent"
        /\ messages[m].state # "absent"
        /\ LiveRunsOn(ShellOf[messages[m].chat]) = {}
    BY DEF Claimable, FirstUnused
  <2>3. row(m).state = "leased" /\ row(m).msg = m
    BY DEF NoRun
  <2>4. runs'[r] = row(m) /\ \A q \in Runs \ {r} : runs'[q] = runs[q]
    BY <2>1, <2>2 DEF TypeInv, RowsOK
  <2> HIDE DEF row
  <2>5. RunAppears
    BY <2>2, <2>3, <2>4 DEF RunAppears, LIVE_RUN_STATES
  <2>6. MessagesStay
    BY <2>1, <2>2 DEF MessagesStay, TypeInv, RowsOK, MessageRow
  <2>7. ChatsStay
    BY <2>1 DEF ChatsStay, Exists, TypeInv, RowsOK, ChatRow
  <2>8. WorkersStay
    <3>1. runs'[r].state # "absent"
      BY <2>3, <2>4
    <3>2. [NoWorker EXCEPT !.pc = "prepare", !.cur = r].cur = r
      BY DEF NoWorker
    <3> QED
      BY <2>1, <2>2, <3>1, <3>2 DEF WorkersStay, Active, TypeInv, WorkersOK
  <2> QED
    BY <2>5, <2>6, <2>7, <2>8 DEF HistoryStep
<1> QED
  BY <1>1, <1>2 DEF Dispatch

LEMMA RecoveryStays ==
    ASSUME TypeInv, RefInv, NEW r \in Runs, LeaseExpires(r) \/ Adopt(r)
    PROVE  HistoryStep
<1>1. CASE LeaseExpires(r)
  BY <1>1, FieldStays, UnchangedStays DEF LeaseExpires, HistoryStep
<1>2. CASE Adopt(r)
  <2> DEFINE row == [NoWorker EXCEPT
                       !.pc = RecoveredStep(r), !.cur = r,
                       !.proc = runs[r].pid, !.interrupt = runs[r].intent]
  <2>1. RunsSettle
    BY <1>2, FieldStays DEF Adopt
  <2>2. runs[r].state # "absent" /\ runs'[r].state # "absent"
    BY <1>2, <2>1 DEF Adopt, Live, RunsSettle, LIVE_RUN_STATES,
                     TERMINAL_RUN_STATES
  <2>3. row.cur = r
    BY DEF NoWorker
  <2>4. workers' = workers \/ workers' = [workers EXCEPT ![r] = row]
    BY <1>2 DEF Adopt
  <2> HIDE DEF row
  <2>5. WorkersStay
    BY <2>2, <2>3, <2>4 DEF WorkersStay, Active, TypeInv, WorkersOK
  <2> QED
    BY <1>2, <2>1, <2>5, UnchangedStays DEF Adopt, HistoryStep
<1> QED
  BY <1>1, <1>2

\* Closing keeps the row of a chat that exists; cancelling keeps a message.
LEMMA CloseStays ==
    ASSUME TypeInv, RefInv
    PROVE  /\ \A d, b : chats' = ClosedRows(chats, d, b) => ChatsStay
           /\ \A s : \A c \in Chats : Exists(c) => WithoutActive(s)[c].state # "absent"
           /\ \A d : CancelPending(d) => MessagesStay
<1>1. ASSUME NEW d, NEW b
      PROVE  \A c \in Chats : Exists(c) => ClosedRows(chats, d, b)[c].state # "absent"
  BY DEF ClosedRows, Exists, TypeInv, RowsOK, ChatRow
<1>2. \A s : \A c \in Chats : Exists(c) => WithoutActive(s)[c].state # "absent"
  BY <1>1 DEF WithoutActive, Exists
<1>3. ASSUME NEW d, CancelPending(d)
      PROVE  MessagesStay
  BY <1>3 DEF CancelPending, PendingOf, MessagesStay, RefInv, TypeInv, RowsOK,
              MessageRow
<1> QED
  BY <1>1, <1>2, <1>3 DEF ChatsStay

\* An accepted message has its chat, which exists.
LEMMA AcceptStays ==
    ASSUME TypeInv, NEW c \in Chats, NEW m \in FirstUnused(Messages, messages),
           NEW cs \in [Chats -> ChatRow], Accept(c, m, cs),
           \A d \in Chats : Exists(d) => cs[d].state # "absent"
    PROVE  MessagesStay /\ ChatsStay
<1>1. m \in Messages /\ messages[m].state = "absent"
  BY DEF FirstUnused
<1>2. chats'[c].state # "absent"
  BY DEF Accept, ChatRow
<1>3. \A d \in Chats \ {c} : chats'[d] = cs[d]
  BY DEF Accept
<1>4. MessagesStay
  BY <1>1, <1>2 DEF Accept, MessagesStay, TypeInv, RowsOK
<1> QED
  BY <1>2, <1>3, <1>4 DEF ChatsStay

LEMMA ApiStays ==
    ASSUME TypeInv, RefInv, NEW c \in Chats, Api(c)
    PROVE  HistoryStep
<1> DEFINE s == ShellOf[c]
<1>0. chats \in [Chats -> ChatRow] /\ WithoutActive(s) \in [Chats -> ChatRow]
  BY CloseTypes DEF TypeInv, RowsOK, WithoutActive
<1>1. CASE CreateCloses(c)
  <2>1. ChatsStay
    BY <1>1, CloseStays DEF CreateCloses, ChatsStay
  <2> QED
    BY <1>1, <2>1, UnchangedStays DEF CreateCloses, HistoryStep
<1>2. CASE WakeCloses(c)
  <2>1. ChatsStay /\ MessagesStay
    BY <1>2, CloseStays, UnchangedStays DEF WakeCloses
  <2> QED
    BY <1>2, <2>1, UnchangedStays DEF WakeCloses, HistoryStep
<1>3. CASE CreateRegisters(c)
  <2>1. ChatsStay
    BY <1>0, <1>3 DEF CreateRegisters, ChatsStay, Exists, ChatRow
  <2> QED
    BY <1>3, <2>1, UnchangedStays DEF CreateRegisters, HistoryStep
<1>4. CASE CreateLoses(c)
  BY <1>4, UnchangedStays DEF CreateLoses, rows, HistoryStep
<1>5. CASE Send(c)
  <2>1. PICK m \in FirstUnused(Messages, messages) : Accept(c, m, chats)
    BY <1>5 DEF Send
  <2>2. MessagesStay /\ ChatsStay
    BY <1>0, <2>1, AcceptStays DEF Exists
  <2> QED
    BY <1>5, <2>2, UnchangedStays DEF Send, HistoryStep
<1>6. CASE SendReopens(c)
  <2> DEFINE cs == [WithoutActive(s) EXCEPT
                      ![c] = [state |-> "idle", closing |-> FALSE]]
  <2>1. PICK m \in FirstUnused(Messages, messages) : Accept(c, m, cs)
    BY <1>6 DEF SendReopens
  <2>2. cs \in [Chats -> ChatRow]
    BY <1>0, ChatUpdate DEF ChatRow, ChatStates, CONVERSATION_TRANSITIONS
  <2>3. \A d \in Chats : Exists(d) => cs[d].state # "absent"
    BY <1>0, CloseStays
  <2>4. MessagesStay /\ ChatsStay
    BY <2>1, <2>2, <2>3, AcceptStays
  <2> QED
    BY <1>6, <2>4, UnchangedStays DEF SendReopens, HistoryStep
<1>7. CASE Stop(c)
  BY <1>7, InterruptStays, UnchangedStays DEF Stop, HistoryStep
<1>8. CASE Close(c)
  BY <1>8, CloseStays, UnchangedStays DEF Close, HistoryStep
<1>9. CASE CloseInactive(c)
  <2>1. ChatsStay /\ MessagesStay
    BY <1>9, CloseStays, UnchangedStays DEF CloseInactive
  <2> QED
    BY <1>9, <2>1, UnchangedStays DEF CloseInactive, HistoryStep
<1> QED
  BY <1>1, <1>2, <1>3, <1>4, <1>5, <1>6, <1>7, <1>8, <1>9 DEF Api

LEMMA ReaperFinishStays ==
    ASSUME TypeInv, RefInv, NEW r \in Runs, NEW exited \in BOOLEAN,
           ReaperFinish(r, exited)
    PROVE  RunsSettle /\ MessagesStay /\ ChatsStay
<1> DEFINE final == IF Live(r) THEN "cancelled" ELSE runs[r].state
           row   == [Settled(r, final, exited) EXCEPT !.rung = "ended"]
<1>1. runs' = [runs EXCEPT ![r] = row]
  BY DEF ReaperFinish
<1>2. row.state = final /\ row.msg = runs[r].msg
  BY DEF Settled, NoRun
<1>3. RunsSettle
  <2> HIDE DEF row
  <2> QED
    BY <1>1, <1>2 DEF RunsSettle, TypeInv, RowsOK, TERMINAL_RUN_STATES
<1>4. MessagesStay
  <2>1. Live(r) => messages[runs[r].msg].state # "absent"
    BY DEF RefInv, Live, LIVE_RUN_STATES
  <2> QED
    BY <2>1 DEF ReaperFinish, MessagesStay, TypeInv, RowsOK, MessageRow
<1>5. ChatsStay
  BY DEF ReaperFinish, ChatsStay, Exists, TypeInv, RowsOK, ChatRow
<1> QED
  BY <1>3, <1>4, <1>5

LEMMA SweepStays ==
    ASSUME TypeInv, RefInv, NEW r \in Runs, Sweep(r)
    PROVE  HistoryStep
<1>1. CASE SweepGone(r)
  BY <1>1, ReaperFinishStays, UnchangedStays DEF SweepGone, HistoryStep
<1>2. CASE SweepInterrupt(r)
  BY <1>2, InterruptStays, UnchangedStays DEF SweepInterrupt, HistoryStep
<1>3. CASE SweepSignals(r)
  <2>1. RunsSettle
    BY <1>3, FieldStays DEF SweepSignals
  <2> QED
    BY <1>3, <2>1, UnchangedStays DEF SweepSignals, HistoryStep
<1>4. CASE SweepKilled(r)
  BY <1>4, ReaperFinishStays, UnchangedStays DEF SweepKilled, HistoryStep
<1> QED
  BY <1>1, <1>2, <1>3, <1>4 DEF Sweep

LEMMA StepStays ==
    ASSUME TypeInv, RefInv, [Next]_vars
    PROVE  HistoryStep
<1>1. CASE UNCHANGED vars
  BY <1>1, UnchangedStays DEF vars, HistoryStep
<1>2. ASSUME NEW w \in Runs, Report(w)
      PROVE  HistoryStep
  <2>1. WorkersStay
    BY <1>2 DEF Report, StreamTerminal, WorkersStay, Active, TypeInv,
                WorkersOK, WorkerRow
  <2> QED
    BY <1>2, <2>1, UnchangedStays
       DEF Report, StreamTerminal, rows, HistoryStep
<1>3. CASE \E p \in Procs : Terminate(p) \/ ProcessExits(p)
  BY <1>3, UnchangedStays DEF Terminate, ProcessExits, rows, HistoryStep
<1>4. CASE Crash
  <2>1. WorkersStay
    BY <1>4 DEF Crash, NoWorker, WorkersStay
  <2> QED
    BY <1>4, <2>1, UnchangedStays DEF Crash, rows, HistoryStep
<1>5. CASE Restart
  BY <1>5, UnchangedStays DEF Restart, rows, HistoryStep
<1> QED
  BY <1>1, <1>2, <1>3, <1>4, <1>5, WorkStays, DispatchStays, RecoveryStays,
     SweepStays, ApiStays DEF Next

-----------------------------------------------------------------------------

LEMMA RefInit == Init => RefInv
  BY DEF Init, RefInv, NoRun, NoWorker, Active

LEMMA RefStep ==
    ASSUME TypeInv, RefInv, HistoryStep, TypeInv'
    PROVE  RefInv'
<1>1. \A m \in Messages : messages[m].state # "absent" =>
         messages'[m].state # "absent"
  BY DEF HistoryStep, MessagesStay
<1>2. ASSUME NEW r \in Runs, runs'[r].state # "absent"
      PROVE  runs'[r].msg \in Messages /\ messages'[runs'[r].msg].state # "absent"
  <2>1. CASE RunsSettle
    BY <1>1, <1>2, <2>1 DEF RunsSettle, RefInv, Live, LIVE_RUN_STATES
  <2>2. CASE RunAppears
    BY <1>1, <1>2, <2>2 DEF RunAppears, RefInv
  <2> QED
    BY <2>1, <2>2 DEF HistoryStep
<1>3. ASSUME NEW m \in Messages
      PROVE  /\ messages'[m].state # "absent" =>
                  /\ messages'[m].chat \in Chats
                  /\ chats'[messages'[m].chat].state # "absent"
             /\ messages'[m].outbox = "pending" => messages'[m].state # "absent"
  BY DEF HistoryStep, MessagesStay, ChatsStay, RefInv, Exists
<1>4. ASSUME NEW w \in Runs, workers'[w].pc # "off"
      PROVE  runs'[workers'[w].cur].state # "absent"
  <2>1. \A r \in Runs : runs[r].state # "absent" => runs'[r].state # "absent"
    BY DEF HistoryStep, RunsSettle, RunAppears, LIVE_RUN_STATES,
           TERMINAL_RUN_STATES
  <2> QED
    BY <1>4, <2>1 DEF HistoryStep, WorkersStay, RefInv, TypeInv, WorkersOK
<1> QED
  BY <1>2, <1>3, <1>4 DEF RefInv, Exists, Active

LEMMA RefHolds == Spec => [](TypeInv /\ RefInv)
<1>1. TypeInv /\ RefInv /\ [Next]_vars => (TypeInv /\ RefInv)'
  BY StepTypes, StepStays, RefStep
<1> QED
  BY <1>1, InitTypes, RefInit, PTL DEF Spec

\* A finished run keeps its outcome, however many workers, recoveries and
\* sweeps come late.
THEOREM OutcomesStand == Spec => OutcomeStands
<1>1. ASSUME TypeInv, RefInv, [Next]_vars
      PROVE  \A r \in Runs : Finished(r) => runs'[r].state = runs[r].state
  <2>1. HistoryStep
    BY <1>1, StepStays
  <2> QED
    BY <2>1 DEF HistoryStep, RunsSettle, RunAppears, Finished, Live,
                LIVE_RUN_STATES, TERMINAL_RUN_STATES
<1>2. TypeInv /\ RefInv /\ [Next]_vars =>
        [\A r \in Runs : Finished(r) => runs'[r].state = runs[r].state]_vars
  BY <1>1
<1> QED
  BY <1>2, RefHolds, PTL DEF Spec, OutcomeStands

\* OneLiveRun without counting: live runs on one shell are the same run.
LiveRunsAgree ==
    \A r, q \in Runs :
        Live(r) /\ Live(q) /\ ShellOfRun(r) = ShellOfRun(q) => r = q

LEMMA LiveRunsStep ==
    ASSUME TypeInv, RefInv, HistoryStep, LiveRunsAgree
    PROVE  LiveRunsAgree'
<1>1. \A r \in Runs : runs[r].state # "absent" =>
         /\ runs'[r].msg = runs[r].msg
         /\ ShellOfRun(r)' = ShellOfRun(r)
  <2>1. \A r \in Runs : runs[r].state # "absent" => runs'[r].msg = runs[r].msg
    BY DEF HistoryStep, RunsSettle, RunAppears
  <2> QED
    BY <2>1 DEF HistoryStep, MessagesStay, RefInv, ShellOfRun, ChatOfRun
<1>2. CASE RunsSettle
  <2>1. \A r \in Runs : Live(r)' => Live(r) /\ runs[r].state # "absent"
    BY <1>2 DEF RunsSettle, Live, LIVE_RUN_STATES
  <2> QED
    BY <1>1, <2>1 DEF LiveRunsAgree
<1>3. CASE RunAppears
  <2>1. PICK new \in Runs, m \in Messages :
          /\ runs[new].state = "absent"
          /\ \A r \in Runs \ {new} : runs'[r] = runs[r]
          /\ runs'[new].msg = m
          /\ messages[m].state # "absent"
          /\ LiveRunsOn(ShellOf[messages[m].chat]) = {}
    BY <1>3 DEF RunAppears
  <2>2. ShellOfRun(new)' = ShellOf[messages[m].chat]
    BY <2>1 DEF HistoryStep, MessagesStay, ShellOfRun, ChatOfRun
  <2>3. \A r \in Runs \ {new} : Live(r)' =>
          /\ Live(r) /\ runs[r].state # "absent"
          /\ ShellOfRun(r)' # ShellOfRun(new)'
    BY <1>1, <2>1, <2>2 DEF Live, LIVE_RUN_STATES, LiveRunsOn
  <2> QED
    BY <1>1, <2>3 DEF LiveRunsAgree
<1> QED
  BY <1>2, <1>3 DEF HistoryStep

\* A set whose members are all equal has at most one.
LEMMA AtMostOneMember ==
    ASSUME NEW S, \A x, y \in S : x = y
    PROVE  Cardinality(S) <= 1
<1>1. CASE S = {}
  BY <1>1, FS_EmptySet
<1>2. CASE S # {}
  <2>1. PICK x \in S : TRUE
    BY <1>2
  <2>2. S = {x}
    BY <2>1
  <2> QED
    BY <2>2, FS_Singleton
<1> QED
  BY <1>1, <1>2

\* A shell never has two live runs: the claim and the continuation look for
\* one, and a run keeps its message and so its shell.
THEOREM OneLiveRunHolds == Spec => []OneLiveRun
<1>1. LiveRunsAgree => OneLiveRun
  BY AtMostOneMember DEF LiveRunsAgree, OneLiveRun, LiveRunsOn
<1>2. Init => LiveRunsAgree
  BY DEF Init, LiveRunsAgree, Live, NoRun, LIVE_RUN_STATES
<1>3. TypeInv /\ RefInv /\ LiveRunsAgree /\ [Next]_vars => LiveRunsAgree'
  BY StepStays, LiveRunsStep
<1> QED
  BY <1>1, <1>2, <1>3, RefHolds, PTL DEF Spec

=============================================================================
