------------------------- MODULE TurnContractProofs -------------------------
(***************************************************************************)
(* The runtime implements TurnContract: whatever rows, threads, processes  *)
(* and recoveries do, message rows move as the contract says.  Then: the   *)
(* state of a chat is honest, which steps may lose a wake, and which may   *)
(* leave a run live without its worker.                                    *)
(***************************************************************************)
EXTENDS ActiveChatProofs, SubmissionProofs

\* A message waits exactly while its intent is pending.
QueueInv ==
    \A m \in Messages :
        /\ messages[m].state = "queued" <=> messages[m].outbox = "pending"
        /\ messages[m].state = "absent" => messages[m].chat = NoChat

\* A recorded close has closed its chat and cancelled what was pending.
ClosingInv ==
    \A c \in Chats : chats[c].closing =>
        chats[c].state = "closed" /\ PendingOf(c) = {}

ContractInv == QueueInv /\ ClosingInv /\ NoOrphanMessage

\* What the invariants proved elsewhere contribute.
KnownInv == TypeInv /\ RefInv /\ SubmitInv /\ OpenInv

-----------------------------------------------------------------------------
(* The ways a step may write the message rows.                             *)

Accepts ==
    \E m \in Messages, c \in Chats :
        /\ messages[m].state = "absent"
        /\ messages' = [messages EXCEPT ![m] =
                          [state |-> "queued", chat |-> c,
                           outbox |-> "pending"]]

Starts ==
    \E m \in Claimable :
        messages' = [messages EXCEPT ![m].state = "running",
                                     ![m].outbox = "dispatched"]

Settles ==
    \E m \in Messages, o \in TERMINAL_MESSAGE_STATES :
        /\ messages[m].state = "running"
        /\ messages' = [messages EXCEPT ![m].state = o]

\* Only the transaction that closes a chat cancels its queue.
Cancels ==
    \E c \in Chats : CancelPending(c) /\ chats'[c].state = "closed"

MessageStep == UNCHANGED messages \/ Accepts \/ Starts \/ Settles \/ Cancels

\* A live run keeps its message and lives on, unless the message is settled;
\* a message that starts has a live run.
RunsServe ==
    /\ \A r \in Runs : Live(r) =>
          /\ runs'[r].msg = runs[r].msg
          /\ Live(r)' \/ messages'[runs[r].msg].state # "running"
    /\ \A m \in Messages :
          messages'[m].state = "running" /\ messages[m].state # "running" =>
             \E r \in Runs : Live(r)' /\ runs'[r].msg = m

Serves == MessageStep /\ RunsServe /\ ClosingInv'

-----------------------------------------------------------------------------
(* Steps that leave the messages alone.                                    *)

\* No live run ends.
RunsKeep == \A r \in Runs : Live(r) => Live(r)' /\ runs'[r].msg = runs[r].msg

\* No chat acquires a recorded close, and one that has it stays closed.
ChatsKeep ==
    \A c \in Chats : chats'[c].closing =>
        chats[c].closing /\ chats'[c].state = "closed"

LEMMA StillServes ==
    ASSUME ContractInv, UNCHANGED messages, RunsKeep, ChatsKeep
    PROVE  Serves
<1>1. MessageStep
  BY DEF MessageStep
<1>2. RunsServe
  BY DEF RunsKeep, RunsServe
<1>3. ClosingInv'
  <2>1. \A c \in Chats : PendingOf(c)' = PendingOf(c)
    BY DEF PendingOf
  <2> QED
    BY <2>1 DEF ChatsKeep, ContractInv, ClosingInv
<1> QED
  BY <1>1, <1>2, <1>3 DEF Serves

LEMMA UnchangedKeeps ==
    ASSUME ContractInv
    PROVE  /\ UNCHANGED runs => RunsKeep
           /\ UNCHANGED chats => ChatsKeep
  BY DEF RunsKeep, ChatsKeep, Live, ContractInv, ClosingInv

\* One field of one run, other than its message and its state.
LEMMA FieldKeeps ==
    ASSUME TypeInv, NEW r
    PROVE  /\ \A b : runs' = [runs EXCEPT ![r].expired = b] => RunsKeep
           /\ \A b : runs' = [runs EXCEPT ![r].archived = b] => RunsKeep
           /\ \A b : runs' = [runs EXCEPT ![r].intent = b] => RunsKeep
           /\ \A g : runs' = [runs EXCEPT ![r].rung = g] => RunsKeep
<1>1. \A b : runs' = [runs EXCEPT ![r].expired = b] => RunsKeep
  BY DEF RunsKeep, Live, TypeInv, RowsOK, RunRow
<1>2. \A b : runs' = [runs EXCEPT ![r].archived = b] => RunsKeep
  BY DEF RunsKeep, Live, TypeInv, RowsOK, RunRow
<1>3. \A b : runs' = [runs EXCEPT ![r].intent = b] => RunsKeep
  BY DEF RunsKeep, Live, TypeInv, RowsOK, RunRow
<1>4. \A g : runs' = [runs EXCEPT ![r].rung = g] => RunsKeep
  BY DEF RunsKeep, Live, TypeInv, RowsOK, RunRow
<1> QED
  BY <1>1, <1>2, <1>3, <1>4

-----------------------------------------------------------------------------
(* A terminal commit settles the one message of its run.                   *)

\* The message of a live run is started or settled, never still waiting.
LEMMA LiveMessage ==
    ASSUME KnownInv, NEW r \in Runs, Live(r)
    PROVE  /\ runs[r].msg \in Messages /\ ChatOfRun(r) \in Chats
           /\ \/ messages[runs[r].msg].state = "running"
              \/ messages[runs[r].msg].state \in TERMINAL_MESSAGE_STATES
<1>1. runs[r].msg \in Messages /\ ChatOfRun(r) \in Chats
  BY DEF KnownInv, RefInv, Live, LIVE_RUN_STATES, ChatOfRun
<1>2. messages[runs[r].msg].state \notin Untaken
  BY <1>1 DEF KnownInv, SubmitInv, UntakenIsFresh
<1> QED
  BY <1>1, <1>2 DEF Untaken, TERMINAL_MESSAGE_STATES, KnownInv, TypeInv,
     RowsOK, MessageRow, MessageStates

LEMMA SettlingServes ==
    ASSUME KnownInv, ContractInv, NEW r \in Runs, Live(r), ChatsKeep,
           NEW o \in TERMINAL_MESSAGE_STATES,
           \A q \in Runs \ {r} : runs'[q] = runs[q],
           runs'[r].msg = runs[r].msg,
           messages' = IF messages[runs[r].msg].state
                            \notin TERMINAL_MESSAGE_STATES
                       THEN [messages EXCEPT ![runs[r].msg].state = o]
                       ELSE messages
    PROVE  Serves
<1> DEFINE m == runs[r].msg
<1>1. /\ m \in Messages
      /\ \/ messages[m].state = "running"
         \/ messages[m].state \in TERMINAL_MESSAGE_STATES
  BY LiveMessage
<1>2. MessageStep
  BY <1>1 DEF MessageStep, Settles
<1>3. /\ messages'[m].state # "running"
      /\ \A k \in Messages \ {m} : messages'[k] = messages[k]
      /\ \A k \in Messages : messages'[k].outbox = messages[k].outbox
                             /\ messages'[k].chat = messages[k].chat
  BY <1>1 DEF KnownInv, TypeInv, RowsOK, MessageRow, TERMINAL_MESSAGE_STATES
<1>4. RunsServe
  BY <1>1, <1>3 DEF RunsServe, Live
<1>5. ClosingInv'
  <2>1. \A c \in Chats : PendingOf(c)' = PendingOf(c)
    BY <1>3 DEF PendingOf
  <2> QED
    BY <2>1 DEF ChatsKeep, ContractInv, ClosingInv
<1> QED
  BY <1>2, <1>4, <1>5 DEF Serves

LEMMA FinishServes ==
    ASSUME KnownInv, ContractInv, NEW r \in Runs,
           NEW outcome \in TERMINAL_RUN_STATES,
           NEW keep \in BOOLEAN, NEW exited \in BOOLEAN,
           TryFinish(r, outcome, keep, exited)
    PROVE  Serves
<1>1. CASE UNCHANGED rows
  BY <1>1, UnchangedKeeps, StillServes DEF rows
<1>2. CASE Live(r) /\ FinishRun(r, outcome, keep, exited)
  <2> DEFINE c == ChatOfRun(r)
             m == runs[r].msg
             o == MessageOutcome[outcome]
  <2>1. m \in Messages /\ c \in Chats
    BY <1>2, LiveMessage
  <2>2. o \in TERMINAL_MESSAGE_STATES
    BY DEF MessageOutcome, TERMINAL_RUN_STATES, TERMINAL_MESSAGE_STATES
  <2>3. CancelledByFinish(r) = {}
    BY <2>1 DEF CancelledByFinish, ContractInv, ClosingInv
  <2>4. messages' = IF messages[m].state \notin TERMINAL_MESSAGE_STATES
                    THEN [messages EXCEPT ![m].state = o]
                    ELSE messages
    <3>1. messages' = [k \in Messages |->
             IF k = m /\ messages[k].state \notin TERMINAL_MESSAGE_STATES
             THEN [messages[k] EXCEPT !.state = o]
             ELSE messages[k]]
      BY <1>2, <2>3 DEF FinishRun
    <3>2. CASE messages[m].state \in TERMINAL_MESSAGE_STATES
      BY <3>1, <3>2 DEF KnownInv, TypeInv, RowsOK
    <3>3. CASE messages[m].state \notin TERMINAL_MESSAGE_STATES
      BY <2>1, <3>1, <3>3 DEF KnownInv, TypeInv, RowsOK
    <3> QED
      BY <3>2, <3>3
  <2>5. /\ \A q \in Runs \ {r} : runs'[q] = runs[q]
        /\ runs'[r].msg = m
    <3>1. runs' = [runs EXCEPT ![r] = Settled(r, outcome, exited)]
      BY <1>2 DEF FinishRun
    <3>2. Settled(r, outcome, exited).msg = m
      BY DEF Settled, NoRun
    <3> QED
      BY <3>1, <3>2 DEF KnownInv, TypeInv, RowsOK
  <2>6. ChatsKeep
    <3>1. CASE chats[c].state = "closed"
      BY <1>2, <3>1, UnchangedKeeps DEF FinishRun
    <3>2. CASE chats[c].state # "closed"
      <4>1. ~chats[c].closing
        BY <2>1, <3>2 DEF ContractInv, ClosingInv
      <4>2. chats' = [chats EXCEPT ![c].state = FinishedChatState(r, outcome)]
        BY <1>2, <3>2, <4>1 DEF FinishRun
      <4> QED
        BY <2>1, <4>1, <4>2 DEF ChatsKeep, ContractInv, ClosingInv, KnownInv,
                            TypeInv, RowsOK, ChatRow
    <3> QED
      BY <3>1, <3>2
  <2> QED
    BY <1>2, <2>2, <2>4, <2>5, <2>6, SettlingServes
<1> QED
  BY <1>1, <1>2 DEF TryFinish

LEMMA ReaperFinishServes ==
    ASSUME KnownInv, ContractInv, NEW r \in Runs, NEW exited \in BOOLEAN,
           ReaperFinish(r, exited)
    PROVE  Serves
<1> DEFINE final == IF Live(r) THEN "cancelled" ELSE runs[r].state
           row   == [Settled(r, final, exited) EXCEPT !.rung = "ended"]
           c     == ChatOfRun(r)
<1>1. /\ runs' = [runs EXCEPT ![r] = row]
      /\ row.state = final /\ row.msg = runs[r].msg
  BY DEF ReaperFinish, Settled, NoRun
<1>2. /\ \A q \in Runs \ {r} : runs'[q] = runs[q]
      /\ runs'[r].msg = runs[r].msg
      /\ runs'[r].state = final
  <2> HIDE DEF row
  <2> QED
    BY <1>1 DEF KnownInv, TypeInv, RowsOK
<1>3. ChatsKeep
  <2>1. CASE Live(r) /\ chats[c].state = "running"
    <3>1. c \in Chats /\ ~chats[c].closing
      BY <2>1, LiveMessage DEF ContractInv, ClosingInv
    <3>2. \E s : chats' = [chats EXCEPT ![c].state = s]
      BY <2>1 DEF ReaperFinish
    <3> QED
      BY <3>1, <3>2 DEF ChatsKeep, ContractInv, ClosingInv, KnownInv,
                        TypeInv, RowsOK, ChatRow
  <2>2. CASE ~(Live(r) /\ chats[c].state = "running")
    BY <2>2, UnchangedKeeps DEF ReaperFinish
  <2> QED
    BY <2>1, <2>2
<1>4. CASE Live(r)
  <2>1. messages' = IF messages[runs[r].msg].state
                         \notin TERMINAL_MESSAGE_STATES
                    THEN [messages EXCEPT ![runs[r].msg].state = "cancelled"]
                    ELSE messages
    BY <1>4 DEF ReaperFinish
  <2> QED
    BY <1>2, <1>3, <1>4, <2>1, SettlingServes DEF TERMINAL_MESSAGE_STATES
<1>5. CASE ~Live(r)
  <2>1. UNCHANGED messages /\ RunsKeep
    BY <1>2, <1>5 DEF ReaperFinish, RunsKeep, Live
  <2> QED
    BY <1>3, <2>1, StillServes
<1> QED
  BY <1>4, <1>5

-----------------------------------------------------------------------------
(* One actor at a time. *)

LEMMA FinishAndStopServes ==
    ASSUME KnownInv, ContractInv, NEW w \in Runs, Active(w),
           NEW outcome \in TERMINAL_RUN_STATES,
           NEW keep \in BOOLEAN, NEW exited \in BOOLEAN,
           FinishAndStop(w, outcome, keep, exited)
    PROVE  Serves
<1>1. workers[w].cur \in Runs
  BY WorkerTypes DEF KnownInv
<1> QED
  BY <1>1, FinishServes DEF FinishAndStop

LEMMA WorkServes ==
    ASSUME KnownInv, ContractInv, NEW w \in Runs, Work(w)
    PROVE  Serves
<1>0. Active(w) /\ {"failed", "unknown"} \subseteq TERMINAL_RUN_STATES
  BY DEF Work, At, Active, Prepare, PrepareRebound, PrepareRefused, Defer,
         MarkStarting, Spawn, SpawnFails, MarkNativeStarted,
         NativeStartRollsBack, StreamRefused, LingerFinish, StreamEnds,
         StreamBreaks, OpenContinuation, ContinuationRefused, LingerEnds,
         Reconcile, RecoverLost, Streaming, TERMINAL_RUN_STATES
<1>1. CASE Prepare(w)
  BY <1>1, FieldKeeps, UnchangedKeeps, StillServes DEF Prepare, KnownInv
<1>2. CASE PrepareRebound(w)
  BY <1>0, <1>2, FinishAndStopServes DEF PrepareRebound
<1>3. CASE PrepareRefused(w)
  BY <1>0, <1>3, FinishAndStopServes DEF PrepareRefused
<1>4. CASE Defer(w)
  BY <1>4, FieldKeeps, UnchangedKeeps, StillServes DEF Defer, KnownInv
<1>5. CASE MarkStarting(w)
  <2>1. CASE runs[w].state = "leased"
    <3>1. /\ runs' = [runs EXCEPT ![w].state = "starting",
                                  ![w].expired = FALSE]
          /\ UNCHANGED <<chats, messages>>
      BY <1>5, <2>1 DEF MarkStarting
    <3>2. RunsKeep
      BY <3>1 DEF RunsKeep, Live, LIVE_RUN_STATES, KnownInv, TypeInv, RowsOK,
                  RunRow
    <3> QED
      BY <3>1, <3>2, UnchangedKeeps, StillServes
  <2>2. CASE runs[w].state # "leased"
    BY <1>0, <1>5, <2>2, FinishAndStopServes DEF MarkStarting
  <2> QED
    BY <2>1, <2>2
<1>6. CASE Spawn(w)
  BY <1>6, UnchangedKeeps, StillServes DEF Spawn, rows
<1>7. CASE SpawnFails(w)
  BY <1>0, <1>7, FinishServes DEF SpawnFails
<1>8. CASE MarkNativeStarted(w)
  <2>1. /\ runs' = [runs EXCEPT ![w].state = "running", ![w].expired = FALSE,
                                ![w].pid = workers[w].proc]
        /\ UNCHANGED <<chats, messages>>
    BY <1>8 DEF MarkNativeStarted
  <2>2. RunsKeep
    BY <2>1 DEF RunsKeep, Live, LIVE_RUN_STATES, KnownInv, TypeInv, RowsOK,
                RunRow
  <2> QED
    BY <2>1, <2>2, UnchangedKeeps, StillServes
<1>9. CASE NativeStartRollsBack(w)
  BY <1>0, <1>9, FinishAndStopServes DEF NativeStartRollsBack
<1>10. CASE StreamRefused(w)
  BY <1>0, <1>10, FinishAndStopServes DEF StreamRefused
<1>11. CASE LingerFinish(w)
  <2>1. /\ AdapterOutcome(w) \in TERMINAL_RUN_STATES
        /\ workers[w].cur \in Runs
    BY <1>0, <1>11, OutcomeTypes, WorkerTypes DEF LingerFinish, KnownInv
  <2> QED
    BY <1>11, <2>1, FinishServes DEF LingerFinish
<1>12. CASE StreamEnds(w)
  BY <1>0, <1>12, FinishAndStopServes, OutcomeTypes DEF StreamEnds, KnownInv
<1>13. CASE StreamBreaks(w)
  <2>1. CASE UNCHANGED <<rows, InMemory>>
    BY <2>1, UnchangedKeeps, StillServes DEF rows
  <2>2. CASE FinishAndStop(w, "unknown", FALSE, FALSE)
    BY <1>0, <2>2, FinishAndStopServes
  <2>3. CASE /\ workers[w].terminal # "none"
             /\ FinishAndStop(w, AdapterOutcome(w), FALSE, FALSE)
    BY <1>0, <2>3, FinishAndStopServes, OutcomeTypes DEF KnownInv
  <2> QED
    BY <1>13, <2>1, <2>2, <2>3 DEF StreamBreaks
<1>14. CASE OpenContinuation(w)
  <2> DEFINE c == ChatOfRun(workers[w].cur)
  <2>1. PICK r \in FirstUnused(Runs, runs) :
          \E row : runs' = [runs EXCEPT ![r] = row]
    BY <1>14 DEF OpenContinuation
  <2>2. RunsKeep
    BY <2>1 DEF RunsKeep, FirstUnused, Live, LIVE_RUN_STATES, KnownInv,
                TypeInv, RowsOK
  <2>3. /\ chats' = [chats EXCEPT ![c].state = "running"]
        /\ chats[c].state # "closed"
    BY <1>14 DEF OpenContinuation, MayContinue
  <2>4. ChatsKeep
    BY <2>3 DEF ChatsKeep, ContractInv, ClosingInv, KnownInv, TypeInv,
                RowsOK, ChatRow
  <2> QED
    BY <1>14, <2>2, <2>4, StillServes DEF OpenContinuation
<1>15. CASE ContinuationRefused(w)
  BY <1>15, UnchangedKeeps, StillServes DEF ContinuationRefused, rows
<1>16. CASE LingerEnds(w)
  <2>1. RunsKeep
    BY <1>16 DEF LingerEnds, ReleaseProcessLink, RunsKeep, Live, KnownInv,
                 TypeInv, RowsOK, RunRow
  <2> QED
    BY <1>16, <2>1, UnchangedKeeps, StillServes DEF LingerEnds
<1>17. CASE \E o \in TERMINAL_RUN_STATES : Reconcile(w, o)
  BY <1>0, <1>17, FinishAndStopServes DEF Reconcile
<1>18. CASE RecoverLost(w)
  BY <1>0, <1>18, FinishAndStopServes DEF RecoverLost
<1> QED
  BY <1>1, <1>2, <1>3, <1>4, <1>5, <1>6, <1>7, <1>8, <1>9, <1>10, <1>11,
     <1>12, <1>13, <1>14, <1>15, <1>16, <1>17, <1>18 DEF Work

LEMMA ClaimServes ==
    ASSUME KnownInv, ContractInv, ClaimNext
    PROVE  Serves
<1> DEFINE row(m) == [NoRun EXCEPT !.state = "leased", !.msg = m]
<1>1. PICK m \in Claimable, r \in FirstUnused(Runs, runs) :
        /\ messages' = [messages EXCEPT ![m].state = "running",
                                        ![m].outbox = "dispatched"]
        /\ runs' = [runs EXCEPT ![r] = row(m)]
        /\ chats' = [chats EXCEPT ![messages[m].chat].state = "running"]
  BY DEF ClaimNext
<1>2. /\ m \in Messages /\ r \in Runs /\ runs[r].state = "absent"
      /\ ~chats[messages[m].chat].closing
  BY DEF Claimable, FirstUnused
<1>3. row(m).state = "leased" /\ row(m).msg = m
  BY DEF NoRun
<1>4. runs'[r] = row(m) /\ \A q \in Runs \ {r} : runs'[q] = runs[q]
  BY <1>1, <1>2 DEF KnownInv, TypeInv, RowsOK
<1> HIDE DEF row
<1>5. RunsServe
  <2>1. \A k \in Messages \ {m} : messages'[k] = messages[k]
    BY <1>1 DEF KnownInv, TypeInv, RowsOK
  <2>2. Live(r)' /\ runs'[r].msg = m
    BY <1>3, <1>4 DEF Live, LIVE_RUN_STATES
  <2>3. \A q \in Runs : Live(q) => runs'[q] = runs[q]
    BY <1>2, <1>4 DEF Live, LIVE_RUN_STATES
  <2> QED
    BY <1>2, <2>1, <2>2, <2>3 DEF RunsServe, Live
<1>6. ClosingInv'
  <2>1. \A c \in Chats : PendingOf(c)' \subseteq PendingOf(c)
    BY <1>1 DEF PendingOf, KnownInv, TypeInv, RowsOK, MessageRow
  <2>2. \A c \in Chats : chats'[c].closing =>
           chats[c].closing /\ chats'[c].state = "closed"
    BY <1>1, <1>2 DEF ContractInv, ClosingInv, KnownInv, TypeInv, RowsOK,
                      ChatRow
  <2> QED
    BY <2>1, <2>2 DEF ContractInv, ClosingInv
<1> QED
  BY <1>1, <1>5, <1>6 DEF Serves, MessageStep, Starts

LEMMA RecoveryServes ==
    ASSUME KnownInv, ContractInv, NEW r \in Runs, LeaseExpires(r) \/ Adopt(r)
    PROVE  Serves
  BY FieldKeeps, UnchangedKeeps, StillServes DEF LeaseExpires, Adopt, KnownInv

\* An interrupt is a mark on a run that was already there.
LEMMA MarkedRuns ==
    ASSUME TypeInv, NEW r,
           \/ runs' = WithIntent(r, runs)
           \/ \E q, g : runs' = WithIntent(r, [runs EXCEPT ![q].rung = g])
    PROVE  \A n \in Runs : /\ runs'[n].msg = runs[n].msg
                           /\ runs'[n].state = runs[n].state
<1>1. PICK rs : /\ rs = runs \/ \E q, g : rs = [runs EXCEPT ![q].rung = g]
                /\ runs' = WithIntent(r, rs)
  OBVIOUS
<1>2. PICK k : runs' = rs \/ runs' = [rs EXCEPT ![k].intent = TRUE]
  BY <1>1 DEF WithIntent
<1>3. /\ DOMAIN rs = Runs
      /\ \A n \in Runs : /\ rs[n].msg = runs[n].msg
                         /\ rs[n].state = runs[n].state
                         /\ {"msg", "state"} \subseteq DOMAIN rs[n]
  BY <1>1 DEF TypeInv, RowsOK, RunRow
<1> QED
  BY <1>2, <1>3

LEMMA InterruptKeeps ==
    ASSUME TypeInv, NEW r
    PROVE  /\ runs' = WithIntent(r, runs) => RunsKeep
           /\ \A q, g : runs' = WithIntent(r, [runs EXCEPT ![q].rung = g])
                        => RunsKeep
  BY MarkedRuns DEF RunsKeep, Live

LEMMA SweepServes ==
    ASSUME KnownInv, ContractInv, NEW r \in Runs, Sweep(r)
    PROVE  Serves
<1>1. CASE SweepGone(r)
  BY <1>1, ReaperFinishServes DEF SweepGone
<1>2. CASE SweepInterrupt(r)
  BY <1>2, InterruptKeeps, UnchangedKeeps, StillServes
     DEF SweepInterrupt, KnownInv
<1>3. CASE SweepSignals(r)
  <2>1. RunsKeep
    BY <1>3, FieldKeeps DEF SweepSignals, KnownInv
  <2> QED
    BY <1>3, <2>1, UnchangedKeeps, StillServes DEF SweepSignals
<1>4. CASE SweepKilled(r)
  BY <1>4, ReaperFinishServes DEF SweepKilled
<1> QED
  BY <1>1, <1>2, <1>3, <1>4 DEF Sweep


\* Cancelling one chat's queue starts nothing and ends no run.
LEMMA CancelServes ==
    ASSUME KnownInv, ContractInv, NEW c \in Chats, CancelPending(c),
           chats'[c].state = "closed", UNCHANGED runs
    PROVE  /\ MessageStep /\ RunsServe
           /\ PendingOf(c)' = {}
           /\ \A d \in Chats : PendingOf(d)' \subseteq PendingOf(d)
           /\ ChatsKeep => ClosingInv'
<1>1. MessageStep
  BY DEF MessageStep, Cancels
<1>2. ASSUME NEW m \in Messages
      PROVE  /\ messages'[m].chat = messages[m].chat
             /\ m \in PendingOf(c) => /\ messages'[m].state = "cancelled"
                                      /\ messages'[m].outbox = "cancelled"
             /\ m \notin PendingOf(c) => messages'[m] = messages[m]
  BY DEF CancelPending, KnownInv, TypeInv, RowsOK, MessageRow
<1>3. RunsServe
  BY <1>2 DEF RunsServe, Live
<1>4. PendingOf(c)' = {}
  BY <1>2 DEF PendingOf
<1>5. \A d \in Chats : PendingOf(d)' \subseteq PendingOf(d)
  BY <1>2 DEF PendingOf
<1>6. ChatsKeep => ClosingInv'
  BY <1>5 DEF ChatsKeep, ContractInv, ClosingInv
<1> QED
  BY <1>1, <1>3, <1>4, <1>5, <1>6

\* An accepted message is new, and its chat takes messages.
LEMMA AcceptServes ==
    ASSUME KnownInv, ContractInv, NEW c \in Chats, UNCHANGED runs,
           NEW m \in FirstUnused(Messages, messages),
           NEW cs \in [Chats -> ChatRow], Accept(c, m, cs),
           ~cs[c].closing,
           \A d \in Chats : cs[d].closing =>
               chats[d].closing /\ cs[d].state = "closed"
    PROVE  Serves
<1>1. m \in Messages /\ messages[m].state = "absent"
  BY DEF FirstUnused
<1>2. MessageStep
  BY <1>1 DEF Accept, MessageStep, Accepts
<1>3. /\ messages'[m].state = "queued" /\ messages'[m].chat = c
      /\ \A k \in Messages \ {m} : messages'[k] = messages[k]
  BY <1>1 DEF Accept, KnownInv, TypeInv, RowsOK
<1>4. RunsServe
  BY <1>3 DEF RunsServe, Live
<1>5. ~chats'[c].closing /\ \A d \in Chats \ {c} : chats'[d] = cs[d]
  BY DEF Accept, ChatRow
<1>6. \A d \in Chats \ {c} : PendingOf(d)' \subseteq PendingOf(d)
  BY <1>3 DEF PendingOf
<1>7. ClosingInv'
  BY <1>5, <1>6 DEF ContractInv, ClosingInv
<1> QED
  BY <1>2, <1>4, <1>7 DEF Serves

LEMMA ApiServes ==
    ASSUME KnownInv, ContractInv, NEW c \in Chats, Api(c)
    PROVE  Serves
<1> DEFINE s == ShellOf[c]
           d == registry[s].chat
<1>0. s \in Shells /\ chats \in [Chats -> ChatRow]
      /\ (d # NoChat => d \in Chats)
  BY TablesAssumption DEF KnownInv, TypeInv, RowsOK, ActiveRow
<1>1. \A e \in Chats : \A x \in Chats : ClosedRows(chats, e, FALSE)[x].closing =>
         chats[x].closing /\ ClosedRows(chats, e, FALSE)[x].state = "closed"
  BY <1>0 DEF ClosedRows, ContractInv, ClosingInv, ChatRow
<1>2. \A e \in Chats : chats' = ClosedRows(chats, e, FALSE) => ChatsKeep
  BY <1>1 DEF ChatsKeep
<1>3. /\ WithoutActive(s) \in [Chats -> ChatRow]
      /\ \A x \in Chats : WithoutActive(s)[x].closing =>
            chats[x].closing /\ WithoutActive(s)[x].state = "closed"
  <2>1. WithoutActive(s) \in [Chats -> ChatRow]
    BY <1>0, CloseTypes DEF WithoutActive, KnownInv
  <2>2. \A x \in Chats : WithoutActive(s)[x].closing =>
           chats[x].closing /\ WithoutActive(s)[x].state = "closed"
    BY <1>0, <1>1 DEF WithoutActive, ContractInv, ClosingInv
  <2> QED
    BY <2>1, <2>2
<1>4. CASE CreateCloses(c)
  <2>1. ChatsKeep
    BY <1>3, <1>4 DEF CreateCloses, ChatsKeep
  <2> QED
    BY <1>4, <2>1, UnchangedKeeps, StillServes DEF CreateCloses
<1>5. CASE WakeCloses(c) \/ CloseInactive(c)
  <2>1. PICK e \in Chats : /\ chats' = ClosedRows(chats, e, FALSE)
                           /\ UNCHANGED messages \/ CancelPending(e)
    BY <1>0, <1>5 DEF WakeCloses, CloseInactive
  <2>2. ChatsKeep /\ UNCHANGED runs /\ chats'[e].state = "closed"
    BY <1>0, <1>2, <1>5, <2>1 DEF WakeCloses, CloseInactive, ClosedRows
  <2>3. CASE UNCHANGED messages
    BY <2>2, <2>3, UnchangedKeeps, StillServes
  <2>4. CASE CancelPending(e)
    BY <2>2, <2>4, CancelServes DEF Serves
  <2> QED
    BY <2>1, <2>3, <2>4
<1>6. CASE CreateRegisters(c)
  <2>1. ~chats[c].closing
    BY <1>6 DEF CreateRegisters, KnownInv, OpenInv, Exists, ContractInv,
                ClosingInv
  <2>2. chats' = [chats EXCEPT ![c].state = "idle"]
    BY <1>6 DEF CreateRegisters
  <2>3. ChatsKeep
    BY <1>0, <2>1, <2>2 DEF ChatsKeep, ContractInv, ClosingInv, ChatRow
  <2> QED
    BY <1>6, <2>3, UnchangedKeeps, StillServes DEF CreateRegisters
<1>7. CASE CreateLoses(c)
  BY <1>7, UnchangedKeeps, StillServes DEF CreateLoses, rows
<1>8. CASE Send(c)
  <2>1. PICK m \in FirstUnused(Messages, messages) : Accept(c, m, chats)
    BY <1>8 DEF Send
  <2>2. UNCHANGED runs /\ ~chats[c].closing
    BY <1>8 DEF Send
  <2>3. \A x \in Chats : chats[x].closing =>
           chats[x].closing /\ chats[x].state = "closed"
    BY DEF ContractInv, ClosingInv
  <2> QED
    BY <1>0, <2>1, <2>2, <2>3, AcceptServes
<1>9. CASE SendReopens(c)
  <2> DEFINE cs == [WithoutActive(s) EXCEPT
                      ![c] = [state |-> "idle", closing |-> FALSE]]
  <2>1. PICK m \in FirstUnused(Messages, messages) : Accept(c, m, cs)
    BY <1>9 DEF SendReopens
  <2>2. cs \in [Chats -> ChatRow] /\ UNCHANGED runs
    BY <1>3, <1>9, ChatUpdate
       DEF SendReopens, ChatRow, ChatStates, CONVERSATION_TRANSITIONS
  <2>3. /\ ~cs[c].closing
        /\ \A x \in Chats : cs[x].closing =>
              chats[x].closing /\ cs[x].state = "closed"
    BY <1>3
  <2> HIDE DEF cs
  <2> QED
    BY <2>1, <2>2, <2>3, AcceptServes
<1>10. CASE Stop(c)
  BY <1>10, InterruptKeeps, UnchangedKeeps, StillServes DEF Stop, KnownInv
<1>11. CASE Close(c)
  <2>1. /\ CancelPending(c) /\ UNCHANGED runs
        /\ chats' = ClosedRows(chats, c, LiveRunsOf(c) # {})
    BY <1>11 DEF Close
  <2>3. /\ chats'[c].state = "closed"
        /\ \A x \in Chats \ {c} : chats'[x] = chats[x]
    BY <1>0, <2>1 DEF ClosedRows
  <2>2. /\ MessageStep /\ RunsServe /\ PendingOf(c)' = {}
        /\ \A x \in Chats : PendingOf(x)' \subseteq PendingOf(x)
    BY <2>1, <2>3, CancelServes
  <2>4. ClosingInv'
    BY <2>2, <2>3 DEF ContractInv, ClosingInv
  <2> QED
    BY <2>2, <2>4 DEF Serves
<1> QED
  BY <1>4, <1>5, <1>6, <1>7, <1>8, <1>9, <1>10, <1>11 DEF Api

LEMMA StepServes ==
    ASSUME KnownInv, ContractInv, [Next]_vars
    PROVE  Serves
<1>1. CASE UNCHANGED <<chats, messages, runs>>
  BY <1>1, UnchangedKeeps, StillServes
<1>2. CASE (\E w \in Runs : Report(w)) \/ BeginDispatch \/ EndDispatch
           \/ (\E p \in Procs : Terminate(p) \/ ProcessExits(p))
           \/ Crash \/ Restart \/ UNCHANGED vars
  BY <1>1, <1>2
     DEF Report, StreamTerminal, BeginDispatch, EndDispatch, Terminate,
         ProcessExits, Crash, Restart, rows, vars
<1> QED
  BY <1>2, WorkServes, ClaimServes, RecoveryServes, SweepServes, ApiServes
     DEF Next, Dispatch

-----------------------------------------------------------------------------
(* The invariant and the refinement.                                       *)

LEMMA ContractInit == Init => ContractInv
  BY DEF Init, ContractInv, QueueInv, ClosingInv, NoOrphanMessage

LEMMA ContractStep ==
    ASSUME KnownInv, ContractInv, Serves
    PROVE  ContractInv'
<1>1. QueueInv'
  <2>1. CASE UNCHANGED messages
    BY <2>1 DEF ContractInv, QueueInv
  <2>2. CASE Accepts
    BY <2>2 DEF Accepts, ContractInv, QueueInv, KnownInv, TypeInv, RowsOK
  <2>3. CASE Starts
    BY <2>3 DEF Starts, Claimable, ContractInv, QueueInv, KnownInv, TypeInv,
                RowsOK, MessageRow
  <2>4. CASE Settles
    BY <2>4 DEF Settles, TERMINAL_MESSAGE_STATES, ContractInv, QueueInv,
                KnownInv, TypeInv, RowsOK, MessageRow
  <2>5. CASE Cancels
    <3>1. PICK c \in Chats : CancelPending(c)
      BY <2>5 DEF Cancels
    <3> QED
      BY <3>1 DEF CancelPending, PendingOf, ContractInv, QueueInv, KnownInv,
                  TypeInv, RowsOK, MessageRow
  <2> QED
    BY <2>1, <2>2, <2>3, <2>4, <2>5 DEF Serves, MessageStep
<1>2. NoOrphanMessage'
  BY DEF Serves, RunsServe, ContractInv, NoOrphanMessage
<1> QED
  BY <1>1, <1>2 DEF Serves, ContractInv

\* What each way of writing the message rows is in the contract.
LEMMA MessageStepRefines ==
    ASSUME KnownInv, ContractInv, MessageStep
    PROVE  \/ Contract!Next
           \/ UNCHANGED <<[m \in Messages |-> messages[m].state],
                          [m \in Messages |-> messages[m].chat]>>
<1> DEFINE turn == [m \in Messages |-> messages[m].state]
           home == [m \in Messages |-> messages[m].chat]
<1>0. messages \in [Messages -> MessageRow]
  BY DEF KnownInv, TypeInv, RowsOK
<1>1. CASE UNCHANGED messages
  BY <1>1
<1>2. CASE Accepts
  <2>1. PICK m \in Messages, c \in Chats :
          /\ messages[m].state = "absent"
          /\ messages' = [messages EXCEPT ![m] =
                            [state |-> "queued", chat |-> c,
                             outbox |-> "pending"]]
    BY <1>2 DEF Accepts
  <2>2. Contract!Accept(m, c)
    BY <1>0, <2>1 DEF Contract!Accept
  <2> QED
    BY <2>2 DEF Contract!Next
<1>3. CASE Starts
  <2>1. PICK m \in Claimable :
          messages' = [messages EXCEPT ![m].state = "running",
                                       ![m].outbox = "dispatched"]
    BY <1>3 DEF Starts
  <2>2. /\ m \in Messages /\ messages[m].state = "queued"
        /\ LiveRunsOn(ShellOf[messages[m].chat]) = {}
        /\ messages[m].chat \in Chats
    BY DEF Claimable, KnownInv, RefInv
  <2>3. ASSUME NEW k \in Messages, messages[k].chat = messages[m].chat, k < m
        PROVE  messages[k].state \in Contract!Settled
    <3>1. messages[k].state \notin {"queued", "running"}
      BY <2>3 DEF Claimable
    <3>2. messages[k].state # "absent"
      BY <2>2, <2>3, TablesAssumption DEF ContractInv, QueueInv
    <3> QED
      BY <1>0, <3>1, <3>2 DEF MessageRow, MessageStates, Contract!Settled
  <2>4. ASSUME NEW k \in Messages, messages[k].state = "running"
        PROVE  ShellOf[messages[k].chat] # ShellOf[messages[m].chat]
    <3>1. PICK r \in Runs : Live(r) /\ runs[r].msg = k
      BY <2>4 DEF ContractInv, NoOrphanMessage
    <3> QED
      BY <2>2, <3>1 DEF LiveRunsOn, ShellOfRun, ChatOfRun
  <2>5. turn' = [turn EXCEPT ![m] = "running"] /\ home' = home
    BY <1>0, <2>1, <2>2 DEF MessageRow
  <2>6. Contract!Start(m)
    BY <2>2, <2>3, <2>4, <2>5 DEF Contract!Start
  <2> QED
    BY <2>2, <2>6 DEF Contract!Next
<1>4. CASE Settles
  <2>1. PICK m \in Messages, o \in TERMINAL_MESSAGE_STATES :
          /\ messages[m].state = "running"
          /\ messages' = [messages EXCEPT ![m].state = o]
    BY <1>4 DEF Settles
  <2>2. turn' = [turn EXCEPT ![m] = o] /\ home' = home
    BY <1>0, <2>1 DEF MessageRow
  <2>3. Contract!Settle(m, o)
    BY <2>1, <2>2 DEF Contract!Settle
  <2> QED
    BY <2>3 DEF Contract!Next, Contract!Settled, TERMINAL_MESSAGE_STATES
<1>5. CASE Cancels
  <2>1. PICK c \in Chats : CancelPending(c)
    BY <1>5 DEF Cancels
  <2>2. \A m \in Messages :
          m \in PendingOf(c) <=> home[m] = c /\ turn[m] = "queued"
    BY DEF PendingOf, ContractInv, QueueInv
  <2>3. ASSUME NEW m \in Messages
        PROVE  /\ messages'[m].state = IF m \in PendingOf(c) THEN "cancelled"
                                       ELSE messages[m].state
               /\ messages'[m].chat = messages[m].chat
    BY <1>0, <2>1 DEF CancelPending, MessageRow
  <2>4. turn' = [m \in Messages |->
                   IF home[m] = c /\ turn[m] = "queued" THEN "cancelled"
                   ELSE turn[m]]
    BY <2>2, <2>3
  <2>5. home' = home
    BY <2>3
  <2>6. Contract!CancelQueued(c)
    BY <2>4, <2>5 DEF Contract!CancelQueued
  <2> QED
    BY <2>6 DEF Contract!Next
<1> QED
  BY <1>1, <1>2, <1>3, <1>4, <1>5 DEF MessageStep


LEMMA ContractHolds == Spec => [](KnownInv /\ ContractInv)
<1>1. KnownInv /\ ContractInv /\ [Next]_vars => (KnownInv /\ ContractInv)'
  <2> SUFFICES ASSUME KnownInv, ContractInv, [Next]_vars
               PROVE  (KnownInv /\ ContractInv)'
    OBVIOUS
  <2>1. TypeInv' /\ RefInv'
    BY StepTypes, StepStays, RefStep DEF KnownInv
  <2>2. SubmitInv' /\ OpenInv'
    BY <2>1, SubmitStep, OpenStep DEF KnownInv
  <2>3. ContractInv'
    BY StepServes, ContractStep
  <2> QED
    BY <2>1, <2>2, <2>3 DEF KnownInv
<1>2. Init => KnownInv /\ ContractInv
  BY InitTypes, RefInit, SubmitInit, OpenInit, ContractInit DEF KnownInv
<1> QED
  BY <1>1, <1>2, PTL DEF Spec

\* A message in progress always has a live run that will settle it, whoever
\* ends its turn.
THEOREM NoOrphanHolds == Spec => []NoOrphanMessage
<1>1. ContractInv => NoOrphanMessage
  BY DEF ContractInv
<1> QED
  BY <1>1, ContractHolds, PTL

\* A follow-up waiting behind a turn is cancelled only by the transaction that
\* closes its chat: not by a stop, not by the reaper, not by a failed turn.
THEOREM FollowUpsSurvive == Spec => FollowUpsSurviveStop
<1>1. ASSUME KnownInv, MessageStep, NEW m \in Messages,
             messages[m].state = "queued", messages'[m].state = "cancelled"
      PROVE  chats'[messages[m].chat].state = "closed"
  <2>1. CASE Accepts \/ Starts \/ Settles
    BY <1>1, <2>1 DEF Accepts, Starts, Settles, Claimable, KnownInv, TypeInv,
                      RowsOK, MessageRow
  <2>2. CASE Cancels
    <3>1. PICK c \in Chats : CancelPending(c) /\ chats'[c].state = "closed"
      BY <2>2 DEF Cancels
    <3>2. m \in PendingOf(c)
      BY <1>1, <3>1 DEF CancelPending
    <3> QED
      BY <3>1, <3>2 DEF PendingOf
  <2> QED
    BY <1>1, <2>1, <2>2 DEF MessageStep
<1>2. KnownInv /\ ContractInv /\ [Next]_vars =>
        [\A m \in Messages :
           /\ messages[m].state = "queued"
           /\ messages'[m].state = "cancelled"
           => chats'[messages[m].chat].state = "closed"]_vars
  BY <1>1, StepServes DEF Serves
<1> QED
  BY <1>2, ContractHolds, PTL DEF Spec, FollowUpsSurviveStop

\* The runtime implements the contract: message rows, read alone, are
\* accepted once, started in order and alone on their shell, and settled or
\* cancelled once.
THEOREM ContractKept == Spec => KeepsTurnContract
<1>1. Init => Contract!Init
  BY DEF Init, Contract!Init
<1>2. KnownInv /\ ContractInv /\ [Next]_vars =>
        [Contract!Next]_<<[m \in Messages |-> messages[m].state],
                          [m \in Messages |-> messages[m].chat]>>
  BY StepServes, MessageStepRefines DEF Serves
<1> QED
  BY <1>1, <1>2, ContractHolds, PTL
     DEF Spec, KeepsTurnContract, Contract!Spec

-----------------------------------------------------------------------------
(* The state of a chat tells the truth about its live runs and its queue. *)

\* ChatStateIsHonest of one chat.
Honest(c) ==
    /\ chats[c].state = "running" => LiveRunsOf(c) # {}
    /\ chats[c].state = "queued"  => PendingOf(c) # {}
    /\ chats[c].state = "idle"    => PendingOf(c) = {}
    /\ chats[c].state = "error"   => LiveRunsOf(c) = {}

HonestInv == ChatStateIsHonest /\ LiveRunsAgree

\* What the invariants proved elsewhere contribute.
ProvedInv == KnownInv /\ ContractInv

\* What a step leaves as it was, for one chat.
SameState(c) == chats'[c].state = chats[c].state
SameLive(c)  == LiveRunsOf(c)' = LiveRunsOf(c)
SameQueue(c) == PendingOf(c)' = PendingOf(c)

Untouched(c) == SameState(c) /\ SameLive(c) /\ SameQueue(c)

\* No run starts or ends.
RunsSame ==
    \A r \in Runs : /\ Live(r)' <=> Live(r)
                    /\ Live(r) => runs'[r].msg = runs[r].msg

-----------------------------------------------------------------------------

LEMMA HonestChats == ChatStateIsHonest <=> \A c \in Chats : Honest(c)
  BY DEF ChatStateIsHonest, Honest

LEMMA HonestNext == (\A c \in Chats : Honest(c)') => ChatStateIsHonest'
  BY DEF ChatStateIsHonest, Honest

\* A chat that is left alone, or closed, stays honest.
LEMMA StaysHonest ==
    ASSUME HonestInv, NEW c \in Chats,
           Untouched(c) \/ chats'[c].state = "closed"
    PROVE  Honest(c)'
  BY HonestChats DEF HonestInv, Untouched, SameState, SameLive, SameQueue,
                     Honest

\* The live runs of a chat follow from the runs and from their messages.
LEMMA LiveRunsFollow ==
    ASSUME KnownInv,
           \A m \in Messages : messages[m].state # "absent" =>
              messages'[m].chat = messages[m].chat
    PROVE  /\ \A r \in Runs : Live(r) /\ runs'[r].msg = runs[r].msg =>
                ChatOfRun(r)' = ChatOfRun(r)
           /\ RunsSame => \A c : SameLive(c)
<1>1. \A r \in Runs : Live(r) =>
         runs[r].msg \in Messages /\ messages[runs[r].msg].state # "absent"
  BY DEF KnownInv, RefInv, Live, LIVE_RUN_STATES
<1>2. \A r \in Runs : Live(r) /\ runs'[r].msg = runs[r].msg =>
         ChatOfRun(r)' = ChatOfRun(r)
  BY <1>1 DEF ChatOfRun
<1>3. RunsSame => \A c : SameLive(c)
  BY <1>2 DEF RunsSame, SameLive, LiveRunsOf
<1> QED
  BY <1>2, <1>3

\* A step that writes no message and starts or ends no run.
LEMMA QuietHonest ==
    ASSUME KnownInv, HonestInv, UNCHANGED messages, RunsSame,
           \A c \in Chats : SameState(c) \/ chats'[c].state = "closed"
    PROVE  ChatStateIsHonest'
<1>1. \A c : SameQueue(c)
  BY DEF SameQueue, PendingOf
<1>2. \A c : SameLive(c)
  BY LiveRunsFollow
<1>3. \A c \in Chats : Honest(c)'
  BY <1>1, <1>2, StaysHonest DEF Untouched
<1> QED
  BY <1>3, HonestNext

LEMMA UnchangedSame ==
    /\ UNCHANGED runs => RunsSame
    /\ UNCHANGED chats => \A c \in Chats : SameState(c)
  BY DEF RunsSame, Live, SameState

\* One field of one run, other than its message and its state.
LEMMA FieldSame ==
    ASSUME TypeInv, NEW r
    PROVE  /\ \A b : runs' = [runs EXCEPT ![r].expired = b] => RunsSame
           /\ \A b : runs' = [runs EXCEPT ![r].archived = b] => RunsSame
           /\ \A b : runs' = [runs EXCEPT ![r].intent = b] => RunsSame
           /\ \A g : runs' = [runs EXCEPT ![r].rung = g] => RunsSame
<1>1. \A b : runs' = [runs EXCEPT ![r].expired = b] => RunsSame
  BY DEF RunsSame, Live, TypeInv, RowsOK, RunRow
<1>2. \A b : runs' = [runs EXCEPT ![r].archived = b] => RunsSame
  BY DEF RunsSame, Live, TypeInv, RowsOK, RunRow
<1>3. \A b : runs' = [runs EXCEPT ![r].intent = b] => RunsSame
  BY DEF RunsSame, Live, TypeInv, RowsOK, RunRow
<1>4. \A g : runs' = [runs EXCEPT ![r].rung = g] => RunsSame
  BY DEF RunsSame, Live, TypeInv, RowsOK, RunRow
<1> QED
  BY <1>1, <1>2, <1>3, <1>4

\* The end of a live run: its chat has no other, and no queue changes.
LEMMA EndOfRun ==
    ASSUME ProvedInv, HonestInv, NEW r \in Runs, Live(r), ~Live(r)',
           NEW c, c = ChatOfRun(r),
           \A q \in Runs \ {r} : runs'[q] = runs[q],
           \A m \in Messages : /\ messages'[m].chat = messages[m].chat
                               /\ messages'[m].outbox = messages[m].outbox
    PROVE  /\ LiveRunsOf(c)' = {}
           /\ \A d : d # c => SameLive(d)
           /\ \A d : SameQueue(d)
<1>1. \A q \in Runs \ {r} : /\ Live(q)' <=> Live(q)
                            /\ Live(q) => ChatOfRun(q)' = ChatOfRun(q)
  BY LiveRunsFollow DEF Live, ProvedInv
<1>2. \A q \in Runs \ {r} : Live(q) => ChatOfRun(q) # c
  BY DEF HonestInv, LiveRunsAgree, ShellOfRun
<1>3. LiveRunsOf(c)' = {}
  BY <1>1, <1>2 DEF LiveRunsOf
<1>4. \A d : d # c => SameLive(d)
  BY <1>1 DEF SameLive, LiveRunsOf
<1>5. \A d : SameQueue(d)
  BY DEF SameQueue, PendingOf
<1> QED
  BY <1>3, <1>4, <1>5

\* A live run appears in a running chat.
LEMMA StartOfRun ==
    ASSUME ProvedInv, HonestInv, NEW r \in Runs, runs[r].state = "absent",
           \A q \in Runs \ {r} : runs'[q] = runs[q],
           NEW c \in Chats, NEW m \in Messages,
           runs'[r].state \in LIVE_RUN_STATES, runs'[r].msg = m,
           messages[m].state # "absent", messages[m].chat = c,
           chats' = [chats EXCEPT ![c].state = "running"],
           \A k \in Messages : messages'[k].chat = messages[k].chat,
           \A d \in Chats \ {c} : SameQueue(d)
    PROVE  ChatStateIsHonest'
<1>1. ChatOfRun(r)' = c /\ Live(r)' /\ ~Live(r)
  BY DEF ChatOfRun, Live, LIVE_RUN_STATES
<1>2. \A q \in Runs \ {r} : /\ Live(q)' <=> Live(q)
                            /\ Live(q) => ChatOfRun(q)' = ChatOfRun(q)
  BY LiveRunsFollow DEF Live, ProvedInv
<1>3. Honest(c)'
  <2>1. LiveRunsOf(c)' # {}
    BY <1>1 DEF LiveRunsOf
  <2>2. chats'[c].state = "running"
    BY DEF ProvedInv, KnownInv, TypeInv, RowsOK, ChatRow
  <2> QED
    BY <2>1, <2>2 DEF Honest
<1>4. ASSUME NEW d \in Chats \ {c}
      PROVE  Honest(d)'
  <2>1. SameLive(d)
    BY <1>1, <1>2, <1>4 DEF SameLive, LiveRunsOf
  <2>2. SameState(d)
    BY <1>4 DEF SameState
  <2> QED
    BY <1>4, <2>1, <2>2, StaysHonest DEF Untouched
<1> QED
  BY <1>3, <1>4, HonestNext

LEMMA FinishHonest ==
    ASSUME ProvedInv, HonestInv, NEW r \in Runs,
           NEW outcome \in TERMINAL_RUN_STATES,
           NEW keep \in BOOLEAN, NEW exited \in BOOLEAN,
           TryFinish(r, outcome, keep, exited)
    PROVE  ChatStateIsHonest'
<1>1. CASE UNCHANGED rows
  BY <1>1, UnchangedSame, QuietHonest DEF rows, ProvedInv
<1>2. CASE Live(r) /\ FinishRun(r, outcome, keep, exited)
  <2> DEFINE target == FinishedChatState(r, outcome)
  <2>0. PICK c \in Chats : c = ChatOfRun(r)
    BY <1>2, LiveMessage DEF ProvedInv
  <2>1. CancelledByFinish(r) = {}
    BY <2>0 DEF CancelledByFinish, ProvedInv, ContractInv, ClosingInv
  <2>2. \A q \in Runs \ {r} : runs'[q] = runs[q]
    BY <1>2 DEF FinishRun, ProvedInv, KnownInv, TypeInv, RowsOK
  <2>3. ~Live(r)'
    <3>1. runs' = [runs EXCEPT ![r] = Settled(r, outcome, exited)]
      BY <1>2 DEF FinishRun
    <3>2. Settled(r, outcome, exited).state = outcome
      BY DEF Settled, NoRun
    <3> QED
      BY <3>1, <3>2 DEF Live, LIVE_RUN_STATES, TERMINAL_RUN_STATES,
                        ProvedInv, KnownInv, TypeInv, RowsOK
  <2>4. \A m \in Messages : /\ messages'[m].chat = messages[m].chat
                            /\ messages'[m].outbox = messages[m].outbox
    BY <1>2, <2>1 DEF FinishRun, ProvedInv, KnownInv, TypeInv, RowsOK,
                      MessageRow
  <2>5. /\ LiveRunsOf(c)' = {}
        /\ \A d : d # c => SameLive(d)
        /\ \A d : SameQueue(d)
    BY <1>2, <2>0, <2>2, <2>3, <2>4, EndOfRun
  <2>6. CASE chats[c].state = "closed"
    <3>1. UNCHANGED chats
      BY <1>2, <2>0, <2>6 DEF FinishRun
    <3>2. \A d \in Chats : Honest(d)'
      BY <2>5, <2>6, <3>1, StaysHonest DEF Untouched, SameState
    <3> QED
      BY <3>2, HonestNext
  <2>7. CASE chats[c].state # "closed"
    <3>1. chats' = [chats EXCEPT ![c].state = target]
      BY <1>2, <2>0, <2>1, <2>7
         DEF FinishRun, ProvedInv, ContractInv, ClosingInv
    <3>2. /\ chats'[c].state = target
          /\ \A d \in Chats \ {c} : chats'[d] = chats[d]
      BY <2>1, <3>1 DEF ProvedInv, KnownInv, TypeInv, RowsOK, ChatRow
    <3>3. /\ target \in {"error", "queued", "idle"}
          /\ target = "queued" => PendingOf(c) # {}
          /\ target = "idle" => PendingOf(c) = {}
      BY <2>0, <2>1 DEF FinishedChatState, FinishTarget
    <3> HIDE DEF target
    <3>4. Honest(c)'
      BY <2>5, <3>2, <3>3 DEF Honest, SameQueue
    <3>5. \A d \in Chats \ {c} : Honest(d)'
      BY <2>5, <3>2, StaysHonest DEF Untouched, SameState
    <3> QED
      BY <3>4, <3>5, HonestNext
  <2> QED
    BY <2>6, <2>7
<1> QED
  BY <1>1, <1>2 DEF TryFinish


LEMMA ReaperFinishHonest ==
    ASSUME ProvedInv, HonestInv, NEW r \in Runs, NEW exited \in BOOLEAN,
           ReaperFinish(r, exited)
    PROVE  ChatStateIsHonest'
<1> DEFINE final == IF Live(r) THEN "cancelled" ELSE runs[r].state
           row   == [Settled(r, final, exited) EXCEPT !.rung = "ended"]
<1>1. /\ runs' = [runs EXCEPT ![r] = row]
      /\ row.state = final /\ row.msg = runs[r].msg
  BY DEF ReaperFinish, Settled, NoRun
<1>2. /\ \A q \in Runs \ {r} : runs'[q] = runs[q]
      /\ runs'[r].msg = runs[r].msg
      /\ runs'[r].state = final
  <2> HIDE DEF row
  <2> QED
    BY <1>1 DEF ProvedInv, KnownInv, TypeInv, RowsOK
<1>3. CASE ~Live(r)
  <2>1. UNCHANGED <<messages, chats>> /\ RunsSame
    BY <1>2, <1>3 DEF ReaperFinish, RunsSame, Live
  <2> QED
    BY <2>1, UnchangedSame, QuietHonest DEF ProvedInv
<1>4. CASE Live(r)
  <2>0. PICK c \in Chats : c = ChatOfRun(r)
    BY <1>4, LiveMessage DEF ProvedInv
  <2>1. ~Live(r)'
    BY <1>2, <1>4 DEF Live, LIVE_RUN_STATES
  <2>2. \A m \in Messages : /\ messages'[m].chat = messages[m].chat
                            /\ messages'[m].outbox = messages[m].outbox
    BY DEF ReaperFinish, ProvedInv, KnownInv, TypeInv, RowsOK, MessageRow
  <2>3. /\ LiveRunsOf(c)' = {}
        /\ \A d : d # c => SameLive(d)
        /\ \A d : SameQueue(d)
    BY <1>2, <1>4, <2>0, <2>1, <2>2, EndOfRun
  <2>4. /\ chats'[c].state =
             IF chats[c].state = "running"
             THEN IF PendingOf(c) # {} THEN "queued" ELSE "idle"
             ELSE chats[c].state
        /\ \A d \in Chats \ {c} : chats'[d] = chats[d]
    BY <1>4, <2>0
       DEF ReaperFinish, ProvedInv, KnownInv, TypeInv, RowsOK, ChatRow
  <2>5. Honest(c)'
    BY <2>3, <2>4, HonestChats DEF HonestInv, Honest, SameQueue
  <2>6. \A d \in Chats \ {c} : Honest(d)'
    BY <2>3, <2>4, StaysHonest DEF Untouched, SameState
  <2> QED
    BY <2>5, <2>6, HonestNext
<1> QED
  BY <1>3, <1>4

LEMMA FinishAndStopHonest ==
    ASSUME ProvedInv, HonestInv, NEW w \in Runs, Active(w),
           NEW outcome \in TERMINAL_RUN_STATES,
           NEW keep \in BOOLEAN, NEW exited \in BOOLEAN,
           FinishAndStop(w, outcome, keep, exited)
    PROVE  ChatStateIsHonest'
<1>1. workers[w].cur \in Runs
  BY WorkerTypes DEF ProvedInv, KnownInv
<1> QED
  BY <1>1, FinishHonest DEF FinishAndStop

LEMMA WorkHonest ==
    ASSUME ProvedInv, HonestInv, NEW w \in Runs, Work(w)
    PROVE  ChatStateIsHonest'
<1>0. Active(w) /\ {"failed", "unknown"} \subseteq TERMINAL_RUN_STATES
  BY DEF Work, At, Active, Prepare, PrepareRebound, PrepareRefused, Defer,
         MarkStarting, Spawn, SpawnFails, MarkNativeStarted,
         NativeStartRollsBack, StreamRefused, LingerFinish, StreamEnds,
         StreamBreaks, OpenContinuation, ContinuationRefused, LingerEnds,
         Reconcile, RecoverLost, Streaming, TERMINAL_RUN_STATES
<1>q. UNCHANGED <<chats, messages>> /\ RunsSame => ChatStateIsHonest'
  BY UnchangedSame, QuietHonest DEF ProvedInv
<1>t. KnownInv /\ TypeInv
  BY DEF ProvedInv, KnownInv
<1>1. CASE Prepare(w) \/ Defer(w)
  BY <1>q, <1>t, <1>1, FieldSame DEF Prepare, Defer
<1>2. CASE \/ PrepareRebound(w) \/ PrepareRefused(w)
           \/ NativeStartRollsBack(w) \/ StreamRefused(w) \/ RecoverLost(w)
  BY <1>0, <1>2, FinishAndStopHonest
     DEF PrepareRebound, PrepareRefused, NativeStartRollsBack, StreamRefused,
         RecoverLost
<1>5. CASE MarkStarting(w)
  <2>1. CASE runs[w].state = "leased"
    <3>1. /\ runs' = [runs EXCEPT ![w].state = "starting",
                                  ![w].expired = FALSE]
          /\ UNCHANGED <<chats, messages>>
      BY <1>5, <2>1 DEF MarkStarting
    <3>2. RunsSame
      BY <1>t, <2>1, <3>1
         DEF RunsSame, Live, LIVE_RUN_STATES, TypeInv, RowsOK, RunRow
    <3> QED
      BY <1>q, <3>1, <3>2
  <2>2. CASE runs[w].state # "leased"
    BY <1>0, <1>5, <2>2, FinishAndStopHonest DEF MarkStarting
  <2> QED
    BY <2>1, <2>2
<1>6. CASE Spawn(w) \/ ContinuationRefused(w)
  BY <1>q, <1>6, UnchangedSame DEF Spawn, ContinuationRefused, rows
<1>7. CASE SpawnFails(w)
  BY <1>0, <1>7, FinishHonest DEF SpawnFails
<1>8. CASE MarkNativeStarted(w)
  <2>1. /\ runs' = [runs EXCEPT ![w].state = "running", ![w].expired = FALSE,
                                ![w].pid = workers[w].proc]
        /\ runs[w].state = "starting"
        /\ UNCHANGED <<chats, messages>>
    BY <1>8 DEF MarkNativeStarted
  <2>2. RunsSame
    BY <1>t, <2>1
       DEF RunsSame, Live, LIVE_RUN_STATES, TypeInv, RowsOK, RunRow
  <2> QED
    BY <1>q, <2>1, <2>2
<1>11. CASE LingerFinish(w)
  <2>1. /\ AdapterOutcome(w) \in TERMINAL_RUN_STATES
        /\ workers[w].cur \in Runs
    BY <1>0, <1>t, <1>11, OutcomeTypes, WorkerTypes DEF LingerFinish
  <2> QED
    BY <1>11, <2>1, FinishHonest DEF LingerFinish
<1>12. CASE StreamEnds(w)
  BY <1>0, <1>t, <1>12, FinishAndStopHonest, OutcomeTypes DEF StreamEnds
<1>13. CASE StreamBreaks(w)
  <2>1. CASE UNCHANGED <<rows, InMemory>>
    BY <1>q, <2>1, UnchangedSame DEF rows
  <2>2. CASE FinishAndStop(w, "unknown", FALSE, FALSE)
    BY <1>0, <2>2, FinishAndStopHonest
  <2>3. CASE /\ workers[w].terminal # "none"
             /\ FinishAndStop(w, AdapterOutcome(w), FALSE, FALSE)
    BY <1>0, <1>t, <2>3, FinishAndStopHonest, OutcomeTypes
  <2> QED
    BY <1>13, <2>1, <2>2, <2>3 DEF StreamBreaks
<1>14. CASE OpenContinuation(w)
  <2> DEFINE old == workers[w].cur
             row == [NoRun EXCEPT !.state = "running",
                                  !.msg = runs[old].msg,
                                  !.pid = runs[old].pid]
  <2>1. PICK r \in FirstUnused(Runs, runs) : runs' = [runs EXCEPT ![r] = row]
    BY <1>14 DEF OpenContinuation
  <2>2. r \in Runs /\ runs[r].state = "absent" /\ old \in Runs
    BY <1>0, <1>t, WorkerTypes DEF FirstUnused
  <2>3. row.state = "running" /\ row.msg = runs[old].msg
    BY DEF NoRun
  <2>4. runs'[r] = row /\ \A q \in Runs \ {r} : runs'[q] = runs[q]
    BY <1>t, <2>1, <2>2 DEF TypeInv, RowsOK
  <2> HIDE DEF row
  <2>5. PICK m \in Messages : m = runs[old].msg /\ messages[m].state # "absent"
    BY <1>0, <1>t, <2>2 DEF KnownInv, RefInv
  <2>6. PICK c \in Chats : c = messages[m].chat
    BY <1>t, <2>5 DEF KnownInv, RefInv
  <2>7. /\ chats' = [chats EXCEPT ![c].state = "running"]
        /\ UNCHANGED messages
    BY <1>14, <2>5, <2>6 DEF OpenContinuation, ChatOfRun
  <2>8. /\ \A k \in Messages : messages'[k].chat = messages[k].chat
        /\ \A d \in Chats \ {c} : SameQueue(d)
    BY <2>7 DEF SameQueue, PendingOf
  <2>9. runs'[r].state \in LIVE_RUN_STATES /\ runs'[r].msg = m
    BY <2>3, <2>4, <2>5 DEF LIVE_RUN_STATES
  <2> QED
    BY <2>2, <2>4, <2>5, <2>6, <2>7, <2>8, <2>9, StartOfRun
<1>16. CASE LingerEnds(w)
  <2>1. RunsSame
    BY <1>t, <1>16 DEF LingerEnds, ReleaseProcessLink, RunsSame, Live,
                       TypeInv, RowsOK, RunRow
  <2> QED
    BY <1>q, <1>16, <2>1 DEF LingerEnds
<1>17. CASE \E o \in TERMINAL_RUN_STATES : Reconcile(w, o)
  BY <1>0, <1>17, FinishAndStopHonest DEF Reconcile
<1> QED
  BY <1>1, <1>2, <1>5, <1>6, <1>7, <1>8, <1>11, <1>12, <1>13, <1>14, <1>16,
     <1>17 DEF Work

LEMMA ClaimHonest ==
    ASSUME ProvedInv, HonestInv, ClaimNext
    PROVE  ChatStateIsHonest'
<1> DEFINE row(m) == [NoRun EXCEPT !.state = "leased", !.msg = m]
<1>t. KnownInv /\ TypeInv
  BY DEF ProvedInv, KnownInv
<1>1. PICK m \in Claimable, r \in FirstUnused(Runs, runs) :
        /\ messages' = [messages EXCEPT ![m].state = "running",
                                        ![m].outbox = "dispatched"]
        /\ runs' = [runs EXCEPT ![r] = row(m)]
        /\ chats' = [chats EXCEPT ![messages[m].chat].state = "running"]
  BY DEF ClaimNext
<1>2. /\ m \in Messages /\ messages[m].state # "absent"
      /\ r \in Runs /\ runs[r].state = "absent"
  BY DEF Claimable, FirstUnused
<1>3. row(m).state = "leased" /\ row(m).msg = m
  BY DEF NoRun
<1>4. runs'[r] = row(m) /\ \A q \in Runs \ {r} : runs'[q] = runs[q]
  BY <1>t, <1>1, <1>2 DEF TypeInv, RowsOK
<1> HIDE DEF row
<1>5. PICK c \in Chats : c = messages[m].chat
  BY <1>t, <1>2 DEF KnownInv, RefInv
<1>6. /\ \A k \in Messages : messages'[k].chat = messages[k].chat
      /\ \A k \in Messages \ {m} : messages'[k] = messages[k]
  BY <1>t, <1>1 DEF TypeInv, RowsOK, MessageRow
<1>7. \A d \in Chats \ {c} : SameQueue(d)
  BY <1>5, <1>6 DEF SameQueue, PendingOf
<1>8. runs'[r].state \in LIVE_RUN_STATES /\ runs'[r].msg = m
  BY <1>3, <1>4 DEF LIVE_RUN_STATES
<1> QED
  BY <1>1, <1>2, <1>4, <1>5, <1>6, <1>7, <1>8, StartOfRun

LEMMA RecoveryHonest ==
    ASSUME ProvedInv, HonestInv, NEW r \in Runs, LeaseExpires(r) \/ Adopt(r)
    PROVE  ChatStateIsHonest'
<1>1. RunsSame /\ UNCHANGED <<chats, messages>>
  BY FieldSame DEF LeaseExpires, Adopt, ProvedInv, KnownInv
<1> QED
  BY <1>1, UnchangedSame, QuietHonest DEF ProvedInv

LEMMA InterruptSame ==
    ASSUME TypeInv, NEW r
    PROVE  /\ runs' = WithIntent(r, runs) => RunsSame
           /\ \A q, g : runs' = WithIntent(r, [runs EXCEPT ![q].rung = g])
                        => RunsSame
  BY MarkedRuns DEF RunsSame, Live

LEMMA SweepHonest ==
    ASSUME ProvedInv, HonestInv, NEW r \in Runs, Sweep(r)
    PROVE  ChatStateIsHonest'
<1>t. KnownInv /\ TypeInv
  BY DEF ProvedInv, KnownInv
<1>q. UNCHANGED <<chats, messages>> /\ RunsSame => ChatStateIsHonest'
  BY <1>t, UnchangedSame, QuietHonest
<1>1. CASE SweepGone(r)
  BY <1>1, ReaperFinishHonest DEF SweepGone
<1>2. CASE SweepInterrupt(r)
  BY <1>t, <1>q, <1>2, InterruptSame DEF SweepInterrupt
<1>3. CASE SweepSignals(r)
  <2>1. RunsSame
    BY <1>t, <1>3, FieldSame DEF SweepSignals
  <2> QED
    BY <1>q, <1>3, <2>1 DEF SweepSignals
<1>4. CASE SweepKilled(r)
  BY <1>4, ReaperFinishHonest DEF SweepKilled
<1> QED
  BY <1>1, <1>2, <1>3, <1>4 DEF Sweep

\* A chat that closes and loses its queue disturbs no other chat.
LEMMA CancelHonest ==
    ASSUME KnownInv, HonestInv, NEW e \in Chats, CancelPending(e),
           chats'[e].state = "closed", UNCHANGED runs,
           \A d \in Chats \ {e} : SameState(d)
    PROVE  ChatStateIsHonest'
<1>1. ASSUME NEW m \in Messages
      PROVE  /\ messages'[m].chat = messages[m].chat
             /\ m \notin PendingOf(e) => messages'[m] = messages[m]
             /\ m \in PendingOf(e) => messages'[m].outbox = "cancelled"
  BY DEF CancelPending, KnownInv, TypeInv, RowsOK, MessageRow
<1>2. \A d : SameLive(d)
  BY <1>1, UnchangedSame, LiveRunsFollow
<1>3. ASSUME NEW d \in Chats \ {e}
      PROVE  SameQueue(d)
  BY <1>1 DEF SameQueue, PendingOf
<1>4. \A d \in Chats : Honest(d)'
  BY <1>2, <1>3, StaysHonest DEF Untouched
<1> QED
  BY <1>4, HonestNext

\* An accepted message waits in a chat that says so, or whose turn still runs.
LEMMA AcceptHonest ==
    ASSUME KnownInv, HonestInv, NEW c \in Chats, UNCHANGED runs,
           NEW m \in FirstUnused(Messages, messages),
           NEW cs \in [Chats -> ChatRow], Accept(c, m, cs),
           cs[c].state \in {chats[c].state, "idle"},
           \A d \in Chats \ {c} : cs[d].state \in {chats[d].state, "closed"}
    PROVE  ChatStateIsHonest'
<1>1. m \in Messages /\ messages[m].state = "absent"
  BY DEF FirstUnused
<1>2. /\ messages'[m].chat = c /\ messages'[m].outbox = "pending"
      /\ \A k \in Messages \ {m} : messages'[k] = messages[k]
  BY <1>1 DEF Accept, KnownInv, TypeInv, RowsOK
<1>3. \A d : SameLive(d)
  BY <1>1, <1>2, UnchangedSame, LiveRunsFollow
<1>4. /\ chats'[c].state = IF cs[c].state \in {"queued", "running"}
                           THEN cs[c].state ELSE "queued"
      /\ \A d \in Chats \ {c} : chats'[d] = cs[d]
  BY DEF Accept, ChatRow
<1>5. Honest(c)'
  <2>1. PendingOf(c)' # {}
    BY <1>1, <1>2 DEF PendingOf
  <2>2. chats'[c].state = "running" => LiveRunsOf(c)' # {}
    BY <1>3, <1>4 DEF HonestInv, ChatStateIsHonest, SameLive
  <2> QED
    BY <1>4, <2>1, <2>2 DEF Honest
<1>6. ASSUME NEW d \in Chats \ {c}
      PROVE  Honest(d)'
  <2>1. SameQueue(d)
    BY <1>1, <1>2 DEF SameQueue, PendingOf, KnownInv, RefInv
  <2>2. chats'[d].state \in {chats[d].state, "closed"}
    BY <1>4
  <2> QED
    BY <1>3, <2>1, <2>2, StaysHonest DEF Untouched, SameState
<1> QED
  BY <1>5, <1>6, HonestNext

LEMMA ApiHonest ==
    ASSUME ProvedInv, HonestInv, NEW c \in Chats, Api(c)
    PROVE  ChatStateIsHonest'
<1> DEFINE s == ShellOf[c]
           a == registry[s].chat
<1>t. KnownInv /\ TypeInv
  BY DEF ProvedInv, KnownInv
<1>0. s \in Shells /\ chats \in [Chats -> ChatRow]
      /\ (a # NoChat => a \in Chats)
  BY <1>t, TablesAssumption DEF TypeInv, RowsOK, ActiveRow
<1>q. ASSUME UNCHANGED <<messages, runs>>,
             \A x \in Chats : SameState(x) \/ chats'[x].state = "closed"
      PROVE  ChatStateIsHonest'
  BY <1>t, <1>q, UnchangedSame, QuietHonest
<1>1. ASSUME NEW e \in Chats, NEW b
      PROVE  /\ ClosedRows(chats, e, b)[e].state = "closed"
             /\ \A x \in Chats \ {e} : ClosedRows(chats, e, b)[x] = chats[x]
  BY <1>0 DEF ClosedRows
<1>2. /\ WithoutActive(s) \in [Chats -> ChatRow]
      /\ \A x \in Chats : WithoutActive(s)[x].state \in {chats[x].state, "closed"}
  <2>1. WithoutActive(s) \in [Chats -> ChatRow]
    BY <1>0, <1>t, CloseTypes DEF WithoutActive
  <2>2. \A x \in Chats : WithoutActive(s)[x].state \in {chats[x].state, "closed"}
    <3>1. CASE a = NoChat
      BY <3>1 DEF WithoutActive
    <3>2. CASE a # NoChat
      <4>1. PICK e \in Chats : e = a
        BY <1>0, <3>2
      <4>2. WithoutActive(s) = ClosedRows(chats, e, FALSE)
        BY <3>2, <4>1 DEF WithoutActive
      <4>3. /\ ClosedRows(chats, e, FALSE)[e].state = "closed"
            /\ \A x \in Chats \ {e} : ClosedRows(chats, e, FALSE)[x] = chats[x]
        BY <1>1
      <4> QED
        BY <4>2, <4>3
    <3> QED
      BY <3>1, <3>2
  <2> QED
    BY <2>1, <2>2
<1>4. CASE CreateCloses(c)
  <2>1. chats' = WithoutActive(s) /\ UNCHANGED <<messages, runs>>
    BY <1>4 DEF CreateCloses
  <2> QED
    BY <1>2, <1>q, <2>1 DEF SameState
<1>5. CASE WakeCloses(c) \/ CloseInactive(c) \/ Close(c)
  <2>1. PICK e \in Chats, b \in BOOLEAN :
          /\ chats' = ClosedRows(chats, e, b)
          /\ UNCHANGED messages \/ CancelPending(e)
    BY <1>0, <1>5 DEF WakeCloses, CloseInactive, Close
  <2>2. UNCHANGED runs
    BY <1>5 DEF WakeCloses, CloseInactive, Close
  <2>3. chats'[e].state = "closed" /\ \A x \in Chats \ {e} : SameState(x)
    BY <1>1, <2>1 DEF SameState
  <2>4. CASE UNCHANGED messages
    BY <1>q, <2>2, <2>3, <2>4
  <2>5. CASE CancelPending(e)
    BY <1>t, <2>2, <2>3, <2>5, CancelHonest
  <2> QED
    BY <2>1, <2>4, <2>5
<1>6. CASE CreateRegisters(c)
  <2>1. ~Exists(c)
    BY <1>t, <1>6 DEF CreateRegisters, KnownInv, OpenInv
  <2>2. chats' = [chats EXCEPT ![c].state = "idle"] /\ UNCHANGED <<messages, runs>>
    BY <1>6 DEF CreateRegisters
  <2>3. /\ chats'[c].state = "idle"
        /\ \A x \in Chats \ {c} : SameState(x)
    BY <1>0, <2>2 DEF SameState, ChatRow
  <2>4. PendingOf(c)' = {}
    <3>1. PendingOf(c) = {}
      BY <1>t, <2>1 DEF PendingOf, KnownInv, RefInv
    <3> QED
      BY <2>2, <3>1 DEF PendingOf
  <2>5. \A x \in Chats : SameLive(x) /\ SameQueue(x)
    BY <1>t, <2>2, UnchangedSame, LiveRunsFollow DEF SameQueue, PendingOf
  <2>6. \A x \in Chats \ {c} : Honest(x)'
    BY <2>3, <2>5, StaysHonest DEF Untouched
  <2>7. Honest(c)'
    BY <2>3, <2>4 DEF Honest
  <2> QED
    BY <2>6, <2>7, HonestNext
<1>7. CASE CreateLoses(c)
  BY <1>7, <1>q, UnchangedSame DEF CreateLoses, rows
<1>8. CASE Send(c)
  <2>1. PICK m \in FirstUnused(Messages, messages) : Accept(c, m, chats)
    BY <1>8 DEF Send
  <2>2. UNCHANGED runs
    BY <1>8 DEF Send
  <2> QED
    BY <1>0, <1>t, <2>1, <2>2, AcceptHonest
<1>9. CASE SendReopens(c)
  <2> DEFINE cs == [WithoutActive(s) EXCEPT
                      ![c] = [state |-> "idle", closing |-> FALSE]]
  <2>1. PICK m \in FirstUnused(Messages, messages) : Accept(c, m, cs)
    BY <1>9 DEF SendReopens
  <2>2. cs \in [Chats -> ChatRow] /\ UNCHANGED runs
    BY <1>2, <1>9, ChatUpdate
       DEF SendReopens, ChatRow, ChatStates, CONVERSATION_TRANSITIONS
  <2>3. /\ cs[c].state = "idle"
        /\ \A x \in Chats \ {c} : cs[x].state \in {chats[x].state, "closed"}
    BY <1>2
  <2> HIDE DEF cs
  <2> QED
    BY <1>t, <2>1, <2>2, <2>3, AcceptHonest
<1>10. CASE Stop(c)
  <2>1. RunsSame /\ UNCHANGED <<chats, messages>>
    BY <1>t, <1>10, InterruptSame DEF Stop
  <2> QED
    BY <1>t, <2>1, UnchangedSame, QuietHonest
<1> QED
  BY <1>4, <1>5, <1>6, <1>7, <1>8, <1>9, <1>10 DEF Api

LEMMA StepHonest ==
    ASSUME ProvedInv, HonestInv, [Next]_vars
    PROVE  ChatStateIsHonest'
<1>1. CASE UNCHANGED <<chats, messages, runs>>
  BY <1>1, UnchangedSame, QuietHonest DEF ProvedInv
<1>2. CASE \/ \E w \in Runs : Report(w)
           \/ BeginDispatch \/ EndDispatch
           \/ \E p \in Procs : Terminate(p) \/ ProcessExits(p)
           \/ Crash \/ Restart \/ UNCHANGED vars
  BY <1>1, <1>2
     DEF Report, StreamTerminal, BeginDispatch, EndDispatch, Terminate,
         ProcessExits, Crash, Restart, rows, vars
<1> QED
  BY <1>2, WorkHonest, ClaimHonest, RecoveryHonest, SweepHonest, ApiHonest
     DEF Next, Dispatch

-----------------------------------------------------------------------------
(* The invariant.                                                          *)

LEMMA HonestInit == Init => HonestInv
  BY DEF Init, HonestInv, ChatStateIsHonest, LiveRunsAgree, Live, NoRun,
         LIVE_RUN_STATES

\* A running chat has a live run to end its turn, a queued chat has an intent
\* to dispatch, an idle chat has none that nobody would ever look at, and a
\* chat in error is free to queue again.
THEOREM HonestHolds == Spec => []ChatStateIsHonest
<1>1. ProvedInv /\ HonestInv /\ [Next]_vars => HonestInv'
  <2> SUFFICES ASSUME ProvedInv, HonestInv, [Next]_vars
               PROVE  HonestInv'
    OBVIOUS
  <2>1. LiveRunsAgree'
    BY StepStays, LiveRunsStep DEF ProvedInv, KnownInv, HonestInv
  <2>2. ChatStateIsHonest'
    BY StepHonest
  <2> QED
    BY <2>1, <2>2 DEF HonestInv
<1>2. Spec => []ProvedInv
  BY ContractHolds, PTL DEF ProvedInv
<1>3. HonestInv => ChatStateIsHonest
  BY DEF HonestInv
<1> QED
  BY <1>1, <1>2, <1>3, HonestInit, PTL DEF Spec

-----------------------------------------------------------------------------
(* A lost wake.  Whatever makes an intent claimable also wakes the          *)
(* dispatcher, or is done by a worker whose end will, with one exception:   *)
(* the reaper ends a turn in progress, which frees its shell or puts its    *)
(* chat back to queued, and wakes nobody.                                   *)

\* Somebody will look for claimable intents.
Attending ==
    \/ broker.wake
    \/ broker.dispatching
    \/ \E w \in Runs : Active(w)

\* The exception, when the turn's worker is gone too.
ReaperRequeues ==
    /\ \E r \in Runs : Live(r) /\ (SweepGone(r) \/ SweepKilled(r))
    /\ \A w \in Runs : ~Active(w)

\* A step that adds no claimable intent and lets nobody go.
NothingNew == Claimable' \subseteq Claimable /\ (Attending => Attending')

LEMMA StillClaimable ==
    ASSUME TypeInv, RefInv, \A m \in Messages : messages'[m].chat = messages[m].chat,
           \A r \in Runs : /\ runs'[r].msg = runs[r].msg
                           /\ runs'[r].state = runs[r].state,
           NEW m \in Messages, m \in Claimable',
           LET c == messages[m].chat IN
             /\ messages'[m] = messages[m]
             /\ chats'[c] = chats[c] /\ IsActive(c)
             /\ \A k \in Messages : messages[k].chat = c =>
                                      messages'[k].state = messages[k].state
    PROVE  m \in Claimable
<1> DEFINE c == messages[m].chat
<1>1. /\ messages[m].outbox = "pending" /\ messages[m].state = "queued"
      /\ chats[c].state = "queued" /\ ~ chats[c].closing
      /\ \A k \in Messages : messages[k].chat = c /\ k < m =>
                               messages[k].state \notin {"queued", "running"}
  BY DEF Claimable
<1>2. LiveRunsOn(ShellOf[c])' = {}
  BY DEF Claimable
<1>3. ASSUME NEW r \in Runs, Live(r)
      PROVE  Live(r)' /\ ShellOfRun(r)' = ShellOfRun(r)
  <2>1. runs[r].msg \in Messages
    BY <1>3 DEF RefInv, Live, LIVE_RUN_STATES
  <2> QED
    BY <1>3, <2>1 DEF Live, ShellOfRun, ChatOfRun
<1>4. LiveRunsOn(ShellOf[c]) = {}
  BY <1>2, <1>3 DEF LiveRunsOn
<1> QED
  BY <1>1, <1>4 DEF Claimable

\* The runs move on, or forget something, between states of the same kind.
LEMMA RunsAside ==
    ASSUME TypeInv, RefInv, UNCHANGED <<chats, registry, messages>>,
           \A r \in Runs : /\ runs'[r].msg = runs[r].msg
                           /\ runs'[r].state = runs[r].state
    PROVE  Claimable' \subseteq Claimable
<1> SUFFICES ASSUME NEW m \in Claimable'
             PROVE  m \in Claimable
  OBVIOUS
<1>1. m \in Messages /\ IsActive(messages[m].chat)
  BY DEF Claimable, IsActive
<1> QED
  BY <1>1, StillClaimable

\* A chat leaves the registry; the rest stay as they are.
LEMMA UnlinkedAside ==
    ASSUME TypeInv, RefInv, UNCHANGED runs, NEW d \in Chats,
           UNCHANGED messages \/ CancelPending(d),
           \A c \in Chats \ {d} : chats'[c] = chats[c],
           chats'[d].state # "queued",
           registry' = registry \/ \E s : registry' = Unlink(s)
    PROVE  Claimable' \subseteq Claimable
<1>1. \A m \in Messages :
        /\ messages'[m].chat = messages[m].chat
        /\ messages[m].chat # d => messages'[m] = messages[m]
  BY DEF CancelPending, PendingOf, TypeInv, RowsOK, MessageRow
<1>2. \A s \in Shells : registry'[s].chat \in {registry[s].chat, NoChat}
  BY DEF Unlink, TypeInv, RowsOK, ActiveRow
<1> SUFFICES ASSUME NEW m \in Claimable'
             PROVE  m \in Claimable
  OBVIOUS
<1>3. /\ m \in Messages /\ messages'[m].state = "queued"
      /\ chats'[messages'[m].chat].state = "queued"
      /\ registry'[ShellOf[messages'[m].chat]].chat = messages'[m].chat
  BY DEF Claimable, IsActive
<1>4. messages[m].chat # d /\ messages'[m] = messages[m]
  BY <1>1, <1>3
<1>5. messages[m].chat \in Chats /\ messages[m].chat # NoChat
  BY <1>3, <1>4, TablesAssumption DEF RefInv
<1>6. IsActive(messages[m].chat)
  BY <1>2, <1>3, <1>4, <1>5, TablesAssumption DEF IsActive
<1>7. \A k \in Messages : messages[k].chat = messages[m].chat =>
                            messages'[k].state = messages[k].state
  BY <1>1, <1>4
<1> QED
  BY <1>1, <1>3, <1>4, <1>5, <1>6, <1>7, StillClaimable

LEMMA CreateNothingNew ==
    ASSUME TypeInv, RefInv, NEW c \in Chats, CreateCloses(c) \/ WakeCloses(c)
    PROVE  Claimable' \subseteq Claimable
<1> DEFINE s == ShellOf[c]
           d == registry[s].chat
<1>1. s \in Shells /\ d \in Chats \cup {NoChat}
  BY TablesAssumption DEF TypeInv, RowsOK, ActiveRow
<1>2. CASE d = NoChat
  <2>1. chats' = chats /\ registry' = Unlink(s) /\ UNCHANGED <<messages, runs>>
    BY <1>2 DEF CreateCloses, WakeCloses, WithoutActive
  <2>2. \A t \in Shells : registry'[t].chat = registry[t].chat
    BY <1>2, <2>1 DEF Unlink, TypeInv, RowsOK, ActiveRow
  <2> SUFFICES ASSUME NEW m \in Claimable'
               PROVE  m \in Claimable
    OBVIOUS
  <2>3. /\ m \in Messages /\ messages[m].state = "queued"
        /\ IsActive(messages[m].chat)'
    BY <2>1 DEF Claimable
  <2>4. messages[m].chat \in Chats
    BY <2>3 DEF RefInv
  <2>5. IsActive(messages[m].chat)
    BY <2>1, <2>2, <2>3, <2>4, TablesAssumption DEF IsActive
  <2> QED
    BY <2>1, <2>3, <2>5, StillClaimable
<1>3. CASE d # NoChat
  <2>1. /\ chats' = ClosedRows(chats, d, FALSE) /\ registry' = Unlink(s)
        /\ UNCHANGED runs /\ (UNCHANGED messages \/ CancelPending(d))
    BY <1>3 DEF CreateCloses, WakeCloses, WithoutActive
  <2>2. /\ chats'[d].state = "closed"
        /\ \A e \in Chats \ {d} : chats'[e] = chats[e]
    BY <1>1, <1>3, <2>1 DEF ClosedRows, TypeInv, RowsOK, ChatRow
  <2> QED
    BY <1>1, <1>3, <2>1, <2>2, UnlinkedAside
<1> QED
  BY <1>2, <1>3

LEMMA RegisterNothingNew ==
    ASSUME TypeInv, RefInv, NEW c \in Chats, CreateRegisters(c)
    PROVE  Claimable' \subseteq Claimable
<1>1. /\ UNCHANGED <<messages, runs>>
      /\ chats'[c].state = "idle" /\ \A d \in Chats \ {c} : chats'[d] = chats[d]
      /\ \A s \in Shells : registry'[s].chat \in {registry[s].chat, c}
  BY DEF CreateRegisters, TypeInv, RowsOK, ChatRow, ActiveRow
<1> SUFFICES ASSUME NEW m \in Claimable'
             PROVE  m \in Claimable
  OBVIOUS
<1>2. /\ m \in Messages /\ messages[m].state = "queued"
      /\ chats'[messages[m].chat].state = "queued"
      /\ IsActive(messages[m].chat)'
  BY <1>1 DEF Claimable
<1>3. messages[m].chat \in Chats \ {c}
  BY <1>1, <1>2 DEF RefInv
<1>4. IsActive(messages[m].chat)
  BY <1>1, <1>2, <1>3, TablesAssumption DEF IsActive
<1> QED
  BY <1>1, <1>2, <1>3, <1>4, StillClaimable

LEMMA CloseNothingNew ==
    ASSUME TypeInv, RefInv, NEW c \in Chats, Close(c) \/ CloseInactive(c)
    PROVE  Claimable' \subseteq Claimable
<1>1. /\ UNCHANGED runs /\ (UNCHANGED messages \/ CancelPending(c))
      /\ registry' = registry \/ \E s : registry' = Unlink(s)
      /\ \E closing : chats' = ClosedRows(chats, c, closing)
  BY DEF Close, CloseInactive
<1>2. /\ chats'[c].state = "closed"
      /\ \A d \in Chats \ {c} : chats'[d] = chats[d]
  BY <1>1 DEF ClosedRows, TypeInv, RowsOK, ChatRow
<1> QED
  BY <1>1, <1>2, UnlinkedAside

\* Workers and dispatcher left alone, or told of an interrupt.
LEMMA StillAttending ==
    ASSUME TypeInv,
           \/ UNCHANGED workers
           \/ \E r : InterruptWorkers(r),
           broker.wake => broker'.wake,
           broker.dispatching => broker'.dispatching
    PROVE  Attending => Attending'
<1>1. PICK w : \/ workers' = workers
               \/ workers' = [workers EXCEPT ![w].interrupt = TRUE]
  BY DEF InterruptWorkers
<1>2. \A v \in Runs : Active(v)' <=> Active(v)
  BY <1>1 DEF Active, TypeInv, WorkersOK, WorkerRow
<1> QED
  BY <1>2 DEF Attending

\* A worker at work stays at it, or wakes the dispatcher as it leaves.
LEMMA WorkAttends ==
    ASSUME TypeInv, NEW w \in Runs, Work(w)
    PROVE  Attending'
<1>1. Deactivate(w) => Attending'
  BY DEF Deactivate, Attending, TypeInv, RestOK, BrokerRow
<1>2. \A pc : Goto(w, pc) /\ pc # "off" => Attending'
  BY DEF Goto, Attending, Active, TypeInv, WorkersOK, WorkerRow
<1>3. \A o, k, e : FinishAndStop(w, o, k, e) => Attending'
  BY <1>1 DEF FinishAndStop
<1>4. CASE Prepare(w) \/ MarkNativeStarted(w)
  BY <1>2, <1>4 DEF Prepare, MarkNativeStarted
<1>5. CASE PrepareRebound(w) \/ PrepareRefused(w) \/ NativeStartRollsBack(w)
  BY <1>3, <1>5 DEF PrepareRebound, PrepareRefused, NativeStartRollsBack
<1>6. CASE \/ Defer(w) \/ SpawnFails(w) \/ ContinuationRefused(w)
           \/ LingerEnds(w)
  BY <1>1, <1>6 DEF Defer, SpawnFails, ContinuationRefused, LingerEnds
<1>7. CASE MarkStarting(w)
  BY <1>2, <1>3, <1>7 DEF MarkStarting
<1>8. CASE Spawn(w)
  <2>1. PICK p : workers' = [workers EXCEPT ![w].pc = "native", ![w].proc = p]
    BY <1>8 DEF Spawn
  <2>2. workers'[w].pc = "native"
    BY <2>1 DEF TypeInv, WorkersOK, WorkerRow
  <2> QED
    BY <2>2 DEF Attending, Active
<1>9. CASE LingerFinish(w)
  <2>1. CASE workers' = [workers EXCEPT ![w].pc = "linger",
                                        ![w].terminal = "none"]
    <3>1. workers'[w].pc = "linger"
      BY <2>1 DEF TypeInv, WorkersOK, WorkerRow
    <3> QED
      BY <3>1 DEF Attending, Active
  <2> QED
    BY <1>1, <1>9, <2>1 DEF LingerFinish
<1>10. CASE StreamRefused(w) \/ StreamEnds(w) \/ RecoverLost(w)
  BY <1>3, <1>10 DEF StreamRefused, StreamEnds, RecoverLost
<1>11. CASE StreamBreaks(w)
  BY <1>2, <1>3, <1>11 DEF StreamBreaks
<1>12. CASE OpenContinuation(w)
  <2>1. PICK r : workers' = [workers EXCEPT ![w].pc = "stream", ![w].cur = r,
                                            ![w].terminal = "none"]
    BY <1>12 DEF OpenContinuation
  <2>2. workers'[w].pc = "stream"
    BY <2>1 DEF TypeInv, WorkersOK, WorkerRow
  <2> QED
    BY <2>2 DEF Attending, Active
<1>13. CASE \E o \in TERMINAL_RUN_STATES : Reconcile(w, o)
  BY <1>3, <1>13 DEF Reconcile
<1> QED
  BY <1>4, <1>5, <1>6, <1>7, <1>8, <1>9, <1>10, <1>11, <1>12, <1>13 DEF Work

LEMMA ApiAttends ==
    ASSUME TypeInv, RefInv, NEW c \in Chats, Api(c)
    PROVE  Attending' \/ NothingNew
<1>1. CASE Send(c) \/ SendReopens(c) \/ Stop(c)
  <2>1. broker' = [broker EXCEPT !.wake = TRUE]
    BY <1>1 DEF Send, SendReopens, Accept, Stop
  <2> QED
    BY <2>1 DEF Attending, TypeInv, RestOK, BrokerRow
<1>2. CASE CreateLoses(c)
  <2>1. UNCHANGED <<rows, workers, broker>>
    BY <1>2 DEF CreateLoses
  <2> QED
    BY <2>1, RunsAside, StillAttending DEF NothingNew, rows
<1>3. CASE \/ CreateCloses(c) \/ WakeCloses(c) \/ CreateRegisters(c)
           \/ Close(c) \/ CloseInactive(c)
  <2>1. UNCHANGED <<workers, broker>>
    BY <1>3 DEF CreateCloses, WakeCloses, CreateRegisters, Close, CloseInactive
  <2> QED
    BY <1>3, <2>1, CreateNothingNew, RegisterNothingNew, CloseNothingNew,
       StillAttending DEF NothingNew
<1> QED
  BY <1>1, <1>2, <1>3 DEF Api

LEMMA SweepAttends ==
    ASSUME TypeInv, RefInv, NEW r \in Runs, Sweep(r)
    PROVE  \/ Live(r) /\ (SweepGone(r) \/ SweepKilled(r))
           \/ NothingNew
<1>1. CASE SweepInterrupt(r)
  <2>1. \A q \in Runs : /\ runs'[q].msg = runs[q].msg
                        /\ runs'[q].state = runs[q].state
    BY <1>1, MarkedRuns DEF SweepInterrupt
  <2>2. Claimable' \subseteq Claimable
    BY <1>1, <2>1, RunsAside DEF SweepInterrupt
  <2>3. /\ broker.wake => broker'.wake
        /\ broker'.dispatching = broker.dispatching
    BY <1>1 DEF SweepInterrupt, TypeInv, RestOK, BrokerRow
  <2>4. \E q : InterruptWorkers(q)
    BY <1>1 DEF SweepInterrupt
  <2> QED
    BY <2>2, <2>3, <2>4, StillAttending DEF NothingNew
<1>2. CASE SweepSignals(r)
  <2>1. \A q \in Runs : /\ runs'[q].msg = runs[q].msg
                        /\ runs'[q].state = runs[q].state
    BY <1>2 DEF SweepSignals, TypeInv, RowsOK, RunRow
  <2> QED
    BY <1>2, <2>1, RunsAside, StillAttending DEF SweepSignals, NothingNew
<1>3. ASSUME NEW exited, ~Live(r), ReaperFinish(r, exited),
             UNCHANGED <<workers, broker>>
      PROVE  NothingNew
  <2> DEFINE row == [Settled(r, runs[r].state, exited) EXCEPT !.rung = "ended"]
  <2>1. runs' = [runs EXCEPT ![r] = row] /\ UNCHANGED <<messages, chats, registry>>
    BY <1>3 DEF ReaperFinish
  <2>2. row.state = runs[r].state /\ row.msg = runs[r].msg
    BY DEF Settled, NoRun
  <2>3. runs'[r] = row /\ \A q \in Runs \ {r} : runs'[q] = runs[q]
    BY <2>1 DEF TypeInv, RowsOK
  <2> HIDE DEF row
  <2>4. \A q \in Runs : /\ runs'[q].msg = runs[q].msg
                        /\ runs'[q].state = runs[q].state
    BY <2>2, <2>3
  <2> QED
    BY <1>3, <2>1, <2>4, RunsAside, StillAttending DEF NothingNew
<1>4. CASE SweepGone(r) \/ SweepKilled(r)
  BY <1>3, <1>4 DEF SweepGone, SweepKilled
<1> QED
  BY <1>1, <1>2, <1>4 DEF Sweep

LEMMA WakeStep ==
    ASSUME TypeInv, RefInv, NoLostWake, [Next]_vars, ~ReaperRequeues
    PROVE  NoLostWake'
<1> USE DEF NoLostWake
<1>1. ASSUME NothingNew, broker'.up => broker.up
      PROVE  NoLostWake'
  BY <1>1 DEF NothingNew, Attending
<1>2. ASSUME Attending'
      PROVE  NoLostWake'
  BY <1>2 DEF Attending
<1>3. UNCHANGED <<rows, workers>> /\ UNCHANGED broker => NothingNew
  BY RunsAside, StillAttending DEF NothingNew, rows
<1>4. CASE UNCHANGED vars
  BY <1>1, <1>3, <1>4 DEF vars, rows
<1>5. ASSUME NEW w \in Runs, Report(w)
      PROVE  NoLostWake'
  <2>1. Active(w)'
    BY <1>5 DEF Report, StreamTerminal, Streaming, At, Active, TypeInv,
                WorkersOK, WorkerRow
  <2> QED
    BY <1>2, <2>1 DEF Attending
<1>6. ASSUME NEW w \in Runs, Work(w)
      PROVE  NoLostWake'
  BY <1>2, <1>6, WorkAttends
<1>7. CASE BeginDispatch \/ Restart
  <2>1. broker'.dispatching
    BY <1>7 DEF BeginDispatch, Restart, TypeInv, RestOK, BrokerRow
  <2> QED
    BY <1>2, <2>1 DEF Attending
<1>8. CASE ClaimNext
  <2>1. PICK r \in Runs :
          workers' = [workers EXCEPT ![r] = [NoWorker EXCEPT
                                               !.pc = "prepare", !.cur = r]]
    BY <1>8 DEF ClaimNext, FirstUnused
  <2>2. Active(r)'
    BY <2>1 DEF Active, NoWorker, TypeInv, WorkersOK
  <2> QED
    BY <1>2, <2>2 DEF Attending
<1>9. CASE EndDispatch
  <2>1. UNCHANGED <<rows, workers>>
    BY <1>9 DEF EndDispatch
  <2>2. Claimable' \subseteq Claimable
    BY <2>1, RunsAside DEF rows
  <2>3. CASE Capacity
    BY <1>9, <2>2, <2>3 DEF EndDispatch
  <2>4. CASE ~Capacity
    <3>1. {w \in Runs : Active(w)} # {}
      BY <2>4, FS_EmptySet, TablesAssumption DEF Capacity
    <3>2. PICK w \in Runs : Active(w)
      BY <3>1
    <3>3. Active(w)'
      BY <2>1, <3>2 DEF Active
    <3> QED
      BY <1>2, <3>3 DEF Attending
  <2> QED
    BY <2>3, <2>4
<1>10. ASSUME NEW r \in Runs, LeaseExpires(r) \/ Adopt(r)
       PROVE  NoLostWake'
  <2>1. \A q \in Runs : /\ runs'[q].msg = runs[q].msg
                        /\ runs'[q].state = runs[q].state
    BY <1>10 DEF LeaseExpires, Adopt, TypeInv, RowsOK, RunRow
  <2>2. Claimable' \subseteq Claimable /\ UNCHANGED broker
    BY <1>10, <2>1, RunsAside DEF LeaseExpires, Adopt
  <2>3. CASE LeaseExpires(r)
    BY <1>1, <2>2, <2>3, StillAttending DEF LeaseExpires, NothingNew
  <2>4. CASE Adopt(r)
    <3>1. Active(r)'
      <4> DEFINE row == [NoWorker EXCEPT
                           !.pc = RecoveredStep(r), !.cur = r,
                           !.proc = runs[r].pid, !.interrupt = runs[r].intent]
      <4>1. CASE Active(r)
        BY <2>4, <4>1 DEF Adopt, Active
      <4>2. CASE ~Active(r)
        <5>1. workers' = [workers EXCEPT ![r] = row]
          BY <2>4, <4>2 DEF Adopt
        <5>2. row.pc # "off"
          BY DEF NoWorker, RecoveredStep
        <5> HIDE DEF row
        <5> QED
          BY <5>1, <5>2 DEF Active, TypeInv, WorkersOK
      <4> QED
        BY <4>1, <4>2
    <3> QED
      BY <1>2, <3>1 DEF Attending
  <2> QED
    BY <1>10, <2>3, <2>4
<1>11. ASSUME NEW r \in Runs, Sweep(r)
       PROVE  NoLostWake'
  <2>1. CASE NothingNew
    BY <1>1, <1>11, <2>1 DEF Sweep, SweepGone, SweepKilled, SweepInterrupt,
                             SweepSignals, Sweeping
  <2>2. CASE Live(r) /\ (SweepGone(r) \/ SweepKilled(r))
    <3>1. PICK w \in Runs : Active(w)
      BY <2>2 DEF ReaperRequeues
    <3>2. Active(w)'
      BY <2>2, <3>1 DEF SweepGone, SweepKilled, Active
    <3> QED
      BY <1>2, <3>2 DEF Attending
  <2> QED
    BY <1>11, <2>1, <2>2, SweepAttends
<1>12. ASSUME NEW c \in Chats, Api(c)
       PROVE  NoLostWake'
  <2>1. broker.up
    BY <1>12 DEF Api, CreateCloses, WakeCloses, CreateRegisters, CreateLoses,
                 Send, SendReopens, Stop, Close, CloseInactive
  <2> QED
    BY <1>1, <1>2, <1>12, <2>1, ApiAttends
<1>13. ASSUME NEW p \in Procs, Terminate(p) \/ ProcessExits(p)
       PROVE  NoLostWake'
  BY <1>1, <1>3, <1>13 DEF Terminate, ProcessExits
<1>14. CASE Crash
  BY <1>14 DEF Crash
<1> QED
  BY <1>4, <1>5, <1>6, <1>7, <1>8, <1>9, <1>10, <1>11, <1>12, <1>13, <1>14
     DEF Next, Dispatch

\* The reaper alone loses a wake: while it ends no turn that has lost its
\* worker, a claimable intent always has a dispatcher that will look for it,
\* over every crash, close, displacement, rotation and recovery.
THEOREM OnlyTheReaperLosesWakes ==
    Spec /\ [][~ReaperRequeues]_vars => []NoLostWake
<1>1. Init => NoLostWake
  BY DEF Init, NoLostWake, Claimable
<1>2. ASSUME TypeInv, RefInv, NoLostWake, [Next]_vars, [~ReaperRequeues]_vars
      PROVE  NoLostWake'
  <2>1. CASE UNCHANGED vars
    <3>1. NoLostWake' <=> NoLostWake
      BY <2>1 DEF vars, NoLostWake, Claimable, Active, IsActive, LiveRunsOn,
                  Live, ShellOfRun, ChatOfRun
    <3> QED
      BY <1>2, <3>1
  <2> QED
    BY <1>2, <2>1, WakeStep
<1> QED
  BY <1>1, <1>2, RefHolds, PTL DEF Spec

-----------------------------------------------------------------------------
(* Without closes and crashes the exception does not arise: a late release  *)
(* (conversation_broker.py:1112) may unlink the process of a running turn,  *)
(* but leaves its worker, so the reaper ends a turn only behind a worker.   *)
(* With either, TLC finds wakes lost: a worker leaves its run live after a  *)
(* close and a reopening send, or dies with the server after such a release.*)

BeforeStream == {"prepare", "start", "spawn", "native"}

StaysOpen == \A c \in Chats : chats[c].state # "closed" /\ ~chats[c].closing

LiveRunsRun ==
    \A r \in Runs : Live(r) => chats[ChatOfRun(r)].state = "running"

TurnsFollowed ==
    \A r \in Runs : runs[r].state = "running" =>
        \E w \in Runs : Active(w) /\ workers[w].cur = r

OwnRun ==
    \A w \in Runs :
        /\ workers[w].pc \in BeforeStream => workers[w].cur = w
        /\ Active(w) => runs[w].state # "absent"

SteadyInv == StaysOpen /\ LiveRunsRun /\ OwnRun

CalmInv == SteadyInv /\ TurnsFollowed

\* Chats stay open, and running while a live run has them.
ChatsCalm ==
    /\ StaysOpen'
    /\ \A r \in Runs : Live(r)' =>
         /\ Live(r) /\ runs'[r].msg = runs[r].msg
         /\ chats'[ChatOfRun(r)].state = "running"

\* A running turn was running, and keeps its workers.
TurnsCalm ==
    \A r \in Runs : runs'[r].state = "running" =>
        /\ runs[r].state = "running"
        /\ \A w \in Runs : Active(w) /\ workers[w].cur = r =>
             workers'[w].pc # "off" /\ workers'[w].cur = r

OwnRunNext ==
    \A w \in Runs :
        /\ workers'[w].pc \in BeforeStream => workers'[w].cur = w
        /\ workers'[w].pc # "off" => Active(w) \/ runs'[w].state # "absent"

\* A run that is there stays there.
LEMMA RunsRemain ==
    ASSUME HistoryStep, NEW r \in Runs, runs[r].state # "absent"
    PROVE  runs'[r].state # "absent"
  BY DEF HistoryStep, RunsSettle, RunAppears, Live, LIVE_RUN_STATES,
         TERMINAL_RUN_STATES

LEMMA CalmKept ==
    ASSUME TypeInv, RefInv, HistoryStep, SteadyInv, ChatsCalm, OwnRunNext
    PROVE  SteadyInv' /\ (TurnsCalm /\ TurnsFollowed => TurnsFollowed')
<1>1. ASSUME NEW r \in Runs, Live(r)'
      PROVE  chats'[ChatOfRun(r)'].state = "running"
  <2>1. Live(r) /\ runs'[r].msg = runs[r].msg
    BY <1>1 DEF ChatsCalm
  <2>2. runs[r].msg \in Messages /\ messages[runs[r].msg].state # "absent"
    BY <2>1 DEF RefInv, Live, LIVE_RUN_STATES
  <2>3. ChatOfRun(r)' = ChatOfRun(r)
    BY <2>1, <2>2 DEF HistoryStep, MessagesStay, ChatOfRun
  <2> QED
    BY <1>1, <2>3 DEF ChatsCalm
<1>2. TurnsCalm /\ TurnsFollowed => TurnsFollowed'
  BY DEF TurnsCalm, TurnsFollowed, Active
<1>3. OwnRun'
  BY RunsRemain DEF OwnRunNext, OwnRun, SteadyInv, Active
<1> QED
  BY <1>1, <1>2, <1>3 DEF ChatsCalm, LiveRunsRun, SteadyInv

\* Runs that keep their message and state, in chats that stay open.
LEMMA RunsCalm ==
    ASSUME TypeInv, RefInv, SteadyInv
    PROVE  /\ /\ \A r \in Runs : /\ runs'[r].msg = runs[r].msg
                                 /\ runs'[r].state = runs[r].state
              /\ StaysOpen'
              /\ \A c \in Chats : chats[c].state = "running" =>
                                    chats'[c].state = "running"
              => ChatsCalm
           /\ UNCHANGED chats => StaysOpen'
<1>1. \A r \in Runs : Live(r) => ChatOfRun(r) \in Chats
  BY DEF RefInv, Live, LIVE_RUN_STATES, ChatOfRun
<1> QED
  BY <1>1 DEF ChatsCalm, StaysOpen, LiveRunsRun, SteadyInv, Live

\* A worker moves on, to a step behind the start of its stream.
LEMMA GotoCalm ==
    ASSUME TypeInv, SteadyInv, NEW w \in Runs, Active(w), NEW pc, pc # "off",
           Goto(w, pc), pc \in BeforeStream => At(w, "prepare") \/ At(w, "start"),
           \A r \in Runs : runs'[r].state = "running" => runs[r].state = "running"
    PROVE  TurnsCalm /\ OwnRunNext
<1>1. /\ workers'[w].pc = pc /\ workers'[w].cur = workers[w].cur
      /\ \A v \in Runs \ {w} : workers'[v] = workers[v]
  BY DEF Goto, TypeInv, WorkersOK, WorkerRow
<1> QED
  BY <1>1 DEF TurnsCalm, OwnRunNext, OwnRun, SteadyInv, Active, At, BeforeStream

\* A worker whose run is not running lets go.
LEMMA LeaveCalm ==
    ASSUME TypeInv, SteadyInv, NEW w \in Runs, Deactivate(w),
           \A r \in Runs : runs'[r].state = "running" =>
              runs[r].state = "running" /\ r # workers[w].cur
    PROVE  TurnsCalm /\ OwnRunNext
<1>1. /\ workers'[w].pc = "off"
      /\ \A v \in Runs \ {w} : workers'[v] = workers[v]
  BY DEF Deactivate, NoWorker, TypeInv, WorkersOK
<1> QED
  BY <1>1 DEF TurnsCalm, OwnRunNext, OwnRun, SteadyInv, Active, BeforeStream

\* The end of a run takes its chat out of running, and no other run is there.
LEMMA EndCalm ==
    ASSUME TypeInv, RefInv, LiveRunsAgree, SteadyInv,
           NEW r \in Runs, Live(r), ~Live(r)',
           \A q \in Runs \ {r} : runs'[q] = runs[q],
           NEW c, c = ChatOfRun(r),
           \A d \in Chats \ {c} : chats'[d] = chats[d],
           chats'[c].state # "closed", ~chats'[c].closing
    PROVE  ChatsCalm
<1>1. ASSUME NEW q \in Runs, Live(q)'
      PROVE  /\ Live(q) /\ runs'[q].msg = runs[q].msg
             /\ chats'[ChatOfRun(q)].state = "running"
  <2>1. q # r /\ Live(q) /\ runs'[q].msg = runs[q].msg
    BY <1>1 DEF Live
  <2>2. ChatOfRun(q) \in Chats /\ ChatOfRun(q) # c
    BY <2>1 DEF RefInv, LiveRunsAgree, ShellOfRun, ChatOfRun, Live,
                LIVE_RUN_STATES
  <2> QED
    BY <2>1, <2>2 DEF SteadyInv, LiveRunsRun
<1> QED
  BY <1>1 DEF ChatsCalm, SteadyInv, StaysOpen

\* In chats that stay open, every terminal edge the table has may be taken.
LEMMA LiveFinishLegal ==
    ASSUME RefInv, SteadyInv, NEW r \in Runs, Live(r),
           runs[r].state # "leased", NEW outcome \in TERMINAL_RUN_STATES,
           outcome = "succeeded" => runs[r].state = "running"
    PROVE  FinishLegal(r, outcome)
<1>1. PICK c \in Chats : c = ChatOfRun(r)
  BY DEF RefInv, ChatOfRun, Live, LIVE_RUN_STATES
<1>2. chats[c].state = "running" /\ ~chats[c].closing
  BY <1>1 DEF SteadyInv, LiveRunsRun, StaysOpen
<1>3. FinishedChatState(r, outcome) \in {"error", "queued", "idle"}
  BY DEF FinishedChatState, FinishTarget
<1>4. TransitionAllowed(RUN_TRANSITIONS, runs[r].state, outcome)
  BY DEF TransitionAllowed, RUN_TRANSITIONS, TERMINAL_RUN_STATES, Live,
         LIVE_RUN_STATES
<1>5. TransitionAllowed(CONVERSATION_TRANSITIONS, "running",
                        FinishedChatState(r, outcome))
  BY <1>3 DEF TransitionAllowed, CONVERSATION_TRANSITIONS
<1> QED
  BY <1>1, <1>2, <1>4, <1>5 DEF FinishLegal

LEMMA FinishCalm ==
    ASSUME TypeInv, RefInv, LiveRunsAgree, SteadyInv, NEW r \in Runs,
           NEW outcome \in TERMINAL_RUN_STATES, NEW keep, NEW exited,
           TryFinish(r, outcome, keep, exited)
    PROVE  /\ ChatsCalm
           /\ \A q \in Runs : runs'[q].state = "running" =>
                q # r /\ runs[q].state = "running"
<1>1. CASE Live(r) /\ FinishRun(r, outcome, keep, exited)
  <2>1. PICK c \in Chats : c = ChatOfRun(r)
    BY <1>1 DEF RefInv, Live, LIVE_RUN_STATES, ChatOfRun
  <2>2. chats[c].state = "running" /\ ~chats[c].closing
    BY <1>1, <2>1 DEF SteadyInv, LiveRunsRun, StaysOpen
  <2>3. chats' = [chats EXCEPT ![c].state = FinishedChatState(r, outcome)]
    BY <1>1, <2>1, <2>2 DEF FinishRun
  <2>4. FinishedChatState(r, outcome) \in {"error", "queued", "idle"}
    BY DEF FinishedChatState, FinishTarget
  <2>5. /\ chats'[c].state # "closed" /\ ~chats'[c].closing
        /\ \A d \in Chats \ {c} : chats'[d] = chats[d]
    BY <2>2, <2>3, <2>4 DEF TypeInv, RowsOK, ChatRow
  <2>6. PICK row : row.state = outcome /\ runs' = [runs EXCEPT ![r] = row]
    <3>1. Settled(r, outcome, exited).state = outcome
      BY DEF Settled, NoRun
    <3> QED
      BY <1>1, <3>1 DEF FinishRun
  <2>7. runs'[r].state = outcome /\ \A q \in Runs \ {r} : runs'[q] = runs[q]
    BY <2>6 DEF TypeInv, RowsOK
  <2>8. ~Live(r)' /\ outcome # "running"
    BY <2>7 DEF Live, LIVE_RUN_STATES, TERMINAL_RUN_STATES
  <2> QED
    BY <1>1, <2>1, <2>5, <2>7, <2>8, EndCalm
<1>2. CASE ~(Live(r) /\ FinishLegal(r, outcome)) /\ UNCHANGED rows
  <2>1. ChatsCalm
    BY <1>2, RunsCalm DEF rows
  <2>2. runs[r].state # "running"
    BY <1>2, LiveFinishLegal DEF Live, LIVE_RUN_STATES
  <2> QED
    BY <1>2, <2>1, <2>2 DEF rows
<1> QED
  BY <1>1, <1>2 DEF TryFinish

LEMMA FinishAndStopCalm ==
    ASSUME TypeInv, RefInv, LiveRunsAgree, SteadyInv, NEW w \in Runs, Active(w),
           NEW outcome \in TERMINAL_RUN_STATES, NEW keep, NEW exited,
           FinishAndStop(w, outcome, keep, exited)
    PROVE  ChatsCalm /\ TurnsCalm /\ OwnRunNext
<1>1. workers[w].cur \in Runs
  BY WorkerTypes
<1> QED
  BY <1>1, FinishCalm, LeaveCalm DEF FinishAndStop

\* A worker at work, save when it starts or carries on a turn.
LEMMA WorkCalm ==
    ASSUME TypeInv, RefInv, SubmitInv, LiveRunsAgree, SteadyInv,
           NEW w \in Runs, Work(w)
    PROVE  \/ MarkNativeStarted(w) \/ OpenContinuation(w)
           \/ ChatsCalm /\ TurnsCalm /\ OwnRunNext
<1>0. {"failed", "unknown"} \subseteq TERMINAL_RUN_STATES
  BY DEF TERMINAL_RUN_STATES
<1>1. ASSUME NEW o \in TERMINAL_RUN_STATES, NEW k, NEW e,
             Active(w), FinishAndStop(w, o, k, e)
      PROVE  ChatsCalm /\ TurnsCalm /\ OwnRunNext
  BY <1>1, FinishAndStopCalm
<1>2. CASE Prepare(w)
  <2>1. \A r \in Runs : /\ runs'[r].msg = runs[r].msg
                        /\ runs'[r].state = runs[r].state
    BY <1>2 DEF Prepare, TypeInv, RowsOK, RunRow
  <2> QED
    BY <1>2, <2>1, RunsCalm, GotoCalm DEF Prepare, At, Active
<1>3. CASE PrepareRebound(w) \/ PrepareRefused(w)
  BY <1>0, <1>1, <1>3 DEF PrepareRebound, PrepareRefused, At, Active
<1>4. CASE Defer(w)
  <2>1. \A r \in Runs : /\ runs'[r].msg = runs[r].msg
                        /\ runs'[r].state = runs[r].state
    BY <1>4 DEF Defer, TypeInv, RowsOK, RunRow
  <2>2. workers[w].cur = w /\ runs[w].state = "leased"
    BY <1>4 DEF Defer, At, SteadyInv, OwnRun, BeforeStream
  <2> QED
    BY <1>4, <2>1, <2>2, RunsCalm, LeaveCalm DEF Defer
<1>5. CASE MarkStarting(w)
  <2>1. CASE runs[w].state = "leased"
    <3>1. /\ runs'[w].state = "starting" /\ runs'[w].msg = runs[w].msg
          /\ \A r \in Runs \ {w} : runs'[r] = runs[r]
      BY <1>5, <2>1 DEF MarkStarting, TypeInv, RowsOK, RunRow
    <3>2. Goto(w, "spawn") /\ UNCHANGED chats
      BY <1>5, <2>1 DEF MarkStarting
    <3>3. ChatsCalm
      BY <2>1, <3>1, <3>2, RunsCalm
         DEF ChatsCalm, SteadyInv, LiveRunsRun, Live, LIVE_RUN_STATES
    <3> QED
      BY <1>5, <3>1, <3>2, <3>3, GotoCalm DEF MarkStarting, At, Active
  <2> QED
    BY <1>0, <1>1, <1>5, <2>1 DEF MarkStarting, At, Active
<1>6. CASE Spawn(w)
  <2>1. PICK p : workers' = [workers EXCEPT ![w].pc = "native", ![w].proc = p]
    BY <1>6 DEF Spawn
  <2>2. /\ workers'[w].pc = "native" /\ workers'[w].cur = workers[w].cur
        /\ \A v \in Runs \ {w} : workers'[v] = workers[v]
    BY <2>1 DEF TypeInv, WorkersOK, WorkerRow
  <2>3. TurnsCalm /\ OwnRunNext
    BY <1>6, <2>2 DEF Spawn, rows, At, TurnsCalm, OwnRunNext, SteadyInv, OwnRun,
                      Active, BeforeStream
  <2> QED
    BY <1>6, <2>3, RunsCalm DEF Spawn, rows
<1>7. CASE SpawnFails(w)
  <2>1. workers[w].cur = w
    BY <1>7 DEF SpawnFails, At, SteadyInv, OwnRun, BeforeStream
  <2> QED
    BY <1>0, <1>7, <2>1, FinishCalm, LeaveCalm DEF SpawnFails
<1>8. CASE \/ NativeStartRollsBack(w) \/ StreamRefused(w) \/ RecoverLost(w)
           \/ \E o \in TERMINAL_RUN_STATES : Reconcile(w, o)
  BY <1>0, <1>1, <1>8 DEF NativeStartRollsBack, StreamRefused, RecoverLost,
                          Reconcile, Streaming, At, Active
<1>9. CASE LingerFinish(w)
  <2>1. /\ ChatsCalm
        /\ \A q \in Runs : runs'[q].state = "running" =>
             q # workers[w].cur /\ runs[q].state = "running"
    BY <1>9, FinishCalm, OutcomeTypes, WorkerTypes DEF LingerFinish, At, Active
  <2>2. CASE workers' = [workers EXCEPT ![w].pc = "linger",
                                        ![w].terminal = "none"]
    <3>1. /\ workers'[w].pc = "linger"
          /\ \A v \in Runs \ {w} : workers'[v] = workers[v]
      BY <2>2 DEF TypeInv, WorkersOK, WorkerRow
    <3> QED
      BY <1>9, <2>1, <3>1 DEF LingerFinish, TurnsCalm, OwnRunNext, SteadyInv,
                              OwnRun, At, Active, BeforeStream
  <2> QED
    BY <1>9, <2>1, <2>2, LeaveCalm DEF LingerFinish
<1>10. CASE StreamEnds(w)
  BY <1>1, <1>10, OutcomeTypes DEF StreamEnds, Streaming, At, Active
<1>11. CASE StreamBreaks(w)
  <2>1. CASE Goto(w, "reconcile") /\ UNCHANGED <<rows, InMemory>>
    BY <1>11, <2>1, RunsCalm, GotoCalm
       DEF StreamBreaks, Streaming, rows, At, Active, BeforeStream
  <2> QED
    BY <1>0, <1>1, <1>11, <2>1, OutcomeTypes
       DEF StreamBreaks, Streaming, At, Active
<1>12. CASE ContinuationRefused(w) \/ LingerEnds(w)
  <2>1. /\ \A r \in Runs : /\ runs'[r].msg = runs[r].msg
                           /\ runs'[r].state = runs[r].state
        /\ UNCHANGED chats /\ Deactivate(w) /\ At(w, "linger")
    BY <1>12 DEF ContinuationRefused, LingerEnds, ReleaseProcessLink, rows,
                 TypeInv, RowsOK, RunRow
  <2>2. runs[workers[w].cur].state # "running"
    BY <2>1 DEF SubmitInv, WorkersKnowTheirRun, Finished, TERMINAL_RUN_STATES
  <2> QED
    BY <2>1, <2>2, RunsCalm, LeaveCalm
<1> QED
  BY <1>2, <1>3, <1>4, <1>5, <1>6, <1>7, <1>8, <1>9, <1>10, <1>11, <1>12
     DEF Work

\* A live run appears, or a turn starts to run, with a worker that has it.
LEMMA StartCalm ==
    ASSUME TypeInv, RefInv, LiveRunsAgree, SteadyInv, HistoryStep,
           NEW r \in Runs, NEW w \in Runs, NEW c \in Chats,
           \A q \in Runs \ {r} : runs'[q] = runs[q],
           \A v \in Runs \ {w} : workers'[v] = workers[v],
           chats' = [chats EXCEPT ![c].state = "running"],
           Live(r)', ChatOfRun(r)' = c,
           workers'[w].pc # "off", workers'[w].cur = r,
           workers'[w].pc \in BeforeStream => r = w,
           Active(w) \/ w = r,
           Active(w) => workers[w].cur = r
                        \/ runs[workers[w].cur].state # "running"
    PROVE  SteadyInv' /\ (TurnsFollowed => TurnsFollowed')
<1>1. StaysOpen'
  BY DEF SteadyInv, StaysOpen, TypeInv, RowsOK, ChatRow
<1>2. ASSUME NEW q \in Runs, Live(q)'
      PROVE  chats'[ChatOfRun(q)'].state = "running"
  <2>1. CASE q = r
    BY <2>1 DEF TypeInv, RowsOK, ChatRow
  <2>2. CASE q # r
    <3>1. Live(q) /\ runs'[q].msg = runs[q].msg
      BY <1>2, <2>2 DEF Live
    <3>2. /\ runs[q].msg \in Messages /\ messages[runs[q].msg].state # "absent"
          /\ ChatOfRun(q) \in Chats
      BY <3>1 DEF RefInv, Live, LIVE_RUN_STATES, ChatOfRun
    <3>3. ChatOfRun(q)' = ChatOfRun(q)
      BY <3>1, <3>2 DEF HistoryStep, MessagesStay, ChatOfRun
    <3> QED
      BY <3>1, <3>2, <3>3 DEF SteadyInv, LiveRunsRun, TypeInv, RowsOK, ChatRow
  <2> QED
    BY <2>1, <2>2
<1>3. ASSUME TurnsFollowed, NEW q \in Runs, runs'[q].state = "running"
      PROVE  \E v \in Runs : workers'[v].pc # "off" /\ workers'[v].cur = q
  <2>1. CASE q = r
    BY <2>1
  <2>2. CASE q # r
    <3>1. PICK v \in Runs : Active(v) /\ workers[v].cur = q
      BY <1>3, <2>2 DEF TurnsFollowed
    <3>2. v # w
      BY <1>3, <2>2, <3>1
    <3> QED
      BY <3>1, <3>2 DEF Active
  <2> QED
    BY <2>1, <2>2
<1>4. OwnRun'
  <2>1. runs'[r].state # "absent"
    BY DEF Live, LIVE_RUN_STATES
  <2> QED
    BY <2>1, RunsRemain DEF SteadyInv, OwnRun, Active
<1> QED
  BY <1>1, <1>2, <1>3, <1>4 DEF SteadyInv, LiveRunsRun, TurnsFollowed, Active

LEMMA NativeCalm ==
    ASSUME TypeInv, RefInv, LiveRunsAgree, SteadyInv, HistoryStep,
           NEW w \in Runs, MarkNativeStarted(w)
    PROVE  SteadyInv' /\ (TurnsFollowed => TurnsFollowed')
<1>1. /\ runs'[w].state = "running" /\ runs'[w].msg = runs[w].msg
      /\ \A q \in Runs \ {w} : runs'[q] = runs[q]
  BY DEF MarkNativeStarted, TypeInv, RowsOK, RunRow
<1>2. /\ workers'[w].pc = "stream" /\ workers'[w].cur = workers[w].cur
      /\ \A v \in Runs \ {w} : workers'[v] = workers[v]
  BY DEF MarkNativeStarted, Goto, TypeInv, WorkersOK, WorkerRow
<1>3. workers[w].cur = w /\ runs[w].state = "starting" /\ Live(w)
  BY DEF MarkNativeStarted, At, SteadyInv, OwnRun, BeforeStream, Live,
         LIVE_RUN_STATES
<1>4. PICK c \in Chats : c = ChatOfRun(w)
  BY <1>3 DEF RefInv, ChatOfRun
<1>5. chats[c].state = "running" /\ UNCHANGED chats /\ UNCHANGED messages
  BY <1>3, <1>4 DEF SteadyInv, LiveRunsRun, MarkNativeStarted
<1>6. chats' = [chats EXCEPT ![c].state = "running"]
  BY <1>5 DEF TypeInv, RowsOK, ChatRow
<1>7. ChatOfRun(w)' = c /\ Live(w)'
  BY <1>1, <1>4, <1>5 DEF ChatOfRun, Live, LIVE_RUN_STATES
<1> QED
  BY <1>1, <1>2, <1>3, <1>6, <1>7, StartCalm DEF BeforeStream

LEMMA ContinuationCalm ==
    ASSUME TypeInv, RefInv, SubmitInv, LiveRunsAgree, SteadyInv, HistoryStep,
           NEW w \in Runs, OpenContinuation(w)
    PROVE  SteadyInv' /\ (TurnsFollowed => TurnsFollowed')
<1>1. PICK old, new, row :
        /\ old = workers[w].cur /\ old \in Runs /\ Finished(old)
        /\ new \in Runs
        /\ row.state = "running" /\ row.msg = runs[old].msg
        /\ runs' = [runs EXCEPT ![new] = row]
        /\ workers' = [workers EXCEPT ![w].pc = "stream", ![w].cur = new,
                                      ![w].terminal = "none"]
        /\ runs[new].state = "absent"
  <2> DEFINE row == [NoRun EXCEPT !.state = "running",
                                  !.msg = runs[workers[w].cur].msg,
                                  !.pid = runs[workers[w].cur].pid]
  <2>1. PICK new \in FirstUnused(Runs, runs) :
          /\ runs' = [runs EXCEPT ![new] = row]
          /\ workers' = [workers EXCEPT ![w].pc = "stream", ![w].cur = new,
                                        ![w].terminal = "none"]
    BY DEF OpenContinuation
  <2>2. workers[w].cur \in Runs /\ Finished(workers[w].cur)
    BY WorkerTypes DEF OpenContinuation, At, Active, SubmitInv,
                       WorkersKnowTheirRun
  <2>3. row.state = "running" /\ row.msg = runs[workers[w].cur].msg
    BY DEF NoRun
  <2>4. new \in Runs /\ runs[new].state = "absent"
    BY <2>1 DEF FirstUnused
  <2> HIDE DEF row
  <2> QED
    BY <2>1, <2>2, <2>3, <2>4
<1>2. runs'[new] = row /\ \A q \in Runs \ {new} : runs'[q] = runs[q]
  BY <1>1 DEF TypeInv, RowsOK
<1>3. /\ workers'[w].pc = "stream" /\ workers'[w].cur = new
      /\ \A v \in Runs \ {w} : workers'[v] = workers[v]
  BY <1>1 DEF TypeInv, WorkersOK, WorkerRow
<1>4. PICK c \in Chats : c = ChatOfRun(old)
  BY <1>1 DEF RefInv, Finished, TERMINAL_RUN_STATES, ChatOfRun
<1>5. chats' = [chats EXCEPT ![c].state = "running"] /\ UNCHANGED messages
  BY <1>1, <1>4 DEF OpenContinuation
<1>6. ChatOfRun(new)' = c /\ Live(new)'
  BY <1>1, <1>2, <1>4, <1>5 DEF ChatOfRun, Live, LIVE_RUN_STATES
<1>7. runs[workers[w].cur].state # "running" /\ Active(w)
  BY <1>1 DEF Finished, TERMINAL_RUN_STATES, OpenContinuation, At, Active
<1> QED
  BY <1>1, <1>2, <1>3, <1>5, <1>6, <1>7, StartCalm DEF BeforeStream

LEMMA ClaimCalm ==
    ASSUME TypeInv, RefInv, SubmitInv, LiveRunsAgree, SteadyInv, HistoryStep,
           ClaimNext
    PROVE  SteadyInv' /\ (TurnsFollowed => TurnsFollowed')
<1>1. PICK m, new, row, wrk :
        /\ m \in Messages /\ messages[m].state = "queued"
        /\ new \in Runs /\ runs[new].state = "absent"
        /\ row.state = "leased" /\ row.msg = m
        /\ runs' = [runs EXCEPT ![new] = row]
        /\ wrk.pc = "prepare" /\ wrk.cur = new
        /\ workers' = [workers EXCEPT ![new] = wrk]
        /\ chats' = [chats EXCEPT ![messages[m].chat].state = "running"]
  <2> DEFINE row(m) == [NoRun EXCEPT !.state = "leased", !.msg = m]
             wrk(r) == [NoWorker EXCEPT !.pc = "prepare", !.cur = r]
  <2>1. PICK m \in Claimable, r \in FirstUnused(Runs, runs) :
          /\ runs' = [runs EXCEPT ![r] = row(m)]
          /\ workers' = [workers EXCEPT ![r] = wrk(r)]
          /\ chats' = [chats EXCEPT ![messages[m].chat].state = "running"]
    BY DEF ClaimNext
  <2>2. /\ m \in Messages /\ r \in Runs /\ runs[r].state = "absent"
        /\ messages[m].state = "queued"
    BY <2>1 DEF Claimable, FirstUnused
  <2>3. /\ row(m).state = "leased" /\ row(m).msg = m
        /\ wrk(r).pc = "prepare" /\ wrk(r).cur = r
    BY DEF NoRun, NoWorker
  <2> HIDE DEF row, wrk
  <2> QED
    BY <2>1, <2>2, <2>3
<1>2. /\ runs'[new] = row /\ \A r \in Runs \ {new} : runs'[r] = runs[r]
      /\ workers'[new] = wrk
      /\ \A v \in Runs \ {new} : workers'[v] = workers[v]
  BY <1>1 DEF TypeInv, RowsOK, WorkersOK
<1>3. PICK c \in Chats : c = messages[m].chat
  BY <1>1 DEF RefInv
<1>4. ChatOfRun(new)' = c /\ Live(new)'
  BY <1>1, <1>2, <1>3
     DEF HistoryStep, MessagesStay, ChatOfRun, Live, LIVE_RUN_STATES
<1>5. ~Active(new)
  BY <1>1 DEF SteadyInv, OwnRun
<1> QED
  BY <1>1, <1>2, <1>3, <1>4, <1>5, StartCalm

\* Workers left alone, or told of an interrupt.
LEMMA TellCalm ==
    ASSUME TypeInv, SteadyInv, UNCHANGED workers \/ \E q : InterruptWorkers(q),
           \A r \in Runs : runs'[r].state = "running" => runs[r].state = "running"
    PROVE  TurnsCalm /\ OwnRunNext
<1>1. PICK w : \/ workers' = workers
               \/ workers' = [workers EXCEPT ![w].interrupt = TRUE]
  BY DEF InterruptWorkers
<1>2. \A v \in Runs : /\ workers'[v].pc = workers[v].pc
                      /\ workers'[v].cur = workers[v].cur
  BY <1>1 DEF TypeInv, WorkersOK, WorkerRow
<1> QED
  BY <1>2 DEF TurnsCalm, OwnRunNext, SteadyInv, OwnRun, Active

LEMMA SweepCalm ==
    ASSUME TypeInv, RefInv, LiveRunsAgree, SteadyInv, NEW r \in Runs, Sweep(r)
    PROVE  ChatsCalm /\ TurnsCalm /\ OwnRunNext
<1>1. CASE SweepInterrupt(r) \/ SweepSignals(r)
  <2>1. \A q \in Runs : /\ runs'[q].msg = runs[q].msg
                        /\ runs'[q].state = runs[q].state
    <3>1. CASE SweepInterrupt(r)
      BY <3>1, MarkedRuns DEF SweepInterrupt
    <3>2. CASE SweepSignals(r)
      BY <3>2 DEF SweepSignals, TypeInv, RowsOK, RunRow
    <3> QED
      BY <1>1, <3>1, <3>2
  <2> QED
    BY <1>1, <2>1, RunsCalm, TellCalm DEF SweepInterrupt, SweepSignals
<1>2. ASSUME NEW exited, ReaperFinish(r, exited), UNCHANGED workers
      PROVE  ChatsCalm /\ TurnsCalm /\ OwnRunNext
  <2> DEFINE final == IF Live(r) THEN "cancelled" ELSE runs[r].state
             row   == [Settled(r, final, exited) EXCEPT !.rung = "ended"]
  <2>1. /\ runs' = [runs EXCEPT ![r] = row]
        /\ row.state = final /\ row.msg = runs[r].msg
    BY <1>2 DEF ReaperFinish, Settled, NoRun
  <2>2. /\ \A q \in Runs \ {r} : runs'[q] = runs[q]
        /\ runs'[r].msg = runs[r].msg
        /\ runs'[r].state = final
    <3> HIDE DEF row
    <3> QED
      BY <2>1 DEF TypeInv, RowsOK
  <2>3. \A q \in Runs : runs'[q].state = "running" => runs[q].state = "running"
    BY <2>2 DEF Live, LIVE_RUN_STATES
  <2>4. CASE Live(r)
    <3>1. PICK c \in Chats : c = ChatOfRun(r)
      BY <2>4 DEF RefInv, Live, LIVE_RUN_STATES, ChatOfRun
    <3>2. chats[c].state = "running" /\ ~chats[c].closing
      BY <2>4, <3>1 DEF SteadyInv, LiveRunsRun, StaysOpen
    <3>3. PICK s \in {"queued", "idle"} : chats' = [chats EXCEPT ![c].state = s]
      BY <1>2, <2>4, <3>1, <3>2 DEF ReaperFinish
    <3>4. /\ chats'[c].state # "closed" /\ ~chats'[c].closing
          /\ \A d \in Chats \ {c} : chats'[d] = chats[d]
      BY <3>2, <3>3 DEF TypeInv, RowsOK, ChatRow
    <3>5. ~Live(r)'
      BY <2>2, <2>4 DEF Live, LIVE_RUN_STATES
    <3> QED
      BY <1>2, <2>2, <2>3, <2>4, <3>1, <3>4, <3>5, EndCalm, TellCalm
  <2>5. CASE ~Live(r)
    BY <1>2, <2>2, <2>3, <2>5, RunsCalm, TellCalm DEF ReaperFinish
  <2> QED
    BY <2>4, <2>5
<1>3. CASE SweepGone(r) \/ SweepKilled(r)
  BY <1>2, <1>3 DEF SweepGone, SweepKilled
<1> QED
  BY <1>1, <1>3 DEF Sweep

LEMMA ApiCalm ==
    ASSUME ~Closes, TypeInv, RefInv, OpenInv, SteadyInv, NEW c \in Chats, Api(c)
    PROVE  ChatsCalm /\ TurnsCalm /\ OwnRunNext
<1>1. ASSUME UNCHANGED <<runs, workers>>, StaysOpen',
             \A d \in Chats : chats[d].state = "running" =>
                                chats'[d].state = "running"
      PROVE  ChatsCalm /\ TurnsCalm /\ OwnRunNext
  BY <1>1, RunsCalm, TellCalm
<1>2. CASE CreateCloses(c) \/ CreateLoses(c)
  <2>1. UNCHANGED <<chats, runs, workers>>
    BY <1>2 DEF CreateCloses, CreateLoses, WithoutActive, rows
  <2> QED
    BY <1>1, <2>1, RunsCalm
<1>3. CASE CreateRegisters(c)
  <2>1. ~Exists(c)
    BY <1>3 DEF CreateRegisters, OpenInv
  <2>2. /\ chats'[c].state = "idle" /\ chats'[c].closing = chats[c].closing
        /\ \A d \in Chats \ {c} : chats'[d] = chats[d]
        /\ UNCHANGED <<runs, workers>>
    BY <1>3 DEF CreateRegisters, TypeInv, RowsOK, ChatRow
  <2> QED
    BY <1>1, <2>1, <2>2 DEF SteadyInv, StaysOpen, Exists
<1>4. CASE Send(c)
  <2>1. PICK s : /\ chats' = [chats EXCEPT ![c].state = s]
                 /\ s = IF chats[c].state \in {"queued", "running"}
                        THEN chats[c].state ELSE "queued"
    BY <1>4 DEF Send, Accept
  <2>2. /\ chats'[c].state = s /\ chats'[c].closing = chats[c].closing
        /\ \A d \in Chats \ {c} : chats'[d] = chats[d]
        /\ UNCHANGED <<runs, workers>>
    BY <1>4, <2>1 DEF Send, TypeInv, RowsOK, ChatRow
  <2> QED
    BY <1>1, <2>1, <2>2 DEF SteadyInv, StaysOpen
<1>5. CASE Stop(c)
  <2>1. PICK r : InterruptWorkers(r) /\ runs' = WithIntent(r, runs)
    BY <1>5 DEF Stop
  <2>2. \A q \in Runs : /\ runs'[q].msg = runs[q].msg
                        /\ runs'[q].state = runs[q].state
    BY <2>1, MarkedRuns
  <2> QED
    BY <1>5, <2>1, <2>2, RunsCalm, TellCalm DEF Stop
<1>6. CASE SendReopens(c)
  BY <1>6 DEF SendReopens, Open, SteadyInv, StaysOpen
<1> QED
  BY <1>2, <1>3, <1>4, <1>5, <1>6 DEF Api, WakeCloses, Close, CloseInactive

LEMMA AdoptCalm ==
    ASSUME TypeInv, RefInv, SteadyInv, NEW r \in Runs, LeaseExpires(r) \/ Adopt(r)
    PROVE  ChatsCalm /\ TurnsCalm /\ OwnRunNext
<1>1. \A q \in Runs : /\ runs'[q].msg = runs[q].msg
                      /\ runs'[q].state = runs[q].state
  BY DEF LeaseExpires, Adopt, TypeInv, RowsOK, RunRow
<1>2. ChatsCalm
  BY <1>1, RunsCalm DEF LeaseExpires, Adopt
<1>3. CASE UNCHANGED workers
  BY <1>1, <1>2, <1>3, TellCalm
<1>4. CASE Adopt(r) /\ ~Active(r)
  <2> DEFINE row == [NoWorker EXCEPT
                       !.pc = RecoveredStep(r), !.cur = r,
                       !.proc = runs[r].pid, !.interrupt = runs[r].intent]
  <2>1. workers' = [workers EXCEPT ![r] = row] /\ row.cur = r
    BY <1>4 DEF Adopt, NoWorker
  <2> HIDE DEF row
  <2>2. /\ workers'[r].cur = r
        /\ \A v \in Runs \ {r} : workers'[v] = workers[v]
    BY <2>1 DEF TypeInv, WorkersOK
  <2>3. runs[r].state # "absent"
    BY <1>4 DEF Adopt, Live, LIVE_RUN_STATES
  <2> QED
    BY <1>1, <1>2, <1>4, <2>2, <2>3
       DEF TurnsCalm, OwnRunNext, SteadyInv, OwnRun, Active
<1> QED
  BY <1>3, <1>4 DEF LeaseExpires, Adopt

LEMMA CalmStep ==
    ASSUME ~Closes, KnownInv, LiveRunsAgree, SteadyInv, [Next]_vars
    PROVE  /\ SteadyInv'
           /\ MaxCrashes = 0 /\ TurnsFollowed => TurnsFollowed'
<1> DEFINE Kept == SteadyInv' /\ (TurnsFollowed => TurnsFollowed')
<1>0. TypeInv /\ RefInv /\ SubmitInv /\ OpenInv /\ HistoryStep
  BY StepStays DEF KnownInv
<1>1. ChatsCalm /\ TurnsCalm /\ OwnRunNext => Kept
  BY <1>0, CalmKept
<1>2. UNCHANGED <<chats, runs, workers>> => Kept
  BY <1>0, <1>1, RunsCalm, TellCalm
<1>3. ASSUME NEW w \in Runs, Work(w)
      PROVE  Kept
  BY <1>0, <1>1, <1>3, WorkCalm, NativeCalm, ContinuationCalm
<1>4. ASSUME NEW w \in Runs, Report(w)
      PROVE  Kept
  <2>1. /\ workers'[w].pc = workers[w].pc /\ workers'[w].cur = workers[w].cur
        /\ \A v \in Runs \ {w} : workers'[v] = workers[v]
        /\ UNCHANGED <<chats, runs>>
    BY <1>0, <1>4 DEF Report, StreamTerminal, rows, TypeInv, WorkersOK, WorkerRow
  <2>2. TurnsCalm /\ OwnRunNext
    BY <2>1 DEF TurnsCalm, OwnRunNext, SteadyInv, OwnRun, Active
  <2> QED
    BY <1>0, <1>1, <2>1, <2>2, RunsCalm
<1>5. ASSUME BeginDispatch \/ EndDispatch \/ Restart \/ UNCHANGED vars
      PROVE  Kept
  BY <1>2, <1>5 DEF BeginDispatch, EndDispatch, Restart, rows, vars
<1>6. ASSUME ClaimNext
      PROVE  Kept
  BY <1>0, <1>6, ClaimCalm
<1>7. ASSUME NEW r \in Runs, LeaseExpires(r) \/ Adopt(r) \/ Sweep(r)
      PROVE  Kept
  BY <1>0, <1>1, <1>7, AdoptCalm, SweepCalm
<1>8. ASSUME NEW c \in Chats, Api(c)
      PROVE  Kept
  BY <1>0, <1>1, <1>8, ApiCalm
<1>9. ASSUME NEW p \in Procs, Terminate(p) \/ ProcessExits(p)
      PROVE  Kept
  BY <1>2, <1>9 DEF Terminate, ProcessExits, rows
<1>10. Crash => SteadyInv' /\ MaxCrashes # 0
  <2> SUFFICES ASSUME Crash
               PROVE  SteadyInv' /\ MaxCrashes # 0
    OBVIOUS
  <2>1. MaxCrashes # 0
    BY <1>0 DEF Crash, TypeInv, RestOK, BrokerRow
  <2>2. /\ UNCHANGED <<chats, runs>>
        /\ \A w \in Runs : workers'[w].pc = "off"
    BY DEF Crash, rows, NoWorker
  <2>3. ChatsCalm /\ OwnRunNext
    BY <1>0, <2>2, RunsCalm DEF OwnRunNext, BeforeStream
  <2> QED
    BY <1>0, <2>1, <2>3, CalmKept
<1> HIDE DEF Kept
<1>11. Kept \/ Crash
  BY <1>3, <1>4, <1>5, <1>6, <1>7, <1>8, <1>9 DEF Next, Dispatch
<1>12. Kept => SteadyInv' /\ (TurnsFollowed => TurnsFollowed')
  BY DEF Kept
<1> QED
  BY <1>10, <1>11, <1>12

LEMMA CalmInit == Init => CalmInv
  BY DEF Init, CalmInv, SteadyInv, StaysOpen, LiveRunsRun, TurnsFollowed, OwnRun, Live,
         LIVE_RUN_STATES, NoRun, NoWorker, BeforeStream, Active

\* The reaper needs a recorded process, so it ends a running turn only, and
\* that turn has its worker.
LEMMA CalmReaper ==
    ASSUME SubmitInv, CalmInv
    PROVE  ~ReaperRequeues
<1> SUFFICES ASSUME ReaperRequeues
             PROVE  FALSE
  OBVIOUS
<1>1. PICK r \in Runs : Live(r) /\ runs[r].pid # None
  BY DEF ReaperRequeues, SweepGone, SweepKilled, Sweeping, Candidate
<1>2. runs[r].state = "running"
  BY <1>1 DEF SubmitInv, NoEarlyProcess, Unstarted, Live, LIVE_RUN_STATES
<1> QED
  BY <1>2 DEF CalmInv, TurnsFollowed, ReaperRequeues

\* Where chats are not closed and the server does not die, no wake is lost: a
\* claimable intent always has a dispatcher that will look for it.
THEOREM NoLostWakeHolds ==
    ASSUME ~Closes, MaxCrashes = 0
    PROVE  Spec => []NoLostWake
<1> DEFINE Calm == LiveRunsAgree /\ CalmInv /\ NoLostWake
<1>1. Init => Calm
  BY CalmInit DEF Init, HonestInv, LiveRunsAgree, Live, NoRun,
                  LIVE_RUN_STATES, NoLostWake, Claimable
<1>2. KnownInv /\ Calm /\ [Next]_vars => Calm'
  <2> SUFFICES ASSUME KnownInv, Calm, [Next]_vars
               PROVE  Calm'
    OBVIOUS
  <2>1. TypeInv /\ RefInv /\ SubmitInv
    BY DEF KnownInv
  <2>2. LiveRunsAgree'
    BY <2>1, StepStays, LiveRunsStep
  <2>3. CalmInv'
    BY CalmStep DEF CalmInv
  <2>4. NoLostWake'
    BY <2>1, CalmReaper, WakeStep
  <2> QED
    BY <2>2, <2>3, <2>4
<1>3. Calm => NoLostWake
  OBVIOUS
<1> HIDE DEF Calm
<1>4. Spec => []KnownInv
  BY ContractHolds, PTL
<1> QED
  BY <1>1, <1>2, <1>3, <1>4, PTL DEF Spec

-----------------------------------------------------------------------------
(* The late settlement (a worker that ends and leaves its run live) needs a *)
(* chat closed and opened again during the turn: where chats stay open, a   *)
(* worker that leaves has settled its run, over any number of crashes.      *)

Streams == {"stream", "tail", "reconcile"}

\* A worker at a stream follows a run that has started.
StreamInv ==
    \A w \in Runs : workers[w].pc \in Streams =>
                      runs[workers[w].cur].state \in Started

StreamsNext ==
    \A w \in Runs : workers'[w].pc \in Streams =>
        \/ workers[w].pc \in Streams /\ workers'[w].cur = workers[w].cur
        \/ runs'[workers'[w].cur].state \in Started

LEMMA StartedStays ==
    ASSUME TypeInv, SubmitInv, [Next]_vars
    PROVE  \A r \in Runs : runs[r].state \in Started => runs'[r].state \in Started
<1>1. RunsName => \A r \in Runs : runs[r].state \in Started =>
                                    runs'[r].state \in Started
  <2>1. \A r \in Runs : runs'[r].state \in RunStates
    BY StepTypes DEF TypeInv, RowsOK, RunRow
  <2> QED
    BY <2>1 DEF RunsName, RunStates, RUN_TRANSITIONS, Started, Unstarted,
                TERMINAL_RUN_STATES
<1>2. ASSUME NEW w \in Runs, Spawn(w) \/ SpawnFails(w)
      PROVE  \A r \in Runs : runs[r].state \in Started => runs'[r].state \in Started
  BY <1>1, <1>2, FinishNames DEF Spawn, SpawnFails, rows, TERMINAL_RUN_STATES
<1>3. ASSUME NEW w \in Runs, MarkNativeStarted(w)
      PROVE  \A r \in Runs : runs[r].state \in Started => runs'[r].state \in Started
  BY <1>3 DEF MarkNativeStarted, Started, TypeInv, RowsOK, RunRow
<1>4. ASSUME \/ ClaimNext \/ \E w \in Runs : OpenContinuation(w)
      PROVE  \A r \in Runs : runs[r].state \in Started => runs'[r].state \in Started
  <2>1. PICK new \in FirstUnused(Runs, runs) :
          \E row : runs' = [runs EXCEPT ![new] = row]
    BY <1>4 DEF ClaimNext, OpenContinuation
  <2> QED
    BY <2>1 DEF FirstUnused, Started, TERMINAL_RUN_STATES, TypeInv, RowsOK
<1> QED
  BY <1>1, <1>2, <1>3, <1>4, StepNames DEF NamesNobody

\* A worker's step moves no other worker.
LEMMA WorkOwn ==
    ASSUME TypeInv, NEW w \in Runs, Work(w)
    PROVE  \A v \in Runs \ {w} : workers'[v] = workers[v]
  BY DEF Work, Goto, Deactivate, FinishAndStop, Prepare, PrepareRebound,
         PrepareRefused, Defer, MarkStarting, Spawn, SpawnFails,
         MarkNativeStarted, NativeStartRollsBack, StreamRefused, LingerFinish,
         StreamEnds, StreamBreaks, OpenContinuation, ContinuationRefused,
         LingerEnds, Reconcile, RecoverLost, TypeInv, WorkersOK

LEMMA WorkStreams ==
    ASSUME TypeInv, SubmitInv, NEW w \in Runs, Work(w)
    PROVE  StreamsNext
<1>0. \A v \in Runs \ {w} : workers'[v] = workers[v]
  BY WorkOwn
<1>1. workers'[w].pc \notin Streams => StreamsNext
  BY <1>0 DEF StreamsNext
<1>2. Deactivate(w) => StreamsNext
  <2>1. Deactivate(w) => workers'[w].pc = "off"
    BY DEF Deactivate, NoWorker, TypeInv, WorkersOK
  <2> QED
    BY <1>1, <2>1 DEF Streams
<1>3. \A pc : Goto(w, pc) => workers'[w].pc = pc /\ workers'[w].cur = workers[w].cur
  BY DEF Goto, TypeInv, WorkersOK, WorkerRow
<1>4. \A o, k, e : FinishAndStop(w, o, k, e) => StreamsNext
  BY <1>2 DEF FinishAndStop
<1>5. CASE Prepare(w) \/ MarkStarting(w)
  <2>1. CASE Goto(w, "start") \/ Goto(w, "spawn")
    <3>1. workers'[w].pc \in {"start", "spawn"}
      BY <1>3, <2>1
    <3> QED
      BY <1>1, <3>1 DEF Streams
  <2>2. CASE FinishAndStop(w, "unknown", FALSE, FALSE)
    BY <1>4, <2>2
  <2> QED
    BY <1>5, <2>1, <2>2 DEF Prepare, MarkStarting
<1>6. CASE Spawn(w)
  <2>1. workers'[w].pc = "native"
    BY <1>6 DEF Spawn, TypeInv, WorkersOK, WorkerRow
  <2> QED
    BY <1>1, <2>1 DEF Streams
<1>7. CASE MarkNativeStarted(w)
  <2>1. /\ runs'[w].state = "running"
        /\ \A r \in Runs \ {w} : runs'[r] = runs[r]
    BY <1>7 DEF MarkNativeStarted, TypeInv, RowsOK, RunRow
  <2>2. workers[w].cur \in Runs /\ Active(w)
    BY <1>7, WorkerTypes DEF MarkNativeStarted, At, Active
  <2>3. workers'[w].cur = workers[w].cur
    BY <1>3, <1>7 DEF MarkNativeStarted
  <2>4. runs'[workers[w].cur].state \in Started
    BY <2>1, <2>2 DEF SubmitInv, WorkersKnowTheirRun, Started
  <2> QED
    BY <1>0, <2>3, <2>4 DEF StreamsNext
<1>8. CASE LingerFinish(w)
  <2>1. CASE workers' = [workers EXCEPT ![w].pc = "linger",
                                        ![w].terminal = "none"]
    <3>1. workers'[w].pc = "linger"
      BY <2>1 DEF TypeInv, WorkersOK, WorkerRow
    <3> QED
      BY <1>1, <3>1 DEF Streams
  <2> QED
    BY <1>2, <1>8, <2>1 DEF LingerFinish
<1>9. CASE StreamBreaks(w)
  <2>1. CASE Goto(w, "reconcile")
    BY <1>0, <1>3, <1>9, <2>1 DEF StreamBreaks, Streaming, At, Streams,
                                  StreamsNext
  <2> QED
    BY <1>4, <1>9, <2>1 DEF StreamBreaks
<1>10. CASE OpenContinuation(w)
  <2>1. PICK new, row :
          /\ new \in Runs /\ row.state = "running"
          /\ runs' = [runs EXCEPT ![new] = row]
          /\ workers' = [workers EXCEPT ![w].pc = "stream", ![w].cur = new,
                                        ![w].terminal = "none"]
    BY <1>10 DEF OpenContinuation, FirstUnused, NoRun
  <2>2. workers'[w].cur = new /\ runs'[new].state = "running"
    BY <2>1 DEF TypeInv, WorkersOK, WorkerRow, RowsOK
  <2> QED
    BY <1>0, <2>2 DEF StreamsNext, Started
<1>11. CASE \/ PrepareRebound(w) \/ PrepareRefused(w) \/ NativeStartRollsBack(w)
            \/ StreamRefused(w) \/ StreamEnds(w) \/ RecoverLost(w)
            \/ \E o \in TERMINAL_RUN_STATES : Reconcile(w, o)
  BY <1>4, <1>11 DEF PrepareRebound, PrepareRefused, NativeStartRollsBack,
                     StreamRefused, StreamEnds, RecoverLost, Reconcile
<1>12. CASE Defer(w) \/ SpawnFails(w) \/ ContinuationRefused(w) \/ LingerEnds(w)
  BY <1>2, <1>12 DEF Defer, SpawnFails, ContinuationRefused, LingerEnds
<1> QED
  BY <1>5, <1>6, <1>7, <1>8, <1>9, <1>10, <1>11, <1>12 DEF Work

\* Only its own steps, or the end of the server, take a worker from its run;
\* workers at a stream get there from their own runs.
LEMMA WorkersLeave ==
    ASSUME TypeInv, RefInv, SubmitInv, [Next]_vars
    PROVE  /\ StreamsNext
           /\ \A w \in Runs : Active(w) /\ workers'[w].pc = "off" /\ broker'.up
                                => Work(w)
<1> DEFINE Stay == \A w \in Runs : /\ workers'[w].pc = workers[w].pc
                                   /\ workers'[w].cur = workers[w].cur
           Goal == /\ StreamsNext
                   /\ \A w \in Runs : Active(w) /\ workers'[w].pc = "off"
                                        /\ broker'.up => Work(w)
<1>1. Stay => Goal
  BY DEF StreamsNext, Active
<1>2. UNCHANGED workers => Goal
  BY <1>1
<1>3. ASSUME NEW q, InterruptWorkers(q)
      PROVE  Goal
  <2>1. PICK w : \/ workers' = workers
                 \/ workers' = [workers EXCEPT ![w].interrupt = TRUE]
    BY <1>3 DEF InterruptWorkers
  <2>2. Stay
    BY <2>1 DEF TypeInv, WorkersOK, WorkerRow
  <2> QED
    BY <1>1, <2>2
<1>4. ASSUME NEW w \in Runs, Work(w)
      PROVE  Goal
  BY <1>4, WorkStreams, WorkOwn DEF Active
<1>5. ASSUME NEW w \in Runs, Report(w)
      PROVE  Goal
  <2>1. Stay
    BY <1>5 DEF Report, StreamTerminal, TypeInv, WorkersOK, WorkerRow
  <2> QED
    BY <1>1, <2>1
<1>6. ASSUME NEW r \in Runs, NEW row, workers' = [workers EXCEPT ![r] = row],
             row.pc # "off", row.cur = r,
             row.pc \in Streams => runs'[r].state \in Started
      PROVE  Goal
  <2>1. workers'[r] = row /\ \A v \in Runs \ {r} : workers'[v] = workers[v]
    BY <1>6 DEF TypeInv, WorkersOK
  <2> QED
    BY <1>6, <2>1 DEF StreamsNext, Active
<1>7. ASSUME ClaimNext
      PROVE  Goal
  <2>1. PICK r \in Runs :
          workers' = [workers EXCEPT ![r] = [NoWorker EXCEPT
                                               !.pc = "prepare", !.cur = r]]
    BY <1>7 DEF ClaimNext, FirstUnused
  <2> DEFINE row == [NoWorker EXCEPT !.pc = "prepare", !.cur = r]
  <2>2. row.pc = "prepare" /\ row.cur = r
    BY DEF NoWorker
  <2>3. workers' = [workers EXCEPT ![r] = row]
    BY <2>1
  <2> HIDE DEF Goal, row
  <2> QED
    BY <1>6, <2>2, <2>3 DEF Streams
<1>8. ASSUME NEW r \in Runs, LeaseExpires(r) \/ Adopt(r)
      PROVE  Goal
  <2> DEFINE row == [NoWorker EXCEPT
                       !.pc = RecoveredStep(r), !.cur = r,
                       !.proc = runs[r].pid, !.interrupt = runs[r].intent]
  <2>1. CASE ~UNCHANGED workers
    <3>1. Adopt(r) /\ workers' = [workers EXCEPT ![r] = row]
      BY <1>8, <2>1 DEF LeaseExpires, Adopt
    <3>2. /\ row.pc = RecoveredStep(r) /\ row.cur = r
          /\ RecoveredStep(r) \in {"prepare", "lost", "tail", "reconcile"}
      BY DEF NoWorker, RecoveredStep
    <3>3. RecoveredStep(r) \in Streams => runs[r].state = "running"
      BY <3>1 DEF Adopt, RecoveredStep, Streams, Live, LIVE_RUN_STATES
    <3>4. runs'[r].state = runs[r].state
      BY <3>1 DEF Adopt, TypeInv, RowsOK, RunRow
    <3> HIDE DEF row, Goal
    <3> QED
      BY <1>6, <3>1, <3>2, <3>3, <3>4 DEF Started
  <2> QED
    BY <1>2, <2>1
<1>9. ASSUME NEW r \in Runs, Sweep(r)
      PROVE  Goal
  BY <1>2, <1>3, <1>9 DEF Sweep, SweepGone, SweepKilled, SweepInterrupt,
                          SweepSignals
<1>10. ASSUME NEW c \in Chats, Api(c)
       PROVE  Goal
  <2>1. Stop(c) => \E q : InterruptWorkers(q)
    BY DEF Stop
  <2> HIDE DEF Goal
  <2> QED
    BY <1>2, <1>3, <1>10, <2>1
       DEF Api, CreateCloses, WakeCloses, CreateRegisters, CreateLoses, Send,
           SendReopens, Close, CloseInactive
<1>11. ASSUME Crash
       PROVE  Goal
  <2>1. (\A w \in Runs : workers'[w].pc = "off") /\ ~broker'.up
    BY <1>11 DEF Crash, NoWorker
  <2> QED
    BY <2>1 DEF StreamsNext, Streams
<1>12. ASSUME \/ BeginDispatch \/ EndDispatch \/ Restart \/ UNCHANGED vars
              \/ \E p \in Procs : Terminate(p) \/ ProcessExits(p)
       PROVE  Goal
  BY <1>2, <1>12 DEF BeginDispatch, EndDispatch, Restart, vars, Terminate,
                     ProcessExits
<1> HIDE DEF Goal
<1>13. Goal
  BY <1>4, <1>5, <1>7, <1>8, <1>9, <1>10, <1>11, <1>12 DEF Next, Dispatch
<1> QED
  BY <1>13 DEF Goal

LEMMA SteadyHolds ==
    ASSUME ~Closes
    PROVE  Spec => [](KnownInv /\ SteadyInv /\ StreamInv)
<1> DEFINE Steady == LiveRunsAgree /\ SteadyInv /\ StreamInv
<1>1. Init => Steady
  BY CalmInit DEF CalmInv, Init, LiveRunsAgree, Live, NoRun, NoWorker,
                  LIVE_RUN_STATES, StreamInv, Streams
<1>2. KnownInv /\ Steady /\ [Next]_vars => Steady'
  <2> SUFFICES ASSUME KnownInv, Steady, [Next]_vars
               PROVE  Steady'
    OBVIOUS
  <2>1. LiveRunsAgree'
    BY StepStays, LiveRunsStep DEF KnownInv
  <2>2. StreamInv'
    <3>1. TypeInv /\ RefInv /\ SubmitInv /\ TypeInv'
      BY StepTypes DEF KnownInv
    <3>2. StreamsNext
      BY <3>1, WorkersLeave
    <3>3. \A r \in Runs : runs[r].state \in Started => runs'[r].state \in Started
      BY <3>1, StartedStays
    <3>4. \A w \in Runs : workers[w].pc \in Streams => workers[w].cur \in Runs
      BY <3>1 DEF TypeInv, WorkersOK, Active, Streams
    <3> QED
      BY <3>2, <3>3, <3>4 DEF StreamInv, StreamsNext
  <2> QED
    BY <2>1, <2>2, CalmStep
<1>3. Steady => SteadyInv /\ StreamInv
  OBVIOUS
<1> HIDE DEF Steady
<1> QED
  BY <1>1, <1>2, <1>3, ContractHolds, PTL DEF Spec

\* A terminal commit of a run past its lease is legal where chats stay open,
\* so it leaves no live run.
LEMMA FinishSettles ==
    ASSUME TypeInv, RefInv, SteadyInv, NEW r \in Runs,
           NEW outcome \in TERMINAL_RUN_STATES, NEW keep, NEW exited,
           TryFinish(r, outcome, keep, exited),
           runs[r].state \notin {"absent", "leased"},
           outcome = "succeeded" => runs[r].state # "starting"
    PROVE  Finished(r)'
<1>1. CASE Live(r) /\ FinishRun(r, outcome, keep, exited)
  <2>1. Settled(r, outcome, exited).state = outcome
    BY DEF Settled, NoRun
  <2>2. PICK row : row.state = outcome /\ runs' = [runs EXCEPT ![r] = row]
    BY <1>1, <2>1 DEF FinishRun
  <2> QED
    BY <2>2 DEF TypeInv, RowsOK, Finished
<1>2. CASE ~(Live(r) /\ FinishLegal(r, outcome)) /\ UNCHANGED rows
  <2>1. Live(r) => FinishLegal(r, outcome)
    BY LiveFinishLegal DEF Live, LIVE_RUN_STATES
  <2>2. ~Live(r) => Finished(r)
    BY DEF Live, Finished, LIVE_RUN_STATES, TERMINAL_RUN_STATES, TypeInv,
           RowsOK, RunRow, RunStates, RUN_TRANSITIONS
  <2> QED
    BY <1>2, <2>1, <2>2 DEF rows, Finished
<1> QED
  BY <1>1, <1>2 DEF TryFinish

\* A worker that leaves has settled its run, or gave up its lease.
LEMMA WorkerSettles ==
    ASSUME TypeInv, RefInv, SubmitInv, SteadyInv, StreamInv,
           NEW w \in Runs, Work(w), workers'[w].pc = "off",
           runs[workers[w].cur].state # "leased"
    PROVE  runs'[workers[w].cur].state \in TERMINAL_RUN_STATES
<1>0. /\ Active(w) /\ workers[w].cur \in Runs
      /\ runs[workers[w].cur].state # "absent"
  <2>1. Active(w)
    BY DEF Work, Active, At, Streaming, Prepare, PrepareRebound, PrepareRefused,
           Defer, MarkStarting, Spawn, SpawnFails, MarkNativeStarted,
           NativeStartRollsBack, StreamRefused, LingerFinish, StreamEnds,
           StreamBreaks, OpenContinuation, ContinuationRefused, LingerEnds,
           Reconcile, RecoverLost
  <2> QED
    BY <2>1, WorkerTypes DEF SteadyInv, OwnRun, SubmitInv, WorkersKnowTheirRun,
                             Started, TERMINAL_RUN_STATES
<1>1. PICK r \in Runs : r = workers[w].cur
  BY <1>0
<1>2. workers[w].pc \in Streams => runs[r].state \in Started
  BY <1>1 DEF StreamInv
<1>3. ASSUME NEW outcome \in TERMINAL_RUN_STATES, NEW keep, NEW exited,
             TryFinish(r, outcome, keep, exited),
             outcome = "succeeded" => workers[w].pc \in Streams
      PROVE  runs'[workers[w].cur].state \in TERMINAL_RUN_STATES
  <2>1. outcome = "succeeded" => runs[r].state # "starting"
    BY <1>2, <1>3 DEF Started, TERMINAL_RUN_STATES
  <2>2. Finished(r)'
    BY <1>0, <1>1, <1>3, <2>1, FinishSettles
  <2> QED
    BY <1>1, <2>2 DEF Finished
<1>4. \A pc : Goto(w, pc) => workers'[w].pc = pc
  BY DEF Goto, TypeInv, WorkersOK, WorkerRow
<1>5. {"failed", "unknown"} \subseteq TERMINAL_RUN_STATES
  BY DEF TERMINAL_RUN_STATES
<1>6. CASE \/ PrepareRebound(w) \/ PrepareRefused(w) \/ NativeStartRollsBack(w)
           \/ StreamRefused(w) \/ RecoverLost(w)
  <2>1. PICK o \in {"failed", "unknown"} : TryFinish(r, o, FALSE, FALSE)
    BY <1>1, <1>6 DEF PrepareRebound, PrepareRefused, NativeStartRollsBack,
                      StreamRefused, RecoverLost, FinishAndStop
  <2> QED
    BY <1>3, <1>5, <2>1
<1>7. CASE MarkStarting(w)
  <2>1. TryFinish(r, "unknown", FALSE, FALSE)
    BY <1>1, <1>4, <1>7 DEF MarkStarting, FinishAndStop
  <2> QED
    BY <1>3, <1>5, <2>1
<1>8. CASE SpawnFails(w)
  <2>1. r = w
    BY <1>1, <1>8 DEF SpawnFails, At, SteadyInv, OwnRun, BeforeStream
  <2>2. TryFinish(r, "unknown", FALSE, FALSE)
    BY <1>8, <2>1 DEF SpawnFails
  <2> QED
    BY <1>3, <1>5, <2>2
<1>9. CASE LingerFinish(w) \/ StreamEnds(w)
  <2>1. /\ AdapterOutcome(w) \in TERMINAL_RUN_STATES
        /\ workers[w].pc \in Streams
    BY <1>9, OutcomeTypes DEF LingerFinish, StreamEnds, Streaming, At, Streams
  <2>2. PICK keep, exited : TryFinish(r, AdapterOutcome(w), keep, exited)
    BY <1>1, <1>9 DEF LingerFinish, StreamEnds, FinishAndStop
  <2> QED
    BY <1>3, <2>1, <2>2
<1>10. CASE StreamBreaks(w)
  <2>1. workers[w].pc \in Streams
    BY <1>10 DEF StreamBreaks, Streaming, At, Streams
  <2>2. PICK o \in TERMINAL_RUN_STATES : TryFinish(r, o, FALSE, FALSE)
    BY <1>1, <1>4, <1>5, <1>10, OutcomeTypes DEF StreamBreaks, FinishAndStop
  <2> QED
    BY <1>3, <2>1, <2>2
<1>11. ASSUME NEW o \in TERMINAL_RUN_STATES, Reconcile(w, o)
       PROVE  runs'[workers[w].cur].state \in TERMINAL_RUN_STATES
  <2>1. workers[w].pc \in Streams /\ TryFinish(r, o, FALSE, FALSE)
    BY <1>1, <1>11 DEF Reconcile, At, Streams, FinishAndStop
  <2> QED
    BY <1>3, <2>1
<1>12. CASE ContinuationRefused(w) \/ LingerEnds(w)
  <2>1. Finished(r)
    BY <1>1, <1>12 DEF ContinuationRefused, LingerEnds, SubmitInv,
                       WorkersKnowTheirRun
  <2>2. runs'[r].state = runs[r].state
    BY <1>12 DEF ContinuationRefused, LingerEnds, ReleaseProcessLink, rows,
                 TypeInv, RowsOK, RunRow
  <2> QED
    BY <1>1, <2>1, <2>2 DEF Finished
<1>13. ~Defer(w)
  BY <1>1 DEF Defer, At, SteadyInv, OwnRun, BeforeStream
<1>14. ~(Prepare(w) \/ MarkNativeStarted(w))
  BY <1>4 DEF Prepare, MarkNativeStarted
<1>15. ~Spawn(w)
  <2>1. Spawn(w) => workers'[w].pc = "native"
    BY DEF Spawn, TypeInv, WorkersOK, WorkerRow
  <2> QED
    BY <2>1
<1>16. ~OpenContinuation(w)
  <2>1. ASSUME NEW q, workers' = [workers EXCEPT ![w].pc = "stream",
                                                 ![w].cur = q,
                                                 ![w].terminal = "none"]
        PROVE  workers'[w].pc = "stream"
    BY <2>1 DEF TypeInv, WorkersOK, WorkerRow
  <2> QED
    BY <2>1 DEF OpenContinuation
<1>17. CASE \E o \in TERMINAL_RUN_STATES : Reconcile(w, o)
  BY <1>11, <1>17
<1> QED
  BY <1>6, <1>7, <1>8, <1>9, <1>10, <1>12, <1>13, <1>14, <1>15, <1>16,
     <1>17 DEF Work

\* Where chats are not closed, displaced or rotated, a worker that leaves has
\* settled its run, however often the server dies: only a close lets finish_run
\* (conversation_broker.py:900) refuse the outcome of a worker.
THEOREM OnlyClosesLeaveRunsLive ==
    ASSUME ~Closes
    PROVE  Spec => WorkerSettlesRun
<1> DEFINE Step == \A w \in Runs :
             /\ Active(w) /\ workers'[w] = NoWorker /\ broker'.up
             /\ runs[workers[w].cur].state # "leased"
             => runs'[workers[w].cur].state \in TERMINAL_RUN_STATES
<1>1. KnownInv /\ SteadyInv /\ StreamInv /\ [Next]_vars => Step
  <2> SUFFICES ASSUME KnownInv, SteadyInv, StreamInv, [Next]_vars,
                      NEW w \in Runs, Active(w), workers'[w] = NoWorker,
                      broker'.up, runs[workers[w].cur].state # "leased"
               PROVE  runs'[workers[w].cur].state \in TERMINAL_RUN_STATES
    OBVIOUS
  <2>1. TypeInv /\ RefInv /\ SubmitInv
    BY DEF KnownInv
  <2>2. workers'[w].pc = "off"
    BY DEF NoWorker
  <2>3. Work(w)
    BY <2>1, <2>2, WorkersLeave
  <2> QED
    BY <2>1, <2>2, <2>3, WorkerSettles
<1>2. WorkerSettlesRun <=> [][Step]_vars
  BY DEF WorkerSettlesRun
<1> HIDE DEF Step
<1> QED
  BY <1>1, <1>2, SteadyHolds, PTL DEF Spec

=============================================================================
