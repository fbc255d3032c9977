-------------------------- MODULE ActiveChatProofs --------------------------
(***************************************************************************)
(* The registry names exactly the open chats, so a shell has at most one.  *)
(***************************************************************************)
EXTENDS ConversationHistoryProofs

\* OneOpenChat with what its steps rest on: a registry row is the row of its
\* chat's own shell, and a chat being created does not exist yet.
OpenInv ==
    /\ OneOpenChat
    /\ \A s \in Shells : registry[s].chat \in Chats =>
                            ShellOf[registry[s].chat] = s
    /\ \A c \in creating : ~Exists(c)

\* A step that opens and closes no chat.
SameOpenings ==
    /\ \A c \in Chats : /\ Open(c)' <=> Open(c)
                        /\ Exists(c)' <=> Exists(c)
    /\ \A s \in Shells : registry'[s].chat = registry[s].chat
    /\ creating' = creating

\* A step that closes what shell s has open, and may begin a create.
ClosesOn(s) ==
    /\ registry' = Unlink(s)
    /\ \A c \in Chats : /\ Open(c)' <=> Open(c) /\ c # registry[s].chat
                        /\ Exists(c)' <=> Exists(c)
    /\ \A c \in creating' : c \in creating \/ ~Exists(c)

-----------------------------------------------------------------------------

LEMMA SameOpeningsKeep ==
    ASSUME TypeInv, TypeInv', OpenInv, SameOpenings
    PROVE  OpenInv'
<1>1. \A c \in Chats : ShellOf[c] \in Shells
  BY TablesAssumption
<1> QED
  BY <1>1 DEF OpenInv, OneOpenChat, SameOpenings, IsActive, TypeInv, RestOK

LEMMA ClosesOnKeeps ==
    ASSUME TypeInv, TypeInv', OpenInv, NEW s \in Shells, ClosesOn(s)
    PROVE  OpenInv'
<1>1. \A c \in Chats : ShellOf[c] \in Shells
  BY TablesAssumption
<1>2. /\ registry'[s].chat = NoChat
      /\ \A t \in Shells \ {s} : registry'[t] = registry[t]
  BY DEF ClosesOn, Unlink, TypeInv, RowsOK
<1>3. NoChat \notin Chats
  BY TablesAssumption
<1>4. ASSUME NEW c \in Chats
      PROVE  (Open(c) <=> IsActive(c))'
  <2>1. Open(c)' <=> IsActive(c) /\ c # registry[s].chat
    BY DEF ClosesOn, OpenInv, OneOpenChat
  <2>2. CASE ShellOf[c] = s
    BY <1>2, <1>3, <2>1, <2>2 DEF IsActive
  <2>3. CASE ShellOf[c] # s
    BY <1>1, <1>2, <2>1, <2>3 DEF IsActive, OpenInv
  <2> QED
    BY <2>2, <2>3
<1>5. \A t \in Shells : registry'[t].chat \in Chats =>
                          ShellOf[registry'[t].chat] = t
  BY <1>2, <1>3 DEF OpenInv
<1>6. \A c \in creating' : ~Exists(c)'
  BY DEF ClosesOn, OpenInv, TypeInv, RestOK
<1> QED
  BY <1>4, <1>5, <1>6 DEF OpenInv, OneOpenChat

LEMMA UnchangedOpenings ==
    ASSUME UNCHANGED <<chats, registry, creating>>
    PROVE  SameOpenings
  BY DEF SameOpenings, Open, Exists

\* A terminal commit leaves a chat open, or carries out its recorded close.
LEMMA FinishOpenings ==
    ASSUME TypeInv, RefInv, OpenInv, NEW r \in Runs,
           NEW outcome \in TERMINAL_RUN_STATES,
           NEW keep \in BOOLEAN, NEW exited \in BOOLEAN,
           TryFinish(r, outcome, keep, exited), UNCHANGED creating
    PROVE  SameOpenings \/ \E s \in Shells : ClosesOn(s)
<1> DEFINE c == ChatOfRun(r)
           s == ShellOf[c]
<1>1. CASE UNCHANGED rows
  BY <1>1, UnchangedOpenings DEF rows
<1>2. CASE Live(r) /\ FinishRun(r, outcome, keep, exited)
  <2>1. c \in Chats /\ s \in Shells /\ Exists(c)
    BY <1>2, TablesAssumption DEF RefInv, Live, LIVE_RUN_STATES, ChatOfRun
  <2>2. FinishedChatState(r, outcome) \notin {"absent", "closed"}
    BY DEF FinishedChatState, FinishTarget
  <2>3. CASE chats[c].state = "closed"
    <3>1. /\ chats' = chats
          /\ \/ registry' = registry
             \/ registry' = [registry EXCEPT ![s].proc = None]
      BY <1>2, <2>3 DEF FinishRun
    <3> QED
      BY <3>1 DEF SameOpenings, Open, Exists, TypeInv, RowsOK, ActiveRow
  <2>4. CASE chats[c].state # "closed" /\ ~chats[c].closing
    <3>1. /\ chats' = [chats EXCEPT ![c].state = FinishedChatState(r, outcome)]
          /\ \/ registry' = registry
             \/ registry' = [registry EXCEPT ![s].proc = None]
      BY <1>2, <2>4 DEF FinishRun
    <3>2. \A d \in Chats : /\ Open(d)' <=> Open(d)
                           /\ Exists(d)' <=> Exists(d)
      BY <2>1, <2>2, <2>4, <3>1 DEF Open, Exists, TypeInv, RowsOK, ChatRow
    <3>3. \A t \in Shells : registry'[t].chat = registry[t].chat
      BY <3>1 DEF TypeInv, RowsOK, ActiveRow
    <3> QED
      BY <3>2, <3>3 DEF SameOpenings
  <2>5. CASE chats[c].state # "closed" /\ chats[c].closing
    <3>1. /\ chats' = [chats EXCEPT ![c].state = "closed"]
          /\ registry' = Unlink(s)
      BY <1>2, <2>5 DEF FinishRun
    <3>2. registry[s].chat = c
      BY <2>1, <2>5 DEF OpenInv, OneOpenChat, IsActive, Open
    <3>3. \A d \in Chats : /\ Open(d)' <=> Open(d) /\ d # c
                           /\ Exists(d)' <=> Exists(d)
      BY <2>1, <3>1 DEF Open, Exists, TypeInv, RowsOK, ChatRow
    <3> QED
      BY <2>1, <3>1, <3>2, <3>3 DEF ClosesOn
  <2> QED
    BY <2>3, <2>4, <2>5
<1> QED
  BY <1>1, <1>2 DEF TryFinish

LEMMA WorkOpenings ==
    ASSUME TypeInv, RefInv, OpenInv, NEW w \in Runs, Work(w)
    PROVE  SameOpenings \/ \E s \in Shells : ClosesOn(s)
<1>0. Active(w) => workers[w].cur \in Runs
  BY WorkerTypes
<1>1. ASSUME NEW o \in TERMINAL_RUN_STATES, NEW k \in BOOLEAN,
             NEW e \in BOOLEAN, Active(w), FinishAndStop(w, o, k, e)
      PROVE  SameOpenings \/ \E s \in Shells : ClosesOn(s)
  BY <1>0, <1>1, FinishOpenings DEF FinishAndStop, Aside
<1>2. {"failed", "unknown"} \subseteq TERMINAL_RUN_STATES
  BY DEF TERMINAL_RUN_STATES
<1>3. CASE PrepareRebound(w) \/ PrepareRefused(w) \/ NativeStartRollsBack(w)
           \/ StreamRefused(w) \/ RecoverLost(w)
           \/ (\E o \in TERMINAL_RUN_STATES : Reconcile(w, o))
  BY <1>1, <1>2, <1>3
     DEF PrepareRebound, PrepareRefused, NativeStartRollsBack, StreamRefused,
         RecoverLost, Reconcile, At, Active, Streaming
<1>4. CASE Prepare(w) \/ Defer(w) \/ Spawn(w) \/ ContinuationRefused(w)
  BY <1>4, UnchangedOpenings
     DEF Prepare, Defer, Spawn, ContinuationRefused, rows, InMemory, Aside
<1>5. CASE MarkStarting(w)
  <2>1. CASE runs[w].state = "leased"
    BY <1>5, <2>1, UnchangedOpenings DEF MarkStarting, InMemory, Aside
  <2>2. CASE runs[w].state # "leased"
    BY <1>1, <1>2, <1>5, <2>2 DEF MarkStarting, At, Active
  <2> QED
    BY <2>1, <2>2
<1>6. CASE SpawnFails(w)
  BY <1>2, <1>6, FinishOpenings DEF SpawnFails
<1>7. CASE MarkNativeStarted(w)
  BY <1>7 DEF MarkNativeStarted, SameOpenings, Open, Exists, InMemory, Aside,
              TypeInv, RowsOK, ActiveRow
<1>8. CASE LingerFinish(w)
  <2>1. Active(w) /\ workers[w].terminal # "none"
    BY <1>8 DEF LingerFinish, At, Active
  <2> QED
    BY <1>0, <1>8, <2>1, FinishOpenings, OutcomeTypes
       DEF LingerFinish, Aside
<1>9. CASE StreamEnds(w)
  <2>1. Active(w) /\ workers[w].terminal # "none"
    BY <1>9 DEF StreamEnds, Streaming, At, Active
  <2> QED
    BY <1>1, <1>9, <2>1, OutcomeTypes DEF StreamEnds
<1>10. CASE StreamBreaks(w)
  <2>1. Active(w)
    BY <1>10 DEF StreamBreaks, Streaming, At, Active
  <2>2. CASE UNCHANGED <<rows, InMemory>>
    BY <2>2, UnchangedOpenings DEF rows, InMemory, Aside
  <2>3. CASE FinishAndStop(w, "unknown", FALSE, FALSE)
    BY <1>1, <1>2, <2>1, <2>3
  <2>4. CASE /\ workers[w].terminal # "none"
             /\ FinishAndStop(w, AdapterOutcome(w), FALSE, FALSE)
    BY <1>1, <2>1, <2>4, OutcomeTypes
  <2> QED
    BY <1>10, <2>2, <2>3, <2>4 DEF StreamBreaks
<1>11. CASE OpenContinuation(w)
  <2> DEFINE c == ChatOfRun(workers[w].cur)
  <2>1. Active(w)
    BY <1>11 DEF OpenContinuation, At, Active
  <2>2. c \in Chats /\ Exists(c)
    BY <1>0, <2>1 DEF RefInv, ChatOfRun
  <2>3. /\ chats' = [chats EXCEPT ![c].state = "running"]
        /\ chats[c].state # "closed"
        /\ UNCHANGED <<registry, creating>>
    BY <1>11 DEF OpenContinuation, MayContinue, InMemory, Aside
  <2> QED
    BY <2>2, <2>3 DEF SameOpenings, Open, Exists, TypeInv, RowsOK, ChatRow
<1>12. CASE LingerEnds(w)
  BY <1>12 DEF LingerEnds, ReleaseProcessLink, SameOpenings, Open, Exists,
               Aside, TypeInv, RowsOK, ActiveRow
<1> QED
  BY <1>3, <1>4, <1>5, <1>6, <1>7, <1>8, <1>9, <1>10, <1>11, <1>12 DEF Work

\* Closing the open chat of a shell, in each of its forms.
LEMMA CloseOpenings ==
    ASSUME TypeInv, OpenInv, NEW s \in Shells, registry' = Unlink(s),
           \/ chats' = WithoutActive(s)
           \/ \E b \in BOOLEAN :
                /\ registry[s].chat \in Chats
                /\ chats' = ClosedRows(chats, registry[s].chat, b),
           \A c \in creating' : c \in creating \/ ~Exists(c)
    PROVE  ClosesOn(s)
<1> DEFINE d == registry[s].chat
<1>1. CASE d \in Chats /\ \E b \in BOOLEAN : chats' = ClosedRows(chats, d, b)
  <2>1. Open(d)
    BY <1>1 DEF OpenInv, OneOpenChat, IsActive
  <2>2. \A c \in Chats : /\ Open(c)' <=> Open(c) /\ c # d
                         /\ Exists(c)' <=> Exists(c)
    BY <1>1, <2>1 DEF ClosedRows, Open, Exists, TypeInv, RowsOK, ChatRow
  <2> QED
    BY <2>2 DEF ClosesOn
<1>2. CASE d = NoChat /\ chats' = chats
  <2>1. NoChat \notin Chats
    BY TablesAssumption
  <2> QED
    BY <1>2, <2>1 DEF ClosesOn, Open, Exists
<1>3. d \in Chats \cup {NoChat}
  BY DEF TypeInv, RowsOK, ActiveRow
<1> QED
  BY <1>1, <1>2, <1>3 DEF WithoutActive

LEMMA ApiOpenings ==
    ASSUME TypeInv, TypeInv', RefInv, OpenInv, NEW c \in Chats, Api(c)
    PROVE  OpenInv'
<1> DEFINE s == ShellOf[c]
           d == registry[s].chat
<1>0. s \in Shells /\ NoChat \notin Chats /\ d \in Chats \cup {NoChat}
  BY TablesAssumption DEF TypeInv, RowsOK, ActiveRow
<1>1. CASE CreateCloses(c)
  <2>1. ClosesOn(s)
    BY <1>0, <1>1, CloseOpenings DEF CreateCloses
  <2> QED
    BY <1>0, <2>1, ClosesOnKeeps
<1>2. CASE WakeCloses(c)
  <2>1. /\ registry' = Unlink(s) /\ d \in Chats
        /\ chats' = ClosedRows(chats, d, FALSE)
        /\ creating' = creating \cup {c} /\ ~Exists(c)
    BY <1>0, <1>2 DEF WakeCloses
  <2>2. ClosesOn(s)
    BY <1>0, <2>1, CloseOpenings
  <2> QED
    BY <1>0, <2>2, ClosesOnKeeps
<1>3. CASE CreateRegisters(c)
  <2>1. /\ chats' = [chats EXCEPT ![c].state = "idle"]
        /\ registry' = [registry EXCEPT ![s].chat = c]
        /\ creating' = creating \ {c}
        /\ d = NoChat
    BY <1>3 DEF CreateRegisters
  <2>2. /\ Open(c)' /\ Exists(c)'
        /\ \A x \in Chats \ {c} : /\ Open(x)' <=> Open(x)
                                  /\ Exists(x)' <=> Exists(x)
    BY <2>1 DEF Open, Exists, TypeInv, RowsOK, ChatRow
  <2>3. /\ registry'[s].chat = c
        /\ \A t \in Shells \ {s} : registry'[t].chat = registry[t].chat
    BY <1>0, <2>1 DEF TypeInv, RowsOK, ActiveRow
  <2>4. ASSUME NEW x \in Chats
        PROVE  (Open(x) <=> IsActive(x))'
    <3>1. ShellOf[x] \in Shells
      BY TablesAssumption
    <3> QED
      BY <1>0, <2>1, <2>2, <2>3, <3>1 DEF IsActive, OpenInv, OneOpenChat
  <2>5. \A x \in creating' : ~Exists(x)'
    BY <2>1, <2>2 DEF OpenInv, TypeInv, RestOK
  <2> QED
    BY <2>3, <2>4, <2>5 DEF OpenInv, OneOpenChat
<1>4. CASE CreateLoses(c)
  BY <1>4 DEF CreateLoses, rows, OpenInv, OneOpenChat, Open, Exists, IsActive
<1>5. CASE Send(c)
  <2>1. /\ Open(c) /\ UNCHANGED <<registry, creating>>
        /\ chats' = [chats EXCEPT ![c].state =
                       IF @ \in {"queued", "running"} THEN @ ELSE "queued"]
    BY <1>5 DEF Send, Accept
  <2>2. SameOpenings
    BY <2>1 DEF SameOpenings, Open, Exists, TypeInv, RowsOK, ChatRow
  <2> QED
    BY <2>2, SameOpeningsKeep
<1>6. CASE SendReopens(c)
  <2> DEFINE cs == [WithoutActive(s) EXCEPT
                      ![c] = [state |-> "idle", closing |-> FALSE]]
  <2>1. /\ chats' = [cs EXCEPT ![c].state = IF @ \in {"queued", "running"}
                                            THEN @ ELSE "queued"]
        /\ registry' = [registry EXCEPT ![s] = ReopenedLink(c)]
        /\ creating' = creating
        /\ Exists(c) /\ ~Open(c)
    BY <1>6 DEF SendReopens, Accept
  <2>2. WithoutActive(s) \in [Chats -> ChatRow]
    BY CloseTypes DEF WithoutActive, TypeInv, RowsOK
  <2>3. /\ \A x \in Chats \ {c} : chats'[x] = WithoutActive(s)[x]
        /\ chats'[c].state = "queued"
    BY <2>1, <2>2
  <2>4. ASSUME NEW x \in Chats \ {c}
        PROVE  /\ Open(x)' <=> Open(x) /\ x # d
               /\ Exists(x)' <=> Exists(x)
    <3>1. CASE x # d
      <4>1. WithoutActive(s)[x] = chats[x]
        BY <3>1 DEF WithoutActive, ClosedRows, TypeInv, RowsOK
      <4> QED
        BY <2>3, <3>1, <4>1 DEF Open, Exists
    <3>2. CASE x = d
      <4>1. Open(x) /\ d # NoChat
        BY <1>0, <3>2 DEF OpenInv, OneOpenChat, IsActive
      <4>2. WithoutActive(s)[x].state = "closed"
        BY <3>2, <4>1 DEF WithoutActive, ClosedRows, TypeInv, RowsOK, ChatRow
      <4> QED
        BY <2>3, <3>2, <4>1, <4>2 DEF Open, Exists
    <3> QED
      BY <3>1, <3>2
  <2>5. /\ registry'[s].chat = c
        /\ \A t \in Shells \ {s} : registry'[t].chat = registry[t].chat
    BY <1>0, <2>1 DEF ReopenedLink, TypeInv, RowsOK, ActiveRow
  <2>6. ASSUME NEW x \in Chats
        PROVE  (Open(x) <=> IsActive(x))'
    <3>1. ShellOf[x] \in Shells
      BY TablesAssumption
    <3>2. CASE x = c
      BY <2>3, <2>5, <3>2 DEF IsActive, Open, Exists
    <3>3. CASE x # c /\ ShellOf[x] = s
      <4>1. ~IsActive(x)' /\ (Open(x) <=> x = d)
        BY <2>5, <3>3 DEF IsActive, OpenInv, OneOpenChat
      <4> QED
        BY <2>4, <3>3, <4>1
    <3>4. CASE x # c /\ ShellOf[x] # s
      <4>1. IsActive(x)' <=> IsActive(x)
        BY <2>5, <3>1, <3>4 DEF IsActive
      <4>2. x # d
        BY <1>0, <3>4 DEF OpenInv
      <4> QED
        BY <2>4, <3>4, <4>1, <4>2 DEF OpenInv, OneOpenChat
    <3> QED
      BY <3>2, <3>3, <3>4
  <2>7. \A x \in creating' : ~Exists(x)'
    BY <2>1, <2>4 DEF OpenInv, TypeInv, RestOK
  <2> QED
    BY <2>5, <2>6, <2>7 DEF OpenInv, OneOpenChat
<1>7. CASE Stop(c)
  <2>1. SameOpenings
    BY <1>7, UnchangedOpenings DEF Stop
  <2> QED
    BY <2>1, SameOpeningsKeep
<1>8. CASE Close(c)
  <2>1. /\ Open(c) /\ d = c /\ registry' = Unlink(s) /\ creating' = creating
        /\ chats' = ClosedRows(chats, c, LiveRunsOf(c) # {})
    BY <1>8 DEF Close, OpenInv, OneOpenChat, IsActive
  <2>2. ClosesOn(s)
    BY <1>0, <2>1, CloseOpenings
  <2> QED
    BY <1>0, <2>2, ClosesOnKeeps
<1>9. CASE CloseInactive(c)
  <2>1. /\ d = c /\ registry' = Unlink(s) /\ creating' = creating
        /\ chats' = ClosedRows(chats, c, FALSE)
    BY <1>9 DEF CloseInactive, IsActive
  <2>2. ClosesOn(s)
    BY <1>0, <2>1, CloseOpenings
  <2> QED
    BY <1>0, <2>2, ClosesOnKeeps
<1> QED
  BY <1>1, <1>2, <1>3, <1>4, <1>5, <1>6, <1>7, <1>8, <1>9 DEF Api

LEMMA SweepOpenings ==
    ASSUME TypeInv, RefInv, NEW r \in Runs, Sweep(r)
    PROVE  SameOpenings
<1>1. CASE SweepInterrupt(r) \/ SweepSignals(r)
  BY <1>1, UnchangedOpenings DEF SweepInterrupt, SweepSignals
<1>2. ASSUME NEW e \in BOOLEAN, ReaperFinish(r, e), creating' = creating
      PROVE  SameOpenings
  BY <1>2 DEF ReaperFinish, SameOpenings, Open, Exists, TypeInv, RowsOK,
              ChatRow
<1> QED
  BY <1>1, <1>2 DEF Sweep, SweepGone, SweepKilled

LEMMA OpenStep ==
    ASSUME TypeInv, TypeInv', RefInv, OpenInv, [Next]_vars
    PROVE  OpenInv'
<1>1. CASE UNCHANGED vars
  BY <1>1, UnchangedOpenings, SameOpeningsKeep DEF vars
<1>2. ASSUME NEW w \in Runs, Report(w)
      PROVE  OpenInv'
  BY <1>2, UnchangedOpenings, SameOpeningsKeep
     DEF Report, StreamTerminal, rows, InMemory, Aside
<1>3. ASSUME NEW w \in Runs, Work(w)
      PROVE  OpenInv'
  BY <1>3, WorkOpenings, SameOpeningsKeep, ClosesOnKeeps
<1>4. CASE BeginDispatch \/ EndDispatch
  BY <1>4, UnchangedOpenings, SameOpeningsKeep
     DEF BeginDispatch, EndDispatch, rows
<1>5. CASE ClaimNext
  <2>1. PICK m \in Claimable :
          chats' = [chats EXCEPT ![messages[m].chat].state = "running"]
    BY <1>5 DEF ClaimNext
  <2>2. chats[messages[m].chat].state = "queued"
    BY DEF Claimable
  <2>3. SameOpenings
    BY <1>5, <2>1, <2>2 DEF ClaimNext, SameOpenings, Open, Exists, TypeInv,
                            RowsOK, ChatRow
  <2> QED
    BY <2>3, SameOpeningsKeep
<1>6. ASSUME NEW r \in Runs, LeaseExpires(r) \/ Adopt(r)
      PROVE  OpenInv'
  BY <1>6, UnchangedOpenings, SameOpeningsKeep DEF LeaseExpires, Adopt
<1>7. ASSUME NEW r \in Runs, Sweep(r)
      PROVE  OpenInv'
  BY <1>7, SweepOpenings, SameOpeningsKeep
<1>8. CASE \E p \in Procs : Terminate(p) \/ ProcessExits(p)
  BY <1>8, UnchangedOpenings, SameOpeningsKeep
     DEF Terminate, ProcessExits, rows
<1>9. CASE Crash
  BY <1>9 DEF Crash, rows, OpenInv, OneOpenChat, Open, Exists, IsActive
<1>10. CASE Restart
  BY <1>10, UnchangedOpenings, SameOpeningsKeep DEF Restart, rows
<1> QED
  BY <1>1, <1>2, <1>3, <1>4, <1>5, <1>6, <1>7, <1>8, <1>9, <1>10, ApiOpenings
     DEF Next, Dispatch

LEMMA OpenInit == Init => OpenInv
<1> SUFFICES ASSUME Init PROVE OpenInv
  OBVIOUS
<1>1. \A c \in Chats : ShellOf[c] \in Shells /\ c # NoChat
  BY TablesAssumption
<1> QED
  BY <1>1 DEF Init, OpenInv, OneOpenChat, Open, Exists, IsActive

\* A chat is open exactly while its shell's registry row names it, so a shell
\* never has two, however creates, wakes, sends and closes interleave.
THEOREM OneOpenChatHolds == Spec => []OneOpenChat
<1>1. OpenInv => OneOpenChat
  BY DEF OpenInv
<1>2. TypeInv /\ RefInv /\ OpenInv /\ [Next]_vars => OpenInv'
  BY StepTypes, OpenStep
<1> QED
  BY <1>1, <1>2, OpenInit, RefHolds, PTL DEF Spec

=============================================================================
