----------------------------- MODULE ActiveChats -----------------------------
(***************************************************************************)
(* The verbs that open, feed, rotate, stop and close a shell's chat, and   *)
(* the active_shell_chats registry they keep.  A shell has at most one     *)
(* open chat, and the registry row of that chat names the process a turn   *)
(* or its lingering remains hold.                                          *)
(***************************************************************************)
EXTENDS ConversationBroker

Exists(c) == chats[c].state # "absent"
Open(c)   == Exists(c) /\ chats[c].state # "closed"

\* Closing a chat row; its registry row goes with it.
ClosedRows(cs, c, closing) ==
    [cs EXCEPT ![c] = [state |-> "closed", closing |-> @.closing \/ closing]]

\* Cancel the intents of one chat that no run has taken.
CancelPending(c) ==
    messages' = [m \in Messages |->
                   IF m \in PendingOf(c)
                   THEN [messages[m] EXCEPT !.state = "cancelled",
                                            !.outbox = "cancelled"]
                   ELSE messages[m]]

\* close_active: the chat that holds the shell yields only between turns.
Yields(s) == registry[s].chat # NoChat =>
                chats[registry[s].chat].state \notin {"queued", "running"}

\* A shell with no open chat must hold no session process at all.
SlotFree(s) == registry[s].chat = NoChat => ShellProcs(s) = {}

WithoutActive(s) ==
    IF registry[s].chat = NoChat THEN chats
    ELSE ClosedRows(chats, registry[s].chat, FALSE)

-----------------------------------------------------------------------------
(* Creating a chat: the previous one closes in a first transaction, the new *)
(* one is registered in a second.                                           *)

CreateCloses(c) ==
    LET s == ShellOf[c] IN
    /\ broker.up /\ ~Exists(c) /\ c \notin creating
    /\ Closes \/ registry[s].chat = NoChat
    /\ SlotFree(s) /\ Yields(s)
    /\ chats' = WithoutActive(s)
    /\ registry' = Unlink(s)
    /\ creating' = creating \cup {c}
    /\ UNCHANGED <<messages, runs, procs, workers, broker, killing>>

\* A "New" wake displaces a chat in any state, unless the registry names a
\* live process; queued work of that chat is cancelled.
WakeCloses(c) ==
    LET s == ShellOf[c]
        d == registry[s].chat
    IN
    /\ Closes /\ broker.up /\ ~Exists(c) /\ c \notin creating
    /\ d # NoChat
    /\ ~Alive(registry[s].proc)
    /\ IF chats[d].state \in {"queued", "running"}
       THEN CancelPending(d) ELSE UNCHANGED messages
    /\ chats' = ClosedRows(chats, d, FALSE)
    /\ registry' = Unlink(s)
    /\ creating' = creating \cup {c}
    /\ UNCHANGED <<runs, procs, workers, broker, killing>>

\* A mistake to be caught: the second transaction trusts the first.
CreateRegistersBlindly(c) ==
    /\ broker.up /\ c \in creating
    /\ chats' = [chats EXCEPT ![c].state = "idle"]
    /\ registry' = [registry EXCEPT ![ShellOf[c]].chat = c]
    /\ creating' = creating \ {c}
    /\ UNCHANGED <<messages, runs, procs, workers, broker, killing>>

CreateRegisters(c) ==
    /\ broker.up /\ c \in creating
    /\ registry[ShellOf[c]].chat = NoChat
    /\ chats' = [chats EXCEPT ![c].state = "idle"]
    /\ registry' = [registry EXCEPT ![ShellOf[c]].chat = c]
    /\ creating' = creating \ {c}
    /\ UNCHANGED <<messages, runs, procs, workers, broker, killing>>

\* ACTIVE_CHAT_CHANGED: another chat took the shell between the transactions.
CreateLoses(c) ==
    /\ broker.up /\ c \in creating
    /\ registry[ShellOf[c]].chat # NoChat
    /\ creating' = creating \ {c}
    /\ UNCHANGED <<rows, procs, workers, broker, killing>>

-----------------------------------------------------------------------------
(* Sending: the message and its intent commit together, then the broker is  *)
(* woken.                                                                   *)

\* A mistake to be caught: the commit wakes nobody.
AcceptSilently(c, m, cs) ==
    /\ messages' = [messages EXCEPT ![m] = [state |-> "queued", chat |-> c,
                                            outbox |-> "pending"]]
    /\ chats' = [cs EXCEPT ![c].state = IF @ \in {"queued", "running"}
                                        THEN @ ELSE "queued"]
    /\ UNCHANGED broker

Accept(c, m, cs) ==
    /\ messages' = [messages EXCEPT ![m] = [state |-> "queued", chat |-> c,
                                            outbox |-> "pending"]]
    /\ chats' = [cs EXCEPT ![c].state = IF @ \in {"queued", "running"}
                                        THEN @ ELSE "queued"]
    /\ broker' = [broker EXCEPT !.wake = TRUE]

Send(c) ==
    /\ broker.up /\ Open(c) /\ ~ chats[c].closing
    /\ \E m \in FirstUnused(Messages, messages) : Accept(c, m, chats)
    /\ UNCHANGED <<registry, runs, procs, workers, creating, killing>>

\* A mistake to be caught: the reopened chat links its last process again.
ReopenedLinkOld(c) ==
    LET linked == {runs[r].pid : r \in {q \in Runs : /\ runs[q].msg # None
                                                    /\ ChatOfRun(q) = c}}
    IN  [chat |-> c, proc |-> IF linked = {} THEN None
                              ELSE CHOOSE p \in linked : \A q \in linked : q <= p]

\* The registry row a reopened chat gets.
ReopenedLink(c) == [chat |-> c, proc |-> None]

\* A send to a closed chat reopens it in the same transaction, closing the
\* chat that holds the shell if that one is between turns.
SendReopens(c) ==
    LET s == ShellOf[c]
        reopened == [WithoutActive(s) EXCEPT
                       ![c] = [state |-> "idle", closing |-> FALSE]]
    IN
    /\ broker.up /\ Exists(c) /\ ~Open(c)
    /\ SlotFree(s) /\ Yields(s)
    /\ \E m \in FirstUnused(Messages, messages) : Accept(c, m, reopened)
    /\ registry' = [registry EXCEPT ![s] = ReopenedLink(c)]
    /\ UNCHANGED <<runs, procs, workers, creating, killing>>

-----------------------------------------------------------------------------
(* Stopping and closing. *)

\* The run Stop addresses is the newest live one; with no process of its own
\* and a lingering process on the chat, Stop signals that process instead.
Stop(c) ==
    /\ broker.up /\ LiveRunsOf(c) # {}
    /\ LET r == CHOOSE q \in LiveRunsOf(c) : \A k \in LiveRunsOf(c) : k <= q IN
       /\ \/ runs[r].pid # None
          \/ ~(IsActive(c) /\ Alive(registry[ShellOf[c]].proc))
       /\ InterruptWorkers(r)
       /\ runs' = WithIntent(r, runs)
    /\ broker' = [broker EXCEPT !.wake = TRUE]
    /\ UNCHANGED <<chats, registry, messages, procs, creating, killing>>

\* The processes a chat still links, which Close terminates after its commit.
LinkedProcs(c) ==
    {p \in Procs :
        /\ Alive(p)
        /\ \/ registry[ShellOf[c]] = [chat |-> c, proc |-> p]
           \/ \E r \in LiveRunsOf(c) : runs[r].pid = p}

Close(c) ==
    /\ Closes /\ broker.up /\ Open(c)
    /\ CancelPending(c)
    /\ chats' = ClosedRows(chats, c, LiveRunsOf(c) # {})
    /\ registry' = IF IsActive(c) THEN Unlink(ShellOf[c]) ELSE registry
    /\ killing' = killing \cup LinkedProcs(c)
    /\ UNCHANGED <<runs, procs, workers, broker, creating>>

\* terminate: SIGTERM, then SIGKILL; a survivor is left to the reaper.
Terminate(p) ==
    /\ broker.up /\ p \in killing
    /\ killing' = killing \ {p}
    /\ \/ procs' = [procs EXCEPT ![p].state = "gone"]
       \/ UNCHANGED procs
    /\ UNCHANGED <<rows, workers, broker, creating>>

\* The inactivity ceiling closes a silent live turn's chat; the run row keeps
\* naming the process, for the reaper.
CloseInactive(c) ==
    LET s == ShellOf[c] IN
    /\ Closes /\ broker.up /\ IsActive(c)
    /\ registry[s].proc # None
    /\ \E r \in LiveRunsOf(c) : runs[r].pid = registry[s].proc
    /\ IF chats[c].state \in {"queued", "running"}
       THEN CancelPending(c) ELSE UNCHANGED messages
    /\ chats' = ClosedRows(chats, c, FALSE)
    /\ registry' = Unlink(s)
    /\ UNCHANGED <<runs, procs, workers, broker, creating, killing>>

=============================================================================
