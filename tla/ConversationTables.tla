------------------------- MODULE ConversationTables -------------------------
(***************************************************************************)
(* The durable rows the four conversation services share, the processes    *)
(* they launch, and the in-memory state that dies with the API server.     *)
(*                                                                         *)
(* One SQLite write transaction is one step.  A message and its outbox     *)
(* intent are one row here: the code inserts them together and joins them  *)
(* one to one.  The outbox state "claimed" is written and left inside the  *)
(* claim transaction, so no reader ever sees it.                           *)
(***************************************************************************)
EXTENDS Naturals, FiniteSets, ConversationState

CONSTANTS
    Chats,          \* conversations that may ever be created
    Shells,         \* shells: agent seats, one worktree each
    ShellOf,        \* the shell a conversation belongs to
    NoChat,         \* "no conversation": a shell without an open chat
    MaxMessages,    \* bound: messages ever accepted
    MaxContinues,   \* bound: continuation runs ever opened
    MaxWorkers,     \* broker worker capacity (max_workers, 8 in the code)
    MaxCrashes,     \* bound: API server crashes
    Stalls,         \* may the heartbeat of a live worker miss its lease?
    Closes          \* may chats be closed, displaced or rotated?

ASSUME TablesAssumption ==
    /\ ShellOf \in [Chats -> Shells]
    /\ NoChat \notin Chats
    /\ MaxMessages \in Nat
    /\ MaxContinues \in Nat
    /\ MaxWorkers \in Nat \ {0}
    /\ MaxCrashes \in Nat
    /\ Stalls \in BOOLEAN
    /\ Closes \in BOOLEAN

Messages == 1 .. MaxMessages
Runs     == 1 .. (MaxMessages + MaxContinues)
Procs    == 1 .. (MaxMessages + 1)
None     == 0                           \* SQL NULL for an integer reference

VARIABLES
    chats,      \* conversations
    registry,   \* active_shell_chats: the one open chat of a shell
    messages,   \* conversation_messages with their conversation_outbox row
    runs,       \* conversation_runs
    procs,      \* operating-system processes launched for a turn
    workers,    \* broker threads, by the run each was activated for
    broker,     \* the API server: up, wake event, dispatch loop, crashes
    creating,   \* chats whose create has committed its first transaction
    killing     \* processes a committed close is about to terminate

vars == <<chats, registry, messages, runs, procs, workers, broker,
          creating, killing>>
rows == <<chats, registry, messages, runs>>

WorkerSteps == {"off", "prepare", "start", "spawn", "native", "stream",
                "tail", "linger", "reconcile", "lost"}
Rungs       == {"none", "interrupt", "SIGTERM", "SIGKILL", "ended"}
ProcStates  == {"absent", "alive", "orphan", "gone"}

ChatRow     == [state : ChatStates, closing : BOOLEAN]
ActiveRow   == [chat : Chats \cup {NoChat}, proc : Procs \cup {None}]
MessageRow  == [state : MessageStates, chat : Chats \cup {NoChat},
                outbox : OutboxStates]
RunRow      == [state : RunStates, msg : Messages \cup {None},
                pid : Procs \cup {None}, expired : BOOLEAN,
                archived : BOOLEAN, intent : BOOLEAN, rung : Rungs]
ProcRow     == [state : ProcStates, msg : Messages \cup {None}]
WorkerRow   == [pc : WorkerSteps, cur : Runs \cup {None},
                proc : Procs \cup {None},
                terminal : {"none", "succeeded", "failed", "cancelled"},
                interrupt : BOOLEAN]
BrokerRow   == [up : BOOLEAN, wake : BOOLEAN, dispatching : BOOLEAN,
                crashes : 0 .. MaxCrashes]

NoRun    == [state |-> "absent", msg |-> None, pid |-> None,
             expired |-> FALSE, archived |-> FALSE, intent |-> FALSE,
             rung |-> "none"]
NoWorker == [pc |-> "off", cur |-> None, proc |-> None,
             terminal |-> "none", interrupt |-> FALSE]

Init ==
    /\ chats = [c \in Chats |-> [state |-> "absent", closing |-> FALSE]]
    /\ registry = [s \in Shells |-> [chat |-> NoChat, proc |-> None]]
    /\ messages = [m \in Messages |->
                     [state |-> "absent", chat |-> NoChat,
                      outbox |-> "absent"]]
    /\ runs = [r \in Runs |-> NoRun]
    /\ procs = [p \in Procs |-> [state |-> "absent", msg |-> None]]
    /\ workers = [r \in Runs |-> NoWorker]
    /\ broker = [up |-> TRUE, wake |-> FALSE, dispatching |-> FALSE,
                 crashes |-> 0]
    /\ creating = {}
    /\ killing = {}

-----------------------------------------------------------------------------
(* Reading the rows. *)

ChatOfRun(r)  == messages[runs[r].msg].chat
ShellOfRun(r) == ShellOf[ChatOfRun(r)]
ShellOfProc(p) == ShellOf[messages[procs[p].msg].chat]

Live(r)        == runs[r].state \in LIVE_RUN_STATES
Finished(r)    == runs[r].state \in TERMINAL_RUN_STATES
LiveRunsOf(c)  == {r \in Runs : Live(r) /\ ChatOfRun(r) = c}
LiveRunsOn(s)  == {r \in Runs : Live(r) /\ ShellOfRun(r) = s}
PendingOf(c)   == {m \in Messages : messages[m].outbox = "pending"
                                      /\ messages[m].chat = c}

IsActive(c)    == registry[ShellOf[c]].chat = c
Alive(p)       == p # None /\ procs[p].state \in {"alive", "orphan"}
Protected(p)   == \E s \in Shells : registry[s].proc = p
Active(w)      == workers[w].pc # "off"

\* A run that carries on the message of an earlier run.
Continues(r)   == \E q \in Runs : /\ q < r
                                  /\ runs[r].msg # None
                                  /\ runs[q].msg = runs[r].msg

\* Identifiers are handed out in order, as AUTOINCREMENT does.
FirstUnused(S, row) ==
    {i \in S : /\ row[i].state = "absent"
               /\ \A j \in S : j < i => row[j].state # "absent"}

\* The row a shell is left with when its open chat is unlinked.
Unlink(s) == [registry EXCEPT ![s] = [chat |-> NoChat, proc |-> None]]

-----------------------------------------------------------------------------
(* Who holds a shell's worktree, as the /proc scan of shell_liveness sees. *)

ShellProcs(s) == {p \in Procs : Alive(p) /\ ShellOfProc(p) = s}

\* The chats a process is attributed to: by the registry or by any run row.
OwnersOf(p) ==
    {c \in Chats : \/ registry[ShellOf[c]] = [chat |-> c, proc |-> p]
                   \/ \E r \in Runs : /\ runs[r].pid = p
                                      /\ runs[r].msg # None
                                      /\ ChatOfRun(r) = c}

\* A mistake to be caught: only processes this server launched are counted.
OccupancyBlind(c) ==
    IF \E p \in ShellProcs(ShellOf[c]) : procs[p].state = "alive"
    THEN "busy" ELSE "free"

\* The preparer's verdict on the slot a turn of chat c needs: "free";
\* "lingering" when only this chat's own earlier process holds it; else
\* "busy".  A process whose server has died is reparented to init and reads
\* as an orphan before anyone asks which chat owns it.
Occupancy(c) ==
    LET held     == ShellProcs(ShellOf[c])
        attached == {p \in held : procs[p].state = "alive"}
    IN  IF held = {} THEN "free"
        ELSE IF /\ attached # {}
                /\ \A p \in attached : OwnersOf(p) # {}
                /\ \A p \in held : OwnersOf(p) \subseteq {c}
             THEN "lingering"
             ELSE "busy"

=============================================================================
