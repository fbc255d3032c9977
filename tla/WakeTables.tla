----------------------------- MODULE WakeTables -----------------------------
(***************************************************************************)
(* The rows behind wakes: messages to one receiving shell, the wakes that  *)
(* carry them, the turns they become, the receipts that follow engine      *)
(* turns, and the background runs whose outcomes are such messages.  The   *)
(* receiver's chats are seen only as far as delivery looks at them.        *)
(***************************************************************************)
EXTENDS Naturals, FiniteSets, Sequences

CONSTANTS
    MaxLetters,  \* wake messages ever sent
    MaxWakes,    \* wakes ever created
    MaxChats,    \* chats the receiver ever opens
    MaxTurns,    \* conversation messages ever queued
    MaxJobs,     \* background runs ever registered
    Ladder       \* length of the SHELL_BUSY ladder

ASSUME WakeBounds ==
    /\ {MaxLetters, MaxWakes, MaxChats, MaxTurns, MaxJobs} \subseteq Nat
    /\ Ladder \in Nat \ {0}

VARIABLES
    letters,   \* wake_message
    wakes,     \* sprint_wake_outbox
    desk,      \* the receiver's active chat and its conversations
    turns,     \* conversation_messages, in order of acceptance
    receipts,  \* engine_wake_receipts, one per message
    jobs,      \* runs
    notice     \* the sprint's lifecycle and the flags raised

Letters == 1..MaxLetters
Wakes   == 1..MaxWakes
Chats   == 1..MaxChats
Jobs    == 1..MaxJobs

\* outcome: a run's result; note: any other engine message; the others are
\* scoped to the sprint.
Kinds == {"outcome", "note", "task", "assignment", "report"}

EngineKinds == {"outcome", "note"}

Declared(kind) ==
    CASE kind = "assignment" -> "force-new"
      [] kind = "task"       -> "new"
      [] OTHER               -> "re-enter"

LetterRow == [kind : Kinds \cup {"none"}, wake : 0..MaxWakes,
              read : BOOLEAN, delivered : BOOLEAN]

WakeRow == [state : {"none", "pending", "delivering", "delivered", "failed",
                     "cancelled"},
            sprint : BOOLEAN,      \* sprint_id is set
            recovery : BOOLEAN,    \* the key is engine-recovery:...
            tries : 0..3,          \* attempt_count
            due : BOOLEAN,         \* available_at is past
            lapsed : BOOLEAN,      \* lease_expires_at is past
            aged : BOOLEAN,        \* its outcomes waited RUN_BATCH_HOLD_SECONDS
            quiet : {"none", "set", "long"}]

DeskRow == [active : 0..MaxChats, live : BOOLEAN, opened : 0..MaxChats,
            maker : [Chats -> 0..MaxWakes]]

\* <<wake, 0>>, <<wake, first message>> or <<0, message, busy attempts>>.
TurnKeys == (Wakes \X (0..MaxLetters)) \cup ({0} \X Letters \X (1..Ladder))

TurnRow == [chat : Chats, key : TurnKeys, letters : SUBSET Letters,
            state : {"queued", "running", "done", "busy", "cancelled"},
            shown : BOOLEAN]       \* the transcript holds the prompt

ReceiptRow == [turn : 0..MaxTurns, busy : 0..(Ladder + 1), seen : 0..MaxTurns,
               retry : {"none", "waiting", "due"},
               settled : {"no", "consumed", "blocked"}]

JobRow == [kind : {"none", "job", "devkit", "foreground"},
           state : {"none", "registered", "running", "done", "failed",
                    "killed", "lost"},
           wake : {"none", "pending", "enqueued", "consumed", "blocked"},
           letter : 0..MaxLetters]

NoticeRow == [armed : BOOLEAN, coordinate : BOOLEAN, flagged : BOOLEAN]

NoLetter  == [kind |-> "none", wake |-> 0, read |-> FALSE, delivered |-> FALSE]
NoWake    == [state |-> "none", sprint |-> FALSE, recovery |-> FALSE,
              tries |-> 0, due |-> FALSE, lapsed |-> FALSE, aged |-> FALSE,
              quiet |-> "none"]
NewWake(sprint, recovery, due) ==
    [state |-> "pending", sprint |-> sprint, recovery |-> recovery,
     tries |-> 0, due |-> due, lapsed |-> FALSE, aged |-> FALSE,
     quiet |-> "none"]
NoReceipt == [turn |-> 0, busy |-> 0, seen |-> 0, retry |-> "none",
              settled |-> "no"]
NoJob     == [kind |-> "none", state |-> "none", wake |-> "none", letter |-> 0]

Sent(m)     == letters[m].kind # "none"
Engine(m)   == letters[m].kind \in EngineKinds
Unread(m)   == Sent(m) /\ ~letters[m].read
Undelivered == {m \in Letters : Sent(m) /\ ~letters[m].delivered}
Joined(w)   == {m \in Letters : Sent(m) /\ letters[m].wake = w}
Pending     == {w \in Wakes : wakes[w].state = "pending"}
Terminal(j) == jobs[j].state \in {"done", "failed", "killed", "lost"}

Least(S) == CHOOSE x \in S : \A y \in S : x <= y

\* The wake of a new message: the receiver's pending wake, or a new one.
FreshWake == Least({w \in Wakes : wakes[w].state = "none"})

Coalesced == IF Pending # {} THEN Least(Pending) ELSE FreshWake

CanSend ==
    /\ \E m \in Letters : ~Sent(m)
    /\ Pending # {} \/ \E w \in Wakes : wakes[w].state = "none"

NextLetter == Least({m \in Letters : ~Sent(m)})

\* Insert one message and join it to the receiver's wake, in one transaction.
SendLetter(kind) ==
    LET w == Coalesced IN
    /\ CanSend
    /\ letters' = [letters EXCEPT ![NextLetter] =
                     [kind |-> kind, wake |-> w, read |-> FALSE,
                      delivered |-> FALSE]]
    /\ wakes' = IF Pending # {} THEN wakes
                ELSE [wakes EXCEPT ![w] =
                        NewWake(kind \notin EngineKinds, FALSE, TRUE)]

\* Settle the jobs whose outcome one of these messages tells.
TellJobs(ms, how) ==
    [j \in Jobs |->
       IF /\ jobs[j].letter \in ms
          /\ how = "consumed" \/ jobs[j].wake # "consumed"
       THEN [jobs[j] EXCEPT !.wake = how] ELSE jobs[j]]

=============================================================================
