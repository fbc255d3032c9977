----------------------------- MODULE TurnContract -----------------------------
(***************************************************************************)
(* What the conversation runtime promises about accepted messages, with no *)
(* broker, lease, process or registry in sight.                            *)
(*                                                                         *)
(* A message is accepted once into one chat.  It is then either started,   *)
(* after every earlier message of its chat is settled and while no other   *)
(* turn runs on the shell, or cancelled unstarted.  A started turn settles *)
(* once.  Nothing ever leaves a settled message.                           *)
(***************************************************************************)
EXTENDS Naturals

CONSTANTS
    Messages,   \* the messages, numbered in the order they are accepted
    Chats,
    Shells,
    ShellOf,    \* the shell of each chat
    NoChat      \* the chat of a message not accepted yet

VARIABLES turn, home    \* the state of each message, and its chat

Turns   == {"absent", "queued", "running", "completed", "failed", "cancelled"}
Settled == {"completed", "failed", "cancelled"}

TypeOK ==
    /\ turn \in [Messages -> Turns]
    /\ home \in [Messages -> Chats \cup {NoChat}]

Init ==
    /\ turn = [m \in Messages |-> "absent"]
    /\ home = [m \in Messages |-> NoChat]

Accept(m, c) ==
    /\ turn[m] = "absent"
    /\ turn' = [turn EXCEPT ![m] = "queued"]
    /\ home' = [home EXCEPT ![m] = c]

\* The seat of a shell takes one turn at a time, in order within a chat.
Start(m) ==
    /\ turn[m] = "queued"
    /\ \A k \in Messages :
          /\ home[k] = home[m] /\ k < m => turn[k] \in Settled
          /\ turn[k] = "running" => ShellOf[home[k]] # ShellOf[home[m]]
    /\ turn' = [turn EXCEPT ![m] = "running"]
    /\ UNCHANGED home

Settle(m, outcome) ==
    /\ turn[m] = "running"
    /\ turn' = [turn EXCEPT ![m] = outcome]
    /\ UNCHANGED home

\* Close and displacement cancel all the unstarted messages of one chat.
CancelQueued(c) ==
    /\ turn' = [m \in Messages |->
                  IF home[m] = c /\ turn[m] = "queued" THEN "cancelled"
                  ELSE turn[m]]
    /\ UNCHANGED home

Next ==
    \/ \E m \in Messages, c \in Chats : Accept(m, c)
    \/ \E m \in Messages : Start(m)
    \/ \E m \in Messages, o \in Settled : Settle(m, o)
    \/ \E c \in Chats : CancelQueued(c)

Spec == Init /\ [][Next]_<<turn, home>>

=============================================================================
