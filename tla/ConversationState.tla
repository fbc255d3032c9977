------------------------- MODULE ConversationState -------------------------
(***************************************************************************)
(* The state vocabulary of a browser conversation and its legal edges.     *)
(* Code checks an edge before it writes it (require_transition) and the    *)
(* triggers of migration 0132 refuse what the code would let through.      *)
(***************************************************************************)

CONVERSATION_TRANSITIONS ==
    [ idle    |-> {"queued", "closed"},
      queued  |-> {"idle", "running"},
      running |-> {"idle", "queued", "waiting", "error"},
      waiting |-> {"queued", "closed"},
      error   |-> {"queued", "closed"},
      closed  |-> {"idle"} ]

RUN_TRANSITIONS ==
    [ leased    |-> {"starting", "failed", "cancelled", "unknown"},
      starting  |-> {"running", "failed", "cancelled", "unknown"},
      running   |-> {"succeeded", "failed", "cancelled", "unknown"},
      succeeded |-> {},
      failed    |-> {},
      cancelled |-> {},
      unknown   |-> {} ]

\* The states of a row, with "absent" for an identifier not yet used.
ChatStates    == {"absent"} \cup DOMAIN CONVERSATION_TRANSITIONS
MessageStates == {"absent", "queued", "running",
                  "completed", "failed", "cancelled"}
RunStates     == {"absent"} \cup DOMAIN RUN_TRANSITIONS
OutboxStates  == {"absent", "pending", "dispatched", "cancelled"}

LIVE_RUN_STATES         == {"leased", "starting", "running"}
TERMINAL_RUN_STATES     == {"succeeded", "failed", "cancelled", "unknown"}
TERMINAL_MESSAGE_STATES == {"completed", "failed", "cancelled"}

\* require_transition: an edge of the table, or a same-state reassertion.
TransitionAllowed(table, current, target) ==
    \/ target = current
    \/ target \in table[current]

\* A mistake to be caught: the run's own word is written to the message.
MessageOutcomeVerbatim ==
    [ succeeded |-> "completed",
      failed    |-> "failed",
      cancelled |-> "cancelled",
      unknown   |-> "unknown" ]

\* The terminal state a run outcome gives its trigger message.
MessageOutcome ==
    [ succeeded |-> "completed",
      failed    |-> "failed",
      cancelled |-> "cancelled",
      unknown   |-> "failed" ]

=============================================================================
