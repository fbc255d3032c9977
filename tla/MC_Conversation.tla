--------------------------- MODULE MC_Conversation ---------------------------
(* Small instances of the conversation runtime for TLC. *)
EXTENDS ConversationRuntime, TLC

CONSTANTS c1, c2, s1, s2, none

OneShell  == [c \in Chats |-> s1]
TwoShells == [c \in Chats |-> IF c = c1 THEN s1 ELSE s2]

\* Chats of one shell are interchangeable.
ChatSymmetry == Permutations(Chats)

=============================================================================
