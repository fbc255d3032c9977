\* One chat, two messages: closes, reopens, a crash, late heartbeats.
SPECIFICATION Spec
CONSTANTS
    c1 = c1
    c2 = c2
    s1 = s1
    s2 = s2
    none = none
    Chats = {c1}
    Shells = {s1}
    ShellOf <- OneShell
    NoChat = none
    MaxMessages = 2
    MaxContinues = 0
    MaxWorkers = 2
    MaxCrashes = 1
    Stalls = TRUE
    Closes = TRUE
INVARIANTS
    TypeOK
    OneProcess
    AtMostOnce
    ChatStateIsHonest
    NoOrphanMessage
PROPERTIES
    OutcomeStands
    UnlinkedForGood
CHECK_DEADLOCK FALSE
