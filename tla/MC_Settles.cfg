\* Liveness over a crash, with a queued follow-up.
SPECIFICATION FairSpec
CONSTANTS
    c1 = c1
    c2 = c2
    s1 = s1
    s2 = s2
    none = none
    Chats = {c1}
    Shells = {s1}
    ShellOf <- OneShell
    NoChat = none
    MaxMessages = 2
    MaxContinues = 0
    MaxWorkers = 2
    MaxCrashes = 1
    Stalls = FALSE
    Closes = FALSE
PROPERTIES
    QueuedSettles
    RunningSettles
CHECK_DEADLOCK FALSE
