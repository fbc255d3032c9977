\* One chat whose turns linger and are carried on, over a crash.
SPECIFICATION Spec
CONSTANTS
    c1 = c1
    c2 = c2
    s1 = s1
    s2 = s2
    none = none
    Chats = {c1}
    Shells = {s1}
    ShellOf <- OneShell
    NoChat = none
    MaxMessages = 2
    MaxContinues = 1
    MaxWorkers = 2
    MaxCrashes = 1
    Stalls = FALSE
    Closes = FALSE
INVARIANTS
    OneLiveRun
    OneProcess
CHECK_DEADLOCK FALSE
