\* Two shells that share one worker slot, with a continuation.
SPECIFICATION Spec
CONSTANTS
    c1 = c1
    c2 = c2
    s1 = s1
    s2 = s2
    none = none
    Chats = {c1, c2}
    Shells = {s1, s2}
    ShellOf <- TwoShells
    NoChat = none
    MaxMessages = 2
    MaxContinues = 1
    MaxWorkers = 1
    MaxCrashes = 0
    Stalls = FALSE
    Closes = FALSE
INVARIANTS
    NoLostWake
CHECK_DEADLOCK FALSE
