\* Expected to be violated.
SPECIFICATION WakesSpec
CONSTANTS
    Workloads <- WedgeLoad
    MaxLetters = 3
    MaxWakes = 4
    MaxChats = 4
    MaxTurns = 6
    MaxJobs = 1
    Ladder = 1
PROPERTY
    LettersArrive
CHECK_DEADLOCK FALSE
