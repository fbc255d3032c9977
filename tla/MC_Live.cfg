\* One-unit sprints with one thing that interferes, a cleanup whose workers stall
\* or die, and two messages or a run with crashes and outages kept apart from
\* refusals.
SPECIFICATION RuntimeSpec
CONSTANTS
    Agendas <- BriefAgendas
    Workloads <- SettlingLoads
    MaxUnits = 1
    MaxPrs = 1
    MaxHeads = 2
    MaxRounds = 3
    MaxTerms = 2
    RoundCeiling = 2
    Devs = {"ann", "bob"}
    Owners = {"rae", "ray"}
    Executors = {"worker", "elder"}
    MaxTries = 3
    Keys = {"k1"}
    MaxLetters = 2
    MaxWakes = 4
    MaxChats = 4
    MaxTurns = 6
    MaxJobs = 1
    Ladder = 1
    Outings <- Undisturbed
    Commanders = {"ops", "aux"}
    MaxFloor = 2
    Ledger <- SmallLedger
PROPERTIES
    MergeReachesThePlan
    CleanupSettles
    LettersArrive
    OutcomesSettle
CHECK_DEADLOCK FALSE
