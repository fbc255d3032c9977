\* Plans of up to three units and two pull requests with what may interfere,
\* and two messages or a run.
SPECIFICATION RuntimeSpec
CONSTRAINT RunsInTurn
CONSTANTS
    Agendas <- SmallAgendas
    Workloads <- MixedLoads
    MaxUnits = 3
    MaxPrs = 2
    MaxHeads = 2
    MaxRounds = 3
    MaxTerms = 2
    RoundCeiling = 2
    Devs = {"ann", "bob"}
    Owners = {"rae", "ray"}
    Executors = {"worker", "elder"}
    MaxTries = 3
    Keys = {"k1"}
    MaxLetters = 2
    MaxWakes = 4
    MaxChats = 4
    MaxTurns = 6
    MaxJobs = 2
    Ladder = 1
    Outings <- SmallOutings
    Commanders = {"ops", "aux"}
    MaxFloor = 2
    Ledger <- SmallLedger
INVARIANTS
    RuntimeTypeOK
    OnePendingWake
    LetterIsCarried
    ForceNewStartsFresh
    FailureIsSeen
    ReplaysFollowRefusals
    ConsumedWasShown
    OneLanePerDeveloper
    ReleasedAfterUpstream
    ClosedIsAnnounced
    AssignmentMatchesLane
    MergeNeedsVerdict
    CompletedSprintIsDone
    OneRemover
    SuccessMeansGone
    ServesTheAuthority
PROPERTIES
    LostHasNoEvidence
    PausedHoldsStill
    SupersededWritesNothing
    KeepsOneStore
    RestartsAreRemembered
CHECK_DEADLOCK FALSE
