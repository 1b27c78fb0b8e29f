\* Every component that shares no state with the others, one at a time.
SPECIFICATION Spec
CONSTANTS
    t1 = t1
    t2 = t2
    r1 = r1
    r2 = r2
    Tabs = {t1, t2}
    NoTab = NoTab
    Calls = {r1, r2}
    MaxGrants = 3

    Attempts = {1, 2}
    MaxFailures = 2
    Window = 2
    Lockout = 2
    MaxTime = 6

    Keys = {"k1", "k2", "k3"}
    Burst = 3
    Costs = {1, 2, 5}
    IdleAfter = 3
    SweepInterval = 1
    SweepAt = 1
    MaxBuckets = 2
    LowWater = 1
    MaxClock = 7

    Callers = {1, 2, 3}
    Slots = 2
    MaxAttempts = 2
    Budget = 2
    Thresholds = {1, 2}
    MaxCost = 2
    Ceiling = 4

    BatchSize = 2
    MaxLines = 5
    Timers = {"q1", "q2"}

    MaxSealed = 4
    OldRows = 3
    PageSize = 2
    MaxEdits = 1

    Pool = {"ama", "kofi"}
    Ops = {1, 2}
    MaxIds = 3
    MaxContests = 1

    Writers = {1, 2}
    CVs = {1, 2}
    Blank = {2}
    MaxProfiles = 2

    Skills = {"go", "sql"}
    Roles = {"backend"}
    Needs <- MCNeeds
    Rubric <- MCRubric
    Compatible = {"backend"}
    MaxExecutions = 2
    MaxVersions = 2

    Viewers = {1, 2, 3}
    TTL = 2
    Slow = 1
    MaxTicks = 7

    Dataset <- MCDataset
    Unique = {"users", "employers", "candidates"}
    MaxCopies = 2
INVARIANTS
    TypesOK
    NoFork
    PresentsOnce
    GuessesBounded
    RegisteredOnceAndWhole
    OverspendIsBounded
    BufferedIsScheduled
    EachLineOnce
    NothingOnTheOldKey
    ContestsHaveSubjects
    PassportIsOfOneCV
    AgentIsHonest
    ShownIsRecent
    SeedIsWhole
PROPERTIES
    EndedStaysEnded
    EvictionIsInvisible
    VerdictStands
    ClosedStaysClosed
SYMMETRY Symmetry
CHECK_DEADLOCK FALSE
