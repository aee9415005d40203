\* Two requests at a time for one question, sessions that are released,
\* stopped and killed, and a second dashboard life beside orphan sessions.
SPECIFICATION AskSpec
CONSTANTS
    MaxJobs = 2
    Comparisons = {}
    SessionKeys = {k1}
    None = None
    MaxStarts = 2
    MaxFaults = 0
    Questions = {q1}
    MaxItems = 2
    MaxSingles = 0
    Threads = {t1, t2}
    PlanKey = k1
    AnswerKey = k1
    StopStates = {"running"}
    LaunchErrors = {}
    MaxReleases = 1
    MaxLosses = 1
INVARIANTS
    AskInv
    NoStrandedItem
    NoHungQuestion
PROPERTIES
    AnsweredStays
    ServedInOrder
\* The lane rests when its bounded supply of rows and starts is used up.
SYMMETRY Symmetry
CHECK_DEADLOCK FALSE
