\* Expected to fail: an orphan session completes an interrupted item.
SPECIFICATION AskSpec
CONSTANTS
    MaxJobs = 2
    Comparisons = {}
    SessionKeys = {k1, k2}
    None = None
    MaxStarts = 2
    MaxFaults = 0
    Questions = {q1}
    MaxItems = 1
    MaxSingles = 1
    Threads = {t1}
    PlanKey = k1
    AnswerKey = k1
    StopStates = {}
    LaunchErrors = {}
    MaxReleases = 0
    MaxLosses = 0
PROPERTIES
    InterruptedIsFinal
\* The lane rests when its bounded supply of rows and starts is used up.
CHECK_DEADLOCK FALSE
