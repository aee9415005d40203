\* The plan and answer models differ: two sessions share the lane with single
\* jobs, whose launch may fail. No session is stopped or killed.
SPECIFICATION FairAskSpec
CONSTANTS
    MaxJobs = 5
    Comparisons = {}
    SessionKeys = {k1, k2}
    None = None
    MaxStarts = 1
    MaxFaults = 0
    Questions = {q1}
    MaxItems = 2
    MaxSingles = 1
    Threads = {t1}
    PlanKey = k1
    AnswerKey = k2
    StopStates = {}
    LaunchErrors = {"single"}
    MaxReleases = 0
    MaxLosses = 0
PROPERTIES
    QuestionResolves
    LaneIsShared
\* The lane rests when its bounded supply of rows and starts is used up.
CHECK_DEADLOCK FALSE
