\* The scheduler makes progress; no store errors.
SPECIFICATION FairSpec
CONSTANTS
    MaxJobs = 3
    Comparisons = {c1}
    SessionKeys = {}
    None = None
    MaxStarts = 2
    MaxFaults = 0

PROPERTIES
    QueuedMovesOn
    RunningSettles
\* The lane rests when its bounded supply of job rows and starts is used up.
CHECK_DEADLOCK FALSE
