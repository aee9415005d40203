\* Expected to fail: only a queued partner is cancelled.
SPECIFICATION Spec
CONSTANTS
    MaxJobs = 2
    Comparisons = {c1}
    SessionKeys = {}
    None = None
    MaxStarts = 1
    MaxFaults = 0
INVARIANTS
    StoppedCandidateStopsBase

\* The lane rests when its bounded supply of job rows and starts is used up.
CHECK_DEADLOCK FALSE
