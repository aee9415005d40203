\* Two comparisons and single jobs, two dashboard lives with orphan workers of the
\* earlier one, and store errors in tick(), in its handler in loop() and in stop().
SPECIFICATION Spec
CONSTANTS
    MaxJobs = 3
    Comparisons = {c1, c2}
    SessionKeys = {}
    None = None
    MaxStarts = 2
    MaxFaults = 2
SYMMETRY Symmetry
INVARIANTS
    PairInv
    OneActiveJob
    CompletedMeansExitZero
    CandidateNeedsBase
PROPERTIES
    OutcomeIsFinal
    LaunchesInOrder
    ExclusiveUse
\* The lane rests when its bounded supply of job rows and starts is used up.
CHECK_DEADLOCK FALSE
