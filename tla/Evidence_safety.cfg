\* What answers are made from: rows at a watermark, a plan over rows, document
\* versions, and the answers given before.
SPECIFICATION EvidenceSpec
CONSTANTS
    Files = {"seed", "restated", "late", "moved", "timed", "future"}
    Content <- MCContent
    Seeds = {"seed"}
    QueryPlans <- MCPlans
    Today = 3
    MaxRows = 2
    MaxLoads = 3
    LedgerThreads = {w1, w2}
    Vacant = Vacant
    Versions = {"a1", "a2", "a2same", "b1"}
    Meta <- MCMeta
    Askers <- MCAskers
    RoleLevels <- MCLevels
    Embedders = {e1}
    Registrars = {r1}
    LibraryThreads = {q1}
    CandidateK = 3
    TopK = 2
    RrfK = 2
    MinScore = 7
    MaxChars = 5
    Absent = Absent
    StoredRows <- MCStoredRows
    FetchPlans <- MCFetchPlans
    MaximumMonths = 3
    MaximumRows = 3
    MaximumGroupBy = 1
    MinimumCohort = 2
    Null = Null
    Questions = {q1}
    Contexts = {c1, c2}
    Threads = {t1}
    Outcomes = {"model", "unstable"}
    MaxAnswers = 3
    MaxRecords = 3
    MaxWaiting = 2
    None = None
SYMMETRY Symmetry
INVARIANTS
    EvidenceInv
    ReplayIsExact
    LedgerIsTruthful
    OneVersionCited
    BackendsAgree
    SameAnswerAgain
    CorrectionIsReturned
PROPERTIES
    CohortFloor
    HindsightIsInvisible
\* Each component rests when its bounded supply is used up.
CHECK_DEADLOCK FALSE
