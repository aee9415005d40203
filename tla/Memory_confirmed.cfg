\* Expected to fail: an answer is confirmed after one of its corrections.
SPECIFICATION Spec
CONSTANTS
    Questions = {q1}
    Contexts = {c1}
    Threads = {t1}
    Outcomes = {"model"}
    MaxAnswers = 2
    MaxRecords = 3
    MaxWaiting = 1
    None = None
INVARIANTS
    ConfirmedIsReturned
\* It rests when its bounded supply of answers and records is used up.
CHECK_DEADLOCK FALSE
