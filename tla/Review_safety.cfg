\* Two handlers at a time: prepare, approve, correct and execute, with a new
\* extract and a restart of the service at any moment. Three revisions leave
\* room for two successors of one revision.
SPECIFICATION Spec
CONSTANTS
    Reviewers = {alice}
    Plans = {p1}
    Snapshots = {s1, s2}
    Controls = {k1}
    Threads = {t1, t2}
    MaxRevisions = 3
    None = None
SYMMETRY Symmetry
INVARIANTS
    ApprovalInv
    RowsAsApproved
    OneSuccessor
    FeedbackBacked
PROPERTIES
    TicketSpec
