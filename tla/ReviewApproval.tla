-------------------------- MODULE ReviewApproval --------------------------
(***************************************************************************)
(* The SQL review of the restricted data service: data_service.py prepare, *)
(* decide_query and execute_query over review_store.py.                    *)
(*                                                                         *)
(* A revision is a query plan that a reviewer prepared, bound to the bytes *)
(* of the analytical snapshot and to the controls (registry, policy) of    *)
(* the moment. Each store call is one SQLite transaction; a handler makes  *)
(* several of them, and reads the snapshot file in between, while other    *)
(* requests do the same and the file may be replaced. `request' says where *)
(* each handler is.                                                        *)
(***************************************************************************)
EXTENDS Naturals, Sequences

CONSTANTS
    Reviewers,
    Plans,          \* query plans: what is compiled, with its parameters
    Snapshots,      \* contents of the analytical database file
    Controls,       \* contents of registry and policy, read at service start
    Threads,        \* requests handled at the same time
    MaxRevisions,   \* bound: revisions ever prepared
    None

ASSUME ReviewAssumption ==
    /\ MaxRevisions \in Nat
    /\ None \notin Plans \union Snapshots \union Reviewers \union (1..MaxRevisions)

VARIABLES
    made,       \* revisions so far
    revision,   \* the revisions table
    feedback,   \* the feedback records of each revision, oldest first
    disk,       \* the snapshot file
    used,       \* history: the contents the file has had
    controls,
    request,    \* handlers in flight
    uses,       \* history: how often rows were returned for each revision
    shown       \* history: what was returned, to whom, for which revision

reviewVars == <<made, revision, feedback>>
envVars == <<disk, used, controls>>
shownVars == <<uses, shown>>
vars == <<reviewVars, envVars, request, shownVars>>

Rev == 1..MaxRevisions
Binding == [plan : Plans, snapshot : Snapshots, controls : Controls]
Status == {"none", "pending", "approved", "rejected", "consumed"}
Revision ==
    [owner : Reviewers \union {None},
     binding : [plan : Plans \union {None}, snapshot : Snapshots \union {None},
                controls : Controls \union {None}],
     status : Status,
     parent : Rev \union {None}]
NoRevision ==
    [owner |-> None, status |-> "none", parent |-> None,
     binding |-> [plan |-> None, snapshot |-> None, controls |-> None]]

(* A decision is recorded with the correction it came with, if any; a       *)
(* correction that passed revalidation is recorded again as corrected.      *)
Feedback ==
    [status : Status, attempted : Plans \union {None}, corrected : Plans \union {None}]

Request ==
    [pc : {"idle", "create", "decide", "corrected", "lineage", "consume", "run", "recheck"},
     who : Reviewers \union {None},
     rev : Rev \union {None},       \* reviewed, corrected or executed revision
     plan : Plans \union {None},    \* the request's plan, or its correction
     verdict : {"approved", "rejected"},
     seen : Snapshots \union {None},    \* the snapshot as the handler hashed it
     rows : Snapshots \union {None}]    \* the snapshot the query read
NewRequest(pc, who, rev, plan, verdict, seen) ==
    [pc |-> pc, who |-> who, rev |-> rev, plan |-> plan, verdict |-> verdict,
     seen |-> seen, rows |-> None]
Idle == NewRequest("idle", None, None, None, "rejected", None)

Shown == [rev : Rev, who : Reviewers, plan : Plans, rows : Snapshots, controls : Controls]

TypeOK ==
    /\ made \in 0..MaxRevisions
    /\ revision \in [Rev -> Revision]
    /\ feedback \in [Rev -> Seq(Feedback)]
    /\ disk \in Snapshots
    /\ used \in SUBSET Snapshots
    /\ controls \in Controls
    /\ request \in [Threads -> Request]
    /\ uses \in [Rev -> Nat]
    /\ shown \in SUBSET Shown

Init ==
    /\ made = 0
    /\ revision = [r \in Rev |-> NoRevision]
    /\ feedback = [r \in Rev |-> <<>>]
    /\ disk \in Snapshots
    /\ used = {disk}
    /\ controls \in Controls
    /\ request = [t \in Threads |-> Idle]
    /\ uses = [r \in Rev |-> 0]
    /\ shown = {}

(* The keyed digest of everything an approval depends on.                   *)
BindingOf(plan, snapshot) ==
    [plan |-> plan, snapshot |-> snapshot, controls |-> controls]

Goes(t, pc) == request' = [request EXCEPT ![t].pc = pc]
Done(t) == request' = [request EXCEPT ![t] = Idle]

-----------------------------------------------------------------------------
(* prepare: the plan is compiled, the snapshot is hashed, then the revision *)
(* is created. A correction's plan goes through it as a child revision.     *)
PrepareQuery(t) ==
    /\ request[t].pc = "idle"
    /\ \E who \in Reviewers, plan \in Plans :
          request' = [request EXCEPT
              ![t] = NewRequest("create", who, None, plan, "rejected", disk)]
    /\ UNCHANGED <<reviewVars, envVars, shownVars>>

Create(t) ==
    /\ request[t].pc = "create"
    /\ made < MaxRevisions
    /\ made' = made + 1
    /\ revision' = [revision EXCEPT ![made + 1] =
          [owner |-> request[t].who,
           binding |-> BindingOf(request[t].plan, request[t].seen),
           status |-> "pending",
           parent |-> request[t].rev]]
    /\ IF request[t].rev = None
       THEN Done(t)
       ELSE request' = [request EXCEPT ![t].pc = "lineage", ![t].seen = None]
    /\ UNCHANGED <<feedback, envVars, shownVars>>

-----------------------------------------------------------------------------
(* decide_query: the revision is read and, for a plain approval, compared   *)
(* with what preparing it now would give; then decide() is a transaction. A *)
(* correction rejects the revision it corrects, whatever the verdict says.  *)
ReviewQuery(t) ==
    /\ request[t].pc = "idle"
    /\ \E who \in Reviewers, r \in 1..made, verdict \in {"approved", "rejected"},
          correction \in Plans \union {None} :
          /\ revision[r].owner = who
          /\ correction # None => verdict = "rejected"
          /\ verdict = "approved"
                => revision[r].binding = BindingOf(revision[r].binding.plan, disk)
          /\ request' = [request EXCEPT
                ![t] = NewRequest("decide", who, r, correction, verdict, None)]
    /\ UNCHANGED <<reviewVars, envVars, shownVars>>

(* Mutant: a correction may replace a revision that was corrected before.   *)
DecidableAgain(t) ==
    revision[request[t].rev].status
        \in (IF request[t].plan # None THEN {"pending", "approved", "rejected"} ELSE {"pending"})
Decidable(t) ==
    revision[request[t].rev].status
        \in (IF request[t].plan # None THEN {"pending", "approved"} ELSE {"pending"})

Decide(t) ==
    LET r == request[t].rev
        s == request[t].verdict IN
    /\ request[t].pc = "decide"
    /\ Decidable(t)
    /\ revision' = [revision EXCEPT ![r].status = s]
    /\ feedback' = [feedback EXCEPT ![r] =
          Append(@, [status |-> s, attempted |-> request[t].plan, corrected |-> None])]
    /\ IF request[t].plan # None THEN Goes(t, "corrected") ELSE Done(t)
    /\ UNCHANGED <<made, envVars, shownVars>>

(* The correction is a valid plan that compiles, so it is prepared.         *)
(* Mutant: the lineage is recorded before the child revision exists.        *)
RecordFirst(t) ==
    /\ request[t].pc = "corrected"
    /\ Goes(t, "lineage")
    /\ UNCHANGED <<reviewVars, envVars, shownVars>>

PrepareCorrection(t) ==
    /\ request[t].pc = "corrected"
    /\ request' = [request EXCEPT ![t].pc = "create", ![t].seen = disk]
    /\ UNCHANGED <<reviewVars, envVars, shownVars>>

(* validated_correction copies the latest record, with the correction.      *)
RecordLineage(t) ==
    LET r == request[t].rev IN
    /\ request[t].pc = "lineage"
    /\ feedback' = [feedback EXCEPT ![r] =
          Append(@, [@[Len(@)] EXCEPT !.corrected = request[t].plan])]
    /\ Done(t)
    /\ UNCHANGED <<made, revision, envVars, shownVars>>

-----------------------------------------------------------------------------
(* execute_query: hash the snapshot, consume the approval, run the query,   *)
(* hash again, validate and return the rows.                                *)
ExecuteQuery(t) ==
    /\ request[t].pc = "idle"
    /\ \E who \in Reviewers, r \in 1..made, plan \in Plans :
          request' = [request EXCEPT
              ![t] = NewRequest("consume", who, r, plan, "rejected", disk)]
    /\ UNCHANGED <<reviewVars, envVars, shownVars>>

(* Mutant: the approval's status is not looked at again.                    *)
ConsumableAgain(t) ==
    LET row == revision[request[t].rev] IN
    /\ row.status \in {"approved", "consumed"}
    /\ row.owner = request[t].who
    /\ row.binding = BindingOf(request[t].plan, request[t].seen)

Consumable(t) ==
    LET row == revision[request[t].rev] IN
    /\ row.status = "approved"
    /\ row.owner = request[t].who
    /\ row.binding = BindingOf(request[t].plan, request[t].seen)

Consume(t) ==
    /\ request[t].pc = "consume"
    /\ Consumable(t)
    /\ revision' = [revision EXCEPT ![request[t].rev].status = "consumed"]
    /\ Goes(t, "run")
    /\ UNCHANGED <<made, feedback, envVars, shownVars>>

RunQuery(t) ==
    /\ request[t].pc = "run"
    /\ request' = [request EXCEPT ![t].pc = "recheck", ![t].rows = disk]
    /\ UNCHANGED <<reviewVars, envVars, shownVars>>

(* Mutant: the snapshot is not hashed again after the query.                *)
Unchecked(t) == TRUE
SnapshotUnchanged(t) == disk = request[t].seen

ReturnRows(t) ==
    LET r == request[t].rev IN
    /\ request[t].pc = "recheck"
    /\ SnapshotUnchanged(t)
    /\ uses' = [uses EXCEPT ![r] = @ + 1]
    /\ shown' = shown \union
          {[rev |-> r, who |-> request[t].who, plan |-> request[t].plan,
            rows |-> request[t].rows, controls |-> controls]}
    /\ Done(t)
    /\ UNCHANGED <<reviewVars, envVars>>

(* Every other outcome of a handler leaves the tables as they are: the plan *)
(* does not compile, the file is missing or has changed, a conflict, a      *)
(* locked store, a query that fails or runs out of time, rows that fail     *)
(* validation. (A correction that fails revalidation adds an audit event.)  *)
RequestFails(t) ==
    /\ request[t].pc # "idle"
    /\ Done(t)
    /\ UNCHANGED <<reviewVars, envVars, shownVars>>

-----------------------------------------------------------------------------
(* The file is replaced by a new extract, one it has never been. Putting an *)
(* old one back while a query runs is outside the operating contract: "the  *)
(* local operating contract requires an immutable analytical file".         *)
ReplaceSnapshot ==
    /\ \E s \in Snapshots \ used : disk' = s /\ used' = used \union {s}
    /\ UNCHANGED <<reviewVars, request, controls, shownVars>>

(* The service restarts, perhaps with other controls: its handlers are gone. *)
Restart ==
    /\ controls' \in Controls
    /\ request' = [t \in Threads |-> Idle]
    /\ UNCHANGED <<reviewVars, disk, used, shownVars>>

-----------------------------------------------------------------------------
Handler(t) ==
    \/ PrepareQuery(t) \/ Create(t)
    \/ ReviewQuery(t) \/ Decide(t) \/ PrepareCorrection(t) \/ RecordLineage(t)
    \/ ExecuteQuery(t) \/ Consume(t) \/ RunQuery(t) \/ ReturnRows(t)
    \/ RequestFails(t)

Next ==
    \/ \E t \in Threads : Handler(t)
    \/ ReplaceSnapshot
    \/ Restart

Spec == Init /\ [][Next]_vars

-----------------------------------------------------------------------------
(* Rows shown come from the snapshot, the plan and the controls that were   *)
(* approved, and go to the reviewer who approved them, whatever was         *)
(* replaced, corrected or restarted between approval and answer.            *)
RowsAsApproved ==
    \A s \in shown :
        /\ s.who = revision[s.rev].owner
        /\ revision[s.rev].binding =
              [plan |-> s.plan, snapshot |-> s.rows, controls |-> s.controls]

(* "Corrections revoke the previous revision": a revision with a corrected  *)
(* successor is rejected, belongs to the same reviewer, and has no other    *)
(* successor, even when it is corrected twice at the same time.             *)
OneSuccessor ==
    \A c \in Rev : \A p \in Rev : revision[c].parent = p =>
        /\ revision[p].status = "rejected"
        /\ revision[p].owner = revision[c].owner
        /\ \A d \in Rev : revision[d].parent = p => d = c

(* A correction becomes training feedback ("corrected") only when a         *)
(* revalidated revision of exactly that plan exists, across handlers that   *)
(* stop half way.                                                           *)
FeedbackBacked ==
    \A r \in Rev : \A n \in DOMAIN feedback[r] :
        feedback[r][n].corrected # None =>
            \E c \in Rev : /\ revision[c].parent = r
                           /\ revision[c].binding.plan = feedback[r][n].corrected

(* Each revision is a ticket that shows rows at most once, and none after   *)
(* it was rejected or corrected (ApprovalTicket).                           *)
Approval == INSTANCE ApprovalTicket WITH
                Ticket <- Rev,
                right <- [r \in Rev |-> revision[r].status]
TicketSpec == Approval!Spec

(* What makes the above inductive: a handler that has consumed an approval  *)
(* is alone with it, and its snapshot only counts while the file is the one *)
(* it hashed.                                                               *)
Spending(t) == request[t].pc \in {"run", "recheck"}
Correcting(t) ==
    \/ request[t].pc \in {"corrected", "lineage"}
    \/ request[t].pc = "create" /\ request[t].rev # None

RevisionShape ==
    \A r \in Rev :
        /\ revision[r].status = "none" <=> r > made
        /\ r > made => revision[r] = NoRevision
        /\ uses[r] # 0 => revision[r].status = "consumed" /\ uses[r] = 1
        /\ feedback[r] = <<>> => revision[r].status \in {"none", "pending"}

RequestShape ==
    \A t \in Threads :
        /\ request[t].pc # "idle" => request[t].who # None
        /\ request[t].pc \in {"create", "consume", "run", "recheck", "corrected", "lineage"}
              => request[t].plan # None
        /\ request[t].pc \in {"create", "consume", "run", "recheck"} => request[t].seen \in used
        /\ request[t].pc = "recheck" => request[t].rows \in Snapshots
        /\ request[t].pc \notin {"idle", "create"} => request[t].rev \in 1..made
        /\ request[t].pc = "create" => request[t].rev \in (1..made) \union {None}
        /\ request[t].pc = "decide" => revision[request[t].rev].owner = request[t].who
        /\ request[t].pc = "decide" /\ request[t].plan # None => request[t].verdict = "rejected"

SpendingAlone ==
    \A t \in Threads : Spending(t) =>
        /\ revision[request[t].rev].status = "consumed"
        /\ uses[request[t].rev] = 0
        /\ revision[request[t].rev].owner = request[t].who
        /\ revision[request[t].rev].binding = BindingOf(request[t].plan, request[t].seen)
        /\ \A u \in Threads : Spending(u) /\ request[u].rev = request[t].rev => u = t

RowsOfSnapshot ==
    /\ disk \in used
    /\ \A t \in Threads :
          request[t].pc = "recheck" => request[t].rows = request[t].seen \/ disk # request[t].seen

CorrectingAlone ==
    \A t \in Threads : Correcting(t) =>
        /\ revision[request[t].rev].status = "rejected"
        /\ revision[request[t].rev].owner = request[t].who
        /\ \A u \in Threads : Correcting(u) /\ request[u].rev = request[t].rev => u = t
        /\ request[t].pc # "lineage"
              => \A c \in Rev : revision[c].parent # request[t].rev
        /\ request[t].pc = "lineage"
              => \E c \in Rev : /\ revision[c].parent = request[t].rev
                                /\ revision[c].binding.plan = request[t].plan

ApprovalInv ==
    /\ TypeOK
    /\ RevisionShape
    /\ RequestShape
    /\ SpendingAlone
    /\ RowsOfSnapshot
    /\ CorrectingAlone
    /\ OneSuccessor
    /\ RowsAsApproved
    /\ FeedbackBacked

=============================================================================
