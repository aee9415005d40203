------------------------------ MODULE JobLane ------------------------------
(***************************************************************************)
(* The job scheduler of the fine-tuning workbench: workbench/jobs.py, the  *)
(* worker process it launches (worker.py, main) and the endpoints that     *)
(* enqueue and stop jobs (server.py).                                      *)
(*                                                                         *)
(* The actors are the dashboard process (its HTTP handlers and the         *)
(* scheduler thread), one worker process per launched job, and the user.   *)
(* A worker is started in its own session, so it outlives a dashboard that *)
(* crashes; it serialises itself with other workers through gpu.lock.      *)
(* Job rows live in SQLite and survive everything.                         *)
(*                                                                         *)
(* Jobs.mutex covers tick() and stop(): `tick' says how far the scheduler  *)
(* thread is inside tick() or in loop()'s handler, `sweeping' which row's   *)
(* partner a call that holds the mutex has yet to cancel; the mutex is free *)
(* in MutexFree. Every update of a row is a transaction of its own, and so  *)
(* a step: a crash or a store error may come between two of them.           *)
(*                                                                         *)
(* Session jobs (Ask) need the items they serve: module AskSession extends *)
(* this one with them. Here jobs are single runs (train, evaluate, replay, *)
(* index_documents) and the two sides of a paired comparison.              *)
(***************************************************************************)
EXTENDS Integers

CONSTANTS
    MaxJobs,        \* bound: job rows ever added
    Comparisons,    \* comparison ids a create_comparison request may draw
    SessionKeys,    \* session keys (model and adapter) of AskSession
    None,
    MaxStarts,      \* bound: times the dashboard is started
    MaxFaults       \* bound: store errors raised in tick(), its handler or stop()

ASSUME JobsAssumption ==
    /\ MaxJobs \in Nat /\ MaxStarts \in Nat /\ MaxFaults \in Nat
    /\ None \notin Comparisons \union SessionKeys \union (1..MaxJobs)
    /\ Comparisons \intersect SessionKeys = {}

VARIABLES
    made,       \* job rows so far; row j is the j-th in rowid order
    status,     \* status column of each row, "none" before it is added
    spec,       \* the frozen spec: role, and comparison_id or session_key
    proc,       \* the worker process of each job
    signalled,  \* jobs whose process group got SIGTERM or SIGKILL
    server,     \* the dashboard process
    tick,       \* how far the scheduler thread is in tick() and its handler
    sweeping,   \* the row ended by stop() or a failed launch, its partner not yet
    current,    \* Jobs.current (and Jobs.process: set and cleared together)
    creating,   \* comparisons between their two enqueue() calls
    starts,
    faults,
    late        \* history: candidates added when their base had already ended

storeVars == <<made, spec, late>>
workerVars == <<proc, signalled>>
bounds == <<starts, faults>>
vars == <<made, status, spec, proc, signalled, server, tick, sweeping, current,
          creating, starts, faults, late>>

Job == 1..MaxJobs
PairRoles == {"base", "candidate"}
Role == {"single", "session"} \union PairRoles
JobSpec == [role : Role, group : Comparisons \union SessionKeys \union {None}]
NoSpec == [role |-> "single", group |-> None]

Active == {"queued", "running", "stopping"}
Ended == {"completed", "failed", "cancelled", "interrupted"}
Status == {"none"} \union Active \union Ended
Process == {"none", "waiting", "holding", "ok", "err"}

Alive(j) == proc[j] \in {"waiting", "holding"}
(* Mutant: poll() read as a truth value, so exit code 0 looks like None. *)
ExitedTruthy(j) == proc[j] = "err"

Exited(j) == proc[j] \in {"ok", "err"}
MutexFree == tick \in {"idle", "fault", "handled", "dead"} /\ sweeping = None
(* Mutant: any queued row, not the oldest. *)
AnyQueued(j) == status[j] = "queued"

FirstQueued(j) ==
    /\ status[j] = "queued"
    /\ \A k \in Job : status[k] = "queued" => j <= k

TypeOK ==
    /\ made \in 0..MaxJobs
    /\ status \in [Job -> Status]
    /\ spec \in [Job -> JobSpec]
    /\ proc \in [Job -> Process]
    /\ signalled \in SUBSET Job
    /\ server \in {"starting", "up", "closing", "exiting", "down"}
    /\ tick \in {"idle", "reaped", "picking", "refused", "launched",
                 "fault", "handled", "dead"}
    /\ sweeping \in Job \union {None}
    /\ current \in Job \union {None}
    /\ creating \in SUBSET Comparisons
    /\ starts \in 0..MaxStarts
    /\ faults \in 0..MaxFaults
    /\ late \in SUBSET Job

Init ==
    /\ made = 0
    /\ status = [j \in Job |-> "none"]
    /\ spec = [j \in Job |-> NoSpec]
    /\ proc = [j \in Job |-> "none"]
    /\ signalled = {}
    /\ server = "down"
    /\ tick = "idle"
    /\ sweeping = None
    /\ current = None
    /\ creating = {}
    /\ starts = 0
    /\ faults = 0
    /\ late = {}

-----------------------------------------------------------------------------
(* cancel_partners: once one side of a comparison ended without completing, *)
(* the other side is cancelled if it is still queued.                       *)

Partners(j, k) ==
    /\ j # k
    /\ spec[j].role \in PairRoles
    /\ spec[k].role \in PairRoles
    /\ spec[j].group = spec[k].group

(* Mutant: a cancelled side leaves its partner queued. *)
SweptOnFailure(st, j) ==
    [k \in Job |->
        IF st[j] = "failed" /\ Partners(j, k) /\ st[k] = "queued"
        THEN "cancelled" ELSE st[k]]

Swept(st, j) ==
    [k \in Job |->
        IF st[j] # "completed" /\ Partners(j, k) /\ st[k] = "queued"
        THEN "cancelled" ELSE st[k]]

(* Row j takes its final status s; cancel_partners(j) is to follow. *)
EndJob(j, s) ==
    /\ status' = [status EXCEPT ![j] = s]
    /\ sweeping' = j

(* enqueue: the spec file is written first, the row is added last. *)
Enqueue(role, group) ==
    /\ made < MaxJobs
    /\ made' = made + 1
    /\ status' = [status EXCEPT ![made + 1] = "queued"]
    /\ spec' = [spec EXCEPT ![made + 1] = [role |-> role, group |-> group]]

-----------------------------------------------------------------------------
(* The dashboard process. *)

(* Jobs.start: takes scheduler.lock (held by a live dashboard, so only one  *)
(* that is down can start), marks what an earlier dashboard left behind as  *)
(* interrupted without touching any process; Ready starts the thread, and   *)
(* requests are served from then on (lifespan).                             *)
(* Mutant: stopping is forgotten. *)
RecoverRunning(j) ==
    IF status[j] \in {"running", "queued"} THEN "interrupted" ELSE status[j]
(* Mutant: whatever did not complete is marked interrupted. *)
RecoverAll(j) ==
    IF status[j] \in {"none", "completed"} THEN status[j] ELSE "interrupted"
RecoveredStatus(j) == IF status[j] \in Active THEN "interrupted" ELSE status[j]

Start ==
    /\ server = "down"
    /\ starts < MaxStarts
    /\ starts' = starts + 1
    /\ server' = "starting"
    /\ status' = [j \in Job |-> RecoveredStatus(j)]
    /\ UNCHANGED <<storeVars, workerVars, tick, sweeping, current, creating, faults>>

Ready ==
    /\ server = "starting"
    /\ server' = "up"
    /\ UNCHANGED <<storeVars, workerVars, status, tick, sweeping, current, creating, bounds>>

(* The process is gone: what lived in memory is lost, workers carry on. *)
Forget ==
    /\ server' = "down"
    /\ tick' = "idle"
    /\ sweeping' = None
    /\ current' = None
    /\ creating' = {}

Crash ==
    /\ server # "down"
    /\ Forget
    /\ UNCHANGED <<storeVars, workerVars, status, bounds>>

(* Jobs.stop on the running job: stopping is written, then the group gets   *)
(* SIGTERM, and SIGKILL if it has not gone after five seconds.              *)
StopCurrent(j) ==
    /\ current = j
    /\ status[j] # "queued"
    /\ status' = [status EXCEPT ![j] = "stopping"]
    /\ signalled' = signalled \union {j}
    /\ UNCHANGED sweeping

(* Jobs.stop on a queued job: it is cancelled, then its partner is.         *)
StopQueued(j) ==
    /\ status[j] = "queued"
    /\ EndJob(j, "cancelled")
    /\ UNCHANGED signalled

Stop(j) ==
    /\ server = "up"
    /\ MutexFree
    /\ StopQueued(j) \/ StopCurrent(j)
    /\ UNCHANGED <<storeVars, proc, server, tick, current, creating, bounds>>

(* The other transaction of stop(), or of a launch that failed. Both hold   *)
(* the mutex until it is done.                                              *)
SweepPartners(j) ==
    /\ sweeping = j
    /\ status' = Swept(status, j)
    /\ sweeping' = None
    /\ tick' = IF tick = "refused" THEN "idle" ELSE tick
    /\ UNCHANGED <<storeVars, workerVars, server, current, creating, bounds>>

(* It raises: the request fails, or loop()'s handler finds no current job,  *)
(* and the partner stays in the queue.                                      *)
SweepFault ==
    /\ server = "up"
    /\ sweeping # None
    /\ faults < MaxFaults
    /\ faults' = faults + 1
    /\ sweeping' = None
    /\ tick' = IF tick = "refused" THEN "idle" ELSE tick
    /\ UNCHANGED <<storeVars, workerVars, status, server, current, creating, starts>>

(* Jobs.close: the thread leaves its loop, the current job is stopped, one  *)
(* last tick settles it if its process is gone by then, the lock is freed.  *)
(* Requests that have begun are finished first.                             *)
BeginClose ==
    /\ server = "up"
    /\ creating = {}
    /\ sweeping = None \/ tick = "refused"
    /\ server' = "closing"
    /\ UNCHANGED <<storeVars, workerVars, status, tick, sweeping, current, creating, bounds>>

CloseStop ==
    /\ server = "closing"
    /\ tick \in {"idle", "dead"} /\ sweeping = None
    /\ \E j \in Job : current = j /\ (StopQueued(j) \/ StopCurrent(j))
    /\ server' = "exiting"
    /\ tick' = "idle"
    /\ UNCHANGED <<storeVars, proc, current, creating, bounds>>

FinishClose ==
    /\ sweeping = None
    /\ \/ server = "closing" /\ current = None /\ tick \in {"idle", "dead"}
       \/ server = "exiting" /\ current = None /\ tick = "idle"
       \/ server = "exiting" /\ \E j \in Job : current = j /\ Alive(j)
    /\ Forget
    /\ UNCHANGED <<storeVars, workerVars, status, bounds>>

-----------------------------------------------------------------------------
(* Requests that add jobs. They do not hold Jobs.mutex. *)

EnqueueSingle ==
    /\ server = "up"
    /\ Enqueue("single", None)
    /\ UNCHANGED <<workerVars, server, tick, sweeping, current, creating, bounds, late>>

(* create_comparison enqueues the base, then the candidate. *)
CreateBase(c) ==
    /\ server = "up"
    /\ \A j \in Job : spec[j].group # c
    /\ Enqueue("base", c)
    /\ creating' = creating \union {c}
    /\ UNCHANGED <<workerVars, server, tick, sweeping, current, bounds, late>>

CreateCandidate(c) ==
    /\ server = "up"
    /\ c \in creating
    /\ Enqueue("candidate", c)
    /\ creating' = creating \ {c}
    /\ late' = IF \E b \in Job : spec[b].group = c /\ status[b] \in Ended
               THEN late \union {made + 1} ELSE late
    /\ UNCHANGED <<workerVars, server, tick, sweeping, current, bounds>>

-----------------------------------------------------------------------------
(* tick(), by the scheduler thread, or by close() for the last time. *)

(* Mutant: the exit code is ignored. *)
OutcomeNoCode(j) == IF status[j] = "stopping" THEN "cancelled" ELSE "completed"

Outcome(j) ==
    CASE status[j] = "stopping" -> "cancelled"
      [] status[j] # "stopping" /\ proc[j] = "ok" -> "completed"
      [] OTHER -> "failed"

(* The process has an exit code: the row gets its final status. *)
Reap(j) ==
    /\ server \in {"up", "exiting"}
    /\ tick = "idle" /\ sweeping = None
    /\ current = j
    /\ Exited(j)
    /\ status' = [status EXCEPT ![j] = Outcome(j)]
    /\ tick' = "reaped"
    /\ UNCHANGED <<storeVars, workerVars, server, sweeping, current, creating, bounds>>

(* Then its partner is cancelled, and process and current are cleared. *)
Settle(j) ==
    /\ server # "down"
    /\ tick = "reaped"
    /\ current = j
    /\ spec[j].role # "session"
    /\ status' = Swept(status, j)
    /\ tick' = "picking"
    /\ current' = None
    /\ UNCHANGED <<storeVars, workerVars, server, sweeping, creating, bounds>>

(* Still in the same tick: nothing to start, or the dashboard is closing. *)
PickNothing ==
    /\ server # "down"
    /\ tick = "picking"
    /\ server # "up" \/ \A j \in Job : status[j] # "queued"
    /\ tick' = "idle"
    /\ UNCHANGED <<storeVars, workerVars, status, server, sweeping, current, creating, bounds>>

Picks(j) ==
    /\ server = "up"
    /\ tick \in {"idle", "picking"} /\ sweeping = None
    /\ current = None
    /\ FirstQueued(j)

(* Popen worked: the worker exists before its row says so. *)
Launch(j) ==
    /\ Picks(j)
    /\ proc' = [proc EXCEPT ![j] = "waiting"]
    /\ current' = j
    /\ tick' = "launched"
    /\ UNCHANGED <<storeVars, signalled, status, server, sweeping, creating, bounds>>

(* Popen raised OSError. *)
LaunchFail(j) ==
    /\ Picks(j)
    /\ EndJob(j, "failed")
    /\ tick' = "refused"
    /\ UNCHANGED <<storeVars, workerVars, server, current, creating, bounds>>

MarkRunning(j) ==
    /\ server # "down"
    /\ tick = "launched"
    /\ current = j
    /\ status' = [status EXCEPT ![j] = "running"]
    /\ tick' = "idle"
    /\ UNCHANGED <<storeVars, workerVars, server, sweeping, current, creating, bounds>>

(* A store call of tick() raises (a locked database, a full disk) while a   *)
(* job is current: the mutex is released and loop() catches the exception.  *)
TickFault ==
    /\ server = "up"
    /\ faults < MaxFaults
    /\ \/ tick \in {"reaped", "launched"}
       \/ tick = "idle" /\ sweeping = None /\ \E j \in Job : current = j /\ Exited(j)
    /\ faults' = faults + 1
    /\ tick' = "fault"
    /\ UNCHANGED <<storeVars, workerVars, status, server, sweeping, current, creating, starts>>

(* loop()'s handler marks the current job failed, without the mutex, and    *)
(* then cancels its partner; process and current stay. A stop() that read   *)
(* the row as queued before that writes cancelled over it.                  *)
HandleFault(j) ==
    /\ server # "down"
    /\ tick = "fault"
    /\ current = j
    /\ \/ /\ status' = [status EXCEPT ![j] = "failed"]
          /\ UNCHANGED sweeping
       \/ server = "up" /\ sweeping = None /\ status[j] = "queued" /\ EndJob(j, "cancelled")
    /\ tick' = "handled"
    /\ UNCHANGED <<storeVars, workerVars, server, current, creating, bounds>>

SweepHandled(j) ==
    /\ server # "down"
    /\ tick = "handled"
    /\ current = j
    /\ status' = Swept(status, j)
    /\ tick' = "idle"
    /\ UNCHANGED <<storeVars, workerVars, server, sweeping, current, creating, bounds>>

(* The handler's own store call raises too, and the thread ends. *)
LoopDies ==
    /\ server = "up"
    /\ tick \in {"fault", "handled"}
    /\ faults < MaxFaults
    /\ faults' = faults + 1
    /\ tick' = "dead"
    /\ UNCHANGED <<storeVars, workerVars, status, server, sweeping, current, creating, starts>>

-----------------------------------------------------------------------------
(* Worker processes. *)

(* main(): flock(gpu.lock, LOCK_EX) blocks until no other process holds it. *)
(* Mutant: the lock is only tried, and the worker goes on without it. *)
AcquireAnyway(j) ==
    /\ proc[j] = "waiting"
    /\ proc' = [proc EXCEPT ![j] = "holding"]
    /\ UNCHANGED <<storeVars, status, signalled, server, tick, sweeping, current, creating, bounds>>

AcquireGpu(j) ==
    /\ proc[j] = "waiting"
    /\ \A k \in Job : proc[k] # "holding"
    /\ proc' = [proc EXCEPT ![j] = "holding"]
    /\ UNCHANGED <<storeVars, status, signalled, server, tick, sweeping, current, creating, bounds>>

(* run(spec) returns, or raises; leaving main() releases the lock. *)
WorkerExits(j) ==
    /\ proc[j] = "holding"
    /\ \E code \in {"ok", "err"} : proc' = [proc EXCEPT ![j] = code]
    /\ UNCHANGED <<storeVars, status, signalled, server, tick, sweeping, current, creating, bounds>>

(* A signal takes effect, while it waits for the lock or holds it. *)
WorkerDies(j) ==
    /\ j \in signalled
    /\ Alive(j)
    /\ proc' = [proc EXCEPT ![j] = "err"]
    /\ UNCHANGED <<storeVars, status, signalled, server, tick, sweeping, current, creating, bounds>>

-----------------------------------------------------------------------------
TickStep ==
    \/ \E j \in Job : Reap(j) \/ Settle(j) \/ Launch(j) \/ LaunchFail(j)
                      \/ MarkRunning(j) \/ HandleFault(j) \/ SweepHandled(j)
    \/ PickNothing
WorkerStep(j) == AcquireGpu(j) \/ WorkerExits(j) \/ WorkerDies(j)
SweepStep == \E j \in Job : SweepPartners(j)
ServerStep == Start \/ Ready \/ Crash \/ BeginClose \/ CloseStop \/ FinishClose
Request ==
    \/ EnqueueSingle
    \/ \E c \in Comparisons : CreateBase(c) \/ CreateCandidate(c)
    \/ \E j \in Job : Stop(j)

Next ==
    \/ ServerStep
    \/ Request
    \/ TickStep
    \/ SweepStep
    \/ TickFault \/ SweepFault \/ LoopDies
    \/ \E j \in Job : WorkerStep(j)

(* The scheduler thread polls every 0.3 s, a start, a shutdown or a request *)
(* that has begun is finished, and a worker that can go on does: model jobs *)
(* are finite computations. The user, crashes, restarts and faults are      *)
(* never forced.                                                            *)
Fairness ==
    /\ WF_vars(Ready)
    /\ WF_vars(TickStep)
    /\ WF_vars(SweepStep)
    /\ WF_vars(CloseStop \/ FinishClose)
    /\ \A c \in Comparisons : WF_vars(CreateCandidate(c))
    /\ \A j \in Job : WF_vars(WorkerStep(j))

Spec == Init /\ [][Next]_vars
FairSpec == Spec /\ Fairness
-----------------------------------------------------------------------------
(* Safety. *)

(* At most one row is active beyond the queue, and it is the job whose      *)
(* process this dashboard holds: across crashes, orphan workers and         *)
(* restarts, /api/state never shows two running jobs (jobs.py tick, start). *)
OneActiveJob ==
    server # "down" =>
        \A j \in Job : status[j] \in {"running", "stopping"} => current = j

(* A job is reported completed only if its worker exited with code 0, even  *)
(* when ticks fail half way and a job is settled twice.                     *)
CompletedMeansExitZero ==
    \A j \in Job : status[j] = "completed" => proc[j] = "ok"

(* "A paired comparison is meaningless once one side cannot complete": the  *)
(* candidate only runs after a base that completed. It holds of candidates  *)
(* whose row was added before their base ended, up to the first store       *)
(* error.                                                                   *)
CandidateNeedsBase ==
    faults = 0 => \A b, c \in Job :
        /\ Partners(b, c)
        /\ spec[c].role = "candidate"
        /\ c \notin late
        /\ proc[c] # "none"
        => status[b] = "completed"

(* "If either side fails or is stopped, the other side is cancelled", once  *)
(* the call that ended the candidate has returned.                          *)
StoppedCandidateStopsBase ==
    server = "up" /\ sweeping = None =>
        \A b, c \in Job :
            /\ Partners(b, c)
            /\ spec[c].role = "candidate"
            /\ status[c] \in {"failed", "cancelled"}
            => status[b] # "running"

(* What makes OneActiveJob, CompletedMeansExitZero and ExclusiveUse         *)
(* inductive: how rows, processes and the thread's position fit together.   *)

RowShape ==
    \A j \in Job :
        /\ status[j] = "none" <=> j > made
        /\ status[j] = "none" => proc[j] = "none"

(* A queued row has no process yet, except in the window between Popen and  *)
(* the row's update, and in what a crash in that window leaves until Start. *)
QueuedNotLaunched ==
    server # "down" =>
        \A j \in Job : status[j] = "queued" /\ proc[j] # "none" => current = j

TickShape ==
    /\ server = "down" => current = None /\ tick = "idle" /\ sweeping = None
    /\ tick \in {"picking", "refused"} => current = None
    /\ tick \in {"reaped", "launched", "fault", "handled", "dead"} => current # None
    /\ tick \in {"reaped", "picking", "launched"} => sweeping = None
    /\ tick = "refused" => sweeping # None
    /\ \A j \in Job : sweeping = j => status[j] \in {"failed", "cancelled"}
    /\ \A j \in Job : current = j => proc[j] # "none"
    /\ \A j \in Job : current = j /\ tick = "reaped" => Exited(j) /\ status[j] \in Ended

OneHolder ==
    \A j, k \in Job : proc[j] = "holding" /\ proc[k] = "holding" => j = k

LaneInv ==
    /\ TypeOK
    /\ RowShape
    /\ OneActiveJob
    /\ QueuedNotLaunched
    /\ TickShape
    /\ OneHolder
    /\ CompletedMeansExitZero

(* What makes CandidateNeedsBase and OutcomeIsFinal inductive. The rows of  *)
(* a comparison are a base, then a candidate, each at most once ...         *)
PairRows ==
    /\ \A j \in Job : j > made => spec[j] = NoSpec
    /\ \A j \in Job : spec[j].role \in PairRoles <=> spec[j].group \in Comparisons
    /\ \A j, k \in Job :
          spec[j].group \in Comparisons /\ spec[k].group = spec[j].group /\ j < k
          => spec[j].role = "base" /\ spec[k].role = "candidate"
    /\ \A j \in Job : spec[j].group \in creating => spec[j].role = "base"

(* ... a current job between two ticks runs or is being stopped, as long as *)
(* no tick was cut short by a store error ...                               *)
CleanTick ==
    /\ tick \notin {"fault", "handled", "dead"}
    /\ \A j \in Job : current = j /\ tick = "launched" => status[j] = "queued"
    /\ \A j \in Job : current = j /\ tick = "idle" => status[j] \in {"running", "stopping"}

(* ... and a base that ended without completing leaves no candidate in the  *)
(* queue, but for the moment before the call that ended it cancels it.      *)
PartnersSwept ==
    server # "down" =>
        \A b, c \in Job :
            /\ Partners(b, c)
            /\ spec[c].role = "candidate"
            /\ c \notin late
            /\ status[b] \in Ended \ {"completed"}
            => status[c] \in Ended \/ (tick = "reaped" /\ current = b) \/ sweeping = b

(* "If either side fails or is stopped, the other side is cancelled", for   *)
(* the side that the scheduler takes first: a base in the queue has a       *)
(* candidate that waits behind it, or none yet, or is itself about to be    *)
(* cancelled by the stop() that ended its candidate and that holds the      *)
(* mutex, so that no tick launches it in between. It holds up to the first  *)
(* store error, which may strike between the two updates of stop(), and     *)
(* between restarts: a crash there leaves such a base to Start.             *)
BaseWaitsFirst ==
    server # "down" =>
        \A b, c \in Job :
            /\ Partners(b, c)
            /\ spec[c].role = "candidate"
            /\ status[b] = "queued"
            => sweeping = c \/ (status[c] = "queued" /\ proc[c] = "none")

PairInv ==
    /\ LaneInv
    /\ PairRows
    /\ faults = 0 => CleanTick /\ PartnersSwept /\ BaseWaitsFirst
    /\ CandidateNeedsBase

(* Action properties. *)

(* An outcome shown to the user never changes, whatever stops, crashes and  *)
(* restarts follow. It is stated up to the first store error: the handler   *)
(* of loop() may report a failure that a later tick turns into a completion.*)
OutcomeIsFinal ==
    [][faults = 0 => \A j \in Job : status[j] \in Ended => status'[j] = status[j]]_vars

(* "No model job starts without an explicit Start in this dashboard         *)
(* session": a worker appears only for a row queued since the last start,   *)
(* in the order the rows were queued, and while no other job is current.    *)
LaunchesInOrder ==
    [][\A j \in Job : proc[j] = "none" /\ proc'[j] # "none" =>
            /\ current = None
            /\ \A k \in 1..(j - 1) : status[k] \in Ended]_vars

(* The lane and its workers implement the exclusive lane: at most one       *)
(* worker inside gpu.lock, and one worker per job over all restarts.        *)
Lane == INSTANCE ExclusiveLane WITH
            inside <- {j \in Job : proc[j] = "holding"},
            done <- {j \in Job : Exited(j)}
ExclusiveUse == Lane!Spec

(* Liveness. *)

(* The lane never wedges: a queued job is started, failed or cancelled,     *)
(* unless the dashboard goes away. It waits for the jobs before it and for  *)
(* the orphans of earlier dashboards that still hold gpu.lock.              *)
QueuedMovesOn ==
    \A j \in Job : status[j] = "queued" ~> (status[j] # "queued" \/ server # "up")

(* A job that runs, or is being stopped, is settled in the end.             *)
RunningSettles ==
    \A j \in Job :
        status[j] \in {"running", "stopping"} ~> (status[j] \in Ended \/ server = "down")

=============================================================================
