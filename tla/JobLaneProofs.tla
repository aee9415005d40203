--------------------------- MODULE JobLaneProofs ---------------------------
(***************************************************************************)
(* Proofs about JobLane for any number of jobs, comparisons, restarts and  *)
(* store errors. LaneInv is the inductive invariant.                       *)
(***************************************************************************)
EXTENDS JobLane, TLAPS

(* What cancel_partners does to a status column: it only turns queued rows  *)
(* into cancelled ones, and never the row it is called for.                 *)
LEMMA SweptEffect ==
    ASSUME NEW st \in [Job -> Status], NEW j \in Job
    PROVE  /\ Swept(st, j) \in [Job -> Status]
           /\ Swept(st, j)[j] = st[j]
           /\ \A k \in Job : \/ Swept(st, j)[k] = st[k]
                             \/ st[k] = "queued" /\ Swept(st, j)[k] = "cancelled"
  BY DEF Swept, Partners, Status, Ended

(* A row takes its final status, and no other row is touched. *)
LEMMA EndJobEffect ==
    ASSUME TypeOK, NEW j \in Job, NEW s \in Ended, EndJob(j, s)
    PROVE  /\ status' \in [Job -> Status] /\ status'[j] = s /\ sweeping' = j
           /\ \A k \in Job \ {j} : status'[k] = status[k]
  BY DEF EndJob, TypeOK, Status

(* The lane starts in its invariant: no rows, no processes, no dashboard. *)
LEMMA InitInv == Init => LaneInv
  BY JobsAssumption
  DEF Init, LaneInv, TypeOK, RowShape, OneActiveJob, QueuedNotLaunched, TickShape,
      OneHolder, CompletedMeansExitZero, Job, Status, Process, JobSpec, NoSpec, Role

(* Every step keeps the invariant. *)
LEMMA StepInv == LaneInv /\ [Next]_vars => LaneInv'
  <1> SUFFICES ASSUME LaneInv, [Next]_vars PROVE LaneInv'
    OBVIOUS
  <1> USE JobsAssumption DEF Job
  <1> USE DEF Exited, LaneInv, TypeOK, RowShape, OneActiveJob, QueuedNotLaunched, TickShape,
       OneHolder, CompletedMeansExitZero, Status, Process, Active, Ended, MutexFree,
       storeVars, workerVars, bounds
  <1>1. CASE Start
    BY <1>1, SMTT(30) DEF Start, RecoveredStatus
  <1>2. CASE Crash
    BY <1>2, SMTT(30) DEF Crash, Forget
  <1>3. CASE BeginClose
    BY <1>3, SMTT(30) DEF BeginClose
  <1>4. CASE CloseStop
    <2>1. PICK j \in Job : current = j /\ (StopQueued(j) \/ StopCurrent(j))
      BY <1>4 DEF CloseStop
    <2>2. CASE StopQueued(j)
      BY <1>4, <2>1, <2>2, SMTT(30) DEF CloseStop, StopQueued, EndJob
    <2>3. CASE StopCurrent(j)
      BY <1>4, <2>1, <2>3, SMTT(30) DEF CloseStop, StopCurrent
    <2>4. QED
      BY <2>1, <2>2, <2>3
  <1>5. CASE FinishClose
    BY <1>5, SMTT(30) DEF FinishClose, Alive, Forget
  <1>6. CASE EnqueueSingle
    BY <1>6, SMTT(30) DEF EnqueueSingle, Enqueue, JobSpec, Role
  <1>7. ASSUME NEW c \in Comparisons, CreateBase(c) PROVE LaneInv'
    BY <1>7, SMTT(30) DEF CreateBase, Enqueue, JobSpec, Role, PairRoles
  <1>8. ASSUME NEW c \in Comparisons, CreateCandidate(c) PROVE LaneInv'
    BY <1>8, SMTT(30) DEF CreateCandidate, Enqueue, JobSpec, Role, PairRoles
  <1>9. ASSUME NEW j \in Job, Stop(j) PROVE LaneInv'
    <2>1. CASE StopQueued(j)
      BY <1>9, <2>1, SMTT(30) DEF Stop, StopQueued, EndJob
    <2>2. CASE StopCurrent(j)
      BY <1>9, <2>2, SMTT(30) DEF Stop, StopCurrent
    <2>3. QED
      BY <1>9, <2>1, <2>2 DEF Stop
  <1>10. ASSUME NEW j \in Job, Reap(j) PROVE LaneInv'
    BY <1>10, SMTT(30) DEF Reap, Outcome, Exited
  <1>11. ASSUME NEW j \in Job, Settle(j) PROVE LaneInv'
    BY SweptEffect, <1>11, SMTT(30) DEF Settle
  <1>12. CASE PickNothing
    BY <1>12, SMTT(30) DEF PickNothing
  <1>13. ASSUME NEW j \in Job, Launch(j) PROVE LaneInv'
    BY <1>13, SMTT(30) DEF Launch, Picks, FirstQueued
  <1>14. ASSUME NEW j \in Job, LaunchFail(j) PROVE LaneInv'
    BY <1>14, SMTT(30) DEF LaunchFail, Picks, FirstQueued, EndJob
  <1>15. ASSUME NEW j \in Job, MarkRunning(j) PROVE LaneInv'
    BY <1>15, SMTT(30) DEF MarkRunning
  <1>16. ASSUME NEW j \in Job, HandleFault(j) PROVE LaneInv'
    BY <1>16, SMTT(30) DEF HandleFault, EndJob
  <1>17. CASE TickFault
    BY <1>17, SMTT(30) DEF TickFault, Exited
  <1>18. CASE LoopDies
    BY <1>18, SMTT(30) DEF LoopDies
  <1>19. ASSUME NEW j \in Job, AcquireGpu(j) PROVE LaneInv'
    BY <1>19, SMTT(30) DEF AcquireGpu
  <1>20. ASSUME NEW j \in Job, WorkerExits(j) PROVE LaneInv'
    BY <1>20, SMTT(30) DEF WorkerExits
  <1>21. ASSUME NEW j \in Job, WorkerDies(j) PROVE LaneInv'
    BY <1>21, SMTT(30) DEF WorkerDies, Alive
  <1>22. CASE UNCHANGED vars
    BY <1>22, SMTT(30) DEF vars, Exited
  <1>23. CASE Ready
    BY <1>23, SMTT(30) DEF Ready
  <1>24. ASSUME NEW j \in Job, SweepPartners(j) PROVE LaneInv'
    BY SweptEffect, <1>24, SMTT(30) DEF SweepPartners
  <1>25. CASE SweepFault
    BY <1>25, SMTT(30) DEF SweepFault
  <1>26. ASSUME NEW j \in Job, SweepHandled(j) PROVE LaneInv'
    BY SweptEffect, <1>26, SMTT(30) DEF SweepHandled
  <1>27. QED
    BY <1>1, <1>2, <1>3, <1>4, <1>5, <1>6, <1>7, <1>8, <1>9, <1>10, <1>11, <1>12, <1>13,
       <1>14, <1>15, <1>16, <1>17, <1>18, <1>19, <1>20, <1>21, <1>22, <1>23,
       <1>24, <1>25, <1>26
    DEF Next, ServerStep, Request, TickStep, SweepStep, WorkerStep

(* The lane's rows, processes and thread position always fit together. *)
THEOREM LaneInvariant == Spec => []LaneInv
  <1>1. Init => LaneInv
    BY InitInv
  <1>2. LaneInv /\ [Next]_vars => LaneInv'
    BY StepInv
  <1>3. QED
    BY <1>1, <1>2, PTL DEF Spec

(* The variables keep their types. *)
THEOREM TypeCorrect == Spec => []TypeOK
  <1>1. LaneInv => TypeOK
    BY DEF LaneInv
  <1>2. QED
    BY <1>1, LaneInvariant, PTL

(* However many jobs, crashes, restarts and store errors: at most one row   *)
(* is running or stopping, and it is the job the dashboard holds.           *)
THEOREM SingleActiveJob == Spec => []OneActiveJob
  <1>1. LaneInv => OneActiveJob
    BY DEF LaneInv
  <1>2. QED
    BY <1>1, LaneInvariant, PTL

(* No failed worker is ever reported as completed.                          *)
THEOREM HonestCompletion == Spec => []CompletedMeansExitZero
  <1>1. LaneInv => CompletedMeansExitZero
    BY DEF LaneInv
  <1>2. QED
    BY <1>1, LaneInvariant, PTL

-----------------------------------------------------------------------------
(* The lane implements ExclusiveLane. Only the steps of worker processes    *)
(* and Launch change proc, and Launch only turns "none" into "waiting".     *)

(* No worker has started, so no job is inside the lane or done with it. *)
LEMMA LaneInitRefines == Init => Lane!Init
  BY DEF Init, Lane!Init, Exited

(* Every step is a step of the lane or leaves it alone. *)
LEMMA LaneStepRefines ==
    LaneInv /\ LaneInv' /\ [Next]_vars => [Lane!Next]_(Lane!laneVars)
  <1> SUFFICES ASSUME LaneInv, LaneInv', [Next]_vars
               PROVE  [Lane!Next]_(Lane!laneVars)
    OBVIOUS
  <1> USE DEF Exited
  <1>1. ASSUME UNCHANGED proc PROVE [Lane!Next]_(Lane!laneVars)
    BY <1>1 DEF Lane!laneVars
  <1>2. ASSUME NEW j \in Job, Launch(j) PROVE [Lane!Next]_(Lane!laneVars)
    <2>1. proc[j] = "none"
      BY <1>2, JobsAssumption DEF Launch, Picks, FirstQueued, LaneInv,
          QueuedNotLaunched, Job
    <2>2. QED
      BY <1>2, <2>1 DEF Launch, Lane!laneVars, LaneInv, TypeOK
  <1>3. ASSUME NEW j \in Job, AcquireGpu(j) PROVE [Lane!Next]_(Lane!laneVars)
    <2>1. Lane!Enter(j)
      BY <1>3 DEF AcquireGpu, Lane!Enter, LaneInv, TypeOK
    <2>2. QED
      BY <2>1 DEF Lane!Next
  <1>4. ASSUME NEW j \in Job, proc[j] = "holding",
               NEW code \in {"ok", "err"}, proc' = [proc EXCEPT ![j] = code]
        PROVE  Lane!Next
    <2>1. Lane!Leave(j)
      BY <1>4 DEF Lane!Leave, LaneInv, TypeOK
    <2>2. QED
      BY <2>1 DEF Lane!Next
  <1>5. ASSUME NEW j \in Job, proc[j] = "waiting", proc' = [proc EXCEPT ![j] = "err"]
        PROVE  Lane!Next
    <2>1. Lane!Forgo(j)
      BY <1>5 DEF Lane!Forgo, LaneInv, TypeOK
    <2>2. QED
      BY <2>1 DEF Lane!Next
  <1>6. QED
    BY <1>1, <1>2, <1>3, <1>4, <1>5
    DEF vars, Next, ServerStep, Ready, Request, TickStep, SweepStep, WorkerStep,
        Start, Crash, BeginClose, CloseStop, FinishClose, EnqueueSingle, CreateBase,
        CreateCandidate, Stop, Reap, Settle, PickNothing, LaunchFail, MarkRunning,
        HandleFault, SweepHandled, SweepPartners, SweepFault, TickFault, LoopDies,
        WorkerExits, WorkerDies, Alive, workerVars

(* At most one worker inside gpu.lock, and at most one worker per job, for  *)
(* any number of crashes and restarts of the dashboard.                     *)
THEOREM ExclusiveUseHolds == Spec => ExclusiveUse
  <1>1. Init => Lane!Init
    BY LaneInitRefines
  <1>2. LaneInv /\ LaneInv' /\ [Next]_vars => [Lane!Next]_(Lane!laneVars)
    BY LaneStepRefines
  <1>3. QED
    BY <1>1, <1>2, LaneInvariant, PTL DEF Spec, ExclusiveUse, Lane!Spec

-----------------------------------------------------------------------------
(* A worker only appears for the oldest row that has not ended, while no    *)
(* job is current: no row is overtaken, and none starts twice.              *)
LEMMA LaunchStep ==
    ASSUME LaneInv, NEW j \in Job, Launch(j)
    PROVE  /\ current = None
           /\ \A k \in 1..(j - 1) : status[k] \in Ended
  <1>1. current = None /\ FirstQueued(j) /\ server = "up"
    BY DEF Launch, Picks
  <1>2. ASSUME NEW k \in 1..(j - 1) PROVE status[k] \in Ended
    <2>1. k \in Job /\ k < j
      BY JobsAssumption DEF Job
    <2>2. status[k] # "queued"
      BY <1>1, <2>1, JobsAssumption DEF FirstQueued, Job
    <2>3. status[k] # "none"
      BY <1>1, <2>1, JobsAssumption DEF LaneInv, RowShape, TypeOK, FirstQueued, Job
    <2>4. status[k] \notin {"running", "stopping"}
      BY <1>1, <2>1, JobsAssumption DEF LaneInv, OneActiveJob, Job
    <2>5. QED
      BY <2>1, <2>2, <2>3, <2>4 DEF LaneInv, TypeOK, Status, Active
  <1>3. QED
    BY <1>1, <1>2

(* No step of the lane makes another process than the next one in line. *)
LEMMA OrderStep ==
    ASSUME LaneInv, [Next]_vars, NEW j \in Job, proc[j] = "none", proc'[j] # "none"
    PROVE  /\ current = None
           /\ \A k \in 1..(j - 1) : status[k] \in Ended
  <1>1. CASE UNCHANGED proc
    BY <1>1
  <1>2. ASSUME NEW i \in Job, Launch(i) PROVE i = j
    BY <1>2 DEF Launch, LaneInv, TypeOK
  <1>3. ASSUME NEW i \in Job, proc[i] # "none",
               NEW code, proc' = [proc EXCEPT ![i] = code]
        PROVE  FALSE
    BY <1>3 DEF LaneInv, TypeOK
  <1>4. QED
    BY <1>1, <1>2, <1>3, LaunchStep
    DEF vars, Next, ServerStep, Ready, Request, TickStep, SweepStep, WorkerStep,
        Start, Crash, BeginClose, CloseStop, FinishClose, EnqueueSingle, CreateBase,
        CreateCandidate, Stop, Reap, Settle, PickNothing, LaunchFail, MarkRunning,
        HandleFault, SweepHandled, SweepPartners, SweepFault, TickFault, LoopDies,
        AcquireGpu, WorkerExits, WorkerDies, Alive, workerVars

(* A worker appears only for the oldest row that has not ended, while no    *)
(* job is current: the launching half of Jobs.tick.                         *)
THEOREM LaunchOrder == Spec => LaunchesInOrder
  <1> DEFINE Ordered == \A j \in Job : proc[j] = "none" /\ proc'[j] # "none" =>
                            /\ current = None
                            /\ \A k \in 1..(j - 1) : status[k] \in Ended
  <1>1. LaneInv /\ [Next]_vars => [Ordered]_vars
    BY OrderStep
  <1>2. QED
    BY <1>1, LaneInvariant, PTL DEF Spec, LaunchesInOrder

-----------------------------------------------------------------------------
(* The two sides of a comparison. PairInv adds to LaneInv the shape of the  *)
(* rows of a comparison and, while no store error has happened, that a base *)
(* that did not complete takes its candidate out of the queue.              *)

(* A candidate's partner is its base, and was added before it. *)
LEMMA PartnerIsBase ==
    ASSUME LaneInv, PairRows, NEW b \in Job, NEW c \in Job,
           Partners(b, c), spec[c].role = "candidate"
    PROVE  b < c /\ spec[b].role = "base" /\ spec[b].group \in Comparisons
  <1>1. /\ spec[b].group \in Comparisons /\ spec[c].group = spec[b].group
        /\ b # c /\ b \in Int /\ c \in Int
    BY JobsAssumption DEF PairRows, Partners, Job
  <1>2. ~(c < b)
    BY <1>1 DEF PairRows
  <1>3. QED
    BY <1>1, <1>2 DEF PairRows

(* The rows of a comparison keep their shape: only enqueue changes specs.   *)
LEMMA RowsStep == LaneInv /\ PairRows /\ [Next]_vars => PairRows'
  <1> SUFFICES ASSUME LaneInv, PairRows, [Next]_vars PROVE PairRows'
    OBVIOUS
  <1> USE JobsAssumption DEF Job
  <1>1. ASSUME UNCHANGED <<made, spec>>, creating' \subseteq creating PROVE PairRows'
    BY <1>1 DEF PairRows
  <1>2. CASE EnqueueSingle
    <2>1. /\ made + 1 \in Job /\ made' = made + 1 /\ creating' = creating
          /\ spec' = [spec EXCEPT ![made + 1] = [role |-> "single", group |-> None]]
      BY <1>2 DEF EnqueueSingle, Enqueue, LaneInv, TypeOK
    <2>2. None \notin Comparisons
      OBVIOUS
    <2>3. creating \subseteq Comparisons /\ spec \in [Job -> JobSpec] /\ made \in Nat
      BY DEF LaneInv, TypeOK
    <2>4. QED
      BY <2>1, <2>2, <2>3 DEF PairRows, PairRoles
  <1>3. ASSUME NEW c \in Comparisons, CreateBase(c) PROVE PairRows'
    <2>1. /\ made + 1 \in Job /\ made' = made + 1 /\ creating' = creating \union {c}
          /\ spec' = [spec EXCEPT ![made + 1] = [role |-> "base", group |-> c]]
          /\ \A j \in Job : spec[j].group # c
      BY <1>3 DEF CreateBase, Enqueue, LaneInv, TypeOK
    <2>2. spec \in [Job -> JobSpec] /\ made \in Nat
      BY DEF LaneInv, TypeOK
    <2>3. QED
      BY <2>1, <2>2 DEF PairRows, PairRoles
  <1>4. ASSUME NEW c \in Comparisons, CreateCandidate(c) PROVE PairRows'
    <2>1. /\ made + 1 \in Job /\ made' = made + 1 /\ creating' = creating \ {c}
          /\ spec' = [spec EXCEPT ![made + 1] = [role |-> "candidate", group |-> c]]
          /\ c \in creating
      BY <1>4 DEF CreateCandidate, Enqueue, LaneInv, TypeOK
    <2>2. spec \in [Job -> JobSpec] /\ made \in Nat
      BY DEF LaneInv, TypeOK
    <2>3. \A j \in Job : spec[j].group = c => j <= made /\ spec[j].role = "base"
      BY <2>1, <2>2 DEF PairRows, NoSpec
    <2>4. QED
      BY <2>1, <2>2, <2>3 DEF PairRows, PairRoles
  <1>5. QED
    BY <1>1, <1>2, <1>3, <1>4
    DEF vars, Next, ServerStep, Ready, Request, TickStep, SweepStep, WorkerStep,
        Start, Crash, BeginClose, CloseStop, FinishClose, Stop, Reap, Settle, PickNothing,
        Launch, LaunchFail, MarkRunning, HandleFault, SweepHandled, SweepPartners,
        SweepFault, TickFault, LoopDies, AcquireGpu, WorkerExits, WorkerDies, Forget,
        storeVars

(* Store errors are counted and never forgotten. *)
LEMMA FaultsGrow == LaneInv /\ [Next]_vars /\ faults' = 0 => faults = 0
  <1> SUFFICES ASSUME LaneInv, [Next]_vars, faults' = 0 PROVE faults = 0
    OBVIOUS
  <1>1. faults \in Nat
    BY JobsAssumption DEF LaneInv, TypeOK
  <1>2. ASSUME faults' = faults + 1 PROVE FALSE
    BY <1>1, <1>2
  <1>3. QED
    BY <1>2
    DEF vars, Next, ServerStep, Ready, Request, TickStep, SweepStep, WorkerStep,
        Start, Crash, BeginClose, CloseStop, FinishClose, EnqueueSingle, CreateBase,
        CreateCandidate, Stop, Reap, Settle, PickNothing, Launch, LaunchFail, MarkRunning,
        HandleFault, SweepHandled, SweepPartners, SweepFault, TickFault, LoopDies,
        AcquireGpu, WorkerExits, WorkerDies, bounds

(* Before any store error, a row that has ended keeps its status.           *)
LEMMA FinalStep ==
    ASSUME LaneInv, CleanTick, [Next]_vars, NEW k \in Job, status[k] \in Ended
    PROVE  status'[k] = status[k]
  <1> USE JobsAssumption DEF Job, LaneInv, TypeOK, CleanTick, Ended, Status, Active
  <1>1. CASE UNCHANGED status
    BY <1>1
  <1>2. CASE Start
    BY <1>2 DEF Start, RecoveredStatus
  <1>3. ASSUME NEW j \in Job, StopQueued(j) PROVE status'[k] = status[k]
    BY <1>3 DEF StopQueued, EndJob
  <1>4. ASSUME NEW j \in Job, StopCurrent(j), tick = "idle" PROVE status'[k] = status[k]
    BY <1>4 DEF StopCurrent
  <1>5. CASE CloseStop
    BY <1>3, <1>4, <1>5 DEF CloseStop
  <1>6. ASSUME NEW j \in Job, Stop(j) PROVE status'[k] = status[k]
    BY <1>3, <1>4, <1>6 DEF Stop, MutexFree
  <1>7. ASSUME NEW role, NEW group, Enqueue(role, group) PROVE status'[k] = status[k]
    BY <1>7 DEF Enqueue, RowShape
  <1>8. ASSUME NEW j \in Job, Reap(j) PROVE status'[k] = status[k]
    BY <1>8 DEF Reap
  <1>9. ASSUME NEW j \in Job, Settle(j) PROVE status'[k] = status[k]
    BY <1>9, SweptEffect DEF Settle
  <1>10. ASSUME NEW j \in Job, LaunchFail(j) PROVE status'[k] = status[k]
    BY <1>10 DEF LaunchFail, Picks, FirstQueued, EndJob
  <1>11. ASSUME NEW j \in Job, MarkRunning(j) PROVE status'[k] = status[k]
    BY <1>11 DEF MarkRunning
  <1>12. ASSUME NEW j \in Job, HandleFault(j) \/ SweepHandled(j) PROVE FALSE
    BY <1>12 DEF HandleFault, SweepHandled
  <1>13. ASSUME NEW j \in Job, SweepPartners(j) PROVE status'[k] = status[k]
    BY <1>13, SweptEffect DEF SweepPartners
  <1>14. QED
    BY <1>1, <1>2, <1>5, <1>6, <1>7, <1>8, <1>9, <1>10, <1>11, <1>12, <1>13
    DEF vars, Next, ServerStep, Ready, Request, TickStep, SweepStep, WorkerStep,
        Crash, BeginClose, FinishClose, EnqueueSingle, CreateBase, CreateCandidate,
        PickNothing, Launch, TickFault, SweepFault, LoopDies, AcquireGpu, WorkerExits,
        WorkerDies

(* Ticks stay clean until a store error. *)
LEMMA CleanStep ==
    ASSUME LaneInv, CleanTick, [Next]_vars, faults' = faults
    PROVE  CleanTick'
  <1> USE JobsAssumption DEF Job, LaneInv, TypeOK, CleanTick, Ended, Status, Active
  <1>1. CASE UNCHANGED <<status, tick, current>>
    BY <1>1
  <1>2. CASE Start
    BY <1>2 DEF Start, RecoveredStatus, TickShape
  <1>3. CASE Forget
    BY <1>3 DEF Forget
  <1>4. ASSUME NEW j \in Job, StopQueued(j), tick = "idle", current' = current,
               tick' = "idle"
        PROVE  CleanTick'
    BY <1>4 DEF StopQueued, EndJob
  <1>5. ASSUME NEW j \in Job, StopCurrent(j), tick = "idle", current' = current,
               tick' = "idle"
        PROVE  CleanTick'
    BY <1>5 DEF StopCurrent
  <1>6. CASE CloseStop
    BY <1>4, <1>5, <1>6 DEF CloseStop
  <1>7. ASSUME NEW j \in Job, Stop(j) PROVE CleanTick'
    BY <1>4, <1>5, <1>7 DEF Stop, MutexFree
  <1>8. ASSUME NEW role, NEW group, Enqueue(role, group), UNCHANGED <<tick, current>>
        PROVE  CleanTick'
    <2>1. status[made + 1] = "none" /\ made + 1 \in Job
      BY <1>8 DEF Enqueue, RowShape
    <2>2. QED
      BY <1>8, <2>1 DEF Enqueue
  <1>9. ASSUME NEW j \in Job, Reap(j) PROVE CleanTick'
    BY <1>9 DEF Reap
  <1>10. ASSUME NEW j \in Job, Settle(j) PROVE CleanTick'
    BY <1>10, SweptEffect DEF Settle
  <1>11. CASE PickNothing
    BY <1>11 DEF PickNothing, TickShape
  <1>12. ASSUME NEW j \in Job, Launch(j) PROVE CleanTick'
    BY <1>12 DEF Launch, Picks, FirstQueued
  <1>13. ASSUME NEW j \in Job, LaunchFail(j) PROVE CleanTick'
    BY <1>13 DEF LaunchFail, Picks, FirstQueued, EndJob
  <1>14. ASSUME NEW j \in Job, MarkRunning(j) PROVE CleanTick'
    BY <1>14 DEF MarkRunning
  <1>15. ASSUME NEW j \in Job, HandleFault(j) \/ SweepHandled(j) PROVE FALSE
    BY <1>15 DEF HandleFault, SweepHandled
  <1>16. ~TickFault /\ ~SweepFault /\ ~LoopDies
    BY DEF TickFault, SweepFault, LoopDies
  <1>17. ASSUME NEW j \in Job, SweepPartners(j) PROVE CleanTick'
    BY <1>17, SweptEffect DEF SweepPartners, TickShape
  <1>18. QED
    BY <1>1, <1>2, <1>3, <1>6, <1>7, <1>8, <1>9, <1>10, <1>11, <1>12, <1>13, <1>14, <1>15,
       <1>16, <1>17
    DEF vars, Next, ServerStep, Ready, Request, TickStep, SweepStep, WorkerStep,
        Crash, BeginClose, FinishClose, EnqueueSingle, CreateBase, CreateCandidate,
        AcquireGpu, WorkerExits, WorkerDies

(* A candidate that is still active while its base has not completed waits  *)
(* in the queue: it has no worker.                                          *)
LEMMA CandidateWaits ==
    ASSUME LaneInv, PairRows, CandidateNeedsBase, faults = 0, server # "down",
           NEW b \in Job, NEW c \in Job, Partners(b, c), spec[c].role = "candidate",
           c \notin late, status[b] # "completed", status[c] \notin Ended
    PROVE  status[c] = "queued"
  <1>1. status[c] # "none"
    <2>1. spec[c] # NoSpec
      BY DEF NoSpec
    <2>2. QED
      BY <2>1 DEF LaneInv, RowShape, PairRows
  <1>2. status[c] \in {"running", "stopping"} => proc[c] # "none"
    BY DEF LaneInv, OneActiveJob, TickShape
  <1>3. proc[c] = "none"
    BY DEF CandidateNeedsBase
  <1>4. QED
    BY <1>1, <1>2, <1>3 DEF LaneInv, TypeOK, Status, Active

(* cancel_partners, called for another row than the candidate, takes the    *)
(* candidate out of the queue whenever it takes its base.                   *)
LEMMA SweepTakesBoth ==
    ASSUME TypeOK, NEW b \in Job, NEW c \in Job, Partners(b, c), NEW j \in Job, j # b,
           status[b] = "queued", status[c] = "queued"
    PROVE  \/ Swept(status, j)[b] = "queued" /\ Swept(status, j)[c] = "queued"
           \/ /\ Swept(status, j)[b] = "cancelled"
              /\ j = c \/ Swept(status, j)[c] = "cancelled"
  BY DEF Swept, Partners, TypeOK

(* When a row is added, two partners are both old rows, or the candidate is *)
(* the new row and its base had not ended (else the candidate is late).     *)
LEMMA NewPartners ==
    ASSUME LaneInv, PairRows,
           EnqueueSingle \/ \E g \in Comparisons : CreateBase(g) \/ CreateCandidate(g),
           NEW b \in Job, NEW c \in Job,
           Partners(b, c)', (spec[c].role = "candidate")', (c \notin late)'
    PROVE  \/ /\ Partners(b, c) /\ spec[c].role = "candidate" /\ c \notin late
              /\ status'[b] = status[b] /\ status'[c] = status[c]
           \/ status'[b] \notin Ended /\ proc[c] = "none"
  <1> USE JobsAssumption DEF Job
  <1>1. /\ made + 1 \in Job /\ status[made + 1] = "none" /\ proc[made + 1] = "none"
        /\ status' = [status EXCEPT ![made + 1] = "queued"]
        /\ \A k \in Job \ {made + 1} : status'[k] = status[k] /\ spec'[k] = spec[k]
        /\ late \subseteq late'
    <2>1. PICK role, group : Enqueue(role, group)
      BY DEF EnqueueSingle, CreateBase, CreateCandidate
    <2>2. /\ made + 1 \in Job /\ status[made + 1] = "none" /\ proc[made + 1] = "none"
          /\ status' = [status EXCEPT ![made + 1] = "queued"]
          /\ \A k \in Job \ {made + 1} : status'[k] = status[k] /\ spec'[k] = spec[k]
      BY <2>1 DEF Enqueue, LaneInv, TypeOK, RowShape
    <2>3. late \subseteq late'
      BY DEF EnqueueSingle, CreateBase, CreateCandidate
    <2>4. QED
      BY <2>2, <2>3
  <1>2. CASE b # made + 1 /\ c # made + 1
    BY <1>1, <1>2 DEF Partners
  <1>3. ASSUME b = made + 1 \/ c = made + 1 PROVE status'[b] \notin Ended /\ proc[c] = "none"
    <2>1. CASE EnqueueSingle
      <3>1. spec'[made + 1].role = "single"
        BY <1>1, <2>1 DEF EnqueueSingle, Enqueue, LaneInv, TypeOK
      <3>2. QED
        BY <1>3, <3>1 DEF Partners, PairRoles
    <2>2. ASSUME NEW g \in Comparisons, CreateBase(g) PROVE FALSE
      <3>1. spec'[made + 1] = [role |-> "base", group |-> g] /\ \A k \in Job : spec[k].group # g
        BY <1>1, <2>2 DEF CreateBase, Enqueue, LaneInv, TypeOK
      <3>2. QED
        BY <1>1, <1>3, <3>1 DEF Partners
    <2>3. ASSUME NEW g \in Comparisons, CreateCandidate(g)
          PROVE  status'[b] \notin Ended /\ proc[c] = "none"
      <3>1. /\ spec'[made + 1] = [role |-> "candidate", group |-> g] /\ g \in creating
            /\ late' = IF \E k \in Job : spec[k].group = g /\ status[k] \in Ended
                       THEN late \union {made + 1} ELSE late
        BY <1>1, <2>3 DEF CreateCandidate, Enqueue, LaneInv, TypeOK
      <3>2. c = made + 1 /\ b # made + 1
        BY <1>1, <1>3, <3>1 DEF Partners, PairRows
      <3>3. spec[b].group = g /\ status[b] \notin Ended
        BY <1>1, <3>1, <3>2 DEF Partners
      <3>4. QED
        BY <1>1, <3>2, <3>3
    <2>4. QED
      BY <2>1, <2>2, <2>3
  <1>4. QED
    BY <1>2, <1>3

(* Before any store error, a base that ended badly leaves no candidate in   *)
(* the queue behind the tick that settles it.                               *)
LEMMA SweptStep ==
    ASSUME LaneInv, PairRows, CleanTick, PartnersSwept, CandidateNeedsBase,
           [Next]_vars, faults = 0, faults' = 0
    PROVE  PartnersSwept'
  <1> DEFINE Due(b) == (tick' = "reaped" /\ current' = b) \/ sweeping' = b
  <1> SUFFICES ASSUME NEW b \in Job, NEW c \in Job,
                      Partners(b, c)', (spec[c].role = "candidate")', (c \notin late)',
                      status'[b] \in Ended \ {"completed"}, server' # "down",
                      status'[c] \notin Ended
               PROVE  Due(b)
    BY DEF PartnersSwept
  <1>1. CASE EnqueueSingle \/ \E g \in Comparisons : CreateBase(g) \/ CreateCandidate(g)
    <2>1. UNCHANGED <<server, tick, sweeping, current>>
      BY <1>1 DEF EnqueueSingle, CreateBase, CreateCandidate
    <2>2. QED
      BY <1>1, <2>1, NewPartners DEF PartnersSwept
  <1>2. ASSUME UNCHANGED <<spec, late>>, server # "down"
        PROVE  Due(b)
    <2>1. /\ Partners(b, c) /\ spec[c].role = "candidate" /\ c \notin late
          /\ status[c] \notin Ended /\ status[b] # "completed"
      BY <1>2, FinalStep DEF Partners, Ended
    <2>2. status[c] = "queued"
      BY <1>2, <2>1, CandidateWaits
    <2>3. ASSUME NEW j \in Job, status' = Swept(status, j), status[j] \in Ended,
                 j = b \/ status[b] \notin Ended
          PROVE  FALSE
      <3>1. j # c
        BY <2>2, <2>3 DEF Ended
      <3>2. j = b \/ (Partners(j, b) /\ status[j] # "completed")
        BY <2>3 DEF Swept, LaneInv, TypeOK
      <3>3. Partners(j, c) /\ status[j] # "completed"
        BY <2>1, <3>1, <3>2 DEF Partners
      <3>4. status'[c] = "cancelled"
        BY <2>2, <2>3, <3>3 DEF Swept
      <3>5. QED
        BY <3>4 DEF Ended
    <2>4. CASE status[b] \in Ended
      <3>1. (tick = "reaped" /\ current = b) \/ sweeping = b
        BY <1>2, <2>1, <2>2, <2>4 DEF PartnersSwept, Ended
      <3>2. b # None /\ (tick = "reaped" => sweeping = None)
        BY JobsAssumption DEF Job, LaneInv, TickShape
      <3>3. ASSUME NEW j \in Job, Settle(j) PROVE FALSE
        <4>1. j = b /\ status' = Swept(status, b)
          BY <3>1, <3>2, <3>3 DEF Settle, LaneInv, TickShape
        <4>2. QED
          BY <2>3, <2>4, <4>1
      <3>4. ASSUME NEW j \in Job, SweepPartners(j) PROVE FALSE
        <4>1. j = b /\ status' = Swept(status, b)
          BY <3>1, <3>2, <3>4, JobsAssumption DEF SweepPartners, Job
        <4>2. QED
          BY <2>3, <2>4, <4>1
      <3>5. ~SweepFault /\ \A j \in Job : ~HandleFault(j) /\ ~SweepHandled(j)
        BY DEF SweepFault, HandleFault, SweepHandled, CleanTick
      <3>6. QED
        BY <1>1, <3>1, <3>2, <3>3, <3>4, <3>5
        DEF vars, Next, ServerStep, Ready, Request, TickStep, SweepStep, WorkerStep, Start,
            Crash, BeginClose, CloseStop, FinishClose, Forget, Stop, StopCurrent, MutexFree,
            Reap, PickNothing, Launch, LaunchFail, Picks, MarkRunning, TickFault, LoopDies,
            AcquireGpu, WorkerExits, WorkerDies, CleanTick
    <2>5. CASE status[b] \notin Ended
      <3>1. ASSUME NEW j \in Job, NEW t, EndJob(j, t) PROVE Due(b)
        BY <2>5, <3>1 DEF EndJob, LaneInv, TypeOK
      <3>2. CASE UNCHANGED status
        BY <2>5, <3>2
      <3>3. ASSUME NEW j \in Job, StopCurrent(j) PROVE FALSE
        BY <2>5, <3>3 DEF StopCurrent, LaneInv, TypeOK, Ended
      <3>4. ASSUME NEW j \in Job, StopQueued(j) PROVE Due(b)
        BY <3>1, <3>4 DEF StopQueued
      <3>5. ASSUME NEW j \in Job, Reap(j) PROVE Due(b)
        BY <2>5, <3>5 DEF Reap, LaneInv, TypeOK
      <3>6. ASSUME NEW j \in Job, Settle(j) PROVE FALSE
        <4>1. status[j] \in Ended /\ status' = Swept(status, j)
          BY <3>6 DEF Settle, LaneInv, TickShape
        <4>2. QED
          BY <2>3, <2>5, <4>1
      <3>7. ASSUME NEW j \in Job, LaunchFail(j) PROVE Due(b)
        BY <3>1, <3>7 DEF LaunchFail
      <3>8. ASSUME NEW j \in Job, MarkRunning(j) PROVE FALSE
        BY <2>5, <3>8 DEF MarkRunning, LaneInv, TypeOK, Ended
      <3>9. ASSUME NEW j \in Job, HandleFault(j) \/ SweepHandled(j) PROVE FALSE
        BY <3>9 DEF HandleFault, SweepHandled, CleanTick
      <3>10. ASSUME NEW j \in Job, SweepPartners(j) PROVE FALSE
        <4>1. status[j] \in Ended /\ status' = Swept(status, j)
          BY <3>10 DEF SweepPartners, LaneInv, TickShape, Ended
        <4>2. QED
          BY <2>3, <2>5, <4>1
      <3>11. QED
        BY <1>1, <1>2, <3>2, <3>3, <3>4, <3>5, <3>6, <3>7, <3>8, <3>9, <3>10
        DEF vars, Next, ServerStep, Ready, Request, TickStep, SweepStep, WorkerStep, Start,
            Crash, BeginClose, CloseStop, FinishClose, Stop, PickNothing, Launch, TickFault,
            SweepFault, LoopDies, AcquireGpu, WorkerExits, WorkerDies
    <2>6. QED
      BY <2>4, <2>5
  <1>3. CASE Start
    <2>1. Partners(b, c) /\ spec[c].role = "candidate"
      BY <1>3 DEF Start, storeVars, Partners
    <2>2. status[c] # "none"
      BY <2>1 DEF LaneInv, RowShape, PairRows, NoSpec
    <2>3. QED
      BY <1>3, <2>2 DEF Start, RecoveredStatus, LaneInv, TypeOK, Status, Active, Ended
  <1>4. CASE server = "down" /\ ~Start
    <2>1. server' = "down"
      BY <1>1, <1>4
      DEF vars, Next, ServerStep, Ready, Request, TickStep, SweepStep, WorkerStep,
          Crash, BeginClose, CloseStop, FinishClose, EnqueueSingle, CreateBase,
          CreateCandidate, Stop, Reap, Settle, PickNothing, Launch, LaunchFail, Picks,
          MarkRunning, HandleFault, SweepHandled, SweepPartners, SweepFault, TickFault,
          LoopDies, AcquireGpu, WorkerExits, WorkerDies, LaneInv, TickShape
    <2>2. QED
      BY <2>1
  <1>5. QED
    BY <1>1, <1>2, <1>3, <1>4
    DEF vars, Next, ServerStep, Ready, Request, TickStep, SweepStep, WorkerStep,
        Crash, BeginClose, CloseStop, FinishClose, Stop, Reap, Settle, PickNothing,
        Launch, LaunchFail, MarkRunning, HandleFault, SweepHandled, SweepPartners,
        SweepFault, TickFault, LoopDies, AcquireGpu, WorkerExits, WorkerDies, storeVars

(* A candidate's worker only appears behind a base that completed, and a    *)
(* completed base stays completed.                                          *)
LEMMA NeedsBaseStep ==
    ASSUME LaneInv, PairRows, CleanTick, PartnersSwept, CandidateNeedsBase,
           [Next]_vars, faults = 0
    PROVE  CandidateNeedsBase'
  <1> SUFFICES ASSUME NEW b \in Job, NEW c \in Job,
                      Partners(b, c)', (spec[c].role = "candidate")', (c \notin late)',
                      proc'[c] # "none"
               PROVE  status'[b] = "completed"
    BY DEF CandidateNeedsBase
  <1>1. CASE EnqueueSingle \/ \E g \in Comparisons : CreateBase(g) \/ CreateCandidate(g)
    <2>1. UNCHANGED proc
      BY <1>1 DEF EnqueueSingle, CreateBase, CreateCandidate, workerVars
    <2>2. QED
      BY <1>1, <2>1, NewPartners DEF CandidateNeedsBase
  <1>2. ASSUME UNCHANGED <<spec, late>>, proc[c] # "none" PROVE status'[b] = "completed"
    BY <1>2, FinalStep DEF CandidateNeedsBase, Partners, Ended
  <1>3. ASSUME UNCHANGED <<spec, late>>, NEW j \in Job, Launch(j), j = c
        PROVE  status'[b] = "completed"
    <2>1. Partners(b, c) /\ spec[c].role = "candidate" /\ c \notin late
      BY <1>3 DEF Partners
    <2>2. b \in 1..(c - 1)
      BY <2>1, PartnerIsBase, JobsAssumption DEF Job
    <2>3. status[b] \in Ended
      BY <1>3, <2>2, LaunchStep
    <2>4. /\ status[c] = "queued" /\ tick # "reaped" /\ server # "down" /\ UNCHANGED status
          /\ sweeping # b
      BY <1>3, JobsAssumption DEF Launch, Picks, FirstQueued, Job
    <2>5. QED
      BY <2>1, <2>3, <2>4 DEF PartnersSwept, Ended
  <1>4. proc[c] # "none" \/ proc' = proc \/ \E j \in Job : Launch(j) /\ (proc'[c] = proc[c] \/ j = c)
    BY DEF vars, Next, ServerStep, Ready, Request, TickStep, SweepStep, WorkerStep,
        Start, Crash, BeginClose, CloseStop, FinishClose, EnqueueSingle, CreateBase,
        CreateCandidate, Stop, Reap, Settle, PickNothing, LaunchFail, MarkRunning,
        HandleFault, SweepHandled, SweepPartners, SweepFault, TickFault, LoopDies, Launch,
        AcquireGpu, WorkerExits, WorkerDies, Alive, workerVars, LaneInv, TypeOK
  <1>5. QED
    BY <1>1, <1>2, <1>3, <1>4
    DEF vars, Next, ServerStep, Ready, Request, TickStep, SweepStep, WorkerStep,
        Start, Crash, BeginClose, CloseStop, FinishClose, Stop, Reap, Settle, PickNothing,
        Launch, LaunchFail, MarkRunning, HandleFault, SweepHandled, SweepPartners,
        SweepFault, TickFault, LoopDies, AcquireGpu, WorkerExits, WorkerDies, storeVars

(* Rows join the queue in pairs in the order base, candidate. Before any    *)
(* store error no step takes the candidate out of the queue before its      *)
(* base, except a stop() that will cancel the base before it lets a tick    *)
(* see it.                                                                  *)
LEMMA BaseFirstStep ==
    ASSUME LaneInv, PairRows, CleanTick, BaseWaitsFirst, [Next]_vars, faults' = faults
    PROVE  BaseWaitsFirst'
  <1> DEFINE Waits(c) == sweeping' = c \/ (status'[c] = "queued" /\ proc'[c] = "none")
  <1> SUFFICES ASSUME NEW b \in Job, NEW c \in Job, server' # "down",
                      Partners(b, c)', (spec[c].role = "candidate")', status'[b] = "queued"
               PROVE  Waits(c)
    BY DEF BaseWaitsFirst
  <1> USE JobsAssumption
  <1>0. TypeOK
    BY DEF LaneInv
  <1>1. CASE EnqueueSingle \/ \E g \in Comparisons : CreateBase(g) \/ CreateCandidate(g)
    <2>1. /\ made + 1 \in Job /\ status[made + 1] = "none" /\ proc[made + 1] = "none"
          /\ status' = [status EXCEPT ![made + 1] = "queued"] /\ UNCHANGED <<proc, sweeping>>
          /\ server = server'
          /\ \A k \in Job \ {made + 1} : status'[k] = status[k] /\ spec'[k] = spec[k]
      <3>1. PICK role, group : Enqueue(role, group)
        BY <1>1 DEF EnqueueSingle, CreateBase, CreateCandidate
      <3>2. UNCHANGED <<proc, sweeping, server>>
        BY <1>1 DEF EnqueueSingle, CreateBase, CreateCandidate, workerVars
      <3>3. QED
        BY <3>1, <3>2 DEF Enqueue, LaneInv, TypeOK, RowShape, Job
    <2>2. CASE c = made + 1
      BY <2>1, <2>2, <1>0 DEF TypeOK
    <2>3. CASE c # made + 1 /\ b # made + 1
      BY <2>1, <2>3 DEF Partners, BaseWaitsFirst
    <2>4. CASE c # made + 1 /\ b = made + 1
      <3>1. spec[c].role = "candidate" /\ spec[c].group = spec'[b].group
        BY <2>1, <2>4 DEF Partners
      <3>2. CASE EnqueueSingle
        <4>1. spec'[b].role = "single"
          BY <1>0, <2>1, <2>4, <3>2 DEF EnqueueSingle, Enqueue, TypeOK
        <4>2. QED
          BY <4>1 DEF Partners, PairRoles
      <3>3. ASSUME NEW g \in Comparisons, CreateBase(g) PROVE FALSE
        BY <1>0, <2>1, <2>4, <3>1, <3>3 DEF CreateBase, Enqueue, TypeOK
      <3>4. ASSUME NEW g \in Comparisons, CreateCandidate(g) PROVE FALSE
        <4>1. spec'[b].group = g /\ g \in creating
          BY <1>0, <2>1, <2>4, <3>4 DEF CreateCandidate, Enqueue, TypeOK
        <4>2. QED
          BY <3>1, <4>1 DEF PairRows
      <3>5. QED
        BY <1>1, <3>2, <3>3, <3>4
    <2>5. QED
      BY <2>2, <2>3, <2>4
  <1>2. CASE Start
    BY <1>0, <1>2 DEF Start, RecoveredStatus, TypeOK, Active
  <1>3. ASSUME UNCHANGED spec, status[b] = "queued", server # "down"
        PROVE  /\ Partners(b, c) /\ b < c /\ b # None /\ c # None
               /\ sweeping = c \/ (status[c] = "queued" /\ proc[c] = "none")
    <2>1. Partners(b, c) /\ spec[c].role = "candidate"
      BY <1>3 DEF Partners
    <2>2. QED
      BY <1>3, <2>1, PartnerIsBase DEF BaseWaitsFirst, Job
  <1>4. ASSUME UNCHANGED <<spec, status, sweeping>>, proc'[c] = proc[c], server # "down"
        PROVE  Waits(c)
    BY <1>3, <1>4
  <1>5. ASSUME UNCHANGED <<spec, proc>>, server # "down", sweeping = None,
               NEW j \in Job, NEW s \in Ended, EndJob(j, s)
        PROVE  Waits(c)
    <2>1. status[b] = "queued"
      BY <1>0, <1>5, EndJobEffect DEF Ended
    <2>2. QED
      BY <1>0, <1>3, <1>5, <2>1, EndJobEffect
  <1>6. ASSUME UNCHANGED <<spec, proc, sweeping>>, server # "down",
               NEW j \in Job, proc[j] # "none",
               NEW s, status' = [status EXCEPT ![j] = s], s # "queued"
        PROVE  Waits(c)
    BY <1>0, <1>3, <1>6 DEF TypeOK
  <1>7. ASSUME UNCHANGED <<spec, proc>>, server # "down", NEW j \in Job,
               status[j] \in Ended, status' = Swept(status, j),
               \/ sweeping' = sweeping /\ sweeping = None
               \/ sweeping = j /\ status[j] # "completed"
        PROVE  Waits(c)
    <2>1. status[b] = "queued" /\ j # b
      BY <1>0, <1>7, SweptEffect DEF TypeOK, Ended
    <2>2. CASE j = c
      <3>1. Partners(c, b) /\ sweeping # None => FALSE
        BY <1>0, <1>3, <1>7, <2>1, <2>2 DEF Swept, TypeOK
      <3>2. QED
        BY <1>3, <1>7, <2>1, <2>2, <3>1 DEF Partners, Ended
    <2>3. CASE j # c
      <3>1. status[c] = "queued" /\ proc[c] = "none" /\ Partners(b, c)
        BY <1>3, <1>7, <2>1, <2>3 DEF Job
      <3>2. QED
        BY <1>0, <1>7, <2>1, <2>3, <3>1, SweepTakesBoth
    <2>4. QED
      BY <2>2, <2>3
  <1>8. ASSUME NEW j \in Job, StopQueued(j) \/ StopCurrent(j), UNCHANGED <<spec, proc>>,
               server # "down", sweeping = None
        PROVE  Waits(c)
    <2>1. CASE StopQueued(j)
      BY <1>5, <1>8, <2>1 DEF StopQueued, Ended
    <2>2. CASE StopCurrent(j)
      BY <1>6, <1>8, <2>2 DEF StopCurrent, LaneInv, TickShape
    <2>3. QED
      BY <1>8, <2>1, <2>2
  <1>9. ASSUME NEW j \in Job, Reap(j) PROVE Waits(c)
    <2>1. Outcome(j) # "queued" /\ proc[j] # "none"
      BY <1>9 DEF Reap, Outcome, Exited
    <2>2. QED
      BY <1>6, <1>9, <2>1 DEF Reap, storeVars, workerVars
  <1>10. ASSUME NEW j \in Job, Settle(j) PROVE Waits(c)
    <2>1. /\ status[j] \in Ended /\ server # "down" /\ UNCHANGED <<spec, proc>>
          /\ sweeping' = sweeping /\ sweeping = None /\ status' = Swept(status, j)
      BY <1>10 DEF Settle, LaneInv, TickShape, storeVars, workerVars
    <2>2. QED
      BY <1>7, <2>1
  <1>11. ASSUME NEW j \in Job, SweepPartners(j) PROVE Waits(c)
    <2>1. status[j] \in Ended \ {"completed"} /\ server # "down" /\ UNCHANGED <<spec, proc>>
      BY <1>11 DEF SweepPartners, LaneInv, TickShape, Ended, storeVars, workerVars
    <2>2. QED
      BY <1>7, <1>11, <2>1 DEF SweepPartners
  <1>12. ASSUME NEW j \in Job, Launch(j) PROVE Waits(c)
    <2>1. /\ status[b] = "queued" /\ FirstQueued(j) /\ UNCHANGED <<spec, status, sweeping>>
          /\ server = "up"
      BY <1>12 DEF Launch, Picks, storeVars
    <2>2. c # j
      BY <1>3, <2>1 DEF FirstQueued, Job
    <2>3. proc'[c] = proc[c]
      BY <1>0, <1>12, <2>2 DEF Launch, TypeOK
    <2>4. QED
      BY <1>4, <2>1, <2>3
  <1>13. ASSUME NEW j \in Job, LaunchFail(j) PROVE Waits(c)
    BY <1>5, <1>13 DEF LaunchFail, Picks, Ended, storeVars, workerVars
  <1>14. ASSUME NEW j \in Job, MarkRunning(j) PROVE Waits(c)
    BY <1>6, <1>14 DEF MarkRunning, LaneInv, TickShape, storeVars, workerVars
  <1>15. ASSUME NEW j \in Job, HandleFault(j) \/ SweepHandled(j) PROVE FALSE
    BY <1>15 DEF HandleFault, SweepHandled, CleanTick
  <1>16. ASSUME NEW j \in Job, proc[j] # "none", NEW code, proc' = [proc EXCEPT ![j] = code],
                UNCHANGED <<spec, status, sweeping>>, server # "down"
         PROVE  Waits(c)
    BY <1>0, <1>3, <1>16 DEF TypeOK
  <1>17. ASSUME NEW j \in Job, WorkerStep(j) PROVE Waits(c)
    BY <1>16, <1>17 DEF WorkerStep, AcquireGpu, WorkerExits, WorkerDies, Alive, storeVars
  <1>18. CASE CloseStop
    BY <1>8, <1>18 DEF CloseStop, storeVars
  <1>19. ASSUME NEW j \in Job, Stop(j) PROVE Waits(c)
    BY <1>8, <1>19 DEF Stop, MutexFree, storeVars
  <1>20. ~TickFault /\ ~SweepFault /\ ~LoopDies
    BY <1>0, JobsAssumption DEF TickFault, SweepFault, LoopDies, TypeOK
  <1>21. QED
    BY <1>1, <1>2, <1>4, <1>9, <1>10, <1>11, <1>12, <1>13, <1>14, <1>15, <1>17, <1>18, <1>19,
       <1>20
    DEF vars, Next, ServerStep, Ready, Request, TickStep, SweepStep, Crash, Forget,
        BeginClose, FinishClose, PickNothing, storeVars, workerVars

(* Every step keeps the invariant of the pairs. *)
LEMMA PairStep == PairInv /\ [Next]_vars => PairInv'
  <1> SUFFICES ASSUME PairInv, [Next]_vars PROVE PairInv'
    OBVIOUS
  <1>1. LaneInv' /\ PairRows'
    BY StepInv, RowsStep DEF PairInv
  <1>2. ASSUME faults' = 0
        PROVE  CleanTick' /\ PartnersSwept' /\ BaseWaitsFirst' /\ CandidateNeedsBase'
    <2>1. faults = 0
      BY <1>2, FaultsGrow DEF PairInv
    <2>2. /\ LaneInv /\ PairRows /\ CleanTick /\ PartnersSwept /\ BaseWaitsFirst
          /\ CandidateNeedsBase
      BY <2>1 DEF PairInv
    <2>3. QED
      BY <1>2, <2>1, <2>2, CleanStep, SweptStep, BaseFirstStep, NeedsBaseStep
  <1>3. CandidateNeedsBase'
    BY <1>2 DEF CandidateNeedsBase
  <1>4. QED
    BY <1>1, <1>2, <1>3 DEF PairInv

(* The rows, processes and comparisons of the lane always fit together.     *)
THEOREM PairInvariant == Spec => []PairInv
  <1>1. Init => PairInv
    <2> SUFFICES ASSUME Init PROVE PairInv
      OBVIOUS
    <2>1. LaneInv
      BY InitInv
    <2>2. PairRows
      BY JobsAssumption DEF Init, PairRows, NoSpec, PairRoles
    <2>3. CleanTick /\ PartnersSwept /\ CandidateNeedsBase
      BY JobsAssumption DEF Init, CleanTick, PartnersSwept, CandidateNeedsBase, Job
    <2>4. BaseWaitsFirst
      BY DEF Init, BaseWaitsFirst
    <2>5. QED
      BY <2>1, <2>2, <2>3, <2>4 DEF PairInv
  <1>2. QED
    BY <1>1, PairStep, PTL DEF Spec

(* However many comparisons, crashes and restarts: a candidate that was     *)
(* added in time only gets a worker after its base completed.               *)
THEOREM CandidateAfterBase == Spec => []CandidateNeedsBase
  <1>1. PairInv => CandidateNeedsBase
    BY DEF PairInv
  <1>2. QED
    BY <1>1, PairInvariant, PTL

(* Before any store error, a base that waits is never left without its      *)
(* candidate, whatever stops, failed launches, crashes and restarts follow, *)
(* but for the two updates of one stop() (jobs.py cancel_partners): the     *)
(* half of "the other side is cancelled" that holds.                        *)
THEOREM BaseWaitsFirstHolds == Spec => [](faults = 0 => BaseWaitsFirst)
  <1>1. PairInv => (faults = 0 => BaseWaitsFirst)
    BY DEF PairInv
  <1>2. QED
    BY <1>1, PairInvariant, PTL

(* Up to the first store error, an outcome shown to the user is final.      *)
THEOREM OutcomesAreFinal == Spec => OutcomeIsFinal
  <1> DEFINE Final == faults = 0 => \A j \in Job : status[j] \in Ended => status'[j] = status[j]
  <1>1. PairInv /\ [Next]_vars => [Final]_vars
    <2> SUFFICES ASSUME PairInv, [Next]_vars, faults = 0, NEW j \in Job, status[j] \in Ended
                 PROVE  status'[j] = status[j]
      OBVIOUS
    <2>1. QED
      BY FinalStep DEF PairInv
  <1>2. QED
    BY <1>1, PairInvariant, PTL DEF Spec, OutcomeIsFinal

=============================================================================
