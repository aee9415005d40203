--------------------------- MODULE AskSessionProofs ---------------------------
(***************************************************************************)
(* Proofs about AskSession for any number of jobs, questions, items,       *)
(* requests, restarts and lost sessions. AskInv is the inductive invariant;*)
(* it holds LaneInv too, which the new steps of the lane keep as well.     *)
(***************************************************************************)
EXTENDS AskSession, JobLaneProofs, FiniteSetTheorems

-----------------------------------------------------------------------------
(* The lane under sessions. *)

(* The steps inside session_ended, start() and fail_question. *)
Settling ==
    \/ ListOpen \/ ReadQuestion \/ FailQuestion
    \/ \E j \in Job : ListItems(j)
    \/ \E i \in Item : Interrupt(i)
    \/ \E j \in Job, i \in Item : FailCut(j, i) \/ CancelWaiting(j, i)

(* The steps that are neither those nor one of the lane's two new ones. *)
Usual ==
    \/ AskStart \/ AskCrash \/ AskBeginClose \/ CloseStep \/ AddSingle
    \/ \E t \in Threads, q \in Questions : AskQuestion(t, q) \/ ConfirmPlan(t, q)
    \/ \E t \in Threads : ThreadStep(t)
    \/ \E j \in Job : Release(j) \/ StopSession(j) \/ LoseSession(j)
    \/ \E j \in Job : LaneStep(j) \/ SettleSession(j)
    \/ PickNothing /\ UNCHANGED askVars
    \/ \E j \in Job : AskWorker(j) \/ SessionStep(j)
    \/ UNCHANGED allVars

LEMMA StepKinds ==
    ASSUME [AskNext]_allVars
    PROVE  Settling \/ AskReady \/ AskSweep \/ Usual
  BY DEF AskNext, AskTick, StartStep, FailStep, Settling, Usual

(* A settling step touches no row, process or request: it settles an item   *)
(* of its list, or fails the question it read.                              *)
LEMMA SettlingEffect ==
    ASSUME Settling
    PROVE  /\ UNCHANGED <<vars, added, work, by, thread, sess, released, losses>>
           /\ \/ UNCHANGED item
              \/ /\ UNCHANGED question
                 /\ \E i \in Item :
                       \/ Interrupt(i) /\ item' = [item EXCEPT ![i] = "interrupted"]
                       \/ \E j \in Job, s \in {"failed", "cancelled"} :
                             /\ FailCut(j, i) \/ CancelWaiting(j, i)
                             /\ item' = [item EXCEPT ![i] = s]
           /\ UNCHANGED question \/ FailQuestion
  BY DEF Settling, ListOpen, ReadQuestion, FailQuestion, ListItems, Interrupt, FailCut,
         CancelWaiting, SettleItem, itemVars

(* What is left of the lane's new steps. *)
LEMMA LaneOnlyEffect ==
    ASSUME AskReady \/ AskSweep
    PROVE  /\ UNCHANGED <<itemVars, added, item, work, by, question, thread, sess, released, losses>>
           /\ UNCHANGED <<made, spec, late, proc, signalled, current, creating, starts, faults>>
  BY DEF AskReady, Ready, AskSweep, SweepStep, SweepPartners, storeVars, workerVars, bounds,
         askVars, itemVars

(* A step of Ask is a step of the lane without store errors, or a session   *)
(* row is added, a session is settled, or a session worker is killed.       *)
LEMMA LaneOrNew ==
    ASSUME [AskNext]_allVars
    PROVE  \/ [Next]_vars /\ faults' = faults
           \/ \E t \in Threads : SpawnSession(t)
           \/ \E j \in Job : SettleSession(j) \/ LoseSession(j)
  <1>1. ASSUME UNCHANGED vars PROVE [Next]_vars /\ faults' = faults
    BY <1>1 DEF vars
  <1>2. AskStart \/ AskReady \/ AskSweep => [Next]_vars /\ faults' = faults
    BY DEF AskStart, Start, AskReady, Ready, AskSweep, SweepStep, SweepPartners, Next,
           ServerStep, bounds
  <1>3. AskCrash => [Next]_vars /\ faults' = faults
    BY DEF AskCrash, Crash, Next, ServerStep, bounds
  <1>4. AskBeginClose => [Next]_vars /\ faults' = faults
    BY DEF AskBeginClose, BeginClose, Next, ServerStep, bounds
  <1>5. CloseStep => [Next]_vars /\ faults' = faults
    BY DEF CloseStep, CloseStop, FinishClose, Next, ServerStep, bounds
  <1>6. AddSingle => [Next]_vars /\ faults' = faults
    BY DEF AddSingle, EnqueueSingle, Next, Request, bounds
  <1>7. ASSUME NEW j \in Job, StopSession(j) PROVE [Next]_vars /\ faults' = faults
    BY <1>7 DEF StopSession, Stop, Next, Request, bounds
  <1>8. ASSUME NEW j \in Job, LaneStep(j) PROVE [Next]_vars /\ faults' = faults
    BY <1>8
    DEF LaneStep, Reap, Settle, Launch, MarkRunning, LaunchFail, Next, TickStep, bounds
  <1>9. PickNothing => [Next]_vars /\ faults' = faults
    BY DEF PickNothing, Next, TickStep, bounds
  <1>10. ASSUME NEW j \in Job, AskWorker(j) PROVE [Next]_vars /\ faults' = faults
    BY <1>10 DEF AskWorker, AcquireGpu, WorkerDies, WorkerExits, Next, WorkerStep, bounds
  <1>11. ASSUME NEW j \in Job, proc[j] = "holding", Returns(j)
         PROVE  [Next]_vars /\ faults' = faults
    <2>1. WorkerExits(j)
      BY <1>11 DEF Returns, WorkerExits
    <2>2. QED
      BY <1>11, <2>1 DEF Next, WorkerStep, Returns, bounds
  <1>12. ASSUME NEW j \in Job, SessionStep(j) PROVE [Next]_vars /\ faults' = faults
    BY <1>1, <1>11, <1>12
    DEF SessionStep, At, Goes, SeeRelease, PickItem, SeeNothing, Yield, IdleOut, Sleep,
        TakeItem, Serving, SaveDraft, SaveAnswer, CompleteItem, FailItem, FailItsQuestion
  <1>13. ASSUME NEW t \in Threads, ThreadStep(t)
         PROVE  UNCHANGED vars \/ SpawnSession(t)
    BY <1>13
    DEF ThreadStep, PrepareRaises, Prepared, ReuseAnswer, AddItem, FindSession
  <1>14. QED
    BY <1>1, <1>2, <1>3, <1>4, <1>5, <1>6, <1>7, <1>8, <1>9, <1>10, <1>12, <1>13,
       StepKinds, SettlingEffect
    DEF Usual, AskQuestion, ConfirmPlan, Release, allVars

(* A session row added to the queue changes nothing else in the lane. *)
LEMMA EnqueueKeepsLane ==
    ASSUME LaneInv, CleanTick, NEW key \in SessionKeys, Enqueue("session", key),
           UNCHANGED <<workerVars, server, sweeping, creating, bounds, late>>,
           \/ UNCHANGED <<tick, current>>
           \/ server # "down" /\ tick = "reaped" /\ tick' = "picking" /\ current' = None
    PROVE  LaneInv' /\ CleanTick'
  <1> USE JobsAssumption DEF Job
  <1>1. /\ made \in Nat /\ made + 1 \in Job /\ status[made + 1] = "none"
        /\ spec' \in [Job -> JobSpec]
    BY DEF Enqueue, LaneInv, TypeOK, RowShape, JobSpec, Role
  <1>2. QED
    BY <1>1, SMTT(30)
    DEF Enqueue, LaneInv, TypeOK, RowShape, OneActiveJob, QueuedNotLaunched, TickShape,
        OneHolder, CompletedMeansExitZero, CleanTick, Status, Active, Ended, Exited,
        workerVars, bounds

(* The lane keeps its invariant under every step of Ask, and no tick of it  *)
(* is ever cut short by a store error.                                      *)
LEMMA AskLaneStep ==
    ASSUME LaneInv, CleanTick, SessionRows, [AskNext]_allVars
    PROVE  LaneInv' /\ CleanTick'
  <1>1. CASE [Next]_vars /\ faults' = faults
    BY <1>1, StepInv, CleanStep
  <1>2. ASSUME NEW t \in Threads, SpawnSession(t) PROVE LaneInv' /\ CleanTick'
    <2>1. KeyOf(thread[t].kind) \in SessionKeys
      BY AskAssumption DEF KeyOf
    <2>2. QED
      BY <1>2, <2>1, EnqueueKeepsLane DEF SpawnSession
  <1>3. ASSUME NEW j \in Job, SettleSession(j) PROVE LaneInv' /\ CleanTick'
    <2>1. CASE Continues(j)
      <3>1. spec[j].group \in SessionKeys
        BY <1>3 DEF SettleSession, Ending, SessionRows
      <3>2. /\ Enqueue("session", spec[j].group)
            /\ UNCHANGED <<workerVars, server, sweeping, creating, bounds, late>>
            /\ server # "down" /\ tick = "reaped" /\ tick' = "picking" /\ current' = None
        BY <1>3, <2>1 DEF SettleSession, Ending
      <3>3. QED
        BY <3>1, <3>2, EnqueueKeepsLane
    <2>2. CASE ~Continues(j)
      BY <1>3, <2>2, JobsAssumption, SMTT(30)
      DEF SettleSession, Ending, LaneInv, TypeOK, RowShape, OneActiveJob,
          QueuedNotLaunched, TickShape, OneHolder, CompletedMeansExitZero, CleanTick,
          Status, Active, Ended, Exited, Job, workerVars, bounds
    <2>3. QED
      BY <2>1, <2>2
  <1>4. ASSUME NEW j \in Job, LoseSession(j) PROVE LaneInv' /\ CleanTick'
    BY <1>4, JobsAssumption
    DEF LoseSession, Alive, LaneInv, TypeOK, RowShape, OneActiveJob, QueuedNotLaunched,
        TickShape, OneHolder, CompletedMeansExitZero, CleanTick, Status, Active, Ended,
        Exited, Process, Job, storeVars, bounds
  <1>5. QED
    BY <1>1, <1>2, <1>3, <1>4, LaneOrNew

-----------------------------------------------------------------------------
(* Rows and workers. *)

(* Both kinds of steps need a session's model to have a key. *)
LEMMA KeyOfType == \A kind \in Kind : KeyOf(kind) \in SessionKeys
  BY AskAssumption DEF KeyOf

(* Session keys stay with session rows: every row added is a session of a   *)
(* key or a single job.                                                     *)
LEMMA SessionRowsStep ==
    ASSUME LaneInv, CleanTick, SessionRows, [AskNext]_allVars
    PROVE  \A j \in Job : (IsSession(j) <=> spec[j].group \in SessionKeys)'
  <1> USE JobsAssumption DEF Job
  <1>1. CASE UNCHANGED spec
    BY <1>1 DEF SessionRows, IsSession
  <1>2. ASSUME NEW key \in SessionKeys, Enqueue("session", key)
        PROVE  \A j \in Job : (IsSession(j) <=> spec[j].group \in SessionKeys)'
    BY <1>2 DEF SessionRows, IsSession, Enqueue, LaneInv, TypeOK
  <1>3. CASE AddSingle
    BY <1>3 DEF AddSingle, EnqueueSingle, SessionRows, IsSession, Enqueue, LaneInv, TypeOK
  <1>4. ASSUME NEW t \in Threads, SpawnSession(t) PROVE \E key \in SessionKeys : Enqueue("session", key)
    BY <1>4, AskAssumption DEF SpawnSession, KeyOf
  <1>5. ASSUME NEW j \in Job, SettleSession(j)
        PROVE  UNCHANGED spec \/ \E key \in SessionKeys : Enqueue("session", key)
    BY <1>5 DEF SettleSession, Ending, SessionRows
  <1>6. Settling \/ AskReady \/ AskSweep => UNCHANGED spec
    BY SettlingEffect, LaneOnlyEffect DEF vars
  <1>7. QED
    BY <1>1, <1>2, <1>3, <1>4, <1>5, <1>6, StepKinds
    DEF Usual, AskStart, Start, AskCrash, Crash, AskBeginClose, BeginClose, CloseStep,
        CloseStop, FinishClose, AskQuestion, ConfirmPlan, ThreadStep, PrepareRaises,
        Prepared, ReuseAnswer, AddItem, FindSession, Release, StopSession, Stop,
        LoseSession, LaneStep, Reap, Settle, Launch, MarkRunning, LaunchFail, PickNothing,
        AskWorker, AcquireGpu, WorkerDies, WorkerExits, SessionStep, SeeRelease, Returns,
        PickItem, SeeNothing, Goes, Yield, IdleOut, Sleep, TakeItem, SaveDraft,
        SaveAnswer, CompleteItem, FailItem, FailItsQuestion, storeVars, vars, allVars

(* A worker that is alive has an active row or an interrupted one: a row    *)
(* only ends otherwise when its worker has exited, or never started.        *)
LEMMA AliveRowsStep ==
    ASSUME LaneInv, CleanTick, SessionRows, [AskNext]_allVars, NEW k \in Job, Alive(k)'
    PROVE  status'[k] \in Active \union {"interrupted"}
  <1> USE JobsAssumption DEF Job, Alive
  <1>1. ASSUME UNCHANGED status, Alive(k) PROVE status'[k] \in Active \union {"interrupted"}
    BY <1>1 DEF SessionRows
  <1>2. ASSUME NEW j \in Job, NEW s \in Ended, EndJob(j, s), status[j] = "queued",
               UNCHANGED proc, server # "down", tick \in {"idle", "picking"}
        PROVE  status'[k] \in Active \union {"interrupted"}
    <2>1. status[k] \in Active \union {"interrupted"}
      BY <1>2 DEF SessionRows
    <2>2. status[k] # "queued"
      BY <1>2 DEF LaneInv, QueuedNotLaunched, CleanTick, TickShape
    <2>3. k # j
      BY <1>2, <2>2
    <2>4. QED
      BY <1>2, <2>1, <2>3 DEF EndJob, LaneInv, TypeOK
  <1>3. ASSUME NEW j \in Job, StopQueued(j), UNCHANGED proc, server # "down", tick = "idle"
        PROVE  status'[k] \in Active \union {"interrupted"}
    BY <1>2, <1>3 DEF StopQueued, Ended
  <1>4. ASSUME NEW j \in Job, StopCurrent(j), UNCHANGED proc
        PROVE  status'[k] \in Active \union {"interrupted"}
    BY <1>4 DEF StopCurrent, SessionRows, LaneInv, TypeOK, Active
  <1>5. CASE AskStart
    BY <1>5 DEF AskStart, Start, RecoveredStatus, SessionRows, LaneInv, TypeOK, workerVars
  <1>6. CASE CloseStep
    BY <1>1, <1>3, <1>4, <1>6 DEF CloseStep, CloseStop, FinishClose, workerVars, CleanTick
  <1>7. ASSUME NEW j \in Job, StopSession(j)
        PROVE  status'[k] \in Active \union {"interrupted"}
    BY <1>3, <1>4, <1>7 DEF StopSession, Stop, MutexFree, CleanTick
  <1>8. ASSUME NEW role, NEW group, Enqueue(role, group), UNCHANGED proc
        PROVE  status'[k] \in Active \union {"interrupted"}
    BY <1>8 DEF Enqueue, SessionRows, LaneInv, TypeOK, Active
  <1>9. ASSUME NEW j \in Job, LaneStep(j) PROVE status'[k] \in Active \union {"interrupted"}
    <2>1. CASE Reap(j)
      BY <2>1 DEF Reap, Exited, SessionRows, LaneInv, TypeOK, workerVars
    <2>2. CASE Settle(j)
      <3>1. status[k] \in Active \union {"interrupted"} /\ k # j
        BY <2>2 DEF Settle, SessionRows, workerVars, LaneInv, TickShape, Exited
      <3>2. status[k] # "queued"
        BY <2>2, <3>1 DEF Settle, LaneInv, QueuedNotLaunched, workerVars
      <3>3. QED
        BY <2>2, <3>1, <3>2, SweptEffect DEF Settle, LaneInv, TypeOK
    <2>3. CASE Launch(j)
      BY <2>3 DEF Launch, Picks, FirstQueued, SessionRows, LaneInv, TypeOK, Active
    <2>4. CASE LaunchFail(j)
      BY <1>2, <2>4 DEF LaunchFail, Picks, FirstQueued, workerVars, Ended
    <2>5. CASE MarkRunning(j)
      BY <2>5 DEF MarkRunning, SessionRows, LaneInv, TypeOK, Active, workerVars
    <2>6. QED
      BY <1>9, <2>1, <2>2, <2>3, <2>4, <2>5 DEF LaneStep
  <1>10. ASSUME NEW j \in Job, SettleSession(j)
         PROVE  status'[k] \in Active \union {"interrupted"}
    BY <1>1, <1>8, <1>10 DEF SettleSession, workerVars
  <1>11. ASSUME NEW t \in Threads, SpawnSession(t)
         PROVE  status'[k] \in Active \union {"interrupted"}
    BY <1>8, <1>11 DEF SpawnSession, workerVars
  <1>12. CASE AddSingle
    BY <1>8, <1>12 DEF AddSingle, EnqueueSingle, workerVars
  <1>13. ASSUME NEW j \in Job, Returns(j)
         PROVE  status'[k] \in Active \union {"interrupted"}
    BY <1>1, <1>13 DEF Returns, LaneInv, TypeOK
  <1>14. ASSUME NEW j \in Job, AskWorker(j) \/ LoseSession(j)
         PROVE  status'[k] \in Active \union {"interrupted"}
    BY <1>1, <1>14
    DEF AskWorker, AcquireGpu, WorkerDies, WorkerExits, LoseSession, LaneInv, TypeOK
  <1>15. CASE AskSweep
    <2>1. PICK j \in Job : SweepPartners(j)
      BY <1>15 DEF AskSweep, SweepStep
    <2>2. proc' = proc /\ status' = Swept(status, j) /\ sweeping = j
      BY <2>1 DEF SweepPartners, workerVars
    <2>3. Alive(k) /\ status[k] \in Active \union {"interrupted"}
      BY <2>2 DEF SessionRows
    <2>4. status[k] # "queued"
      <3>1. server # "down" /\ tick \notin {"launched", "reaped"}
        BY <2>2 DEF LaneInv, TickShape
      <3>2. QED
        BY <2>3, <3>1 DEF LaneInv, TypeOK, QueuedNotLaunched, CleanTick, TickShape,
            OneActiveJob
    <2>5. QED
      BY <2>2, <2>3, <2>4 DEF Swept, LaneInv, TypeOK
  <1>16. Settling \/ AskReady => UNCHANGED <<status, proc>>
    BY SettlingEffect DEF AskReady, Ready, workerVars, vars
  <1>17. QED
    BY <1>1, <1>5, <1>6, <1>7, <1>9, <1>10, <1>11, <1>12, <1>13, <1>14, <1>15, <1>16, StepKinds
    DEF Usual, AskCrash, Crash, AskBeginClose, BeginClose, AskQuestion, ConfirmPlan,
        ThreadStep, PrepareRaises, Prepared, ReuseAnswer, AddItem, FindSession, Release,
        PickNothing, SessionStep, SeeRelease, PickItem, SeeNothing, Goes, Yield, IdleOut,
        Sleep, TakeItem, SaveDraft, SaveAnswer, CompleteItem, FailItem, FailItsQuestion,
        workerVars, vars, allVars

-----------------------------------------------------------------------------
(* Requests and items. *)

(* Steps that neither begin a request nor add an item keep those there are. *)
LEMMA ThreadsEffect ==
    ASSUME [AskNext]_allVars, AskTypeOK
    PROVE  \/ UNCHANGED <<thread, added, work>>
           \/ AskCrash /\ thread' = [t \in Threads |-> Idle] /\ UNCHANGED <<added, work>>
           \/ \E t \in Threads :
                 /\ UNCHANGED <<added, work>>
                 /\ \/ \E q \in Questions : AskQuestion(t, q) \/ ConfirmPlan(t, q)
                    \/ Prepared(t) /\ thread' = [thread EXCEPT ![t].step = "add"]
                    \/ FindSession(t) /\ thread' = [thread EXCEPT ![t].step = "spawn"]
                    \/ thread' = [thread EXCEPT ![t] = Idle]
           \/ \E t \in Threads : AddItem(t)
  <1>1. Settling \/ AskReady \/ AskSweep => UNCHANGED <<thread, added, work>>
    BY SettlingEffect, LaneOnlyEffect
  <1>2. ASSUME Usual, ~UNCHANGED <<thread, added, work>>
        PROVE  \/ AskCrash /\ thread' = [t \in Threads |-> Idle] /\ UNCHANGED <<added, work>>
               \/ \E t \in Threads :
                     /\ UNCHANGED <<added, work>>
                     /\ \/ \E q \in Questions : AskQuestion(t, q) \/ ConfirmPlan(t, q)
                        \/ Prepared(t) /\ thread' = [thread EXCEPT ![t].step = "add"]
                        \/ FindSession(t) /\ thread' = [thread EXCEPT ![t].step = "spawn"]
                        \/ thread' = [thread EXCEPT ![t] = Idle]
               \/ \E t \in Threads : AddItem(t)
    BY <1>2, ZenonT(40)
    DEF Usual, AskStart, AskCrash, AskBeginClose, CloseStep, AddSingle, AskQuestion,
        ThreadStep, PrepareRaises, Prepared, ReuseAnswer, FindSession, SpawnSession, Done,
        Step, ConfirmPlan, Release, StopSession, LoseSession, LaneStep, SettleSession,
        AskWorker, SessionStep, SeeRelease, Returns, PickItem, SeeNothing, Goes, Yield,
        IdleOut, Sleep, TakeItem, SaveDraft, SaveAnswer, CompleteItem, FailItem,
        FailItsQuestion, askVars, itemVars, allVars
  <1>3. QED
    BY <1>1, <1>2, StepKinds

(* There is room for every item that a request has yet to add. *)
LEMMA RoomStep ==
    ASSUME AskTypeOK, ThreadShape, [AskNext]_allVars
    PROVE  added' + Cardinality(Reserving') <= MaxItems
  <1> DEFINE Busy == {t \in Threads : thread[t] # Idle}
  <1>1. /\ IsFiniteSet(Reserving) /\ IsFiniteSet(Busy) /\ IsFiniteSet(Reserving')
        /\ Cardinality(Reserving) \in Nat /\ Cardinality(Busy) \in Nat
        /\ Cardinality(Reserving') \in Nat
        /\ Cardinality(Reserving) <= Cardinality(Busy)
    <2>1. Reserving \subseteq Busy /\ Busy \subseteq Threads /\ Reserving' \subseteq Threads
      BY DEF Reserving, Idle
    <2>2. IsFiniteSet(Reserving) /\ IsFiniteSet(Busy) /\ IsFiniteSet(Reserving')
      BY <2>1, FS_Subset, AskAssumption
    <2>3. QED
      BY <2>1, <2>2, FS_Subset, FS_CardinalityType
  <1>2. added \in Nat /\ MaxItems \in Nat /\ added + Cardinality(Reserving) <= MaxItems
    BY AskAssumption DEF AskTypeOK, ThreadShape
  <1>3. ASSUME Reserving' \subseteq Reserving, added' = added
        PROVE  added' + Cardinality(Reserving') <= MaxItems
    BY <1>1, <1>2, <1>3, FS_Subset
  <1>4. ASSUME NEW t \in Threads, NEW q \in Questions, AskQuestion(t, q) \/ ConfirmPlan(t, q)
        PROVE  added' + Cardinality(Reserving') <= MaxItems
    <2>1. CASE UNCHANGED thread
      BY <1>3, <1>4, <2>1 DEF AskQuestion, ConfirmPlan, itemVars, Reserving
    <2>2. CASE Room /\ ~UNCHANGED thread
      <3>1. /\ Reserving' \subseteq Reserving \union {t}
            /\ added + Cardinality(Busy) < MaxItems /\ added' = added
        BY <1>4, <2>2 DEF AskQuestion, ConfirmPlan, itemVars, Reserving, Room, AskTypeOK
      <3>2. /\ IsFiniteSet(Reserving \union {t})
            /\ Cardinality(Reserving \union {t}) <= Cardinality(Reserving) + 1
            /\ Cardinality(Reserving \union {t}) \in Nat
        <4>1. IsFiniteSet(Reserving)
          BY <1>1
        <4>2. /\ IsFiniteSet(Reserving \union {t})
              /\ \/ Cardinality(Reserving \union {t}) = Cardinality(Reserving)
                 \/ Cardinality(Reserving \union {t}) = Cardinality(Reserving) + 1
          BY <4>1, FS_AddElement, Zenon
        <4>3. QED
          BY <1>1, <4>2
      <3>3. Cardinality(Reserving') <= Cardinality(Reserving \union {t})
        BY <3>1, <3>2, FS_Subset
      <3>4. QED
        BY <1>1, <1>2, <3>1, <3>2, <3>3
    <2>3. QED
      BY <1>4, <2>1, <2>2 DEF AskQuestion, ConfirmPlan
  <1>5. ASSUME NEW t \in Threads, AddItem(t) PROVE added' + Cardinality(Reserving') <= MaxItems
    <2>1. t \in Reserving /\ Reserving' = Reserving \ {t} /\ added' = added + 1
      BY <1>5 DEF AddItem, Step, Reserving, AskTypeOK
    <2>2. Cardinality(Reserving \ {t}) = Cardinality(Reserving) - 1
      BY <1>1, <2>1, FS_RemoveElement
    <2>3. QED
      BY <1>1, <1>2, <2>1, <2>2
  <1>6. ASSUME NEW t \in Threads, UNCHANGED added,
               \/ Prepared(t) /\ thread' = [thread EXCEPT ![t].step = "add"]
               \/ FindSession(t) /\ thread' = [thread EXCEPT ![t].step = "spawn"]
               \/ thread' = [thread EXCEPT ![t] = Idle]
        PROVE  added' + Cardinality(Reserving') <= MaxItems
    <2>1. Reserving' \subseteq Reserving
      BY <1>6 DEF Reserving, AskTypeOK, Prepared, FindSession, Idle
    <2>2. QED
      BY <1>3, <1>6, <2>1
  <1>7. CASE thread' = [t \in Threads |-> Idle] /\ UNCHANGED added
    BY <1>3, <1>7 DEF Reserving, Idle
  <1>8. CASE UNCHANGED <<thread, added>>
    BY <1>3, <1>8 DEF Reserving
  <1>9. QED
    BY <1>4, <1>5, <1>6, <1>7, <1>8, ThreadsEffect

(* Adding an item: it is the next one, and its question's request added it. *)
LEMMA AddItemEffect ==
    ASSUME AskTypeOK, ThreadShape, NEW t \in Threads, AddItem(t)
    PROVE  /\ added + 1 \in Item /\ added' = added + 1
           /\ item' = [item EXCEPT ![added + 1] = "queued"]
           /\ work'[added + 1] = [kind |-> thread[t].kind, question |-> thread[t].question,
                                  key |-> KeyOf(thread[t].kind)]
           /\ \A i \in Item \ {added + 1} : work'[i] = work[i]
           /\ work' \in [Item -> Work]
           /\ thread[t].kind \in Kind /\ thread[t].question \in Questions
  <1>1. t \in Reserving
    BY DEF AddItem, Reserving
  <1>2. IsFiniteSet(Reserving) /\ Cardinality(Reserving) \in Nat /\ Cardinality(Reserving) > 0
    <2>1. IsFiniteSet(Reserving)
      BY FS_Subset, AskAssumption DEF Reserving
    <2>2. QED
      BY <1>1, <2>1, FS_EmptySet, FS_CardinalityType
  <1>3. added \in Nat /\ MaxItems \in Nat /\ added + Cardinality(Reserving) <= MaxItems
    BY AskAssumption DEF AskTypeOK, ThreadShape
  <1>4. added + 1 \in Item
    BY <1>2, <1>3 DEF Item
  <1>5. thread[t].kind \in Kind /\ thread[t].question \in Questions
    BY DEF AddItem, ThreadShape, AskTypeOK
  <1>6. work \in [Item -> Work]
    BY DEF AskTypeOK
  <1>7. KeyOf(thread[t].kind) \in SessionKeys
    BY <1>5, KeyOfType
  <1>8. QED
    BY <1>4, <1>5, <1>6, <1>7 DEF AddItem, Work

(* The variables of Ask keep their types. *)
LEMMA AskTypeStep ==
    ASSUME AskTypeOK, TypeOK', ItemShape, ThreadShape, SessionShape, SettleShape,
           [AskNext]_allVars
    PROVE  AskTypeOK'
  <1> USE DEF AskTypeOK
  <1>1. CASE UNCHANGED askVars
    BY <1>1 DEF askVars, itemVars
  <1>2. CASE AskReady \/ AskSweep
    <2>1. CASE AskReady
      BY <2>1 DEF AskReady, NotSettling, QuestionStatus, itemVars
    <2>2. QED
      BY <1>1, <1>2, <2>1 DEF AskSweep
  <1>3. CASE Settling
    <2>1. item' \in [Item -> {"none", "queued", "running", "completed", "failed",
                             "cancelled", "interrupted"}]
      BY <1>3, SettlingEffect
    <2>2. question' \in [Questions -> QuestionStatus]
      BY <1>3, SettlingEffect DEF FailQuestion, QuestionStatus, Settled
    <2>3. settling' \in [listed : BOOLEAN, cut : SUBSET Item, waiting : SUBSET Item,
                         step : {"items", "get", "put"},
                         question : Questions \union {None}, read : QuestionStatus]
      <3>1. ASSUME NEW i \in Item, NEW r, SettleItem(i, r) PROVE <2>3
        <4>1. work[i].question \in Questions \union {None}
          BY DEF Work
        <4>2. QED
          BY <3>1, <4>1 DEF SettleItem
      <3>2. CASE ListOpen \/ \E j \in Job : ListItems(j)
        <4>1. \E is, ns \in SUBSET Item :
                 \/ settling' = [settling EXCEPT !.listed = TRUE, !.waiting = is]
                 \/ settling' = [settling EXCEPT !.listed = TRUE, !.cut = ns, !.waiting = is]
          BY <3>2 DEF ListOpen, ListItems, OpenItems, CutItems, QueuedFor
        <4>2. QED
          BY <4>1
      <3>3. CASE ReadQuestion
        <4>1. settling.question \in Questions
          <5>1. settling.step # "items"
            BY <3>3 DEF ReadQuestion
          <5>2. PICK i \in 1..added : work[i].question = settling.question
            BY <5>1 DEF SettleShape
          <5>3. QED
            BY <5>2 DEF ItemShape
        <4>2. QED
          BY <3>3, <4>1 DEF ReadQuestion
      <3>4. CASE FailQuestion
        BY <3>4 DEF FailQuestion, QuestionStatus
      <3>5. QED
        BY <1>3, <3>1, <3>2, <3>3, <3>4 DEF Settling, Interrupt, FailCut, CancelWaiting
    <2>4. QED
      BY <1>3, <2>1, <2>2, <2>3, SettlingEffect
  <1>4. CASE AskCrash
    BY <1>4 DEF AskCrash, NotSettling, QuestionStatus, Idle, Kind, itemVars
  <1>5. ASSUME NEW t \in Threads, NEW q \in Questions, AskQuestion(t, q) PROVE AskTypeOK'
    <2>1. question' \in [Questions -> QuestionStatus]
      BY <1>5 DEF AskQuestion, QuestionStatus
    <2>2. thread' \in [Threads -> [step : {"idle", "prepare", "add", "check", "spawn"},
                                  question : Questions \union {None}, kind : Kind]]
      BY <1>5 DEF AskQuestion, Kind
    <2>3. QED
      BY <1>5, <2>1, <2>2 DEF AskQuestion, itemVars
  <1>6. ASSUME NEW t \in Threads, NEW q \in Questions, ConfirmPlan(t, q) PROVE AskTypeOK'
    BY <1>6 DEF ConfirmPlan, Kind, itemVars
  <1>7. ASSUME NEW t \in Threads, PrepareRaises(t) \/ FindSession(t) \/ SpawnSession(t)
        PROVE  AskTypeOK'
    <2>1. CASE PrepareRaises(t)
      BY <2>1 DEF PrepareRaises, Done, Idle, Kind, itemVars
    <2>2. CASE FindSession(t)
      BY <2>2, SMTT(30) DEF FindSession, Done, Step, Idle, Kind, itemVars
    <2>3. CASE SpawnSession(t)
      BY <2>3 DEF SpawnSession, Done, Idle, Kind, itemVars
    <2>4. QED
      BY <1>7, <2>1, <2>2, <2>3
  <1>8. ASSUME NEW t \in Threads, Prepared(t) \/ ReuseAnswer(t) PROVE AskTypeOK'
    <2> DEFINE Threaded == [Threads -> [step : {"idle", "prepare", "add", "check", "spawn"},
                                        question : Questions \union {None}, kind : Kind]]
    <2>1. CASE Prepared(t)
      <3>1. question' \in [Questions -> QuestionStatus]
        BY <2>1 DEF Prepared, QuestionStatus
      <3>2. thread' \in Threaded
        BY <2>1 DEF Prepared, Step
      <3>3. QED
        BY <2>1, <3>1, <3>2 DEF Prepared, itemVars
    <2>2. CASE ReuseAnswer(t)
      <3>1. question' \in [Questions -> QuestionStatus]
        BY <2>2 DEF ReuseAnswer, QuestionStatus, Settled
      <3>2. thread' \in Threaded
        BY <2>2 DEF ReuseAnswer, Done, Idle, Kind
      <3>3. QED
        BY <2>2, <3>1, <3>2 DEF ReuseAnswer, itemVars
    <2>3. QED
      BY <1>8, <2>1, <2>2
  <1>9. ASSUME NEW t \in Threads, AddItem(t) PROVE AskTypeOK'
    <2>1. /\ added + 1 \in Item /\ added' = added + 1
          /\ item' = [item EXCEPT ![added + 1] = "queued"] /\ work' \in [Item -> Work]
      BY <1>9, AddItemEffect
    <2>2. added' \in 0..MaxItems
      BY <2>1, AskAssumption DEF Item
    <2>3. QED
      BY <1>9, <2>1, <2>2 DEF AddItem, Step
  <1>10. ASSUME NEW j \in Job, Release(j) PROVE AskTypeOK'
    BY <1>10 DEF Release, itemVars
  <1>11. ASSUME NEW j \in Job, LoseSession(j) PROVE AskTypeOK'
    BY <1>11, AskAssumption DEF LoseSession, itemVars
  <1>12. ASSUME NEW j \in Job, SettleSession(j) PROVE AskTypeOK'
    BY <1>12 DEF SettleSession, NotSettling, QuestionStatus, itemVars
  <1>13. ASSUME NEW j \in Job, SeeRelease(j) \/ Yield(j) \/ IdleOut(j) PROVE AskTypeOK'
    BY <1>1, <1>13 DEF SeeRelease, Yield, IdleOut, Returns
  <1>14. ASSUME NEW j \in Job, PickItem(j) \/ SeeNothing(j) \/ Sleep(j) PROVE AskTypeOK'
    BY <1>14 DEF PickItem, SeeNothing, Sleep, Goes, itemVars
  <1>15. ASSUME NEW j \in Job, TakeItem(j) PROVE AskTypeOK'
    BY <1>15, ZenonT(40) DEF TakeItem, Goes
  <1>16. ASSUME NEW j \in Job, SaveDraft(j) \/ SaveAnswer(j) \/ FailItsQuestion(j)
         PROVE  AskTypeOK'
    <2>1. /\ \E st \in QuestionStatus :
                question' = [question EXCEPT ![work[sess[j].item].question] = st]
          /\ \E pc \in {"loop", "saved"} : sess' = [sess EXCEPT ![j].pc = pc]
          /\ UNCHANGED <<itemVars, thread, settling, released, losses>>
      BY <1>16 DEF SaveDraft, SaveAnswer, FailItsQuestion, Goes, QuestionStatus, Settled
    <2>2. question' \in [Questions -> QuestionStatus]
      BY <2>1
    <2>3. sess' \in [Job -> [pc : {"loop", "empty", "picked", "serving", "saved", "failing"},
                             item : Item \union {0}]]
      BY <2>1
    <2>4. QED
      BY <2>1, <2>2, <2>3 DEF itemVars
  <1>17. ASSUME NEW j \in Job, CompleteItem(j) \/ FailItem(j) PROVE AskTypeOK'
    <2>1. /\ \E st \in {"completed", "failed"} :
                item' = [item EXCEPT ![sess[j].item] = st]
          /\ \E pc \in {"loop", "failing"} : sess' = [sess EXCEPT ![j].pc = pc]
          /\ UNCHANGED <<added, work, by, question, thread, settling, released, losses>>
      BY <1>17 DEF CompleteItem, FailItem, Goes
    <2>2. item' \in [Item -> {"none", "queued", "running", "completed", "failed",
                             "cancelled", "interrupted"}]
      BY <2>1
    <2>3. sess' \in [Job -> [pc : {"loop", "empty", "picked", "serving", "saved", "failing"},
                             item : Item \union {0}]]
      BY <2>1
    <2>4. QED
      BY <2>1, <2>2, <2>3
  <1> HIDE DEF AskTypeOK
  <1>18. ASSUME NEW t \in Threads, ThreadStep(t) PROVE AskTypeOK'
    BY <1>7, <1>8, <1>9, <1>18 DEF ThreadStep
  <1>19. ASSUME NEW j \in Job, SessionStep(j) PROVE AskTypeOK'
    BY <1>13, <1>14, <1>15, <1>16, <1>17, <1>19 DEF SessionStep
  <1>20. ASSUME UNCHANGED allVars \/ AskBeginClose \/ CloseStep \/ AddSingle
         PROVE  UNCHANGED askVars
    BY <1>20 DEF allVars, AskBeginClose, CloseStep, AddSingle
  <1>21. ASSUME NEW j \in Job, StopSession(j) \/ AskWorker(j) \/ LaneStep(j)
         PROVE  UNCHANGED askVars
    BY <1>21 DEF StopSession, AskWorker, LaneStep
  <1>22. CASE Usual
    BY <1>1, <1>4, <1>5, <1>6, <1>10, <1>11, <1>12, <1>18, <1>19, <1>20, <1>21, <1>22
    DEF Usual, AskStart
  <1>23. QED
    BY <1>2, <1>3, <1>22, StepKinds

(* What happens to the items that are there: none is added or taken out of  *)
(* the table but by AddItem, and none returns to the queue.                 *)
LEMMA ItemsEffect ==
    ASSUME AskTypeOK, ItemShape, SessionShape, SettleShape, [AskNext]_allVars,
           \A t \in Threads : ~AddItem(t)
    PROVE  /\ UNCHANGED <<added, work>>
           /\ item' \in [Item -> {"none", "queued", "running", "completed", "failed",
                                  "cancelled", "interrupted"}]
           /\ \A i \in Item : /\ item'[i] = "none" <=> item[i] = "none"
                              /\ item'[i] = "queued" => item[i] = "queued"
  <1> USE DEF AskTypeOK
  <1>1. CASE UNCHANGED itemVars
    BY <1>1 DEF itemVars
  <1>2. CASE AskReady \/ AskSweep
    BY <1>1, <1>2, LaneOnlyEffect
  <1>3. CASE Settling
    <2>1. ASSUME NEW i \in settling.cut \union settling.waiting PROVE item[i] # "none"
      <3>1. i \in 1..added
        BY <2>1 DEF SettleShape
      <3>2. QED
        BY <3>1, AskAssumption DEF ItemShape, Item
    <2>2. ASSUME NEW i \in Item, ~UNCHANGED item,
                 Interrupt(i) \/ \E j \in Job : FailCut(j, i) \/ CancelWaiting(j, i)
          PROVE  item[i] # "none"
      BY <2>1, <2>2 DEF Interrupt, FailCut, CancelWaiting, FirstOf
    <2>3. QED
      BY <1>3, <2>2, SettlingEffect
  <1>4. ASSUME NEW j \in Job, TakeItem(j) \/ CompleteItem(j) \/ FailItem(j)
        PROVE  /\ UNCHANGED <<added, work>>
               /\ item' \in [Item -> {"none", "queued", "running", "completed", "failed",
                                      "cancelled", "interrupted"}]
               /\ \A i \in Item : /\ item'[i] = "none" <=> item[i] = "none"
                                  /\ item'[i] = "queued" => item[i] = "queued"
    <2>1. sess[j].item \in 1..added
      BY <1>4 DEF TakeItem, CompleteItem, FailItem, At, SessionShape, InPlace
    <2>2. sess[j].item \in Item /\ item[sess[j].item] # "none"
      BY <2>1, AskAssumption DEF ItemShape, Item
    <2>3. QED
      BY <1>4, <2>2 DEF TakeItem, CompleteItem, FailItem, Goes
  <1>5. QED
    BY <1>1, <1>2, <1>3, <1>4, StepKinds
    DEF Usual, AskStart, SettleSession, AskCrash, AskBeginClose, CloseStep, AddSingle,
        AskQuestion, ConfirmPlan, ThreadStep, PrepareRaises, Prepared, ReuseAnswer,
        FindSession, SpawnSession, Release, StopSession, LoseSession, LaneStep, AskWorker,
        SessionStep, SeeRelease, Returns, PickItem, SeeNothing, Goes, Yield, IdleOut,
        Sleep, SaveDraft, SaveAnswer, FailItsQuestion, itemVars, askVars, allVars

(* Items stay numbered as they were added, and know their question. *)
LEMMA ItemShapeStep ==
    ASSUME AskTypeOK, ItemShape, ThreadShape, SessionShape, SettleShape, [AskNext]_allVars
    PROVE  ItemShape'
  <1>1. CASE \A t \in Threads : ~AddItem(t)
    BY <1>1, ItemsEffect DEF ItemShape
  <1>2. ASSUME NEW t \in Threads, AddItem(t) PROVE ItemShape'
    <2>1. /\ added + 1 \in Item /\ added' = added + 1 /\ added \in Nat /\ MaxItems \in Nat
          /\ item' = [item EXCEPT ![added + 1] = "queued"]
          /\ work'[added + 1] = [kind |-> thread[t].kind, question |-> thread[t].question,
                                  key |-> KeyOf(thread[t].kind)]
          /\ \A i \in Item \ {added + 1} : work'[i] = work[i]
          /\ thread[t].kind \in Kind /\ thread[t].question \in Questions
      BY <1>2, AddItemEffect, AskAssumption DEF AskTypeOK
    <2>2. \A i \in Item : item'[i] = "none" <=> i > added'
      BY <2>1 DEF ItemShape, AskTypeOK, Item
    <2>3. \A i \in 1..added' : work'[i].question \in Questions
                               /\ work'[i].key = KeyOf(work'[i].kind)
      BY <2>1 DEF ItemShape, Item
    <2>4. QED
      BY <2>2, <2>3 DEF ItemShape, KeyOf
  <1>3. QED
    BY <1>1, <1>2

(* Requests keep their question, and only a confirmation prepares a case. *)
LEMMA ThreadShapeStep ==
    ASSUME AskTypeOK, ThreadShape, [AskNext]_allVars
    PROVE  ThreadShape'
  <1> USE DEF AskTypeOK
  <1>1. added' + Cardinality(Reserving') <= MaxItems
    BY RoomStep
  <1>2. /\ \A t \in Threads : thread'[t].step # "idle" => thread'[t].question \in Questions
        /\ \A t \in Threads : thread'[t].step = "prepare" => thread'[t].kind = "answer"
    <2>1. CASE UNCHANGED thread \/ thread' = [t \in Threads |-> Idle]
      BY <2>1 DEF ThreadShape, Idle
    <2>2. ASSUME NEW t \in Threads, NEW q \in Questions, AskQuestion(t, q) \/ ConfirmPlan(t, q)
          PROVE  <1>2
      <3>1. \/ UNCHANGED thread
            \/ \E r \in [step : {"add"}, question : Questions, kind : Kind] :
                  thread' = [thread EXCEPT ![t] = r]
            \/ thread' = [thread EXCEPT ![t] =
                            [step |-> "prepare", question |-> q, kind |-> "answer"]]
        BY <2>2 DEF AskQuestion, ConfirmPlan, Kind
      <3>2. ASSUME NEW r, thread' = [thread EXCEPT ![t] = r], r.step # "idle",
                   r.question \in Questions, r.step = "prepare" => r.kind = "answer"
            PROVE  <1>2
        BY <3>2 DEF ThreadShape
      <3>3. QED
        BY <2>1, <3>1, <3>2
    <2>3. ASSUME NEW t \in Threads, NEW s \in {"add", "spawn", "check"},
                 thread[t].step # "idle", thread' = [thread EXCEPT ![t].step = s]
          PROVE  <1>2
      BY <2>3 DEF ThreadShape
    <2>4. ASSUME NEW t \in Threads, thread' = [thread EXCEPT ![t] = Idle] PROVE <1>2
      BY <2>4 DEF ThreadShape, Idle
    <2>5. QED
      BY <2>1, <2>2, <2>3, <2>4, ThreadsEffect DEF Prepared, FindSession, AddItem, Step
  <1>3. QED
    BY <1>1, <1>2 DEF ThreadShape

-----------------------------------------------------------------------------
(* Sessions. *)

(* Workers only move forward: none, waiting, holding, exited. *)
LEMMA ProcEffect ==
    ASSUME TypeOK, LaneInv, [AskNext]_allVars, NEW k \in Job
    PROVE  /\ proc'[k] \in {"none", "waiting"} => proc[k] \in {"none", "waiting"}
           /\ proc'[k] = "holding" => proc[k] \in {"waiting", "holding"}
  <1> DEFINE Forward ==
        /\ proc'[k] \in {"none", "waiting"} => proc[k] \in {"none", "waiting"}
        /\ proc'[k] = "holding" => proc[k] \in {"waiting", "holding"}
  <1>1. CASE UNCHANGED proc
    BY <1>1
  <1>2. ASSUME NEW j \in Job, Launch(j) PROVE Forward
    <2>1. proc[j] = "none"
      BY <1>2, JobsAssumption DEF Launch, Picks, FirstQueued, LaneInv,
          QueuedNotLaunched, Job
    <2>2. QED
      BY <1>2, <2>1 DEF Launch, TypeOK
  <1>3. ASSUME NEW j \in Job, AcquireGpu(j) PROVE Forward
    BY <1>3 DEF AcquireGpu, TypeOK
  <1>4. ASSUME NEW j \in Job, NEW code \in {"ok", "err"}, proc' = [proc EXCEPT ![j] = code]
        PROVE  Forward
    BY <1>4 DEF TypeOK
  <1>5. ASSUME NEW j \in Job, AskWorker(j) PROVE Forward
    BY <1>3, <1>4, <1>5 DEF AskWorker, WorkerDies, WorkerExits
  <1>6. ASSUME NEW j \in Job, SessionStep(j) PROVE Forward
    BY <1>1, <1>4, <1>6
    DEF SessionStep, SeeRelease, Returns, PickItem, SeeNothing, Goes, Yield, IdleOut, Sleep,
        TakeItem, SaveDraft, SaveAnswer, CompleteItem, FailItem, FailItsQuestion, vars
  <1>7. ASSUME NEW j \in Job, LoseSession(j) PROVE Forward
    BY <1>4, <1>7 DEF LoseSession
  <1>8. ASSUME NEW j \in Job, LaneStep(j) PROVE Forward
    BY <1>1, <1>2, <1>8 DEF LaneStep, Reap, Settle, MarkRunning, LaunchFail, workerVars
  <1>9. ASSUME NEW t \in Threads, ThreadStep(t) PROVE UNCHANGED proc
    BY <1>9
    DEF ThreadStep, PrepareRaises, Prepared, ReuseAnswer, AddItem, FindSession,
        SpawnSession, workerVars, vars
  <1>10. ASSUME AskStart \/ AskCrash \/ AskBeginClose \/ CloseStep \/ AddSingle \/ PickNothing
         PROVE  UNCHANGED proc
    BY <1>10
    DEF AskStart, Start, AskCrash, Crash, AskBeginClose, BeginClose, CloseStep, CloseStop,
        FinishClose, AddSingle, EnqueueSingle, PickNothing, workerVars
  <1>11. ASSUME NEW t \in Threads, NEW q \in Questions, AskQuestion(t, q) \/ ConfirmPlan(t, q)
         PROVE  UNCHANGED proc
    BY <1>11 DEF AskQuestion, ConfirmPlan, vars
  <1>12. ASSUME NEW j \in Job, Release(j) \/ StopSession(j) \/ SettleSession(j)
         PROVE  UNCHANGED proc
    BY <1>12 DEF Release, StopSession, Stop, SettleSession, workerVars, vars
  <1>13. UNCHANGED allVars => UNCHANGED proc
    BY DEF allVars, vars
  <1> HIDE DEF Forward
  <1>14. Settling \/ AskReady \/ AskSweep => UNCHANGED proc
    BY SettlingEffect, LaneOnlyEffect DEF vars
  <1>15. QED
    BY <1>1, <1>5, <1>6, <1>7, <1>8, <1>9, <1>10, <1>11, <1>12, <1>13, <1>14, StepKinds
    DEF Usual, Forward

(* The place of a session in its loop, and who took an item, only change by *)
(* what the worker that holds gpu.lock does.                                *)
LEMMA SessionsEffect ==
    ASSUME [AskNext]_allVars
    PROVE  \/ UNCHANGED <<sess, by>>
           \/ \E j \in Job :
                 /\ proc[j] = "holding" /\ UNCHANGED <<vars, thread, added, work>>
                 /\ \/ PickItem(j) \/ TakeItem(j) \/ CompleteItem(j) \/ FailItem(j)
                    \/ SaveDraft(j) \/ SaveAnswer(j) \/ FailItsQuestion(j)
                    \/ SeeNothing(j) \/ Sleep(j)
  <1>1. ASSUME NEW j \in Job, SessionStep(j)
        PROVE  \/ UNCHANGED <<sess, by>>
               \/ /\ proc[j] = "holding" /\ UNCHANGED <<vars, thread, added, work>>
                  /\ \/ PickItem(j) \/ TakeItem(j) \/ CompleteItem(j) \/ FailItem(j)
                     \/ SaveDraft(j) \/ SaveAnswer(j) \/ FailItsQuestion(j)
                     \/ SeeNothing(j) \/ Sleep(j)
    BY <1>1
    DEF SessionStep, At, SeeRelease, Returns, PickItem, SeeNothing, Goes, Yield,
        IdleOut, Sleep, TakeItem, Serving, SaveDraft, SaveAnswer, CompleteItem, FailItem,
        FailItsQuestion, askVars, itemVars
  <1>2. ASSUME NEW t \in Threads, ThreadStep(t) PROVE UNCHANGED <<sess, by>>
    BY <1>2
    DEF ThreadStep, PrepareRaises, Prepared, ReuseAnswer, AddItem, FindSession,
        SpawnSession, itemVars
  <1>3. Settling \/ AskReady \/ AskSweep => UNCHANGED <<sess, by>>
    BY SettlingEffect, LaneOnlyEffect
  <1>4. QED
    BY <1>1, <1>2, <1>3, StepKinds
    DEF Usual, AskStart, AskCrash, AskBeginClose, CloseStep, AddSingle, AskQuestion,
        ConfirmPlan, Release, StopSession, LoseSession, LaneStep, SettleSession,
        AskWorker, askVars, itemVars, allVars

(* The items a session may find are among those added. *)
LEMMA QueuedAreAdded ==
    ASSUME AskTypeOK, ItemShape, NEW i \in Item, item[i] # "none"
    PROVE  i \in 1..added
  BY AskAssumption DEF ItemShape, AskTypeOK, Item

(* Nothing returns to the queue but new items, and an item keeps its work.  *)
LEMMA QueueGrows ==
    ASSUME AskTypeOK, ItemShape, ThreadShape, SessionShape, SettleShape, [AskNext]_allVars
    PROVE  /\ added \in Nat /\ added' \in Nat /\ added <= added'
           /\ \A i \in 1..added : i \in Item /\ work'[i] = work[i]
           /\ \A i \in 1..added' : i \in Item
           /\ \A i \in Item : item'[i] = "queued" => item[i] = "queued" \/ i = added + 1
  <1>1. added \in Nat /\ MaxItems \in Nat /\ added <= MaxItems
    BY AskAssumption DEF AskTypeOK
  <1>2. \A i \in 1..added : i \in Item
    BY <1>1 DEF Item
  <1>3. CASE \A t \in Threads : ~AddItem(t)
    BY <1>1, <1>2, <1>3, ItemsEffect
  <1>4. ASSUME NEW t \in Threads, AddItem(t)
        PROVE  /\ added' = added + 1 /\ added + 1 \in Item
               /\ \A i \in Item \ {added + 1} : work'[i] = work[i]
               /\ \A i \in Item : item'[i] = "queued" => item[i] = "queued" \/ i = added + 1
    <2>1. /\ added' = added + 1 /\ added + 1 \in Item
          /\ \A i \in Item \ {added + 1} : work'[i] = work[i]
          /\ item' = [item EXCEPT ![added + 1] = "queued"]
      BY <1>4, AddItemEffect
    <2>2. QED
      BY <2>1 DEF AskTypeOK
  <1>5. ASSUME NEW t \in Threads, AddItem(t)
        PROVE  /\ added \in Nat /\ added' \in Nat /\ added <= added'
               /\ \A i \in 1..added : i \in Item /\ work'[i] = work[i]
               /\ \A i \in 1..added' : i \in Item
               /\ \A i \in Item : item'[i] = "queued" => item[i] = "queued" \/ i = added + 1
    <2>1. \A i \in 1..added : i # added + 1
      BY <1>1
    <2>2. \A i \in 1..(added + 1) : i \in Item
      BY <1>1, <1>4, <1>5 DEF Item
    <2>3. QED
      BY <1>1, <1>2, <1>4, <1>5, <2>1, <2>2
  <1>6. QED
    BY <1>3, <1>5

(* Sessions keep serving what they picked, first come, first served.        *)
LEMMA SessionShapeStep ==
    ASSUME AskTypeOK, LaneInv, ItemShape, ThreadShape, SessionShape, SettleShape,
           [AskNext]_allVars
    PROVE  SessionShape'
  <1> SUFFICES ASSUME NEW j \in Job PROVE InPlace(j)'
    BY DEF SessionShape
  <1>1. InPlace(j)
    BY DEF SessionShape
  <1>2. /\ added \in Nat /\ added' \in Nat /\ added <= added'
        /\ \A i \in 1..added : i \in Item /\ work'[i] = work[i]
        /\ \A i \in 1..added' : i \in Item
        /\ \A i \in Item : item'[i] = "queued" => item[i] = "queued" \/ i = added + 1
    BY QueueGrows
  <1>3. /\ proc'[j] \in {"none", "waiting"} => proc[j] \in {"none", "waiting"}
        /\ proc'[j] = "holding" => proc[j] \in {"waiting", "holding"}
    BY ProcEffect DEF LaneInv
  <1>4. \A k \in Item : item[k] = "queued" => k \in 1..added
    BY QueuedAreAdded
  <1>5. ASSUME sess'[j] = sess[j], proc'[j] = "holding" => by' = by
        PROVE  InPlace(j)'
    <2>1. CASE sess[j].pc \in {"loop", "empty"}
      BY <1>1, <1>3, <1>5, <2>1 DEF InPlace, AtLoop
    <2>2. CASE sess[j].pc \notin {"loop", "empty"}
      <3>1. /\ sess[j].item \in 1..added /\ sess[j].item \in Item
            /\ proc[j] \notin {"none", "waiting"}
        BY <1>1, <1>2, <2>2 DEF InPlace, AtLoop
      <3>2. /\ sess[j].item \in 1..added'
            /\ item'[sess[j].item] = "queued" => item[sess[j].item] = "queued"
            /\ work'[sess[j].item] = work[sess[j].item]
        BY <1>2, <3>1
      <3>3. ASSUME proc[j] = "holding", sess[j].pc = "picked", item[sess[j].item] = "queued",
                   NEW k \in Item, item'[k] = "queued", work'[k].key = work[sess[j].item].key
            PROVE  sess[j].item <= k
        <4>1. CASE k = added + 1
          BY <1>2, <3>1, <4>1
        <4>2. CASE k # added + 1
          <5>1. item[k] = "queued" /\ k \in 1..added
            BY <1>2, <1>4, <3>3, <4>2
          <5>2. work[k].key = work[sess[j].item].key
            BY <1>2, <3>3, <5>1
          <5>3. QED
            BY <1>1, <3>3, <5>1, <5>2 DEF InPlace, QueuedFor
        <4>3. QED
          BY <4>1, <4>2
      <3>4. QED
        BY <1>1, <1>3, <1>5, <3>1, <3>2, <3>3 DEF InPlace, QueuedFor
    <2>3. QED
      BY <2>1, <2>2
  <1>6. ASSUME NEW h \in Job, proc[h] = "holding", UNCHANGED <<vars, thread, added, work>>,
               \/ PickItem(h) \/ TakeItem(h) \/ CompleteItem(h) \/ FailItem(h)
               \/ SaveDraft(h) \/ SaveAnswer(h) \/ FailItsQuestion(h)
               \/ SeeNothing(h) \/ Sleep(h)
        PROVE  InPlace(j)'
    <2>0. /\ proc'[j] = proc[j] /\ proc'[h] = "holding"
          /\ sess \in [Job -> [pc : {"loop", "empty", "picked", "serving", "saved", "failing"},
                                item : Item \union {0}]]
      BY <1>6 DEF vars, AskTypeOK
    <2>1. CASE j # h
      <3>1. proc[j] # "holding"
        BY <1>6, <2>1 DEF LaneInv, OneHolder
      <3>2. sess'[j] = sess[j]
        BY <1>6, <2>0, <2>1
        DEF PickItem, TakeItem, CompleteItem, FailItem, SaveDraft, SaveAnswer,
            FailItsQuestion, SeeNothing, Sleep, Goes
      <3>3. QED
        BY <1>5, <2>0, <3>1, <3>2
    <2>2. CASE j = h /\ PickItem(h)
      <3>1. PICK i \in Item : FirstWaiting(j, i) /\ sess'[j] = [pc |-> "picked", item |-> i]
        BY <2>0, <2>2 DEF PickItem
      <3>2. /\ item[i] = "queued" /\ i \in 1..added /\ UNCHANGED <<item, work, added>>
            /\ \A k \in QueuedFor(work[i].key) : i <= k
        BY <1>4, <2>2, <3>1 DEF FirstWaiting, QueuedFor, PickItem, itemVars
      <3>3. QED
        BY <2>0, <2>2, <3>1, <3>2 DEF InPlace, QueuedFor
    <2>3. CASE j = h /\ TakeItem(h)
      <3>1. sess[j].pc = "picked" /\ sess[j].item \in 1..added /\ sess[j].item \in Item
        BY <1>1, <1>2, <2>3 DEF TakeItem, At, InPlace
      <3>2. /\ sess'[j].pc = "serving" /\ sess'[j].item = sess[j].item
            /\ item'[sess[j].item] = "running" /\ by'[sess[j].item] = j /\ added' = added
        BY <2>0, <2>3, <3>1 DEF TakeItem, Goes, AskTypeOK
      <3>3. QED
        BY <2>0, <2>3, <3>1, <3>2 DEF InPlace
    <2>4. CASE j = h /\ FailItem(h)
      <3>1. sess[j].pc = "serving" /\ sess[j].item \in 1..added /\ sess[j].item \in Item
        BY <1>1, <1>2, <2>4 DEF FailItem, At, InPlace
      <3>2. /\ sess'[j].pc = "failing" /\ sess'[j].item = sess[j].item
            /\ item'[sess[j].item] = "failed" /\ added' = added
        BY <2>0, <2>4, <3>1 DEF FailItem, Goes, AskTypeOK
      <3>3. QED
        BY <2>0, <2>4, <3>1, <3>2 DEF InPlace
    <2>5. CASE j = h /\ (SaveDraft(h) \/ SaveAnswer(h))
      <3>1. sess[j].pc = "serving" /\ sess[j].item \in 1..added /\ sess[j].item \in Item
        BY <1>1, <1>2, <2>5 DEF SaveDraft, SaveAnswer, Serving, At, InPlace
      <3>2. /\ sess'[j].pc = "saved" /\ sess'[j].item = sess[j].item
            /\ UNCHANGED <<item, by, added>>
        BY <2>0, <2>5, <3>1 DEF SaveDraft, SaveAnswer, Goes, itemVars
      <3>3. QED
        BY <1>1, <2>0, <2>5, <3>1, <3>2 DEF InPlace
    <2>6. CASE j = h /\ (CompleteItem(h) \/ FailItsQuestion(h) \/ SeeNothing(h) \/ Sleep(h))
      <3>1. sess'[j].pc \in {"loop", "empty"}
        BY <2>0, <2>6 DEF CompleteItem, FailItsQuestion, SeeNothing, Sleep, Goes
      <3>2. QED
        BY <1>6, <2>0, <2>6, <3>1 DEF InPlace
    <2>7. QED
      BY <1>6, <2>1, <2>2, <2>3, <2>4, <2>5, <2>6
  <1>7. QED
    BY <1>5, <1>6, SessionsEffect

-----------------------------------------------------------------------------
(* Questions. *)

(* A session that writes a question's result holds an item of it that has   *)
(* left the queue.                                                          *)
LEMMA WriterHasItem ==
    ASSUME AskTypeOK, ItemShape, SessionShape, NEW j \in Job,
           SaveDraft(j) \/ SaveAnswer(j) \/ FailItsQuestion(j)
    PROVE  /\ sess[j].item \in 1..added /\ item[sess[j].item] # "queued"
           /\ UNCHANGED <<vars, itemVars, thread>>
           /\ \E s \in {"plan_ready", "answered", "failed"} :
                 question' = [question EXCEPT ![work[sess[j].item].question] = s]
  BY DEF SaveDraft, SaveAnswer, FailItsQuestion, Serving, At, Goes, SessionShape, InPlace

(* What can change the status of a question. *)
LEMMA QuestionsEffect ==
    ASSUME AskTypeOK, ItemShape, ThreadShape, SessionShape, QuestionShape, SettleShape,
           [AskNext]_allVars, NEW q \in Questions
    PROVE  \/ question'[q] = question[q]
           \/ /\ question[q] = "none" /\ question'[q] # "none"
              /\ \E t \in Threads : AskQuestion(t, q)
           \/ Begun(q) /\ question'[q] \in {"answering", "answered"}
           \/ /\ question'[q] \in {"plan_ready", "answered", "failed"}
              /\ \E i \in 1..added : work[i].question = q
              /\ \A i \in 1..added : DraftOf(i, q) => item'[i] # "queued"
              /\ \/ FailQuestion /\ settling.question = q
                 \/ \E j \in Job : /\ SaveDraft(j) \/ SaveAnswer(j) \/ FailItsQuestion(j)
                                   /\ work[sess[j].item].question = q
  <1> DEFINE Changed ==
           \/ question'[q] = question[q]
           \/ /\ question[q] = "none" /\ question'[q] # "none"
              /\ \E t \in Threads : AskQuestion(t, q)
           \/ Begun(q) /\ question'[q] \in {"answering", "answered"}
           \/ /\ question'[q] \in {"plan_ready", "answered", "failed"}
              /\ \E i \in 1..added : work[i].question = q
              /\ \A i \in 1..added : DraftOf(i, q) => item'[i] # "queued"
              /\ \/ FailQuestion /\ settling.question = q
                 \/ \E j \in Job : /\ SaveDraft(j) \/ SaveAnswer(j) \/ FailItsQuestion(j)
                                   /\ work[sess[j].item].question = q
  <1>0. question \in [Questions -> QuestionStatus]
    BY DEF AskTypeOK
  <1>1. CASE UNCHANGED question
    BY <1>1
  <1>2. ASSUME NEW t \in Threads, NEW r \in Questions, AskQuestion(t, r) PROVE Changed
    BY <1>0, <1>2 DEF AskQuestion
  <1>3. ASSUME NEW t \in Threads, Prepared(t) \/ ReuseAnswer(t) PROVE Changed
    <2>1. thread[t].question \in Questions /\ Begun(thread[t].question)
      BY <1>3 DEF Prepared, ReuseAnswer, ThreadShape, QuestionShape
    <2>2. QED
      BY <1>0, <1>3, <2>1 DEF Prepared, ReuseAnswer
  <1>4. Settling => UNCHANGED question \/ FailQuestion
    BY SettlingEffect
  <1>5. AskReady \/ AskSweep => UNCHANGED question
    BY LaneOnlyEffect
  <1>6. CASE FailQuestion
    <2>1. settling.step = "put" /\ UNCHANGED item
      BY <1>6 DEF FailQuestion, itemVars
    <2>2. CASE settling.question = q /\ question'[q] = "failed"
      <3>1. /\ \E i \in 1..added : work[i].question = q
            /\ \A i \in 1..added : DraftOf(i, q) => item'[i] # "queued"
        BY <2>1, <2>2 DEF SettleShape
      <3>2. QED
        BY <1>6, <2>2, <3>1
    <2>3. CASE ~(settling.question = q /\ question'[q] = "failed")
      BY <1>0, <1>6, <2>3 DEF FailQuestion
    <2>4. QED
      BY <2>2, <2>3
  <1>7. ASSUME NEW j \in Job, SaveDraft(j) \/ SaveAnswer(j) \/ FailItsQuestion(j)
        PROVE  Changed
    <2>1. /\ sess[j].item \in 1..added /\ item'[sess[j].item] # "queued"
          /\ \E s \in {"plan_ready", "answered", "failed"} :
                question' = [question EXCEPT ![work[sess[j].item].question] = s]
      BY <1>7, WriterHasItem DEF itemVars
    <2>2. CASE work[sess[j].item].question = q
      <3>1. question'[q] \in {"plan_ready", "answered", "failed"}
        BY <1>0, <2>1, <2>2
      <3>2. ASSUME NEW i \in 1..added, DraftOf(i, q), item'[i] = "queued" PROVE FALSE
        <4>1. item[i] = "queued" /\ question[q] = "drafting_plan"
          BY <1>7, <3>2, WriterHasItem DEF itemVars, QuestionShape
        <4>2. work[sess[j].item].kind \in {"plan_draft", "answer"}
          BY <2>1, QueueGrows DEF AskTypeOK, Work, Kind
        <4>3. DraftOf(sess[j].item, q)
          BY <2>1, <2>2, <4>1, <4>2 DEF DraftOf, QuestionShape, Begun
        <4>4. QED
          BY <2>1, <3>2, <4>3 DEF QuestionShape
      <3>3. QED
        BY <1>7, <2>1, <2>2, <3>1, <3>2
    <2>3. CASE work[sess[j].item].question # q
      <3>1. question'[q] = question[q]
        BY <1>0, <2>1, <2>3
      <3>2. QED
        BY <3>1
    <2>4. QED
      BY <2>2, <2>3
  <1>8. ASSUME NEW t \in Threads, ThreadStep(t) PROVE Changed
    BY <1>1, <1>3, <1>8
    DEF ThreadStep, PrepareRaises, AddItem, FindSession, SpawnSession
  <1>9. ASSUME NEW j \in Job, SessionStep(j) PROVE Changed
    BY <1>1, <1>7, <1>9
    DEF SessionStep, SeeRelease, Returns, PickItem, SeeNothing, Yield, IdleOut, Sleep,
        TakeItem, CompleteItem, FailItem, askVars
  <1>10. ASSUME \/ AskCrash \/ AskBeginClose \/ CloseStep \/ AddSingle \/ UNCHANGED allVars
         PROVE  UNCHANGED question
    BY <1>10 DEF AskCrash, AskBeginClose, CloseStep, AddSingle, askVars, allVars
  <1>11. ASSUME NEW j \in Job,
                \/ Release(j) \/ StopSession(j) \/ LoseSession(j) \/ LaneStep(j) \/ AskWorker(j)
                \/ SettleSession(j)
         PROVE  UNCHANGED question
    BY <1>11 DEF Release, StopSession, LoseSession, LaneStep, AskWorker,
        SettleSession, askVars
  <1>12. ASSUME NEW t \in Threads, NEW r \in Questions, ConfirmPlan(t, r)
         PROVE  UNCHANGED question
    BY <1>12 DEF ConfirmPlan
  <1>13. AskStart \/ (PickNothing /\ UNCHANGED askVars) => UNCHANGED question
    BY DEF AskStart, askVars
  <1>14. \/ UNCHANGED question \/ FailQuestion
         \/ \E t \in Threads, r \in Questions : AskQuestion(t, r)
         \/ \E t \in Threads : ThreadStep(t)
         \/ \E j \in Job : SessionStep(j)
    BY <1>4, <1>5, <1>10, <1>11, <1>12, <1>13, StepKinds DEF Usual
  <1>15. QED
    BY <1>1, <1>2, <1>6, <1>8, <1>9, <1>14

(* What has begun never goes back to its draft. *)
LEMMA BegunStays ==
    ASSUME AskTypeOK, ItemShape, ThreadShape, SessionShape, QuestionShape, SettleShape,
           [AskNext]_allVars, NEW q \in Questions
    PROVE  /\ question[q] # "none" => question'[q] # "none"
           /\ Begun(q) => Begun(q)'
           /\ question[q] = "drafting_plan" /\ question'[q] # "drafting_plan"
              => /\ \E i \in 1..added : work[i].question = q
                 /\ \A i \in 1..added : DraftOf(i, q) => item'[i] # "queued"
  BY QuestionsEffect DEF Begun

(* A request that is on its way after a step was on its way before, or has  *)
(* just begun with this step.                                               *)
LEMMA ThreadBefore ==
    ASSUME AskTypeOK, ThreadShape, [AskNext]_allVars, NEW t \in Threads,
           thread'[t].step # "idle"
    PROVE  \/ /\ thread[t].step # "idle" /\ thread'[t].kind = thread[t].kind
              /\ thread'[t].question = thread[t].question
              /\ thread'[t].step = "add" /\ thread[t].kind = "plan_draft"
                 => thread[t].step = "add" /\ ~AddItem(t)
           \/ /\ thread'[t].question \in Questions
              /\ AskQuestion(t, thread'[t].question) \/ ConfirmPlan(t, thread'[t].question)
  <1> USE DEF AskTypeOK
  <1>1. CASE UNCHANGED thread
    BY <1>1 DEF AddItem, Step
  <1>2. CASE thread' = [u \in Threads |-> Idle]
    BY <1>2 DEF Idle
  <1>3. ASSUME NEW u \in Threads, thread' = [thread EXCEPT ![u] = Idle]
        PROVE  /\ thread[t].step # "idle" /\ thread'[t] = thread[t]
               /\ ~AddItem(t)
    BY <1>3 DEF Idle, AddItem, Step
  <1>4. ASSUME NEW u \in Threads, NEW q \in Questions, AskQuestion(u, q) \/ ConfirmPlan(u, q),
               ~UNCHANGED thread
        PROVE  \/ thread'[t] = thread[t] /\ thread[t].step # "idle" /\ ~AddItem(t)
               \/ t = u /\ thread'[t].question = q
    BY <1>4 DEF AskQuestion, ConfirmPlan, AddItem, itemVars
  <1>5. ASSUME NEW u \in Threads, Prepared(u) \/ FindSession(u) \/ AddItem(u),
               NEW s \in {"add", "spawn", "check"}, thread' = [thread EXCEPT ![u].step = s],
               s = "add" => thread[u].step = "prepare"
        PROVE  /\ thread[t].step # "idle" /\ thread'[t].kind = thread[t].kind
               /\ thread'[t].question = thread[t].question
               /\ thread'[t].step = "add" /\ thread[t].kind = "plan_draft"
                  => thread[t].step = "add" /\ ~AddItem(t)
    <2>1. thread[u].step \in {"prepare", "check", "add"}
      BY <1>5 DEF Prepared, FindSession, AddItem
    <2>2. CASE u = t
      BY <1>5, <2>1, <2>2 DEF ThreadShape
    <2>3. CASE u # t
      <3>1. thread'[t] = thread[t]
        BY <1>5, <2>3
      <3>2. thread[t].step = "add" => ~AddItem(t)
        BY <3>1 DEF AddItem, Step
      <3>3. QED
        BY <3>1, <3>2
    <2>4. QED
      BY <2>2, <2>3
  <1> HIDE DEF AskTypeOK
  <1>6. ASSUME NEW u \in Threads, AddItem(u)
        PROVE  /\ thread' = [thread EXCEPT ![u].step = "check"]
               /\ thread[u].step = "add"
    BY <1>6 DEF AddItem, Step
  <1>7. ASSUME NEW u \in Threads, Prepared(u) PROVE thread[u].step = "prepare"
    BY <1>7 DEF Prepared
  <1>8. CASE \E u \in Threads : \/ AddItem(u)
                                \/ Prepared(u) /\ thread' = [thread EXCEPT ![u].step = "add"]
                                \/ FindSession(u) /\ thread' = [thread EXCEPT ![u].step = "spawn"]
    BY <1>5, <1>6, <1>7, <1>8
  <1>9. QED
    BY <1>1, <1>2, <1>3, <1>4, <1>8, ThreadsEffect

(* Requests and items of a question keep to the order draft, then answer.   *)
LEMMA QuestionShapeStep ==
    ASSUME AskTypeOK, ItemShape, ThreadShape, SessionShape, QuestionShape, SettleShape,
           [AskNext]_allVars
    PROVE  QuestionShape'
  <1>1. \A q \in Questions :
           /\ question[q] # "none" => question'[q] # "none"
           /\ Begun(q) => Begun(q)'
           /\ question[q] = "drafting_plan" /\ question'[q] # "drafting_plan"
              => /\ \E i \in 1..added : work[i].question = q
                 /\ \A i \in 1..added : DraftOf(i, q) => item'[i] # "queued"
    BY BegunStays
  <1>2. /\ added \in Nat /\ added' \in Nat /\ added <= added'
        /\ \A i \in 1..added : i \in Item /\ work'[i] = work[i]
        /\ \A i \in 1..added' : i \in Item
        /\ \A i \in Item : item'[i] = "queued" => item[i] = "queued" \/ i = added + 1
    BY QueueGrows
  <1>3. \A i \in 1..added : work[i].question \in Questions
    BY DEF ItemShape
  <1>4. ASSUME NEW t \in Threads, AddItem(t)
        PROVE  /\ added' = added + 1 /\ UNCHANGED question
               /\ work'[added + 1].kind = thread[t].kind
               /\ work'[added + 1].question = thread[t].question
               /\ thread[t].step = "add" /\ thread[t].question \in Questions
               /\ thread[t].kind \in {"plan_draft", "answer"}
    BY <1>4, AddItemEffect DEF AddItem, Kind
  <1>5. ASSUME NEW i \in 1..added', i \notin 1..added
        PROVE  \E t \in Threads : AddItem(t) /\ i = added + 1
    <2>1. CASE \A t \in Threads : ~AddItem(t)
      BY <1>5, <2>1, ItemsEffect
    <2>2. CASE \E t \in Threads : AddItem(t)
      BY <1>2, <1>4, <1>5, <2>2
    <2>3. QED
      BY <2>1, <2>2
  <1>6. ASSUME NEW t \in Threads, NEW q \in Questions, AskQuestion(t, q)
        PROVE  /\ question[q] = "none" /\ UNCHANGED <<added, work>>
               /\ question' = [question EXCEPT ![q] = "drafting_plan"]
                  \/ thread' = thread
               /\ question'[q] # "none"
               /\ thread'[t].kind = "plan_draft" \/ thread' = thread
    BY <1>6 DEF AskQuestion, itemVars, AskTypeOK
  <1>7. ASSUME NEW t \in Threads, NEW q \in Questions, ConfirmPlan(t, q)
        PROVE  Begun(q) /\ UNCHANGED question /\ thread'[t].step = "prepare"
    BY <1>7 DEF ConfirmPlan, Begun, AskTypeOK
  <1>8. \A i \in 1..added' : question'[work'[i].question] # "none"
    <2> SUFFICES ASSUME NEW i \in 1..added' PROVE question'[work'[i].question] # "none"
      OBVIOUS
    <2>1. CASE i \in 1..added
      BY <1>1, <1>2, <1>3, <2>1 DEF QuestionShape
    <2>2. CASE i \notin 1..added
      BY <1>1, <1>4, <1>5, <2>2 DEF QuestionShape
    <2>3. QED
      BY <2>1, <2>2
  <1>9. \A i \in 1..added' : (work[i].kind = "answer" => Begun(work[i].question))'
    <2> SUFFICES ASSUME NEW i \in 1..added', work'[i].kind = "answer"
                 PROVE  question'[work'[i].question] \notin {"none", "drafting_plan"}
      BY DEF Begun
    <2>1. CASE i \in 1..added
      BY <1>1, <1>2, <1>3, <2>1 DEF QuestionShape, Begun
    <2>2. CASE i \notin 1..added
      BY <1>1, <1>4, <1>5, <2>2 DEF QuestionShape, Begun
    <2>3. QED
      BY <2>1, <2>2
  <1>10. ASSUME NEW t \in Threads, thread'[t].step # "idle"
         PROVE  /\ question'[thread'[t].question] # "none"
                /\ thread'[t].kind = "answer"
                   => question'[thread'[t].question] \notin {"none", "drafting_plan"}
    <2>1. CASE /\ thread[t].step # "idle" /\ thread'[t].kind = thread[t].kind
               /\ thread'[t].question = thread[t].question
      BY <1>1, <2>1 DEF QuestionShape, ThreadShape, Begun
    <2>2. CASE /\ thread'[t].question \in Questions
               /\ AskQuestion(t, thread'[t].question) \/ ConfirmPlan(t, thread'[t].question)
      <3> DEFINE q == thread'[t].question
      <3>1. CASE ConfirmPlan(t, q)
        BY <1>7, <2>2, <3>1 DEF Begun
      <3>2. CASE AskQuestion(t, q) /\ ~UNCHANGED thread
        BY <1>6, <2>2, <3>2
      <3>3. CASE AskQuestion(t, q) /\ UNCHANGED thread
        BY <1>1, <1>10, <3>3 DEF QuestionShape, ThreadShape, Begun
      <3>4. QED
        BY <2>2, <3>1, <3>2, <3>3
    <2>3. QED
      BY <1>10, <2>1, <2>2, ThreadBefore
  <1>11. ASSUME NEW t \in Threads, NEW q \in Questions, AddsDraft(t, q)'
         PROVE  \/ AddsDraft(t, q) /\ ~AddItem(t)
                \/ AskQuestion(t, q) /\ ~UNCHANGED thread
    <2>1. /\ thread'[t].step # "idle" /\ thread'[t].question = q
          /\ thread'[t].step = "add" /\ thread'[t].kind = "plan_draft"
      BY <1>11 DEF AddsDraft
    <2>2. CASE AskQuestion(t, q) /\ UNCHANGED thread
      BY <2>1, <2>2 DEF AddsDraft, AskQuestion, AddItem, itemVars, AskTypeOK
    <2>3. QED
      BY <1>7, <2>1, <2>2, ThreadBefore DEF AddsDraft
  <1>12. ASSUME NEW t \in Threads, NEW q \in Questions, AddsDraft(t, q)'
         PROVE  /\ question'[q] = "drafting_plan"
                /\ \A i \in 1..added' : work'[i].question # q
                /\ \A u \in Threads : AddsDraft(u, q)' => u = t
    <2>1. CASE AddsDraft(t, q) /\ ~AddItem(t)
      <3>1. /\ question[q] = "drafting_plan"
            /\ \A i \in 1..added : work[i].question # q
            /\ \A u \in Threads : AddsDraft(u, q) => u = t
        BY <2>1 DEF QuestionShape
      <3>2. question'[q] = "drafting_plan"
        BY <1>1, <3>1
      <3>3. ASSUME NEW u \in Threads, AddItem(u) PROVE thread[u].question # q
        <4>1. u # t
          BY <2>1, <3>3
        <4>2. thread[u].kind = "plan_draft" => ~AddsDraft(u, q)
          BY <3>1, <4>1
        <4>3. thread[u].kind = "answer" => thread[u].question # q
          BY <1>4, <3>1, <3>3 DEF QuestionShape, Begun
        <4>4. QED
          BY <1>4, <3>3, <4>2, <4>3 DEF AddsDraft
      <3>4. \A i \in 1..added' : work'[i].question # q
        BY <1>2, <1>4, <1>5, <3>1, <3>3
      <3>5. \A u \in Threads : AddsDraft(u, q)' => u = t
        BY <1>6, <1>11, <3>1
      <3>6. QED
        BY <3>2, <3>4, <3>5
    <2>2. CASE AskQuestion(t, q) /\ ~UNCHANGED thread
      <3>1. /\ question[q] = "none" /\ UNCHANGED <<added, work>>
            /\ question'[q] = "drafting_plan"
        BY <1>6, <2>2 DEF AskTypeOK
      <3>2. \A i \in 1..added' : work'[i].question # q
        BY <3>1 DEF QuestionShape
      <3>3. ASSUME NEW u \in Threads, AddsDraft(u, q)' PROVE u = t
        <4>1. ~AddsDraft(u, q)
          BY <3>1 DEF QuestionShape
        <4>2. AskQuestion(u, q) /\ ~UNCHANGED thread
          BY <1>11, <3>3, <4>1
        <4>3. \/ thread'[u] # thread[u] \/ u = t
          BY <2>2, <4>2 DEF AskQuestion, AskTypeOK, AddsDraft, Idle
        <4>4. QED
          BY <2>2, <4>2, <4>3 DEF AskQuestion, AskTypeOK, Idle
      <3>4. QED
        BY <3>1, <3>2, <3>3
    <2>3. QED
      BY <1>11, <1>12, <2>1, <2>2
  <1>13. ASSUME NEW q \in Questions, NEW i \in 1..added', DraftOf(i, q)'
         PROVE  \/ i \in 1..added /\ DraftOf(i, q)
                \/ /\ i = added + 1 /\ i \notin 1..added /\ UNCHANGED question
                   /\ \E t \in Threads : AddsDraft(t, q)
    <2>1. CASE i \in 1..added
      BY <1>2, <1>13, <2>1 DEF DraftOf
    <2>2. CASE i \notin 1..added
      BY <1>4, <1>5, <1>13, <2>2 DEF DraftOf, AddsDraft
    <2>3. QED
      BY <2>1, <2>2
  <1>14. ASSUME NEW q \in Questions, NEW i \in 1..added', NEW k \in 1..added',
                DraftOf(i, q)', DraftOf(k, q)'
         PROVE  i = k
    <2>1. ASSUME NEW n \in 1..added, DraftOf(n, q) PROVE \A t \in Threads : ~AddsDraft(t, q)
      BY <2>1 DEF QuestionShape, DraftOf
    <2>2. QED
      BY <1>13, <1>14, <2>1 DEF QuestionShape
  <1>15. ASSUME NEW q \in Questions, NEW i \in 1..added', DraftOf(i, q)', item'[i] = "queued"
         PROVE  question'[q] = "drafting_plan"
    <2>1. CASE i \in 1..added /\ DraftOf(i, q)
      <3>1. item[i] = "queued" /\ question[q] = "drafting_plan"
        BY <1>2, <1>15, <2>1 DEF QuestionShape
      <3>2. QED
        BY <1>1, <1>15, <2>1, <3>1
    <2>2. CASE UNCHANGED question /\ \E t \in Threads : AddsDraft(t, q)
      BY <2>2 DEF QuestionShape
    <2>3. QED
      BY <1>13, <1>15, <2>1, <2>2
  <1>16. QED
    <2>1. \A t \in Threads : thread'[t].step # "idle" => question'[thread'[t].question] # "none"
      BY <1>10
    <2>2. \A t \in Threads :
             (thread[t].step # "idle" /\ thread[t].kind = "answer" => Begun(thread[t].question))'
      BY <1>10 DEF Begun
    <2>3. QED
      BY <1>8, <1>9, <1>12, <1>14, <1>15, <2>1, <2>2 DEF QuestionShape

(* No row that has ended changes its status, under sessions either.         *)
LEMMA AskFinalStep ==
    ASSUME LaneInv, CleanTick, [AskNext]_allVars, NEW k \in Job, status[k] \in Ended
    PROVE  status'[k] = status[k]
  <1>1. CASE [Next]_vars
    BY <1>1, FinalStep
  <1>2. ASSUME NEW role, NEW group, Enqueue(role, group) PROVE status'[k] = status[k]
    <2>1. status[made + 1] = "none"
      BY <1>2, JobsAssumption DEF Enqueue, LaneInv, TypeOK, RowShape, Job
    <2>2. k # made + 1
      BY <2>1 DEF Ended
    <2>3. QED
      BY <1>2, <2>2 DEF Enqueue, LaneInv, TypeOK
  <1>3. QED
    BY <1>1, <1>2, LaneOrNew DEF SpawnSession, SettleSession, LoseSession

(* While the dashboard is up, a worker that is alive is the current job's,  *)
(* or an orphan whose row was interrupted.                                  *)
LEMMA AliveIsCurrent ==
    ASSUME LaneInv, SessionRows, server # "down", NEW j \in Job, Alive(j)
    PROVE  current = j \/ status[j] = "interrupted"
  BY DEF Alive, SessionRows, Active, LaneInv, OneActiveJob, QueuedNotLaunched

(* A draft is only ever late in the hands of an orphan.                     *)
LEMMA DraftsInTimeStep ==
    ASSUME AskTypeOK, LaneInv, CleanTick, SessionRows, ItemShape, ThreadShape, SessionShape,
           QuestionShape, DraftsInTime, StartShape, SettleShape, [AskNext]_allVars
    PROVE  DraftsInTime'
  <1> SUFFICES ASSUME NEW j \in Job, NEW q \in Questions,
                      proc'[j] = "holding", sess'[j].pc \in {"picked", "serving"},
                      DraftOf(sess[j].item, q)', status'[j] # "interrupted",
                      question'[q] # "drafting_plan"
               PROVE  FALSE
    BY DEF DraftsInTime
  <1>1. status[j] # "interrupted"
    BY AskFinalStep DEF Ended
  <1>2. /\ \A i \in 1..added : i \in Item /\ work'[i] = work[i]
        /\ SessionShape'
    BY QueueGrows, SessionShapeStep
  <1>3. TypeOK /\ proc[j] \in {"waiting", "holding"}
    BY ProcEffect DEF LaneInv
  <1>4. CASE UNCHANGED <<sess, by>>
    <2>1. proc[j] = "holding" /\ sess[j].item \in 1..added
      BY <1>3, <1>4 DEF SessionShape, InPlace, AtLoop
    <2>2. question[q] = "drafting_plan"
      BY <1>1, <1>2, <1>4, <2>1 DEF DraftsInTime, DraftOf
    <2>3. status[j] \in Active
      BY <1>1, <2>1 DEF SessionRows, Alive
    <2>4. ASSUME FailQuestion PROVE FALSE
      <3>1. settling # NotSettling
        BY <2>4 DEF FailQuestion, NotSettling
      <3>2. PICK k \in Job : Ending(k)
        BY <2>3, <3>1 DEF SettleShape, StartShape
      <3>3. current = k /\ Exited(k) /\ server # "down"
        BY <3>2 DEF Ending, LaneInv, TickShape
      <3>4. current = j
        BY <1>1, <2>1, <3>3, AliveIsCurrent DEF Alive
      <3>5. QED
        BY <2>1, <3>3, <3>4 DEF Exited
    <2>5. ASSUME NEW h \in Job, SaveDraft(h) \/ SaveAnswer(h) \/ FailItsQuestion(h)
          PROVE  FALSE
      <3>1. proc[h] = "holding"
        BY <2>5 DEF SaveDraft, SaveAnswer, FailItsQuestion, Serving, At
      <3>2. h = j
        BY <2>1, <3>1 DEF LaneInv, OneHolder
      <3>3. sess'[j].pc \in {"saved", "loop"}
        BY <2>5, <3>2 DEF SaveDraft, SaveAnswer, FailItsQuestion, Goes, AskTypeOK
      <3>4. QED
        BY <3>3
    <2>6. QED
      BY <2>2, <2>4, <2>5, QuestionsEffect DEF Begun
  <1>5. ASSUME NEW h \in Job, proc[h] = "holding", UNCHANGED <<vars, thread, added, work>>,
               \/ PickItem(h) \/ TakeItem(h) \/ CompleteItem(h) \/ FailItem(h)
               \/ SaveDraft(h) \/ SaveAnswer(h) \/ FailItsQuestion(h)
               \/ SeeNothing(h) \/ Sleep(h)
        PROVE  FALSE
    <2>1. h = j /\ proc[j] = "holding"
      BY <1>5 DEF vars, LaneInv, OneHolder
    <2>2. CASE PickItem(j)
      <3>1. PICK i \in Item : FirstWaiting(j, i) /\ sess'[j] = [pc |-> "picked", item |-> i]
        BY <2>2 DEF PickItem, AskTypeOK
      <3>2. item[i] = "queued" /\ DraftOf(i, q) /\ UNCHANGED question
        BY <2>2, <3>1 DEF PickItem, FirstWaiting, QueuedFor, DraftOf, itemVars
      <3>3. i \in 1..added
        BY <3>2, QueuedAreAdded
      <3>4. QED
        BY <3>2, <3>3 DEF QuestionShape
    <2>3. CASE TakeItem(j)
      <3>1. /\ sess[j].pc = "picked" /\ sess'[j].item = sess[j].item
            /\ UNCHANGED <<question, work>>
        BY <2>3 DEF TakeItem, At, Goes, AskTypeOK
      <3>2. DraftOf(sess[j].item, q)
        BY <3>1 DEF DraftOf
      <3>3. QED
        BY <1>1, <2>1, <3>1, <3>2 DEF DraftsInTime
    <2>4. CASE \/ CompleteItem(j) \/ FailItem(j) \/ SaveDraft(j) \/ SaveAnswer(j)
               \/ FailItsQuestion(j) \/ SeeNothing(j) \/ Sleep(j)
      <3>1. sess'[j].pc \in {"loop", "failing", "saved", "empty"}
        BY <2>4
        DEF CompleteItem, FailItem, SaveDraft, SaveAnswer, FailItsQuestion,
            SeeNothing, Sleep, Goes, AskTypeOK
      <3>2. QED
        BY <3>1
    <2>5. QED
      BY <1>5, <2>1, <2>2, <2>3, <2>4
  <1>6. QED
    BY <1>4, <1>5, SessionsEffect

(* Only start() interrupts items. *)
LEMMA InterruptedByStart ==
    ASSUME AskTypeOK, ItemShape, [AskNext]_allVars, server # "starting",
           NEW i \in Item, item'[i] = "interrupted"
    PROVE  item[i] = "interrupted"
  <1>1. CASE UNCHANGED item
    BY <1>1
  <1>2. ASSUME NEW t \in Threads, AddItem(t) PROVE item[i] = "interrupted"
    BY <1>2 DEF AddItem, AskTypeOK
  <1>3. ASSUME NEW j \in Job, TakeItem(j) \/ CompleteItem(j) \/ FailItem(j)
        PROVE  item[i] = "interrupted"
    BY <1>3 DEF TakeItem, CompleteItem, FailItem, AskTypeOK
  <1>4. CASE Settling
    <2>1. \A k \in Item : ~Interrupt(k)
      BY DEF Interrupt
    <2>2. QED
      BY <1>1, <1>4, <2>1, SettlingEffect DEF AskTypeOK
  <1>5. AskReady \/ AskSweep => UNCHANGED item
    BY LaneOnlyEffect
  <1>6. QED
    BY <1>1, <1>2, <1>3, <1>4, <1>5, StepKinds
    DEF Usual, AskStart, SettleSession, AskCrash, AskBeginClose, CloseStep, AddSingle,
        AskQuestion, ConfirmPlan, ThreadStep, PrepareRaises, Prepared, ReuseAnswer,
        FindSession, SpawnSession, Release, StopSession, LoseSession, LaneStep, AskWorker,
        SessionStep, SeeRelease, Returns, PickItem, SeeNothing, Goes, Yield, IdleOut,
        Sleep, SaveDraft, SaveAnswer, FailItsQuestion, itemVars, askVars, allVars

(* A session of this dashboard took its item from the queue, and start()    *)
(* leaves no session that is not interrupted with its item.                 *)
LEMMA OrphansLagStep ==
    ASSUME AskTypeOK, LaneInv, CleanTick, SessionRows, ItemShape, SessionShape,
           OnlyOrphansLag, StartShape, [AskNext]_allVars
    PROVE  OnlyOrphansLag'
  <1> SUFFICES ASSUME NEW j \in Job, Working(j)', (item[sess[j].item] = "interrupted")',
                      status'[j] # "interrupted"
               PROVE  FALSE
    BY DEF OnlyOrphansLag
  <1>1. status[j] # "interrupted"
    BY AskFinalStep DEF Ended
  <1>2. proc[j] \in {"waiting", "holding"}
    BY ProcEffect DEF LaneInv, Working
  <1>3. CASE UNCHANGED <<sess, by>>
    <2>1. Working(j) /\ sess[j].item \in 1..added
      BY <1>2, <1>3 DEF Working, SessionShape, InPlace, AtLoop
    <2>2. sess[j].item \in Item
      BY <2>1, AskAssumption DEF AskTypeOK, Item
    <2>3. server # "starting"
      BY <1>1, <1>2 DEF StartShape, SessionRows, Alive
    <2>4. item[sess[j].item] = "interrupted"
      BY <1>3, <2>2, <2>3, InterruptedByStart
    <2>5. QED
      BY <1>1, <2>1, <2>4 DEF OnlyOrphansLag
  <1>4. ASSUME NEW h \in Job, proc[h] = "holding", UNCHANGED <<vars, thread, added, work>>,
               \/ PickItem(h) \/ TakeItem(h) \/ CompleteItem(h) \/ FailItem(h)
               \/ SaveDraft(h) \/ SaveAnswer(h) \/ FailItsQuestion(h)
               \/ SeeNothing(h) \/ Sleep(h)
        PROVE  FALSE
    <2>1. h = j /\ proc[j] = "holding"
      BY <1>4 DEF vars, LaneInv, OneHolder, Working
    <2>2. CASE PickItem(j)
      BY <2>2 DEF PickItem, FirstWaiting, QueuedFor, AskTypeOK, itemVars
    <2>3. CASE TakeItem(j)
      <3>1. sess[j].item \in 1..added
        BY <2>3 DEF TakeItem, At, SessionShape, InPlace
      <3>2. sess[j].item \in Item /\ sess'[j].item = sess[j].item
        BY <2>3, <3>1, AskAssumption DEF TakeItem, Goes, AskTypeOK, Item
      <3>3. item'[sess[j].item] = "running"
        BY <2>3, <3>2 DEF TakeItem, AskTypeOK
      <3>4. QED
        BY <3>2, <3>3
    <2>4. CASE SaveDraft(j) \/ SaveAnswer(j)
      <3>1. /\ sess[j].pc = "serving" /\ sess'[j].item = sess[j].item /\ UNCHANGED item
        BY <2>4 DEF SaveDraft, SaveAnswer, Serving, At, Goes, AskTypeOK, itemVars
      <3>2. QED
        BY <1>1, <2>1, <3>1 DEF OnlyOrphansLag, Working
    <2>5. CASE \/ CompleteItem(j) \/ FailItem(j) \/ FailItsQuestion(j) \/ SeeNothing(j)
               \/ Sleep(j)
      <3>1. sess'[j].pc \in {"loop", "failing", "empty"}
        BY <2>5 DEF CompleteItem, FailItem, FailItsQuestion, SeeNothing, Sleep, Goes,
            AskTypeOK
      <3>2. QED
        BY <3>1 DEF Working
    <2>6. QED
      BY <1>4, <2>1, <2>2, <2>3, <2>4, <2>5
  <1>5. QED
    BY <1>3, <1>4, SessionsEffect

-----------------------------------------------------------------------------
(* What a waiting question waits for. *)

(* The steps of the dashboard's life. *)
LEMMA ServerMoves ==
    ASSUME [AskNext]_allVars
    PROVE  \/ UNCHANGED <<server, starts>>
           \/ AskStart /\ server = "down" /\ server' = "starting"
           \/ UNCHANGED starts /\ AskReady /\ server = "starting" /\ server' = "up"
           \/ UNCHANGED starts /\ AskCrash /\ server' = "down"
           \/ UNCHANGED starts /\ AskBeginClose /\ server = "up" /\ server' = "closing"
           \/ UNCHANGED starts /\ CloseStep /\ server \in {"closing", "exiting"}
                /\ server' \in {"exiting", "down"}
  <1>1. CASE AskStart \/ AskReady \/ AskCrash \/ AskBeginClose \/ CloseStep
    BY <1>1
    DEF AskStart, Start, AskReady, Ready, AskCrash, Crash, Forget, AskBeginClose,
        BeginClose, CloseStep, CloseStop, FinishClose, bounds
  <1>2. ASSUME NEW j \in Job, SessionStep(j) PROVE UNCHANGED <<server, starts>>
    BY <1>2
    DEF SessionStep, SeeRelease, Returns, PickItem, SeeNothing, Goes, Yield, IdleOut,
        Sleep, TakeItem, SaveDraft, SaveAnswer, CompleteItem, FailItem, FailItsQuestion,
        bounds, vars
  <1>3. ASSUME NEW t \in Threads, ThreadStep(t) PROVE UNCHANGED <<server, starts>>
    BY <1>3
    DEF ThreadStep, PrepareRaises, Prepared, ReuseAnswer, AddItem, FindSession,
        SpawnSession, bounds, vars
  <1>4. ASSUME NEW j \in Job, LaneStep(j) \/ AskWorker(j) \/ LoseSession(j)
        PROVE  UNCHANGED <<server, starts>>
    BY <1>4
    DEF LaneStep, Reap, Settle, Launch, MarkRunning, LaunchFail, AskWorker, AcquireGpu,
        WorkerDies, WorkerExits, LoseSession, bounds
  <1>5. ASSUME NEW j \in Job, Release(j) \/ StopSession(j) \/ SettleSession(j)
        PROVE  UNCHANGED <<server, starts>>
    BY <1>5 DEF Release, StopSession, Stop, SettleSession, bounds, vars
  <1>6. ASSUME NEW t \in Threads, NEW q \in Questions, AskQuestion(t, q) \/ ConfirmPlan(t, q)
        PROVE  UNCHANGED <<server, starts>>
    BY <1>6 DEF AskQuestion, ConfirmPlan, vars
  <1>7. AddSingle \/ PickNothing \/ UNCHANGED allVars => UNCHANGED <<server, starts>>
    BY DEF AddSingle, EnqueueSingle, PickNothing, bounds, vars, allVars
  <1>8. Settling \/ AskSweep => UNCHANGED <<server, starts>>
    BY SettlingEffect DEF AskSweep, SweepStep, SweepPartners, vars, bounds
  <1>9. QED
    BY <1>1, <1>2, <1>3, <1>4, <1>5, <1>6, <1>7, <1>8, StepKinds DEF Usual

(* A dashboard is only brought up by start(), the only step that is counted. *)
LEMMA UpOnlyByStart ==
    ASSUME [AskNext]_allVars
    PROVE  /\ ~AskStart => starts' = starts /\ (server' = "starting" => server = "starting")
           /\ ~AskReady => (server' = "up" => server = "up")
  BY ServerMoves

(* Before the first start nothing happens. *)
LEMMA NothingBeforeStart ==
    ASSUME AskTypeOK, LaneInv, StartShape, SettleShape, QuestionsCarried,
           [AskNext]_allVars, starts = 0
    PROVE  AskStart \/ UNCHANGED allVars
  <1>1. /\ server = "down" /\ made = 0
        /\ \A t \in Threads : thread[t].step = "idle"
    BY DEF QuestionsCarried, StartShape
  <1>2. \A j \in Job : proc[j] = "none"
    BY <1>1, JobsAssumption DEF LaneInv, RowShape, Job
  <1>3. ASSUME NEW t \in Threads PROVE ~ThreadStep(t)
    BY <1>1
    DEF ThreadStep, PrepareRaises, Prepared, ReuseAnswer, AddItem, FindSession, SpawnSession
  <1>4. ASSUME NEW j \in Job PROVE ~SessionStep(j) /\ ~LoseSession(j) /\ ~AskWorker(j)
    BY <1>2
    DEF SessionStep, At, SeeRelease, PickItem, SeeNothing, Yield, IdleOut, Sleep,
        TakeItem, Serving, SaveDraft, SaveAnswer, CompleteItem, FailItem, FailItsQuestion,
        LoseSession, Alive, AskWorker, AcquireGpu, WorkerDies, WorkerExits
  <1>5. ASSUME NEW j \in Job PROVE ~LaneStep(j) /\ ~SettleSession(j) /\ ~Release(j) /\ ~StopSession(j)
    BY <1>1
    DEF LaneStep, Reap, Settle, Launch, Picks, MarkRunning, LaunchFail, SettleSession,
        Ending, Release, StopSession, Stop
  <1>6. ASSUME NEW t \in Threads, NEW q \in Questions PROVE ~AskQuestion(t, q) /\ ~ConfirmPlan(t, q)
    BY <1>1 DEF AskQuestion, ConfirmPlan
  <1>7. ~AskCrash /\ ~AskBeginClose /\ ~CloseStep /\ ~AddSingle /\ ~PickNothing
    BY <1>1
    DEF AskCrash, Crash, AskBeginClose, BeginClose, CloseStep, CloseStop, FinishClose,
        AddSingle, EnqueueSingle, PickNothing
  <1>8. ~Settling
    <2>1. settling = NotSettling
      BY <1>1 DEF SettleShape, Ending
    <2>2. settling.step = "items"
      BY <2>1 DEF NotSettling
    <2>3. QED
      BY <1>1, <2>2
      DEF Settling, ListOpen, ReadQuestion, FailQuestion, ListItems, Interrupt, FailCut,
          CancelWaiting, Ending
  <1>9. ~AskReady /\ ~AskSweep
    BY <1>1, JobsAssumption
    DEF AskReady, Ready, AskSweep, SweepStep, SweepPartners, LaneInv, TickShape, Job
  <1>10. QED
    BY <1>3, <1>4, <1>5, <1>6, <1>7, <1>8, <1>9, StepKinds DEF Usual

(* Only requests move request handlers, until the dashboard is gone. *)
LEMMA OnlyRequestsMoveThreads ==
    ASSUME [AskNext]_allVars
    PROVE  \/ UNCHANGED thread \/ AskCrash
           \/ \E u \in Threads : ThreadStep(u)
           \/ \E u \in Threads, r \in Questions : AskQuestion(u, r) \/ ConfirmPlan(u, r)
  <1>1. ASSUME NEW j \in Job, SessionStep(j) PROVE UNCHANGED thread
    BY <1>1
    DEF SessionStep, SeeRelease, Returns, PickItem, SeeNothing, Goes, Yield, IdleOut, Sleep,
        TakeItem, SaveDraft, SaveAnswer, CompleteItem, FailItem, FailItsQuestion, askVars
  <1>2. ASSUME NEW j \in Job, \/ LaneStep(j) \/ AskWorker(j) \/ LoseSession(j)
                              \/ Release(j) \/ StopSession(j) \/ SettleSession(j)
        PROVE  UNCHANGED thread
    BY <1>2 DEF LaneStep, AskWorker, LoseSession, Release, StopSession, SettleSession,
        askVars
  <1>3. \/ AskStart \/ AskBeginClose \/ CloseStep \/ AddSingle \/ UNCHANGED allVars
        => UNCHANGED thread
    BY DEF AskStart, AskBeginClose, CloseStep, AddSingle, askVars, allVars
  <1>4. Settling \/ AskReady \/ AskSweep => UNCHANGED thread
    BY SettlingEffect, LaneOnlyEffect
  <1>5. QED
    BY <1>1, <1>2, <1>3, <1>4, StepKinds DEF Usual, askVars

(* Only they move what session_ended and start() are at. *)
LEMMA OnlySettlingMoves ==
    ASSUME [AskNext]_allVars
    PROVE  \/ UNCHANGED settling \/ Settling \/ AskReady \/ AskCrash
           \/ \E j \in Job : SettleSession(j)
  <1>1. ASSUME NEW j \in Job, SessionStep(j) PROVE UNCHANGED settling
    BY <1>1
    DEF SessionStep, SeeRelease, Returns, PickItem, SeeNothing, Goes, Yield, IdleOut, Sleep,
        TakeItem, SaveDraft, SaveAnswer, CompleteItem, FailItem, FailItsQuestion, askVars
  <1>2. ASSUME NEW t \in Threads, ThreadStep(t) PROVE UNCHANGED settling
    BY <1>2
    DEF ThreadStep, PrepareRaises, Prepared, ReuseAnswer, AddItem, FindSession, SpawnSession
  <1>3. QED
    BY <1>1, <1>2, StepKinds
    DEF Usual, AskStart, AskBeginClose, CloseStep, AddSingle, AskQuestion, ConfirmPlan,
        Release, StopSession, LoseSession, LaneStep, AskWorker, AskSweep, askVars, allVars

(* A request about to add an item keeps the question carried.               *)
LEMMA ThreadCarries ==
    ASSUME AskTypeOK, ThreadShape, ItemShape, [AskNext]_allVars, server' = "up",
           NEW t \in Threads, thread[t].step = "add", NEW q \in Questions,
           thread[t].question = q,
           question'[q] \in {"drafting_plan", "answering"}
    PROVE  Carried(q)'
  <1>1. CASE AddItem(t)
    <2>1. /\ added + 1 \in Item /\ item' = [item EXCEPT ![added + 1] = "queued"]
          /\ work'[added + 1] = [kind |-> thread[t].kind, question |-> thread[t].question,
                                 key |-> KeyOf(thread[t].kind)]
      BY <1>1, AddItemEffect
    <2>2. work'[added + 1].question = q
      BY <2>1
    <2>3. item'[added + 1] = "queued"
      BY <2>1 DEF AskTypeOK
    <2>4. QED
      BY <2>1, <2>2, <2>3 DEF Carried
  <1>2. CASE thread'[t] = thread[t]
    BY <1>2 DEF Carried
  <1>3. ASSUME NEW u \in Threads, NEW r \in Questions, AskQuestion(u, r) \/ ConfirmPlan(u, r)
        PROVE  thread'[t] = thread[t]
    BY <1>3 DEF AskQuestion, ConfirmPlan, Idle, AskTypeOK
  <1>4. ASSUME NEW u \in Threads, ThreadStep(u), u # t PROVE thread'[t] = thread[t]
    BY <1>4
    DEF ThreadStep, PrepareRaises, Prepared, ReuseAnswer, AddItem, FindSession,
        SpawnSession, Done, Step, AskTypeOK
  <1>5. ThreadStep(t) => AddItem(t) \/ ReuseAnswer(t)
    BY DEF ThreadStep, PrepareRaises, Prepared, FindSession, SpawnSession
  <1>6. ~ReuseAnswer(t)
    BY DEF ReuseAnswer, AskTypeOK
  <1>7. \/ UNCHANGED thread \/ AskCrash
        \/ \E u \in Threads : ThreadStep(u)
        \/ \E u \in Threads, r \in Questions : AskQuestion(u, r) \/ ConfirmPlan(u, r)
    BY OnlyRequestsMoveThreads
  <1>8. ~AskCrash
    BY DEF AskCrash, Crash, Forget
  <1>9. QED
    BY <1>1, <1>2, <1>3, <1>4, <1>5, <1>6, <1>7, <1>8

(* An item that waits, or is being worked on, keeps its question carried: it*)
(* only leaves together with its question, or hands over to the session     *)
(* that is failing it.                                                      *)
LEMMA ItemCarries ==
    ASSUME AskTypeOK, LaneInv, ThreadShape, ItemShape, SessionShape, SettleShape,
           [AskNext]_allVars, NEW i \in Item, item[i] = "queued" \/ (item[i] = "running" /\ ~Saved(i)),
           NEW q \in Questions, work[i].question = q,
           question'[q] \in {"drafting_plan", "answering"}
    PROVE  Carried(q)'
  <1>0. i \in 1..added
    BY QueuedAreAdded
  <1>1. work'[i] = work[i]
    BY <1>0, QueueGrows
  <1> DEFINE Live == item'[i] = "queued" \/ (item'[i] = "running" /\ ~Saved(i)')
  <1>2. Live => Carried(q)'
    BY <1>1 DEF Carried
  <1>3. ASSUME UNCHANGED <<sess, by>>, item'[i] = item[i] PROVE Live
    BY <1>3 DEF Saved
  <1>4. CASE Settling
    <2>1. UNCHANGED <<sess, by>>
      BY <1>4, SettlingEffect
    <2>2. ASSUME NEW s, SettleItem(i, s) PROVE Carried(q)'
      <3>1. settling'.step = "get" /\ settling'.question = q
        BY <2>2 DEF SettleItem, AskTypeOK
      <3>2. QED
        BY <3>1 DEF Carried, FailsNext
    <2>3. CASE item'[i] = item[i]
      BY <1>2, <1>3, <2>1, <2>3
    <2>4. QED
      BY <1>4, <2>2, <2>3, SettlingEffect DEF Interrupt, FailCut, CancelWaiting, AskTypeOK
  <1>5. ASSUME NEW t \in Threads, AddItem(t) PROVE Live
    <2>1. i # added + 1
      BY <1>0, QueueGrows
    <2>2. item' = [item EXCEPT ![added + 1] = "queued"]
      BY <1>5 DEF AddItem
    <2>3. item'[i] = item[i] /\ UNCHANGED <<sess, by>>
      BY <1>5, <2>1, <2>2 DEF AddItem, AskTypeOK
    <2>4. QED
      BY <1>3, <2>3
  <1>6. ASSUME NEW j \in Job, TakeItem(j) PROVE Live
    <2>1. CASE sess[j].item = i
      <3>1. item'[i] = "running" /\ by'[i] = j /\ sess'[j].pc = "serving"
        BY <1>6, <2>1 DEF TakeItem, Goes, AskTypeOK
      <3>2. QED
        BY <3>1 DEF Saved
    <2>2. CASE sess[j].item # i
      <3>1. /\ item'[i] = item[i] /\ by'[i] = by[i]
            /\ \A k \in Job : sess'[k] = sess[k] \/ (sess'[k].pc = "serving")
        BY <1>6, <2>2 DEF TakeItem, Goes, AskTypeOK
      <3>2. QED
        BY <3>1 DEF Saved
    <2>3. QED
      BY <2>1, <2>2
  <1>7. ASSUME NEW j \in Job, CompleteItem(j) PROVE Live
    <2>1. sess[j].item # i
      <3>1. /\ proc[j] = "holding" /\ sess[j].pc = "saved"
            /\ item[sess[j].item] # "queued" /\ by[sess[j].item] = j
        BY <1>7 DEF CompleteItem, At, SessionShape, InPlace
      <3>2. sess[j] = [pc |-> "saved", item |-> sess[j].item]
        BY <3>1 DEF AskTypeOK
      <3>3. QED
        BY <3>1, <3>2 DEF Saved
    <2>2. /\ item'[i] = item[i] /\ UNCHANGED by
          /\ \A k \in Job : sess'[k] = sess[k] \/ sess'[k].pc = "loop"
      BY <1>7, <2>1 DEF CompleteItem, Goes, AskTypeOK
    <2>3. QED
      BY <2>2 DEF Saved
  <1>8. ASSUME NEW j \in Job, FailItem(j) PROVE Carried(q)'
    <2>1. CASE sess[j].item = i
      <3>1. sess'[j].pc = "failing" /\ sess'[j].item = i
        BY <1>8, <2>1 DEF FailItem, Goes, AskTypeOK
      <3>2. QED
        BY <1>1, <3>1 DEF Carried
    <2>2. CASE sess[j].item # i
      <3>1. /\ item'[i] = item[i] /\ UNCHANGED by
            /\ \A k \in Job : sess'[k] = sess[k] \/ sess'[k].pc = "failing"
        BY <1>8, <2>2 DEF FailItem, Goes, AskTypeOK
      <3>2. Live
        BY <3>1 DEF Saved
      <3>3. QED
        BY <1>2, <3>2
    <2>3. QED
      BY <2>1, <2>2
  <1>9. ASSUME NEW j \in Job, SaveDraft(j) \/ SaveAnswer(j) PROVE Live
    <2>1. sess[j].item # i
      BY <1>9 DEF SaveDraft, SaveAnswer, AskTypeOK
    <2>2. /\ UNCHANGED <<item, by>>
          /\ \A k \in Job : sess'[k] = sess[k] \/ sess'[k].item # i
      BY <1>9, <2>1 DEF SaveDraft, SaveAnswer, Goes, itemVars, AskTypeOK
    <2>3. QED
      BY <2>2 DEF Saved
  <1>10. ASSUME NEW j \in Job, FailItsQuestion(j) \/ SeeNothing(j) \/ Sleep(j) \/ PickItem(j)
         PROVE  Live
    <2>1. /\ UNCHANGED <<item, by>>
          /\ \A k \in Job : sess'[k] = sess[k] \/ sess'[k].pc # "saved"
      BY <1>10 DEF FailItsQuestion, SeeNothing, Sleep, PickItem, Goes, itemVars, AskTypeOK
    <2>2. QED
      BY <2>1 DEF Saved
  <1>11. \/ item'[i] = item[i] /\ UNCHANGED <<sess, by>>
         \/ Settling
         \/ \E t \in Threads : AddItem(t)
         \/ \E j \in Job : \/ TakeItem(j) \/ CompleteItem(j) \/ FailItem(j)
                           \/ SaveDraft(j) \/ SaveAnswer(j) \/ FailItsQuestion(j)
                           \/ SeeNothing(j) \/ Sleep(j) \/ PickItem(j)
    <2>1. ASSUME NEW j \in Job, SessionStep(j),
                 ~(\/ TakeItem(j) \/ CompleteItem(j) \/ FailItem(j)
                   \/ SaveDraft(j) \/ SaveAnswer(j) \/ FailItsQuestion(j)
                   \/ SeeNothing(j) \/ Sleep(j) \/ PickItem(j))
          PROVE  UNCHANGED <<item, sess, by>>
      BY <2>1 DEF SessionStep, SeeRelease, Returns, Yield, IdleOut, askVars, itemVars
    <2>2. ASSUME NEW j \in Job, \/ LaneStep(j) \/ AskWorker(j) \/ LoseSession(j)
                                \/ Release(j) \/ StopSession(j) \/ SettleSession(j)
          PROVE  UNCHANGED <<item, sess, by>>
      BY <2>2
      DEF LaneStep, AskWorker, LoseSession, Release, StopSession, SettleSession,
          askVars, itemVars
    <2>3. ASSUME \/ AskStart \/ AskCrash \/ AskBeginClose \/ CloseStep \/ AddSingle \/ UNCHANGED allVars
          PROVE  UNCHANGED <<item, sess, by>>
      BY <2>3 DEF AskStart, AskCrash, AskBeginClose, CloseStep, AddSingle, askVars,
          allVars, itemVars
    <2>4. AskReady \/ AskSweep => UNCHANGED <<item, sess, by>>
      BY LaneOnlyEffect
    <2>5. ASSUME NEW t \in Threads, ThreadStep(t), ~AddItem(t) PROVE UNCHANGED <<item, sess, by>>
      BY <2>5
      DEF ThreadStep, PrepareRaises, Prepared, ReuseAnswer, FindSession, SpawnSession,
          itemVars
    <2>6. ASSUME NEW t \in Threads, NEW r \in Questions, AskQuestion(t, r) \/ ConfirmPlan(t, r)
          PROVE  UNCHANGED <<item, sess, by>>
      BY <2>6 DEF AskQuestion, ConfirmPlan, itemVars
    <2>7. QED
      BY <2>1, <2>2, <2>3, <2>4, <2>5, <2>6, StepKinds DEF Usual, askVars, itemVars
  <1>12. QED
    BY <1>2, <1>3, <1>4, <1>5, <1>6, <1>7, <1>8, <1>9, <1>10, <1>11

(* A question whose item failed stays carried until the session fails it.   *)
LEMMA FailingCarries ==
    ASSUME AskTypeOK, LaneInv, ThreadShape, ItemShape, SessionShape, SettleShape,
           [AskNext]_allVars, NEW j \in Job, sess[j].pc = "failing",
           NEW q \in Questions, work[sess[j].item].question = q,
           question'[q] \in {"drafting_plan", "answering"}
    PROVE  Carried(q)'
  <1>1. sess[j].item \in 1..added
    BY DEF SessionShape, InPlace
  <1>2. work'[sess[j].item] = work[sess[j].item]
    BY <1>1, QueueGrows
  <1>3. sess'[j] = sess[j] => Carried(q)'
    BY <1>2 DEF Carried
  <1>4. ASSUME NEW h \in Job,
               \/ PickItem(h) \/ TakeItem(h) \/ CompleteItem(h) \/ FailItem(h)
               \/ SaveDraft(h) \/ SaveAnswer(h) \/ FailItsQuestion(h)
               \/ SeeNothing(h) \/ Sleep(h)
        PROVE  sess'[j] = sess[j]
    <2>1. h # j
      <3>1. ~FailItsQuestion(j)
        BY DEF FailItsQuestion, AskTypeOK
      <3>2. QED
        BY <1>4, <3>1
        DEF PickItem, TakeItem, CompleteItem, FailItem, SaveDraft, SaveAnswer, Serving,
            SeeNothing, Sleep, At
    <2>2. QED
      BY <1>4, <2>1
      DEF PickItem, TakeItem, CompleteItem, FailItem, SaveDraft, SaveAnswer,
          FailItsQuestion, SeeNothing, Sleep, Goes, AskTypeOK
  <1>5. QED
    BY <1>3, <1>4, SessionsEffect

(* A question that fail_question is about to write stays so until it has.   *)
LEMMA SettlingCarries ==
    ASSUME AskTypeOK, [AskNext]_allVars, server' = "up", NEW q \in Questions, FailsNext(q),
           question'[q] \in {"drafting_plan", "answering"}
    PROVE  Carried(q)'
  <1>1. settling.step # "items"
    BY DEF FailsNext
  <1>2. CASE UNCHANGED settling
    BY <1>2 DEF Carried, FailsNext
  <1>3. CASE ListOpen \/ \E j \in Job : ListItems(j)
    <2>1. UNCHANGED <<settling.step, settling.question, settling.read>>
      BY <1>3 DEF ListOpen, ListItems, AskTypeOK
    <2>2. QED
      BY <2>1 DEF Carried, FailsNext
  <1>4. CASE ReadQuestion
    <2>1. settling'.question = q /\ settling'.read = question'[q]
      BY <1>4 DEF ReadQuestion, FailsNext, AskTypeOK
    <2>2. settling'.step = "put" /\ settling'.read \notin Settled
      BY <1>4, <2>1 DEF ReadQuestion, AskTypeOK, Settled
    <2>3. QED
      BY <2>1, <2>2 DEF Carried, FailsNext
  <1>5. ~FailQuestion
    BY DEF FailQuestion, FailsNext, AskTypeOK
  <1>6. /\ \A j \in Job : ~SettleSession(j) /\ \A i \in Item : ~FailCut(j, i) /\ ~CancelWaiting(j, i)
        /\ \A i \in Item : ~Interrupt(i)
        /\ ~AskReady /\ ~AskCrash
    BY <1>1
    DEF SettleSession, FailCut, CancelWaiting, Interrupt, SettleItem, AskReady,
        AskCrash, Crash, Forget
  <1>7. QED
    BY <1>2, <1>3, <1>4, <1>5, <1>6, OnlySettlingMoves DEF Settling

(* Whatever carried a question still does, or has handed it over.           *)
LEMMA StaysCarried ==
    ASSUME AskTypeOK, LaneInv, ThreadShape, ItemShape, SessionShape, SettleShape,
           [AskNext]_allVars, server' = "up", NEW q \in Questions, Carried(q),
           question'[q] \in {"drafting_plan", "answering"}
    PROVE  Carried(q)'
  <1>1. ASSUME NEW i \in Item, work[i].question = q,
               item[i] = "queued" \/ (item[i] = "running" /\ ~Saved(i))
        PROVE  Carried(q)'
    BY <1>1, ItemCarries
  <1>2. ASSUME NEW t \in Threads, thread[t].question = q, thread[t].step = "add"
        PROVE  Carried(q)'
    BY <1>2, ThreadCarries
  <1>3. ASSUME NEW j \in Job, sess[j].pc = "failing", work[sess[j].item].question = q
        PROVE  Carried(q)'
    BY <1>3, FailingCarries
  <1>4. FailsNext(q) => Carried(q)'
    BY SettlingCarries
  <1>5. QED
    BY <1>1, <1>2, <1>3, <1>4 DEF Carried

(* A question that begins to wait is carried by the request that made it.   *)
LEMMA NewlyCarried ==
    ASSUME AskTypeOK, ItemShape, ThreadShape, SessionShape, QuestionShape,
           [AskNext]_allVars, NEW q \in Questions, question[q] \notin {"drafting_plan", "answering"},
           question'[q] \in {"drafting_plan", "answering"}
    PROVE  Carried(q)'
  <1>1. ASSUME NEW t \in Threads, AskQuestion(t, q) PROVE Carried(q)'
    <2>1. \/ thread' = [thread EXCEPT
                ![t] = [step |-> "add", question |-> q, kind |-> "plan_draft"]]
          \/ question' = [question EXCEPT ![q] = "plan_ready"]
      BY <1>1 DEF AskQuestion
    <2>2. thread' = [thread EXCEPT
                ![t] = [step |-> "add", question |-> q, kind |-> "plan_draft"]]
      BY <2>1 DEF AskTypeOK
    <2>3. thread'[t] = [step |-> "add", question |-> q, kind |-> "plan_draft"]
      BY <2>2 DEF AskTypeOK
    <2>4. thread'[t].step = "add" /\ thread'[t].question = q
      BY <2>3
    <2>5. QED
      BY <2>4 DEF Carried
  <1>2. ASSUME NEW t \in Threads, Prepared(t) PROVE Carried(q)'
    <2>1. /\ question' = [question EXCEPT ![thread[t].question] = "answering"]
          /\ thread' = [thread EXCEPT ![t].step = "add"]
      BY <1>2 DEF Prepared, Step
    <2>2. thread[t].question = q
      BY <2>1 DEF AskTypeOK
    <2>3. thread'[t].step = "add" /\ thread'[t].question = q
      BY <2>1, <2>2 DEF AskTypeOK
    <2>4. QED
      BY <2>3 DEF Carried
  <1>3. ASSUME NEW t \in Threads, ThreadStep(t), ~Prepared(t)
        PROVE  question'[q] = question[q] \/ question'[q] = "answered"
    BY <1>3
    DEF ThreadStep, PrepareRaises, ReuseAnswer, AddItem, FindSession, SpawnSession,
        AskTypeOK
  <1>4. ASSUME NEW j \in Job, SessionStep(j)
        PROVE  question'[q] \in {question[q], "plan_ready", "answered", "failed"}
    BY <1>4
    DEF SessionStep, SeeRelease, Returns, PickItem, SeeNothing, Goes, Yield, IdleOut, Sleep,
        TakeItem, SaveDraft, SaveAnswer, CompleteItem, FailItem, FailItsQuestion, itemVars,
        askVars, AskTypeOK
  <1>5. Settling => question'[q] \in {question[q], "failed"}
    BY SettlingEffect DEF FailQuestion, AskTypeOK
  <1>6. AskReady \/ AskSweep => UNCHANGED question
    BY LaneOnlyEffect
  <1>7. ASSUME NEW j \in Job, \/ LaneStep(j) \/ AskWorker(j) \/ LoseSession(j)
                              \/ Release(j) \/ StopSession(j) \/ SettleSession(j)
        PROVE  UNCHANGED question
    BY <1>7 DEF LaneStep, AskWorker, LoseSession, Release, StopSession, SettleSession,
        askVars
  <1>8. \/ AskStart \/ AskCrash \/ AskBeginClose \/ CloseStep \/ AddSingle \/ UNCHANGED allVars
        => UNCHANGED question
    BY DEF AskStart, AskCrash, AskBeginClose, CloseStep, AddSingle, askVars, allVars
  <1>9. ASSUME NEW t \in Threads, NEW r \in Questions,
               (AskQuestion(t, r) /\ r # q) \/ ConfirmPlan(t, r)
        PROVE  question'[q] = question[q]
    BY <1>9 DEF AskQuestion, ConfirmPlan, AskTypeOK
  <1>10. QED
    BY <1>1, <1>2, <1>3, <1>4, <1>5, <1>6, <1>7, <1>8, <1>9, StepKinds DEF Usual, askVars

(* Every waiting question of the first dashboard life is carried.           *)
LEMMA QuestionsCarriedStep ==
    ASSUME AskTypeOK, LaneInv, ThreadShape, ItemShape, SessionShape, QuestionShape, StartShape,
           SettleShape, QuestionsCarried, [AskNext]_allVars
    PROVE  QuestionsCarried'
  <1>1. starts \in Nat
    BY JobsAssumption DEF LaneInv, TypeOK
  <1>2. AskStart => starts' = starts + 1 /\ server' = "starting" /\ UNCHANGED <<made, question>>
    BY DEF AskStart, Start, storeVars, askVars
  <1>3. CASE UNCHANGED allVars
    BY <1>3
    DEF QuestionsCarried, Carried, FailsNext, Saved, allVars, vars, askVars,
        storeVars, bounds
  <1>4. CASE AskStart
    <2>1. starts' # 0 /\ server' # "up"
      BY <1>1, <1>2, <1>4
    <2>2. starts' = 1 => \A q \in Questions : question'[q] = "none"
      BY <1>1, <1>2, <1>4 DEF QuestionsCarried
    <2>3. QED
      BY <2>1, <2>2 DEF QuestionsCarried
  <1>5. CASE ~AskStart /\ ~UNCHANGED allVars
    <2>1. starts # 0 /\ starts' = starts
      BY <1>5, NothingBeforeStart, UpOnlyByStart
    <2>2. ASSUME starts' = 1, server' = "starting", NEW q \in Questions
          PROVE  question'[q] = "none"
      <3>1. server = "starting" /\ question[q] = "none"
        BY <1>5, <2>1, <2>2, UpOnlyByStart DEF QuestionsCarried
      <3>2. ~Begun(q) /\ \A t \in Threads : ~AskQuestion(t, q)
        BY <3>1 DEF Begun, AskQuestion
      <3>3. ~ \E i \in 1..added : work[i].question = q
        BY <3>1 DEF QuestionShape
      <3>4. QED
        BY <3>1, <3>2, <3>3, QuestionsEffect
    <2>3. ASSUME server' = "up", starts' = 1, NEW q \in Questions,
                 question'[q] \in {"drafting_plan", "answering"}
          PROVE  Carried(q)'
      <3>1. CASE question[q] \in {"drafting_plan", "answering"}
        <4>1. server = "up"
          <5>1. ~AskReady
            BY <2>1, <2>3, <3>1 DEF AskReady, Ready, QuestionsCarried
          <5>2. QED
            BY <2>3, <5>1, UpOnlyByStart
        <4>2. Carried(q)
          BY <2>1, <2>3, <3>1, <4>1 DEF QuestionsCarried
        <4>3. QED
          BY <2>3, <4>2, StaysCarried
      <3>2. CASE question[q] \notin {"drafting_plan", "answering"}
        BY <2>3, <3>2, NewlyCarried
      <3>3. QED
        BY <3>1, <3>2
    <2>4. QED
      BY <2>1, <2>2, <2>3 DEF QuestionsCarried
  <1>6. QED
    BY <1>3, <1>4, <1>5

(* A row keeps its spec. *)
LEMMA RowKept ==
    ASSUME LaneInv, [AskNext]_allVars, NEW j \in Job, status[j] # "none"
    PROVE  spec'[j] = spec[j]
  <1>1. j # made + 1
    BY JobsAssumption DEF LaneInv, TypeOK, RowShape, Job
  <1>2. ASSUME NEW role, NEW group, Enqueue(role, group) PROVE spec'[j] = spec[j]
    BY <1>1, <1>2 DEF Enqueue, LaneInv, TypeOK
  <1>3. ASSUME NEW t \in Threads, ThreadStep(t) PROVE spec'[j] = spec[j]
    BY <1>2, <1>3
    DEF ThreadStep, PrepareRaises, Prepared, ReuseAnswer, AddItem, FindSession,
        SpawnSession, vars
  <1>4. ASSUME NEW h \in Job, SessionStep(h) PROVE spec'[j] = spec[j]
    BY <1>4
    DEF SessionStep, SeeRelease, Returns, PickItem, SeeNothing, Goes, Yield, IdleOut,
        Sleep, TakeItem, SaveDraft, SaveAnswer, CompleteItem, FailItem, FailItsQuestion,
        vars, storeVars
  <1>5. ASSUME NEW h \in Job, SettleSession(h) PROVE spec'[j] = spec[j]
    BY <1>2, <1>5 DEF SettleSession
  <1>6. ASSUME NEW h \in Job, \/ LaneStep(h) \/ AskWorker(h) \/ LoseSession(h)
                              \/ Release(h) \/ StopSession(h)
        PROVE  spec'[j] = spec[j]
    BY <1>6
    DEF LaneStep, Reap, Settle, Launch, MarkRunning, LaunchFail, AskWorker, AcquireGpu,
        WorkerDies, WorkerExits, LoseSession, Release, StopSession, Stop, vars, storeVars
  <1>7. \/ AskStart \/ AskCrash \/ AskBeginClose \/ CloseStep \/ PickNothing \/ UNCHANGED allVars
        => UNCHANGED spec
    BY DEF AskStart, Start, AskCrash, Crash, AskBeginClose, BeginClose, CloseStep,
        CloseStop, FinishClose, PickNothing, allVars, vars, storeVars
  <1>8. AddSingle => spec'[j] = spec[j]
    BY <1>2 DEF AddSingle, EnqueueSingle
  <1>9. ASSUME NEW t \in Threads, NEW r \in Questions, AskQuestion(t, r) \/ ConfirmPlan(t, r)
        PROVE  spec'[j] = spec[j]
    BY <1>9 DEF AskQuestion, ConfirmPlan, vars
  <1>10. Settling \/ AskReady \/ AskSweep => UNCHANGED spec
    BY SettlingEffect, LaneOnlyEffect DEF vars
  <1>11. QED
    BY <1>3, <1>4, <1>5, <1>6, <1>7, <1>8, <1>9, <1>10, StepKinds DEF Usual

(* When start() goes through the items, nothing of this dashboard runs.     *)
LEMMA StartShapeStep ==
    ASSUME AskTypeOK, LaneInv, CleanTick, ItemShape, ThreadShape, SessionShape, StartShape,
           SettleShape, [AskNext]_allVars
    PROVE  StartShape'
  <1>1. ASSUME server' # "up", NEW t \in Threads PROVE thread'[t].step = "idle"
    <2>1. CASE AskCrash
      BY <2>1 DEF AskCrash, Idle
    <2>2. CASE AskBeginClose
      BY <2>2 DEF AskBeginClose, Idle, askVars
    <2>3. CASE server # "up"
      <3>1. \A u \in Threads : thread[u].step = "idle" /\ ~ThreadStep(u)
        BY <2>3
        DEF StartShape, ThreadStep, PrepareRaises, Prepared, ReuseAnswer, AddItem,
            FindSession, SpawnSession
      <3>2. \A u \in Threads, r \in Questions : ~AskQuestion(u, r) /\ ~ConfirmPlan(u, r)
        BY <2>3 DEF AskQuestion, ConfirmPlan
      <3>3. QED
        BY <2>1, <3>1, <3>2, OnlyRequestsMoveThreads
    <2>4. QED
      BY <1>1, <2>1, <2>2, <2>3, ServerMoves
  <1>2. CASE AskStart
    <2>1. server = "down" /\ UNCHANGED askVars /\ current' = current
          /\ status' = [j \in Job |-> RecoveredStatus(j)]
      BY <1>2 DEF AskStart, Start
    <2>2. current' = None /\ \A j \in Job : status'[j] \notin Active
      BY <2>1 DEF LaneInv, TickShape, RecoveredStatus, Active
    <2>3. ~settling'.listed
      <3>1. settling' = NotSettling
        BY <2>1 DEF SettleShape, Ending, askVars
      <3>2. QED
        BY <3>1 DEF NotSettling
    <2>4. QED
      BY <1>1, <2>2, <2>3 DEF StartShape
  <1>3. ASSUME server' = "starting", ~AskStart
        PROVE  /\ current' = None /\ \A j \in Job : status'[j] \notin Active
               /\ settling'.listed =>
                     \A i \in Item : item'[i] = "queued" => i \in settling'.waiting
    <2>1. /\ server = "starting" /\ current = None
          /\ \A j \in Job : status[j] \notin Active /\ current # j
          /\ tick \notin {"reaped", "launched"}
          /\ \A t \in Threads : ~ThreadStep(t)
          /\ settling.listed => \A i \in Item : item[i] = "queued" => i \in settling.waiting
      <3>1. server = "starting" /\ current = None
        BY <1>3, ServerMoves DEF StartShape
      <3>2. \A j \in Job : current # j
        BY <3>1, JobsAssumption DEF Job
      <3>3. QED
        BY <3>1, <3>2
        DEF StartShape, LaneInv, TickShape, ThreadStep, PrepareRaises, Prepared,
            ReuseAnswer, AddItem, FindSession, SpawnSession
    <2>2. current' = None /\ \A j \in Job : status'[j] \notin Active
      <3>1. ASSUME NEW j \in Job
            PROVE  /\ ~LaneStep(j) /\ ~SettleSession(j) /\ ~Release(j) /\ ~StopSession(j)
                   /\ AskWorker(j) \/ LoseSession(j) \/ SessionStep(j)
                      => UNCHANGED <<current, status>>
        BY <2>1
        DEF LaneStep, Reap, Settle, Launch, Picks, MarkRunning, LaunchFail,
            SettleSession, Ending, Release, StopSession, Stop, AskWorker, AcquireGpu,
            WorkerDies, WorkerExits, LoseSession, SessionStep, SeeRelease, Returns,
            PickItem, SeeNothing, Goes, Yield, IdleOut, Sleep, TakeItem, SaveDraft,
            SaveAnswer, CompleteItem, FailItem, FailItsQuestion, vars
      <3>2. /\ ~AddSingle /\ ~AskBeginClose /\ ~CloseStep /\ ~AskCrash /\ ~AskReady
            /\ PickNothing \/ UNCHANGED allVars => UNCHANGED <<current, status>>
            /\ \A t \in Threads, q \in Questions : ~AskQuestion(t, q) /\ ~ConfirmPlan(t, q)
        BY <1>3, <2>1
        DEF AddSingle, EnqueueSingle, AskBeginClose, BeginClose, CloseStep, CloseStop,
            FinishClose, AskCrash, Crash, Forget, AskReady, Ready, PickNothing, AskQuestion,
            ConfirmPlan, allVars, vars
      <3>3. Settling => UNCHANGED <<current, status>>
        BY SettlingEffect DEF vars
      <3>4. CASE AskSweep
        <4>1. PICK j \in Job : status' = Swept(status, j) /\ current' = current
          BY <3>4 DEF AskSweep, SweepStep, SweepPartners
        <4>2. QED
          BY <2>1, <4>1 DEF Swept, Active
      <3>5. QED
        BY <1>3, <2>1, <3>1, <3>2, <3>3, <3>4, StepKinds DEF Usual
    <2>3. settling'.listed => \A i \in Item : item'[i] = "queued" => i \in settling'.waiting
      <3>1. \A i \in Item : item'[i] = "queued" => item[i] = "queued"
        BY <2>1, ItemsEffect DEF ThreadStep
      <3>2. ~AskCrash /\ ~AskReady
        BY <1>3 DEF AskCrash, Crash, Forget, AskReady, Ready
      <3>3. ASSUME NEW j \in Job, NEW i \in Item
            PROVE  ~SettleSession(j) /\ ~ListItems(j) /\ ~FailCut(j, i) /\ ~CancelWaiting(j, i)
        BY <2>1 DEF SettleSession, ListItems, FailCut, CancelWaiting, Ending
      <3>4. CASE UNCHANGED settling
        BY <2>1, <3>1, <3>4
      <3>5. CASE ListOpen
        BY <3>5 DEF ListOpen, OpenItems, itemVars, AskTypeOK
      <3>6. CASE ReadQuestion \/ FailQuestion
        <4>1. settling'.listed = settling.listed /\ settling'.waiting = settling.waiting
          BY <3>6 DEF ReadQuestion, FailQuestion, AskTypeOK
        <4>2. QED
          BY <2>1, <3>1, <4>1
      <3>7. ASSUME NEW n \in Item, Interrupt(n) PROVE <2>3
        <4>1. /\ settling'.listed = settling.listed /\ settling'.waiting = settling.waiting \ {n}
              /\ item'[n] = "interrupted"
          BY <3>7 DEF Interrupt, SettleItem, AskTypeOK
        <4>2. QED
          BY <2>1, <3>1, <4>1
      <3>8. QED
        BY <3>2, <3>3, <3>4, <3>5, <3>6, <3>7, OnlySettlingMoves DEF Settling
    <2>4. QED
      BY <2>2, <2>3
  <1>4. QED
    BY <1>1, <1>2, <1>3 DEF StartShape

(* An ending session is settled before anything else happens to its row.    *)
LEMMA EndingStays ==
    ASSUME AskTypeOK, LaneInv, [AskNext]_allVars, NEW j \in Job, Ending(j), server' # "down",
           \A h \in Job : ~SettleSession(h)
    PROVE  Ending(j)'
  <1>1. /\ server # "down" /\ tick = "reaped" /\ current = j /\ IsSession(j)
        /\ Exited(j) /\ status[j] # "none" /\ sweeping = None
    BY DEF Ending, LaneInv, TickShape, Ended
  <1>2. spec'[j] = spec[j]
    BY <1>1, RowKept
  <1>3. ASSUME NEW h \in Job PROVE ~LaneStep(h)
    BY <1>1
    DEF LaneStep, Reap, Settle, Launch, Picks, MarkRunning, LaunchFail, IsSession
  <1>4. ASSUME NEW h \in Job,
               \/ AskWorker(h) \/ LoseSession(h) \/ Release(h) \/ StopSession(h) \/ SessionStep(h)
        PROVE  UNCHANGED <<tick, current>>
    BY <1>4
    DEF AskWorker, AcquireGpu, WorkerDies, WorkerExits, LoseSession, Release,
        StopSession, Stop, SessionStep, SeeRelease, Returns, PickItem, SeeNothing, Goes,
        Yield, IdleOut, Sleep, TakeItem, SaveDraft, SaveAnswer, CompleteItem, FailItem,
        FailItsQuestion, vars
  <1>5. ASSUME NEW t \in Threads, ThreadStep(t) PROVE UNCHANGED <<tick, current>>
    BY <1>5
    DEF ThreadStep, PrepareRaises, Prepared, ReuseAnswer, AddItem, FindSession,
        SpawnSession, vars
  <1>6. ASSUME NEW t \in Threads, NEW r \in Questions, AskQuestion(t, r) \/ ConfirmPlan(t, r)
        PROVE  UNCHANGED <<tick, current>>
    BY <1>6 DEF AskQuestion, ConfirmPlan, vars
  <1>7. AskBeginClose \/ AddSingle \/ UNCHANGED allVars => UNCHANGED <<tick, current>>
    BY DEF AskBeginClose, BeginClose, AddSingle, EnqueueSingle, allVars, vars
  <1>8. ~AskStart /\ ~AskCrash /\ ~PickNothing
    BY <1>1 DEF AskStart, Start, AskCrash, Crash, Forget, PickNothing
  <1>9. ~CloseStep
    BY <1>1 DEF CloseStep, CloseStop, FinishClose, Forget
  <1>10. Settling \/ AskReady \/ AskSweep => UNCHANGED <<tick, current>>
    BY <1>1, SettlingEffect, JobsAssumption
    DEF AskReady, Ready, AskSweep, SweepStep, SweepPartners, vars, Job
  <1>11. UNCHANGED <<tick, current>>
    BY <1>3, <1>4, <1>5, <1>6, <1>7, <1>8, <1>9, <1>10, StepKinds DEF Usual
  <1>12. QED
    BY <1>1, <1>2, <1>11 DEF Ending, IsSession

(* What each settling step does to the two lists and to the question.       *)
LEMMA SettlingMoves ==
    ASSUME AskTypeOK, Settling
    PROVE  \/ /\ ListOpen \/ \E j \in Job : ListItems(j)
              /\ \A i \in settling'.waiting : item[i] \in {"queued", "running"}
              /\ settling'.waiting \subseteq Item
              /\ \/ ListOpen /\ settling'.cut = settling.cut
                 \/ /\ \A i \in settling'.cut : item[i] = "running"
                    /\ settling'.cut \subseteq Item
                    /\ \E j \in Job : ListItems(j)
              /\ settling'.step = settling.step /\ settling'.question = settling.question
              /\ UNCHANGED item
           \/ /\ ReadQuestion \/ FailQuestion
              /\ settling'.cut = settling.cut /\ settling'.waiting = settling.waiting
              /\ settling'.step # "items"
                 => settling.step # "items" /\ settling'.question = settling.question
              /\ UNCHANGED item
           \/ \E i \in Item, s \in {"failed", "cancelled", "interrupted"} :
                 /\ i \in settling.cut \union settling.waiting
                 /\ Interrupt(i) \/ \E j \in Job : FailCut(j, i) \/ CancelWaiting(j, i)
                 /\ s = "interrupted" => Interrupt(i)
                 /\ settling'.cut = settling.cut \ {i} /\ settling'.waiting = settling.waiting \ {i}
                 /\ settling'.question = work[i].question
                 /\ item' = [item EXCEPT ![i] = s]
  <1>1. settling \in [listed : BOOLEAN, cut : SUBSET Item, waiting : SUBSET Item,
                     step : {"items", "get", "put"},
                     question : Questions \union {None}, read : QuestionStatus]
    BY DEF AskTypeOK
  <1>2. CASE ListOpen
    BY <1>1, <1>2 DEF ListOpen, OpenItems, itemVars
  <1>3. ASSUME NEW j \in Job, ListItems(j)
        PROVE  /\ settling'.cut = CutItems(j) /\ settling'.waiting = QueuedFor(spec[j].group)
               /\ settling'.step = settling.step /\ settling'.question = settling.question
               /\ UNCHANGED item
    BY <1>1, <1>3 DEF ListItems, itemVars
  <1>4. CASE ReadQuestion \/ FailQuestion
    BY <1>1, <1>4 DEF ReadQuestion, FailQuestion, itemVars
  <1>5. ASSUME NEW i \in Item, NEW s, SettleItem(i, s)
        PROVE  /\ settling'.cut = settling.cut \ {i} /\ settling'.waiting = settling.waiting \ {i}
               /\ settling'.question = work[i].question
               /\ item' = [item EXCEPT ![i] = s]
    BY <1>1, <1>5 DEF SettleItem
  <1>6. ASSUME NEW i \in Item,
               Interrupt(i) \/ \E j \in Job : FailCut(j, i) \/ CancelWaiting(j, i)
        PROVE  \E s \in {"failed", "cancelled", "interrupted"} :
                 /\ i \in settling.cut \union settling.waiting
                 /\ s = "interrupted" => Interrupt(i)
                 /\ SettleItem(i, s)
    BY <1>6 DEF Interrupt, FailCut, CancelWaiting, FirstOf
  <1>7. ASSUME NEW j \in Job, ListItems(j)
        PROVE  /\ \A i \in settling'.waiting : item[i] \in {"queued", "running"}
               /\ \A i \in settling'.cut : item[i] = "running"
               /\ settling'.waiting \subseteq Item /\ settling'.cut \subseteq Item
    BY <1>3, <1>7 DEF CutItems, QueuedFor
  <1>8. QED
    BY <1>2, <1>3, <1>4, <1>5, <1>6, <1>7 DEF Settling

(* The lists and the question of session_ended and start() stay sound.      *)
LEMMA SettleShapeStep ==
    ASSUME AskTypeOK, LaneInv, CleanTick, ItemShape, ThreadShape, SessionShape, QuestionShape,
           StartShape, SettleShape, [AskNext]_allVars, LaneInv'
    PROVE  SettleShape'
  <1>1. /\ added \in Nat /\ added' \in Nat /\ added <= added'
        /\ \A i \in 1..added : i \in Item /\ work'[i] = work[i]
        /\ \A i \in Item : item'[i] = "queued" => item[i] = "queued" \/ i = added + 1
    BY QueueGrows
  <1>2. CASE settling' = NotSettling
    BY <1>2 DEF SettleShape, NotSettling
  <1>3. AskCrash \/ AskReady \/ (\E j \in Job : SettleSession(j)) => settling' = NotSettling
    BY DEF AskCrash, AskReady, SettleSession
  <1>4. ASSUME settling' # NotSettling
        PROVE  (server' = "starting" /\ settling'.cut = {}) \/ \E j \in Job : Ending(j)'
    <2>1. /\ ~AskCrash /\ ~AskReady /\ \A j \in Job : ~SettleSession(j)
      BY <1>3, <1>4
    <2>2. UNCHANGED settling \/ Settling
      BY <2>1, OnlySettlingMoves
    <2>3. CASE \E j \in Job : Ending(j)
      <3>1. PICK j \in Job : Ending(j)
        BY <2>3
      <3>2. server' # "down"
        <4>1. ~CloseStep
          BY <3>1 DEF Ending, CloseStep, CloseStop, FinishClose, LaneInv, TickShape,
              Exited, Alive
        <4>2. QED
          BY <2>1, <3>1, <4>1, ServerMoves DEF Ending
      <3>3. QED
        BY <2>1, <3>1, <3>2, EndingStays
    <2>4. CASE server = "starting" /\ settling.cut = {} /\ \A j \in Job : ~Ending(j)
      <3>1. server' = "starting"
        BY <2>1, <2>4, ServerMoves
      <3>2. settling'.cut = {}
        <4>1. \A j \in Job : ~ListItems(j)
          BY <2>4 DEF ListItems
        <4>2. QED
          BY <2>2, <2>4, <4>1, SettlingMoves
      <3>3. QED
        BY <3>1, <3>2
    <2>5. CASE settling = NotSettling /\ Settling /\ \A j \in Job : ~Ending(j)
      <3>1. settling.step = "items" /\ ~settling.listed /\ settling.cut = {}
        BY <2>5 DEF NotSettling
      <3>2. ListOpen
        BY <2>5, <3>1
        DEF Settling, ReadQuestion, FailQuestion, ListItems, FailCut, CancelWaiting,
            Interrupt, SettleItem
      <3>3. server = "starting" /\ server' = server /\ settling'.cut = {}
        BY <3>1, <3>2 DEF ListOpen, vars, AskTypeOK
      <3>4. QED
        BY <3>3
    <2>6. QED
      BY <1>4, <2>2, <2>3, <2>4, <2>5 DEF SettleShape
  <1>5. settling'.cut \union settling'.waiting \subseteq 1..added'
    <2>1. CASE UNCHANGED settling
      BY <1>1, <2>1 DEF SettleShape
    <2>2. CASE Settling
      <3>1. \A i \in settling'.cut \union settling'.waiting :
               i \in settling.cut \union settling.waiting \/ (i \in Item /\ item[i] # "none")
        BY <2>2, SettlingMoves
      <3>2. QED
        BY <1>1, <3>1, QueuedAreAdded DEF SettleShape
    <2>3. QED
      BY <1>2, <1>3, <2>1, <2>2, OnlySettlingMoves DEF SettleShape
  <1>6. ASSUME tick' = "reaped", NEW i \in settling'.cut \union settling'.waiting
        PROVE  item'[i] # "interrupted"
    <2>1. settling' # NotSettling /\ i \in Item
      BY <1>1, <1>5, <1>6, QueueGrows DEF NotSettling
    <2>2. server' # "starting"
      BY <1>6, StartShapeStep DEF StartShape, LaneInv, TickShape
    <2>3. tick = "reaped" =>
              (item[i] = "interrupted" => i \notin settling.cut \union settling.waiting)
      BY DEF SettleShape
    <2>4. tick = "reaped" => server # "starting"
      BY DEF LaneInv, TickShape, StartShape
    <2>5. CASE UNCHANGED settling
      <3>1. tick = "reaped"
        <4>1. ~AskCrash /\ ~AskReady
          BY <1>3, <2>1
        <4>2. server # "starting"
          BY <2>2, <4>1, ServerMoves
        <4>3. QED
          BY <2>1, <2>5, <4>2 DEF SettleShape, Ending
      <3>2. QED
        BY <1>6, <2>1, <2>3, <2>4, <2>5, <3>1, InterruptedByStart
    <2>6. CASE Settling
      <3>1. tick = "reaped"
        BY <1>6, <2>6, SettlingEffect DEF vars
      <3>2. ~ListOpen /\ \A k \in Item : ~Interrupt(k)
        BY <2>4, <3>1 DEF ListOpen, Interrupt
      <3>3. item \in [Item -> {"none", "queued", "running", "completed", "failed",
                              "cancelled", "interrupted"}]
        BY DEF AskTypeOK
      <3>4. QED
        BY <1>6, <2>1, <2>3, <2>6, <3>1, <3>2, <3>3, SettlingMoves
    <2>7. QED
      BY <1>3, <2>1, <2>5, <2>6, OnlySettlingMoves
  <1> DEFINE Aimed ==
          /\ \E i \in 1..added' : work'[i].question = settling'.question
          /\ \A i \in 1..added' :
                 work'[i].kind = "plan_draft" /\ work'[i].question = settling'.question
                 => item'[i] # "queued"
  <1>7. ASSUME settling'.step # "items" PROVE Aimed
    <2>1. ASSUME settling.step # "items", settling'.question = settling.question
          PROVE  Aimed
      <3>1. PICK i \in 1..added : work[i].question = settling.question
        BY <2>1 DEF SettleShape
      <3>2. i \in 1..added' /\ work'[i].question = settling'.question
        BY <1>1, <2>1, <3>1
      <3>3. ASSUME NEW k \in 1..added', work'[k].kind = "plan_draft",
                   work'[k].question = settling.question
            PROVE  item'[k] # "queued"
        <4>1. CASE k \in 1..added
          <5>1. DraftOf(k, settling.question)
            BY <1>1, <3>3, <4>1 DEF DraftOf
          <5>2. item[k] # "queued" /\ k # added + 1
            BY <1>1, <2>1, <4>1, <5>1 DEF SettleShape
          <5>3. QED
            BY <1>1, <4>1, <5>2
        <4>2. CASE k \notin 1..added
          <5>1. PICK t \in Threads : AddItem(t)
            BY <3>3, <4>2, ItemsEffect
          <5>2. added' = added + 1
            BY <5>1, AddItemEffect
          <5>3. k = added + 1
            BY <1>1, <3>3, <4>2, <5>2
          <5>4. work'[k] = [kind |-> thread[t].kind, question |-> thread[t].question,
                            key |-> KeyOf(thread[t].kind)]
            BY <5>1, <5>3, AddItemEffect
          <5>5. AddsDraft(t, settling.question)
            BY <3>3, <5>1, <5>4 DEF AddsDraft, AddItem
          <5>6. settling.question \in Questions
            BY <3>1 DEF ItemShape
          <5>7. QED
            BY <3>1, <5>5, <5>6 DEF QuestionShape
        <4>3. QED
          BY <4>1, <4>2
      <3>4. QED
        BY <2>1, <3>2, <3>3
    <2>2. ASSUME NEW i \in Item, NEW r \in {"failed", "cancelled", "interrupted"},
                 i \in settling.cut \union settling.waiting,
                 settling'.question = work[i].question, item' = [item EXCEPT ![i] = r],
                 UNCHANGED <<added, work>>
          PROVE  Aimed
      <3>1. i \in 1..added /\ work[i].question \in Questions
        BY <2>2 DEF SettleShape, ItemShape
      <3>2. ASSUME NEW k \in 1..added, DraftOf(k, work[i].question), item'[k] = "queued"
            PROVE  FALSE
        <4>1. k # i /\ item[k] = "queued"
          BY <1>1, <2>2, <3>2 DEF AskTypeOK
        <4>2. question[work[i].question] = "drafting_plan"
          BY <3>1, <3>2, <4>1 DEF QuestionShape
        <4>3. work[i].kind # "answer"
          BY <3>1, <4>2 DEF QuestionShape, Begun
        <4>4. work[i].kind \in {"plan_draft", "answer"}
          BY DEF AskTypeOK, Work, Kind
        <4>5. QED
          BY <3>1, <3>2, <4>1, <4>3, <4>4 DEF QuestionShape, DraftOf
      <3>3. QED
        BY <2>2, <3>1, <3>2 DEF DraftOf
    <2>3. CASE UNCHANGED settling
      BY <1>7, <2>1, <2>3
    <2>4. CASE Settling
      <3>1. UNCHANGED <<added, work>>
        BY <2>4, SettlingEffect
      <3>2. QED
        BY <1>7, <2>1, <2>2, <2>4, <3>1, SettlingMoves
    <2>5. QED
      BY <1>3, <1>7, <2>3, <2>4, OnlySettlingMoves DEF NotSettling
  <1>8. QED
    BY <1>4, <1>5, <1>6, <1>7 DEF SettleShape, DraftOf

-----------------------------------------------------------------------------
(* The inductive invariant. *)

(* Nothing has been asked and no row exists. *)
LEMMA AskInitInv == AskInit => AskInv
  <1> SUFFICES ASSUME AskInit PROVE AskInv
    OBVIOUS
  <1> USE JobsAssumption, AskAssumption DEF AskInit, Init, Job, Item
  <1>1. LaneInv
    BY InitInv
  <1>2. CleanTick /\ SessionRows
    BY DEF CleanTick, SessionRows, IsSession, NoSpec, Alive
  <1>3. AskTypeOK
    <2>1. TypeOK
      BY <1>1 DEF LaneInv
    <2>2. item \in [Item -> {"none", "queued", "running", "completed", "failed",
                             "cancelled", "interrupted"}]
      OBVIOUS
    <2>3. work \in [Item -> Work]
      BY DEF Work, NoWork, Kind
    <2>4. by \in [Item -> Job \union {None}] /\ question \in [Questions -> QuestionStatus]
      BY DEF QuestionStatus, Settled
    <2>5. thread \in [Threads -> [step : {"idle", "prepare", "add", "check", "spawn"},
                                  question : Questions \union {None}, kind : Kind]]
      BY DEF Idle, Kind
    <2>6. sess \in [Job -> [pc : {"loop", "empty", "picked", "serving", "saved", "failing"},
                            item : Item \union {0}]]
      BY DEF AtLoop
    <2>7. settling \in [listed : BOOLEAN, cut : SUBSET Item, waiting : SUBSET Item,
                        step : {"items", "get", "put"},
                        question : Questions \union {None}, read : QuestionStatus]
      BY DEF NotSettling, QuestionStatus
    <2>8. added \in 0..MaxItems /\ released \in SUBSET Job /\ losses \in 0..MaxLosses
      OBVIOUS
    <2> HIDE DEF AskInit, Init, Job, Item
    <2>9. QED
      BY <2>1, <2>2, <2>3, <2>4, <2>5, <2>6, <2>7, <2>8 DEF AskTypeOK
  <1>4. ItemShape
    BY DEF ItemShape
  <1>5. ThreadShape
    <2>1. \A t \in Threads : thread[t].step = "idle"
      BY DEF Idle
    <2>2. Reserving = {}
      BY <2>1 DEF Reserving
    <2>3. Cardinality(Reserving) = 0
      BY <2>2, FS_EmptySet
    <2>4. QED
      BY <2>1, <2>3 DEF ThreadShape
  <1>6. SessionShape
    BY DEF SessionShape, InPlace, AtLoop
  <1>7. QuestionShape
    BY DEF QuestionShape, AddsDraft, Idle
  <1>8. DraftsInTime /\ OnlyOrphansLag
    BY DEF DraftsInTime, OnlyOrphansLag, Working
  <1>9. QuestionsCarried
    BY DEF QuestionsCarried
  <1>10. StartShape /\ SettleShape
    BY DEF StartShape, SettleShape, NotSettling, Idle
  <1>11. QED
    BY <1>1, <1>2, <1>3, <1>4, <1>5, <1>6, <1>7, <1>8, <1>9, <1>10 DEF AskInv

(* Every step of requests, scheduler, sessions and user keeps it. *)
LEMMA AskStep == AskInv /\ [AskNext]_allVars => AskInv'
  <1> SUFFICES ASSUME AskInv, [AskNext]_allVars PROVE AskInv'
    OBVIOUS
  <1> USE DEF AskInv
  <1>1. LaneInv' /\ CleanTick'
    BY AskLaneStep
  <1>2. SessionRows'
    BY SessionRowsStep, AliveRowsStep DEF SessionRows
  <1>3. AskTypeOK'
    <2>1. TypeOK'
      BY <1>1 DEF LaneInv
    <2>2. QED
      BY <2>1, AskTypeStep
  <1>4. ItemShape' /\ ThreadShape'
    BY ItemShapeStep, ThreadShapeStep
  <1>5. SessionShape' /\ QuestionShape'
    BY SessionShapeStep, QuestionShapeStep
  <1>6. DraftsInTime' /\ OnlyOrphansLag' /\ QuestionsCarried'
    BY DraftsInTimeStep, OrphansLagStep, QuestionsCarriedStep
  <1>7. StartShape' /\ SettleShape'
    BY <1>1, StartShapeStep, SettleShapeStep
  <1>8. QED
    BY <1>1, <1>2, <1>3, <1>4, <1>5, <1>6, <1>7

(* For any number of questions, items, requests, sessions, restarts and     *)
(* crashes, the parts of AskInv hold in every state.                        *)
THEOREM AskInvariant == AskSpec => []AskInv
  <1>1. AskInit => AskInv
    BY AskInitInv
  <1>2. AskInv /\ [AskNext]_allVars => AskInv'
    BY AskStep
  <1>3. QED
    BY <1>1, <1>2, PTL DEF AskSpec

(* The variables of requests, items and sessions keep their types: no item  *)
(* is added beyond the room its request made sure of.                       *)
THEOREM AskTypeCorrect == AskSpec => []AskTypeOK
  <1>1. AskInv => AskTypeOK
    BY DEF AskInv
  <1>2. QED
    BY <1>1, AskInvariant, PTL

(* In the first life of the dashboard, a question the user waits for always *)
(* has a step that is waiting, in progress or about to be added.            *)
THEOREM NothingHangs == AskSpec => []NoHungQuestion
  <1>1. AskInv => NoHungQuestion
    <2> SUFFICES ASSUME AskInv, server = "up", starts = 1, NEW q \in Questions,
                        question[q] \in {"drafting_plan", "answering"}
                 PROVE  \/ \E i \in Item : work[i].question = q /\ item[i] \in {"queued", "running"}
                        \/ \E t \in Threads : thread[t].question = q
                        \/ FailsNext(q)
                        \/ \E j \in Job : /\ sess[j].pc = "failing"
                                          /\ work[sess[j].item].question = q
      BY DEF NoHungQuestion
    <2>1. Carried(q)
      BY DEF AskInv, QuestionsCarried
    <2>2. QED
      BY <2>1 DEF Carried
  <1>2. QED
    BY <1>1, AskInvariant, PTL

-----------------------------------------------------------------------------
(* What a step may never do. *)

(* The oldest waiting item of its key is the one that is taken: items only  *)
(* join the queue behind it between the look and the update.                *)
LEMMA TakenInOrder ==
    ASSUME AskInv, [AskNext]_allVars, NEW i \in Item, item[i] = "queued",
           item'[i] = "running", NEW k \in QueuedFor(work[i].key)
    PROVE  i <= k
  <1> USE DEF AskInv
  <1>1. PICK j \in Job : TakeItem(j)
    <2>1. CASE UNCHANGED item
      BY <2>1
    <2>2. ASSUME NEW t \in Threads, AddItem(t) PROVE FALSE
      BY <2>2 DEF AddItem, AskTypeOK
    <2>3. Settling => FALSE
      BY SettlingEffect DEF AskTypeOK
    <2>4. AskReady \/ AskSweep => UNCHANGED item
      BY LaneOnlyEffect
    <2>5. ASSUME NEW j \in Job, CompleteItem(j) \/ FailItem(j) PROVE FALSE
      BY <2>5 DEF CompleteItem, FailItem, AskTypeOK
    <2>6. ASSUME NEW j \in Job, SessionStep(j), ~TakeItem(j), ~CompleteItem(j), ~FailItem(j)
          PROVE  UNCHANGED item
      BY <2>6
      DEF SessionStep, SeeRelease, Returns, PickItem, SeeNothing, Goes, Yield,
          IdleOut, Sleep, SaveDraft, SaveAnswer, FailItsQuestion, itemVars, askVars
    <2>7. ASSUME NEW j \in Job, \/ LaneStep(j) \/ AskWorker(j) \/ LoseSession(j)
                                \/ Release(j) \/ StopSession(j) \/ SettleSession(j)
          PROVE  UNCHANGED item
      BY <2>7
      DEF LaneStep, AskWorker, LoseSession, Release, StopSession, SettleSession,
          askVars, itemVars
    <2>8. \/ AskStart \/ AskCrash \/ AskBeginClose \/ CloseStep \/ AddSingle \/ UNCHANGED allVars
          => UNCHANGED item
      BY DEF AskStart, AskCrash, AskBeginClose, CloseStep, AddSingle, askVars,
          allVars, itemVars
    <2>9. PickNothing /\ UNCHANGED askVars => UNCHANGED item
      BY DEF askVars, itemVars
    <2>10. ASSUME NEW t \in Threads, ThreadStep(t), ~AddItem(t) PROVE UNCHANGED item
      BY <2>10
      DEF ThreadStep, PrepareRaises, Prepared, ReuseAnswer, FindSession, SpawnSession,
          itemVars
    <2>11. ASSUME NEW t \in Threads, NEW r \in Questions, AskQuestion(t, r) \/ ConfirmPlan(t, r)
           PROVE  UNCHANGED item
      BY <2>11 DEF AskQuestion, ConfirmPlan, itemVars
    <2>12. QED
      BY <2>1, <2>2, <2>3, <2>4, <2>5, <2>6, <2>7, <2>8, <2>9, <2>10, <2>11, StepKinds
      DEF Usual
  <1>2. sess[j].item = i /\ sess[j].pc = "picked" /\ proc[j] = "holding"
    BY <1>1 DEF TakeItem, At, AskTypeOK
  <1>3. QED
    BY <1>2 DEF SessionShape, InPlace

(* "Dashboard restarted before this step finished; ask again" (jobs.py      *)
(* start) is taken back by an orphan session only, which was at work on the *)
(* item when its dashboard went away (worker.py run_session).               *)
THEOREM RevivedByOrphanHolds == AskSpec => RevivedByOrphan
  <1> DEFINE Revived ==
        \A i \in Item : item[i] = "interrupted" /\ item'[i] # "interrupted" =>
            \E j \in Job : Working(j) /\ sess[j].item = i /\ status[j] = "interrupted"
  <1>1. AskInv /\ [AskNext]_allVars => [Revived]_allVars
    <2> SUFFICES ASSUME AskInv, [AskNext]_allVars,
                        NEW i \in Item, item[i] = "interrupted", item'[i] # "interrupted"
                 PROVE  \E j \in Job : Working(j) /\ sess[j].item = i /\ status[j] = "interrupted"
      OBVIOUS
    <2> USE DEF AskInv
    <2>1. ASSUME NEW j \in Job, TakeItem(j) \/ CompleteItem(j) \/ FailItem(j)
          PROVE  Working(j) /\ sess[j].item = i /\ status[j] = "interrupted"
      <3>1. Working(j) /\ sess[j].item = i
        BY <2>1 DEF TakeItem, CompleteItem, FailItem, At, Working, AskTypeOK
      <3>2. QED
        BY <3>1 DEF OnlyOrphansLag
    <2>2. ASSUME NEW t \in Threads, AddItem(t) PROVE FALSE
      <3>1. i = added + 1
        BY <2>2 DEF AddItem, AskTypeOK
      <3>2. QED
        BY <3>1 DEF ItemShape, AskTypeOK
    <2>3. CASE Settling
      <3>1. PICK n \in Item, j \in Job : /\ FailCut(j, n) \/ CancelWaiting(j, n)
                                        /\ i = n
        BY <2>3, SettlingEffect DEF AskTypeOK
      <3>2. tick = "reaped" /\ i \in settling.cut \union settling.waiting
        BY <3>1 DEF FailCut, CancelWaiting, Ending, FirstOf
      <3>3. QED
        BY <3>2 DEF SettleShape
    <2>4. ~AskReady /\ ~AskSweep
      BY LaneOnlyEffect
    <2>5. item' # item
      OBVIOUS
    <2>6. QED
      BY <2>1, <2>2, <2>3, <2>4, <2>5, StepKinds
      DEF Usual, AskStart, SettleSession, AskCrash, AskBeginClose, CloseStep,
          AddSingle, AskQuestion, ConfirmPlan, ThreadStep, PrepareRaises, Prepared,
          ReuseAnswer, FindSession, SpawnSession, Release, StopSession, LoseSession,
          LaneStep, AskWorker, SessionStep, SeeRelease, Returns, PickItem, SeeNothing,
          Goes, Yield, IdleOut, Sleep, SaveDraft, SaveAnswer, FailItsQuestion, itemVars,
          askVars, allVars
  <1>2. QED
    BY <1>1, AskInvariant, PTL DEF AskSpec, RevivedByOrphan

(* First come, first served, per model, over any number of sessions.        *)
THEOREM ServedFifo == AskSpec => ServedInOrder
  <1> DEFINE InOrder == \A i \in Item : item[i] = "queued" /\ item'[i] = "running" =>
                            \A k \in QueuedFor(work[i].key) : i <= k
  <1>1. AskInv /\ [AskNext]_allVars => [InOrder]_allVars
    <2> SUFFICES ASSUME AskInv, [AskNext]_allVars,
                        NEW i \in Item, item[i] = "queued", item'[i] = "running",
                        NEW k \in QueuedFor(work[i].key)
                 PROVE  i <= k
      OBVIOUS
    <2>1. QED
      BY TakenInOrder
  <1>2. QED
    BY <1>1, AskInvariant, PTL DEF AskSpec, ServedInOrder

(* An answer is only taken back in the four ways AnsweredStays names.       *)
LEMMA AnswerTaken ==
    ASSUME AskInv, [AskNext]_allVars, NEW q \in Questions,
           question[q] = "answered", question'[q] # "answered"
    PROVE  \/ ReadEarlier(q)
           \/ \E t \in Threads : Overtaken(t, q)
           \/ \E j \in Job : FailsFor(j, q) \/ DraftsAsOrphan(j, q)
  <1> USE DEF AskInv
  <1>1. ASSUME NEW t \in Threads, ThreadStep(t) PROVE Overtaken(t, q)
    <2>1. Prepared(t)
      BY <1>1
      DEF ThreadStep, PrepareRaises, ReuseAnswer, AddItem, FindSession, SpawnSession,
          AskTypeOK
    <2>2. thread[t].question = q
      BY <2>1 DEF Prepared, AskTypeOK
    <2>3. thread[t].step = "prepare" /\ thread'[t].step = "add"
      BY <2>1 DEF Prepared, Step, AskTypeOK
    <2>4. QED
      BY <2>2, <2>3 DEF Overtaken
  <1>2. ASSUME NEW j \in Job, SaveDraft(j) PROVE DraftsAsOrphan(j, q)
    <2>1. /\ sess[j].pc = "serving" /\ proc[j] = "holding"
          /\ work[sess[j].item].kind = "plan_draft"
      BY <1>2 DEF SaveDraft, Serving, At
    <2>2. work[sess[j].item].question = q
      BY <1>2 DEF SaveDraft, AskTypeOK
    <2>3. status[j] = "interrupted"
      BY <2>1, <2>2 DEF DraftsInTime, DraftOf
    <2>4. sess[j].item \in 1..added /\ sess[j].item \in Item
      BY <2>1, QueueGrows DEF SessionShape, InPlace
    <2>5. work[sess[j].item].key = PlanKey
      BY <2>1, <2>4 DEF ItemShape, KeyOf
    <2>6. work[sess[j].item] = [kind |-> "plan_draft", question |-> q, key |-> PlanKey]
      <3>1. work[sess[j].item] \in Work
        BY <2>4 DEF AskTypeOK
      <3>2. QED
        BY <2>1, <2>2, <2>5, <3>1 DEF Work
    <2>7. sess'[j].pc = "saved"
      BY <1>2 DEF SaveDraft, Goes, AskTypeOK
    <2>8. QED
      BY <2>1, <2>3, <2>6, <2>7 DEF DraftsAsOrphan
  <1>3. ASSUME NEW j \in Job, FailItsQuestion(j) PROVE FailsFor(j, q)
    <2>1. sess[j].pc = "failing" /\ sess'[j].pc = "loop"
      BY <1>3 DEF FailItsQuestion, At, Goes, AskTypeOK
    <2>2. work[sess[j].item].question = q
      BY <1>3 DEF FailItsQuestion, AskTypeOK
    <2>3. QED
      BY <2>1, <2>2 DEF FailsFor
  <1>4. ASSUME NEW j \in Job, SessionStep(j) PROVE SaveDraft(j) \/ FailItsQuestion(j)
    <2>1. ~SaveAnswer(j)
      BY DEF SaveAnswer, AskTypeOK
    <2>2. QED
      BY <1>4, <2>1
      DEF SessionStep, SeeRelease, Returns, PickItem, SeeNothing, Goes, Yield,
          IdleOut, Sleep, TakeItem, CompleteItem, FailItem, itemVars, askVars
  <1>5. Settling => ReadEarlier(q)
    BY SettlingEffect DEF FailQuestion, ReadEarlier, Settled, AskTypeOK
  <1>6. ~AskReady /\ ~AskSweep
    BY LaneOnlyEffect
  <1>7. ASSUME NEW j \in Job, \/ LaneStep(j) \/ AskWorker(j) \/ LoseSession(j)
                              \/ Release(j) \/ StopSession(j) \/ SettleSession(j)
        PROVE  FALSE
    BY <1>7 DEF LaneStep, AskWorker, LoseSession, Release, StopSession, SettleSession,
        askVars
  <1>8. \/ AskStart \/ AskCrash \/ AskBeginClose \/ CloseStep \/ AddSingle \/ UNCHANGED allVars
        => FALSE
    BY DEF AskStart, AskCrash, AskBeginClose, CloseStep, AddSingle, askVars, allVars
  <1>9. ~(PickNothing /\ UNCHANGED askVars)
    BY DEF askVars
  <1>10. ASSUME NEW t \in Threads, NEW r \in Questions, AskQuestion(t, r) \/ ConfirmPlan(t, r)
         PROVE  FALSE
    BY <1>10 DEF AskQuestion, ConfirmPlan, AskTypeOK
  <1>11. QED
    BY <1>1, <1>2, <1>3, <1>4, <1>5, <1>6, <1>7, <1>8, <1>9, <1>10, StepKinds DEF Usual

(* No ending session, settled, cancelled or interrupted step takes back an  *)
(* answer that was there when fail_question read the question (jobs.py      *)
(* fail_question, session_ended, start).                                    *)
THEOREM AnsweredKept == AskSpec => AnsweredStays
  <1> DEFINE Kept == \A q \in Questions : question[q] = "answered" =>
                        \/ question'[q] = "answered"
                        \/ ReadEarlier(q)
                        \/ \E t \in Threads : Overtaken(t, q)
                        \/ \E j \in Job : FailsFor(j, q) \/ DraftsAsOrphan(j, q)
  <1>1. AskInv /\ [AskNext]_allVars => [Kept]_allVars
    <2> SUFFICES ASSUME AskInv, [AskNext]_allVars,
                        NEW q \in Questions, question[q] = "answered", question'[q] # "answered"
                 PROVE  \/ ReadEarlier(q)
                        \/ \E t \in Threads : Overtaken(t, q)
                        \/ \E j \in Job : FailsFor(j, q) \/ DraftsAsOrphan(j, q)
      OBVIOUS
    <2>1. QED
      BY AnswerTaken
  <1>2. QED
    BY <1>1, AskInvariant, PTL DEF AskSpec, AnsweredStays

-----------------------------------------------------------------------------
(* No waiting item is stranded, unless the user stops a queued session or a *)
(* session's Popen fails: in both the row ends without session_ended.       *)

(* enqueue adds an active session of its key. *)
LEMMA EnqueuedIsActive ==
    ASSUME LaneInv, NEW key, Enqueue("session", key)
    PROVE  HasActiveSession(key)'
  <1>1. made + 1 \in Job
    BY JobsAssumption DEF Enqueue, LaneInv, TypeOK, Job
  <1>2. status'[made + 1] = "queued"
    BY <1>1 DEF Enqueue, LaneInv, TypeOK
  <1>3. spec'[made + 1] = [role |-> "session", group |-> key]
    BY <1>1 DEF Enqueue, LaneInv, TypeOK
  <1>4. spec'[made + 1].role = "session" /\ spec'[made + 1].group = key
    BY <1>3
  <1>5. QED
    BY <1>1, <1>2, <1>4 DEF HasActiveSession, IsSession, Active

(* An active session leaves the queue or the lane by a tick that reaps it.  *)
LEMMA ActiveSessionStays ==
    ASSUME "queued" \notin StopStates, "session" \notin LaunchErrors,
           LaneInv, [AskNext]_allVars, server' = "up",
           NEW j \in Job, IsSession(j), status[j] \in Active
    PROVE  status'[j] \in Active \/ (Reap(j) /\ UNCHANGED askVars)
  <1> USE DEF Active
  <1>0. TypeOK
    BY DEF LaneInv
  <1>1. ASSUME NEW role, NEW group, Enqueue(role, group) PROVE status'[j] = status[j]
    BY <1>1, JobsAssumption DEF Enqueue, LaneInv, TypeOK, RowShape, Job
  <1>2. ASSUME NEW h \in Job PROVE ~Partners(h, j)
    BY DEF Partners, IsSession, PairRoles
  <1>3. ASSUME NEW t \in Threads, ThreadStep(t) PROVE status'[j] = status[j]
    BY <1>1, <1>3
    DEF ThreadStep, PrepareRaises, Prepared, ReuseAnswer, AddItem, FindSession,
        SpawnSession, vars
  <1>4. ASSUME NEW h \in Job, SessionStep(h) PROVE status'[j] = status[j]
    BY <1>4
    DEF SessionStep, SeeRelease, Returns, PickItem, SeeNothing, Goes, Yield, IdleOut, Sleep,
        TakeItem, SaveDraft, SaveAnswer, CompleteItem, FailItem, FailItsQuestion, vars
  <1>5. ASSUME NEW h \in Job, SettleSession(h) PROVE status'[j] = status[j]
    BY <1>1, <1>5 DEF SettleSession
  <1>6. ASSUME NEW h \in Job, LaneStep(h)
        PROVE  status'[j] \in Active \/ (Reap(j) /\ UNCHANGED askVars)
    <2>1. CASE Reap(h)
      BY <1>6, <2>1 DEF LaneStep, Reap, LaneInv, TypeOK
    <2>2. CASE Settle(h)
      BY <1>2, <2>2 DEF Settle, Swept, LaneInv, TypeOK
    <2>3. CASE Launch(h) \/ MarkRunning(h)
      BY <2>3 DEF Launch, MarkRunning, LaneInv, TypeOK
    <2>4. CASE spec[h].role \in LaunchErrors /\ LaunchFail(h)
      <3>1. h # j
        BY <2>4 DEF IsSession
      <3>2. status'[j] = status[j]
        BY <2>4, <3>1 DEF LaunchFail, EndJob, LaneInv, TypeOK
      <3>3. QED
        BY <3>2
    <2>5. QED
      BY <1>6, <2>1, <2>2, <2>3, <2>4 DEF LaneStep
  <1>7. ASSUME NEW h \in Job, StopSession(h) PROVE status'[j] \in Active
    <2>1. StopCurrent(h)
      BY <1>7 DEF StopSession, Stop, StopQueued
    <2>2. QED
      BY <2>1 DEF StopCurrent, LaneInv, TypeOK
  <1>8. ASSUME NEW h \in Job, AskWorker(h) \/ LoseSession(h) \/ Release(h)
        PROVE  status'[j] = status[j]
    BY <1>8 DEF AskWorker, AcquireGpu, WorkerDies, WorkerExits, LoseSession, Release, vars
  <1>9. AskBeginClose \/ PickNothing \/ UNCHANGED allVars => UNCHANGED status
    BY DEF AskBeginClose, BeginClose, PickNothing, allVars, vars
  <1>10. ~AskStart /\ ~AskCrash /\ ~CloseStep
    BY DEF AskStart, Start, AskCrash, Crash, Forget, CloseStep, CloseStop, FinishClose
  <1>11. AddSingle => status'[j] = status[j]
    BY <1>1 DEF AddSingle, EnqueueSingle
  <1>12. ASSUME NEW t \in Threads, NEW r \in Questions, AskQuestion(t, r) \/ ConfirmPlan(t, r)
         PROVE  status'[j] = status[j]
    BY <1>12 DEF AskQuestion, ConfirmPlan, vars
  <1>13. Settling \/ AskReady => UNCHANGED status
    BY SettlingEffect DEF AskReady, Ready, vars
  <1>14. CASE AskSweep
    <2>1. PICK h \in Job : status' = Swept(status, h)
      BY <1>14 DEF AskSweep, SweepStep, SweepPartners
    <2>2. QED
      BY <1>2, <2>1 DEF Swept, LaneInv, TypeOK
  <1>15. QED
    BY <1>3, <1>4, <1>5, <1>6, <1>7, <1>8, <1>9, <1>10, <1>11, <1>12, <1>13, <1>14, StepKinds
    DEF Usual

(* What watches over a waiting item of a key. *)
Watched(i, key) ==
    \/ HasActiveSession(key)
    \/ \E t \in Threads : thread[t].step \in {"check", "spawn"} /\ KeyOf(thread[t].kind) = key
    \/ /\ \E j \in Job : Ending(j) /\ spec[j].group = key
       /\ settling.listed => i \in settling.waiting

(* An active session stays, or it is reaped and its tick is about to settle it. *)
LEMMA SessionWatches ==
    ASSUME "queued" \notin StopStates, "session" \notin LaunchErrors,
           AskInv, [AskNext]_allVars, server' = "up",
           NEW i, NEW key, HasActiveSession(key)
    PROVE  Watched(i, key)'
  <1>1. PICK j \in Job : IsSession(j) /\ spec[j].group = key /\ status[j] \in Active
    BY DEF HasActiveSession
  <1>2. status'[j] \in Active \/ (Reap(j) /\ UNCHANGED askVars)
    BY <1>1, ActiveSessionStays DEF AskInv
  <1>3. spec'[j] = spec[j]
    BY <1>1, RowKept DEF AskInv, Active
  <1>4. CASE Reap(j) /\ UNCHANGED askVars
    <2>1. settling = NotSettling
      BY <1>4 DEF Reap, AskInv, SettleShape, Ending
    <2>2. Ending(j)' /\ ~settling'.listed
      BY <1>1, <1>3, <1>4, <2>1 DEF Reap, Ending, IsSession, NotSettling, askVars
    <2>3. QED
      BY <1>1, <1>3, <2>2 DEF Watched
  <1>5. QED
    BY <1>1, <1>2, <1>3, <1>4 DEF Watched, HasActiveSession, IsSession

(* A request between the check and the start of a session ends with one.    *)
LEMMA RequestWatches ==
    ASSUME AskInv, [AskNext]_allVars, server' = "up", NEW i, NEW key,
           NEW t \in Threads, thread[t].step \in {"check", "spawn"}, KeyOf(thread[t].kind) = key
    PROVE  Watched(i, key)'
  <1> USE DEF AskInv
  <1>1. CASE thread'[t] = thread[t]
    BY <1>1 DEF Watched, KeyOf
  <1>2. CASE FindSession(t)
    <2>1. CASE HasActiveSession(key)
      BY <1>2, <2>1 DEF FindSession, Watched, HasActiveSession, IsSession, vars
    <2>2. CASE ~HasActiveSession(key)
      <3>1. thread' = [thread EXCEPT ![t].step = "spawn"]
        BY <1>2, <2>2 DEF FindSession, Step
      <3>2. thread'[t].step = "spawn" /\ thread'[t].kind = thread[t].kind
        BY <3>1 DEF AskTypeOK
      <3>3. QED
        BY <3>2 DEF Watched, KeyOf
    <2>3. QED
      BY <2>1, <2>2
  <1>3. CASE SpawnSession(t)
    BY <1>3, EnqueuedIsActive DEF SpawnSession, Watched
  <1>4. ThreadStep(t) => FindSession(t) \/ SpawnSession(t)
    BY DEF ThreadStep, PrepareRaises, Prepared, ReuseAnswer, AddItem
  <1>5. ASSUME NEW u \in Threads, ThreadStep(u), u # t PROVE thread'[t] = thread[t]
    BY <1>5
    DEF ThreadStep, PrepareRaises, Prepared, ReuseAnswer, AddItem, FindSession,
        SpawnSession, Done, Step, AskTypeOK
  <1>6. ASSUME NEW u \in Threads, NEW r \in Questions, AskQuestion(u, r) \/ ConfirmPlan(u, r)
        PROVE  thread'[t] = thread[t]
    BY <1>6 DEF AskQuestion, ConfirmPlan, Idle, AskTypeOK
  <1>7. \/ UNCHANGED thread \/ AskCrash
        \/ \E u \in Threads : ThreadStep(u)
        \/ \E u \in Threads, r \in Questions : AskQuestion(u, r) \/ ConfirmPlan(u, r)
    BY OnlyRequestsMoveThreads
  <1>8. ~AskCrash
    BY DEF AskCrash, Crash, Forget
  <1>9. QED
    BY <1>1, <1>2, <1>3, <1>4, <1>5, <1>6, <1>7, <1>8

(* The tick that reaped the last session starts another for what waits.     *)
LEMMA TickWatches ==
    ASSUME AskInv, [AskNext]_allVars, server' = "up",
           NEW key \in SessionKeys, NEW j \in Job, Ending(j), spec[j].group = key,
           NEW i \in Item, item[i] = "queued", work[i].key = key, item'[i] = "queued",
           settling.listed => i \in settling.waiting
    PROVE  Watched(i, key)'
  <1> USE DEF AskInv
  <1>1. status[j] # "none" /\ current = j /\ tick = "reaped" /\ current # None /\ IsSession(j)
    BY DEF Ending, LaneInv, TickShape, Ended
  <1>2. spec'[j] = spec[j] /\ server # "starting"
    BY <1>1, RowKept DEF StartShape
  <1>3. ASSUME NEW h \in Job, SettleSession(h) PROVE Watched(i, key)'
    <2>1. h = j
      BY <1>1, <1>3 DEF SettleSession, Ending
    <2>2. status[j] # "cancelled" /\ settling.waiting # {}
      BY <1>3, <2>1 DEF SettleSession
    <2>3. CASE HasActiveSession(key)
      <3>1. UNCHANGED <<status, spec>>
        BY <1>3, <2>1, <2>3 DEF SettleSession, Continues
      <3>2. QED
        BY <2>3, <3>1 DEF Watched, HasActiveSession, IsSession
    <2>4. CASE ~HasActiveSession(key)
      <3>1. Enqueue("session", key)
        BY <1>3, <2>1, <2>2, <2>4 DEF SettleSession, Continues
      <3>2. HasActiveSession(key)'
        BY <3>1, EnqueuedIsActive
      <3>3. QED
        BY <3>2 DEF Watched
    <2>5. QED
      BY <2>3, <2>4
  <1>4. ASSUME \A h \in Job : ~SettleSession(h), settling'.listed => i \in settling'.waiting
        PROVE  Watched(i, key)'
    <2>1. Ending(j)'
      BY <1>4, EndingStays
    <2>2. QED
      BY <1>2, <1>4, <2>1 DEF Watched
  <1>5. CASE UNCHANGED settling
    BY <1>3, <1>4, <1>5
  <1>6. CASE Settling
    <2>1. \A h \in Job : ~SettleSession(h)
      <3>1. UNCHANGED vars
        BY <1>6, SettlingEffect
      <3>2. QED
        BY <1>1, <3>1 DEF SettleSession, vars
    <2>2. settling \in [listed : BOOLEAN, cut : SUBSET Item, waiting : SUBSET Item,
                       step : {"items", "get", "put"},
                       question : Questions \union {None}, read : QuestionStatus]
      BY DEF AskTypeOK
    <2>3. CASE ReadQuestion \/ FailQuestion
      <3>1. settling'.listed = settling.listed /\ settling'.waiting = settling.waiting
        BY <2>2, <2>3 DEF ReadQuestion, FailQuestion
      <3>2. QED
        BY <1>4, <2>1, <3>1
    <2>4. ASSUME NEW h \in Job, ListItems(h) PROVE Watched(i, key)'
      <3>1. settling'.waiting = QueuedFor(key)
        BY <1>1, <2>2, <2>4 DEF ListItems, Ending
      <3>2. QED
        BY <1>4, <2>1, <3>1 DEF QueuedFor
    <2>5. ASSUME NEW n \in Item, NEW s, s # "queued", SettleItem(n, s) PROVE Watched(i, key)'
      <3>1. settling.listed /\ settling'.waiting = settling.waiting \ {n}
        BY <2>2, <2>5 DEF SettleItem
      <3>2. n # i
        BY <2>5 DEF SettleItem, AskTypeOK
      <3>3. QED
        BY <1>4, <2>1, <3>1, <3>2
    <2>6. ~ListOpen /\ \A n \in Item : ~Interrupt(n)
      BY <1>2 DEF ListOpen, Interrupt
    <2>7. QED
      BY <1>6, <2>3, <2>4, <2>5, <2>6 DEF Settling, FailCut, CancelWaiting
  <1>7. ~AskReady /\ ~AskCrash
    BY <1>2 DEF AskReady, Ready, AskCrash, Crash, Forget
  <1>8. QED
    BY <1>3, <1>5, <1>6, <1>7, OnlySettlingMoves

(* Every step leaves each waiting item watched. *)
LEMMA NoStrandedStep ==
    ASSUME "queued" \notin StopStates, "session" \notin LaunchErrors,
           AskInv, NoStrandedItem, [AskNext]_allVars
    PROVE  NoStrandedItem'
  <1> USE DEF AskInv
  <1> SUFFICES ASSUME server' = "up", NEW i \in Item, item'[i] = "queued",
                      NEW key, work'[i].key = key
               PROVE  Watched(i, key)'
    BY DEF NoStrandedItem, Watched
  <1>1. CASE AskReady
    <2>1. settling.listed /\ settling.waiting = {} /\ server = "starting" /\ item[i] = "queued"
      BY <1>1, LaneOnlyEffect DEF AskReady, Ready
    <2>2. QED
      BY <2>1 DEF StartShape
  <1>2. ASSUME ~AskReady, item[i] = "queued", work'[i] = work[i]
        PROVE  Watched(i, key)'
    <2>1. server = "up"
      BY <1>2, UpOnlyByStart
    <2>2. work[i].key = key
      BY <1>2
    <2>3. Watched(i, key)
      BY <1>2, <2>1, <2>2 DEF NoStrandedItem, Watched
    <2>4. key \in SessionKeys
      <3>1. i \in 1..added
        BY <1>2, QueuedAreAdded
      <3>2. work[i].key = KeyOf(work[i].kind)
        BY <3>1 DEF ItemShape
      <3>3. work[i] \in Work
        BY DEF AskTypeOK
      <3>4. work[i].kind \in Kind
        BY <3>3 DEF Work
      <3>5. QED
        BY <2>2, <3>2, <3>4, KeyOfType
    <2>5. CASE HasActiveSession(key)
      BY <1>2, <2>5, SessionWatches
    <2>6. ASSUME NEW t \in Threads, thread[t].step \in {"check", "spawn"},
                 KeyOf(thread[t].kind) = key
          PROVE  Watched(i, key)'
      BY <2>6, RequestWatches
    <2>7. ASSUME NEW j \in Job, Ending(j), spec[j].group = key,
                 settling.listed => i \in settling.waiting
          PROVE  Watched(i, key)'
      BY <1>2, <2>2, <2>4, <2>7, TickWatches
    <2>8. QED
      BY <2>3, <2>5, <2>6, <2>7 DEF Watched
  <1>3. CASE ~AskReady /\ \A t \in Threads : ~AddItem(t)
    BY <1>2, <1>3, ItemsEffect
  <1>4. ASSUME NEW t \in Threads, AddItem(t), ~AskReady PROVE Watched(i, key)'
    <2>1. CASE i = added + 1
      <3>1. work'[i] = [kind |-> thread[t].kind, question |-> thread[t].question,
                        key |-> KeyOf(thread[t].kind)]
        BY <1>4, <2>1, AddItemEffect
      <3>2. key = KeyOf(thread[t].kind)
        BY <3>1
      <3>3. thread' = [thread EXCEPT ![t].step = "check"]
        BY <1>4 DEF AddItem, Step
      <3>4. thread'[t].step = "check" /\ thread'[t].kind = thread[t].kind
        BY <3>3 DEF AskTypeOK
      <3>5. QED
        BY <3>2, <3>4 DEF Watched, KeyOf
    <2>2. CASE i # added + 1
      <3>1. work'[i] = work[i]
        BY <1>4, <2>2, AddItemEffect
      <3>2. item[i] = "queued"
        BY <2>2, QueueGrows
      <3>3. QED
        BY <1>2, <1>4, <3>1, <3>2
    <2>3. QED
      BY <2>1, <2>2
  <1>5. QED
    BY <1>1, <1>3, <1>4

(* The unlocked check of queue_item is safe: while the dashboard is up, a   *)
(* waiting item has a session, or someone about to start one. The two       *)
(* hypotheses leave out a stop of a queued session and a Popen that fails   *)
(* for a session, after which the code strands items.                       *)
THEOREM NoStranded ==
    ASSUME "queued" \notin StopStates, "session" \notin LaunchErrors
    PROVE  AskSpec => []NoStrandedItem
  <1>1. AskInit => NoStrandedItem
    BY DEF AskInit, Init, NoStrandedItem
  <1>2. AskInv /\ NoStrandedItem /\ [AskNext]_allVars => NoStrandedItem'
    BY NoStrandedStep
  <1>3. QED
    BY <1>1, <1>2, AskInvariant, PTL DEF AskSpec

-----------------------------------------------------------------------------
(* What the lane promises, with sessions on it. Of the three steps that     *)
(* JobLane does not have, only a killed session changes a process.          *)

(* A killed session leaves the lane, or never enters it. *)
LEMMA LossRefines ==
    ASSUME LaneInv, NEW j \in Job, LoseSession(j)
    PROVE  Lane!Next
  <1> USE DEF Exited
  <1>1. proc' = [proc EXCEPT ![j] = "err"] /\ proc[j] \in {"waiting", "holding"}
    BY DEF LoseSession, Alive
  <1>2. CASE proc[j] = "holding"
    <2>1. Lane!Leave(j)
      BY <1>1, <1>2 DEF Lane!Leave, LaneInv, TypeOK
    <2>2. QED
      BY <2>1 DEF Lane!Next
  <1>3. CASE proc[j] = "waiting"
    <2>1. Lane!Forgo(j)
      BY <1>1, <1>3 DEF Lane!Forgo, LaneInv, TypeOK
    <2>2. QED
      BY <2>1 DEF Lane!Next
  <1>4. QED
    BY <1>1, <1>2, <1>3

(* "Single native model-job lane" (jobs.py), with sessions in it: whatever  *)
(* questions are asked, and however sessions are stopped, replaced, killed  *)
(* or left as orphans by a dashboard that went away, at most one worker is  *)
(* inside gpu.lock, and no job gets a second worker (worker.py main).       *)
THEOREM AskExclusive == AskSpec => ExclusiveUse
  <1>1. AskInit => Lane!Init
    BY LaneInitRefines DEF AskInit
  <1>2. AskInv /\ AskInv' /\ [AskNext]_allVars => [Lane!Next]_(Lane!laneVars)
    <2> SUFFICES ASSUME AskInv, AskInv', [AskNext]_allVars
                 PROVE  [Lane!Next]_(Lane!laneVars)
      OBVIOUS
    <2>1. LaneInv /\ LaneInv'
      BY DEF AskInv
    <2>2. CASE [Next]_vars
      BY <2>1, <2>2, LaneStepRefines
    <2>3. ASSUME UNCHANGED proc PROVE [Lane!Next]_(Lane!laneVars)
      BY <2>3 DEF Lane!laneVars, Exited
    <2>4. ASSUME NEW t \in Threads, SpawnSession(t) PROVE UNCHANGED proc
      BY <2>4 DEF SpawnSession, workerVars
    <2>5. ASSUME NEW j \in Job, SettleSession(j) PROVE UNCHANGED proc
      BY <2>5 DEF SettleSession, workerVars
    <2>6. ASSUME NEW j \in Job, LoseSession(j) PROVE Lane!Next
      BY <2>1, <2>6, LossRefines
    <2>7. QED
      BY <2>2, <2>3, <2>4, <2>5, <2>6, LaneOrNew
  <1>3. QED
    BY <1>1, <1>2, AskInvariant, PTL DEF AskSpec, ExclusiveUse, Lane!Spec

(* Sessions do not jump the queue either: a worker appears only for the     *)
(* oldest row that has not ended, also when session_ended has just put a    *)
(* replacement at its end (jobs.py tick, session_ended).                    *)
THEOREM AskLaunchOrder == AskSpec => LaunchesInOrder
  <1> DEFINE Ordered == \A j \in Job : proc[j] = "none" /\ proc'[j] # "none" =>
                            /\ current = None
                            /\ \A k \in 1..(j - 1) : status[k] \in Ended
  <1>1. AskInv /\ [AskNext]_allVars => [Ordered]_vars
    <2> SUFFICES ASSUME AskInv, [AskNext]_allVars,
                        NEW j \in Job, proc[j] = "none", proc'[j] # "none"
                 PROVE  /\ current = None
                        /\ \A k \in 1..(j - 1) : status[k] \in Ended
      OBVIOUS
    <2>1. LaneInv
      BY DEF AskInv
    <2>2. CASE [Next]_vars
      BY <2>1, <2>2, OrderStep
    <2>3. ASSUME NEW t \in Threads, SpawnSession(t) PROVE FALSE
      BY <2>3 DEF SpawnSession, workerVars
    <2>4. ASSUME NEW i \in Job, SettleSession(i) PROVE FALSE
      BY <2>4 DEF SettleSession, workerVars
    <2>5. ASSUME NEW i \in Job, LoseSession(i) PROVE FALSE
      BY <2>1, <2>5 DEF LoseSession, Alive, LaneInv, TypeOK
    <2>6. QED
      BY <2>2, <2>3, <2>4, <2>5, LaneOrNew
  <1>2. QED
    BY <1>1, AskInvariant, PTL DEF AskSpec, LaunchesInOrder

(* The outcome of a job or a session, once shown, never changes: not by a   *)
(* restart that interrupts what is open, nor by a stop or a release that    *)
(* comes late (jobs.py start, stop; server.py release_sessions).            *)
THEOREM AskOutcomesAreFinal == AskSpec => OutcomeIsFinal
  <1> DEFINE Final == faults = 0 => \A j \in Job : status[j] \in Ended => status'[j] = status[j]
  <1>1. AskInv /\ [AskNext]_allVars => [Final]_vars
    BY AskFinalStep DEF AskInv
  <1>2. QED
    BY <1>1, AskInvariant, PTL DEF AskSpec, OutcomeIsFinal

=============================================================================
