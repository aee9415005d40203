---------------------------- MODULE AskSession -----------------------------
(***************************************************************************)
(* Ask on top of the job lane: questions, the steps ("session items") they *)
(* wait for, and the session jobs that keep one model loaded and serve     *)
(* them (server.py ask_question, confirm_plan, queue_item, release;        *)
(* worker.py run_session; jobs.py session_ended, fail_question, start).    *)
(*                                                                         *)
(* Everything of JobLane is here too. A session job differs from a single  *)
(* job in what its worker does and in what tick() does when it ends.       *)
(* Request handlers run in a thread pool, without Jobs.mutex: `thread'     *)
(* says where each one is between its store calls. `settling' says the same *)
(* of session_ended and start(): they go through a list of items they read  *)
(* once, and fail_question reads a question before it writes it.            *)
(***************************************************************************)
EXTENDS JobLane, FiniteSets

CONSTANTS
    Questions,
    MaxItems,       \* bound: session items ever added
    MaxSingles,     \* bound: single jobs the user adds beside the sessions
    Threads,        \* requests handled at the same time
    PlanKey,        \* session_key of the model that drafts plans
    AnswerKey,      \* session_key of the model that answers
    StopStates,     \* environment: statuses in which the user stops sessions
    LaunchErrors,   \* environment: roles of the jobs whose Popen may fail
    MaxReleases,    \* bound: release files written
    MaxLosses       \* bound: session workers killed from outside (OOM)

ASSUME AskAssumption ==
    /\ MaxItems \in Nat /\ MaxSingles \in Nat /\ MaxReleases \in Nat /\ MaxLosses \in Nat
    /\ PlanKey \in SessionKeys /\ AnswerKey \in SessionKeys
    /\ StopStates \subseteq {"queued", "running", "stopping"}
    /\ LaunchErrors \subseteq Role
    /\ IsFiniteSet(Threads)

VARIABLES
    added,      \* items so far; item i is the i-th in rowid order
    item,       \* status of each item
    work,       \* what an item is for: kind, question, session_key
    by,         \* session_job_id of an item, None until a session takes it
    question,   \* status of each question
    thread,     \* request handlers in flight
    sess,       \* where each session worker is in run_session's loop
    settling,   \* how far session_ended or start() is through its items
    released,   \* jobs with a release file in their output directory
    losses

itemVars == <<added, item, work, by>>
askVars == <<added, item, work, by, question, thread, sess, settling, released, losses>>
allVars == <<vars, askVars>>

Item == 1..MaxItems
Kind == {"plan_draft", "answer"}
KeyOf(kind) == IF kind = "plan_draft" THEN PlanKey ELSE AnswerKey
Work == [kind : Kind, question : Questions \union {None}, key : SessionKeys \union {None}]
NoWork == [kind |-> "answer", question |-> None, key |-> None]
Settled == {"answered", "failed"}
QuestionStatus == {"none", "drafting_plan", "plan_ready", "answering"} \union Settled
Idle == [step |-> "idle", question |-> None, kind |-> "answer"]
AtLoop == [pc |-> "loop", item |-> 0]
NotSettling == [listed |-> FALSE, cut |-> {}, waiting |-> {},
                step |-> "items", question |-> None, read |-> "none"]

IsSession(j) == spec[j].role = "session"
HasActiveSession(key) ==
    \E j \in Job : IsSession(j) /\ spec[j].group = key /\ status[j] \in Active
QueuedFor(key) == {i \in Item : item[i] = "queued" /\ work[i].key = key}

AskTypeOK ==
    /\ TypeOK
    /\ added \in 0..MaxItems
    /\ item \in [Item -> {"none", "queued", "running", "completed", "failed",
                          "cancelled", "interrupted"}]
    /\ work \in [Item -> Work]
    /\ by \in [Item -> Job \union {None}]
    /\ question \in [Questions -> QuestionStatus]
    /\ thread \in [Threads -> [step : {"idle", "prepare", "add", "check", "spawn"},
                               question : Questions \union {None}, kind : Kind]]
    /\ sess \in [Job -> [pc : {"loop", "empty", "picked", "serving", "saved", "failing"},
                         item : Item \union {0}]]
    /\ settling \in [listed : BOOLEAN, cut : SUBSET Item, waiting : SUBSET Item,
                    step : {"items", "get", "put"},
                    question : Questions \union {None}, read : QuestionStatus]
    /\ released \in SUBSET Job
    /\ losses \in 0..MaxLosses

AskInit ==
    /\ Init
    /\ added = 0
    /\ item = [i \in Item |-> "none"]
    /\ work = [i \in Item |-> NoWork]
    /\ by = [i \in Item |-> None]
    /\ question = [q \in Questions |-> "none"]
    /\ thread = [t \in Threads |-> Idle]
    /\ sess = [j \in Job |-> AtLoop]
    /\ settling = NotSettling
    /\ released = {}
    /\ losses = 0

-----------------------------------------------------------------------------
(* Requests. *)

Step(t, s) == thread' = [thread EXCEPT ![t].step = s]
Done(t) == thread' = [thread EXCEPT ![t] = Idle]

(* Bound: a request only begins when the item it may add still fits. *)
Room == added + Cardinality({t \in Threads : thread[t] # Idle}) < MaxItems

(* ask_question adds the question; with draft_plan, queue_item follows.     *)
AskQuestion(t, q) ==
    /\ server = "up"
    /\ thread[t] = Idle
    /\ question[q] = "none"
    /\ \/ /\ Room
          /\ question' = [question EXCEPT ![q] = "drafting_plan"]
          /\ thread' = [thread EXCEPT
                ![t] = [step |-> "add", question |-> q, kind |-> "plan_draft"]]
       \/ /\ question' = [question EXCEPT ![q] = "plan_ready"]
          /\ UNCHANGED thread
    /\ UNCHANGED <<vars, itemVars, sess, settling, released, losses>>

(* confirm_plan reads the status once, then prepares the case (SQL,         *)
(* factsheet, evidence), which takes time and may raise.                    *)
(* Mutant: the status is not looked at. *)
ConfirmUnread(t, q) ==
    /\ server = "up"
    /\ thread[t] = Idle
    /\ question[q] # "none"
    /\ Room
    /\ thread' = [thread EXCEPT ![t] = [step |-> "prepare", question |-> q, kind |-> "answer"]]
    /\ UNCHANGED <<vars, itemVars, question, sess, settling, released, losses>>

ConfirmPlan(t, q) ==
    /\ server = "up"
    /\ thread[t] = Idle
    /\ question[q] \in {"plan_ready", "failed"}
    /\ Room
    /\ thread' = [thread EXCEPT ![t] = [step |-> "prepare", question |-> q, kind |-> "answer"]]
    /\ UNCHANGED <<vars, itemVars, question, sess, settling, released, losses>>

PrepareRaises(t) ==
    /\ thread[t].step = "prepare"
    /\ Done(t)
    /\ UNCHANGED <<vars, itemVars, question, sess, settling, released, losses>>

Prepared(t) ==
    /\ thread[t].step = "prepare"
    /\ question' = [question EXCEPT ![thread[t].question] = "answering"]
    /\ Step(t, "add")
    /\ UNCHANGED <<vars, itemVars, sess, settling, released, losses>>

(* memory.lookup finds an answer for exactly these inputs. *)
ReuseAnswer(t) ==
    /\ thread[t].step = "add"
    /\ thread[t].kind = "answer"
    /\ question' = [question EXCEPT ![thread[t].question] = "answered"]
    /\ Done(t)
    /\ UNCHANGED <<vars, itemVars, sess, settling, released, losses>>

(* queue_item: add the item, look for an active session, start one if none. *)
AddItem(t) ==
    /\ thread[t].step = "add"
    /\ added' = added + 1
    /\ item' = [item EXCEPT ![added + 1] = "queued"]
    /\ work' = [work EXCEPT ![added + 1] =
                    [kind |-> thread[t].kind, question |-> thread[t].question,
                     key |-> KeyOf(thread[t].kind)]]
    /\ Step(t, "check")
    /\ UNCHANGED <<vars, by, question, sess, settling, released, losses>>

FindSession(t) ==
    /\ thread[t].step = "check"
    /\ IF HasActiveSession(KeyOf(thread[t].kind)) THEN Done(t) ELSE Step(t, "spawn")
    /\ UNCHANGED <<vars, itemVars, question, sess, settling, released, losses>>

SpawnSession(t) ==
    /\ thread[t].step = "spawn"
    /\ Enqueue("session", KeyOf(thread[t].kind))
    /\ Done(t)
    /\ UNCHANGED <<workerVars, server, tick, sweeping, current, creating, bounds, late,
                   itemVars, question, sess, settling, released, losses>>

AddSingle ==
    /\ Cardinality({j \in 1..made : spec[j].role = "single"}) < MaxSingles
    /\ EnqueueSingle
    /\ UNCHANGED askVars

(* release_sessions, for a running session: it writes a release file. For a *)
(* queued one it calls jobs.stop (StopSession).                             *)
Release(j) ==
    /\ server = "up"
    /\ IsSession(j)
    /\ status[j] = "running"
    /\ Cardinality(released) < MaxReleases
    /\ released' = released \union {j}
    /\ UNCHANGED <<vars, itemVars, question, thread, sess, settling, losses>>

StopSession(j) ==
    /\ IsSession(j)
    /\ status[j] \in StopStates
    /\ Stop(j)
    /\ UNCHANGED askVars

-----------------------------------------------------------------------------
(* The scheduler. *)

(* A dashboard that goes away takes its request handlers with it; one that  *)
(* closes waits for them first.                                             *)
AskCrash ==
    /\ Crash
    /\ thread' = [t \in Threads |-> Idle]
    /\ settling' = NotSettling
    /\ UNCHANGED <<itemVars, question, sess, released, losses>>

AskBeginClose ==
    /\ \A t \in Threads : thread[t] = Idle
    /\ BeginClose
    /\ UNCHANGED askVars

(* fail_question gets the question, and if it is neither answered nor has   *)
(* failed, updates it in another transaction.                               *)
ReadQuestion ==
    /\ settling.step = "get"
    /\ settling' = [settling EXCEPT !.step = "put", !.read = question[settling.question]]
    /\ UNCHANGED <<vars, itemVars, question, thread, sess, released, losses>>

(* Mutant: the question's own status is not looked at. *)
FailAnyQuestion ==
    /\ settling.step = "put"
    /\ question' = [question EXCEPT ![settling.question] = "failed"]
    /\ settling' = [settling EXCEPT !.step = "items", !.question = None, !.read = "none"]
    /\ UNCHANGED <<vars, itemVars, thread, sess, released, losses>>
(* Mutant: only a question being answered is failed, a draft is forgotten. *)
FailAnswering ==
    /\ settling.step = "put"
    /\ IF settling.read = "answering"
       THEN question' = [question EXCEPT ![settling.question] = "failed"]
       ELSE UNCHANGED question
    /\ settling' = [settling EXCEPT !.step = "items", !.question = None, !.read = "none"]
    /\ UNCHANGED <<vars, itemVars, thread, sess, released, losses>>

FailQuestion ==
    /\ settling.step = "put"
    /\ IF settling.read \notin Settled
       THEN question' = [question EXCEPT ![settling.question] = "failed"]
       ELSE UNCHANGED question
    /\ settling' = [settling EXCEPT !.step = "items", !.question = None, !.read = "none"]
    /\ UNCHANGED <<vars, itemVars, thread, sess, released, losses>>

(* One round of a loop over items: the first of those left gets its final   *)
(* status s, and its question is next.                                      *)
FirstOf(i, left) == i \in left /\ \A k \in left : i <= k
SettleItem(i, s) ==
    /\ settling.listed /\ settling.step = "items"
    /\ item' = [item EXCEPT ![i] = s]
    /\ settling' = [settling EXCEPT !.cut = @ \ {i}, !.waiting = @ \ {i},
                                   !.step = "get", !.question = work[i].question]
    /\ UNCHANGED <<vars, added, work, by, question, thread, sess, released, losses>>

(* start() interrupts the items that wait or are in progress when it lists  *)
(* them; orphans of the earlier dashboard go on meanwhile.                  *)
OpenItems == {i \in Item : item[i] \in {"queued", "running"}}

AskStart == Start /\ UNCHANGED askVars

ListOpen ==
    /\ server = "starting"
    /\ ~settling.listed
    /\ settling' = [settling EXCEPT !.listed = TRUE, !.waiting = OpenItems]
    /\ UNCHANGED <<vars, itemVars, question, thread, sess, released, losses>>

Interrupt(i) ==
    /\ server = "starting"
    /\ FirstOf(i, settling.waiting)
    /\ SettleItem(i, "interrupted")

AskReady ==
    /\ Ready
    /\ settling.listed /\ settling.step = "items" /\ settling.waiting = {}
    /\ settling' = NotSettling
    /\ UNCHANGED <<itemVars, question, thread, sess, released, losses>>

(* session_ended(j): the item it was working on fails; the items still      *)
(* waiting are cancelled with a session that was stopped, or else a session *)
(* of the same key carries on with them.                                    *)
CutItems(j) == {i \in Item : item[i] = "running" /\ by[i] = j}

Ending(j) ==
    /\ server # "down"
    /\ tick = "reaped"
    /\ current = j
    /\ IsSession(j)

ListItems(j) ==
    /\ Ending(j)
    /\ ~settling.listed
    /\ settling' = [settling EXCEPT !.listed = TRUE, !.cut = CutItems(j),
                                   !.waiting = QueuedFor(spec[j].group)]
    /\ UNCHANGED <<vars, itemVars, question, thread, sess, released, losses>>

FailCut(j, i) ==
    /\ Ending(j)
    /\ FirstOf(i, settling.cut)
    /\ SettleItem(i, "failed")

CancelWaiting(j, i) ==
    /\ Ending(j)
    /\ settling.cut = {} /\ FirstOf(i, settling.waiting)
    /\ status[j] = "cancelled"
    /\ SettleItem(i, "cancelled")

(* Mutant: a session that ended cleanly is thought to have served them all. *)
ContinuesFailed(j) ==
    /\ status[j] = "failed"
    /\ settling.waiting # {}
    /\ ~HasActiveSession(spec[j].group)

Continues(j) ==
    /\ status[j] # "cancelled"
    /\ settling.waiting # {}
    /\ ~HasActiveSession(spec[j].group)

SettleSession(j) ==
    /\ Ending(j)
    /\ settling.listed /\ settling.step = "items" /\ settling.cut = {}
    /\ status[j] = "cancelled" => settling.waiting = {}
    /\ IF Continues(j) THEN Enqueue("session", spec[j].group)
                       ELSE UNCHANGED <<made, status, spec>>
    /\ tick' = "picking"
    /\ current' = None
    /\ settling' = NotSettling
    /\ UNCHANGED <<workerVars, server, sweeping, creating, bounds, late,
                   itemVars, question, thread, sess, released, losses>>

-----------------------------------------------------------------------------
(* run_session, in the worker that holds gpu.lock. A process that was       *)
(* signalled executes nothing more.                                         *)

At(j, pc) ==
    /\ sess[j].pc = pc
    /\ proc[j] = "holding"
    /\ j \notin signalled
    /\ IsSession(j)

Returns(j) ==
    /\ proc' = [proc EXCEPT ![j] = "ok"]
    /\ UNCHANGED <<storeVars, status, signalled, server, tick, sweeping, current, creating,
                   bounds, askVars>>

Goes(j, pc) ==
    /\ sess' = [sess EXCEPT ![j].pc = pc]
    /\ UNCHANGED <<vars, thread, settling, released, losses>>

SeeRelease(j) == At(j, "loop") /\ j \in released /\ Returns(j)

(* The oldest waiting item of this session's key. *)
(* Mutant: the newest one. *)
LastWaiting(j, i) ==
    /\ i \in QueuedFor(spec[j].group)
    /\ \A k \in QueuedFor(spec[j].group) : k <= i

FirstWaiting(j, i) ==
    /\ i \in QueuedFor(spec[j].group)
    /\ \A k \in QueuedFor(spec[j].group) : i <= k

PickItem(j) ==
    /\ At(j, "loop")
    /\ j \notin released
    /\ \E i \in Item : /\ FirstWaiting(j, i)
                       /\ sess' = [sess EXCEPT ![j] = [pc |-> "picked", item |-> i]]
    /\ UNCHANGED <<vars, itemVars, question, thread, settling, released, losses>>

SeeNothing(j) ==
    /\ At(j, "loop")
    /\ j \notin released
    /\ QueuedFor(spec[j].group) = {}
    /\ Goes(j, "empty")
    /\ UNCHANGED <<itemVars, question>>

(* Nothing waits for it: another job is queued, or 600 s have gone by, or   *)
(* it sleeps for a second.                                                  *)
(* Mutant: it looks for a job that runs, and only finds itself. *)
YieldToRunning(j) ==
    /\ At(j, "empty")
    /\ \E k \in Job \ {j} : status[k] = "running"
    /\ Returns(j)

Yield(j) ==
    /\ At(j, "empty")
    /\ \E k \in Job : status[k] = "queued"
    /\ Returns(j)

IdleOut(j) ==
    /\ At(j, "empty")
    /\ \A k \in Job : status[k] # "queued"
    /\ Returns(j)

Sleep(j) ==
    /\ At(j, "empty")
    /\ \A k \in Job : status[k] # "queued"
    /\ Goes(j, "loop")
    /\ UNCHANGED <<itemVars, question>>

TakeItem(j) ==
    /\ At(j, "picked")
    /\ item' = [item EXCEPT ![sess[j].item] = "running"]
    /\ by' = [by EXCEPT ![sess[j].item] = j]
    /\ Goes(j, "serving")
    /\ UNCHANGED <<added, work, question>>

Serving(j, kind) == At(j, "serving") /\ work[sess[j].item].kind = kind

(* The draft, valid or not, is written to the question first ... *)
SaveDraft(j) ==
    /\ Serving(j, "plan_draft")
    /\ question' = [question EXCEPT ![work[sess[j].item].question] = "plan_ready"]
    /\ Goes(j, "saved")
    /\ UNCHANGED itemVars

(* ... or complete_answer finds an answer or makes one, and points to it.   *)
SaveAnswer(j) ==
    /\ Serving(j, "answer")
    /\ question' = [question EXCEPT ![work[sess[j].item].question] = "answered"]
    /\ Goes(j, "saved")
    /\ UNCHANGED itemVars

(* Then the item is completed. *)
CompleteItem(j) ==
    /\ At(j, "saved")
    /\ item' = [item EXCEPT ![sess[j].item] = "completed"]
    /\ Goes(j, "loop")
    /\ UNCHANGED <<added, work, by, question>>

(* Any exception fails the item first, and then the question. *)
FailItem(j) ==
    /\ At(j, "serving")
    /\ item' = [item EXCEPT ![sess[j].item] = "failed"]
    /\ Goes(j, "failing")
    /\ UNCHANGED <<added, work, by, question>>

FailItsQuestion(j) ==
    /\ At(j, "failing")
    /\ question' = [question EXCEPT ![work[sess[j].item].question] = "failed"]
    /\ Goes(j, "loop")
    /\ UNCHANGED itemVars

(* The process is killed from outside, or dies while it loads the model. *)
LoseSession(j) ==
    /\ IsSession(j)
    /\ Alive(j)
    /\ losses < MaxLosses
    /\ losses' = losses + 1
    /\ proc' = [proc EXCEPT ![j] = "err"]
    /\ UNCHANGED <<storeVars, status, signalled, server, tick, sweeping, current, creating,
                   bounds, itemVars, question, thread, sess, settling, released>>

-----------------------------------------------------------------------------
ThreadStep(t) ==
    \/ PrepareRaises(t) \/ Prepared(t) \/ ReuseAnswer(t)
    \/ AddItem(t) \/ FindSession(t) \/ SpawnSession(t)

SessionStep(j) ==
    \/ SeeRelease(j) \/ PickItem(j) \/ SeeNothing(j) \/ Yield(j) \/ IdleOut(j) \/ Sleep(j)
    \/ TakeItem(j) \/ SaveDraft(j) \/ SaveAnswer(j) \/ CompleteItem(j)
    \/ FailItem(j) \/ FailItsQuestion(j)

LaneStep(j) ==
    /\ \/ Reap(j) \/ Settle(j) \/ Launch(j) \/ MarkRunning(j)
       \/ spec[j].role \in LaunchErrors /\ LaunchFail(j)
    /\ UNCHANGED askVars

AskTick ==
    \/ \E j \in Job : LaneStep(j) \/ ListItems(j) \/ SettleSession(j)
    \/ \E j \in Job, i \in Item : FailCut(j, i) \/ CancelWaiting(j, i)
    \/ PickNothing /\ UNCHANGED askVars

(* fail_question, called by start() or by session_ended. *)
FailStep == ReadQuestion \/ FailQuestion
StartStep == ListOpen \/ AskReady \/ \E i \in Item : Interrupt(i)
AskSweep == SweepStep /\ UNCHANGED askVars

AskWorker(j) ==
    \/ AcquireGpu(j) /\ UNCHANGED askVars
    \/ WorkerDies(j) /\ UNCHANGED askVars
    \/ ~IsSession(j) /\ WorkerExits(j) /\ UNCHANGED askVars

CloseStep == (CloseStop \/ FinishClose) /\ UNCHANGED askVars

AskNext ==
    \/ AskStart
    \/ StartStep \/ FailStep
    \/ AskCrash
    \/ AskBeginClose
    \/ CloseStep
    \/ AddSingle
    \/ \E t \in Threads, q \in Questions : AskQuestion(t, q) \/ ConfirmPlan(t, q)
    \/ \E t \in Threads : ThreadStep(t)
    \/ \E j \in Job : Release(j) \/ StopSession(j) \/ LoseSession(j)
    \/ AskTick \/ AskSweep
    \/ \E j \in Job : AskWorker(j) \/ SessionStep(j)

(* As in JobLane; request handlers and sessions also go on, but nothing     *)
(* says that a session's 600 s of idleness come in time to help.            *)
AskFairness ==
    /\ WF_allVars(StartStep) /\ WF_allVars(FailStep)
    /\ WF_allVars(AskTick) /\ WF_allVars(AskSweep)
    /\ WF_allVars(CloseStep)
    /\ \A t \in Threads : WF_allVars(ThreadStep(t))
    /\ \A j \in Job : WF_allVars(AskWorker(j)) /\ WF_allVars(SessionStep(j))

AskSpec == AskInit /\ [][AskNext]_allVars
FairAskSpec == AskSpec /\ AskFairness

-----------------------------------------------------------------------------
(* Safety. *)

(* A waiting item is never stranded: a session of its key is queued or      *)
(* running, or the request that added it, or the tick that settles the      *)
(* last session and has yet to list the items or has listed this one, has   *)
(* yet to start one or to cancel it. This is what makes the unlocked check  *)
(* in queue_item safe against a session that is just ending.                *)
NoStrandedItem ==
    server = "up" =>
        \A i \in Item : item[i] = "queued" =>
            \/ HasActiveSession(work[i].key)
            \/ \E t \in Threads : thread[t].step \in {"check", "spawn"}
                                  /\ KeyOf(thread[t].kind) = work[i].key
            \/ /\ \E j \in Job : Ending(j) /\ spec[j].group = work[i].key
               /\ settling.listed => i \in settling.waiting

(* fail_question is at work on the question, and will write it. *)
FailsNext(q) ==
    /\ settling.question = q
    /\ settling.step = "get" \/ (settling.step = "put" /\ settling.read \notin Settled)

(* A question the user waits for has a step that is waiting, in progress or *)
(* about to be added, or is about to be failed by the tick that settles its *)
(* session. The exception is a session killed between failing an item and   *)
(* failing its question: no one fails the question after it. It is stated   *)
(* of the first dashboard life: a crash between the store calls of a        *)
(* request leaves a question without an item, which start() does not see.   *)
NoHungQuestion ==
    server = "up" /\ starts = 1 =>
        \A q \in Questions : question[q] \in {"drafting_plan", "answering"} =>
            \/ \E i \in Item : work[i].question = q /\ item[i] \in {"queued", "running"}
            \/ \E t \in Threads : thread[t].question = q
            \/ FailsNext(q)
            \/ \E j \in Job : sess[j].pc = "failing" /\ work[sess[j].item].question = q

-----------------------------------------------------------------------------
(* What makes the safety properties inductive.                              *)

(* The rows of a session key are its sessions, and a worker that is alive   *)
(* belongs to an active row, or to one that a later dashboard interrupted.  *)
SessionRows ==
    /\ \A j \in Job : IsSession(j) <=> spec[j].group \in SessionKeys
    /\ \A j \in Job : Alive(j) => status[j] \in Active \union {"interrupted"}

(* Items are added in order, for a question and the model its step needs.   *)
ItemShape ==
    /\ \A i \in Item : item[i] = "none" <=> i > added
    /\ \A i \in 1..added :
          work[i].question \in Questions /\ work[i].key = KeyOf(work[i].kind)

(* A request that may still add an item has room for it. *)
Reserving == {t \in Threads : thread[t].step \in {"prepare", "add"}}
ThreadShape ==
    /\ added + Cardinality(Reserving) <= MaxItems
    /\ \A t \in Threads : thread[t].step # "idle" => thread[t].question \in Questions
    /\ \A t \in Threads : thread[t].step = "prepare" => thread[t].kind = "answer"

(* A session works on an item it found waiting, and is the one that took it.*)
InPlace(j) ==
    /\ proc[j] \in {"none", "waiting"} => sess[j] = AtLoop
    /\ sess[j].pc \notin {"loop", "empty"} => sess[j].item \in 1..added
    /\ sess[j].pc \in {"serving", "saved", "failing"} => item[sess[j].item] # "queued"
    /\ proc[j] = "holding" /\ sess[j].pc \in {"serving", "saved"} => by[sess[j].item] = j
    /\ proc[j] = "holding" /\ sess[j].pc = "picked" /\ item[sess[j].item] = "queued"
       => \A k \in QueuedFor(work[sess[j].item].key) : sess[j].item <= k
SessionShape == \A j \in Job : InPlace(j)

(* A question is drafted once, first, by one request and then by one item,  *)
(* and nothing else moves it before the draft is there or has failed: only  *)
(* the orphan of an earlier dashboard may hold a draft that comes late.     *)
AddsDraft(t, q) ==
    thread[t].step = "add" /\ thread[t].kind = "plan_draft" /\ thread[t].question = q
DraftOf(i, q) == work[i].kind = "plan_draft" /\ work[i].question = q
Begun(q) == question[q] \notin {"none", "drafting_plan"}

QuestionShape ==
    /\ \A i \in 1..added : question[work[i].question] # "none"
    /\ \A i \in 1..added : work[i].kind = "answer" => Begun(work[i].question)
    /\ \A t \in Threads : thread[t].step # "idle" => question[thread[t].question] # "none"
    /\ \A t \in Threads :
          thread[t].step # "idle" /\ thread[t].kind = "answer" => Begun(thread[t].question)
    /\ \A t \in Threads, q \in Questions : AddsDraft(t, q) =>
          /\ question[q] = "drafting_plan"
          /\ \A i \in 1..added : work[i].question # q
          /\ \A u \in Threads : AddsDraft(u, q) => u = t
    /\ \A q \in Questions : \A i, k \in 1..added : DraftOf(i, q) /\ DraftOf(k, q) => i = k
    /\ \A q \in Questions : \A i \in 1..added :
          DraftOf(i, q) /\ item[i] = "queued" => question[q] = "drafting_plan"

DraftsInTime ==
    \A j \in Job, q \in Questions :
        /\ proc[j] = "holding"
        /\ sess[j].pc \in {"picked", "serving"}
        /\ DraftOf(sess[j].item, q)
        => status[j] = "interrupted" \/ question[q] = "drafting_plan"

(* An item that start() interrupted is only still worked on by an orphan.   *)
Working(j) == proc[j] = "holding" /\ sess[j].pc \in {"picked", "serving", "saved"}
OnlyOrphansLag ==
    \A j \in Job :
        Working(j) /\ item[sess[j].item] = "interrupted" => status[j] = "interrupted"

(* start() goes through the items when nothing of this dashboard is under   *)
(* way, and a queued item stays in its list until it is settled.            *)
StartShape ==
    /\ server # "up" => \A t \in Threads : thread[t].step = "idle"
    /\ server = "starting" => current = None /\ \A j \in Job : status[j] \notin Active
    /\ server = "starting" /\ settling.listed =>
          \A i \in Item : item[i] = "queued" => i \in settling.waiting

(* session_ended and start() work on items they have found open, and a      *)
(* draft whose question is about to be failed is not in the queue any more. *)
SettleShape ==
    /\ settling # NotSettling =>
          (server = "starting" /\ settling.cut = {}) \/ \E j \in Job : Ending(j)
    /\ tick = "reaped" =>
          \A i \in settling.cut \union settling.waiting : item[i] # "interrupted"
    /\ settling.cut \union settling.waiting \subseteq 1..added
    /\ settling.step # "items" =>
          /\ \E i \in 1..added : work[i].question = settling.question
          /\ \A i \in 1..added : DraftOf(i, settling.question) => item[i] # "queued"

(* NoHungQuestion, without the requests and the items that are about to end *)
(* anyway; and nothing has happened before the first start.                 *)
Saved(i) == \E j \in Job : by[i] = j /\ sess[j] = [pc |-> "saved", item |-> i]
Carried(q) ==
    \/ \E i \in Item : work[i].question = q
                       /\ (item[i] = "queued" \/ (item[i] = "running" /\ ~Saved(i)))
    \/ \E t \in Threads : thread[t].question = q /\ thread[t].step = "add"
    \/ FailsNext(q)
    \/ \E j \in Job : sess[j].pc = "failing" /\ work[sess[j].item].question = q

QuestionsCarried ==
    /\ server = "up" /\ starts = 1 =>
          \A q \in Questions : question[q] \in {"drafting_plan", "answering"} => Carried(q)
    /\ starts = 0 => server = "down" /\ made = 0
    /\ starts = 0 \/ (starts = 1 /\ server = "starting") =>
          \A q \in Questions : question[q] = "none"

AskInv ==
    /\ AskTypeOK
    /\ LaneInv
    /\ CleanTick
    /\ SessionRows
    /\ ItemShape
    /\ ThreadShape
    /\ SessionShape
    /\ QuestionShape
    /\ DraftsInTime
    /\ OnlyOrphansLag
    /\ StartShape
    /\ SettleShape
    /\ QuestionsCarried

-----------------------------------------------------------------------------
(* Action properties. *)

(* An answer shown is not taken back by a session that ends, or by a step   *)
(* that is settled, cancelled or interrupted, which all leave an answered   *)
(* question alone. It can only be taken back by a fail_question that read   *)
(* the question before it was answered, by a confirmation that read it      *)
(* before a long preparation, by another item of the same question that     *)
(* fails, or by the late draft of a session whose dashboard is gone.        *)
Overtaken(t, q) ==
    thread[t].question = q /\ thread[t].step = "prepare" /\ thread'[t].step = "add"
FailsFor(j, q) ==
    sess[j].pc = "failing" /\ sess'[j].pc = "loop" /\ work[sess[j].item].question = q

ReadEarlier(q) ==
    settling.step = "put" /\ settling.question = q /\ settling.read # "answered"

DraftsAsOrphan(j, q) ==
    /\ sess[j].pc = "serving" /\ sess'[j].pc = "saved"
    /\ status[j] = "interrupted"
    /\ work[sess[j].item] = [kind |-> "plan_draft", question |-> q, key |-> PlanKey]

AnsweredStays ==
    [][\A q \in Questions : question[q] = "answered" =>
            \/ question'[q] = "answered"
            \/ ReadEarlier(q)
            \/ \E t \in Threads : Overtaken(t, q)
            \/ \E j \in Job : FailsFor(j, q) \/ DraftsAsOrphan(j, q)]_allVars

(* "Dashboard restarted before this step finished; ask again" (jobs.py): an *)
(* item that start() interrupted, with its finished_at, stays interrupted.  *)
InterruptedIsFinal ==
    [][\A i \in Item : item[i] = "interrupted" => item'[i] = "interrupted"]_allVars

(* Where it does not, an orphan of the earlier dashboard was at work on it: *)
(* no session of this dashboard ever takes it up again.                     *)
RevivedByOrphan ==
    [][\A i \in Item : item[i] = "interrupted" /\ item'[i] # "interrupted" =>
            \E j \in Job : Working(j) /\ sess[j].item = i /\ status[j] = "interrupted"]_allVars

(* Items of one key are taken in the order they were added.                 *)
ServedInOrder ==
    [][\A i \in Item : item[i] = "queued" /\ item'[i] = "running" =>
            \A k \in QueuedFor(work[i].key) : i <= k]_allVars

(* Liveness. *)

(* A question being drafted or answered reaches a state the user can act on *)
(* unless the dashboard goes away.                                          *)
QuestionResolves ==
    \A q \in Questions :
        question[q] \in {"drafting_plan", "answering"}
        ~> (question[q] \in {"plan_ready"} \union Settled \/ server # "up")

(* A session yields: a job queued behind an idle session gets the lane      *)
(* without anyone releasing the session.                                    *)
LaneIsShared ==
    \A j \in Job : status[j] = "queued" ~> (status[j] # "queued" \/ server # "up")

=============================================================================
