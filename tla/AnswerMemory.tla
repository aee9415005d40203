---------------------------- MODULE AnswerMemory ----------------------------
(***************************************************************************)
(* The answer memory of Ask (workbench/memory.py) and everybody who writes *)
(* or reads it: confirm_plan, complete_answer in the session worker,       *)
(* corrections, "Confirm correct" and "Still valid" (ask.py, server.py).   *)
(*                                                                         *)
(* There is one question text; a context stands for everything else the    *)
(* model sees, so a context is an answer_key. The memory is append-only;   *)
(* answers are immutable and numbered in the order they are stored. One    *)
(* worker at a time generates: that is JobLane's ExclusiveUse. Handlers    *)
(* run in threads, with no lock between their store calls.                 *)
(***************************************************************************)
EXTENDS Naturals, Sequences

CONSTANTS
    Questions,      \* times the question is asked
    Contexts,
    Threads,        \* requests handled at the same time
    Outcomes,       \* environment: what generations come to, of Generated
    MaxAnswers,     \* bound: answers ever stored
    MaxRecords,     \* bound: memory records ever written
    MaxWaiting,     \* bound: items waiting at the same time
    None

ASSUME MemoryAssumption ==
    /\ MaxAnswers \in Nat /\ MaxRecords \in Nat /\ MaxWaiting \in Nat
    /\ Outcomes \subseteq {"model", "system", "unstable", "invalid"}
    /\ None \notin (1..MaxAnswers) \union Contexts \union Questions

VARIABLES
    answers,    \* the answer records
    memory,     \* the answer_memory records
    question,   \* each question, and the answer it shows
    waiting,    \* answer items of the session, oldest first
    worker,     \* the session worker, inside complete_answer
    thread      \* request handlers in flight
vars == <<answers, memory, question, waiting, worker, thread>>

Answer == 1..MaxAnswers
Generated == {"model", "system", "unstable", "invalid"}
Reusable == {"model", "system", "verified"}

QuestionState ==
    [status : {"open", "answering", "answered"},    \* open: plan_ready or failed
     answer : Answer \union {None},
     previous : Answer \union {None}]   \* comparison.previous_answer_id
Unanswered == [status |-> "open", answer |-> None, previous |-> None]

WorkerState ==
    [pc : {"idle", "lookup", "found", "generate", "added", "remembered"},
     question : Questions \union {None},
     context : Contexts \union {None},
     answer : Answer \union {None}]
NoItem == [pc |-> "idle", question |-> None, context |-> None, answer |-> None]

Handler ==
    [pc : {"idle", "prepare", "lookup", "found", "remember", "show"},
     question : Questions \union {None},
     context : Contexts \union {None},
     answer : Answer \union {None}]
Idle == NoItem

TypeOK ==
    /\ answers \in Seq([context : Contexts, status : Generated \union {"verified"}])
    /\ Len(answers) <= MaxAnswers
    /\ memory \in Seq([answer : Answer, status : Generated \union {"verified"},
                       context : Contexts])
    /\ Len(memory) <= MaxRecords
    /\ question \in [Questions -> QuestionState]
    /\ waiting \in Seq([question : Questions, context : Contexts])
    /\ Len(waiting) <= MaxWaiting
    /\ worker \in WorkerState
    /\ thread \in [Threads -> Handler]

Init ==
    /\ answers = <<>>
    /\ memory = <<>>
    /\ question = [q \in Questions |-> Unanswered]
    /\ waiting = <<>>
    /\ worker = NoItem
    /\ thread = [t \in Threads |-> Idle]

-----------------------------------------------------------------------------
(* latest: the last record of an answer counts, but answers keep the order  *)
(* in which they were first remembered (a dict keyed by answer_id).         *)
Latest ==
    {n \in DOMAIN memory :
        \A m \in DOMAIN memory : memory[m].answer = memory[n].answer => m <= n}
Before(a, b) ==
    \E m \in DOMAIN memory : memory[m].answer = a
        /\ \A n \in DOMAIN memory : memory[n].answer = b => m <= n

(* found[-1], of a set of latest records. *)
Newest(ns) ==
    IF ns = {} THEN None
    ELSE memory[CHOOSE n \in ns : \A m \in ns : Before(memory[m].answer, memory[n].answer)].answer

(* lookup: verified before system before model before invalid, else nothing. *)
Having(c, s) == {n \in Latest : memory[n].context = c /\ memory[n].status = s}
(* Mutant: what the model said comes first, whatever a reviewer verified. *)
ModelFirst == <<"model", "verified", "system", "invalid">>
Priority == <<"verified", "system", "model", "invalid">>

Rank(c) ==
    LET standing == {memory[n].status : n \in {n \in Latest : memory[n].context = c}} IN
    CHOOSE i \in 1..5 :
        /\ i = 5 \/ Priority[i] \in standing
        /\ \A k \in 1..(i - 1) : Priority[k] \notin standing
Lookup(c) == IF Rank(c) = 5 THEN None ELSE Newest(Having(c, Priority[Rank(c)]))

(* previous: the newest reusable answer of another context. *)
Previous(c) ==
    Newest({n \in Latest : memory[n].context # c /\ memory[n].status \in Reusable})

Remembered(a, s, c) ==
    /\ Len(memory) < MaxRecords
    /\ memory' = Append(memory, [answer |-> a, status |-> s, context |-> c])
Stored(s, c) ==
    /\ Len(answers) < MaxAnswers
    /\ answers' = Append(answers, [context |-> c, status |-> s])

(* finish: badge "new" or "unstable" compares with the previous answer, a   *)
(* reused or verified one does not. (Precedents, answers to other texts,    *)
(* are left out.)                                                           *)
Shows(q, a, fresh) ==
    question' = [question EXCEPT ![q] =
        [status |-> "answered", answer |-> a,
         previous |-> IF fresh /\ answers[a].status # "invalid"
                      THEN Previous(answers[a].context) ELSE None]]

-----------------------------------------------------------------------------
(* confirm_plan: the status is read, the case is prepared in some context,  *)
(* the question is set to answering, and memory is consulted. An exact hit  *)
(* is shown at once; otherwise the prepared case is queued for the session. *)
ConfirmPlan(t, q) ==
    /\ thread[t] = Idle
    /\ question[q].status = "open"
    /\ \E c \in Contexts : thread' = [thread EXCEPT
          ![t] = [pc |-> "prepare", question |-> q, context |-> c, answer |-> None]]
    /\ UNCHANGED <<answers, memory, question, waiting, worker>>

Prepared(t) ==
    /\ thread[t].pc = "prepare"
    /\ question' = [question EXCEPT ![thread[t].question].status = "answering"]
    /\ thread' = [thread EXCEPT ![t].pc = "lookup"]
    /\ UNCHANGED <<answers, memory, waiting, worker>>

ConsultMemory(t) ==
    LET c == thread[t].context IN
    /\ thread[t].pc = "lookup"
    /\ IF Lookup(c) # None
       THEN /\ thread' = [thread EXCEPT ![t].pc = "found", ![t].answer = Lookup(c)]
            /\ UNCHANGED waiting
       ELSE /\ Len(waiting) < MaxWaiting
            /\ thread' = [thread EXCEPT ![t] = Idle]
            /\ waiting' = Append(waiting, [question |-> thread[t].question, context |-> c])
    /\ UNCHANGED <<answers, memory, question, worker>>

ShowFound(t) ==
    /\ thread[t].pc = "found"
    /\ Shows(thread[t].question, thread[t].answer, FALSE)
    /\ thread' = [thread EXCEPT ![t] = Idle]
    /\ UNCHANGED <<answers, memory, waiting, worker>>

-----------------------------------------------------------------------------
(* complete_answer, in the session worker: memory is consulted again, then  *)
(* the answer is generated, stored, remembered and shown.                   *)
TakeItem ==
    /\ worker.pc = "idle"
    /\ waiting # <<>>
    /\ worker' = [pc |-> "lookup", question |-> Head(waiting).question,
                  context |-> Head(waiting).context, answer |-> None]
    /\ waiting' = Tail(waiting)
    /\ UNCHANGED <<answers, memory, question, thread>>

(* Mutant: the answer is generated without looking again. *)
Generates ==
    /\ worker.pc = "lookup"
    /\ worker' = [worker EXCEPT !.pc = "generate"]
    /\ UNCHANGED <<answers, memory, question, waiting, thread>>

LookAgain ==
    /\ worker.pc = "lookup"
    /\ worker' = IF Lookup(worker.context) # None
                 THEN [worker EXCEPT !.pc = "found", !.answer = Lookup(worker.context)]
                 ELSE [worker EXCEPT !.pc = "generate"]
    /\ UNCHANGED <<answers, memory, question, waiting, thread>>

(* A rule blocks the answer (system), the repeats agree (model), disagree   *)
(* (unstable), or all fail the contract (invalid).                          *)
StoreAnswer ==
    /\ worker.pc = "generate"
    /\ \E s \in Outcomes : Stored(s, worker.context)
    /\ worker' = [worker EXCEPT !.pc = "added", !.answer = Len(answers) + 1]
    /\ UNCHANGED <<memory, question, waiting, thread>>

RememberAnswer ==
    /\ worker.pc = "added"
    /\ Remembered(worker.answer, answers[worker.answer].status, worker.context)
    /\ worker' = [worker EXCEPT !.pc = "remembered"]
    /\ UNCHANGED <<answers, question, waiting, thread>>

ShowAnswer ==
    /\ worker.pc \in {"found", "remembered"}
    /\ Shows(worker.question, worker.answer, worker.pc = "remembered")
    /\ worker' = NoItem
    /\ UNCHANGED <<answers, memory, waiting, thread>>

(* An exception fails the question. So does the scheduler when the worker   *)
(* was killed, unless the question is answered.                             *)
WorkerFails ==
    /\ worker.pc # "idle"
    /\ \/ question' = [question EXCEPT ![worker.question].status = "open"]
       \/ question[worker.question].status = "answered" /\ UNCHANGED question
    /\ worker' = NoItem
    /\ UNCHANGED <<answers, memory, waiting, thread>>

-----------------------------------------------------------------------------
(* verify, for an answer that is stored already: "Confirm correct". The     *)
(* reply says that identical questions now return this answer.              *)
ConfirmCorrect(a) ==
    /\ a \in DOMAIN answers
    /\ answers[a].status \notin {"unstable", "invalid"}
    /\ Remembered(a, "verified", answers[a].context)
    /\ UNCHANGED <<answers, question, waiting, worker, thread>>

(* verify, for another output: a valid correction of an answer, or "Still   *)
(* valid", the previous answer under the key of the current one. A copy is  *)
(* stored first. (What was read to make it, an answer, never changes.)      *)
StoreCopy(t, q, a) ==
    /\ thread[t] = Idle
    /\ Stored("verified", answers[a].context)
    /\ thread' = [thread EXCEPT
          ![t] = [pc |-> "remember", question |-> q, context |-> answers[a].context,
                  answer |-> Len(answers) + 1]]
    /\ UNCHANGED <<memory, question, waiting, worker>>

Correct(t, a) == a \in DOMAIN answers /\ StoreCopy(t, None, a)

StillValid(t, q) ==
    /\ question[q].previous # None
    /\ question[q].answer # None
    /\ StoreCopy(t, q, question[q].answer)

RememberCopy(t) ==
    /\ thread[t].pc = "remember"
    /\ Remembered(thread[t].answer, "verified", thread[t].context)
    /\ thread' = [thread EXCEPT
          ![t] = IF thread[t].question = None THEN Idle ELSE [@ EXCEPT !.pc = "show"]]
    /\ UNCHANGED <<answers, question, waiting, worker>>

ShowCopy(t) ==
    /\ thread[t].pc = "show"
    /\ question' = [question EXCEPT ![thread[t].question].answer = thread[t].answer]
    /\ thread' = [thread EXCEPT ![t] = Idle]
    /\ UNCHANGED <<answers, memory, waiting, worker>>

(* A handler stops: preparing raises, the store is locked, the dashboard    *)
(* crashes.                                                                 *)
HandlerFails(t) ==
    /\ thread[t] # Idle
    /\ thread' = [thread EXCEPT ![t] = Idle]
    /\ UNCHANGED <<answers, memory, question, waiting, worker>>

Asked == {waiting[n].question : n \in DOMAIN waiting}

(* Mutant: the status of the item is copied to the question. *)
DropCopying(qs) ==
    /\ waiting' = <<>>
    /\ question' = [q \in Questions |->
          IF q \in qs /\ question[q].status # "answered"
          THEN [question[q] EXCEPT !.status = "interrupted"] ELSE question[q]]

(* The items that waited are interrupted or cancelled, their questions fail. *)
Drop(qs) ==
    /\ waiting' = <<>>
    /\ question' = [q \in Questions |->
          IF q \in qs /\ question[q].status # "answered"
          THEN [question[q] EXCEPT !.status = "open"] ELSE question[q]]

(* The session was stopped, and the next tick settles it. *)
StopSession ==
    /\ worker.pc = "idle"
    /\ waiting # <<>>
    /\ Drop(Asked)
    /\ UNCHANGED <<answers, memory, worker, thread>>

(* The dashboard restarts; a worker that has begun an item carries on.      *)
Restart ==
    /\ waiting # <<>> \/ worker.pc # "idle" \/ \E t \in Threads : thread[t] # Idle
    /\ Drop(Asked \union ({worker.question} \ {None}))
    /\ thread' = [t \in Threads |-> Idle]
    /\ UNCHANGED <<answers, memory, worker>>

-----------------------------------------------------------------------------
HandlerStep(t) ==
    \/ Prepared(t) \/ ConsultMemory(t) \/ ShowFound(t)
    \/ RememberCopy(t) \/ ShowCopy(t)
    \/ HandlerFails(t)

WorkerStep ==
    TakeItem \/ LookAgain \/ StoreAnswer \/ RememberAnswer \/ ShowAnswer \/ WorkerFails

Next ==
    \/ \E t \in Threads : HandlerStep(t)
    \/ \E t \in Threads, q \in Questions : ConfirmPlan(t, q) \/ StillValid(t, q)
    \/ \E a \in Answer : ConfirmCorrect(a)
    \/ \E t \in Threads, a \in Answer : Correct(t, a)
    \/ WorkerStep
    \/ StopSession
    \/ Restart

Spec == Init /\ [][Next]_vars

-----------------------------------------------------------------------------
(* "The same question in the same context returns the same answer"          *)
(* (memory.py): memory never holds two reusable generated answers for one   *)
(* context, however many questions were queued, failed, killed or confirmed *)
(* twice before one was remembered.                                         *)
SameAnswerAgain ==
    \A m, n \in DOMAIN memory :
        /\ memory[m].context = memory[n].context
        /\ memory[m].status \in {"model", "system", "invalid"}
        /\ memory[n].status \in {"model", "system", "invalid"}
        => memory[m].answer = memory[n].answer

(* "Corrections are remembered immediately": when the last verification of  *)
(* a context was a correction or "Still valid", identical questions return  *)
(* it, although an answer that was being generated meanwhile is remembered  *)
(* after it.                                                                *)
LastVerified(c, n) ==
    /\ memory[n].context = c /\ memory[n].status = "verified"
    /\ \A m \in DOMAIN memory :
          memory[m].context = c /\ memory[m].status = "verified" => m <= n
NewCopy(n) ==
    /\ answers[memory[n].answer].status = "verified"
    /\ \A m \in DOMAIN memory : memory[m].answer = memory[n].answer => n <= m

CorrectionIsReturned ==
    \A c \in Contexts : \A n \in DOMAIN memory :
        LastVerified(c, n) /\ NewCopy(n) => Lookup(c) = memory[n].answer

(* What makes them inductive: a record is of a stored answer and its        *)
(* context, and only differs from it by a verification ...                  *)
RecordsFit ==
    \A n \in DOMAIN memory :
        /\ memory[n].answer \in DOMAIN answers
        /\ memory[n].context = answers[memory[n].answer].context
        /\ memory[n].status \in {answers[memory[n].answer].status, "verified"}

(* ... a worker past its second look has found nothing to return, and as it *)
(* alone remembers generated answers, that stays so until it does ...       *)
WorkerFits ==
    /\ worker.pc # "idle" => worker.question \in Questions /\ worker.context \in Contexts
    /\ worker.pc \in {"found", "added", "remembered"} => worker.answer \in DOMAIN answers
    /\ worker.pc = "added" => answers[worker.answer].context = worker.context
    /\ worker.pc \in {"generate", "added"} =>
          \A n \in DOMAIN memory : memory[n].context = worker.context =>
              memory[n].status \notin {"model", "system", "invalid"}

(* ... and whoever holds an answer, or shows one, holds one that is stored. *)
HandlersFit ==
    /\ \A t \in Threads :
          /\ thread[t].pc # "idle" => thread[t].context \in Contexts
          /\ thread[t].pc \notin {"idle", "remember"} => thread[t].question \in Questions
          /\ thread[t].pc \in {"found", "remember", "show"} => thread[t].answer \in DOMAIN answers
          /\ thread[t].pc = "remember" => answers[thread[t].answer].context = thread[t].context
    /\ \A q \in Questions : question[q].answer # None => question[q].answer \in DOMAIN answers

MemoryInv ==
    /\ TypeOK
    /\ RecordsFit
    /\ WorkerFits
    /\ HandlersFit
    /\ SameAnswerAgain

(* The same of every verification, "Confirm correct" included, whose reply  *)
(* is "Identical questions in this context now return this answer".         *)
ConfirmedIsReturned ==
    \A c \in Contexts : \A n \in DOMAIN memory :
        LastVerified(c, n) => Lookup(c) = memory[n].answer

=============================================================================
