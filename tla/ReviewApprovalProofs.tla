------------------------ MODULE ReviewApprovalProofs -----------------------
(***************************************************************************)
(* Proofs about ReviewApproval for any number of reviewers, plans,         *)
(* snapshots, handlers and revisions. ApprovalInv is the inductive         *)
(* invariant; TicketSpec follows from it step by step.                     *)
(***************************************************************************)
EXTENDS ReviewApproval, TLAPS

(* The parts of the invariant that only speak of tables and history.        *)
TablesInv == RevisionShape /\ OneSuccessor /\ RowsAsApproved /\ FeedbackBacked

(* A step that leaves the tables and the history alone keeps those parts.   *)
LEMMA TablesKept ==
    ASSUME TablesInv, UNCHANGED <<reviewVars, shownVars>>
    PROVE  TablesInv'
  BY DEF TablesInv, RevisionShape, OneSuccessor, RowsAsApproved, FeedbackBacked,
         reviewVars, shownVars

(* The service starts with empty tables and no handler.                     *)
LEMMA InitApproval == Init => ApprovalInv
  BY ReviewAssumption
  DEF Init, ApprovalInv, TypeOK, RevisionShape, RequestShape, SpendingAlone, RowsOfSnapshot,
      CorrectingAlone, OneSuccessor, RowsAsApproved, FeedbackBacked, Rev, Revision, NoRevision,
      Status, Request, Idle, NewRequest, Spending, Correcting, Feedback

(* A request that neither holds an approval it has consumed nor corrects    *)
(* anything yet, and whose fields fit its position.                         *)
Harmless(q) ==
    /\ q \in Request
    /\ q.pc \in {"idle", "create", "decide", "consume"}
    /\ q.pc # "idle" => q.who # None
    /\ q.pc \in {"create", "consume"} => q.plan # None /\ q.seen \in used
    /\ q.pc \in {"decide", "consume"} => q.rev \in 1..made
    /\ q.pc = "create" => q.rev = None
    /\ q.pc = "decide" => revision[q.rev].owner = q.who
    /\ q.pc = "decide" /\ q.plan # None => q.verdict = "rejected"

(* A handler that goes to such a request and does nothing else.             *)
LEMMA HarmlessStep ==
    ASSUME ApprovalInv, NEW t \in Threads, NEW q, Harmless(q),
           request' = [request EXCEPT ![t] = q],
           UNCHANGED <<reviewVars, envVars, shownVars>>
    PROVE  ApprovalInv'
  <1> USE DEF reviewVars, envVars, shownVars
  <1>1. TablesInv'
    BY TablesKept DEF ApprovalInv, TablesInv
  <1>2. TypeOK'
    BY DEF ApprovalInv, TypeOK, Harmless
  <1>3. request'[t] = q /\ \A u \in Threads \ {t} : request'[u] = request[u]
    BY DEF ApprovalInv, TypeOK
  <1>4. RequestShape' /\ RowsOfSnapshot'
    BY <1>3 DEF ApprovalInv, RequestShape, RowsOfSnapshot, Harmless
  <1>5. SpendingAlone'
    BY <1>3 DEF ApprovalInv, SpendingAlone, Spending, BindingOf, Harmless
  <1>6. CorrectingAlone'
    BY <1>3 DEF ApprovalInv, CorrectingAlone, Correcting, Harmless
  <1>7. QED
    BY <1>1, <1>2, <1>4, <1>5, <1>6 DEF ApprovalInv, TablesInv

(* The steps that are of this kind.                                         *)
LEMMA BeginSteps ==
    ASSUME ApprovalInv, NEW t \in Threads,
           PrepareQuery(t) \/ ReviewQuery(t) \/ ExecuteQuery(t) \/ RequestFails(t)
    PROVE  ApprovalInv'
  <1> USE ReviewAssumption
  <1>1. CASE PrepareQuery(t)
    <2>1. PICK who \in Reviewers, plan \in Plans :
            request' = [request EXCEPT
              ![t] = NewRequest("create", who, None, plan, "rejected", disk)]
      BY <1>1 DEF PrepareQuery
    <2>2. disk \in used /\ disk \in Snapshots
      BY DEF ApprovalInv, TypeOK, RowsOfSnapshot
    <2>3. Harmless(NewRequest("create", who, None, plan, "rejected", disk))
      BY <2>2 DEF Harmless, NewRequest, Request
    <2>4. QED
      BY <1>1, <2>1, <2>3, HarmlessStep DEF PrepareQuery
  <1>2. CASE ReviewQuery(t)
    <2>1. PICK who \in Reviewers, r \in 1..made, verdict \in {"approved", "rejected"},
               correction \in Plans \union {None} :
            /\ revision[r].owner = who
            /\ correction # None => verdict = "rejected"
            /\ request' = [request EXCEPT
                 ![t] = NewRequest("decide", who, r, correction, verdict, None)]
      BY <1>2 DEF ReviewQuery
    <2>2. r \in Rev
      BY DEF ApprovalInv, TypeOK, Rev
    <2>3. Harmless(NewRequest("decide", who, r, correction, verdict, None))
      BY <2>1, <2>2 DEF Harmless, NewRequest, Request
    <2>4. QED
      BY <1>2, <2>1, <2>3, HarmlessStep DEF ReviewQuery
  <1>3. CASE ExecuteQuery(t)
    <2>1. PICK who \in Reviewers, r \in 1..made, plan \in Plans :
            request' = [request EXCEPT
              ![t] = NewRequest("consume", who, r, plan, "rejected", disk)]
      BY <1>3 DEF ExecuteQuery
    <2>2. disk \in used /\ disk \in Snapshots /\ r \in Rev
      BY DEF ApprovalInv, TypeOK, RowsOfSnapshot, Rev
    <2>3. Harmless(NewRequest("consume", who, r, plan, "rejected", disk))
      BY <2>2 DEF Harmless, NewRequest, Request
    <2>4. QED
      BY <1>3, <2>1, <2>3, HarmlessStep DEF ExecuteQuery
  <1>4. CASE RequestFails(t)
    <2>1. Harmless(Idle)
      BY DEF Harmless, Request, Idle, NewRequest
    <2>2. QED
      BY <1>4, <2>1, HarmlessStep DEF RequestFails, Done
  <1>5. QED
    BY <1>1, <1>2, <1>3, <1>4

(* Where a handler may be.                                                  *)
Positions ==
    {"idle", "create", "decide", "corrected", "lineage", "consume", "run", "recheck"}

(* What moving a handler on does to the requests.                           *)
LEMMA GoesEffect ==
    ASSUME TypeOK, NEW t \in Threads, NEW pc \in Positions, Goes(t, pc)
    PROVE  /\ request' \in [Threads -> Request]
           /\ request'[t].pc = pc
           /\ request'[t].who = request[t].who /\ request'[t].rev = request[t].rev
           /\ request'[t].plan = request[t].plan /\ request'[t].seen = request[t].seen
           /\ request'[t].rows = request[t].rows /\ request'[t].verdict = request[t].verdict
           /\ \A u \in Threads \ {t} : request'[u] = request[u]
  BY DEF TypeOK, Goes, Request, Positions

(* A query that runs takes its rows from the file as it is now.             *)
LEMMA RunStep ==
    ASSUME ApprovalInv, NEW t \in Threads, RunQuery(t)
    PROVE  ApprovalInv'
  <1> USE DEF reviewVars, envVars, shownVars
  <1>1. TablesInv'
    BY TablesKept DEF ApprovalInv, TablesInv, RunQuery
  <1>2. /\ request' \in [Threads -> Request]
        /\ request[t].pc = "run" /\ request'[t].pc = "recheck" /\ request'[t].rows = disk
        /\ request'[t].who = request[t].who /\ request'[t].rev = request[t].rev
        /\ request'[t].plan = request[t].plan /\ request'[t].seen = request[t].seen
        /\ \A u \in Threads \ {t} : request'[u] = request[u]
    BY ZenonT(40) DEF ApprovalInv, TypeOK, RunQuery, Request
  <1>3. TypeOK'
    BY <1>2 DEF ApprovalInv, TypeOK, RunQuery
  <1>4. RequestShape' /\ RowsOfSnapshot'
    <2>1. RequestShape'
      BY <1>2 DEF ApprovalInv, TypeOK, RequestShape, RunQuery
    <2>2. disk \in used /\ disk \in Snapshots /\ request[t].seen \in used
      BY <1>2 DEF ApprovalInv, TypeOK, RequestShape, RowsOfSnapshot
    <2>3. request'[t].rows = request'[t].seen \/ disk' # request'[t].seen
      BY <1>2 DEF RunQuery
    <2>4. RowsOfSnapshot'
      BY <1>2, <2>2, <2>3 DEF ApprovalInv, RowsOfSnapshot, RunQuery
    <2>5. QED
      BY <2>1, <2>4
  <1>5. SpendingAlone'
    BY <1>2 DEF ApprovalInv, SpendingAlone, Spending, BindingOf, RunQuery
  <1>6. CorrectingAlone'
    BY <1>2 DEF ApprovalInv, CorrectingAlone, Correcting, RunQuery
  <1>7. QED
    BY <1>1, <1>3, <1>4, <1>5, <1>6 DEF ApprovalInv, TablesInv

(* A correction that is prepared goes on correcting the same revision.      *)
LEMMA PrepareCorrectionStep ==
    ASSUME ApprovalInv, NEW t \in Threads, PrepareCorrection(t)
    PROVE  ApprovalInv'
  <1> USE DEF reviewVars, envVars, shownVars
  <1>1. TablesInv'
    BY TablesKept DEF ApprovalInv, TablesInv, PrepareCorrection
  <1>2. /\ request' \in [Threads -> Request]
        /\ request[t].pc = "corrected" /\ request'[t].pc = "create"
        /\ request'[t].seen = disk
        /\ request'[t].who = request[t].who /\ request'[t].rev = request[t].rev
        /\ request'[t].plan = request[t].plan
        /\ \A u \in Threads \ {t} : request'[u] = request[u]
    <2>1. request[t] \in Request /\ disk \in Snapshots /\ request \in [Threads -> Request]
      BY DEF ApprovalInv, TypeOK
    <2>2. request' = [request EXCEPT ![t] = [@ EXCEPT !.pc = "create", !.seen = disk]]
      BY <2>1 DEF PrepareCorrection
    <2>3. [request[t] EXCEPT !.pc = "create", !.seen = disk] \in Request
      BY <2>1 DEF Request
    <2>4. QED
      BY <2>1, <2>2, <2>3 DEF PrepareCorrection, Request
  <1>3. TypeOK'
    BY <1>2 DEF ApprovalInv, TypeOK, PrepareCorrection
  <1>4. RequestShape' /\ RowsOfSnapshot'
    BY <1>2 DEF ApprovalInv, TypeOK, RequestShape, RowsOfSnapshot, PrepareCorrection
  <1>5. SpendingAlone'
    BY <1>2 DEF ApprovalInv, SpendingAlone, Spending, BindingOf, PrepareCorrection
  <1>6. CorrectingAlone'
    BY <1>2 DEF ApprovalInv, CorrectingAlone, Correcting, PrepareCorrection
  <1>7. QED
    BY <1>1, <1>3, <1>4, <1>5, <1>6 DEF ApprovalInv, TablesInv

(* A new extract is none of those a handler has hashed.                     *)
LEMMA ReplaceStep ==
    ASSUME ApprovalInv, ReplaceSnapshot
    PROVE  ApprovalInv'
  <1> USE DEF reviewVars, envVars, shownVars
  <1>1. TablesInv'
    BY TablesKept DEF ApprovalInv, TablesInv, ReplaceSnapshot
  <1>2. TypeOK'
    BY DEF ApprovalInv, TypeOK, ReplaceSnapshot
  <1>3. RequestShape' /\ RowsOfSnapshot'
    BY DEF ApprovalInv, RequestShape, RowsOfSnapshot, ReplaceSnapshot
  <1>4. SpendingAlone' /\ CorrectingAlone'
    BY DEF ApprovalInv, SpendingAlone, CorrectingAlone, Spending, Correcting, BindingOf,
           ReplaceSnapshot
  <1>5. QED
    BY <1>1, <1>2, <1>3, <1>4 DEF ApprovalInv, TablesInv

(* A restart drops the handlers that the controls matter to.                *)
LEMMA RestartStep ==
    ASSUME ApprovalInv, Restart
    PROVE  ApprovalInv'
  <1> USE DEF reviewVars, envVars, shownVars
  <1>1. TablesInv'
    BY TablesKept DEF ApprovalInv, TablesInv, Restart
  <1>2. Idle \in Request /\ Idle.pc = "idle"
    BY DEF Idle, NewRequest, Request
  <1>3. \A t \in Threads : request'[t] = Idle
    BY DEF Restart
  <1>4. TypeOK'
    BY <1>2 DEF ApprovalInv, TypeOK, Restart
  <1>5. RequestShape' /\ RowsOfSnapshot' /\ SpendingAlone' /\ CorrectingAlone'
    BY <1>2, <1>3 DEF ApprovalInv, RequestShape, RowsOfSnapshot, SpendingAlone,
                      CorrectingAlone, Spending, Correcting, Restart
  <1>6. QED
    BY <1>1, <1>4, <1>5 DEF ApprovalInv, TablesInv

(* What a new status does to the revisions table.                           *)
LEMMA StatusEffect ==
    ASSUME TypeOK, NEW r \in Rev, NEW s \in Status,
           revision' = [revision EXCEPT ![r].status = s]
    PROVE  /\ revision' \in [Rev -> Revision]
           /\ revision'[r].status = s
           /\ \A c \in Rev : /\ revision'[c].owner = revision[c].owner
                             /\ revision'[c].binding = revision[c].binding
                             /\ revision'[c].parent = revision[c].parent
           /\ \A c \in Rev \ {r} : revision'[c] = revision[c]
  BY ZenonT(40) DEF TypeOK, Revision

(* Consuming: the revision was approved, so no one spends or corrects it.   *)
LEMMA ConsumeStep ==
    ASSUME ApprovalInv, NEW t \in Threads, Consume(t)
    PROVE  ApprovalInv'
  <1> USE DEF reviewVars, envVars, shownVars
  <1> DEFINE r == request[t].rev
  <1>1. /\ TypeOK /\ request[t].pc = "consume" /\ r \in Rev /\ r <= made
        /\ revision[r].status = "approved" /\ revision[r].owner = request[t].who
        /\ revision[r].binding = BindingOf(request[t].plan, request[t].seen)
    <2>1. TypeOK /\ request[t].pc = "consume"
      BY DEF ApprovalInv, Consume
    <2>2. r \in 1..made
      BY <2>1 DEF ApprovalInv, RequestShape
    <2>3. r \in Rev /\ r <= made
      BY <2>1, <2>2, ReviewAssumption DEF TypeOK, Rev
    <2>4. QED
      BY <2>1, <2>3 DEF Consume, Consumable
  <1>2. /\ revision' \in [Rev -> Revision]
        /\ revision'[r].status = "consumed"
        /\ \A c \in Rev : /\ revision'[c].owner = revision[c].owner
                          /\ revision'[c].binding = revision[c].binding
                          /\ revision'[c].parent = revision[c].parent
        /\ \A c \in Rev \ {r} : revision'[c] = revision[c]
    BY <1>1, StatusEffect DEF Consume, Status
  <1>3. /\ request' \in [Threads -> Request]
        /\ request'[t].pc = "run"
        /\ request'[t].who = request[t].who /\ request'[t].rev = r
        /\ request'[t].plan = request[t].plan /\ request'[t].seen = request[t].seen
        /\ \A u \in Threads \ {t} : request'[u] = request[u]
    BY <1>1, GoesEffect DEF Consume, Positions
  <1> HIDE DEF r
  <1>4. TypeOK'
    BY <1>1, <1>2, <1>3 DEF TypeOK, Consume
  <1>5. RevisionShape'
    BY <1>1, <1>2 DEF ApprovalInv, RevisionShape, Consume, NoRevision, Rev
  <1>6. RequestShape'
    <2>1. UNCHANGED <<made, used>>
      BY DEF Consume
    <2>2. /\ request[t].who # None /\ request[t].plan # None
          /\ request[t].seen \in used /\ r \in 1..made
      BY <1>1 DEF ApprovalInv, RequestShape, r
    <2>3. \A u \in Threads : request[u].pc = "decide" => request[u].rev \in Rev
      BY ReviewAssumption DEF ApprovalInv, TypeOK, RequestShape, Rev
    <2>4. \A u \in Threads \ {t} :
              request[u].pc = "decide" => revision'[request[u].rev].owner = request[u].who
      BY <1>2, <2>3 DEF ApprovalInv, RequestShape
    <2>5. QED
      BY <1>3, <2>1, <2>2, <2>4 DEF ApprovalInv, RequestShape
  <1>12. RowsOfSnapshot'
    BY <1>3 DEF ApprovalInv, RowsOfSnapshot, Consume
  <1>7. SpendingAlone'
    <2>1. uses[r] = 0
      BY <1>1 DEF ApprovalInv, RevisionShape
    <2>2. \A u \in Threads : Spending(u) => u # t /\ request[u].rev # r
      BY <1>1 DEF ApprovalInv, SpendingAlone, Spending
    <2>3. \A u \in Threads \ {t} :
              Spending(u)' <=> Spending(u)
      BY <1>3 DEF Spending
    <2>4. \A u \in Threads : Spending(u) => request[u].rev \in Rev
      BY ReviewAssumption DEF ApprovalInv, TypeOK, RequestShape, Spending, Rev
    <2>5. QED
      BY <1>1, <1>2, <1>3, <2>1, <2>2, <2>3, <2>4, SMTT(30)
      DEF ApprovalInv, SpendingAlone, BindingOf, Consume
  <1>8. CorrectingAlone'
    BY <1>1, <1>2, <1>3, SMTT(30) DEF ApprovalInv, CorrectingAlone, Correcting, Consume
  <1>9. OneSuccessor'
    BY <1>1, <1>2 DEF ApprovalInv, OneSuccessor
  <1>10. RowsAsApproved'
    <2>1. \A s \in shown : s.rev \in Rev
      BY <1>1 DEF TypeOK, Shown
    <2>2. shown' = shown
      BY DEF Consume
    <2>3. QED
      BY <1>2, <2>1, <2>2, ZenonT(40) DEF ApprovalInv, RowsAsApproved
  <1>13. FeedbackBacked'
    BY <1>2 DEF ApprovalInv, FeedbackBacked, Consume
  <1>11. QED
    BY <1>4, <1>5, <1>6, <1>12, <1>13, <1>7, <1>8, <1>9, <1>10 DEF ApprovalInv

(* What a handler that finishes leaves behind.                              *)
LEMMA DoneEffect ==
    ASSUME TypeOK, NEW t \in Threads, Done(t)
    PROVE  /\ request' \in [Threads -> Request]
           /\ request'[t].pc = "idle"
           /\ \A u \in Threads \ {t} : request'[u] = request[u]
  BY DEF TypeOK, Done, Idle, NewRequest, Request

(* What appending a record does to the records of a revision.               *)
LEMMA AppendEffect ==
    ASSUME NEW S, NEW q \in Seq(S), NEW x \in S
    PROVE  /\ Append(q, x) \in Seq(S)
           /\ Append(q, x) # <<>>
           /\ \A n \in DOMAIN Append(q, x) :
                 \/ n \in DOMAIN q /\ Append(q, x)[n] = q[n]
                 \/ Append(q, x)[n] = x
  OBVIOUS

(* Deciding: the revision was pending or, for a correction, approved; no    *)
(* one spends it, no one else corrects it, and it has no successor.         *)
LEMMA DecideStep ==
    ASSUME ApprovalInv, NEW t \in Threads, Decide(t)
    PROVE  ApprovalInv'
  <1> USE DEF reviewVars, envVars, shownVars
  <1> DEFINE r == request[t].rev
             s == request[t].verdict
             x == [status |-> s, attempted |-> request[t].plan, corrected |-> None]
  <1>1. /\ TypeOK /\ request[t].pc = "decide" /\ request[t] \in Request
        /\ r \in Rev /\ r <= made
        /\ revision[r].status \in {"pending", "approved"}
        /\ revision[r].owner = request[t].who
        /\ s \in {"approved", "rejected"}
        /\ request[t].plan # None => s = "rejected"
    <2>1. /\ TypeOK /\ request[t].pc = "decide" /\ request[t] \in Request
      BY DEF ApprovalInv, TypeOK, Decide
    <2>2. r \in 1..made
      BY <2>1 DEF ApprovalInv, RequestShape
    <2>3. r \in Rev /\ r <= made
      BY <2>1, <2>2, ReviewAssumption DEF TypeOK, Rev
    <2>4. /\ revision[r].owner = request[t].who
          /\ request[t].plan # None => s = "rejected"
      BY <2>1 DEF ApprovalInv, RequestShape
    <2>5. s \in {"approved", "rejected"}
      BY <2>1 DEF Request
    <2>6. revision[r].status \in {"pending", "approved"}
      BY DEF Decide, Decidable
    <2>7. QED
      BY <2>1, <2>3, <2>4, <2>5, <2>6
  <1>2. /\ revision' \in [Rev -> Revision]
        /\ revision'[r].status = s
        /\ \A c \in Rev : /\ revision'[c].owner = revision[c].owner
                          /\ revision'[c].binding = revision[c].binding
                          /\ revision'[c].parent = revision[c].parent
        /\ \A c \in Rev \ {r} : revision'[c] = revision[c]
    BY <1>1, StatusEffect DEF Decide, Status
  <1>3. /\ request' \in [Threads -> Request]
        /\ \/ request'[t].pc = "idle"
           \/ /\ request'[t].pc = "corrected" /\ s = "rejected"
              /\ request'[t].who = request[t].who /\ request'[t].rev = r
              /\ request'[t].plan = request[t].plan /\ request[t].plan # None
        /\ \A u \in Threads \ {t} : request'[u] = request[u]
    <2>1. CASE request[t].plan = None
      BY <1>1, <2>1, DoneEffect DEF Decide
    <2>2. CASE request[t].plan # None
      BY <1>1, <2>2, GoesEffect DEF Decide, Positions
    <2>3. QED
      BY <2>1, <2>2
  <1>4. /\ feedback' \in [Rev -> Seq(Feedback)]
        /\ feedback'[r] # <<>>
        /\ \A n \in DOMAIN feedback'[r] :
              \/ n \in DOMAIN feedback[r] /\ feedback'[r][n] = feedback[r][n]
              \/ feedback'[r][n].corrected = None
        /\ \A c \in Rev \ {r} : feedback'[c] = feedback[c]
    <2>1. x \in Feedback
      BY <1>1 DEF Feedback, Status, Request
    <2>2. feedback' = [feedback EXCEPT ![r] = Append(@, x)]
      BY DEF Decide
    <2>3. x.corrected = None
      OBVIOUS
    <2> HIDE DEF x
    <2>4. feedback \in [Rev -> Seq(Feedback)] /\ feedback[r] \in Seq(Feedback)
      BY <1>1 DEF TypeOK
    <2>5. /\ feedback'[r] = Append(feedback[r], x)
          /\ \A c \in Rev \ {r} : feedback'[c] = feedback[c]
      BY <1>1, <2>2, <2>4
    <2>6. /\ Append(feedback[r], x) \in Seq(Feedback)
          /\ Append(feedback[r], x) # <<>>
          /\ \A n \in DOMAIN Append(feedback[r], x) :
                \/ n \in DOMAIN feedback[r] /\ Append(feedback[r], x)[n] = feedback[r][n]
                \/ Append(feedback[r], x)[n] = x
      BY <2>1, <2>4, AppendEffect
    <2>7. feedback' \in [Rev -> Seq(Feedback)]
      BY <1>1, <2>2, <2>4, <2>6
    <2>8. QED
      BY <2>3, <2>5, <2>6, <2>7
  <1> HIDE DEF r, s, x
  <1>5. TypeOK'
    BY <1>1, <1>2, <1>3, <1>4 DEF TypeOK, Decide
  <1>6. RevisionShape'
    <2>1. UNCHANGED <<made, uses>> /\ uses[r] = 0
      BY <1>1 DEF ApprovalInv, RevisionShape, Decide
    <2>2. /\ revision'[r].status # "none" /\ ~(r > made)
          /\ uses'[r] = 0 /\ feedback'[r] # <<>>
      BY <1>1, <1>2, <1>4, <2>1 DEF Rev, TypeOK
    <2>3. SUFFICES ASSUME NEW c \in Rev \ {r}
                   PROVE  /\ revision[c].status = "none" <=> c > made
                          /\ c > made => revision[c] = NoRevision
                          /\ uses[c] # 0 => revision[c].status = "consumed" /\ uses[c] = 1
                          /\ feedback[c] = <<>> => revision[c].status \in {"none", "pending"}
      BY <1>2, <1>4, <2>1, <2>2 DEF RevisionShape
    <2>4. QED
      BY DEF ApprovalInv, RevisionShape
  <1>7. RequestShape'
    <2>1. \A u \in Threads : request[u].pc = "decide" => request[u].rev \in Rev
      BY ReviewAssumption DEF ApprovalInv, TypeOK, RequestShape, Rev
    <2>2. r \in 1..made
      BY <1>1 DEF ApprovalInv, RequestShape, r
    <2>3. QED
      BY <1>1, <1>2, <1>3, <2>1, <2>2 DEF ApprovalInv, RequestShape, Decide
  <1>8. RowsOfSnapshot'
    BY <1>3 DEF ApprovalInv, RowsOfSnapshot, Decide
  <1>9. SpendingAlone'
    <2>1. \A u \in Threads : Spending(u) => u # t /\ request[u].rev # r
      BY <1>1 DEF ApprovalInv, SpendingAlone, Spending
    <2>2. \A u \in Threads : Spending(u)' => u # t /\ Spending(u)
      BY <1>3 DEF Spending
    <2>3. \A u \in Threads : Spending(u) => request[u].rev \in Rev
      BY ReviewAssumption DEF ApprovalInv, TypeOK, RequestShape, Spending, Rev
    <2>4. \A u \in Threads : Spending(u)' =>
             /\ Spending(u)
             /\ request'[u] = request[u]
             /\ revision'[request[u].rev] = revision[request[u].rev]
      BY <1>2, <1>3, <2>1, <2>2, <2>3
    <2>5. uses' = uses /\ controls' = controls
      BY DEF Decide
    <2>6. QED
      BY <2>4, <2>5 DEF ApprovalInv, SpendingAlone, BindingOf
  <1>10. CorrectingAlone'
    <2>1. \A u \in Threads : Correcting(u) => u # t /\ request[u].rev # r
      BY <1>1 DEF ApprovalInv, CorrectingAlone, Correcting
    <2>2. \A u \in Threads \ {t} : Correcting(u)' <=> Correcting(u)
      BY <1>3 DEF Correcting
    <2>3. \A c \in Rev : revision[c].parent # r
      BY <1>1 DEF ApprovalInv, OneSuccessor
    <2>4. \A u \in Threads : Correcting(u) => request[u].rev \in Rev
      BY ReviewAssumption DEF ApprovalInv, TypeOK, RequestShape, Correcting, Rev
    <2>5. Correcting(t)' => request'[t].pc = "corrected"
      BY <1>3 DEF Correcting
    <2>6. QED
      BY <1>1, <1>2, <1>3, <2>1, <2>2, <2>3, <2>4, <2>5 DEF ApprovalInv, CorrectingAlone
  <1>11. OneSuccessor'
    BY <1>1, <1>2 DEF ApprovalInv, OneSuccessor
  <1>12. RowsAsApproved'
    <2>1. \A w \in shown : w.rev \in Rev
      BY <1>1 DEF TypeOK, Shown
    <2>2. shown' = shown
      BY DEF Decide
    <2>3. QED
      BY <1>2, <2>1, <2>2, ZenonT(40) DEF ApprovalInv, RowsAsApproved
  <1>13. FeedbackBacked'
    <2>1. \A c \in Rev : \A n \in DOMAIN feedback'[c] :
             feedback'[c][n].corrected # None =>
                n \in DOMAIN feedback[c] /\ feedback'[c][n] = feedback[c][n]
      BY <1>4
    <2>2. QED
      BY <1>2, <2>1 DEF ApprovalInv, FeedbackBacked
  <1>14. QED
    BY <1>5, <1>6, <1>7, <1>8, <1>9, <1>10, <1>11, <1>12, <1>13 DEF ApprovalInv

(* Recording the lineage: the child revision exists by then.                *)
LEMMA LineageStep ==
    ASSUME ApprovalInv, NEW t \in Threads, RecordLineage(t)
    PROVE  ApprovalInv'
  <1> USE DEF reviewVars, envVars, shownVars
  <1> DEFINE r == request[t].rev
             last == feedback[r][Len(feedback[r])]
             x == [last EXCEPT !.corrected = request[t].plan]
  <1>1. /\ TypeOK /\ request[t].pc = "lineage" /\ request[t] \in Request
        /\ r \in Rev /\ request[t].plan \in Plans
        /\ revision[r].status = "rejected"
        /\ \E c \in Rev : revision[c].parent = r /\ revision[c].binding.plan = request[t].plan
    <2>1. /\ TypeOK /\ request[t].pc = "lineage" /\ request[t] \in Request
      BY DEF ApprovalInv, TypeOK, RecordLineage
    <2>2. r \in 1..made /\ request[t].plan # None
      BY <2>1 DEF ApprovalInv, RequestShape
    <2>3. r \in Rev /\ request[t].plan \in Plans
      BY <2>1, <2>2, ReviewAssumption DEF TypeOK, Rev, Request
    <2>4. Correcting(t)
      BY <2>1 DEF Correcting
    <2>5. QED
      BY <2>1, <2>3, <2>4 DEF ApprovalInv, CorrectingAlone
  <1>2. /\ request' \in [Threads -> Request]
        /\ request'[t].pc = "idle"
        /\ \A u \in Threads \ {t} : request'[u] = request[u]
    BY <1>1, DoneEffect DEF RecordLineage
  <1>3. /\ feedback' \in [Rev -> Seq(Feedback)]
        /\ feedback'[r] # <<>>
        /\ \A n \in DOMAIN feedback'[r] :
              \/ n \in DOMAIN feedback[r] /\ feedback'[r][n] = feedback[r][n]
              \/ feedback'[r][n].corrected = request[t].plan
        /\ \A c \in Rev \ {r} : feedback'[c] = feedback[c]
    <2>1. /\ feedback \in [Rev -> Seq(Feedback)] /\ feedback[r] \in Seq(Feedback)
          /\ feedback[r] # <<>>
      BY <1>1 DEF TypeOK, ApprovalInv, RevisionShape
    <2>2. last \in Feedback
      BY <2>1
    <2>3. x \in Feedback /\ x.corrected = request[t].plan
      <3> HIDE DEF last
      <3>1. QED
        BY <1>1, <2>2 DEF Feedback
    <2>4. feedback' = [feedback EXCEPT ![r] = Append(feedback[r], x)]
      BY <2>1 DEF RecordLineage
    <2> HIDE DEF x
    <2>5. /\ feedback'[r] = Append(feedback[r], x)
          /\ \A c \in Rev \ {r} : feedback'[c] = feedback[c]
      BY <1>1, <2>1, <2>4
    <2>6. /\ Append(feedback[r], x) \in Seq(Feedback)
          /\ Append(feedback[r], x) # <<>>
          /\ \A n \in DOMAIN Append(feedback[r], x) :
                \/ n \in DOMAIN feedback[r] /\ Append(feedback[r], x)[n] = feedback[r][n]
                \/ Append(feedback[r], x)[n] = x
      BY <2>1, <2>3, AppendEffect
    <2>7. feedback' \in [Rev -> Seq(Feedback)]
      BY <1>1, <2>1, <2>4, <2>6
    <2>8. QED
      BY <2>3, <2>5, <2>6, <2>7
  <1> HIDE DEF r, last, x
  <1>4. UNCHANGED <<made, revision, disk, used, controls, uses, shown>>
    BY DEF RecordLineage
  <1>5. TypeOK'
    BY <1>1, <1>2, <1>3, <1>4 DEF TypeOK
  <1>6. RevisionShape'
    BY <1>1, <1>3, <1>4 DEF ApprovalInv, RevisionShape
  <1>7. RequestShape' /\ RowsOfSnapshot'
    BY <1>2, <1>4 DEF ApprovalInv, RequestShape, RowsOfSnapshot
  <1>8. SpendingAlone' /\ CorrectingAlone'
    BY <1>2, <1>4
    DEF ApprovalInv, SpendingAlone, CorrectingAlone, Spending, Correcting, BindingOf
  <1>9. OneSuccessor' /\ RowsAsApproved'
    BY <1>4 DEF ApprovalInv, OneSuccessor, RowsAsApproved
  <1>10. FeedbackBacked'
    <2>1. ASSUME NEW c \in Rev, NEW n \in DOMAIN feedback'[c], feedback'[c][n].corrected # None
          PROVE  \E d \in Rev : /\ revision[d].parent = c
                                /\ revision[d].binding.plan = feedback'[c][n].corrected
      <3>1. CASE n \in DOMAIN feedback[c] /\ feedback'[c][n] = feedback[c][n]
        BY <2>1, <3>1 DEF ApprovalInv, FeedbackBacked
      <3>2. CASE c = r /\ feedback'[c][n].corrected = request[t].plan
        BY <1>1, <3>2
      <3>3. QED
        BY <1>3, <2>1, <3>1, <3>2
    <2>2. QED
      BY <1>4, <2>1 DEF FeedbackBacked
  <1>11. QED
    BY <1>5, <1>6, <1>7, <1>8, <1>9, <1>10 DEF ApprovalInv

(* Returning rows: the handler alone holds the consumed approval, and the   *)
(* file is still the one it hashed.                                         *)
LEMMA ReturnStep ==
    ASSUME ApprovalInv, NEW t \in Threads, ReturnRows(t)
    PROVE  ApprovalInv'
  <1> USE DEF reviewVars, envVars, shownVars
  <1> DEFINE r == request[t].rev
             x == [rev |-> r, who |-> request[t].who, plan |-> request[t].plan,
                   rows |-> request[t].rows, controls |-> controls]
  <1>1. /\ TypeOK /\ request[t].pc = "recheck" /\ request[t] \in Request
        /\ r \in Rev /\ request[t].plan \in Plans /\ request[t].who \in Reviewers
        /\ request[t].rows \in Snapshots /\ request[t].rows = request[t].seen
        /\ revision[r].status = "consumed" /\ uses[r] = 0
        /\ revision[r].owner = request[t].who
        /\ revision[r].binding = BindingOf(request[t].plan, request[t].seen)
        /\ \A u \in Threads : Spending(u) /\ request[u].rev = r => u = t
    <2>1. /\ TypeOK /\ request[t].pc = "recheck" /\ request[t] \in Request
      BY DEF ApprovalInv, TypeOK, ReturnRows
    <2>2. /\ r \in 1..made /\ request[t].plan # None /\ request[t].who # None
          /\ request[t].rows \in Snapshots
      BY <2>1 DEF ApprovalInv, RequestShape
    <2>3. r \in Rev /\ request[t].plan \in Plans /\ request[t].who \in Reviewers
      BY <2>1, <2>2, ReviewAssumption DEF TypeOK, Rev, Request
    <2>4. request[t].rows = request[t].seen
      BY <2>1 DEF ApprovalInv, RowsOfSnapshot, ReturnRows, SnapshotUnchanged
    <2>5. Spending(t)
      BY <2>1 DEF Spending
    <2>6. QED
      BY <2>1, <2>2, <2>3, <2>4, <2>5 DEF ApprovalInv, SpendingAlone
  <1>2. /\ request' \in [Threads -> Request]
        /\ request'[t].pc = "idle"
        /\ \A u \in Threads \ {t} : request'[u] = request[u]
    BY <1>1, DoneEffect DEF ReturnRows
  <1>3. /\ UNCHANGED <<made, revision, feedback, disk, used, controls>>
        /\ uses' = [uses EXCEPT ![r] = @ + 1]
        /\ shown' = shown \union {x}
    BY DEF ReturnRows
  <1>4. x \in Shown
    BY <1>1 DEF Shown, TypeOK
  <1>5. /\ x.rev = r /\ x.who = revision[r].owner
        /\ revision[r].binding = [plan |-> x.plan, snapshot |-> x.rows, controls |-> x.controls]
    BY <1>1 DEF BindingOf
  <1> HIDE DEF r, x
  <1>6. /\ uses' \in [Rev -> Nat] /\ uses'[r] = 1
        /\ \A c \in Rev \ {r} : uses'[c] = uses[c]
    BY <1>1, <1>3 DEF TypeOK
  <1>7. TypeOK'
    BY <1>1, <1>2, <1>3, <1>4, <1>6 DEF TypeOK
  <1>8. RevisionShape'
    BY <1>1, <1>3, <1>6 DEF ApprovalInv, RevisionShape
  <1>9. RequestShape' /\ RowsOfSnapshot'
    BY <1>2, <1>3 DEF ApprovalInv, RequestShape, RowsOfSnapshot
  <1>10. SpendingAlone'
    <2>1. \A u \in Threads : Spending(u)' =>
             u # t /\ Spending(u) /\ request'[u] = request[u] /\ request[u].rev # r
      BY <1>1, <1>2 DEF Spending
    <2>2. \A u \in Threads : Spending(u) => request[u].rev \in Rev
      BY ReviewAssumption DEF ApprovalInv, TypeOK, RequestShape, Spending, Rev
    <2>3. QED
      BY <1>3, <1>6, <2>1, <2>2 DEF ApprovalInv, SpendingAlone, BindingOf
  <1>11. CorrectingAlone'
    BY <1>2, <1>3 DEF ApprovalInv, CorrectingAlone, Correcting
  <1>12. OneSuccessor' /\ FeedbackBacked'
    BY <1>3 DEF ApprovalInv, OneSuccessor, FeedbackBacked
  <1>13. RowsAsApproved'
    BY <1>3, <1>5 DEF ApprovalInv, RowsAsApproved
  <1>14. QED
    BY <1>7, <1>8, <1>9, <1>10, <1>11, <1>12, <1>13 DEF ApprovalInv

(* Creating: the next free row becomes a pending revision; for a correction *)
(* it is the first successor of the revision that its handler rejected.     *)
LEMMA CreateStep ==
    ASSUME ApprovalInv, NEW t \in Threads, Create(t)
    PROVE  ApprovalInv'
  <1> USE DEF reviewVars, envVars, shownVars
  <1> DEFINE r == made + 1
             p == request[t].rev
             row == [owner |-> request[t].who,
                     binding |-> BindingOf(request[t].plan, request[t].seen),
                     status |-> "pending", parent |-> p]
  <1>1. /\ TypeOK /\ request[t].pc = "create" /\ request[t] \in Request
        /\ made \in Nat /\ r \in Rev /\ p \in Rev \union {None} /\ p # r
        /\ request[t].plan \in Plans /\ request[t].seen \in Snapshots
        /\ request[t].who \in Reviewers
    <2>1. /\ TypeOK /\ request[t].pc = "create" /\ request[t] \in Request
      BY DEF ApprovalInv, TypeOK, Create
    <2>2. /\ p \in (1..made) \union {None} /\ request[t].plan # None
          /\ request[t].seen \in used /\ request[t].who # None
      BY <2>1 DEF ApprovalInv, RequestShape
    <2>3. made \in Nat /\ r \in Rev
      BY <2>1, ReviewAssumption DEF TypeOK, Create, Rev
    <2>4. p \in Rev \union {None} /\ p # r
      BY <2>2, <2>3, ReviewAssumption DEF Rev
    <2>5. QED
      BY <2>1, <2>2, <2>3, <2>4 DEF TypeOK, Request
  <1>2. /\ revision[r].status = "none" /\ revision[r].parent = None
        /\ uses[r] = 0
        /\ \A c \in Rev : revision[c].parent # r
    <2>1. r > made
      BY <1>1
    <2>2. revision[r].status = "none" /\ revision[r].parent = None /\ uses[r] = 0
      BY <1>1, <2>1 DEF ApprovalInv, RevisionShape, NoRevision
    <2>3. QED
      BY <1>1, <2>2 DEF ApprovalInv, OneSuccessor
  <1>3. p # None =>
           /\ revision[p].status = "rejected" /\ revision[p].owner = request[t].who
           /\ \A u \in Threads : Correcting(u) /\ request[u].rev = p => u = t
           /\ \A c \in Rev : revision[c].parent # p
    BY <1>1 DEF ApprovalInv, CorrectingAlone, Correcting
  <1>4. /\ made' = r /\ UNCHANGED <<feedback, disk, used, controls, uses, shown>>
        /\ revision' = [revision EXCEPT ![r] = row]
    BY DEF Create
  <1>5. /\ row \in Revision /\ row.status = "pending" /\ row.parent = p
        /\ row.owner = request[t].who /\ row.binding.plan = request[t].plan
    BY <1>1 DEF Revision, BindingOf, Status, TypeOK
  <1>6. /\ request' \in [Threads -> Request]
        /\ \/ request'[t].pc = "idle"
           \/ /\ request'[t].pc = "lineage" /\ p # None
              /\ request'[t].who = request[t].who /\ request'[t].rev = p
              /\ request'[t].plan = request[t].plan
        /\ \A u \in Threads \ {t} : request'[u] = request[u]
    <2>1. CASE p = None
      BY <1>1, <2>1, DoneEffect DEF Create
    <2>2. CASE p # None
      <3>1. request' = [request EXCEPT ![t] = [@ EXCEPT !.pc = "lineage", !.seen = None]]
        BY <2>2 DEF Create
      <3>2. [request[t] EXCEPT !.pc = "lineage", !.seen = None] \in Request
        BY <1>1 DEF Request
      <3>3. request \in [Threads -> Request]
        BY <1>1 DEF TypeOK
      <3>4. QED
        BY <1>1, <2>2, <3>1, <3>2, <3>3 DEF Request
    <2>3. QED
      BY <2>1, <2>2
  <1> HIDE DEF p, row
  <1>7. /\ revision' \in [Rev -> Revision] /\ revision'[r] = row
        /\ \A c \in Rev \ {r} : revision'[c] = revision[c]
    BY <1>1, <1>4, <1>5 DEF TypeOK
  <1>8. TypeOK'
    BY <1>1, <1>4, <1>6, <1>7, ReviewAssumption DEF TypeOK, Rev
  <1>9. RevisionShape'
    BY <1>1, <1>2, <1>4, <1>5, <1>7 DEF ApprovalInv, RevisionShape, Rev
  <1>10. \A u \in Threads : request[u].rev \in 1..made => request[u].rev \in Rev \ {r}
    BY <1>1, ReviewAssumption DEF TypeOK, Rev
  <1>11. RequestShape'
    <2>1. \A u \in Threads : request[u].pc = "decide" =>
             revision'[request[u].rev] = revision[request[u].rev]
      BY <1>7, <1>10 DEF ApprovalInv, RequestShape
    <2>2. 1..made \subseteq 1..made'
      BY <1>1, <1>4
    <2>3. p # None => p \in 1..made'
      BY <1>1, <1>4, <2>2 DEF ApprovalInv, RequestShape, p
    <2>4. QED
      BY <1>1, <1>4, <1>6, <2>1, <2>2, <2>3 DEF ApprovalInv, RequestShape
  <1>12. RowsOfSnapshot'
    BY <1>4, <1>6 DEF ApprovalInv, RowsOfSnapshot
  <1>13. SpendingAlone'
    <2>1. \A u \in Threads : Spending(u)' =>
             /\ Spending(u) /\ request'[u] = request[u]
             /\ revision'[request[u].rev] = revision[request[u].rev]
      BY <1>6, <1>7, <1>10 DEF ApprovalInv, RequestShape, Spending
    <2>2. QED
      BY <1>4, <2>1 DEF ApprovalInv, SpendingAlone, BindingOf
  <1>14. CorrectingAlone'
    <2>1. \A u \in Threads \ {t} : Correcting(u)' =>
             /\ Correcting(u) /\ request'[u] = request[u]
             /\ request[u].rev \in Rev \ {r} /\ request[u].rev # p
             /\ revision'[request[u].rev] = revision[request[u].rev]
      <3>1. \A u \in Threads : Correcting(u) => request[u].rev \in 1..made
        BY DEF ApprovalInv, RequestShape, Correcting
      <3>2. \A u \in Threads \ {t} : Correcting(u)' =>
               Correcting(u) /\ request'[u] = request[u]
        BY <1>6 DEF Correcting
      <3>3. \A u \in Threads \ {t} : Correcting(u) => request[u].rev # p
        <4>1. p = None => \A u \in Threads : request[u].rev \in 1..made => request[u].rev # p
          BY <1>10, ReviewAssumption DEF Rev
        <4>2. QED
          BY <1>3, <3>1, <4>1
      <3>4. QED
        BY <1>7, <1>10, <3>1, <3>2, <3>3
    <2>2. Correcting(t)' =>
             /\ request'[t].pc = "lineage" /\ p # None /\ p \in Rev \ {r}
             /\ request'[t].rev = p
             /\ request'[t].who = request[t].who /\ request'[t].plan = request[t].plan
      BY <1>1, <1>6 DEF Correcting
    <2>3. ASSUME NEW u \in Threads, Correcting(u)'
          PROVE  /\ revision'[request'[u].rev].status = "rejected"
                 /\ revision'[request'[u].rev].owner = request'[u].who
                 /\ \A v \in Threads :
                       Correcting(v)' /\ request'[v].rev = request'[u].rev => v = u
      BY <1>3, <1>7, <2>1, <2>2, <2>3 DEF ApprovalInv, CorrectingAlone
    <2>4. ASSUME NEW u \in Threads, Correcting(u)', request'[u].pc # "lineage"
          PROVE  \A c \in Rev : revision'[c].parent # request'[u].rev
      BY <1>5, <1>7, <2>1, <2>2, <2>4 DEF ApprovalInv, CorrectingAlone
    <2>5. ASSUME NEW u \in Threads, Correcting(u)', request'[u].pc = "lineage"
          PROVE  \E c \in Rev : /\ revision'[c].parent = request'[u].rev
                                /\ revision'[c].binding.plan = request'[u].plan
      <3>1. CASE u = t
        BY <1>1, <1>5, <1>7, <2>2, <2>5, <3>1
      <3>2. CASE u # t
        <4>1. PICK c \in Rev : /\ revision[c].parent = request[u].rev
                               /\ revision[c].binding.plan = request[u].plan
          BY <2>1, <2>5, <3>2 DEF ApprovalInv, CorrectingAlone
        <4>2. request[u].rev \in Rev /\ request'[u] = request[u]
          BY <2>1, <2>5, <3>2
        <4>3. c # r
          BY <1>2, <4>1, <4>2, ReviewAssumption DEF Rev
        <4>4. QED
          BY <1>7, <4>1, <4>2, <4>3
      <3>3. QED
        BY <3>1, <3>2
    <2>6. QED
      BY <2>3, <2>4, <2>5 DEF CorrectingAlone
  <1>15. OneSuccessor'
    BY <1>1, <1>2, <1>3, <1>5, <1>7, ReviewAssumption DEF ApprovalInv, OneSuccessor, Rev
  <1>16. RowsAsApproved'
    <2>1. revision[r].owner = None
      BY <1>1 DEF ApprovalInv, RevisionShape, NoRevision
    <2>2. \A w \in shown : w.rev \in Rev /\ w.who \in Reviewers
      BY <1>1 DEF TypeOK, Shown
    <2>3. \A w \in shown : w.rev \in Rev \ {r}
      BY <2>1, <2>2, ReviewAssumption, ZenonT(40) DEF ApprovalInv, RowsAsApproved
    <2>4. QED
      BY <1>4, <1>7, <2>3 DEF ApprovalInv, RowsAsApproved
  <1>17. FeedbackBacked'
    BY <1>2, <1>4, <1>7, ReviewAssumption DEF ApprovalInv, FeedbackBacked, Rev
  <1>18. QED
    BY <1>8, <1>9, <1>11, <1>12, <1>13, <1>14, <1>15, <1>16, <1>17 DEF ApprovalInv

-----------------------------------------------------------------------------
(* Every step of the service keeps the invariant.                           *)
LEMMA StepApproval == ApprovalInv /\ [Next]_vars => ApprovalInv'
  <1> SUFFICES ASSUME ApprovalInv, [Next]_vars PROVE ApprovalInv'
    OBVIOUS
  <1>1. ASSUME NEW t \in Threads, Handler(t) PROVE ApprovalInv'
    BY <1>1, BeginSteps, RunStep, PrepareCorrectionStep, ConsumeStep, DecideStep, LineageStep,
       ReturnStep, CreateStep DEF Handler
  <1>2. CASE UNCHANGED vars
    BY <1>2 DEF vars, reviewVars, envVars, shownVars, ApprovalInv, TypeOK, RevisionShape,
       RequestShape, SpendingAlone, RowsOfSnapshot, CorrectingAlone, OneSuccessor,
       RowsAsApproved, FeedbackBacked, Spending, Correcting, BindingOf
  <1>3. QED
    BY <1>1, <1>2, ReplaceStep, RestartStep DEF Next

(* The inductive invariant of the SQL review (data_service.py,              *)
(* review_store.py): no approval is held by two executions, no revision is  *)
(* corrected by two handlers.                                               *)
THEOREM ApprovalInvariant == Spec => []ApprovalInv
  BY InitApproval, StepApproval, PTL DEF Spec

(* Rows returned by execute_query are those of the approved plan, snapshot  *)
(* and controls, and go to the reviewer who approved them.                  *)
THEOREM RowsAsApprovedHolds == Spec => []RowsAsApproved
  <1>1. ApprovalInv => RowsAsApproved
    BY DEF ApprovalInv
  <1>2. QED
    BY <1>1, ApprovalInvariant, PTL

(* decide_query gives a corrected revision one successor and revokes it.    *)
THEOREM OneSuccessorHolds == Spec => []OneSuccessor
  <1>1. ApprovalInv => OneSuccessor
    BY DEF ApprovalInv
  <1>2. QED
    BY <1>1, ApprovalInvariant, PTL

(* A record that validated_correction marks as corrected has its revision.  *)
THEOREM FeedbackBackedHolds == Spec => []FeedbackBacked
  <1>1. ApprovalInv => FeedbackBacked
    BY DEF ApprovalInv
  <1>2. QED
    BY <1>1, ApprovalInvariant, PTL

-----------------------------------------------------------------------------
(* The service starts as ApprovalTicket does.                               *)
LEMMA TicketInitRefines == Init => Approval!Init
  BY DEF Init, Approval!Init, NoRevision

(* A step that changes the status of one row moves one ticket.              *)
LEMMA OneMove ==
    ASSUME TypeOK, NEW r \in Rev, NEW s \in Status, NEW from,
           revision[r].status \in from,
           revision' \in [Rev -> Revision], revision'[r].status = s,
           \A c \in Rev \ {r} : revision'[c] = revision[c],
           uses' = uses
    PROVE  Approval!Moves(r, from, s)
  BY DEF Approval!Moves

(* Every step of the service is a step of one ticket, or of none.           *)
LEMMA TicketStepRefines ==
    ApprovalInv /\ [Next]_vars => [Approval!Next]_(Approval!ticketVars)
  <1> SUFFICES ASSUME ApprovalInv, [Next]_vars
               PROVE  [Approval!Next]_(Approval!ticketVars)
    OBVIOUS
  <1> USE DEF reviewVars, envVars, shownVars
  <1>1. ASSUME revision' = revision, uses' = uses
        PROVE  [Approval!Next]_(Approval!ticketVars)
    BY <1>1 DEF Approval!ticketVars
  <1>2. ASSUME NEW t \in Threads, Create(t) PROVE Approval!Next
    <2> DEFINE r == made + 1
    <2>1. TypeOK /\ r \in Rev /\ r > made
      BY <1>2, ReviewAssumption DEF ApprovalInv, TypeOK, Create, Rev
    <2>2. revision[r].status = "none"
      BY <2>1 DEF ApprovalInv, RevisionShape
    <2>3. TypeOK'
      BY <1>2, CreateStep DEF ApprovalInv
    <2>4. /\ revision'[r].status = "pending"
          /\ \A c \in Rev \ {r} : revision'[c] = revision[c]
          /\ uses' = uses
      BY <1>2, <2>1 DEF Create, TypeOK
    <2>5. Approval!Moves(r, {"none"}, "pending")
      BY <2>1, <2>2, <2>3, <2>4, OneMove DEF TypeOK, Status
    <2>6. QED
      BY <2>1, <2>5 DEF Approval!Next, Approval!Ask
  <1>3. ASSUME NEW t \in Threads, Decide(t) PROVE Approval!Next
    <2> DEFINE r == request[t].rev
               s == request[t].verdict
    <2>1. TypeOK /\ request[t] \in Request /\ request[t].pc = "decide"
      BY <1>3 DEF ApprovalInv, TypeOK, Decide
    <2>2. r \in 1..made /\ (request[t].plan # None => s = "rejected")
      BY <2>1 DEF ApprovalInv, RequestShape
    <2>3. r \in Rev
      BY <2>1, <2>2, ReviewAssumption DEF TypeOK, Rev
    <2>4. s \in {"approved", "rejected"}
      BY <2>1 DEF Request
    <2>5. /\ revision' \in [Rev -> Revision] /\ revision'[r].status = s
          /\ \A c \in Rev \ {r} : revision'[c] = revision[c]
          /\ uses' = uses
      BY <1>3, <2>1, <2>3, <2>4, StatusEffect DEF Decide, Status
    <2>6. /\ revision[r].status \in {"pending", "approved"}
          /\ s = "approved" => revision[r].status = "pending"
      BY <1>3, <2>2 DEF Decide, Decidable
    <2> HIDE DEF r, s
    <2>7. CASE s = "approved"
      <3>1. Approval!Moves(r, {"pending"}, "approved")
        BY <2>1, <2>3, <2>5, <2>6, <2>7, OneMove DEF Status
      <3>2. QED
        BY <2>3, <3>1 DEF Approval!Next, Approval!Grant
    <2>8. CASE s = "rejected"
      <3>1. Approval!Moves(r, {"pending", "approved"}, "rejected")
        BY <2>1, <2>3, <2>5, <2>6, <2>8, OneMove DEF Status
      <3>2. QED
        BY <2>3, <3>1 DEF Approval!Next, Approval!Refuse
    <2>9. QED
      BY <2>4, <2>7, <2>8
  <1>4. ASSUME NEW t \in Threads, Consume(t) PROVE Approval!Next
    <2> DEFINE r == request[t].rev
    <2>1. TypeOK /\ request[t].pc = "consume"
      BY <1>4 DEF ApprovalInv, Consume
    <2>2. r \in 1..made
      BY <2>1 DEF ApprovalInv, RequestShape
    <2>3. r \in Rev
      BY <2>1, <2>2, ReviewAssumption DEF TypeOK, Rev
    <2>4. /\ revision' \in [Rev -> Revision] /\ revision'[r].status = "consumed"
          /\ \A c \in Rev \ {r} : revision'[c] = revision[c]
          /\ uses' = uses
      BY <1>4, <2>1, <2>3, StatusEffect DEF Consume, Status
    <2>5. revision[r].status = "approved"
      BY <1>4 DEF Consume, Consumable
    <2> HIDE DEF r
    <2>6. Approval!Moves(r, {"approved"}, "consumed")
      BY <2>1, <2>3, <2>4, <2>5, OneMove DEF Status
    <2>7. QED
      BY <2>3, <2>6 DEF Approval!Next, Approval!Spend
  <1>5. ASSUME NEW t \in Threads, ReturnRows(t) PROVE Approval!Next
    <2> DEFINE r == request[t].rev
    <2>1. TypeOK /\ Spending(t) /\ request[t].pc = "recheck"
      BY <1>5 DEF ApprovalInv, ReturnRows, Spending
    <2>2. r \in 1..made /\ uses[r] = 0 /\ revision[r].status = "consumed"
      BY <2>1 DEF ApprovalInv, RequestShape, SpendingAlone
    <2>3. r \in Rev
      BY <2>1, <2>2, ReviewAssumption DEF TypeOK, Rev
    <2>4. uses' = [uses EXCEPT ![r] = 1] /\ revision' = revision
      BY <1>5, <2>1, <2>2, <2>3 DEF ReturnRows, TypeOK
    <2>5. Approval!Show(r)
      BY <2>2, <2>3, <2>4 DEF Approval!Show
    <2>6. QED
      BY <2>3, <2>5 DEF Approval!Next
  <1>6. ASSUME NEW t \in Threads, Handler(t) PROVE [Approval!Next]_(Approval!ticketVars)
    BY <1>1, <1>2, <1>3, <1>4, <1>5, <1>6
    DEF Handler, PrepareQuery, ReviewQuery, ExecuteQuery, PrepareCorrection, RecordLineage,
        RunQuery, RequestFails
  <1>7. CASE ReplaceSnapshot \/ Restart \/ UNCHANGED vars
    BY <1>1, <1>7 DEF ReplaceSnapshot, Restart, vars
  <1>8. QED
    BY <1>6, <1>7 DEF Next

(* "Each approval allows one execution. Rejected, stale and replayed        *)
(* revisions fail closed": the data service implements ApprovalTicket.      *)
THEOREM TicketHolds == Spec => TicketSpec
  <1>1. Init => Approval!Init
    BY TicketInitRefines
  <1>2. ApprovalInv /\ [Next]_vars => [Approval!Next]_(Approval!ticketVars)
    BY TicketStepRefines
  <1>3. QED
    BY <1>1, <1>2, ApprovalInvariant, PTL DEF Spec, TicketSpec, Approval!Spec

=============================================================================
