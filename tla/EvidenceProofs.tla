--------------------------- MODULE EvidenceProofs ---------------------------
(***************************************************************************)
(* Proofs about what answers are made from. PortfolioQuery, for any rows    *)
(* and plans: what arrives later than a plan's as-of date does not change   *)
(* what it returns, and a cohort stands for enough obligors. AnswerMemory,  *)
(* for any number of questions, contexts and handlers: a context has one    *)
(* generated answer, and a correction is what is returned. PolicyLibrary,   *)
(* for any documents and askers: no question pins two versions of one       *)
(* document, and both retrieval backends show the same chunks.              *)
(***************************************************************************)
EXTENDS Evidence, SourceLedgerProofs, Collections

(* Rows and plans. *)

(* What is stored came from the rows there are.                             *)
StoredIsKnown == stored \subseteq StoredRows

(* A row of a later cutoff, or of a later model run where the plan selects  *)
(* a model output, fails the mandatory predicates (query_guard.compile).    *)
LEMMA LaterIsFiltered ==
    ASSUME NEW p \in FetchPlans, NEW r \in StoredRows,
           r.cutoff > p.asOf \/ ("pit_pd" \in p.metrics /\ r.run > p.asOf)
    PROVE  ~Matches(p, r)
  <1>1. CASE r.cutoff > p.asOf
    BY <1>1, QueryAssumption DEF Matches, Knowable
  <1>2. CASE "pit_pd" \in p.metrics /\ r.run > p.asOf
    <2>1. "pit_pd" \in Columns("pit_pd")
      BY DEF Columns, Governed
    <2>2. UsesModel(p)
      BY <1>2, <2>1 DEF UsesModel, SelectedColumns
    <2> QED
      BY <1>2, <2>2, QueryAssumption DEF Matches, Knowable
  <1> QED
    BY <1>1, <1>2

(* What a plan returns is a function of the rows that match it: aggregates, *)
(* checks and factsheet read nothing else.                                  *)
LEMMA OutcomeOfMatching ==
    ASSUME NEW p, NEW old, NEW new, Matching(p, old) = Matching(p, new)
    PROVE  Outcome(p, old) = Outcome(p, new)
  BY DEF Outcome

(* The stored rows are among those that may arrive.                         *)
LEMMA StoredHolds == QuerySpec => []StoredIsKnown
  <1>1. QueryInit => StoredIsKnown
    BY DEF QueryInit, StoredIsKnown
  <1>2. StoredIsKnown /\ [QueryNext]_queryVars => StoredIsKnown'
    BY DEF StoredIsKnown, QueryNext, StoreRow, Fetch, queryVars
  <1> QED
    BY <1>1, <1>2, PTL DEF QuerySpec

(* No step of the database changes a plan's answer by rows from after its   *)
(* as-of date (the point-in-time predicates of query_guard.compile).        *)
THEOREM HindsightHolds == QuerySpec => HindsightIsInvisible
  <1> DEFINE Later(p) ==
               stored' # stored /\ \A r \in stored' \ stored :
                  r.cutoff > p.asOf \/ ("pit_pd" \in p.metrics /\ r.run > p.asOf)
             Unseen == \A p \in FetchPlans : Later(p) => Outcome(p, stored') = Outcome(p, stored)
  <1>1. StoredIsKnown /\ [QueryNext]_queryVars => [Unseen]_stored
    <2> SUFFICES ASSUME StoredIsKnown, QueryNext, NEW p \in FetchPlans, Later(p)
                 PROVE  Outcome(p, stored') = Outcome(p, stored)
      BY DEF queryVars
    <2>1. PICK r \in StoredRows \ stored : stored' = stored \union {r}
      BY DEF QueryNext, StoreRow, Fetch
    <2>2. ~Matches(p, r)
      BY <2>1, LaterIsFiltered
    <2>3. Matching(p, stored') = Matching(p, stored)
      BY <2>1, <2>2 DEF Matching
    <2> QED
      BY <2>3, OutcomeOfMatching
  <1> QED
    BY <1>1, StoredHolds, PTL DEF QuerySpec, HindsightIsInvisible

(* A plan's outcome has a factsheet of at least one and at most             *)
(* MaximumRows rows, or none (validate_result, build_factsheet).            *)
LEMMA OutcomeFits ==
    ASSUME NEW p, NEW held \in SUBSET StoredRows
    PROVE  LET f == Outcome(p, held)
           IN  /\ f.outcome \in {"refused", "invalid", "empty", "cohort", "sheet"}
               /\ f.outcome # "sheet" => f.sheet = Null
               /\ f.outcome = "sheet" => f.sheet.observed \in 1..MaximumRows
  <1> DEFINE rows == Matching(p, held)
             groups == LargeEnough(p, rows)
             f == Outcome(p, held)
             sheet == Factsheet(p, rows)
  <1>1. \/ f = Refused
        \/ f = [Refused EXCEPT !.outcome = "invalid"]
        \/ f = [Refused EXCEPT !.outcome = "cohort", !.groups = groups]
        \/ f = [Refused EXCEPT !.outcome = "empty"]
        \/ /\ RowsAreValid(p, rows) /\ rows # {}
           /\ f = [Refused EXCEPT !.outcome = "sheet", !.rows = rows, !.sheet = sheet]
    BY DEF Outcome
  <1>2. IsFiniteSet(rows)
    BY QueryAssumption, FS_Subset DEF Matching
  <1>3. sheet.observed = Cardinality(rows)
    BY DEF Factsheet
  <1> HIDE DEF rows, groups, f, sheet
  <1>4. RowsAreValid(p, rows) /\ rows # {} => sheet.observed \in 1..MaximumRows
    BY <1>2, <1>3, QueryAssumption, FS_EmptySet, FS_CardinalityType DEF RowsAreValid, Whole
  <1>5. /\ f.outcome \in {"refused", "invalid", "empty", "cohort", "sheet"}
        /\ f.outcome # "sheet" => f.sheet = Null
        /\ f.outcome = "sheet" => RowsAreValid(p, rows) /\ rows # {} /\ f.sheet = sheet
    <2>1. CASE f = Refused
      BY <2>1 DEF Refused
    <2>2. CASE f = [Refused EXCEPT !.outcome = "invalid"]
      BY <2>2 DEF Refused
    <2>3. CASE f = [Refused EXCEPT !.outcome = "cohort", !.groups = groups]
      BY <2>3 DEF Refused
    <2>4. CASE f = [Refused EXCEPT !.outcome = "empty"]
      BY <2>4 DEF Refused
    <2>5. CASE /\ RowsAreValid(p, rows) /\ rows # {}
               /\ f = [Refused EXCEPT !.outcome = "sheet", !.rows = rows, !.sheet = sheet]
      <3>1. f.outcome = "sheet" /\ f.sheet = sheet
        BY <2>5 DEF Refused
      <3>2. QED
        BY <2>5, <3>1
    <2>6. QED
      BY <1>1, <2>1, <2>2, <2>3, <2>4, <2>5
  <1>6. f.outcome = "sheet" => f.sheet.observed \in 1..MaximumRows
    BY <1>4, <1>5
  <1>7. QED
    BY <1>5, <1>6 DEF f

(* What is stored came from the rows there are, and what the last plan      *)
(* returned is of its kind (query_guard.compile, validate_result).          *)
THEOREM QueryTypesHold == QuerySpec => []QueryTypeOK
  <1>1. QueryInit => QueryTypeOK
    BY DEF QueryInit, QueryTypeOK, Refused
  <1>2. QueryTypeOK /\ [QueryNext]_queryVars => QueryTypeOK'
    <2> SUFFICES ASSUME QueryTypeOK, [QueryNext]_queryVars PROVE QueryTypeOK'
      OBVIOUS
    <2>1. CASE StoreRow
      BY <2>1 DEF QueryTypeOK, StoreRow
    <2>2. CASE Fetch
      BY <2>2, OutcomeFits DEF QueryTypeOK, Fetch
    <2>3. CASE UNCHANGED queryVars
      BY <2>3 DEF QueryTypeOK, queryVars
    <2>4. QED
      BY <2>1, <2>2, <2>3 DEF QueryNext
  <1>3. QED
    BY <1>1, <1>2, PTL DEF QuerySpec

-----------------------------------------------------------------------------
(* A finite set has subsets of every smaller size.                          *)
LEMMA SubsetOfSize ==
    ASSUME NEW S, IsFiniteSet(S), NEW k \in Nat, k <= Cardinality(S)
    PROVE  \E T \in SUBSET S : Cardinality(T) = k
  <1>1. Cardinality(S) \in Nat
    BY FS_CardinalityType
  <1>2. PICK f : f \in Bijection(1..Cardinality(S), S)
    BY FS_CardinalityType DEF ExistsBijection
  <1> DEFINE T == {f[i] : i \in 1..k}
             g == [i \in 1..k |-> f[i]]
  <1>3. T \in SUBSET S
    BY <1>1, <1>2 DEF Bijection, Injection, Surjection
  <1>4. g \in Bijection(1..k, T)
    BY <1>1, <1>2 DEF Bijection, Injection, Surjection, IsInjective
  <1>5. ExistsBijection(1..k, T)
    BY <1>4 DEF ExistsBijection
  <1>6. Cardinality(T) = k
    <2> HIDE DEF T, g
    <2> QED
      BY <1>5, FS_CountingElements
  <1> QED
    BY <1>3, <1>6

(* A group that is large enough has MinimumCohort obligors behind it.       *)
LEMMA GroupHasCohort ==
    ASSUME StoredIsKnown, NEW p, NEW g \in LargeEnough(p, Matching(p, stored))
    PROVE  \E cohort \in SUBSET {r.obligor : r \in stored} :
              /\ Cardinality(cohort) = MinimumCohort
              /\ \A o \in cohort : \E r \in stored :
                    r.obligor = o /\ \A dimension \in DOMAIN g.key : r[dimension] = g.key[dimension]
  <1> DEFINE rows == Matching(p, stored)
  <1>1. PICK key \in {Key(p, r) : r \in rows} :
          g = [key |-> key, size |-> CohortSize({r \in rows : Key(p, r) = key}),
               values |-> [metric \in p.metrics |->
                             Aggregate(p.aggregation, {r \in rows : Key(p, r) = key}, metric)]]
    BY DEF LargeEnough, Groups
  <1> DEFINE members == {r \in rows : Key(p, r) = key}
             obligors == {r.obligor : r \in members}
             owner == [r \in members |-> r.obligor]
  <1>2. g.key = key /\ g.size = Cardinality(obligors) /\ g.size >= MinimumCohort
    BY <1>1 DEF CohortSize, LargeEnough
  <1>3. members \subseteq stored /\ \A r \in members : Key(p, r) = key
    BY DEF Matching
  <1>4. IsFiniteSet(obligors)
    <2>1. IsFiniteSet(members)
      BY <1>3, QueryAssumption, FS_Subset DEF StoredIsKnown
    <2>2. owner \in Surjection(members, obligors)
      BY DEF Surjection
    <2> QED
      BY <2>1, <2>2, FS_Surjection
  <1> HIDE DEF members
  <1>5. Cardinality(obligors) \in Nat
    BY <1>4, FS_CardinalityType
  <1>6. PICK cohort \in SUBSET obligors : Cardinality(cohort) = MinimumCohort
    BY <1>2, <1>4, <1>5, QueryAssumption, SubsetOfSize
  <1>7. \A r \in members : \A dimension \in DOMAIN g.key : r[dimension] = g.key[dimension]
    BY <1>2, <1>3 DEF Key
  <1>8. \A o \in cohort : \E r \in stored :
           r.obligor = o /\ \A dimension \in DOMAIN g.key : r[dimension] = g.key[dimension]
    BY <1>3, <1>7
  <1>9. cohort \in SUBSET {r.obligor : r \in stored}
    BY <1>3
  <1> QED
    BY <1>6, <1>8, <1>9

(* Whatever grouping a plan asks for, every group it is shown stands for    *)
(* MinimumCohort obligors of the database (query_guard.compile's HAVING     *)
(* COUNT(DISTINCT obligor)).                                                *)
THEOREM CohortFloorHolds == QuerySpec => CohortFloor
  <1> DEFINE Floor == \A g \in fetched'.groups :
                \E cohort \in SUBSET {r.obligor : r \in stored} :
                   /\ Cardinality(cohort) = MinimumCohort
                   /\ \A o \in cohort : \E r \in stored :
                         r.obligor = o /\ \A dimension \in DOMAIN g.key : r[dimension] = g.key[dimension]
  <1>1. StoredIsKnown /\ [QueryNext]_queryVars => [Floor]_fetched
    <2> SUFFICES ASSUME StoredIsKnown, QueryNext, fetched' # fetched, NEW g \in fetched'.groups
                 PROVE  \E cohort \in SUBSET {r.obligor : r \in stored} :
                           /\ Cardinality(cohort) = MinimumCohort
                           /\ \A o \in cohort : \E r \in stored :
                                 r.obligor = o /\ \A dimension \in DOMAIN g.key : r[dimension] = g.key[dimension]
      BY DEF queryVars
    <2>1. PICK p \in FetchPlans : fetched' = Outcome(p, stored)
      BY DEF QueryNext, StoreRow, Fetch
    <2>2. g \in LargeEnough(p, Matching(p, stored))
      BY <2>1 DEF Outcome, Refused
    <2> QED
      BY <2>2, GroupHasCohort
  <1> QED
    BY <1>1, StoredHolds, PTL DEF QuerySpec, CohortFloor

-----------------------------------------------------------------------------
(* What memory returns. *)

(* What a record of memory holds. *)
LEMMA RecordType ==
    ASSUME TypeOK, NEW n \in DOMAIN memory
    PROVE  memory[n] \in [answer : Answer, status : Generated \union {"verified"},
                          context : Contexts]
  BY ElementOf DEF TypeOK

(* What a stored answer holds. *)
LEMMA AnswerType ==
    ASSUME TypeOK, NEW a \in DOMAIN answers
    PROVE  /\ a \in Answer
           /\ answers[a] \in [context : Contexts, status : Generated \union {"verified"}]
  <1>1. answers[a] \in [context : Contexts, status : Generated \union {"verified"}]
    BY ElementOf DEF TypeOK
  <1>2. a \in Answer
    BY MemoryAssumption DEF TypeOK, Answer
  <1>3. QED
    BY <1>1, <1>2

(* Every record is followed by the latest one of its answer. *)
LEMMA LatestExists ==
    ASSUME TypeOK, NEW n \in DOMAIN memory
    PROVE  \E m \in Latest : memory[m].answer = memory[n].answer
  <1> DEFINE same == {m \in DOMAIN memory : memory[m].answer = memory[n].answer}
  <1>1. Len(memory) \in Nat /\ DOMAIN memory = 1..Len(memory)
    BY DEF TypeOK
  <1>2. same \in SUBSET (0..Len(memory)) /\ same # {}
    BY <1>1
  <1>3. PICK m \in same : \A k \in same : k <= m
    BY <1>1, <1>2, GreatestOf
  <1>4. m \in Latest
    BY <1>3 DEF Latest
  <1>5. QED
    BY <1>4

(* Some record's answer was remembered first after all the others'. *)
LEMMA NewestExists ==
    ASSUME TypeOK, NEW ns \in SUBSET DOMAIN memory, ns # {}
    PROVE  \E n \in ns : \A m \in ns : Before(memory[m].answer, memory[n].answer)
  <1> DEFINE Of(k, n) == memory[k].answer = memory[n].answer
             Starts(k, n) == Of(k, n) /\ \A j \in DOMAIN memory : Of(j, n) => k <= j
             firsts == {k \in DOMAIN memory : \E n \in ns : Starts(k, n)}
  <1>1. Len(memory) \in Nat /\ DOMAIN memory = 1..Len(memory)
    BY DEF TypeOK
  <1>2. ASSUME NEW n \in ns PROVE \E k \in DOMAIN memory : Starts(k, n)
    <2> DEFINE same == {k \in DOMAIN memory : Of(k, n)}
    <2>1. same \in SUBSET Nat /\ same # {}
      BY <1>1
    <2>2. PICK k \in same : \A j \in same : k <= j
      BY <2>1, LeastOf
    <2>3. QED
      BY <2>2
  <1>3. firsts \in SUBSET (0..Len(memory)) /\ firsts # {}
    BY <1>1, <1>2
  <1>4. PICK k \in firsts : \A j \in firsts : j <= k
    BY <1>1, <1>3, GreatestOf
  <1>5. PICK n \in ns : Starts(k, n)
    BY <1>4
  <1>6. ASSUME NEW m \in ns PROVE Before(memory[m].answer, memory[n].answer)
    <2>1. PICK j \in DOMAIN memory : Starts(j, m)
      BY <1>2
    <2>2. j <= k
      BY <1>4, <2>1
    <2>3. \A i \in DOMAIN memory : memory[i].answer = memory[n].answer => j <= i
      BY <1>1, <1>5, <2>2
    <2>4. QED
      BY <2>1, <2>3 DEF Before
  <1>7. QED
    BY <1>6

(* So Newest returns the answer of one of the records it is given. *)
LEMMA NewestIsOne ==
    ASSUME TypeOK, NEW ns \in SUBSET DOMAIN memory, ns # {}
    PROVE  \E n \in ns : /\ Newest(ns) = memory[n].answer
                         /\ \A m \in ns : Before(memory[m].answer, memory[n].answer)
  <1> DEFINE n == CHOOSE n \in ns : \A m \in ns : Before(memory[m].answer, memory[n].answer)
  <1>1. n \in ns /\ \A m \in ns : Before(memory[m].answer, memory[n].answer)
    BY NewestExists
  <1>2. Newest(ns) = memory[n].answer
    BY DEF Newest
  <1>3. QED
    BY <1>1, <1>2

(* The statuses that the latest records of context c have. *)
Standing(c) == {memory[n].status : n \in {n \in Latest : memory[n].context = c}}

(* Rank is the first priority that some latest record of the context has.   *)
LEMMA RankIsFirst ==
    ASSUME NEW c
    PROVE  /\ Rank(c) \in 1..5
           /\ Rank(c) = 5 \/ Priority[Rank(c)] \in Standing(c)
           /\ \A k \in 1..(Rank(c) - 1) : Priority[k] \notin Standing(c)
  <1> DEFINE First(i) == /\ i = 5 \/ Priority[i] \in Standing(c)
                         /\ \A k \in 1..(i - 1) : Priority[k] \notin Standing(c)
             held == {i \in 1..5 : i = 5 \/ Priority[i] \in Standing(c)}
  <1>1. PICK i \in held : \A k \in held : i <= k
    <2>1. held \in SUBSET Nat /\ held # {}
      OBVIOUS
    <2>2. QED
      BY <2>1, LeastOf
  <1>2. i \in 1..5 /\ First(i)
    BY <1>1
  <1>3. Rank(c) = CHOOSE j \in 1..5 : First(j)
    BY DEF Rank, Standing
  <1>4. QED
    BY <1>2, <1>3

(* Lookup finds a stored answer, or there is no generated answer to return. *)
LEMMA LookupFinds ==
    ASSUME MemoryAssumption, TypeOK, RecordsFit, NEW c, Lookup(c) # None
    PROVE  Lookup(c) \in DOMAIN answers
  <1>1. Rank(c) # 5 /\ Lookup(c) = Newest(Having(c, Priority[Rank(c)]))
    BY DEF Lookup
  <1>2. Having(c, Priority[Rank(c)]) # {}
    BY <1>1, RankIsFirst DEF Standing, Having
  <1>3. Having(c, Priority[Rank(c)]) \in SUBSET DOMAIN memory
    BY DEF Having, Latest
  <1>4. QED
    BY <1>1, <1>2, <1>3, NewestIsOne DEF RecordsFit

(* A lookup that finds nothing leaves no generated answer unfound. *)
LEMMA LookupMisses ==
    ASSUME MemoryAssumption, TypeOK, RecordsFit, NEW c, Lookup(c) = None,
           NEW n \in DOMAIN memory, memory[n].context = c
    PROVE  memory[n].status \notin {"model", "system", "invalid"}
  <1>1. Rank(c) = 5
    <2> SUFFICES ASSUME Rank(c) # 5 PROVE FALSE
      OBVIOUS
    <2>1. Lookup(c) = Newest(Having(c, Priority[Rank(c)]))
      BY DEF Lookup
    <2>2. Having(c, Priority[Rank(c)]) # {}
      BY RankIsFirst DEF Standing, Having
    <2>3. Having(c, Priority[Rank(c)]) \in SUBSET DOMAIN memory
      BY DEF Having, Latest
    <2>4. PICK m \in DOMAIN memory : None = memory[m].answer
      BY <2>1, <2>2, <2>3, NewestIsOne
    <2>5. memory[m] \in [answer : Answer, status : Generated \union {"verified"},
                          context : Contexts]
      BY <2>4, RecordType
    <2>6. QED
      BY <2>4, <2>5 DEF MemoryAssumption, Answer
  <1>2. {"verified", "system", "model", "invalid"} \intersect Standing(c) = {}
    <2>1. \A k \in 1..4 : Priority[k] \notin Standing(c)
      BY <1>1, RankIsFirst
    <2>2. QED
      BY <2>1 DEF Priority
  <1>3. PICK m \in Latest : memory[m].answer = memory[n].answer
    BY LatestExists
  <1>4. m \in DOMAIN memory
    BY DEF Latest
  <1>5. memory[m].context = c
    BY <1>3, <1>4 DEF RecordsFit
  <1>6. memory[m].status \in Standing(c)
    BY <1>5 DEF Standing
  <1>7. memory[m].status \notin {"verified", "system", "model", "invalid"}
    BY <1>2, <1>6
  <1>8. QED
    BY <1>3, <1>4, <1>7 DEF RecordsFit

-----------------------------------------------------------------------------
(* Steps. *)

(* An answer that is stored is the next one, and the others stay. *)
LEMMA StoredAnswer ==
    ASSUME TypeOK, NEW s \in Generated \union {"verified"}, NEW c \in Contexts, Stored(s, c)
    PROVE  /\ answers' \in Seq([context : Contexts, status : Generated \union {"verified"}])
           /\ Len(answers') <= MaxAnswers
           /\ Len(answers) + 1 \in Answer
           /\ DOMAIN answers' = DOMAIN answers \union {Len(answers) + 1}
           /\ \A a \in DOMAIN answers : answers'[a] = answers[a]
           /\ answers'[Len(answers) + 1].context = c
  <1> DEFINE e == [context |-> c, status |-> s]
             R == [context : Contexts, status : Generated \union {"verified"}]
  <1>1. e \in R /\ e.context = c /\ answers' = Append(answers, e) /\ answers \in Seq(R)
    BY DEF Stored, TypeOK
  <1>2. Len(answers) \in Nat /\ Len(answers) < MaxAnswers /\ MaxAnswers \in Nat
    BY MemoryAssumption DEF Stored, TypeOK
  <1> HIDE DEF e, R
  <1>3. /\ answers' \in Seq(R) /\ Len(answers') = Len(answers) + 1
        /\ DOMAIN answers' = DOMAIN answers \union {Len(answers) + 1}
        /\ \A a \in DOMAIN answers : answers'[a] = answers[a]
        /\ answers'[Len(answers) + 1] = e
    BY <1>1, Appended
  <1>4. Len(answers) + 1 \in Answer /\ Len(answers') <= MaxAnswers
    BY <1>2, <1>3 DEF Answer
  <1>5. QED
    BY <1>1, <1>3, <1>4 DEF R

(* Stored answers stay as they are. *)
LEMMA AnswersStay ==
    ASSUME MemoryInv, [Next]_vars
    PROVE  /\ answers' \in Seq([context : Contexts, status : Generated \union {"verified"}])
           /\ Len(answers') <= MaxAnswers
           /\ DOMAIN answers \subseteq DOMAIN answers'
           /\ \A a \in DOMAIN answers : answers'[a] = answers[a]
  <1> USE DEF MemoryInv
  <1>1. CASE UNCHANGED answers
    BY <1>1 DEF TypeOK
  <1>2. CASE StoreAnswer
    <2>1. PICK s \in Outcomes : Stored(s, worker.context)
      BY <1>2 DEF StoreAnswer
    <2>2. s \in Generated /\ worker.context \in Contexts
      BY <1>2, MemoryAssumption DEF StoreAnswer, WorkerFits, Generated
    <2>3. QED
      BY <2>1, <2>2, StoredAnswer
  <1>3. ASSUME NEW t \in Threads, NEW q, NEW a \in DOMAIN answers, StoreCopy(t, q, a)
        PROVE  /\ answers' \in Seq([context : Contexts, status : Generated \union {"verified"}])
               /\ Len(answers') <= MaxAnswers
               /\ DOMAIN answers \subseteq DOMAIN answers'
               /\ \A b \in DOMAIN answers : answers'[b] = answers[b]
    <2>1. answers[a].context \in Contexts /\ Stored("verified", answers[a].context)
      BY <1>3, AnswerType DEF StoreCopy
    <2>2. QED
      BY <2>1, StoredAnswer
  <1>4. ASSUME NEW t \in Threads, NEW a \in Answer, Correct(t, a)
        PROVE  a \in DOMAIN answers /\ StoreCopy(t, None, a)
    BY <1>4 DEF Correct
  <1>5. ASSUME NEW t \in Threads, NEW q \in Questions, StillValid(t, q)
        PROVE  question[q].answer \in DOMAIN answers /\ StoreCopy(t, q, question[q].answer)
    BY <1>5 DEF StillValid, HandlersFit
  <1>6. \/ UNCHANGED answers
        \/ StoreAnswer
        \/ \E t \in Threads, a \in Answer : Correct(t, a)
        \/ \E t \in Threads, q \in Questions : StillValid(t, q)
    BY DEF Next, HandlerStep, WorkerStep, Prepared, ConsultMemory, ShowFound, RememberCopy,
           ShowCopy, HandlerFails, ConfirmPlan, ConfirmCorrect, TakeItem, LookAgain,
           RememberAnswer, ShowAnswer, WorkerFails, StopSession, Restart, vars
  <1>7. QED
    BY <1>1, <1>2, <1>3, <1>4, <1>5, <1>6

(* A record that is added is of a stored answer and its context: the        *)
(* worker's own answer, or a verification.                                  *)
LEMMA RecordsStay ==
    ASSUME MemoryInv, [Next]_vars
    PROVE  \/ UNCHANGED memory
           \/ /\ Len(memory) < MaxRecords
              /\ \E a \in DOMAIN answers, s \in Generated \union {"verified"} :
                    /\ memory' = Append(memory, [answer |-> a, status |-> s,
                                                 context |-> answers[a].context])
                    /\ UNCHANGED answers
                    /\ \/ s = "verified" /\ UNCHANGED worker
                       \/ RememberAnswer /\ a = worker.answer /\ s = answers[a].status
  <1> USE DEF MemoryInv
  <1>1. CASE RememberAnswer
    <2>1. /\ worker.answer \in DOMAIN answers
          /\ worker.context = answers[worker.answer].context
      BY <1>1 DEF RememberAnswer, WorkerFits
    <2>2. answers[worker.answer].status \in Generated \union {"verified"}
      BY <2>1, AnswerType
    <2>3. QED
      BY <1>1, <2>1, <2>2 DEF RememberAnswer, Remembered
  <1>2. ASSUME NEW t \in Threads, RememberCopy(t)
        PROVE  /\ Len(memory) < MaxRecords
               /\ \E a \in DOMAIN answers :
                     /\ memory' = Append(memory, [answer |-> a, status |-> "verified",
                                                  context |-> answers[a].context])
                     /\ UNCHANGED <<answers, worker>>
    <2>1. /\ thread[t].answer \in DOMAIN answers
          /\ thread[t].context = answers[thread[t].answer].context
      BY <1>2 DEF RememberCopy, HandlersFit
    <2>2. QED
      BY <1>2, <2>1 DEF RememberCopy, Remembered
  <1>3. ASSUME NEW a \in Answer, ConfirmCorrect(a)
        PROVE  /\ Len(memory) < MaxRecords /\ a \in DOMAIN answers
               /\ memory' = Append(memory, [answer |-> a, status |-> "verified",
                                            context |-> answers[a].context])
               /\ UNCHANGED <<answers, worker>>
    BY <1>3 DEF ConfirmCorrect, Remembered
  <1>4. \/ UNCHANGED memory
        \/ RememberAnswer
        \/ \E t \in Threads : RememberCopy(t)
        \/ \E a \in Answer : ConfirmCorrect(a)
    BY DEF Next, HandlerStep, WorkerStep, Prepared, ConsultMemory, ShowFound, StillValid, Correct,
           StoreCopy, ShowCopy, HandlerFails, ConfirmPlan, TakeItem, LookAgain, StoreAnswer,
           ShowAnswer, WorkerFails, StopSession, Restart, vars
  <1>5. QED
    BY <1>1, <1>2, <1>3, <1>4

(* Records keep fitting their answers, and a context keeps its answer.      *)
LEMMA RecordsStep ==
    ASSUME MemoryInv, [Next]_vars
    PROVE  /\ memory' \in Seq([answer : Answer, status : Generated \union {"verified"},
                               context : Contexts])
           /\ Len(memory') <= MaxRecords
           /\ RecordsFit' /\ SameAnswerAgain'
  <1> USE DEF MemoryInv
  <1> DEFINE R == [answer : Answer, status : Generated \union {"verified"}, context : Contexts]
  <1>1. CASE UNCHANGED memory
    <2>1. RecordsFit'
      BY <1>1, AnswersStay DEF RecordsFit
    <2>2. SameAnswerAgain'
      BY <1>1 DEF SameAnswerAgain
    <2>3. QED
      BY <1>1, <2>1, <2>2 DEF TypeOK
  <1>2. ASSUME Len(memory) < MaxRecords,
               NEW a \in DOMAIN answers, NEW s \in Generated \union {"verified"},
               memory' = Append(memory, [answer |-> a, status |-> s,
                                         context |-> answers[a].context]),
               UNCHANGED answers,
               \/ s = "verified"
               \/ RememberAnswer /\ a = worker.answer /\ s = answers[a].status
        PROVE  memory' \in Seq(R) /\ Len(memory') <= MaxRecords /\ RecordsFit' /\ SameAnswerAgain'
    <2> DEFINE e == [answer |-> a, status |-> s, context |-> answers[a].context]
               new == Len(memory) + 1
    <2>1. e \in R /\ memory \in Seq(R)
      BY AnswerType DEF TypeOK
    <2>2. e.answer = a /\ e.status = s /\ e.context = answers[a].context
      OBVIOUS
    <2> HIDE DEF e, R
    <2>3. memory' = Append(memory, e)
      BY <1>2 DEF e
    <2>4. /\ memory' \in Seq(R) /\ Len(memory') = new
          /\ DOMAIN memory' = DOMAIN memory \union {new}
          /\ \A n \in DOMAIN memory : memory'[n] = memory[n] /\ n # new
          /\ memory'[new] = e
      BY <2>1, <2>3, Appended
    <2>5. RecordsFit'
      BY <1>2, <2>2, <2>4 DEF RecordsFit
    <2>6. ASSUME NEW n \in DOMAIN memory, memory[n].context = e.context,
                 s \in {"model", "system", "invalid"}
          PROVE  memory[n].status \notin {"model", "system", "invalid"}
      <3>1. RememberAnswer /\ a = worker.answer
        BY <1>2, <2>6
      <3>2. worker.pc = "added" /\ worker.context = answers[a].context
        BY <3>1 DEF RememberAnswer, WorkerFits
      <3>3. QED
        BY <2>2, <2>6, <3>2 DEF WorkerFits
    <2>7. SameAnswerAgain'
      BY <2>2, <2>4, <2>6 DEF SameAnswerAgain
    <2>8. Len(memory') <= MaxRecords
      BY <1>2, <2>1, <2>4, MemoryAssumption
    <2>9. QED
      BY <2>4, <2>5, <2>7, <2>8
  <1>3. QED
    BY <1>1, <1>2, RecordsStay

(* Only the worker remembers an answer as it was generated. *)
LEMMA NoneGenerated ==
    ASSUME MemoryInv, [Next]_vars, UNCHANGED worker, NEW c,
           \A n \in DOMAIN memory : memory[n].context = c =>
               memory[n].status \notin {"model", "system", "invalid"}
    PROVE  \A n \in DOMAIN memory' : memory'[n].context = c =>
               memory'[n].status \notin {"model", "system", "invalid"}
  <1> DEFINE R == [answer : Answer, status : Generated \union {"verified"}, context : Contexts]
  <1>1. CASE UNCHANGED memory
    BY <1>1
  <1>2. ASSUME NEW a \in DOMAIN answers,
               memory' = Append(memory, [answer |-> a, status |-> "verified",
                                         context |-> answers[a].context])
        PROVE  \A n \in DOMAIN memory' : memory'[n].context = c =>
                   memory'[n].status \notin {"model", "system", "invalid"}
    <2> DEFINE e == [answer |-> a, status |-> "verified", context |-> answers[a].context]
    <2>1. e \in R /\ memory \in Seq(R) /\ e.status = "verified"
      BY AnswerType DEF TypeOK, MemoryInv
    <2> HIDE DEF e, R
    <2>2. memory' = Append(memory, e)
      BY <1>2 DEF e
    <2>3. /\ DOMAIN memory' = DOMAIN memory \union {Len(memory) + 1}
          /\ \A n \in DOMAIN memory : memory'[n] = memory[n]
          /\ memory'[Len(memory) + 1] = e
      BY <2>1, <2>2, Appended
    <2>4. QED
      BY <2>1, <2>3
  <1>3. ~RememberAnswer
    <2>1. worker = worker'
      OBVIOUS
    <2>2. ASSUME RememberAnswer PROVE FALSE
      <3>1. worker.pc = "added" /\ worker' = [worker EXCEPT !.pc = "remembered"]
        BY <2>2 DEF RememberAnswer
      <3>2. worker \in WorkerState
        BY DEF MemoryInv, TypeOK
      <3>3. worker'.pc = "remembered"
        BY <3>1, <3>2 DEF WorkerState
      <3>4. QED
        BY <2>1, <3>1, <3>3
    <2>3. QED
      BY <2>2
  <1>4. QED
    BY <1>1, <1>2, <1>3, RecordsStay

(* The worker's steps. *)
LEMMA WorkerKeeps ==
    ASSUME MemoryInv, [Next]_vars
    PROVE  worker' \in WorkerState /\ WorkerFits'
  <1> USE DEF MemoryInv
  <1>1. CASE UNCHANGED worker
    <2>1. /\ worker'.pc # "idle" => worker'.question \in Questions /\ worker'.context \in Contexts
          /\ worker'.pc \in {"found", "added", "remembered"} => worker'.answer \in DOMAIN answers'
          /\ worker'.pc = "added" => answers'[worker'.answer].context = worker'.context
      BY <1>1, AnswersStay DEF WorkerFits
    <2>2. ASSUME worker.pc \in {"generate", "added"}
          PROVE  \A n \in DOMAIN memory' : memory'[n].context = worker.context =>
                     memory'[n].status \notin {"model", "system", "invalid"}
      BY <1>1, <2>2, NoneGenerated DEF WorkerFits
    <2>3. WorkerFits'
      BY <1>1, <2>1, <2>2 DEF WorkerFits
    <2>4. QED
      BY <1>1, <2>3 DEF TypeOK
  <1>2. CASE TakeItem
    <2>1. waiting \in Seq([question : Questions, context : Contexts]) /\ waiting # <<>>
      BY <1>2 DEF TakeItem, TypeOK
    <2>2. Head(waiting) \in [question : Questions, context : Contexts]
      BY <2>1, HeadAndTail
    <2>3. worker' = [pc |-> "lookup", question |-> Head(waiting).question,
                     context |-> Head(waiting).context, answer |-> None]
      BY <1>2 DEF TakeItem
    <2>4. /\ worker' \in WorkerState /\ worker'.pc = "lookup"
          /\ worker'.question \in Questions /\ worker'.context \in Contexts
      BY <2>2, <2>3 DEF WorkerState
    <2>5. QED
      BY <2>4 DEF WorkerFits
  <1>3. CASE LookAgain
    <2>1. worker \in WorkerState /\ worker.pc = "lookup" /\ UNCHANGED <<answers, memory>>
      BY <1>3 DEF LookAgain, TypeOK
    <2>2. worker.question \in Questions /\ worker.context \in Contexts
      BY <2>1 DEF WorkerFits
    <2>3. CASE Lookup(worker.context) # None
      <3>1. Lookup(worker.context) \in DOMAIN answers
        BY <2>3, MemoryAssumption, LookupFinds
      <3>2. Lookup(worker.context) \in Answer
        BY <3>1, AnswerType
      <3>3. worker' = [worker EXCEPT !.pc = "found", !.answer = Lookup(worker.context)]
        BY <1>3, <2>3 DEF LookAgain
      <3>4. /\ worker' \in WorkerState /\ worker'.pc = "found"
            /\ worker'.answer = Lookup(worker.context)
            /\ worker'.question = worker.question /\ worker'.context = worker.context
        BY <2>1, <3>2, <3>3 DEF WorkerState
      <3>5. QED
        BY <2>1, <2>2, <3>1, <3>4 DEF WorkerFits
    <2>4. CASE Lookup(worker.context) = None
      <3>1. \A n \in DOMAIN memory : memory[n].context = worker.context =>
                memory[n].status \notin {"model", "system", "invalid"}
        BY <2>4, MemoryAssumption, LookupMisses
      <3>2. worker' = [worker EXCEPT !.pc = "generate"]
        BY <1>3, <2>4 DEF LookAgain
      <3>3. /\ worker' \in WorkerState /\ worker'.pc = "generate"
            /\ worker'.question = worker.question /\ worker'.context = worker.context
        BY <2>1, <3>2 DEF WorkerState
      <3>4. QED
        BY <2>1, <2>2, <3>1, <3>3 DEF WorkerFits
    <2>5. QED
      BY <2>3, <2>4
  <1>4. CASE StoreAnswer
    <2>1. worker \in WorkerState /\ worker.pc = "generate" /\ UNCHANGED memory
      BY <1>4 DEF StoreAnswer, TypeOK
    <2>2. worker.question \in Questions /\ worker.context \in Contexts
      BY <2>1 DEF WorkerFits
    <2>3. PICK s \in Outcomes : Stored(s, worker.context)
      BY <1>4 DEF StoreAnswer
    <2>4. s \in Generated \union {"verified"}
      BY MemoryAssumption DEF Generated
    <2>5. /\ Len(answers) + 1 \in Answer /\ Len(answers) + 1 \in DOMAIN answers'
          /\ answers'[Len(answers) + 1].context = worker.context
      BY <2>2, <2>3, <2>4, StoredAnswer
    <2>6. worker' = [worker EXCEPT !.pc = "added", !.answer = Len(answers) + 1]
      BY <1>4 DEF StoreAnswer
    <2>7. /\ worker' \in WorkerState /\ worker'.pc = "added" /\ worker'.answer = Len(answers) + 1
          /\ worker'.question = worker.question /\ worker'.context = worker.context
      BY <2>1, <2>5, <2>6 DEF WorkerState
    <2>8. QED
      BY <2>1, <2>2, <2>5, <2>7 DEF WorkerFits
  <1>5. CASE RememberAnswer
    <2>1. worker \in WorkerState /\ worker.pc = "added" /\ UNCHANGED answers
      BY <1>5 DEF RememberAnswer, TypeOK
    <2>2. worker' = [worker EXCEPT !.pc = "remembered"]
      BY <1>5 DEF RememberAnswer
    <2>3. /\ worker' \in WorkerState /\ worker'.pc = "remembered" /\ worker'.answer = worker.answer
          /\ worker'.question = worker.question /\ worker'.context = worker.context
      BY <2>1, <2>2 DEF WorkerState
    <2>4. QED
      BY <2>1, <2>3 DEF WorkerFits
  <1>6. CASE ShowAnswer \/ WorkerFails
    <2>1. worker' = NoItem
      BY <1>6 DEF ShowAnswer, WorkerFails
    <2>2. worker' \in WorkerState /\ worker'.pc = "idle"
      BY <2>1 DEF NoItem, WorkerState
    <2>3. QED
      BY <2>2 DEF WorkerFits
  <1>7. \/ UNCHANGED worker
        \/ TakeItem \/ LookAgain \/ StoreAnswer \/ RememberAnswer \/ ShowAnswer \/ WorkerFails
    BY DEF Next, HandlerStep, WorkerStep, Prepared, ConsultMemory, ShowFound, StillValid, Correct,
           StoreCopy, ShowCopy, HandlerFails, ConfirmPlan, ConfirmCorrect, RememberCopy,
           StopSession, Restart, vars
  <1>8. QED
    BY <1>1, <1>2, <1>3, <1>4, <1>5, <1>6, <1>7

(* The items that wait. *)
LEMMA WaitingKeeps ==
    ASSUME MemoryInv, [Next]_vars
    PROVE  /\ waiting' \in Seq([question : Questions, context : Contexts])
           /\ Len(waiting') <= MaxWaiting
  <1> DEFINE R == [question : Questions, context : Contexts]
  <1>1. waiting \in Seq(R) /\ Len(waiting) \in Nat /\ Len(waiting) <= MaxWaiting /\ MaxWaiting \in Nat
    BY MemoryAssumption DEF MemoryInv, TypeOK
  <1>2. CASE UNCHANGED waiting
    BY <1>1, <1>2
  <1>3. CASE waiting' = <<>>
    BY <1>1, <1>3
  <1>4. CASE TakeItem
    <2>1. waiting # <<>> /\ waiting' = Tail(waiting)
      BY <1>4 DEF TakeItem
    <2> HIDE DEF R
    <2>2. waiting' \in Seq(R) /\ Len(waiting') = Len(waiting) - 1
      BY <1>1, <2>1, HeadAndTail
    <2>3. Len(waiting') <= MaxWaiting
      BY <1>1, <2>2
    <2>4. QED
      BY <2>2, <2>3 DEF R
  <1>5. ASSUME NEW t \in Threads, ConsultMemory(t), waiting' # waiting
        PROVE  waiting' \in Seq(R) /\ Len(waiting') <= MaxWaiting
    <2> DEFINE e == [question |-> thread[t].question, context |-> thread[t].context]
    <2>1. /\ thread[t].pc = "lookup" /\ Len(waiting) < MaxWaiting
          /\ waiting' = Append(waiting, e)
      BY <1>5 DEF ConsultMemory
    <2>2. e \in R
      BY <2>1 DEF MemoryInv, HandlersFit
    <2> HIDE DEF R, e
    <2>3. waiting' \in Seq(R) /\ Len(waiting') = Len(waiting) + 1
      BY <1>1, <2>1, <2>2, Appended
    <2>4. Len(waiting') <= MaxWaiting
      BY <1>1, <2>1, <2>3
    <2>5. QED
      BY <2>3, <2>4 DEF R
  <1>6. \/ UNCHANGED waiting
        \/ waiting' = <<>>
        \/ TakeItem
        \/ \E t \in Threads : ConsultMemory(t)
    BY DEF Next, HandlerStep, WorkerStep, Prepared, ShowFound, StillValid, Correct,
           StoreCopy, ShowCopy, HandlerFails, ConfirmPlan, ConfirmCorrect, RememberCopy,
           LookAgain, StoreAnswer, RememberAnswer, ShowAnswer, WorkerFails,
           StopSession, Restart, Drop, vars
  <1>7. QED
    BY <1>2, <1>3, <1>4, <1>5, <1>6

(* The previous answer, if any, is an answer. *)
LEMMA PreviousType ==
    ASSUME TypeOK, NEW c
    PROVE  Previous(c) \in Answer \union {None}
  <1> DEFINE ns == {n \in Latest : memory[n].context # c /\ memory[n].status \in Reusable}
  <1>1. Previous(c) = Newest(ns) /\ ns \in SUBSET DOMAIN memory
    BY DEF Previous, Latest
  <1> HIDE DEF ns
  <1>2. CASE ns = {}
    BY <1>1, <1>2 DEF Newest
  <1>3. CASE ns # {}
    <2>1. PICK n \in ns : Newest(ns) = memory[n].answer
      BY <1>1, <1>3, NewestIsOne
    <2>2. memory[n].answer \in Answer
      BY <1>1, RecordType
    <2>3. QED
      BY <1>1, <2>1, <2>2
  <1>4. QED
    BY <1>2, <1>3

(* A question that is shown a stored answer. *)
LEMMA ShownQuestion ==
    ASSUME TypeOK, NEW q \in Questions, NEW a \in DOMAIN answers, NEW fresh, Shows(q, a, fresh)
    PROVE  /\ question' \in [Questions -> QuestionState]
           /\ question'[q].answer = a
           /\ \A p \in Questions \ {q} : question'[p] = question[p]
  <1> DEFINE was == IF fresh /\ answers[a].status # "invalid"
                    THEN Previous(answers[a].context) ELSE None
             e == [status |-> "answered", answer |-> a, previous |-> was]
  <1>1. was \in Answer \union {None}
    BY PreviousType
  <1>2. question' = [question EXCEPT ![q] = e]
    BY DEF Shows
  <1> HIDE DEF was
  <1>3. e \in QuestionState /\ e.answer = a
    BY <1>1, AnswerType DEF QuestionState
  <1> HIDE DEF e
  <1>4. question \in [Questions -> QuestionState]
    BY DEF TypeOK
  <1>5. QED
    BY <1>2, <1>3, <1>4

(* The questions, and the answers they show. *)
LEMMA QuestionsKeep ==
    ASSUME MemoryInv, [Next]_vars
    PROVE  /\ question' \in [Questions -> QuestionState]
           /\ \A q \in Questions : question'[q].answer # None => question'[q].answer \in DOMAIN answers'
  <1> USE DEF MemoryInv
  <1> DEFINE Fit == /\ question' \in [Questions -> QuestionState]
                    /\ \A q \in Questions :
                          question'[q].answer # None => question'[q].answer \in DOMAIN answers'
  <1>1. /\ question \in [Questions -> QuestionState]
        /\ \A q \in Questions : question[q].answer # None => question[q].answer \in DOMAIN answers'
    BY AnswersStay DEF TypeOK, HandlersFit
  <1>2. ASSUME UNCHANGED question PROVE Fit
    BY <1>1, <1>2
  <1>3. ASSUME NEW q \in Questions, NEW s \in {"open", "answering", "answered"},
               question' = [question EXCEPT ![q].status = s]
        PROVE  Fit
    <2>1. question'[q] = [question[q] EXCEPT !.status = s] /\ question[q] \in QuestionState
      BY <1>1, <1>3
    <2>2. question'[q] \in QuestionState /\ question'[q].answer = question[q].answer
      BY <2>1 DEF QuestionState
    <2>3. \A p \in Questions \ {q} : question'[p] = question[p]
      BY <1>1, <1>3
    <2>4. QED
      BY <1>1, <1>3, <2>2, <2>3
  <1>4. ASSUME NEW qs, Drop(qs) PROVE Fit
    <2>1. question' = [q \in Questions |->
              IF q \in qs /\ question[q].status # "answered"
              THEN [question[q] EXCEPT !.status = "open"] ELSE question[q]]
      BY <1>4 DEF Drop
    <2>2. ASSUME NEW q \in Questions
          PROVE  question'[q] \in QuestionState /\ question'[q].answer = question[q].answer
      <3>1. question[q] \in QuestionState
        BY <1>1
      <3>2. /\ [question[q] EXCEPT !.status = "open"] \in QuestionState
            /\ [question[q] EXCEPT !.status = "open"].answer = question[q].answer
        BY <3>1 DEF QuestionState
      <3>3. QED
        BY <2>1, <3>1, <3>2
    <2>3. QED
      BY <1>1, <2>1, <2>2
  <1>5. ASSUME NEW q \in Questions, NEW a \in DOMAIN answers, NEW fresh, Shows(q, a, fresh)
        PROVE  Fit
    BY <1>1, <1>5, ShownQuestion, AnswersStay
  <1>6. ASSUME NEW t \in Threads, ShowCopy(t) PROVE Fit
    <2> DEFINE q == thread[t].question
               a == thread[t].answer
    <2>1. q \in Questions /\ a \in DOMAIN answers
      BY <1>6 DEF ShowCopy, HandlersFit
    <2>2. question' = [question EXCEPT ![q].answer = a]
      BY <1>6 DEF ShowCopy
    <2>3. a \in Answer
      BY <2>1, AnswerType
    <2> HIDE DEF q, a
    <2>4. question'[q] = [question[q] EXCEPT !.answer = a] /\ question[q] \in QuestionState
      BY <1>1, <2>1, <2>2
    <2>5. question'[q] \in QuestionState /\ question'[q].answer = a
      BY <2>3, <2>4 DEF QuestionState
    <2>6. \A p \in Questions \ {q} : question'[p] = question[p]
      BY <1>1, <2>2
    <2>7. QED
      BY <1>1, <2>1, <2>2, <2>5, <2>6, AnswersStay
  <1>7. ASSUME NEW t \in Threads, Prepared(t)
        PROVE  /\ thread[t].question \in Questions
               /\ question' = [question EXCEPT ![thread[t].question].status = "answering"]
    BY <1>7 DEF Prepared, HandlersFit
  <1>8. ASSUME NEW t \in Threads, ShowFound(t)
        PROVE  /\ thread[t].question \in Questions /\ thread[t].answer \in DOMAIN answers
               /\ Shows(thread[t].question, thread[t].answer, FALSE)
    BY <1>8 DEF ShowFound, HandlersFit
  <1>9. ASSUME ShowAnswer
        PROVE  /\ worker.question \in Questions /\ worker.answer \in DOMAIN answers
               /\ Shows(worker.question, worker.answer, worker.pc = "remembered")
    BY <1>9 DEF ShowAnswer, WorkerFits
  <1>10. ASSUME WorkerFails
         PROVE  \/ UNCHANGED question
                \/ /\ worker.question \in Questions
                   /\ question' = [question EXCEPT ![worker.question].status = "open"]
    BY <1>10 DEF WorkerFails, WorkerFits
  <1>11. \/ UNCHANGED question
         \/ \E t \in Threads : Prepared(t) \/ ShowFound(t) \/ ShowCopy(t)
         \/ ShowAnswer \/ WorkerFails
         \/ \E qs : Drop(qs)
    BY DEF Next, HandlerStep, WorkerStep, ConsultMemory, StillValid, Correct, StoreCopy,
           HandlerFails, ConfirmPlan, ConfirmCorrect, RememberCopy, TakeItem, LookAgain,
           StoreAnswer, RememberAnswer, StopSession, Restart, vars
  <1>12. Fit
    <2> HIDE DEF Fit
    <2>1. ASSUME NEW t \in Threads, Prepared(t) PROVE Fit
      BY <2>1, <1>3, <1>7
    <2>2. ASSUME NEW t \in Threads, ShowFound(t) PROVE Fit
      BY <2>2, <1>5, <1>8
    <2>3. ASSUME ShowAnswer PROVE Fit
      BY <2>3, <1>5, <1>9
    <2>4. ASSUME WorkerFails PROVE Fit
      <3>1. CASE UNCHANGED question
        BY <3>1, <1>2
      <3>2. CASE /\ worker.question \in Questions
                 /\ question' = [question EXCEPT ![worker.question].status = "open"]
        BY <3>2, <1>3
      <3>3. QED
        BY <2>4, <3>1, <3>2, <1>10
    <2>5. ASSUME NEW t \in Threads, ShowCopy(t) PROVE Fit
      BY <2>5, <1>6
    <2>6. QED
      BY <1>2, <1>4, <1>11, <2>1, <2>2, <2>3, <2>4, <2>5
  <1>13. QED
    BY <1>12

(* One thread at a time moves. *)
LEMMA OneThread ==
    ASSUME MemoryInv, [Next]_vars, NEW t \in Threads, NEW h \in Handler,
           thread' = [thread EXCEPT ![t] = h],
           h.pc # "idle" => h.context \in Contexts,
           h.pc \notin {"idle", "remember"} => h.question \in Questions,
           h.pc \in {"found", "remember", "show"} => h.answer \in DOMAIN answers',
           h.pc = "remember" => answers'[h.answer].context = h.context
    PROVE  thread' \in [Threads -> Handler] /\ HandlersFit'
  <1>1. /\ thread \in [Threads -> Handler]
        /\ \A s \in Threads :
              /\ thread[s].pc # "idle" => thread[s].context \in Contexts
              /\ thread[s].pc \notin {"idle", "remember"} => thread[s].question \in Questions
              /\ thread[s].pc \in {"found", "remember", "show"} => thread[s].answer \in DOMAIN answers'
              /\ thread[s].pc = "remember" => answers'[thread[s].answer].context = thread[s].context
    BY AnswersStay DEF MemoryInv, TypeOK, HandlersFit
  <1>2. /\ thread' \in [Threads -> Handler] /\ thread'[t] = h
        /\ \A s \in Threads \ {t} : thread'[s] = thread[s]
    BY <1>1
  <1>3. QED
    BY <1>1, <1>2, QuestionsKeep DEF HandlersFit

(* The handlers' steps. *)
LEMMA HandlersKeep ==
    ASSUME MemoryInv, [Next]_vars
    PROVE  thread' \in [Threads -> Handler] /\ HandlersFit'
  <1> DEFINE Fit == thread' \in [Threads -> Handler] /\ HandlersFit'
  <1>1. thread \in [Threads -> Handler]
    BY DEF MemoryInv, TypeOK
  <1>2. Idle \in Handler /\ Idle.pc = "idle"
    BY DEF Idle, NoItem, Handler
  <1>3. ASSUME UNCHANGED thread PROVE Fit
    BY <1>1, <1>3, AnswersStay, QuestionsKeep DEF MemoryInv, HandlersFit
  <1>4. ASSUME NEW t \in Threads, thread' = [thread EXCEPT ![t] = Idle] PROVE Fit
    BY <1>2, <1>4, OneThread
  <1>5. ASSUME Restart PROVE Fit
    <2>1. thread' = [t \in Threads |-> Idle]
      BY <1>5 DEF Restart
    <2>2. QED
      BY <1>2, <2>1, QuestionsKeep DEF HandlersFit
  <1>6. ASSUME NEW t \in Threads, NEW q \in Questions, ConfirmPlan(t, q) PROVE Fit
    <2>1. PICK c \in Contexts : thread' = [thread EXCEPT
              ![t] = [pc |-> "prepare", question |-> q, context |-> c, answer |-> None]]
      BY <1>6 DEF ConfirmPlan
    <2> DEFINE h == [pc |-> "prepare", question |-> q, context |-> c, answer |-> None]
    <2>2. h \in Handler /\ h.pc = "prepare" /\ h.context = c /\ h.question = q
      BY DEF Handler
    <2> HIDE DEF h
    <2>3. thread' = [thread EXCEPT ![t] = h]
      BY <2>1 DEF h
    <2>4. QED
      BY <2>2, <2>3, OneThread
  <1>7. ASSUME NEW t \in Threads, Prepared(t) PROVE Fit
    <2> DEFINE h == [thread[t] EXCEPT !.pc = "lookup"]
    <2>1. thread[t].pc = "prepare" /\ thread' = [thread EXCEPT ![t].pc = "lookup"]
      BY <1>7 DEF Prepared
    <2>2. thread[t].context \in Contexts /\ thread[t].question \in Questions
      BY <2>1 DEF MemoryInv, HandlersFit
    <2>3. thread' = [thread EXCEPT ![t] = h]
      BY <1>1, <2>1
    <2>4. /\ h \in Handler /\ h.pc = "lookup"
          /\ h.context = thread[t].context /\ h.question = thread[t].question
      BY <1>1 DEF Handler
    <2> HIDE DEF h
    <2>5. QED
      BY <2>2, <2>3, <2>4, OneThread
  <1>8. ASSUME NEW t \in Threads, ConsultMemory(t), thread' # [thread EXCEPT ![t] = Idle] PROVE Fit
    <2> DEFINE a == Lookup(thread[t].context)
               h == [thread[t] EXCEPT !.pc = "found", !.answer = a]
    <2>1. /\ thread[t].pc = "lookup" /\ a # None /\ UNCHANGED answers
          /\ thread' = [thread EXCEPT ![t].pc = "found", ![t].answer = a]
      BY <1>8 DEF ConsultMemory
    <2>2. thread[t].context \in Contexts /\ thread[t].question \in Questions
      BY <2>1 DEF MemoryInv, HandlersFit
    <2>3. a \in DOMAIN answers
      BY <2>1, MemoryAssumption, LookupFinds DEF MemoryInv
    <2> HIDE DEF a
    <2>4. a \in Answer
      BY <2>3, AnswerType DEF MemoryInv
    <2>5. thread' = [thread EXCEPT ![t] = h]
      BY <1>1, <2>1
    <2>6. /\ h \in Handler /\ h.pc = "found" /\ h.answer = a
          /\ h.context = thread[t].context /\ h.question = thread[t].question
      BY <1>1, <2>4 DEF Handler
    <2> HIDE DEF h
    <2>7. QED
      BY <2>1, <2>2, <2>3, <2>5, <2>6, OneThread
  <1>9. ASSUME NEW t \in Threads, NEW q \in Questions \union {None}, NEW a \in DOMAIN answers,
               StoreCopy(t, q, a)
        PROVE  Fit
    <2> DEFINE h == [pc |-> "remember", question |-> q, context |-> answers[a].context,
                     answer |-> Len(answers) + 1]
    <2>1. answers[a].context \in Contexts
      BY AnswerType DEF MemoryInv
    <2>2. Stored("verified", answers[a].context) /\ thread' = [thread EXCEPT ![t] = h]
      BY <1>9 DEF StoreCopy
    <2>3. /\ Len(answers) + 1 \in Answer /\ Len(answers) + 1 \in DOMAIN answers'
          /\ answers'[Len(answers) + 1].context = answers[a].context
      BY <2>1, <2>2, StoredAnswer DEF MemoryInv
    <2>4. /\ h \in Handler /\ h.pc = "remember" /\ h.answer = Len(answers) + 1
          /\ h.context = answers[a].context
      BY <2>1, <2>3 DEF Handler
    <2> HIDE DEF h
    <2>5. QED
      BY <2>1, <2>2, <2>3, <2>4, OneThread
  <1>10. ASSUME NEW t \in Threads, RememberCopy(t), thread' # [thread EXCEPT ![t] = Idle] PROVE Fit
    <2> DEFINE h == [thread[t] EXCEPT !.pc = "show"]
    <2>1. /\ thread[t].pc = "remember" /\ thread[t].question # None /\ UNCHANGED answers
          /\ thread' = [thread EXCEPT ![t] = h]
      BY <1>1, <1>10 DEF RememberCopy
    <2>2. thread[t].context \in Contexts /\ thread[t].answer \in DOMAIN answers
      BY <2>1 DEF MemoryInv, HandlersFit
    <2>3. /\ h \in Handler /\ h.pc = "show" /\ h.answer = thread[t].answer
          /\ h.context = thread[t].context /\ h.question = thread[t].question
      BY <1>1 DEF Handler
    <2>4. thread[t].question \in Questions
      BY <1>1, <2>1 DEF Handler
    <2> HIDE DEF h
    <2>5. QED
      BY <2>1, <2>2, <2>3, <2>4, OneThread
  <1>11. ASSUME NEW t \in Threads, NEW a \in Answer, Correct(t, a) PROVE Fit
    <2>1. a \in DOMAIN answers /\ StoreCopy(t, None, a)
      BY <1>11 DEF Correct
    <2>2. QED
      BY <1>9, <2>1
  <1>12. ASSUME NEW t \in Threads, NEW q \in Questions, StillValid(t, q) PROVE Fit
    <2>1. question[q].answer \in DOMAIN answers /\ StoreCopy(t, q, question[q].answer)
      BY <1>12 DEF StillValid, MemoryInv, HandlersFit
    <2>2. QED
      BY <1>9, <2>1
  <1>13. \/ UNCHANGED thread
         \/ \E t \in Threads : thread' = [thread EXCEPT ![t] = Idle]
         \/ \E t \in Threads : Prepared(t) \/ ConsultMemory(t) \/ RememberCopy(t)
         \/ \E t \in Threads, q \in Questions : ConfirmPlan(t, q) \/ StillValid(t, q)
         \/ \E t \in Threads, a \in Answer : Correct(t, a)
         \/ Restart
    BY DEF Next, HandlerStep, WorkerStep, ShowFound, ShowCopy, HandlerFails, ConfirmCorrect,
           TakeItem, LookAgain, StoreAnswer, RememberAnswer, ShowAnswer, WorkerFails,
           StopSession, vars
  <1>14. Fit
    <2> HIDE DEF Fit
    <2>1. ASSUME NEW t \in Threads, ConsultMemory(t) PROVE Fit
      BY <2>1, <1>4, <1>8
    <2>2. ASSUME NEW t \in Threads, RememberCopy(t) PROVE Fit
      BY <2>2, <1>4, <1>10
    <2>3. QED
      BY <1>3, <1>4, <1>5, <1>6, <1>7, <1>11, <1>12, <1>13, <2>1, <2>2
  <1>15. QED
    BY <1>14

-----------------------------------------------------------------------------
(* What the memory keeps. *)

(* The inductive invariant: everything is of its type, every record is of a *)
(* stored answer and its context, and a worker that generates has found     *)
(* nothing to return.                                                       *)
THEOREM MemoryInvariant == Spec => []MemoryInv
  <1>1. Init => MemoryInv
    <2> SUFFICES ASSUME Init PROVE MemoryInv
      OBVIOUS
    <2>1. /\ answers = <<>> /\ memory = <<>> /\ waiting = <<>> /\ worker = NoItem
          /\ question = [q \in Questions |-> Unanswered]
          /\ thread = [t \in Threads |-> Idle]
      BY DEF Init
    <2>2. NoItem \in WorkerState /\ NoItem \in Handler /\ NoItem.pc = "idle"
      BY DEF NoItem, WorkerState, Handler
    <2>3. Unanswered \in QuestionState /\ Unanswered.answer = None
      BY DEF Unanswered, QuestionState
    <2>4. TypeOK
      BY <2>1, <2>2, <2>3, MemoryAssumption DEF TypeOK, Idle
    <2>5. RecordsFit /\ SameAnswerAgain
      BY <2>1 DEF RecordsFit, SameAnswerAgain
    <2>6. WorkerFits
      BY <2>1, <2>2 DEF WorkerFits
    <2>7. HandlersFit
      BY <2>1, <2>2, <2>3 DEF HandlersFit, Idle
    <2>8. QED
      BY <2>4, <2>5, <2>6, <2>7 DEF MemoryInv
  <1>2. MemoryInv /\ [Next]_vars => MemoryInv'
    <2> SUFFICES ASSUME MemoryInv, [Next]_vars PROVE MemoryInv'
      OBVIOUS
    <2>1. TypeOK'
      BY AnswersStay, RecordsStep, QuestionsKeep, WaitingKeeps, WorkerKeeps, HandlersKeep DEF TypeOK
    <2>2. QED
      BY <2>1, RecordsStep, WorkerKeeps, HandlersKeep DEF MemoryInv
  <1>3. QED
    BY <1>1, <1>2, PTL DEF Spec

(* The same question in the same context gets the same answer: memory never *)
(* holds two reusable generated answers of one context, for every number of *)
(* questions, handlers, failures and restarts.                              *)
THEOREM SameAnswerHolds == Spec => []SameAnswerAgain
  <1>1. MemoryInv => SameAnswerAgain
    BY DEF MemoryInv
  <1>2. QED
    BY <1>1, MemoryInvariant, PTL

(* When the last verification of a context was a correction or "Still       *)
(* valid", lookup returns it: a verified answer outranks every other, and   *)
(* of the verified ones the newest is the copy that was stored last.        *)
THEOREM CorrectionHolds == Spec => []CorrectionIsReturned
  <1>1. ASSUME MemoryInv, NEW c \in Contexts, NEW n \in DOMAIN memory,
               LastVerified(c, n), NewCopy(n)
        PROVE  Lookup(c) = memory[n].answer
    <2> DEFINE ns == Having(c, "verified")
    <2>1. DOMAIN memory = 1..Len(memory) /\ TypeOK /\ RecordsFit
      BY <1>1 DEF MemoryInv, TypeOK
    <2>2. /\ memory[n].context = c /\ memory[n].status = "verified"
          /\ \A m \in DOMAIN memory :
                memory[m].context = c /\ memory[m].status = "verified" => m <= n
          /\ answers[memory[n].answer].status = "verified"
          /\ \A m \in DOMAIN memory : memory[m].answer = memory[n].answer => n <= m
      BY <1>1 DEF LastVerified, NewCopy
    <2>3. ASSUME NEW m \in DOMAIN memory, memory[m].answer = memory[n].answer
          PROVE  m = n
      <3>1. memory[m].context = c /\ memory[m].status = "verified"
        BY <2>1, <2>2, <2>3 DEF RecordsFit
      <3>2. m <= n /\ n <= m
        BY <2>2, <2>3, <3>1
      <3>3. QED
        BY <2>1, <3>2
    <2>4. n \in ns
      BY <2>1, <2>2, <2>3 DEF Having, Latest
    <2>5. Rank(c) = 1
      <3>1. "verified" \in Standing(c)
        BY <2>4 DEF Having, Standing
      <3>2. 1 \notin 1..(Rank(c) - 1)
        BY <3>1, RankIsFirst DEF Priority
      <3>3. QED
        BY <3>2, RankIsFirst
    <2>6. Lookup(c) = Newest(ns)
      BY <2>5 DEF Lookup, Priority
    <2>7. ns \in SUBSET DOMAIN memory
      BY DEF Having, Latest
    <2>8. PICK k \in ns : /\ Newest(ns) = memory[k].answer
                          /\ \A m \in ns : Before(memory[m].answer, memory[k].answer)
      BY <2>1, <2>4, <2>7, NewestIsOne
    <2>9. k \in DOMAIN memory /\ k <= n
      BY <2>2, <2>7, <2>8 DEF Having
    <2>10. PICK m \in DOMAIN memory : /\ memory[m].answer = memory[n].answer
                                      /\ \A i \in DOMAIN memory :
                                            memory[i].answer = memory[k].answer => m <= i
      BY <2>4, <2>8 DEF Before
    <2>11. m = n
      BY <2>3, <2>10
    <2>12. n <= k
      BY <2>9, <2>10, <2>11
    <2>13. k = n
      BY <2>1, <2>9, <2>12
    <2>14. QED
      BY <2>6, <2>8, <2>13
  <1>2. MemoryInv => CorrectionIsReturned
    BY <1>1 DEF CorrectionIsReturned
  <1>3. QED
    BY <1>2, MemoryInvariant, PTL

-----------------------------------------------------------------------------
(* Documents. *)

(* The window of a version ends with its own last day or, when that is      *)
(* earlier, the day before a successor starts (effective_windows).          *)
LEMMA WindowEnds ==
    ASSUME NEW known \in SUBSET Versions, NEW v \in known
    PROVE  /\ LastDay(v, known) # Absent => LastDay(v, known) \in Nat
           /\ \A w \in Successors(v, known) :
                 LastDay(v, known) # Absent /\ LastDay(v, known) < Meta[w].from
  <1> DEFINE ends == {Meta[w].from - 1 : w \in Successors(v, known)} \union ({Meta[v].to} \ {Absent})
  <1>1. \A w \in Successors(v, known) : /\ Meta[w].from - 1 \in Nat
                                        /\ Meta[w].from - 1 \in ends
                                        /\ Meta[w].from - 1 < Meta[w].from
    BY LibraryAssumption DEF Successors, LibraryAssumption
  <1>2. ends \in SUBSET Nat
    BY <1>1, LibraryAssumption DEF LibraryAssumption
  <1>3. LastDay(v, known) = IF ends = {} THEN Absent ELSE Min(ends)
    BY DEF LastDay
  <1> HIDE DEF ends
  <1>4. CASE ends = {}
    BY <1>1, <1>3, <1>4
  <1>5. CASE ends # {}
    <2>1. Min(ends) = CHOOSE e \in ends : \A k \in ends : e <= k
      BY DEF Min
    <2>2. \E e \in ends : \A k \in ends : e <= k
      BY <1>2, <1>5, LeastOf
    <2>3. Min(ends) \in ends /\ \A k \in ends : Min(ends) <= k
      BY <2>1, <2>2
    <2>4. LastDay(v, known) \in Nat /\ LastDay(v, known) # Absent
      BY <1>2, <1>3, <1>5, <2>3, LibraryAssumption DEF LibraryAssumption
    <2>5. ASSUME NEW w \in Successors(v, known) PROVE LastDay(v, known) < Meta[w].from
      <3>1. Meta[w].from - 1 \in ends /\ Meta[w].from \in Nat
        BY <1>1, LibraryAssumption DEF Successors, LibraryAssumption
      <3>2. LastDay(v, known) <= Meta[w].from - 1
        BY <1>3, <1>5, <2>3, <3>1
      <3>3. QED
        BY <2>4, <3>1, <3>2
    <2>6. QED
      BY <2>4, <2>5
  <1>6. QED
    BY <1>4, <1>5

(* An asker who sees a version asks within its window, and it is approved.  *)
LEMMA SeenInWindow ==
    ASSUME NEW known \in SUBSET Versions, NEW a \in Askers, NEW v \in VisibleDocuments(a, known)
    PROVE  /\ v \in known /\ Approved(v) /\ Meta[v].from <= a.asOf
           /\ LastDay(v, known) # Absent => a.asOf <= LastDay(v, known)
  <1> DEFINE chunk == ChunkOf(v, known)
  <1>1. {"from", "to", "status"} \subseteq DOMAIN Meta[v] /\ Meta[v].from \in Nat
    BY LibraryAssumption DEF VisibleDocuments, LibraryAssumption
  <1>2. /\ chunk.status = Meta[v].status /\ chunk.from = Meta[v].from
        /\ chunk.to = LastDay(v, known)
    BY <1>1 DEF ChunkOf
  <1>3. v \in known /\ VisibleTo(a, chunk)
    BY DEF VisibleDocuments
  <1> HIDE DEF chunk
  <1>4. QED
    BY <1>1, <1>2, <1>3, LibraryAssumption DEF VisibleTo, Approved, LibraryAssumption

(* Of the approved versions of a document that take effect on different     *)
(* days, an asker sees one.                                                 *)
LEMMA OneInForce ==
    ASSUME NEW known \in SUBSET Versions, NEW a \in Askers,
           NEW v \in VisibleDocuments(a, known), NEW w \in VisibleDocuments(a, known),
           Meta[v].document = Meta[w].document,
           v # w => Meta[v].from # Meta[w].from
    PROVE  v = w
  <1>1. /\ v \in known /\ Approved(v) /\ Meta[v].from <= a.asOf
        /\ LastDay(v, known) # Absent => a.asOf <= LastDay(v, known)
        /\ w \in known /\ Approved(w) /\ Meta[w].from <= a.asOf
        /\ LastDay(w, known) # Absent => a.asOf <= LastDay(w, known)
    BY SeenInWindow
  <1>2. Meta[v].from \in Nat /\ Meta[w].from \in Nat /\ a.asOf \in Nat
    BY <1>1, LibraryAssumption DEF LibraryAssumption
  <1>3. ASSUME NEW x \in known, NEW y \in known, Approved(y),
               Meta[y].document = Meta[x].document, Meta[x].from < Meta[y].from,
               Meta[y].from <= a.asOf, Meta[x].from \in Nat, Meta[y].from \in Nat,
               LastDay(x, known) # Absent => a.asOf <= LastDay(x, known)
        PROVE  FALSE
    <2>1. y \in Successors(x, known)
      BY <1>3 DEF Successors, Replaces
    <2>2. LastDay(x, known) # Absent /\ LastDay(x, known) \in Nat /\ LastDay(x, known) < Meta[y].from
      BY <2>1, WindowEnds
    <2>3. QED
      BY <1>2, <1>3, <2>2
  <1>4. CASE Meta[v].from < Meta[w].from
    BY <1>1, <1>2, <1>3, <1>4
  <1>5. CASE Meta[w].from < Meta[v].from
    BY <1>1, <1>2, <1>3, <1>5
  <1>6. QED
    BY <1>2, <1>4, <1>5

(* What a registration adds to the registered versions. *)
LEMMA RegisteredMore ==
    ASSUME documents \in Seq(Versions), NEW v \in Versions
    PROVE  /\ Append(documents, v) \in Seq(Versions)
           /\ ToSet(Append(documents, v)) = Registered \union {v}
  <1>1. /\ Append(documents, v) \in Seq(Versions)
        /\ DOMAIN Append(documents, v) = DOMAIN documents \union {Len(documents) + 1}
        /\ \A n \in DOMAIN documents : Append(documents, v)[n] = documents[n]
        /\ Append(documents, v)[Len(documents) + 1] = v
    BY Appended
  <1>2. QED
    BY <1>1 DEF ToSet, Registered

OneAtATime == \E r : Registrars = {r}

(* A registration, checked against all that is registered, keeps keys and   *)
(* dates apart (documents.register, store.add).                             *)
LEMMA RegistrationKeeps ==
    ASSUME LibraryInv, OneAtATime, [LibraryNext]_libraryVars
    PROVE  documents' \in Seq(Versions) /\ RequestsFit' /\ KeysDiffer' /\ DatesDiffer'
  <1> USE DEF LibraryInv
  <1> DEFINE Kept == documents' \in Seq(Versions) /\ RequestsFit' /\ KeysDiffer' /\ DatesDiffer'
  <1>1. PICK r : Registrars = {r}
    BY DEF OneAtATime
  <1>2. /\ documents \in Seq(Versions)
        /\ registering \in [Registrars -> [pc : {"idle", "checked", "kept"},
                                           version : Versions \union {Absent}]]
        /\ NoRequest \in [pc : {"idle", "checked", "kept"}, version : Versions \union {Absent}]
        /\ NoRequest.pc = "idle"
    BY DEF RequestsFit, NoRequest
  <1>3. ASSUME UNCHANGED documents PROVE Registered' = Registered
    BY <1>3 DEF Registered
  <1>4. ASSUME UNCHANGED <<documents, registering>> PROVE Kept
    BY <1>3, <1>4 DEF RequestsFit, KeysDiffer, DatesDiffer
  <1>5. ASSUME UNCHANGED documents, registering' = [registering EXCEPT ![r] = NoRequest]
        PROVE  Kept
    BY <1>1, <1>2, <1>3, <1>5 DEF RequestsFit, KeysDiffer, DatesDiffer
  <1>6. ASSUME Register(r) PROVE Kept
    <2>1. PICK v \in Versions :
              /\ \A w \in Registered : ~SameDate(v, w)
              /\ registering' = [registering EXCEPT ![r] = [pc |-> "checked", version |-> v]]
      BY <1>6 DEF Register
    <2>2. UNCHANGED documents
      BY <1>6 DEF Register
    <2>3. /\ registering' \in [Registrars -> [pc : {"idle", "checked", "kept"},
                                              version : Versions \union {Absent}]]
          /\ registering'[r].version = v
      BY <1>1, <1>2, <2>1
    <2>4. RequestsFit'
      BY <1>1, <1>3, <2>1, <2>2, <2>3 DEF RequestsFit
    <2>5. QED
      BY <1>2, <1>3, <2>2, <2>4 DEF KeysDiffer, DatesDiffer
  <1>7. ASSUME KeepFile(r) PROVE Kept
    <2>1. /\ registering[r].pc = "checked" /\ UNCHANGED documents
          /\ registering' = [registering EXCEPT ![r].pc = "kept"]
      BY <1>7 DEF KeepFile
    <2>2. /\ registering' \in [Registrars -> [pc : {"idle", "checked", "kept"},
                                              version : Versions \union {Absent}]]
          /\ registering'[r].version = registering[r].version
      BY <1>1, <1>2, <2>1
    <2>3. RequestsFit'
      BY <1>1, <1>3, <2>1, <2>2 DEF RequestsFit
    <2>4. QED
      BY <1>2, <1>3, <2>1, <2>3 DEF KeysDiffer, DatesDiffer
  <1>8. ASSUME AddDocument(r) PROVE Kept
    <2> DEFINE v == registering[r].version
    <2>1. /\ registering[r].pc = "kept"
          /\ \A w \in Registered : Meta[w].key = Meta[v].key => w = v
          /\ documents' = IF v \in Registered THEN documents ELSE Append(documents, v)
          /\ registering' = [registering EXCEPT ![r] = NoRequest]
      BY <1>8 DEF AddDocument
    <2>2. v \in Versions /\ \A w \in Registered : ~SameDate(v, w)
      BY <1>1, <2>1 DEF RequestsFit
    <2>3. documents' \in Seq(Versions) /\ Registered' = Registered \union {v}
      <3>1. CASE v \in Registered
        BY <1>2, <2>1, <3>1 DEF Registered
      <3>2. CASE v \notin Registered
        <4>1. documents' = Append(documents, v)
          BY <2>1, <3>2
        <4>2. QED
          BY <1>2, <2>2, <4>1, RegisteredMore DEF Registered
      <3>3. QED
        BY <3>1, <3>2
    <2>4. KeysDiffer'
      BY <2>1, <2>3 DEF KeysDiffer
    <2>5. DatesDiffer'
      <3>1. ~SameDate(v, v) /\ \A w \in Registered : ~SameDate(v, w) /\ ~SameDate(w, v)
        BY <2>2 DEF SameDate
      <3>2. QED
        BY <2>3, <3>1 DEF DatesDiffer
    <2>6. RequestsFit'
      BY <1>1, <1>2, <2>1 DEF RequestsFit
    <2>7. QED
      BY <2>3, <2>4, <2>5, <2>6
  <1>9. ASSUME RegisterFails(r) PROVE Kept
    BY <1>5, <1>9 DEF RegisterFails
  <1>10. \/ UNCHANGED <<documents, registering>>
         \/ Register(r) \/ KeepFile(r) \/ AddDocument(r) \/ RegisterFails(r)
    BY <1>1 DEF LibraryNext, Upload, QueueIndex, StartIndex, IndexOne, EndIndex, PrepareQuestion,
                CompleteAnswer, LeaveQuestion, libraryVars
  <1>11. QED
    BY <1>4, <1>6, <1>7, <1>8, <1>9, <1>10

-----------------------------------------------------------------------------
(* Retrieval. *)

(* A sort lists what it sorts. *)
LEMMA OrderedKeeps ==
    ASSUME NEW S, IsFiniteSet(S), NEW R, Orders(R, S)
    PROVE  Ordered(S, R) \in Seq(S) /\ Len(Ordered(S, R)) = Cardinality(S)
  <1> DEFINE first(i) == {j \in S : <<j, i>> \in R}
             pick == [n \in 1..Cardinality(S) |-> CHOOSE i \in S : Cardinality(first(i)) = n - 1]
  <1>1. Ordered(S, R) = pick
    BY DEF Ordered
  <1>2. \A i \in S : first(i) = Preceding(R, S, i)
    BY DEF Preceding
  <1>3. Cardinality(S) \in Nat
    BY FS_CardinalityType
  <1> HIDE DEF first
  <1>4. ASSUME NEW n \in 1..Cardinality(S) PROVE pick[n] \in S
    <2>1. \E i \in S : Cardinality(Preceding(R, S, i)) = n - 1
      BY OrderedLists
    <2>2. \E i \in S : Cardinality(first(i)) = n - 1
      BY <1>2, <2>1
    <2>3. QED
      BY <2>2
  <1> HIDE DEF pick
  <1>5. pick = [n \in 1..Cardinality(S) |-> pick[n]]
    BY DEF pick
  <1>6. pick \in [1..Cardinality(S) -> S]
    BY <1>4, <1>5
  <1>7. pick \in Seq(S) /\ Len(pick) = Cardinality(S)
    BY <1>3, <1>5, <1>6
  <1>8. QED
    BY <1>1, <1>7

(* Ranking lists what is ranked. *)
LEMMA RankedKeeps ==
    ASSUME NEW S \in SUBSET Nat, IsFiniteSet(S), NEW score, \A i \in S : score[i] \in Int
    PROVE  Ranked(S, score) \in Seq(S) /\ Len(Ranked(S, score)) = Cardinality(S)
  <1> DEFINE above(i, j) == score[i] > score[j] \/ (score[i] = score[j] /\ i < j)
             R == {p \in S \X S : above(p[1], p[2])}
  <1>1. Ranked(S, score) = Ordered(S, R)
    BY DEF Ranked
  <1>2. \A x, y \in S : <<x, y>> \in R <=> above(x, y)
    OBVIOUS
  <1>3. R \in SUBSET (S \X S)
    OBVIOUS
  <1>4. \A x \in S : ~above(x, x)
    OBVIOUS
  <1>5. \A x, y, z \in S : above(x, y) /\ above(y, z) => above(x, z)
    OBVIOUS
  <1>6. \A x, y \in S : x # y => above(x, y) \/ above(y, x)
    OBVIOUS
  <1> HIDE DEF above, R
  <1>7. Orders(R, S)
    BY <1>2, <1>3, <1>4, <1>5, <1>6 DEF Orders
  <1>8. QED
    BY <1>1, <1>7, OrderedKeeps

(* An arm lists some of what is ranked. *)
LEMMA ArmKeeps ==
    ASSUME NEW S \in SUBSET Nat, IsFiniteSet(S), NEW score, \A i \in S : score[i] \in Int
    PROVE  Arm(S, score) \in Seq(S)
  <1> DEFINE ranked == Ranked(S, score)
             least == Min({CandidateK, Len(ranked)})
  <1>1. ranked \in Seq(S) /\ Len(ranked) \in Nat
    BY RankedKeeps
  <1>2. CandidateK \in Nat
    BY LibraryAssumption DEF LibraryAssumption
  <1> HIDE DEF ranked
  <1>3. least \in {CandidateK, Len(ranked)} /\ least <= Len(ranked)
    <2>1. \E m \in {CandidateK, Len(ranked)} : \A k \in {CandidateK, Len(ranked)} : m <= k
      BY <1>1, <1>2
    <2>2. QED
      BY <2>1 DEF Min
  <1>4. least \in 0..Len(ranked)
    BY <1>1, <1>2, <1>3
  <1>5. Arm(S, score) = SubSeq(ranked, 1, least)
    BY DEF Arm, ranked
  <1> HIDE DEF least
  <1>6. QED
    BY <1>1, <1>4, <1>5

(* The place of what a list names. *)
LEMMA PlaceOf ==
    ASSUME NEW R, NEW arm \in Seq(R), NEW i \in ToSet(arm)
    PROVE  Place(arm, i) \in Nat \ {0} /\ Place(arm, i) <= Len(arm) /\ arm[Place(arm, i)] = i
  <1>1. \E n \in DOMAIN arm : arm[n] = i
    BY DEF ToSet
  <1>2. Place(arm, i) \in DOMAIN arm /\ arm[Place(arm, i)] = i
    BY <1>1 DEF Place
  <1>3. QED
    BY <1>2

(* What either arm names has a weight, a fraction. *)
LEMMA WeightIsFraction ==
    ASSUME NEW R, NEW dense \in Seq(R), NEW lexical \in Seq(R),
           NEW i \in ToSet(dense) \union ToSet(lexical)
    PROVE  /\ Weight(dense, lexical, i)[1] \in Nat \ {0}
           /\ Weight(dense, lexical, i)[2] \in Nat \ {0}
  <1> DEFINE a == RrfK + Place(dense, i)
             b == RrfK + Place(lexical, i)
  <1>1. RrfK \in Nat
    BY LibraryAssumption DEF LibraryAssumption
  <1>2. i \in ToSet(dense) => a \in Nat \ {0}
    BY <1>1, PlaceOf
  <1>3. i \in ToSet(lexical) => b \in Nat \ {0}
    BY <1>1, PlaceOf
  <1>4. Weight(dense, lexical, i) =
           IF i \notin ToSet(dense) THEN <<1, b>>
           ELSE IF i \notin ToSet(lexical) THEN <<1, a>> ELSE <<a + b, a * b>>
    BY DEF Weight
  <1>5. \A x, y \in Nat \ {0} : x * y \in Nat \ {0}
    OBVIOUS
  <1> HIDE DEF a, b
  <1>6. CASE i \notin ToSet(dense)
    BY <1>3, <1>4, <1>6
  <1>7. CASE i \in ToSet(dense) /\ i \notin ToSet(lexical)
    BY <1>2, <1>4, <1>7
  <1>8. CASE i \in ToSet(dense) /\ i \in ToSet(lexical)
    <2>1. a * b \in Nat \ {0} /\ a + b \in Nat \ {0}
      BY <1>2, <1>3, <1>5, <1>8
    <2>2. QED
      BY <1>4, <1>8, <2>1
  <1>9. QED
    BY <1>6, <1>7, <1>8

(* Comparing fractions is transitive. *)
LEMMA FractionsCompare ==
    ASSUME NEW a \in Nat, NEW b \in Nat \ {0}, NEW c \in Nat, NEW d \in Nat \ {0},
           NEW e \in Nat, NEW f \in Nat \ {0},
           a * d >= c * b, c * f >= e * d
    PROVE  /\ a * f >= e * b
           /\ a * d > c * b \/ c * f > e * d => a * f > e * b
  <1>1. /\ a * d \in Nat /\ c * b \in Nat /\ c * f \in Nat /\ e * d \in Nat
        /\ a * f \in Nat /\ e * b \in Nat
    OBVIOUS
  <1>2. \A x, y \in Nat, z \in Nat \ {0} : (x >= y => x * z >= y * z) /\ (x > y => x * z > y * z)
    OBVIOUS
  <1>3. (a * d) * f >= (c * b) * f /\ (a * d > c * b => (a * d) * f > (c * b) * f)
    BY <1>1, <1>2
  <1>4. (c * f) * b >= (e * d) * b /\ (c * f > e * d => (c * f) * b > (e * d) * b)
    BY <1>1, <1>2
  <1>5. (c * b) * f = (c * f) * b /\ (a * d) * f = (a * f) * d /\ (e * d) * b = (e * b) * d
    OBVIOUS
  <1>6. (a * f) * d \in Nat /\ (c * f) * b \in Nat /\ (e * b) * d \in Nat
    BY <1>1
  <1>7. (a * f) * d >= (e * b) * d
    BY <1>3, <1>4, <1>5, <1>6
  <1>8. a * d > c * b \/ c * f > e * d => (a * f) * d > (e * b) * d
    BY <1>3, <1>4, <1>5, <1>6
  <1>9. \A x, y \in Nat, z \in Nat \ {0} : (x * z >= y * z => x >= y) /\ (x * z > y * z => x > y)
    OBVIOUS
  <1>10. QED
    BY <1>1, <1>7, <1>8, <1>9

(* What the arms name has its own place in what they first named. *)
Named(dense, lexical, i) ==
    IF i \in ToSet(dense) THEN Place(dense, i) ELSE Len(dense) + Place(lexical, i)

(* Two of what the arms name have different places. *)
LEMMA NamedDiffer ==
    ASSUME NEW R, NEW dense \in Seq(R), NEW lexical \in Seq(R),
           NEW i \in ToSet(dense) \union ToSet(lexical),
           NEW j \in ToSet(dense) \union ToSet(lexical)
    PROVE  /\ Named(dense, lexical, i) \in Nat
           /\ Named(dense, lexical, i) = Named(dense, lexical, j) => i = j
  <1>1. Len(dense) \in Nat
    OBVIOUS
  <1>2. ASSUME NEW k \in ToSet(dense)
        PROVE  /\ Named(dense, lexical, k) = Place(dense, k)
               /\ Place(dense, k) \in Nat \ {0} /\ Place(dense, k) <= Len(dense)
               /\ dense[Place(dense, k)] = k
    BY PlaceOf DEF Named
  <1>3. ASSUME NEW k \in ToSet(lexical), k \notin ToSet(dense)
        PROVE  /\ Named(dense, lexical, k) = Len(dense) + Place(lexical, k)
               /\ Place(lexical, k) \in Nat \ {0} /\ lexical[Place(lexical, k)] = k
    BY <1>3, PlaceOf DEF Named
  <1>4. CASE i \in ToSet(dense) /\ j \in ToSet(dense)
    BY <1>2, <1>4
  <1>5. CASE i \in ToSet(dense) /\ j \notin ToSet(dense)
    BY <1>1, <1>2, <1>3, <1>5
  <1>6. CASE i \notin ToSet(dense) /\ j \in ToSet(dense)
    BY <1>1, <1>2, <1>3, <1>6
  <1>7. CASE i \notin ToSet(dense) /\ j \notin ToSet(dense)
    <2>1. Place(lexical, i) \in Nat /\ Place(lexical, j) \in Nat
      BY <1>3, <1>7
    <2>2. Named(dense, lexical, i) = Named(dense, lexical, j) => Place(lexical, i) = Place(lexical, j)
      BY <1>1, <1>3, <1>7, <2>1
    <2>3. Named(dense, lexical, i) \in Nat
      BY <1>1, <1>3, <1>7, <2>1
    <2>4. QED
      BY <1>3, <1>7, <2>2, <2>3
  <1>8. QED
    BY <1>4, <1>5, <1>6, <1>7

(* What fusion puts first: the greater weight, then what was named first.   *)
Outweighs(dense, lexical, i, j) ==
    LET x == Weight(dense, lexical, i)
        y == Weight(dense, lexical, j) IN
    x[1] * y[2] > y[1] * x[2]
    \/ (x[1] * y[2] = y[1] * x[2] /\ Named(dense, lexical, i) < Named(dense, lexical, j))

(* That is an order of what the arms name. *)
LEMMA OutweighsOrders ==
    ASSUME NEW T, NEW dense \in Seq(T), NEW lexical \in Seq(T)
    PROVE  LET S == ToSet(dense) \union ToSet(lexical)
           IN  Orders({p \in S \X S : Outweighs(dense, lexical, p[1], p[2])}, S)
  <1> DEFINE S == ToSet(dense) \union ToSet(lexical)
             above(i, j) == Outweighs(dense, lexical, i, j)
             R == {p \in S \X S : above(p[1], p[2])}
             top(i) == Weight(dense, lexical, i)[1]
             bot(i) == Weight(dense, lexical, i)[2]
             name(i) == Named(dense, lexical, i)
  <1>1. \A i, j \in S : above(i, j) <=> \/ top(i) * bot(j) > top(j) * bot(i)
                                        \/ top(i) * bot(j) = top(j) * bot(i) /\ name(i) < name(j)
    BY DEF Outweighs
  <1>2. \A i \in S : top(i) \in Nat \ {0} /\ bot(i) \in Nat \ {0}
    BY WeightIsFraction
  <1>3. \A i, j \in S : name(i) \in Nat /\ (name(i) = name(j) => i = j)
    BY NamedDiffer
  <1> HIDE DEF S, above, top, bot, name
  <1>4. ASSUME NEW i \in S, NEW j \in S PROVE top(i) * bot(j) \in Nat
    BY <1>2
  <1>5. \A x, y \in S : <<x, y>> \in R <=> above(x, y)
    OBVIOUS
  <1>6. R \in SUBSET (S \X S)
    OBVIOUS
  <1>7. \A x \in S : ~above(x, x)
    BY <1>1, <1>3, <1>4
  <1>8. ASSUME NEW x \in S, NEW y \in S, NEW z \in S, above(x, y), above(y, z) PROVE above(x, z)
    <2>1. /\ top(x) * bot(y) \in Nat /\ top(y) * bot(x) \in Nat /\ top(y) * bot(z) \in Nat
          /\ top(z) * bot(y) \in Nat /\ top(x) * bot(z) \in Nat /\ top(z) * bot(x) \in Nat
      BY <1>4
    <2>2. top(x) * bot(y) >= top(y) * bot(x) /\ top(y) * bot(z) >= top(z) * bot(y)
      BY <1>1, <1>8, <2>1
    <2>3. /\ top(x) * bot(z) >= top(z) * bot(x)
          /\ \/ top(x) * bot(y) > top(y) * bot(x)
             \/ top(y) * bot(z) > top(z) * bot(y)
             => top(x) * bot(z) > top(z) * bot(x)
      BY <1>2, <2>2, FractionsCompare
    <2>4. name(x) \in Nat /\ name(y) \in Nat /\ name(z) \in Nat
      BY <1>3
    <2>5. CASE top(x) * bot(y) > top(y) * bot(x) \/ top(y) * bot(z) > top(z) * bot(y)
      BY <1>1, <2>3, <2>5
    <2>6. CASE ~(top(x) * bot(y) > top(y) * bot(x)) /\ ~(top(y) * bot(z) > top(z) * bot(y))
      <3>1. name(x) < name(y) /\ name(y) < name(z)
        BY <1>1, <1>8, <2>6
      <3>2. name(x) < name(z)
        BY <2>4, <3>1
      <3>3. QED
        BY <1>1, <2>1, <2>3, <3>2
    <2>7. QED
      BY <2>5, <2>6
  <1>9. ASSUME NEW x \in S, NEW y \in S, x # y PROVE above(x, y) \/ above(y, x)
    <2>1. top(x) * bot(y) \in Nat /\ top(y) * bot(x) \in Nat
      BY <1>4
    <2>2. name(x) \in Nat /\ name(y) \in Nat /\ name(x) # name(y)
      BY <1>3, <1>9
    <2>3. QED
      BY <1>1, <2>1, <2>2
  <1> HIDE DEF R
  <1>10. Orders(R, S)
    BY <1>5, <1>6, <1>7, <1>8, <1>9 DEF Orders
  <1>11. QED
    BY <1>10 DEF R, S, above

(* Fusion lists what the arms name.                                         *)
LEMMA FusedKeeps ==
    ASSUME NEW T, IsFiniteSet(T), NEW dense \in Seq(T), NEW lexical \in Seq(T)
    PROVE  Fused(dense, lexical) \in Seq(T)
  <1> DEFINE S == ToSet(dense) \union ToSet(lexical)
             R == {p \in S \X S : Outweighs(dense, lexical, p[1], p[2])}
  <1>1. Fused(dense, lexical) = Ordered(S, R)
    BY DEF Fused, Outweighs, Named
  <1>2. Orders(R, S)
    BY OutweighsOrders
  <1>3. S \in SUBSET T
    BY ElementOf DEF ToSet
  <1>4. IsFiniteSet(S)
    BY <1>3, FS_Subset
  <1> HIDE DEF S, R
  <1>5. Ordered(S, R) \in Seq(S)
    BY <1>2, <1>4, OrderedKeeps
  <1>6. QED
    BY <1>1, <1>3, <1>5

-----------------------------------------------------------------------------
(* What is taken with the next candidate.                                   *)
Taking(known, taken, i) ==
    LET m == Meta[known[i]]
        used == FoldLeft(LAMBDA n, v : n + Meta[v].size, 0, taken) IN
    IF m.cosine < MinScore \/ m.size > MaxChars - used \/ Len(taken) = TopK
        THEN taken ELSE Append(taken, known[i])

(* The selection as a fold.                                                 *)
LEMMA SelectedIsFold ==
    ASSUME NEW candidates, NEW known
    PROVE  Selected(candidates, known) =
             (CHOOSE g : g = [s \in SUBSET DOMAIN candidates |->
                IF s = {} THEN <<>> ELSE Taking(known, g[s \ {Max(s)}], candidates[Max(s)])])
             [DOMAIN candidates]
  BY DEF Selected, FoldLeft, MapThenFoldSet, Taking

(* What is selected is among the candidates.                                *)
LEMMA SelectedKeeps ==
    ASSUME NEW P, NEW candidates \in Seq(P), NEW known
    PROVE  Selected(candidates, known) \in Seq({known[i] : i \in P})
  <1> DEFINE A == candidates
             n == Len(A)
             V == Seq({known[i] : i \in P})
             step == [p \in V \X (1..n) |-> Taking(known, p[1], A[p[2]])]
             Equation(g) == g = [s \in SUBSET DOMAIN A |->
                                    IF s = {} THEN <<>> ELSE Taking(known, g[s \ {Max(s)}], A[Max(s)])]
  <1>1. n \in Nat /\ DOMAIN A = 1..n /\ \A i \in 1..n : A[i] \in P
    BY ElementOf
  <1> HIDE DEF A, n
  <1>2. ASSUME NEW v \in V, NEW i \in 1..n PROVE Taking(known, v, A[i]) \in V
    <2>1. Taking(known, v, A[i]) = v \/ Taking(known, v, A[i]) = Append(v, known[A[i]])
      BY DEF Taking
    <2>2. known[A[i]] \in {known[j] : j \in P}
      BY <1>1
    <2>3. Append(v, known[A[i]]) \in V
      BY <2>2
    <2>4. QED
      BY <2>1, <2>3
  <1>3. \A v \in V, i \in 1..n : step[<<v, i>>] = Taking(known, v, A[i]) /\ step[<<v, i>>] \in V
    BY <1>2
  <1> HIDE DEF step
  <1>4. <<>> \in V
    OBVIOUS
  <1> HIDE DEF V
  <1>5. PICK h \in [SUBSET (1..n) -> V] : Folds(h, <<>>, step, n)
    BY <1>1, <1>3, <1>4, FoldExists
  <1>6. Equation(h)
    <2>1. ASSUME NEW s \in SUBSET (1..n), s # {}
          PROVE  step[<<h[s \ {Max(s)}], Max(s)>>] = Taking(known, h[s \ {Max(s)}], A[Max(s)])
      <3>1. Max(s) \in 1..n /\ s \ {Max(s)} \in SUBSET (1..n)
        BY <1>1, <2>1, MaxOf
      <3>2. h[s \ {Max(s)}] \in V
        BY <1>5, <3>1
      <3>3. QED
        BY <1>3, <3>1, <3>2
    <2>2. h = [s \in SUBSET (1..n) |->
                  IF s = {} THEN <<>> ELSE Taking(known, h[s \ {Max(s)}], A[Max(s)])]
      BY <1>5, <2>1 DEF Folds
    <2>3. QED
      BY <1>1, <2>2
  <1>7. PICK g : Equation(g) /\ Selected(candidates, known) = g[DOMAIN A]
    <2>1. Selected(candidates, known) = (CHOOSE g : Equation(g))[DOMAIN A]
      BY SelectedIsFold DEF A
    <2> HIDE DEF Equation
    <2>2. QED
      BY <1>6, <2>1
  <1>8. g[{}] \in V
    BY <1>4, <1>7
  <1>9. ASSUME NEW k \in 1..n, g[1..(k - 1)] \in V PROVE g[1..k] \in V
    <2>1. 1..k \in SUBSET (1..n) /\ 1..k # {} /\ Max(1..k) = k /\ (1..k) \ {k} = 1..(k - 1)
      BY <1>1, LastOfFirst
    <2>2. g[1..k] = Taking(known, g[1..(k - 1)], A[k])
      BY <1>1, <1>7, <2>1
    <2>3. QED
      BY <1>2, <1>9, <2>2
  <1>10. g[1..n] \in V
    BY <1>1, <1>8, <1>9, FoldHolds
  <1>11. QED
    BY <1>1, <1>7, <1>10 DEF V

(* Retrieval lists versions that are visible to the asker.                  *)
LEMMA RetrievedType ==
    ASSUME NEW a, NEW known \in Seq(Versions)
    PROVE  Retrieved(a, known) \in Seq(VisibleDocuments(a, ToSet(known)))
  <1> DEFINE visible == {i \in DOMAIN known : VisibleTo(a, ChunkOf(known[i], ToSet(known)))}
             cosines == [i \in visible |-> Meta[known[i]].cosine]
             dense == Arm(visible, cosines)
             matching == {i \in visible : Meta[known[i]].bm25 > 0}
             scores == [i \in matching |-> Meta[known[i]].bm25]
             lexical == Arm(matching, scores)
             taken == Selected(Fused(dense, lexical), known)
  <1>1. Retrieved(a, known) = taken
    BY DEF Retrieved
  <1>2. visible \in SUBSET Nat /\ IsFiniteSet(visible)
    <2>1. IsFiniteSet(1..Len(known)) /\ DOMAIN known = 1..Len(known) /\ Len(known) \in Nat
      BY SegmentFinite
    <2>2. QED
      BY <2>1, FS_Subset
  <1>3. matching \in SUBSET visible /\ IsFiniteSet(matching)
    BY <1>2, FS_Subset
  <1>4. \A i \in visible : {Meta[known[i]].cosine, Meta[known[i]].bm25} \subseteq Int
    BY ElementOf, LibraryAssumption DEF LibraryAssumption
  <1>5. \A i \in visible : known[i] \in VisibleDocuments(a, ToSet(known))
    BY DEF VisibleDocuments, ToSet
  <1> HIDE DEF visible, matching
  <1>6. dense \in Seq(visible)
    <2>1. \A i \in visible : cosines[i] \in Int
      BY <1>4
    <2> HIDE DEF cosines
    <2>2. QED
      BY <1>2, <2>1, ArmKeeps
  <1>7. lexical \in Seq(visible)
    <2>1. \A i \in matching : scores[i] \in Int
      BY <1>3, <1>4
    <2> HIDE DEF scores
    <2>2. lexical \in Seq(matching)
      BY <1>2, <1>3, <2>1, ArmKeeps
    <2> HIDE DEF lexical
    <2>3. QED
      BY <1>3, <2>2
  <1> HIDE DEF dense, lexical
  <1>8. Fused(dense, lexical) \in Seq(visible)
    BY <1>2, <1>6, <1>7, FusedKeeps
  <1>9. taken \in Seq({known[i] : i \in visible})
    BY <1>8, SelectedKeeps
  <1> HIDE DEF taken
  <1>10. {known[i] : i \in visible} \in SUBSET VisibleDocuments(a, ToSet(known))
    BY <1>5
  <1>11. QED
    BY <1>1, <1>9, <1>10

(* It gives the asker no other version.                                     *)
LEMMA RetrievedVisible ==
    ASSUME NEW a, NEW known \in Seq(Versions)
    PROVE  ToSet(Retrieved(a, known)) \subseteq VisibleDocuments(a, ToSet(known))
  <1>1. Retrieved(a, known) \in Seq(VisibleDocuments(a, ToSet(known)))
    BY RetrievedType
  <1>2. QED
    BY <1>1, ElementOf DEF ToSet


-----------------------------------------------------------------------------
(* Questions. *)

(* Of the versions of a document an asker sees at most one.                 *)
LEMMA VisibleOnce ==
    ASSUME LibraryInv, NEW a \in Askers,
           NEW v \in VisibleDocuments(a, Registered), NEW w \in VisibleDocuments(a, Registered),
           Meta[v].document = Meta[w].document
    PROVE  v = w
  <1>1. Registered \in SUBSET Versions
    BY ElementOf DEF LibraryInv, Registered, ToSet
  <1>2. v \in Registered /\ w \in Registered /\ Approved(v) /\ Approved(w)
    BY <1>1, SeenInWindow
  <1>3. v # w => Meta[v].from # Meta[w].from
    BY <1>2 DEF LibraryInv, KeysDiffer, DatesDiffer, SameDate, Replaces
  <1>4. QED
    BY <1>1, <1>3, OneInForce

(* What a question pins when it is prepared holds a document once.          *)
LEMMA PinnedWhenPrepared ==
    ASSUME LibraryInv, NEW a \in Askers
    PROVE  \A p, q \in Pinned(a, Registered) :
              Meta[p.version].document = Meta[q.version].document => p = q
  <1> SUFFICES ASSUME NEW p \in Pinned(a, Registered), NEW q \in Pinned(a, Registered),
                      Meta[p.version].document = Meta[q.version].document
               PROVE  p = q
    OBVIOUS
  <1>1. PICK v \in VisibleDocuments(a, Registered) :
            p = [version |-> v, to |-> LastDay(v, Registered)]
    BY DEF Pinned
  <1>2. PICK w \in VisibleDocuments(a, Registered) :
            q = [version |-> w, to |-> LastDay(w, Registered)]
    BY DEF Pinned
  <1>3. p.version = v /\ q.version = w
    BY <1>1, <1>2
  <1>4. v = w
    BY <1>3, VisibleOnce
  <1>5. QED
    BY <1>1, <1>2, <1>4

(* Evidence holds a document once, in a version that is in force.           *)
Cites(a, evidence) ==
    \A v, w \in ToSet(evidence) :
        /\ Meta[v].document = Meta[w].document => v = w
        /\ Approved(v) /\ Meta[v].from <= a.asOf

(* So does what retrieval finds. *)
LEMMA RetrievedOnce ==
    ASSUME LibraryInv, NEW a \in Askers
    PROVE  Cites(a, Retrieved(a, documents))
  <1>1. Registered \in SUBSET Versions
    BY ElementOf DEF LibraryInv, Registered, ToSet
  <1>2. ToSet(Retrieved(a, documents)) \subseteq VisibleDocuments(a, Registered)
    BY RetrievedVisible DEF LibraryInv, Registered
  <1>3. \A v \in VisibleDocuments(a, Registered) : Approved(v) /\ Meta[v].from <= a.asOf
    BY <1>1, SeenInWindow
  <1>4. QED
    BY <1>2, <1>3, VisibleOnce DEF Cites

(* So do pins. *)
PinsOnce(pinned) ==
    \A p, q \in pinned : Meta[p.version].document = Meta[q.version].document => p = q

(* What the invariant says of one question. *)
Sound(q) ==
    /\ QuestionFits(q)
    /\ PinsOnce(q.pinned)
    /\ Cites(q.asker, q.evidence)

(* It says that of all of them. *)
LEMMA QuestionsSound ==
    /\ QuestionsFit /\ PinnedOnce /\ OneVersionCited
       <=> DOMAIN asked = LibraryThreads /\ \A t \in LibraryThreads : Sound(asked[t])
    /\ (QuestionsFit /\ PinnedOnce /\ OneVersionCited)'
       <=> DOMAIN asked' = LibraryThreads /\ \A t \in LibraryThreads : Sound(asked'[t])
  <1>1. QuestionsFit /\ PinnedOnce /\ OneVersionCited
           <=> DOMAIN asked = LibraryThreads /\ \A t \in LibraryThreads : Sound(asked[t])
    <2>1. OneVersionCited <=> \A t \in LibraryThreads : Cites(asked[t].asker, asked[t].evidence)
      BY DEF OneVersionCited, Cites
    <2>2. PinnedOnce <=> \A t \in LibraryThreads : PinsOnce(asked[t].pinned)
      BY DEF PinnedOnce, PinsOnce
    <2>3. QuestionsFit <=> DOMAIN asked = LibraryThreads /\ \A t \in LibraryThreads : QuestionFits(asked[t])
      BY DEF QuestionsFit
    <2>4. \A t \in LibraryThreads : Sound(asked[t]) <=>
             QuestionFits(asked[t]) /\ PinsOnce(asked[t].pinned) /\ Cites(asked[t].asker, asked[t].evidence)
      BY DEF Sound
    <2>5. QED
      BY <2>1, <2>2, <2>3, <2>4
  <1>2. (QuestionsFit /\ PinnedOnce /\ OneVersionCited)'
           <=> DOMAIN asked' = LibraryThreads /\ \A t \in LibraryThreads : Sound(asked'[t])
    <2>1. OneVersionCited' <=> \A t \in LibraryThreads : Cites(asked'[t].asker, asked'[t].evidence)
      BY DEF OneVersionCited, Cites
    <2>2. PinnedOnce' <=> \A t \in LibraryThreads : PinsOnce(asked'[t].pinned)
      BY DEF PinnedOnce, PinsOnce
    <2>3. QuestionsFit' <=> DOMAIN asked' = LibraryThreads /\ \A t \in LibraryThreads : QuestionFits(asked'[t])
      BY DEF QuestionsFit
    <2>4. \A t \in LibraryThreads : Sound(asked'[t]) <=>
             QuestionFits(asked'[t]) /\ PinsOnce(asked'[t].pinned) /\ Cites(asked'[t].asker, asked'[t].evidence)
      BY DEF Sound
    <2>5. QED
      BY <2>1, <2>2, <2>3, <2>4
  <1>3. QED
    BY <1>1, <1>2

(* Questions keep what they pinned and are given. *)
LEMMA QuestionsPinOnce ==
    ASSUME LibraryInv, [LibraryNext]_libraryVars
    PROVE  (QuestionsFit /\ PinnedOnce /\ OneVersionCited)'
  <1> DEFINE Fit == DOMAIN asked' = LibraryThreads /\ \A t \in LibraryThreads : Sound(asked'[t])
  <1>1. DOMAIN asked = LibraryThreads /\ \A t \in LibraryThreads : Sound(asked[t])
    BY QuestionsSound DEF LibraryInv
  <1>2. ASSUME NEW t \in LibraryThreads, NEW h, asked' = [asked EXCEPT ![t] = h], Sound(h)
        PROVE  Fit
    BY <1>1, <1>2
  <1>3. ASSUME UNCHANGED asked PROVE Fit
    BY <1>1, <1>3
  <1>4. ASSUME NEW t \in LibraryThreads, PrepareQuestion(t) PROVE Fit
    <2>1. PICK a \in Askers, e \in Embedders :
              asked' = [asked EXCEPT ![t] = [NoQuestion EXCEPT
                  !.pc = "prepared", !.asker = a, !.embedder = e,
                  !.pinned = Pinned(a, Registered)]]
      BY <1>4 DEF PrepareQuestion
    <2> DEFINE h == [NoQuestion EXCEPT !.pc = "prepared", !.asker = a, !.embedder = e,
                                       !.pinned = Pinned(a, Registered)]
    <2>2. /\ h.pinned = Pinned(a, Registered) /\ DOMAIN h = DOMAIN NoQuestion
          /\ h.asker = a /\ h.evidence = <<>>
      BY DEF NoQuestion
    <2>3. Cites(h.asker, h.evidence)
      BY <2>2 DEF Cites, ToSet
    <2> HIDE DEF h, Fit
    <2>4. Sound(h)
      BY <2>2, <2>3, PinnedWhenPrepared DEF Sound, QuestionFits, PinsOnce
    <2>5. asked' = [asked EXCEPT ![t] = h]
      BY <2>1 DEF h
    <2>6. QED
      BY <1>2, <2>4, <2>5
  <1>5. ASSUME NEW t \in LibraryThreads, CompleteAnswer(t) PROVE Fit
    <2>1. PICK s, e : /\ asked' = [asked EXCEPT ![t].pc = "answered", ![t].evidence = e,
                                                ![t].status = s]
                      /\ e = Retrieved(asked[t].asker, documents) \/ e = <<>>
      BY <1>5 DEF CompleteAnswer
    <2>2. asked[t].asker \in Askers
      BY <1>1, <1>5 DEF CompleteAnswer, Sound, QuestionFits
    <2>3. Cites(asked[t].asker, e)
      <3>1. Cites(asked[t].asker, <<>>)
        BY DEF Cites, ToSet
      <3>2. QED
        BY <2>1, <2>2, <3>1, RetrievedOnce
    <2> DEFINE h == [asked[t] EXCEPT !.pc = "answered", !.evidence = e, !.status = s]
    <2>4. /\ h.pinned = asked[t].pinned /\ DOMAIN h = DOMAIN NoQuestion
          /\ h.asker = asked[t].asker /\ h.evidence = e
      BY <1>1 DEF NoQuestion, Sound, QuestionFits
    <2>5. asked' = [asked EXCEPT ![t] = h]
      BY <1>1, <2>1
    <2> HIDE DEF h, Fit
    <2>6. Sound(h)
      BY <1>1, <2>2, <2>3, <2>4 DEF Sound, QuestionFits
    <2>7. QED
      BY <1>2, <2>5, <2>6
  <1>6. ASSUME NEW t \in LibraryThreads, LeaveQuestion(t) PROVE Fit
    <2>1. asked' = [asked EXCEPT ![t] = NoQuestion]
      BY <1>6 DEF LeaveQuestion
    <2>2. NoQuestion.pc = "idle" /\ NoQuestion.pinned = {} /\ NoQuestion.evidence = <<>>
      BY DEF NoQuestion
    <2>3. Sound(NoQuestion)
      BY <2>2 DEF Sound, QuestionFits, PinsOnce, Cites, ToSet
    <2> HIDE DEF Fit
    <2>4. QED
      BY <1>2, <2>1, <2>3
  <1>7. \/ UNCHANGED asked
        \/ \E t \in LibraryThreads : PrepareQuestion(t) \/ CompleteAnswer(t) \/ LeaveQuestion(t)
    BY DEF LibraryNext, Upload, Register, KeepFile, AddDocument, RegisterFails, QueueIndex,
           StartIndex, IndexOne, EndIndex, libraryVars
  <1>8. Fit
    <2> HIDE DEF Fit
    <2>1. QED
      BY <1>3, <1>4, <1>5, <1>6, <1>7
  <1>9. QED
    BY <1>8, QuestionsSound

(* The library's inductive invariant, when registrations come one at a time.*)
THEOREM LibraryInvariant == ASSUME OneAtATime PROVE LibrarySpec => []LibraryInv
  <1>1. LibraryInit => LibraryInv
    <2> SUFFICES ASSUME LibraryInit PROVE LibraryInv
      OBVIOUS
    <2>1. /\ documents = <<>> /\ registering = [r \in Registrars |-> NoRequest]
          /\ asked = [t \in LibraryThreads |-> NoQuestion]
      BY DEF LibraryInit
    <2>2. Registered = {}
      BY <2>1 DEF Registered, ToSet
    <2>3. RequestsFit
      BY <2>1 DEF RequestsFit, NoRequest
    <2>4. QuestionsFit /\ PinnedOnce /\ OneVersionCited
      BY <2>1 DEF QuestionsFit, QuestionFits, PinnedOnce, OneVersionCited, NoQuestion, ToSet
    <2>5. QED
      BY <2>1, <2>2, <2>3, <2>4 DEF LibraryInv, KeysDiffer, DatesDiffer
  <1>2. LibraryInv /\ [LibraryNext]_libraryVars => LibraryInv'
    <2> SUFFICES ASSUME LibraryInv, [LibraryNext]_libraryVars PROVE LibraryInv'
      OBVIOUS
    <2>1. QED
      BY RegistrationKeeps, QuestionsPinOnce DEF LibraryInv
  <1>3. QED
    BY <1>1, <1>2, PTL DEF LibrarySpec

(* No question pins two versions of one document (visible_documents), so no *)
(* version and its successor are in force for it together.                  *)
THEOREM PinnedOnceHolds == ASSUME OneAtATime PROVE LibrarySpec => []PinnedOnce
  <1>1. LibraryInv => PinnedOnce
    BY DEF LibraryInv
  <1>2. QED
    BY <1>1, LibraryInvariant, PTL

(* No answer is given two versions of one document, and each it is given is *)
(* approved and in force (PolicyRetriever.retrieve keeps to what is visible *)
(* through ranking, fusion and the selection of what fits).                 *)
THEOREM OneVersionCitedHolds == ASSUME OneAtATime PROVE LibrarySpec => []OneVersionCited
  <1>1. LibraryInv => OneVersionCited
    BY DEF LibraryInv
  <1>2. QED
    BY <1>1, LibraryInvariant, PTL

-----------------------------------------------------------------------------
(* Types of the library. *)

(* What is pending with the next document. *)
Finding(e, found, v) == IF <<v, e>> \in vectors THEN found ELSE Append(found, v)

(* The pending documents as a fold. *)
LEMMA PendingIsFold ==
    ASSUME NEW e
    PROVE  PendingFor(e) =
             (CHOOSE g : g = [s \in SUBSET DOMAIN documents |->
                IF s = {} THEN <<>> ELSE Finding(e, g[s \ {Max(s)}], documents[Max(s)])])
             [DOMAIN documents]
  BY DEF PendingFor, FoldLeft, MapThenFoldSet, Finding

(* Only registered documents are pending. *)
LEMMA PendingKeeps ==
    ASSUME documents \in Seq(Versions), NEW e
    PROVE  PendingFor(e) \in Seq(Versions)
  <1> DEFINE A == documents
             n == Len(A)
             V == Seq(Versions)
             step == [p \in V \X (1..n) |-> Finding(e, p[1], A[p[2]])]
             Equation(g) == g = [s \in SUBSET DOMAIN A |->
                                    IF s = {} THEN <<>> ELSE Finding(e, g[s \ {Max(s)}], A[Max(s)])]
  <1>1. n \in Nat /\ DOMAIN A = 1..n /\ \A i \in 1..n : A[i] \in Versions
    BY ElementOf
  <1>2. PendingFor(e) = (CHOOSE g : Equation(g))[DOMAIN A]
    BY PendingIsFold
  <1> HIDE DEF A, n
  <1>3. ASSUME NEW v \in V, NEW i \in 1..n PROVE Finding(e, v, A[i]) \in V
    <2>1. Append(v, A[i]) \in V
      BY <1>1
    <2>2. QED
      BY <2>1 DEF Finding
  <1>4. \A v \in V, i \in 1..n : step[<<v, i>>] = Finding(e, v, A[i]) /\ step[<<v, i>>] \in V
    BY <1>3
  <1> HIDE DEF step
  <1>5. <<>> \in V
    OBVIOUS
  <1> HIDE DEF V
  <1>6. PICK h \in [SUBSET (1..n) -> V] : Folds(h, <<>>, step, n)
    BY <1>1, <1>4, <1>5, FoldExists
  <1>7. Equation(h)
    <2>1. ASSUME NEW s \in SUBSET (1..n), s # {}
          PROVE  step[<<h[s \ {Max(s)}], Max(s)>>] = Finding(e, h[s \ {Max(s)}], A[Max(s)])
      <3>1. Max(s) \in 1..n /\ s \ {Max(s)} \in SUBSET (1..n)
        BY <1>1, <2>1, MaxOf
      <3>2. h[s \ {Max(s)}] \in V
        BY <1>6, <3>1
      <3>3. QED
        BY <1>4, <3>1, <3>2
    <2>2. h = [s \in SUBSET (1..n) |->
                  IF s = {} THEN <<>> ELSE Finding(e, h[s \ {Max(s)}], A[Max(s)])]
      BY <1>6, <2>1 DEF Folds
    <2>3. QED
      BY <1>1, <2>2
  <1>8. PICK g : Equation(g) /\ PendingFor(e) = g[DOMAIN A]
    <2> HIDE DEF Equation
    <2>1. QED
      BY <1>2, <1>7
  <1>9. g[{}] \in V
    BY <1>5, <1>8
  <1>10. ASSUME NEW k \in 1..n, g[1..(k - 1)] \in V PROVE g[1..k] \in V
    <2>1. 1..k \in SUBSET (1..n) /\ 1..k # {} /\ Max(1..k) = k /\ (1..k) \ {k} = 1..(k - 1)
      BY <1>1, LastOfFirst
    <2>2. g[1..k] = Finding(e, g[1..(k - 1)], A[k])
      BY <1>1, <1>8, <2>1
    <2>3. QED
      BY <1>3, <1>10, <2>2
  <1>11. g[1..n] \in V
    BY <1>1, <1>9, <1>10, FoldHolds
  <1>12. QED
    BY <1>1, <1>8, <1>11 DEF V

(* The elements of a list are finitely many. *)
LEMMA ListFinite ==
    ASSUME NEW T, NEW s \in Seq(T)
    PROVE  IsFiniteSet(ToSet(s))
  <1>1. IsFiniteSet(1..Len(s)) /\ DOMAIN s = 1..Len(s)
    BY SegmentFinite
  <1>2. s \in Surjection(DOMAIN s, ToSet(s))
    BY DEF Surjection, ToSet
  <1>3. QED
    BY <1>1, <1>2, FS_Surjection

(* What is uploaded, kept, registered, indexed and cited is of the versions *)
(* there are, and what is registered is kept, however requests interleave   *)
(* (documents.py: the file is moved before the record is added).            *)
THEOREM LibraryTypesHold == LibrarySpec => []LibraryTypeOK
  <1> DEFINE Contents == {Meta[v].content : v \in Versions}
             Requests == /\ DOMAIN registering = Registrars
                         /\ \A r \in Registrars :
                              /\ DOMAIN registering[r] = {"pc", "version"}
                              /\ registering[r].pc # "idle" => registering[r].version \in Versions
                              /\ registering[r].pc = "kept" => Meta[registering[r].version].content \in files
             Jobs == /\ DOMAIN indexJob = {"pc", "embedder", "pending"} /\ indexJob.pending \in Seq(Versions)
                     /\ indexJob.pc # "none" => indexJob.embedder \in Embedders
             AskedFit == /\ DOMAIN asked = LibraryThreads
                          /\ \A t \in LibraryThreads :
                               DOMAIN asked[t] = DOMAIN NoQuestion /\ asked[t].evidence \in Seq(Versions)
             Documents == /\ documents \in Seq(Versions) /\ Cardinality(Registered) = Len(documents)
                          /\ \A v \in Registered : Meta[v].content \in files
             Stores == uploads \union files \subseteq Contents /\ vectors \subseteq Versions \X Embedders
  <1>1. LibraryTypeOK <=> Stores /\ Documents /\ Requests /\ Jobs /\ AskedFit
    BY DEF LibraryTypeOK
  <1>2. LibraryTypeOK' <=> Stores' /\ Documents' /\ Requests' /\ Jobs' /\ AskedFit'
    BY DEF LibraryTypeOK
  <1> DEFINE NoneFound == <<>>
  <1>0. NoneFound \in Seq(Versions)
    OBVIOUS
  <1>3. LibraryInit => LibraryTypeOK
    <2> SUFFICES ASSUME LibraryInit PROVE LibraryTypeOK
      OBVIOUS
    <2>1. Registered = {} /\ Len(documents) = 0 /\ documents \in Seq(Versions)
      BY DEF LibraryInit, Registered, ToSet
    <2>2. Cardinality({}) = 0
      BY FS_EmptySet
    <2>3. Requests
      BY DEF LibraryInit, NoRequest
    <2>4. Jobs
      BY DEF LibraryInit, NoJob
    <2>5. AskedFit
      <3>1. NoQuestion.evidence = NoneFound
        BY DEF NoQuestion
      <3> HIDE DEF NoneFound
      <3>2. QED
        BY <1>0, <3>1 DEF LibraryInit
    <2>6. QED
      BY <1>1, <2>1, <2>2, <2>3, <2>4, <2>5 DEF LibraryInit
  <1>4. LibraryTypeOK /\ [LibraryNext]_libraryVars => LibraryTypeOK'
    <2> SUFFICES ASSUME LibraryTypeOK, [LibraryNext]_libraryVars PROVE LibraryTypeOK'
      OBVIOUS
    <2>0. Stores /\ Documents /\ Requests /\ Jobs /\ AskedFit
      BY <1>1
    <2>1. Registered \in SUBSET Versions /\ IsFiniteSet(Registered)
      <3>1. Registered \in SUBSET Versions
        BY <2>0, ElementOf DEF Registered, ToSet
      <3>2. QED
        BY <2>0, <3>1, FS_CardinalityType, ListFinite DEF Registered
    <2>2. UNCHANGED documents => UNCHANGED Registered
      BY DEF Registered
    <2>3. CASE UNCHANGED libraryVars
      BY <2>0, <2>2, <2>3, <1>2 DEF libraryVars
    <2>4. CASE Upload
      BY <2>0, <2>2, <2>4, <1>2 DEF Upload
    <2>5. ASSUME NEW r \in Registrars, Register(r) PROVE LibraryTypeOK'
      <3>1. PICK v \in Versions : registering' = [registering EXCEPT ![r] = [pc |-> "checked", version |-> v]]
        BY <2>5 DEF Register
      <3>2. Requests'
        BY <2>0, <2>5, <3>1 DEF Register
      <3>3. QED
        BY <2>0, <2>2, <2>5, <3>2, <1>2 DEF Register
    <2>6. ASSUME NEW r \in Registrars, KeepFile(r) PROVE LibraryTypeOK'
      <3>1. registering[r].version \in Versions
        BY <2>0, <2>6 DEF KeepFile
      <3>2. Requests'
        BY <2>0, <2>6 DEF KeepFile
      <3>3. Stores' /\ Documents'
        BY <2>0, <2>2, <2>6, <3>1 DEF KeepFile
      <3>4. QED
        BY <2>0, <2>6, <3>2, <3>3, <1>2 DEF KeepFile
    <2>7. ASSUME NEW r \in Registrars, AddDocument(r) PROVE LibraryTypeOK'
      <3> DEFINE v == registering[r].version
      <3>1. v \in Versions /\ Meta[v].content \in files
        BY <2>0, <2>7 DEF AddDocument
      <3>2. Documents'
        <4>1. CASE v \in Registered
          BY <2>0, <2>2, <2>7, <4>1 DEF AddDocument
        <4>2. CASE v \notin Registered
          <5>1. documents' = Append(documents, v) /\ files' = files
            BY <2>7, <4>2 DEF AddDocument
          <5> HIDE DEF v
          <5>2. documents' \in Seq(Versions) /\ Registered' = Registered \union {v}
            BY <2>0, <3>1, <5>1, RegisteredMore DEF Registered
          <5>3. Len(documents') = Len(documents) + 1
            BY <2>0, <3>1, <5>1, Appended
          <5>4. Cardinality(Registered \union {v}) = Cardinality(Registered) + 1
            BY <2>1, <4>2, FS_AddElement
          <5>5. QED
            BY <2>0, <3>1, <5>1, <5>2, <5>3, <5>4
        <4>3. QED
          BY <4>1, <4>2
      <3>3. Requests'
        BY <2>0, <2>7 DEF AddDocument, NoRequest
      <3>4. QED
        BY <2>0, <2>7, <3>2, <3>3, <1>2 DEF AddDocument
    <2>8. ASSUME NEW r \in Registrars, RegisterFails(r) PROVE LibraryTypeOK'
      <3>1. Requests'
        BY <2>0, <2>8 DEF RegisterFails, NoRequest
      <3>2. QED
        BY <2>0, <2>2, <2>8, <3>1, <1>2 DEF RegisterFails
    <2>9. CASE QueueIndex
      <3>1. Jobs'
        BY <2>0, <2>9 DEF QueueIndex
      <3>2. QED
        BY <2>0, <2>2, <2>9, <3>1, <1>2 DEF QueueIndex
    <2>10. CASE StartIndex
      <3>1. PendingFor(indexJob.embedder) \in Seq(Versions)
        BY <2>0, PendingKeeps
      <3>2. Jobs'
        BY <2>0, <2>10, <3>1 DEF StartIndex
      <3>3. QED
        BY <2>0, <2>2, <2>10, <3>2, <1>2 DEF StartIndex
    <2>11. CASE IndexOne
      <3>1. /\ Head(indexJob.pending) \in Versions /\ Tail(indexJob.pending) \in Seq(Versions)
            /\ indexJob.embedder \in Embedders
        BY <2>0, <2>11, HeadAndTail DEF IndexOne
      <3>2. Jobs'
        BY <2>0, <2>11, <3>1 DEF IndexOne
      <3>3. Stores'
        BY <2>0, <2>11, <3>1 DEF IndexOne
      <3>4. QED
        BY <2>0, <2>2, <2>11, <3>2, <3>3, <1>2 DEF IndexOne
    <2>12. CASE EndIndex
      <3>1. Jobs'
        BY <2>0, <2>12 DEF EndIndex, NoJob
      <3>2. QED
        BY <2>0, <2>2, <2>12, <3>1, <1>2 DEF EndIndex
    <2>13. ASSUME NEW t \in LibraryThreads,
                  PrepareQuestion(t) \/ CompleteAnswer(t) \/ LeaveQuestion(t)
           PROVE  LibraryTypeOK'
      <3>1. CASE PrepareQuestion(t)
        <4>1. PICK h : /\ asked' = [asked EXCEPT ![t] = h]
                       /\ DOMAIN h = DOMAIN NoQuestion /\ h.evidence = NoneFound
          <5>1. PICK a \in Askers, e \in Embedders :
                    asked' = [asked EXCEPT ![t] = [NoQuestion EXCEPT
                        !.pc = "prepared", !.asker = a, !.embedder = e,
                        !.pinned = Pinned(a, Registered)]]
            BY <3>1 DEF PrepareQuestion
          <5> DEFINE h == [NoQuestion EXCEPT !.pc = "prepared", !.asker = a, !.embedder = e,
                                             !.pinned = Pinned(a, Registered)]
          <5>2. DOMAIN h = DOMAIN NoQuestion /\ h.evidence = <<>>
            BY DEF NoQuestion
          <5>3. QED
            BY <5>1, <5>2
        <4> HIDE DEF NoneFound
        <4>2. AskedFit'
          BY <1>0, <2>0, <4>1
        <4>3. QED
          BY <2>0, <2>2, <3>1, <4>2, <1>2 DEF PrepareQuestion
      <3>2. CASE CompleteAnswer(t)
        <4>1. PICK s, e : /\ asked' = [asked EXCEPT ![t].pc = "answered", ![t].evidence = e,
                                                    ![t].status = s]
                          /\ e = Retrieved(asked[t].asker, documents) \/ e = <<>>
          BY <3>2 DEF CompleteAnswer
        <4>2. e \in Seq(Versions)
          <5>1. Retrieved(asked[t].asker, documents) \in Seq(VisibleDocuments(asked[t].asker, Registered))
            BY <2>0, RetrievedType DEF Registered
          <5>2. VisibleDocuments(asked[t].asker, Registered) \in SUBSET Versions
            BY <2>1 DEF VisibleDocuments
          <5>3. e = Retrieved(asked[t].asker, documents) \/ e = NoneFound
            BY <4>1
          <5> HIDE DEF NoneFound
          <5>4. \A S \in SUBSET Versions : Seq(S) \subseteq Seq(Versions)
            OBVIOUS
          <5>5. QED
            BY <1>0, <5>1, <5>2, <5>3, <5>4
        <4>3. AskedFit'
          BY <2>0, <4>1, <4>2
        <4>4. QED
          BY <2>0, <2>2, <3>2, <4>3, <1>2 DEF CompleteAnswer
      <3>3. CASE LeaveQuestion(t)
        <4>1. NoQuestion.evidence = NoneFound
          BY DEF NoQuestion
        <4> HIDE DEF NoneFound
        <4>2. AskedFit'
          BY <1>0, <2>0, <3>3, <4>1 DEF LeaveQuestion
        <4>3. QED
          BY <2>0, <2>2, <3>3, <4>2, <1>2 DEF LeaveQuestion
      <3>4. QED
        BY <2>13, <3>1, <3>2, <3>3
    <2>14. QED
      BY <2>3, <2>4, <2>5, <2>6, <2>7, <2>8, <2>9, <2>10, <2>11, <2>12, <2>13 DEF LibraryNext
  <1>5. QED
    BY <1>3, <1>4, PTL DEF LibrarySpec

-----------------------------------------------------------------------------
(* Both backends. *)

(* The filter built for Qdrant and chunk_is_visible (rag/filters.py) select *)
(* the same chunks: each condition of one is a condition of the other once  *)
(* an absent date is dropped from the payload.                              *)
THEOREM BackendsAgreeHolds == LibrarySpec => []BackendsAgree
  <1>1. ASSUME LibraryTypeOK, NEW a \in Askers, NEW v \in Registered
        PROVE  LET chunk == ChunkOf(v, Registered)
               IN  VisibleTo(a, chunk) <=> QdrantMatches(a, Payload(chunk))
    <2> DEFINE chunk == ChunkOf(v, Registered)
               payload == Payload(chunk)
    <2>1. Registered \in SUBSET Versions
      BY <1>1, ElementOf DEF LibraryTypeOK, Registered, ToSet
    <2>2. /\ {"from", "to", "status", "level", "roles", "portfolios", "jurisdiction"}
                \subseteq DOMAIN Meta[v]
          /\ Meta[v].from \in Nat /\ a.asOf \in Nat
      BY <2>1, LibraryAssumption DEF LibraryAssumption
    <2>3. LastDay(v, Registered) # Absent => LastDay(v, Registered) \in Nat
      BY <2>1, WindowEnds
    <2>4. DOMAIN chunk = DOMAIN Meta[v] /\ chunk.from \in Nat /\ (chunk.to # Absent => chunk.to \in Nat)
      BY <2>2, <2>3 DEF ChunkOf
    <2> HIDE DEF chunk
    <2>5. /\ payload.status = chunk.status /\ payload.level = chunk.level
          /\ payload.roles = chunk.roles /\ payload.portfolios = chunk.portfolios
          /\ payload.jurisdiction = chunk.jurisdiction
      BY <2>2, <2>4 DEF Payload
    <2>6. /\ "from" \in DOMAIN payload <=> chunk.from # Absent
          /\ "to" \in DOMAIN payload <=> chunk.to # Absent
          /\ chunk.from # Absent => payload.from = chunk.from
          /\ chunk.to # Absent => payload.to = chunk.to
      BY <2>2, <2>4 DEF Payload
    <2> HIDE DEF payload
    <2>7. VisibleTo(a, chunk) <=> QdrantMatches(a, payload)
      BY <2>2, <2>4, <2>5, <2>6 DEF VisibleTo, QdrantMatches
    <2>8. QED
      BY <2>7 DEF chunk, payload
  <1>2. LibraryTypeOK => BackendsAgree
    BY <1>1 DEF BackendsAgree
  <1>3. QED
    BY <1>2, LibraryTypesHold, PTL

-----------------------------------------------------------------------------
(* The four together. *)

(* A behaviour of the composition is one of each component.                 *)
LEMMA EvidenceParts == EvidenceSpec => LedgerSpec /\ LibrarySpec /\ Spec /\ QuerySpec
  <1>1. EvidenceInit => LedgerInit /\ LibraryInit /\ Init /\ QueryInit
    BY DEF EvidenceInit
  <1>2. [EvidenceNext]_evidenceVars =>
           [LedgerNext]_ledgerVars /\ [LibraryNext]_libraryVars /\ [Next]_vars /\ [QueryNext]_queryVars
    BY DEF EvidenceNext, LedgerStep, LibraryStep, MemoryStep, QueryStep, evidenceVars
  <1>3. QED
    BY <1>1, <1>2, PTL DEF EvidenceSpec, LedgerSpec, LibrarySpec, Spec, QuerySpec

(* Whatever is registered, asked, imported and answered, what each store of *)
(* evidence rests on holds, as long as registrations come one at a time     *)
(* (documents.py and server.py hold no lock over a registration).           *)
THEOREM EvidenceInvHolds == ASSUME OneAtATime PROVE EvidenceSpec => []EvidenceInv
  <1> DEFINE Known == part \in {"ledger", "library", "memory", "query"}
  <1>1. Known /\ LedgerInv /\ LibraryTypeOK /\ LibraryInv /\ MemoryInv /\ QueryTypeOK => EvidenceInv
    BY DEF EvidenceInv, LedgerInv
  <1>2. EvidenceInit => Known
    BY DEF EvidenceInit
  <1>3. Known /\ [EvidenceNext]_evidenceVars => Known'
    BY DEF EvidenceNext, LedgerStep, LibraryStep, MemoryStep, QueryStep, evidenceVars
  <1>4. EvidenceSpec => []Known
    BY <1>2, <1>3, PTL DEF EvidenceSpec
  <1>5. LibrarySpec => []LibraryInv
    BY LibraryInvariant
  <1>6. QED
    BY <1>1, <1>4, <1>5, EvidenceParts, LedgerInvariant, LibraryTypesHold, MemoryInvariant,
       QueryTypesHold, PTL

(* Everything the run of Evidence checks beside it, of the composition that *)
(* the run explores: what an answer is made from can be replayed, is of one *)
(* version, reaches the cohort floor and knows nothing that came later.     *)
THEOREM EvidenceGuarantees ==
    ASSUME OneAtATime
    PROVE  EvidenceSpec => /\ [](ReplayIsExact /\ LedgerIsTruthful)
                           /\ [](OneVersionCited /\ BackendsAgree)
                           /\ [](SameAnswerAgain /\ CorrectionIsReturned)
                           /\ CohortFloor /\ HindsightIsInvisible
  <1>1. LibrarySpec => []OneVersionCited
    BY OneVersionCitedHolds
  <1>2. QED
    BY <1>1, EvidenceParts, ReplayHolds, TruthfulHolds, BackendsAgreeHolds, SameAnswerHolds,
       CorrectionHolds, CohortFloorHolds, HindsightHolds, PTL

=============================================================================
