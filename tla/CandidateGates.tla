--------------------------- MODULE CandidateGates ---------------------------
(***************************************************************************)
(* What the dashboard says of a trained checkpoint before it replaces the  *)
(* model in use: the evaluation of a comparison (workbench/evaluation.py), *)
(* the replay of verified answers and the development checks, each a job   *)
(* of the lane, and the consistency gates over their results (learning.py, *)
(* server.comparison_run).                                                 *)
(*                                                                         *)
(* Decoding is deterministic in the seed: a behaviour fixes what every     *)
(* model answers. An answer is its decision fields (projection), or None.  *)
(* The lane's own failures are JobLane's.                                  *)
(***************************************************************************)
EXTENDS Integers, FiniteSetsExt, SequencesExt

CONSTANTS
    Cases,          \* held-out cases: id, split, declared, family, distinct
    Behaviours,     \* attempts, keeps and passes of each model
    VerifiedAnswers, Interactions,
    Minimum,        \* of each metric, in percent
    SplitChoices,   \* splits a comparison may select
    MaxWaiting, MaxReports,     \* bounds
    None

(* Of consistency_gates.yaml: repeats must all agree.                       *)
ASSUME GatesAssumption ==
    /\ \A m \in {"repeated", "equivalent", "distinct"} : Minimum[m] \in 0..100
    /\ "repeated" \in DOMAIN Minimum /\ Minimum["repeated"] = 100
    /\ IsFiniteSet(Cases) /\ IsFiniteSet(VerifiedAnswers)

VARIABLES
    behaviour,      \* fixed
    verified,       \* verified answers of the memory
    reports,        \* feedback with independent expectations, and its development checks
    waiting,        \* the jobs of the lane
    results         \* completed jobs, of those that the gates read the last ones
gatesVars == <<behaviour, verified, reports, waiting, results>>

Checkpoints == {"best", "final"}
Models == {"base"} \union Checkpoints       \* of one training run
Splits == {"validation", "test", "oot"}

GatesInit ==
    /\ behaviour \in Behaviours
    /\ verified = {} /\ reports = <<>> /\ waiting = <<>> /\ results = {}

-----------------------------------------------------------------------------
(* evaluate: three attempts for each case; those of a case that declares no *)
(* decision fields are None.                                                *)
Key(model, c, n) == IF c.declared THEN behaviour.attempts[model][c.id][n] ELSE None
AgreesThrice(model, c) ==
    Key(model, c, 1) # None /\ \A n \in 2..3 : Key(model, c, n) = Key(model, c, 1)
FamilyOf(c, cases) == {d \in cases : d.split = c.split /\ d.family = c.family}
Controls(c, cases) == {d \in cases : d.id \in c.distinct}

Applies(metric, c, cases) ==
    CASE metric = "repeated" -> c.declared
      [] metric = "equivalent" -> c.family # None /\ Cardinality(FamilyOf(c, cases)) > 1
      [] metric = "distinct" -> Controls(c, cases) # {}
Scores(metric, model, c, cases) ==
    CASE metric = "repeated" -> AgreesThrice(model, c)
      [] metric = "equivalent" ->
            /\ Key(model, c, 1) # None
            /\ \A d \in FamilyOf(c, cases) : Key(model, d, 1) = Key(model, c, 1)
      [] metric = "distinct" ->
            \A d \in {c} \union Controls(c, cases) :
               Key(model, d, 1) # None /\ (d # c => Key(model, d, 1) # Key(model, c, 1))

Reached(n, of, minimum) ==
    IF of = 0 THEN "not_evaluated" ELSE IF 100 * n >= minimum * of THEN "passed" ELSE "failed"
AgreementGate(metric, split, job) ==
    LET measured == {c \in job.items : c.split = split /\ Applies(metric, c, job.items)} IN
    Reached(Cardinality({c \in measured : Scores(metric, job.model, c, job.items)}),
            Cardinality(measured), Minimum[metric])

-----------------------------------------------------------------------------
Finished(kind, models) == {r \in results : r.kind = kind /\ r.model \in models}
Result(kind, models) == CHOOSE r \in Finished(kind, models) : TRUE

(* verified_replay: the last replay of this very checkpoint.                *)
(* Mutant: of this training run.                                            *)
ReplayedTraining(model) == Checkpoints
Replayed(model) == {model}
ReplayGate(model) ==
    IF Finished("replay", Replayed(model)) = {} THEN "not_evaluated"
    ELSE LET job == Result("replay", Replayed(model)) IN
         Reached(Cardinality(job.items \intersect behaviour.keeps[job.model]),
                 Cardinality(job.items), 100)

(* regression_checks: the last run of the training run, and of any base.    *)
Passing(models) ==
    LET job == Result("regression", models) IN job.items \intersect behaviour.passes[job.model]
RegressionGate ==
    IF \E models \in {{"base"}, Checkpoints} : Finished("regression", models) = {} THEN "not_evaluated"
    ELSE IF Passing({"base"}) \subseteq Passing(Checkpoints) THEN "passed" ELSE "failed"

GateResults(candidate) ==
    {AgreementGate(metric, split, candidate) : metric \in DOMAIN Minimum, split \in Splits}
        \union {ReplayGate(candidate.model), RegressionGate}
ConsistencyGates(candidate) ==
    IF "failed" \in GateResults(candidate) THEN "failed"
    ELSE IF "not_evaluated" \in GateResults(candidate) THEN "not_evaluated" ELSE "passed"

-----------------------------------------------------------------------------
Job(kind, model, items) == [kind |-> kind, model |-> model, items |-> items]
Enqueue(jobs) == Len(waiting) + Len(jobs) <= MaxWaiting /\ waiting' = waiting \o jobs

(* create_comparison: both sides on the same cases; no identical pair is    *)
(* active.                                                                  *)
StartComparison ==
    /\ \E checkpoint \in Checkpoints, splits \in SplitChoices :
          LET items == {c \in Cases : c.split \in splits}
              candidate == Job("evaluate", checkpoint, items) IN
          /\ items # {} /\ candidate \notin Range(waiting)
          /\ Enqueue(<<Job("evaluate", "base", items), candidate>>)
    /\ UNCHANGED <<behaviour, verified, reports, results>>
StartReplay ==
    /\ verified # {}
    /\ \E model \in Models : Enqueue(<<Job("replay", model, verified)>>)
    /\ UNCHANGED <<behaviour, verified, reports, results>>

(* spec_for: the checks of the last feedback on each interaction.           *)
IsLatest(n) == \A m \in DOMAIN reports : reports[m].interaction = reports[n].interaction => m <= n
DevelopmentChecks == {reports[n].interaction : n \in {m \in DOMAIN reports : IsLatest(m) /\ reports[m].stored}}
StartRegression ==
    /\ DevelopmentChecks # {}
    /\ \E model \in Models : Enqueue(<<Job("regression", model, DevelopmentChecks)>>)
    /\ UNCHANGED <<behaviour, verified, reports, results>>

(* The lane runs the first job of its queue. comparison_run fails with      *)
(* either side of a pair, so that of a pair only the candidate is a result. *)
IsBase(job) == job.kind = "evaluate" /\ job.model = "base"
SameQuestion(r, job) ==
    /\ r.kind = job.kind
    /\ r.model = job.model \/ (job.kind = "regression" /\ "base" \notin {r.model, job.model})
RunJob ==
    /\ waiting # <<>>
    /\ LET job == Head(waiting) IN
       \/ /\ waiting' = Tail(waiting)
          /\ results' = IF IsBase(job) THEN results
                         ELSE {r \in results : ~SameQuestion(r, job)} \union {job}
       \/ /\ waiting' = IF IsBase(job) THEN Tail(Tail(waiting)) ELSE Tail(waiting)
          /\ UNCHANGED results
    /\ UNCHANGED <<behaviour, verified, reports>>

Verify ==
    /\ \E a \in VerifiedAnswers \ verified : verified' = verified \union {a}
    /\ UNCHANGED <<behaviour, reports, waiting, results>>

(* submit stores the feedback, and then its check when the correction is    *)
(* valid and testable; between the two it may stop, and be submitted again. *)
Submit ==
    /\ Len(reports) < MaxReports
    /\ \E i \in Interactions, ready, stored \in BOOLEAN :
          /\ stored => ready
          /\ reports' = Append(reports, [interaction |-> i, ready |-> ready, stored |-> stored])
    /\ UNCHANGED <<behaviour, verified, waiting, results>>
SubmitAgain ==
    /\ \E n \in DOMAIN reports :
          /\ reports[n].ready /\ ~reports[n].stored
          /\ reports' = [reports EXCEPT ![n].stored = TRUE]
    /\ UNCHANGED <<behaviour, verified, waiting, results>>

GatesNext ==
    \/ StartComparison \/ StartReplay \/ StartRegression \/ RunJob
    \/ Verify \/ Submit \/ SubmitAgain
GatesSpec == GatesInit /\ [][GatesNext]_gatesVars

-----------------------------------------------------------------------------
(* What is put to a model, never nothing.                                   *)
LaneJobs ==
    [kind : {"evaluate"}, model : Models, items : (SUBSET Cases) \ {{}}]
        \union [kind : {"replay"}, model : Models, items : (SUBSET VerifiedAnswers) \ {{}}]
        \union [kind : {"regression"}, model : Models, items : (SUBSET Interactions) \ {{}}]

(* The base model of a comparison is never in the queue without its         *)
(* candidate, and what is stored was ready.                                 *)
GatesTypeOK ==
    /\ verified \subseteq VerifiedAnswers
    /\ reports \in Seq([interaction : Interactions, ready : BOOLEAN, stored : BOOLEAN])
    /\ \A n \in DOMAIN reports : reports[n].stored => reports[n].ready
    /\ results \subseteq LaneJobs
    /\ waiting \in Seq(LaneJobs)
    /\ \A n \in DOMAIN waiting : IsBase(waiting[n]) => n + 1 \in DOMAIN waiting

Compared == Finished("evaluate", Checkpoints)

(* "Still answers the same after retraining is measured instead of          *)
(* assumed": a checkpoint whose gates pass gave the same decision fields on *)
(* every repeat of a case in each held-out split, and kept every verified   *)
(* answer of a replay that it was itself put to.                            *)
GatesVouch ==
    \A job \in Compared : ConsistencyGates(job) = "passed" =>
        /\ \A split \in Splits :
              LET asked == {c \in job.items : c.split = split /\ c.declared} IN
              /\ asked # {}
              /\ \A c \in asked : \A n \in 1..3 :
                    behaviour.attempts[job.model][c.id][n] = behaviour.attempts[job.model][c.id][1]
        /\ \E r \in results :
              r.kind = "replay" /\ r.model = job.model /\ r.items \subseteq behaviour.keeps[job.model]

(* "No development check that passes for the base model may fail for the    *)
(* candidate", of the checks that the base was last run on.                 *)
NoCheckNewlyFails ==
    \A job \in Compared : ConsistencyGates(job) = "passed" =>
        Passing({"base"}) \subseteq behaviour.passes[job.model]

=============================================================================
