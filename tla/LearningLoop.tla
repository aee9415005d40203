---------------------------- MODULE LearningLoop ----------------------------
(***************************************************************************)
(* Datasets of the workbench: feedback on answers (workbench/feedback.py), *)
(* the versions that are built from it (learning.build_dataset), and their *)
(* inspection and registration (contracts.inspect_dataset, server.register)*)
(* by request threads.                                                     *)
(*                                                                         *)
(* A case is its id, group, template family, question with context, as-of  *)
(* date and split. Dataset files are not edited by hand.                   *)
(***************************************************************************)
EXTENDS Integers, FiniteSetsExt, SequencesExt

CONSTANTS
    Curated,            \* datasets that people made
    Answers,            \* the case of each answer, and whether it has v2 lineage
    Corrections,        \* a cause, a target, and whether it is valid and testable
    Paraphrases,        \* other wordings a build is given, by answer
    Percent,            \* feedback_fraction
    MaxPerFamily,       \* MAX_PER_TEMPLATE_FAMILY
    Versions,           \* dataset versions, which are directories
    Builders, Registrars,
    MaxCorrections,     \* bound
    Absent, Started

(* The second part of an id is the wording: 0 for a question as it was      *)
(* asked, n for its n-th paraphrase, and only build_dataset makes those.    *)
AsAsked(case) == case.id = <<case.id[1], 0>>

ASSUME LearningAssumption ==
    /\ Percent \in 1..99 /\ MaxPerFamily \in Nat \ {0}
    /\ \A a \in DOMAIN Answers :
          /\ Paraphrases[a] \in Nat
          /\ {"id", "context", "split"} \subseteq DOMAIN Answers[a].case
          /\ AsAsked(Answers[a].case)
    /\ \A d \in Curated : IsFiniteSet(d.cases) /\ \A c \in d.cases : AsAsked(c)
    /\ Absent # Started

VARIABLES
    registered,     \* datasets of the store
    corrected,      \* feedback records
    directory,      \* data/workbench/<task>/<version>
    building, registering       \* each thread
learningVars == <<registered, corrected, directory, building, registering>>

LearningInit ==
    /\ registered = {} /\ corrected = <<>>
    /\ directory = [v \in Versions |-> Absent]
    /\ building = [b \in Builders |-> Absent]
    /\ registering = [r \in Registrars |-> Absent]

Held == {"validation", "test", "oot"}
Train(d) == {c \in d.cases : c.split = "train"}
Groups(cases) == {c.group : c \in cases}
Protected(d) == Groups(d.cases \ Train(d))
ProtectedGroups == UNION {Protected(d) : d \in registered}

(* inspect_dataset, with the family cap of diversity_report.                *)
Inspected(d) ==
    /\ \A x, y \in d.cases :
          /\ x.group = y.group \/ x.family = y.family => x.split = y.split
          /\ x.id = y.id \/ x.context = y.context => x = y
    /\ \A x \in d.cases :
          /\ (x.split = "oot") = (x.asOf >= d.cutoff)
          /\ Cardinality({y \in d.cases : y.family = x.family}) <= MaxPerFamily

-----------------------------------------------------------------------------
(* submit: what is protected is read now, and again when a batch is made.   *)
Eligible(answer, k) ==
    /\ k.valid /\ k.testable /\ k.cause = "model_behaviour"
    /\ answer.case.split \notin Held /\ answer.case.group \notin ProtectedGroups
SubmitFeedback ==
    /\ Len(corrected) < MaxCorrections
    /\ \E a \in DOMAIN Answers, k \in Corrections :
          corrected' = Append(corrected, [answer |-> a, target |-> k.target,
                                          eligible |-> Eligible(Answers[a], k)])
    /\ UNCHANGED <<registered, directory, building, registering>>

(* batch_records: the last record of each answer, in the order of the first *)
(* ones.                                                                    *)
LatestRecord(a) == corrected[Max({n \in DOMAIN corrected : corrected[n].answer = a})]
AnswersInOrder ==
    LET First(n) == \A m \in 1..(n - 1) : corrected[m].answer # corrected[n].answer IN
    [n \in 1..Cardinality({m \in DOMAIN corrected : First(m)}) |->
        corrected[CHOOSE m \in DOMAIN corrected :
                     First(m) /\ Cardinality({l \in 1..m : First(l)}) = n].answer]
BatchRecords ==
    LET Add(batch, a) ==
            LET case == Answers[a].case
                example == <<case.context, LatestRecord(a).target>> IN
            IF /\ LatestRecord(a).eligible /\ case.group \notin ProtectedGroups
               /\ ~\E b \in Range(batch) :
                     example = <<Answers[b].case.context, LatestRecord(b).target>>
               /\ Cardinality({b \in Range(batch) : Answers[b].case.family = case.family})
                     < MaxPerFamily
            THEN Append(batch, a) ELSE batch
    IN FoldLeft(Add, <<>>, AnswersInOrder)

(* The cases of one correction: the question, and its other wordings.       *)
CaseFamily(a) ==
    {[Answers[a].case EXCEPT !.id = <<@[1], n>>, !.context = <<@[1], n>>, !.split = "train"] :
        n \in 0..Paraphrases[a]}
(* Mutant: the cap counts corrections, not cases.                           *)
FitsCorrections(added, family, limit) ==
    Cardinality({c \in added : c.id[2] = 0}) + 1 <= limit
Fits(added, family, limit) == Cardinality(added) + Cardinality(family) <= limit
FeedbackCases(base) ==
    LET limit == (Percent * Cardinality(Train(base))) \div (100 - Percent)
        Add(added, a) ==
            LET case == Answers[a].case
                taken == base.cases \union added IN
            IF /\ Answers[a].lineage /\ case.asOf < base.cutoff
               /\ \A c \in taken : c.id # case.id /\ c.context # case.context
               /\ Fits(added, CaseFamily(a), limit)
            THEN added \union CaseFamily(a) ELSE added
    IN FoldLeft(Add, {}, Reverse(BatchRecords))

-----------------------------------------------------------------------------
(* build_dataset: the directory is made once; what cannot be written, or    *)
(* does not pass inspection, is removed; a crash leaves what is there.      *)
Collect(b) ==
    /\ building[b] = Absent
    /\ \E v \in Versions, base \in registered :
          LET added == FeedbackCases(base) IN
          /\ directory[v] = Absent /\ added # {}
          /\ building' = [building EXCEPT ![b] =
                [pc |-> "collected", version |-> v, added |-> added,
                 dataset |-> [cutoff |-> base.cutoff, cases |-> base.cases \union added]]]
    /\ UNCHANGED <<registered, corrected, directory, registering>>
(* Mutant: mkdir with exist_ok.                                             *)
MayMakeAny(v) == TRUE
MayMake(v) == directory[v] = Absent
MakeDirectory(b) ==
    /\ building[b] # Absent /\ building[b].pc = "collected"
    /\ LET v == building[b].version IN
          /\ directory' = IF MayMake(v) THEN [directory EXCEPT ![v] = Started] ELSE directory
          /\ building' = [building EXCEPT ![b] =
                IF MayMake(v) THEN [@ EXCEPT !.pc = "writing"] ELSE Absent]
    /\ UNCHANGED <<registered, corrected, registering>>
WriteVersion(b) ==
    /\ building[b] # Absent /\ building[b].pc = "writing"
    /\ LET d == building[b].dataset IN
          \E outcome \in {Absent} \union (IF Inspected(d) THEN {d} ELSE {}) :
             directory' = [directory EXCEPT ![building[b].version] = outcome]
    /\ building' = [building EXCEPT ![b] = Absent]
    /\ UNCHANGED <<registered, corrected, registering>>

(* register: inspected and compared with the datasets of the store, then    *)
(* stored.                                                                  *)
(* Mutant: only the new training cases are compared.                        *)
ClashesForward(d, e) == Groups(Train(d)) \intersect Protected(e) # {}
Clashes(d, e) ==
    \/ Groups(Train(d)) \intersect Protected(e) # {}
    \/ Groups(Train(e)) \intersect Protected(d) # {}
OnDisk == Curated \union {directory[v] : v \in {w \in Versions : directory[w] \notin {Absent, Started}}}
CheckDataset(r) ==
    /\ registering[r] = Absent
    /\ \E d \in OnDisk \ registered :
          /\ Inspected(d) /\ ~\E e \in registered : Clashes(d, e)
          /\ registering' = [registering EXCEPT ![r] = d]
    /\ UNCHANGED <<registered, corrected, directory, building>>
AddDataset(r) ==
    /\ registering[r] # Absent
    /\ registered' = registered \union {registering[r]}
    /\ registering' = [registering EXCEPT ![r] = Absent]
    /\ UNCHANGED <<corrected, directory, building>>

LearningCrash ==
    /\ \E b \in Builders : building[b] # Absent
    /\ building' = [b \in Builders |-> Absent] /\ registering' = [r \in Registrars |-> Absent]
    /\ UNCHANGED <<registered, corrected, directory>>

LearningNext ==
    \/ SubmitFeedback
    \/ \E b \in Builders : Collect(b) \/ MakeDirectory(b) \/ WriteVersion(b)
    \/ \E r \in Registrars : CheckDataset(r) \/ AddDataset(r)
    \/ LearningCrash
LearningSpec == LearningInit /\ [][LearningNext]_learningVars

-----------------------------------------------------------------------------
LearningTypeOK ==
    /\ registered \subseteq Curated \union {directory[v] : v \in Versions}
    /\ \A n \in DOMAIN corrected : corrected[n].answer \in DOMAIN Answers
    /\ \A b \in Builders : building[b] # Absent => building[b].pc \in {"collected", "writing"}

(* No dataset has a paraphrase without its question, wherever it is kept.   *)
Whole(cases) == \A c \in cases : \E d \in cases : d.id = <<c.id[1], 0>>
Fine(dataset) == IsFiniteSet(dataset.cases) /\ Whole(dataset.cases)
DatasetsFit ==
    /\ corrected \in Seq([answer : DOMAIN Answers, target : {k.target : k \in Corrections},
                          eligible : BOOLEAN])
    /\ \A d \in registered \union OnDisk : Fine(d)
    /\ \A b \in Builders : building[b] # Absent => Fine(building[b].dataset)
    /\ \A r \in Registrars : registering[r] # Absent => Fine(registering[r])

(* "Cross-dataset frozen groups cannot reappear in training": with one      *)
(* registration at a time, whatever feedback is built into versions and     *)
(* whichever dataset is registered first, no group is trained by one and    *)
(* held out by another.                                                     *)
TrainedNeverProtected ==
    \A d, e \in registered : Groups(Train(d)) \intersect Protected(e) = {}

(* "Base anchors + eligible feedback (<= feedback_fraction of train)":      *)
(* whatever paraphrases it comes with, what a version adds to its base is   *)
(* no more than that fraction of its training cases.                        *)
FeedbackShare ==
    \A b \in Builders : building[b] # Absent =>
        100 * Cardinality(building[b].added) <= Percent * Cardinality(Train(building[b].dataset))

(* "A new immutable V2 dataset version": a version that was written stays   *)
(* as it is, whoever builds it again, and whatever crashes.                 *)
VersionIsImmutable ==
    [][\A v \in Versions : directory[v] \notin {Absent, Started} => directory'[v] = directory[v]]_directory

=============================================================================
