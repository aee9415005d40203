----------------------------- MODULE LearningProofs ----------------------------
(***************************************************************************)
(* Proofs about what the program releases, what it learns from, and how it *)
(* judges what it learnt, for any requests, datasets, corrections, cases   *)
(* and threads: what is released is grounded, and what was held out for    *)
(* tests stays out of training (ReleaseControl); versions are written      *)
(* once, add no more than their share, and, when registrations do not      *)
(* overlap, what is held out is not trained on (LearningLoop); gates that  *)
(* pass have put the replay to the checkpoint (CandidateGates); and a      *)
(* decision that promotes stands on enough independent groups, each of     *)
(* them right (ReleaseDecision).                                           *)
(***************************************************************************)
EXTENDS ModelLoop, CheckpointSelectionProofs, Collections

(* What is released. *)

(* A sequence of whatever elements. *)
IsSequence(s) == \E S : s \in Seq(S)

(* Appending one element to a sequence.                                     *)
LEMMA AppendOne ==
    ASSUME NEW s, IsSequence(s), NEW e
    PROVE  /\ IsSequence(Append(s, e)) /\ Len(s) \in Nat
           /\ DOMAIN s = 1..Len(s) /\ DOMAIN Append(s, e) = 1..(Len(s) + 1)
           /\ Append(s, e)[Len(s) + 1] = e
           /\ \A n \in DOMAIN s : Append(s, e)[n] = s[n]
  <1>1. PICK S : s \in Seq(S)
    BY DEF IsSequence
  <1>2. s \in Seq(S \union {e})
    BY <1>1
  <1>3. Append(s, e) \in Seq(S \union {e})
    BY <1>2
  <1> QED
    BY <1>2, <1>3 DEF IsSequence

-----------------------------------------------------------------------------
(* What an answer that passes the output check is made of, by its sources.  *)
Sourced(o, r, evidence) ==
    /\ Cited(o) \subseteq Range(Sources(r, evidence))
    /\ \A s \in Narrative(o) : Supported(s, Joined(r, evidence, Sources(r, evidence)))
    /\ \A c \in Claims(o) : c.cites # <<>> /\ ClaimSupported(c, r, evidence)
LEMMA CheckedIsSourced ==
    ASSUME NEW o, NEW r, NEW evidence, NEW rules, OutputFailures(o, r, evidence, rules) = {}
    PROVE  Sourced(o, r, evidence)
  <1>1. /\ "unsupported_claim" \notin OutputFailures(o, r, evidence, rules)
        /\ "uncited" \notin OutputFailures(o, r, evidence, rules)
        /\ "unknown_citation" \notin OutputFailures(o, r, evidence, rules)
        /\ "unverified_narrative" \notin OutputFailures(o, r, evidence, rules)
    OBVIOUS
  <1>2. \A c \in Claims(o) : ClaimSupported(c, r, evidence)
    BY <1>1 DEF OutputFailures
  <1>3. \A c \in Claims(o) : c.cites # <<>>
    BY <1>1 DEF OutputFailures
  <1>4. Cited(o) \subseteq Range(Sources(r, evidence))
    BY <1>1 DEF OutputFailures
  <1>5. \A s \in Narrative(o) : Supported(s, Joined(r, evidence, Sources(r, evidence)))
    BY <1>1 DEF OutputFailures
  <1> QED
    BY <1>2, <1>3, <1>4, <1>5 DEF Sourced

(* What a claim with a comparison compares, by the factsheet and the rules. *)
Agrees(d, r, rules) ==
    /\ Measured(r, d.metric, d.unit)
    /\ Holds(d.operator, r.metrics[d.metric].value, d.threshold) = d.holds
    /\ d.rule # Nothing => \E e \in rules : e.rule = d.rule /\ e.threshold = d.threshold
    /\ \A e \in rules : e.rule = d.rule => e.holds = d.holds
LEMMA CheckedAgrees ==
    ASSUME NEW o, NEW r, NEW evidence, NEW rules, OutputFailures(o, r, evidence, rules) = {},
           NEW c \in Claims(o), c.derivation # Nothing
    PROVE  Agrees(c.derivation, r, rules)
  <1> DEFINE d == c.derivation
  <1>1. /\ "invalid_derivation" \notin OutputFailures(o, r, evidence, rules)
        /\ "rule_contradiction" \notin OutputFailures(o, r, evidence, rules)
    OBVIOUS
  <1>2. DerivationHolds(c, r, evidence, rules)
    BY <1>1 DEF OutputFailures
  <1>3. \A e \in rules : ~Contradicts(c, e)
    BY <1>1 DEF OutputFailures
  <1>4. /\ Measured(r, d.metric, d.unit) /\ r.metrics[d.metric].value = d.observed
        /\ Holds(d.operator, d.observed, d.threshold) = d.holds
    BY <1>2 DEF DerivationHolds
  <1>5. d.rule # Nothing => \E e \in rules : e.rule = d.rule /\ e.threshold = d.threshold
    BY <1>2 DEF DerivationHolds
  <1>6. \A e \in rules : e.rule = d.rule => e.holds = d.holds
    BY <1>3 DEF Contradicts
  <1> QED
    BY <1>4, <1>5, <1>6 DEF Agrees

(* Action control releases by itself only what is of the low tier.          *)
LEMMA ReleasedIsLow ==
    ASSUME NEW o, NEW r, Gate(o, r).released
    PROVE  ~Says(Body(o), Prohibited \union Material)
  <1>1. Tier(o, r) = "low"
    BY DEF Gate
  <1>2. ~Says(Body(o), Prohibited) /\ ~Says(Body(o), Material)
    BY <1>1 DEF Tier
  <1> QED
    BY <1>2 DEF Says

(* The body of ReleasedIsGrounded.                                          *)
Grounded(x) ==
    x.control.released =>
        /\ Sourced(x.output, x.request, x.evidence)
        /\ \A c \in Claims(x.output) :
              c.derivation # Nothing => Agrees(c.derivation, x.request, x.rules)
        /\ \A e \in x.rules : e.mandatory => e.status # "unevaluable"
        /\ ~Says(Body(x.output), Prohibited \union Material)

(* What analyse records when the model answered.                            *)
LEMMA AnsweredIsGrounded ==
    ASSUME NEW o, NEW r, NEW evidence, NEW rules, NEW status,
           ~\E e \in rules : e.mandatory /\ e.status = "unevaluable"
    PROVE  Grounded(Record(r, evidence, rules, o, status, Control(o, r, evidence, rules)))
  <1> DEFINE x == Record(r, evidence, rules, o, status, Control(o, r, evidence, rules))
  <1>1. /\ x.request = r /\ x.evidence = evidence /\ x.rules = rules /\ x.output = o
        /\ x.control = Control(o, r, evidence, rules)
    BY DEF Record
  <1> HIDE DEF x
  <1> SUFFICES ASSUME x.control.released PROVE Grounded(x)
    BY DEF Grounded, x
  <1>2. OutputFailures(o, r, evidence, rules) = {} /\ Gate(o, r).released
    BY <1>1 DEF Control
  <1>3. Sourced(o, r, evidence)
    BY <1>2, CheckedIsSourced
  <1>4. \A c \in Claims(o) : c.derivation # Nothing => Agrees(c.derivation, r, rules)
    BY <1>2, CheckedAgrees
  <1>5. ~Says(Body(o), Prohibited \union Material)
    BY <1>2, ReleasedIsLow
  <1> QED
    BY <1>1, <1>3, <1>4, <1>5 DEF Grounded

(* What is released is cited from its sources and said by them, joined; its *)
(* comparisons are true of the factsheet and agree with the rules they      *)
(* name; no mandatory rule is unevaluated and no phrase for a reviewer is   *)
(* in its body (api.analyse, guardrails.validate_output, risk_tiers.gate).  *)
THEOREM ReleasedIsGroundedHolds == ReleaseSpec => []ReleasedIsGrounded
  <1> DEFINE Inv == IsSequence(served) /\ \A i \in DOMAIN served : Grounded(served[i])
  <1>1. ReleaseInit => Inv
    <2>1. <<>> \in Seq({})
      OBVIOUS
    <2> QED
      BY <2>1 DEF ReleaseInit, IsSequence
  <1>2. Inv /\ [ReleaseNext]_releaseVars => Inv'
    <2> SUFFICES ASSUME Inv, [ReleaseNext]_releaseVars PROVE Inv'
      OBVIOUS
    <2>1. CASE Analyse
      <3>1. PICK r \in Requests : \E evidence \in r.retrievable :
              LET rules == EvaluateRules(r, evidence)
                  abstains == \/ evidence = <<>>
                              \/ \E e \in rules : e.mandatory /\ e.status = "unevaluable" IN
              \/ /\ abstains
                 /\ served' = Append(served, Record(r, evidence,
                       IF evidence = <<>> THEN {} ELSE rules, Nothing, "INSUFFICIENT_EVIDENCE", Blocked))
              \/ /\ ~abstains
                 /\ \E o \in Outputs :
                       served' = Append(served, Record(r, evidence, rules, o, o.status,
                                                       Control(o, r, evidence, rules)))
        BY <2>1 DEF Analyse
      <3>2. PICK evidence \in r.retrievable :
              LET rules == EvaluateRules(r, evidence)
                  abstains == \/ evidence = <<>>
                              \/ \E e \in rules : e.mandatory /\ e.status = "unevaluable" IN
              \/ /\ abstains
                 /\ served' = Append(served, Record(r, evidence,
                       IF evidence = <<>> THEN {} ELSE rules, Nothing, "INSUFFICIENT_EVIDENCE", Blocked))
              \/ /\ ~abstains
                 /\ \E o \in Outputs :
                       served' = Append(served, Record(r, evidence, rules, o, o.status,
                                                       Control(o, r, evidence, rules)))
        BY <3>1
      <3> DEFINE rules == EvaluateRules(r, evidence)
                 abstained == Record(r, evidence, IF evidence = <<>> THEN {} ELSE rules, Nothing,
                                     "INSUFFICIENT_EVIDENCE", Blocked)
                 answered(o) == Record(r, evidence, rules, o, o.status,
                                       Control(o, r, evidence, rules))
      <3>3. PICK x : served' = Append(served, x) /\ Grounded(x)
        <4>1. CASE served' = Append(served, abstained)
          <5>1. Grounded(abstained)
            BY DEF Grounded, Record, Blocked
          <5> QED
            BY <4>1, <5>1
        <4>2. ASSUME NEW o \in Outputs, served' = Append(served, answered(o)),
                     ~\E e \in rules : e.mandatory /\ e.status = "unevaluable"
              PROVE  \E x : served' = Append(served, x) /\ Grounded(x)
          <5>1. Grounded(answered(o))
            BY <4>2, AnsweredIsGrounded
          <5> QED
            BY <4>2, <5>1
        <4> QED
          BY <3>2, <4>1, <4>2
      <3>4. /\ IsSequence(served') /\ Len(served) \in Nat
            /\ DOMAIN served = 1..Len(served) /\ DOMAIN served' = 1..(Len(served) + 1)
            /\ served'[Len(served) + 1] = x
            /\ \A i \in DOMAIN served : served'[i] = served[i]
        BY <3>3, AppendOne
      <3>5. ASSUME NEW i \in DOMAIN served' PROVE Grounded(served'[i])
        <4>1. i \in DOMAIN served \/ i = Len(served) + 1
          BY <3>4
        <4> QED
          BY <3>3, <3>4, <4>1
      <3> QED
        BY <3>4, <3>5 DEF Grounded
    <2>2. CASE UNCHANGED served
      BY <2>2 DEF Grounded
    <2> QED
      BY <2>1, <2>2 DEF ReleaseNext, AnalysisFeedback, ExportDataset, releaseVars
  <1>3. Inv => ReleasedIsGrounded
    BY DEF Grounded, Sourced, Agrees, ReleasedIsGrounded
  <1> QED
    BY <1>1, <1>2, <1>3, PTL DEF ReleaseSpec

-----------------------------------------------------------------------------
(* The test groups of a dataset are in its gold groups, gold groups are     *)
(* passed on, and no later dataset has a case of one.                       *)
GoldInv ==
    /\ IsSequence(datasets)
    /\ \A n \in DOMAIN datasets : \A d, e \in DOMAIN datasets[n].split :
          datasets[n].split[d] = "test" =>
             /\ d.group \in datasets[n].gold
             /\ d.group = e.group => datasets[n].split[e] = "test"
    /\ \A m, n \in DOMAIN datasets : m < n =>
          /\ datasets[m].gold \subseteq datasets[n].gold
          /\ \A e \in DOMAIN datasets[n].split : e.group \notin datasets[m].gold

(* An export freezes whole groups: a split is a matter of the group.        *)
LEMMA FrozenWhole ==
    ASSUME NEW all, NEW cutoff, NEW kept \in SUBSET all, NEW d \in kept, NEW e \in kept,
           SplitOf(d, Frozen(all, cutoff)) = "test"
    PROVE  /\ d.group \in Frozen(all, cutoff)
           /\ d.group = e.group => SplitOf(e, Frozen(all, cutoff)) = "test"
  <1>1. StableSplit[d.group] = "test" => d.group \in Frozen(all, cutoff)
    BY DEF Frozen
  <1> QED
    BY <1>1 DEF SplitOf

(* A group that was in a test split once is in no later training or         *)
(* validation split, whatever cutoffs, lineages and feedback the exports    *)
(* are given (dataset.build_dataset, feedback.main).                        *)
THEOREM GoldStaysOutHolds == ReleaseSpec => []GoldStaysOut
  <1>1. ReleaseInit => GoldInv
    <2>1. <<>> \in Seq({})
      OBVIOUS
    <2> QED
      BY <2>1 DEF ReleaseInit, IsSequence, GoldInv
  <1>2. GoldInv /\ [ReleaseNext]_releaseVars => GoldInv'
    <2> SUFFICES ASSUME GoldInv, [ReleaseNext]_releaseVars PROVE GoldInv'
      OBVIOUS
    <2>1. CASE ExportDataset
      <3>1. PICK cutoff \in Cutoffs, lineage \in Lineages :
              LET all == Distinct({Example(n, lineage) : n \in TrainingBatch(lineage)})
                  frozen == Frozen(all, cutoff)
                  kept == {e \in all : e.group \notin Excluded}
                  split == [e \in kept |-> SplitOf(e, frozen)] IN
              datasets' = Append(datasets, [split |-> split, gold |-> Gold(frozen, Excluded)])
        BY <2>1 DEF ExportDataset
      <3> DEFINE all == Distinct({Example(n, lineage) : n \in TrainingBatch(lineage)})
                 frozen == Frozen(all, cutoff)
                 kept == {e \in all : e.group \notin Excluded}
                 split == [e \in kept |-> SplitOf(e, frozen)]
                 new == [split |-> split, gold |-> Gold(frozen, Excluded)]
      <3>2. datasets' = Append(datasets, new)
        BY <3>1
      <3> HIDE DEF all
      <3>3. /\ new.gold = frozen \union Excluded /\ DOMAIN new.split = kept
            /\ \A e \in kept : new.split[e] = SplitOf(e, frozen) /\ e.group \notin Excluded
            /\ kept \subseteq all
        BY DEF Gold
      <3>4. \A d, e \in kept : new.split[d] = "test" =>
               d.group \in new.gold /\ (d.group = e.group => new.split[e] = "test")
        BY <3>3, FrozenWhole
      <3> HIDE DEF new, kept, frozen, split
      <3>5. \A n \in DOMAIN datasets : datasets[n].gold \subseteq Excluded
        <4>1. ASSUME NEW n \in DOMAIN datasets PROVE datasets[n].gold \subseteq Excluded
          <5>1. /\ Len(datasets) \in Nat /\ DOMAIN datasets = 1..Len(datasets)
                /\ datasets # <<>> /\ Len(datasets) \in DOMAIN datasets
            BY AppendOne DEF GoldInv
          <5>2. Excluded = datasets[Len(datasets)].gold
            BY <5>1 DEF Excluded, Last
          <5> QED
            BY <5>1, <5>2 DEF GoldInv
        <4> QED
          BY <4>1
      <3> DEFINE k == Len(datasets) + 1
      <3>6. /\ IsSequence(datasets') /\ Len(datasets) \in Nat
            /\ DOMAIN datasets = 1..Len(datasets) /\ DOMAIN datasets' = 1..k
            /\ datasets'[k] = new
            /\ \A n \in DOMAIN datasets : datasets'[n] = datasets[n]
        BY <3>2, AppendOne DEF GoldInv
      <3>7. ASSUME NEW n \in DOMAIN datasets', NEW d \in DOMAIN datasets'[n].split,
                   NEW e \in DOMAIN datasets'[n].split, datasets'[n].split[d] = "test"
            PROVE  /\ d.group \in datasets'[n].gold
                   /\ d.group = e.group => datasets'[n].split[e] = "test"
        <4>1. CASE n = k
          BY <3>3, <3>4, <3>6, <3>7, <4>1
        <4>2. CASE n \in DOMAIN datasets
          BY <3>6, <3>7, <4>2 DEF GoldInv
        <4> QED
          BY <3>6, <4>1, <4>2
      <3>8. ASSUME NEW m \in DOMAIN datasets', NEW n \in DOMAIN datasets', m < n
            PROVE  /\ datasets'[m].gold \subseteq datasets'[n].gold
                   /\ \A e \in DOMAIN datasets'[n].split : e.group \notin datasets'[m].gold
        <4>1. m \in DOMAIN datasets
          BY <3>6, <3>8
        <4>2. CASE n = k
          BY <3>3, <3>5, <3>6, <4>1, <4>2
        <4>3. CASE n \in DOMAIN datasets
          BY <3>6, <3>8, <4>1, <4>3 DEF GoldInv
        <4> QED
          BY <3>6, <4>2, <4>3
      <3> QED
        BY <3>6, <3>7, <3>8 DEF GoldInv
    <2>2. CASE UNCHANGED datasets
      BY <2>2 DEF GoldInv
    <2> QED
      BY <2>1, <2>2 DEF ReleaseNext, Analyse, AnalysisFeedback, releaseVars
  <1>3. GoldInv => GoldStaysOut
    <2> SUFFICES ASSUME GoldInv, NEW m \in DOMAIN datasets, NEW n \in DOMAIN datasets, m <= n,
                        NEW d \in DOMAIN datasets[m].split, NEW e \in DOMAIN datasets[n].split,
                        datasets[m].split[d] = "test", d.group = e.group
                 PROVE  datasets[n].split[e] = "test"
      BY DEF GoldStaysOut
    <2>1. m \in Nat /\ n \in Nat
      BY AppendOne DEF GoldInv
    <2>2. CASE m = n
      BY <2>2 DEF GoldInv
    <2>3. CASE m < n
      BY <2>3 DEF GoldInv
    <2> QED
      BY <2>1, <2>2, <2>3
  <1> QED
    BY <1>1, <1>2, <1>3, PTL DEF ReleaseSpec

(* A record that is served has a request, and is blocked without an output. *)
Served(x) == x.request \in Requests /\ (x.output = Nothing => x.control = Blocked)

(* A list of feedback refers to what was served. *)
ReleaseTypes ==
    /\ IsSequence(served) /\ IsSequence(feedback) /\ IsSequence(datasets)
    /\ ReleaseTypeOK

(* An export puts each case in one of the three splits (stable_split).      *)
LEMMA SplitsAreNamed ==
    ASSUME ReleaseTypes, NEW lineage \in Lineages, NEW frozen,
           NEW kept \in SUBSET Distinct({Example(n, lineage) : n \in TrainingBatch(lineage)})
    PROVE  \A e \in kept : SplitOf(e, frozen) \in {"train", "valid", "test"}
  <1> SUFFICES ASSUME NEW e \in kept PROVE SplitOf(e, frozen) \in {"train", "valid", "test"}
    OBVIOUS
  <1>1. PICK n \in TrainingBatch(lineage) : e = Example(n, lineage)
    BY DEF Distinct
  <1>2. /\ n \in DOMAIN feedback
        /\ lineage[served[feedback[n].interaction].request.obligor] # Nothing
    BY DEF TrainingBatch, LatestOf
  <1>3. served[feedback[n].interaction].request \in Requests
    BY <1>2 DEF ReleaseTypes, ReleaseTypeOK
  <1>4. e.group = lineage[served[feedback[n].interaction].request.obligor]
    BY <1>1 DEF Example
  <1>5. e.group \in DOMAIN StableSplit
    BY <1>2, <1>3, <1>4, ReleaseAssumption DEF ReleaseAssumption
  <1>6. QED
    BY <1>5, ReleaseAssumption DEF ReleaseAssumption, SplitOf

(* Feedback is on what was served, what has no output is blocked, and an    *)
(* export has the three splits only (api.analyse, api.analysis_feedback,    *)
(* dataset.build_dataset).                                                  *)
THEOREM ReleaseTypesHold == ReleaseSpec => []ReleaseTypeOK
  <1>1. ReleaseInit => ReleaseTypes
    <2>1. <<>> \in Seq({})
      OBVIOUS
    <2>2. QED
      BY <2>1 DEF ReleaseInit, ReleaseTypes, ReleaseTypeOK, IsSequence
  <1>2. ReleaseTypes /\ [ReleaseNext]_releaseVars => ReleaseTypes'
    <2> SUFFICES ASSUME ReleaseTypes, [ReleaseNext]_releaseVars PROVE ReleaseTypes'
      OBVIOUS
    <2>1. /\ IsSequence(served) /\ IsSequence(feedback) /\ IsSequence(datasets)
          /\ \A n \in DOMAIN feedback : feedback[n].interaction \in DOMAIN served
          /\ \A i \in DOMAIN served : Served(served[i])
          /\ \A n \in DOMAIN datasets : Range(datasets[n].split) \subseteq {"train", "valid", "test"}
      BY DEF ReleaseTypes, ReleaseTypeOK, Served
    <2>2. ASSUME IsSequence(served'), IsSequence(feedback'), IsSequence(datasets'),
                 \A n \in DOMAIN feedback' : feedback'[n].interaction \in DOMAIN served',
                 \A i \in DOMAIN served' : Served(served'[i]),
                 \A n \in DOMAIN datasets' : Range(datasets'[n].split) \subseteq {"train", "valid", "test"}
          PROVE  ReleaseTypes'
      BY <2>2 DEF ReleaseTypes, ReleaseTypeOK, Served
    <2>3. CASE UNCHANGED releaseVars
      BY <2>1, <2>2, <2>3 DEF releaseVars
    <2>4. CASE Analyse
      <3>1. PICK x : served' = Append(served, x) /\ Served(x)
        <4>1. PICK r \in Requests : \E evidence, rules, o, status, control :
                  /\ served' = Append(served, Record(r, evidence, rules, o, status, control))
                  /\ o = Nothing => control = Blocked
          <5>1. PICK r \in Requests : \E evidence \in r.retrievable :
                  LET rules == EvaluateRules(r, evidence) IN
                  \/ served' = Append(served, Record(r, evidence,
                        IF evidence = <<>> THEN {} ELSE rules, Nothing, "INSUFFICIENT_EVIDENCE", Blocked))
                  \/ \E o \in Outputs :
                        served' = Append(served, Record(r, evidence, rules, o, o.status,
                                                        Control(o, r, evidence, rules)))
            BY <2>4 DEF Analyse
          <5>2. \A o \in Outputs : o # Nothing
            BY ReleaseAssumption DEF ReleaseAssumption
          <5>3. QED
            BY <5>1, <5>2
        <4>2. QED
          BY <4>1 DEF Served, Record
      <3>2. /\ IsSequence(served') /\ Len(served) \in Nat
            /\ DOMAIN served = 1..Len(served) /\ DOMAIN served' = 1..(Len(served) + 1)
            /\ served'[Len(served) + 1] = x
            /\ \A i \in DOMAIN served : served'[i] = served[i]
        BY <2>1, <3>1, AppendOne
      <3>3. \A i \in DOMAIN served' : i \in DOMAIN served \/ i = Len(served) + 1
        BY <3>2
      <3>4. \A i \in DOMAIN served' : Served(served'[i])
        BY <2>1, <3>1, <3>2, <3>3
      <3>5. DOMAIN served \subseteq DOMAIN served'
        BY <3>2
      <3>6. UNCHANGED <<feedback, datasets>>
        BY <2>4 DEF Analyse
      <3>7. QED
        BY <2>1, <2>2, <3>2, <3>4, <3>5, <3>6
    <2>5. CASE AnalysisFeedback
      <3>1. PICK f : feedback' = Append(feedback, f) /\ f.interaction \in DOMAIN served
        BY <2>5 DEF AnalysisFeedback
      <3>2. /\ IsSequence(feedback') /\ Len(feedback) \in Nat
            /\ DOMAIN feedback = 1..Len(feedback) /\ DOMAIN feedback' = 1..(Len(feedback) + 1)
            /\ feedback'[Len(feedback) + 1] = f
            /\ \A n \in DOMAIN feedback : feedback'[n] = feedback[n]
        BY <2>1, <3>1, AppendOne
      <3>3. \A n \in DOMAIN feedback' : n \in DOMAIN feedback \/ n = Len(feedback) + 1
        BY <3>2
      <3>4. UNCHANGED <<served, datasets>>
        BY <2>5 DEF AnalysisFeedback
      <3>5. QED
        BY <2>1, <2>2, <3>1, <3>2, <3>3, <3>4
    <2>6. CASE ExportDataset
      <3>1. PICK cutoff \in Cutoffs, lineage \in Lineages :
              LET all == Distinct({Example(n, lineage) : n \in TrainingBatch(lineage)})
                  frozen == Frozen(all, cutoff)
                  kept == {e \in all : e.group \notin Excluded}
                  split == [e \in kept |-> SplitOf(e, frozen)] IN
              datasets' = Append(datasets, [split |-> split, gold |-> Gold(frozen, Excluded)])
        BY <2>6 DEF ExportDataset
      <3> DEFINE all == Distinct({Example(n, lineage) : n \in TrainingBatch(lineage)})
                 frozen == Frozen(all, cutoff)
                 kept == {e \in all : e.group \notin Excluded}
                 split == [e \in kept |-> SplitOf(e, frozen)]
                 new == [split |-> split, gold |-> Gold(frozen, Excluded)]
      <3>2. datasets' = Append(datasets, new)
        BY <3>1
      <3>3. \A e \in kept : SplitOf(e, frozen) \in {"train", "valid", "test"}
        BY SplitsAreNamed
      <3>4. Range(new.split) \subseteq {"train", "valid", "test"}
        <4> HIDE DEF kept, frozen
        <4>1. QED
          BY <3>3 DEF Range
      <3> HIDE DEF new
      <3>5. /\ IsSequence(datasets') /\ Len(datasets) \in Nat
            /\ DOMAIN datasets = 1..Len(datasets) /\ DOMAIN datasets' = 1..(Len(datasets) + 1)
            /\ datasets'[Len(datasets) + 1] = new
            /\ \A n \in DOMAIN datasets : datasets'[n] = datasets[n]
        BY <2>1, <3>2, AppendOne
      <3>6. \A n \in DOMAIN datasets' : n \in DOMAIN datasets \/ n = Len(datasets) + 1
        BY <3>5
      <3>7. UNCHANGED <<served, feedback>>
        BY <2>6 DEF ExportDataset
      <3>8. QED
        BY <2>1, <2>2, <3>4, <3>5, <3>6, <3>7
    <2>7. QED
      BY <2>3, <2>4, <2>5, <2>6 DEF ReleaseNext
  <1>3. ReleaseTypes => ReleaseTypeOK
    BY DEF ReleaseTypes
  <1>4. QED
    BY <1>1, <1>2, <1>3, PTL DEF ReleaseSpec

-----------------------------------------------------------------------------
(* Builds and registrations. *)

(* Thread b is between the directory it made and the manifest it writes.    *)
Writing(b) == building[b] # Absent /\ building[b].pc = "writing"

(* Who writes a version has made its directory, and is alone with it.       *)
BuildInv ==
    /\ directory = [v \in Versions |-> directory[v]]
    /\ building = [b \in Builders |-> building[b]]
    /\ \A b \in Builders : building[b] # Absent =>
          /\ building[b].version \in Versions
          /\ building[b] = [pc |-> building[b].pc, version |-> building[b].version,
                            added |-> building[b].added, dataset |-> building[b].dataset]
    /\ \A b \in Builders : Writing(b) => directory[building[b].version] = Started
    /\ \A b, c \in Builders :
          Writing(b) /\ Writing(c) /\ building[b].version = building[c].version => b = c

(* Nobody builds or registers anything at first.                            *)
LEMMA BuildInit == LearningInit => BuildInv
  BY DEF LearningInit, BuildInv, Writing

(* Every step of the loop keeps the shape of the builds.                    *)
LEMMA BuildStep == BuildInv /\ [LearningNext]_learningVars => BuildInv'
  <1> SUFFICES ASSUME BuildInv, [LearningNext]_learningVars PROVE BuildInv'
    OBVIOUS
  <1>1. ASSUME UNCHANGED <<directory, building>> PROVE BuildInv'
    BY <1>1 DEF BuildInv, Writing
  <1>2. ASSUME NEW b \in Builders, Collect(b) PROVE BuildInv'
    <2>a. \E v \in Versions : \E added, dataset :
            building' = [building EXCEPT ![b] =
              [pc |-> "collected", version |-> v, added |-> added, dataset |-> dataset]]
      BY <1>2 DEF Collect
    <2>1. PICK v, added, dataset :
            /\ v \in Versions
            /\ building' = [building EXCEPT ![b] =
                  [pc |-> "collected", version |-> v, added |-> added, dataset |-> dataset]]
      BY <2>a, ZenonT(40)
    <2>2. directory' = directory
      BY <1>2 DEF Collect
    <2>3. /\ building' = [c \in Builders |-> building'[c]]
          /\ building'[b] = [pc |-> "collected", version |-> v, added |-> added,
                             dataset |-> dataset]
          /\ \A c \in Builders : c # b => building'[c] = building[c]
      BY <2>1 DEF BuildInv
    <2>4. \A c \in Builders : Writing(c)' => c # b /\ Writing(c)
      BY <2>3 DEF Writing
    <2>5. \A c \in Builders : building'[c] # Absent =>
            /\ building'[c].version \in Versions
            /\ building'[c] = [pc |-> building'[c].pc, version |-> building'[c].version,
                               added |-> building'[c].added, dataset |-> building'[c].dataset]
      <3> TAKE c \in Builders
      <3>1. CASE c = b
        BY <2>1, <2>3, <3>1
      <3>2. CASE c # b
        BY <2>3, <3>2 DEF BuildInv
      <3> QED
        BY <3>1, <3>2
    <2>6. \A c \in Builders : Writing(c)' => directory'[building'[c].version] = Started
      BY <2>2, <2>3, <2>4 DEF BuildInv
    <2>7. \A c, d \in Builders :
            Writing(c)' /\ Writing(d)' /\ building'[c].version = building'[d].version => c = d
      BY <2>3, <2>4 DEF BuildInv
    <2> QED
      BY <2>2, <2>3, <2>5, <2>6, <2>7 DEF BuildInv
  <1>3. ASSUME NEW b \in Builders, MakeDirectory(b) PROVE BuildInv'
    <2> DEFINE v == building[b].version
    <2>1. CASE MayMake(v)
      <3>1. /\ directory[v] = Absent /\ directory' = [directory EXCEPT ![v] = Started]
            /\ building' = [building EXCEPT ![b] = [building[b] EXCEPT !.pc = "writing"]]
            /\ v \in Versions
        BY <1>3, <2>1 DEF MakeDirectory, MayMake, BuildInv
      <3>2. /\ directory' = [w \in Versions |-> directory'[w]]
            /\ directory'[v] = Started
            /\ \A w \in Versions : w # v => directory'[w] = directory[w]
        BY <3>1 DEF BuildInv
      <3>3. building'[b] = [pc |-> "writing", version |-> v,
                            added |-> building[b].added, dataset |-> building[b].dataset]
        BY <1>3, <3>1 DEF BuildInv, MakeDirectory
      <3>4. /\ building' = [c \in Builders |-> building'[c]]
            /\ \A c \in Builders : c # b => building'[c] = building[c]
        BY <3>1 DEF BuildInv
      <3>5. \A c \in Builders : Writing(c) => building[c].version # v
        BY <3>1, LearningAssumption DEF BuildInv
      <3>6. \A c \in Builders : Writing(c)' /\ c # b => Writing(c)
        BY <3>4 DEF Writing
      <3>7. \A c \in Builders : building'[c] # Absent =>
              /\ building'[c].version \in Versions
              /\ building'[c] = [pc |-> building'[c].pc, version |-> building'[c].version,
                                 added |-> building'[c].added, dataset |-> building'[c].dataset]
        BY <3>1, <3>3, <3>4 DEF BuildInv
      <3>8. \A c \in Builders : Writing(c)' => directory'[building'[c].version] = Started
        BY <3>2, <3>3, <3>4, <3>5, <3>6, <3>7 DEF BuildInv, Writing
      <3>9. \A c, d \in Builders :
              Writing(c)' /\ Writing(d)' /\ building'[c].version = building'[d].version => c = d
        BY <3>3, <3>4, <3>5, <3>6 DEF BuildInv
      <3> QED
        BY <3>2, <3>4, <3>7, <3>8, <3>9 DEF BuildInv
    <2>2. CASE ~MayMake(v)
      <3>1. directory' = directory /\ building' = [building EXCEPT ![b] = Absent]
        BY <1>3, <2>2 DEF MakeDirectory
      <3> QED
        BY <3>1 DEF BuildInv, Writing
    <2> QED
      BY <2>1, <2>2
  <1>4. ASSUME NEW b \in Builders, WriteVersion(b) PROVE BuildInv'
    <2> DEFINE v == building[b].version
    <2>1. PICK outcome : directory' = [directory EXCEPT ![v] = outcome]
      BY <1>4 DEF WriteVersion
    <2>2. /\ Writing(b) /\ v \in Versions
          /\ building' = [building EXCEPT ![b] = Absent]
      BY <1>4 DEF WriteVersion, Writing, BuildInv
    <2>3. /\ building' = [c \in Builders |-> building'[c]] /\ building'[b] = Absent
          /\ \A c \in Builders : c # b => building'[c] = building[c]
          /\ directory' = [w \in Versions |-> directory'[w]]
          /\ \A w \in Versions : w # v => directory'[w] = directory[w]
      BY <2>1, <2>2 DEF BuildInv
    <2>4. \A c \in Builders : Writing(c)' =>
             c # b /\ Writing(c) /\ building[c].version # v
      BY <2>2, <2>3 DEF Writing, BuildInv
    <2> QED
      BY <2>3, <2>4 DEF BuildInv, Writing
  <1>5. CASE LearningCrash
    BY <1>5 DEF LearningCrash, BuildInv, Writing
  <1> QED
    BY <1>1, <1>2, <1>3, <1>4, <1>5
       DEF LearningNext, SubmitFeedback, CheckDataset, AddDataset, learningVars

(* A version that was written stays as it is, whoever builds it again and   *)
(* whatever crashes (learning.build_dataset's mkdir and its clean-up).      *)
THEOREM VersionStays == LearningSpec => VersionIsImmutable
  <1> DEFINE Kept == \A v \in Versions :
                        directory[v] \notin {Absent, Started} => directory'[v] = directory[v]
  <1>1. BuildInv /\ [LearningNext]_learningVars => [Kept]_directory
    <2> SUFFICES ASSUME BuildInv, LearningNext, directory' # directory,
                        NEW v \in Versions, directory[v] \notin {Absent, Started}
                 PROVE  directory'[v] = directory[v]
      BY DEF learningVars
    <2>1. ASSUME NEW b \in Builders, MakeDirectory(b) PROVE directory'[v] = directory[v]
      BY <2>1 DEF MakeDirectory, MayMake, BuildInv
    <2>2. ASSUME NEW b \in Builders, WriteVersion(b) PROVE directory'[v] = directory[v]
      <3>1. building[b].version # v
        BY <2>2 DEF WriteVersion, BuildInv, Writing
      <3>2. PICK outcome : directory' = [directory EXCEPT ![building[b].version] = outcome]
        BY <2>2 DEF WriteVersion
      <3> QED
        BY <3>1, <3>2 DEF BuildInv
    <2> QED
      BY <2>1, <2>2 DEF LearningNext, SubmitFeedback, Collect, CheckDataset, AddDataset, LearningCrash
  <1> QED
    BY <1>1, BuildInit, BuildStep, PTL DEF LearningSpec, VersionIsImmutable

-----------------------------------------------------------------------------
(* A dataset whose registration is under way clashes with none in the store *)
(* and not with itself.                                                     *)
RegisterInv ==
    /\ registering = [r \in Registrars |-> registering[r]]
    /\ \A r \in Registrars : registering[r] # Absent =>
          /\ \A e \in registered : ~Clashes(registering[r], e)
          /\ ~Clashes(registering[r], registering[r])
    /\ TrainedNeverProtected

(* Inspection refuses a dataset that holds a group out of its own training. *)
LEMMA InspectedIsClean == ASSUME NEW d, Inspected(d) PROVE ~Clashes(d, d)
  BY DEF Inspected, Clashes, Groups, Train, Protected

(* With one registration at a time, no group is trained by one registered   *)
(* dataset and held out by another, in whatever order feedback is given,    *)
(* versions are built and datasets are registered (server.register). With   *)
(* two at a time it is not so: register compares and stores in two steps.   *)
THEOREM TrainedNeverProtectedHolds ==
    ASSUME \A r, s \in Registrars : r = s
    PROVE  LearningSpec => []TrainedNeverProtected
  <1>1. LearningInit => RegisterInv
    BY DEF LearningInit, RegisterInv, TrainedNeverProtected
  <1>2. RegisterInv /\ [LearningNext]_learningVars => RegisterInv'
    <2> SUFFICES ASSUME RegisterInv, [LearningNext]_learningVars PROVE RegisterInv'
      OBVIOUS
    <2>1. ASSUME UNCHANGED <<registered, registering>> PROVE RegisterInv'
      BY <2>1 DEF RegisterInv, TrainedNeverProtected
    <2>2. ASSUME NEW r \in Registrars, CheckDataset(r) PROVE RegisterInv'
      <3>1. PICK d : /\ Inspected(d) /\ ~\E e \in registered : Clashes(d, e)
                     /\ registering' = [registering EXCEPT ![r] = d]
        BY <2>2 DEF CheckDataset
      <3>2. registered' = registered
        BY <2>2 DEF CheckDataset
      <3> QED
        BY <3>1, <3>2, InspectedIsClean DEF RegisterInv, TrainedNeverProtected
    <2>3. ASSUME NEW r \in Registrars, AddDataset(r) PROVE RegisterInv'
      <3> DEFINE d == registering[r]
      <3>1. /\ d # Absent /\ registered' = registered \union {d}
            /\ registering' = [registering EXCEPT ![r] = Absent]
        BY <2>3 DEF AddDataset
      <3>2. \A s \in Registrars : registering'[s] = Absent
        BY <3>1 DEF RegisterInv
      <3>3. ~Clashes(d, d) /\ \A e \in registered : ~Clashes(d, e)
        BY <3>1 DEF RegisterInv
      <3>4. TrainedNeverProtected'
        BY <3>1, <3>3 DEF RegisterInv, TrainedNeverProtected, Clashes
      <3> QED
        BY <3>1, <3>2, <3>4 DEF RegisterInv
    <2>4. CASE LearningCrash
      BY <2>4 DEF LearningCrash, RegisterInv, TrainedNeverProtected
    <2> QED
      BY <2>1, <2>2, <2>3, <2>4 DEF LearningNext, SubmitFeedback, Collect, MakeDirectory,
                                    WriteVersion, learningVars
  <1>3. RegisterInv => TrainedNeverProtected
    BY DEF RegisterInv
  <1> QED
    BY <1>1, <1>2, <1>3, PTL DEF LearningSpec

-----------------------------------------------------------------------------
(* What a version adds to its base. *)

(* Answers are listed in the order of their first records.                  *)
LEMMA AnswersKnown ==
    ASSUME DatasetsFit PROVE AnswersInOrder \in Seq(DOMAIN Answers)
  <1> DEFINE First(n) == \A m \in 1..(n - 1) : corrected[m].answer # corrected[n].answer
             F == {m \in DOMAIN corrected : First(m)}
             Place(n) == CHOOSE m \in DOMAIN corrected :
                            First(m) /\ Cardinality({l \in 1..m : First(l)}) = n
  <1>1. /\ Len(corrected) \in Nat /\ DOMAIN corrected = 1..Len(corrected)
        /\ \A m \in DOMAIN corrected : corrected[m].answer \in DOMAIN Answers
    <2>1. \A m \in DOMAIN corrected :
             corrected[m] \in [answer : DOMAIN Answers, target : {k.target : k \in Corrections},
                               eligible : BOOLEAN]
      BY ElementOf DEF DatasetsFit
    <2>2. Len(corrected) \in Nat /\ DOMAIN corrected = 1..Len(corrected)
      BY DEF DatasetsFit
    <2>3. QED
      BY <2>1, <2>2
  <1>2. F \in SUBSET (1..Len(corrected))
    BY <1>1
  <1>3. \A m \in F : {l \in 1..m : First(l)} = F \intersect (1..m)
    <2> TAKE m \in F
    <2>1. 1..m \subseteq DOMAIN corrected
      BY <1>1
    <2>2. QED
      BY <2>1
  <1>4. \A m \in DOMAIN corrected : First(m) <=> m \in F
    OBVIOUS
  <1>5. AnswersInOrder = [n \in 1..Cardinality(F) |-> corrected[Place(n)].answer]
    BY DEF AnswersInOrder
  <1> HIDE DEF First, F
  <1>6. ASSUME NEW n \in 1..Cardinality(F) PROVE Place(n) \in DOMAIN corrected
    <2>1. \E m \in F : Cardinality(F \intersect (1..m)) = n
      BY <1>1, <1>2, CountReaches
    <2>2. \E m \in DOMAIN corrected : First(m) /\ Cardinality({l \in 1..m : First(l)}) = n
      BY <1>1, <1>2, <1>3, <1>4, <2>1
    <2>3. QED
      BY <2>2
  <1> HIDE DEF Place
  <1>7. Cardinality(F) \in Nat
    <2>1. IsFiniteSet(1..Len(corrected))
      BY <1>1, SegmentFinite
    <2>2. QED
      BY <1>2, <2>1, FS_Subset, FS_CardinalityType
  <1>8. QED
    BY <1>1, <1>5, <1>6, <1>7

(* What a batch becomes with the next answer.                               *)
Batched(batch, a) ==
    LET case == Answers[a].case
        example == <<case.context, LatestRecord(a).target>> IN
    IF /\ LatestRecord(a).eligible /\ case.group \notin ProtectedGroups
       /\ ~\E b \in Range(batch) :
             example = <<Answers[b].case.context, LatestRecord(b).target>>
       /\ Cardinality({b \in Range(batch) : Answers[b].case.family = case.family})
             < MaxPerFamily
    THEN Append(batch, a) ELSE batch

(* The batch as a fold.                                                     *)
LEMMA BatchIsFold ==
    BatchRecords =
        (CHOOSE g : g = [s \in SUBSET DOMAIN AnswersInOrder |->
            IF s = {} THEN <<>> ELSE Batched(g[s \ {Max(s)}], AnswersInOrder[Max(s)])])
        [DOMAIN AnswersInOrder]
  BY DEF BatchRecords, FoldLeft, MapThenFoldSet, Batched

(* A batch is of answers.                                                   *)
LEMMA BatchKnown ==
    ASSUME DatasetsFit PROVE BatchRecords \in Seq(DOMAIN Answers)
  <1> DEFINE A == AnswersInOrder
             n == Len(A)
             V == Seq(DOMAIN Answers)
             step == [p \in V \X (1..n) |-> Batched(p[1], A[p[2]])]
             Equation(g) == g = [s \in SUBSET DOMAIN A |->
                                    IF s = {} THEN <<>> ELSE Batched(g[s \ {Max(s)}], A[Max(s)])]
  <1>1. A \in Seq(DOMAIN Answers) /\ n \in Nat /\ DOMAIN A = 1..n
    BY AnswersKnown
  <1>2. \A i \in 1..n : A[i] \in DOMAIN Answers
    BY <1>1
  <1> HIDE DEF A, n
  <1>3. ASSUME NEW v \in V, NEW i \in 1..n PROVE Batched(v, A[i]) \in V
    <2>1. Batched(v, A[i]) = v \/ Batched(v, A[i]) = Append(v, A[i])
      BY DEF Batched
    <2>2. Append(v, A[i]) \in V
      BY <1>2
    <2>3. QED
      BY <2>1, <2>2
  <1>4. \A v \in V, i \in 1..n : step[<<v, i>>] = Batched(v, A[i]) /\ step[<<v, i>>] \in V
    BY <1>3
  <1> HIDE DEF step
  <1>5. <<>> \in V
    OBVIOUS
  <1> HIDE DEF V
  <1>6. PICK h \in [SUBSET (1..n) -> V] : Folds(h, <<>>, step, n)
    BY <1>1, <1>4, <1>5, FoldExists
  <1>7. Equation(h)
    <2>1. ASSUME NEW s \in SUBSET (1..n), s # {}
          PROVE  step[<<h[s \ {Max(s)}], Max(s)>>] = Batched(h[s \ {Max(s)}], A[Max(s)])
      <3>1. Max(s) \in 1..n /\ s \ {Max(s)} \in SUBSET (1..n)
        BY <1>1, <2>1, MaxOf
      <3>2. h[s \ {Max(s)}] \in V
        BY <1>6, <3>1
      <3>3. QED
        BY <1>4, <3>1, <3>2
    <2>2. h = [s \in SUBSET (1..n) |->
                  IF s = {} THEN <<>> ELSE Batched(h[s \ {Max(s)}], A[Max(s)])]
      BY <1>6, <2>1 DEF Folds
    <2>3. QED
      BY <1>1, <2>2
  <1>8. PICK g : Equation(g) /\ BatchRecords = g[DOMAIN A]
    <2>1. BatchRecords = (CHOOSE g : Equation(g))[DOMAIN A]
      BY BatchIsFold DEF A
    <2> HIDE DEF Equation
    <2>2. QED
      BY <1>7, <2>1
  <1>9. g[{}] \in V
    BY <1>5, <1>8
  <1>10. ASSUME NEW k \in 1..n, g[1..(k - 1)] \in V PROVE g[1..k] \in V
    <2>1. 1..k \in SUBSET (1..n) /\ 1..k # {} /\ Max(1..k) = k /\ (1..k) \ {k} = 1..(k - 1)
      BY <1>1, LastOfFirst
    <2>2. g[1..k] = Batched(g[1..(k - 1)], A[k])
      BY <1>1, <1>8, <2>1
    <2>3. QED
      BY <1>4, <1>10, <2>2
  <1>11. g[1..n] \in V
    BY <1>1, <1>9, <1>10, FoldHolds
  <1>12. QED
    BY <1>1, <1>8, <1>11 DEF V

-----------------------------------------------------------------------------
(* Cases that feedback may become.                                          *)
FeedbackCase == UNION {CaseFamily(a) : a \in DOMAIN Answers}
Room(base) == (Percent * Cardinality(Train(base))) \div (100 - Percent)

(* What may be added to a dataset: no more cases than there is room for, all *)
(* for training and new, questions with their paraphrases.                  *)
Additions(base) ==
    {new \in SUBSET FeedbackCase :
        /\ IsFiniteSet(new) /\ Cardinality(new) <= Room(base)
        /\ new \intersect base.cases = {}
        /\ \A c \in new : c.split = "train"
        /\ Whole(new)}

(* What a correction adds is a question with its paraphrases.               *)
LEMMA FamilyShape ==
    ASSUME NEW a \in DOMAIN Answers
    PROVE  /\ IsFiniteSet(CaseFamily(a)) /\ Cardinality(CaseFamily(a)) \in Nat
           /\ \A c \in CaseFamily(a) : /\ c.split = "train"
                                       /\ <<c.id[1], 0>> = Answers[a].case.id
           /\ \E c \in CaseFamily(a) : c.id = Answers[a].case.id
  <1> DEFINE case == Answers[a].case
             wording(n) == [case EXCEPT !.id = <<@[1], n>>, !.context = <<@[1], n>>, !.split = "train"]
             f == [n \in 0..Paraphrases[a] |-> wording(n)]
  <1>1. /\ Paraphrases[a] \in Nat /\ {"id", "context", "split"} \subseteq DOMAIN case
        /\ case.id = <<case.id[1], 0>>
    BY LearningAssumption DEF LearningAssumption, AsAsked
  <1>2. CaseFamily(a) = {wording(n) : n \in 0..Paraphrases[a]}
    BY DEF CaseFamily
  <1>3. \A n \in 0..Paraphrases[a] : wording(n).id = <<case.id[1], n>> /\ wording(n).split = "train"
    BY <1>1
  <1> HIDE DEF wording
  <1>4. f \in Surjection(0..Paraphrases[a], CaseFamily(a))
    BY <1>2 DEF Surjection
  <1>5. IsFiniteSet(CaseFamily(a))
    <2>1. IsFiniteSet(0..Paraphrases[a])
      BY <1>1, SegmentFinite
    <2>2. QED
      BY <1>4, <2>1, FS_Surjection
  <1>6. Cardinality(CaseFamily(a)) \in Nat
    BY <1>5, FS_CardinalityType
  <1>7. \A c \in CaseFamily(a) : c.split = "train" /\ <<c.id[1], 0>> = case.id
    <2> TAKE c \in CaseFamily(a)
    <2>1. PICK n \in 0..Paraphrases[a] : c = wording(n)
      BY <1>2
    <2>2. c.id = <<case.id[1], n>> /\ c.split = "train"
      BY <1>3, <2>1
    <2>3. c.id[1] = case.id[1]
      BY <2>2
    <2>4. QED
      BY <1>1, <2>2, <2>3
  <1>8. \E c \in CaseFamily(a) : c.id = case.id
    <2>1. 0 \in 0..Paraphrases[a]
      BY <1>1
    <2>2. wording(0) \in CaseFamily(a) /\ wording(0).id = case.id
      BY <1>1, <1>2, <1>3, <2>1
    <2>3. QED
      BY <2>2
  <1>9. QED
    BY <1>5, <1>6, <1>7, <1>8

(* What the cases to add become with the next correction.                   *)
Extended(base, added, a) ==
    LET limit == (Percent * Cardinality(Train(base))) \div (100 - Percent)
        case == Answers[a].case
        taken == base.cases \union added IN
    IF /\ Answers[a].lineage /\ case.asOf < base.cutoff
       /\ \A c \in taken : c.id # case.id /\ c.context # case.context
       /\ Fits(added, CaseFamily(a), limit)
    THEN added \union CaseFamily(a) ELSE added

(* The cases to add as a fold.                                              *)
LEMMA CasesAreFold ==
    ASSUME NEW base
    PROVE  FeedbackCases(base) =
             (CHOOSE g : g = [s \in SUBSET DOMAIN Reverse(BatchRecords) |->
                IF s = {} THEN {} ELSE Extended(base, g[s \ {Max(s)}], Reverse(BatchRecords)[Max(s)])])
             [DOMAIN Reverse(BatchRecords)]
  BY DEF FeedbackCases, FoldLeft, MapThenFoldSet, Extended

(* There is room for a number of cases.                                     *)
LEMMA RoomIsNat ==
    ASSUME NEW base, IsFiniteSet(base.cases) PROVE Room(base) \in Nat
  <1>1. Cardinality(Train(base)) \in Nat
    BY FS_Subset, FS_CardinalityType DEF Train
  <1>2. Percent \in Nat /\ 100 - Percent \in Nat \ {0}
    BY LearningAssumption DEF LearningAssumption
  <1>3. Percent * Cardinality(Train(base)) \in Nat
    BY <1>1, <1>2
  <1>4. \A x \in Nat : \A y \in Nat \ {0} : x \div y \in Nat
    OBVIOUS
  <1>5. QED
    BY <1>2, <1>3, <1>4 DEF Room

(* A correction leaves what is added within these bounds.                   *)
LEMMA ExtendedFits ==
    ASSUME NEW base, Fine(base), NEW added \in Additions(base), NEW a \in DOMAIN Answers
    PROVE  Extended(base, added, a) \in Additions(base)
  <1> DEFINE family == CaseFamily(a)
             case == Answers[a].case
  <1> SUFFICES ASSUME \A c \in base.cases \union added : c.id # case.id,
                      Fits(added, family, Room(base))
               PROVE  added \union family \in Additions(base)
    BY DEF Extended, Room
  <1>1. /\ IsFiniteSet(family) /\ Cardinality(family) \in Nat
        /\ \A c \in family : c.split = "train" /\ <<c.id[1], 0>> = case.id
        /\ \E c \in family : c.id = case.id
    BY FamilyShape
  <1>2. /\ added \in SUBSET FeedbackCase
        /\ IsFiniteSet(added) /\ Cardinality(added) <= Room(base)
        /\ added \intersect base.cases = {}
        /\ \A c \in added : c.split = "train"
        /\ Whole(added)
    BY DEF Additions
  <1>3. family \subseteq FeedbackCase
    BY DEF FeedbackCase
  <1>4. IsFiniteSet(added \union family) /\ Cardinality(added \union family) <= Room(base)
    <2>1. /\ IsFiniteSet(added \union family)
          /\ Cardinality(added \union family)
                = Cardinality(added) + Cardinality(family) - Cardinality(added \intersect family)
      BY <1>1, <1>2, FS_Union
    <2>2. Cardinality(added) \in Nat /\ Cardinality(added \intersect family) \in Nat
      BY <1>2, FS_Subset, FS_CardinalityType
    <2>3. Room(base) \in Nat
      BY RoomIsNat DEF Fine
    <2>4. Cardinality(added) + Cardinality(family) <= Room(base)
      BY DEF Fits
    <2>5. QED
      BY <1>1, <2>1, <2>2, <2>3, <2>4
  <1>5. family \intersect base.cases = {}
    <2> SUFFICES ASSUME NEW c \in family, c \in base.cases PROVE FALSE
      OBVIOUS
    <2>1. PICK d \in base.cases : d.id = <<c.id[1], 0>>
      BY DEF Fine, Whole
    <2>2. d.id = case.id
      BY <1>1, <2>1
    <2>3. QED
      BY <2>2
  <1>6. Whole(added \union family)
    <2>1. Whole(family)
      BY <1>1 DEF Whole
    <2>2. QED
      BY <1>2, <2>1 DEF Whole
  <1>7. QED
    BY <1>1, <1>2, <1>3, <1>4, <1>5, <1>6 DEF Additions

(* Whatever feedback there is, what is added to a dataset stays in bounds.  *)
LEMMA FeedbackFits ==
    ASSUME DatasetsFit, NEW base, Fine(base)
    PROVE  FeedbackCases(base) \in Additions(base)
  <1> DEFINE A == Reverse(BatchRecords)
             n == Len(BatchRecords)
             V == Additions(base)
             step == [p \in V \X (1..n) |-> Extended(base, p[1], A[p[2]])]
             Equation(g) == g = [s \in SUBSET DOMAIN A |->
                                    IF s = {} THEN {} ELSE Extended(base, g[s \ {Max(s)}], A[Max(s)])]
  <1>1. n \in Nat /\ DOMAIN A = 1..n /\ \A i \in 1..n : A[i] \in DOMAIN Answers
    <2>1. BatchRecords \in Seq(DOMAIN Answers) /\ n \in Nat
      BY BatchKnown
    <2>2. ASSUME NEW i \in 1..n PROVE A[i] \in DOMAIN Answers
      <3>1. n - i + 1 \in DOMAIN BatchRecords
        BY <2>1
      <3>2. A[i] = BatchRecords[n - i + 1]
        BY DEF Reverse
      <3>3. QED
        BY <2>1, <3>1, <3>2, ElementOf
    <2>3. DOMAIN A = 1..n
      BY DEF Reverse
    <2>4. QED
      BY <2>1, <2>2, <2>3
  <1> HIDE DEF A, n
  <1>2. \A v \in V, i \in 1..n : Extended(base, v, A[i]) \in V
    BY <1>1, ExtendedFits
  <1>3. \A v \in V, i \in 1..n : step[<<v, i>>] = Extended(base, v, A[i]) /\ step[<<v, i>>] \in V
    BY <1>2
  <1> HIDE DEF step
  <1>4. {} \in V
    <2>1. IsFiniteSet({}) /\ Cardinality({}) = 0
      BY FS_EmptySet
    <2>2. Room(base) \in Nat
      BY RoomIsNat DEF Fine
    <2>3. QED
      BY <2>1, <2>2 DEF Additions, Whole
  <1> HIDE DEF V
  <1>5. PICK h \in [SUBSET (1..n) -> V] : Folds(h, {}, step, n)
    BY <1>1, <1>3, <1>4, FoldExists
  <1>6. Equation(h)
    <2>1. ASSUME NEW s \in SUBSET (1..n), s # {}
          PROVE  step[<<h[s \ {Max(s)}], Max(s)>>] = Extended(base, h[s \ {Max(s)}], A[Max(s)])
      <3>1. Max(s) \in 1..n /\ s \ {Max(s)} \in SUBSET (1..n)
        BY <1>1, <2>1, MaxOf
      <3>2. h[s \ {Max(s)}] \in V
        BY <1>5, <3>1
      <3>3. QED
        BY <1>3, <3>1, <3>2
    <2>2. h = [s \in SUBSET (1..n) |->
                  IF s = {} THEN {} ELSE Extended(base, h[s \ {Max(s)}], A[Max(s)])]
      BY <1>5, <2>1 DEF Folds
    <2>3. QED
      BY <1>1, <2>2
  <1>7. PICK g : Equation(g) /\ FeedbackCases(base) = g[DOMAIN A]
    <2>1. FeedbackCases(base) = (CHOOSE g : Equation(g))[DOMAIN A]
      BY CasesAreFold DEF A
    <2> HIDE DEF Equation
    <2>2. QED
      BY <1>6, <2>1
  <1>8. g[{}] \in V
    BY <1>4, <1>7
  <1>9. ASSUME NEW k \in 1..n, g[1..(k - 1)] \in V PROVE g[1..k] \in V
    <2>1. 1..k \in SUBSET (1..n) /\ 1..k # {} /\ Max(1..k) = k /\ (1..k) \ {k} = 1..(k - 1)
      BY <1>1, LastOfFirst
    <2>2. g[1..k] = Extended(base, g[1..(k - 1)], A[k])
      BY <1>1, <1>7, <2>1
    <2>3. QED
      BY <1>2, <1>9, <2>2
  <1>10. g[1..n] \in V
    BY <1>1, <1>8, <1>9, FoldHolds
  <1>11. QED
    BY <1>1, <1>7, <1>10 DEF V

(* No more than the room there is, is no more than the fraction of what     *)
(* becomes of the training cases.                                           *)
LEMMA RoomIsShare ==
    ASSUME NEW P \in 1..99, NEW b \in Nat, NEW k \in Nat, k <= (P * b) \div (100 - P)
    PROVE  100 * k <= P * (b + k)
  <1> DEFINE r == (P * b) \div (100 - P)
             q == 100 - P
  <1>1. q \in Nat \ {0} /\ P * b \in Nat
    OBVIOUS
  <1>2. \A x \in Nat : \A y \in Nat \ {0} : x \div y \in Nat /\ y * (x \div y) <= x
    OBVIOUS
  <1>3. r \in Nat /\ q * r <= P * b
    BY <1>1, <1>2
  <1>4. q * k <= q * r
    BY <1>1, <1>3
  <1>5. q * k = 100 * k - P * k
    OBVIOUS
  <1>6. P * (b + k) = P * b + P * k
    OBVIOUS
  <1>7. P * k \in Nat /\ q * k \in Nat /\ q * r \in Nat
    BY <1>1, <1>3
  <1> HIDE DEF q, r
  <1>8. QED
    BY <1>1, <1>3, <1>4, <1>5, <1>6, <1>7

(* Where each paraphrase has its question in two sets, it has it in both.   *)
LEMMA WholeTogether ==
    ASSUME NEW A, Whole(A), NEW B, Whole(B)
    PROVE  Whole(A \union B)
  <1>1. \A c \in A : \E d \in A : d.id = <<c.id[1], 0>>
    BY DEF Whole
  <1>2. \A c \in B : \E d \in B : d.id = <<c.id[1], 0>>
    BY DEF Whole
  <1>3. QED
    BY <1>1, <1>2, Zenon DEF Whole

(* A version is its base with what is added, which is its fraction of it.   *)
LEMMA VersionShare ==
    ASSUME DatasetsFit, NEW base, Fine(base), NEW added, added = FeedbackCases(base),
           NEW dataset, dataset.cases = base.cases \union added
    PROVE  /\ Fine(dataset)
           /\ 100 * Cardinality(added) <= Percent * Cardinality(Train(dataset))
  <1>1. /\ IsFiniteSet(added) /\ Cardinality(added) <= Room(base)
        /\ added \intersect base.cases = {}
        /\ \A c \in added : c.split = "train"
        /\ Whole(added)
    BY FeedbackFits DEF Additions
  <1>2. Fine(dataset)
    <2>1. IsFiniteSet(dataset.cases)
      BY <1>1, UnionFinite, SMTT(30) DEF Fine
    <2>2. Whole(dataset.cases)
      <3>1. Whole(base.cases) /\ Whole(added)
        BY <1>1 DEF Fine
      <3>2. QED
        BY <3>1, WholeTogether
    <2>3. QED
      BY <2>1, <2>2 DEF Fine
  <1>3. Train(dataset) = Train(base) \union added /\ Train(base) \intersect added = {}
    BY <1>1 DEF Train
  <1>4. IsFiniteSet(Train(base)) /\ Cardinality(Train(base)) \in Nat /\ Cardinality(added) \in Nat
    BY <1>1, FS_Subset, FS_CardinalityType DEF Train, Fine
  <1>5. Cardinality(Train(dataset)) = Cardinality(Train(base)) + Cardinality(added)
    <2>1. Cardinality(Train(base) \union added)
             = Cardinality(Train(base)) + Cardinality(added) - Cardinality(Train(base) \intersect added)
      BY <1>1, <1>4, FS_Union
    <2>2. Cardinality(Train(base) \intersect added) = 0
      BY <1>3, FS_EmptySet
    <2>3. QED
      BY <1>3, <1>4, <2>1, <2>2
  <1>6. Percent \in 1..99
    BY LearningAssumption DEF LearningAssumption
  <1>7. 100 * Cardinality(added) <= Percent * (Cardinality(Train(base)) + Cardinality(added))
    BY <1>1, <1>4, <1>6, RoomIsShare DEF Room
  <1>8. QED
    BY <1>2, <1>5, <1>7

(* What the datasets are, wherever they are kept: all that is registered or *)
(* about to be was made by people or written by a build, and each build     *)
(* adds no more than its share.                                             *)
FeedbackInv ==
    /\ LearningTypeOK
    /\ DatasetsFit
    /\ FeedbackShare
    /\ registered \subseteq OnDisk
    /\ registering = [r \in Registrars |-> registering[r]]
    /\ \A r \in Registrars : registering[r] # Absent => registering[r] \in OnDisk

(* Nothing is built or registered at first.                                 *)
LEMMA FeedbackInit == LearningInit => FeedbackInv
  <1> SUFFICES ASSUME LearningInit PROVE FeedbackInv
    OBVIOUS
  <1>1. /\ registered = {} /\ corrected = <<>>
        /\ \A v \in Versions : directory[v] = Absent
        /\ \A b \in Builders : building[b] = Absent
        /\ registering = [r \in Registrars |-> Absent]
    BY DEF LearningInit
  <1>2. OnDisk = Curated
    BY <1>1 DEF OnDisk
  <1>3. \A d \in Curated : Fine(d)
    BY LearningAssumption DEF LearningAssumption, Fine, Whole, AsAsked
  <1>4. DatasetsFit
    BY <1>1, <1>2, <1>3 DEF DatasetsFit
  <1>5. LearningTypeOK /\ FeedbackShare
    BY <1>1 DEF LearningTypeOK, FeedbackShare
  <1>6. QED
    BY <1>1, <1>2, <1>4, <1>5 DEF FeedbackInv

(* Every step keeps it.                                                     *)
LEMMA FeedbackStep ==
    ASSUME BuildInv, FeedbackInv, [LearningNext]_learningVars PROVE FeedbackInv'
  <1> DEFINE FeedbackRecord == [answer : DOMAIN Answers, target : {k.target : k \in Corrections},
                        eligible : BOOLEAN]
             Gathered(b) ==
                /\ building[b].pc \in {"collected", "writing"}
                /\ Fine(building[b].dataset)
                /\ 100 * Cardinality(building[b].added)
                      <= Percent * Cardinality(Train(building[b].dataset))
  <1>1. /\ corrected \in Seq(FeedbackRecord)
        /\ \A n \in DOMAIN corrected : corrected[n].answer \in DOMAIN Answers
        /\ \A d \in registered \union OnDisk : Fine(d)
        /\ \A b \in Builders : building[b] # Absent => Gathered(b)
        /\ \A r \in Registrars : registering[r] # Absent =>
              Fine(registering[r]) /\ registering[r] \in OnDisk
        /\ registered \subseteq OnDisk
        /\ registering = [r \in Registrars |-> registering[r]]
    BY DEF FeedbackInv, LearningTypeOK, DatasetsFit, FeedbackShare
  <1>2. ASSUME corrected' \in Seq(FeedbackRecord),
               \A n \in DOMAIN corrected' : corrected'[n].answer \in DOMAIN Answers,
               \A d \in OnDisk' : Fine(d), registered' \subseteq OnDisk',
               \A b \in Builders : building'[b] # Absent => Gathered(b)',
               registering' = [r \in Registrars |-> registering'[r]],
               \A r \in Registrars : registering'[r] # Absent => registering'[r] \in OnDisk'
        PROVE  FeedbackInv'
    <2>1. \A d \in (registered \union OnDisk)' : Fine(d)
      BY <1>2
    <2>2. DatasetsFit'
      BY <1>2, <2>1 DEF DatasetsFit, Fine, Whole
    <2>3. LearningTypeOK'
      <3>1. OnDisk' \subseteq Curated \union {directory'[v] : v \in Versions}
        BY DEF OnDisk
      <3>2. QED
        BY <1>2, <3>1 DEF LearningTypeOK
    <2>4. FeedbackShare'
      BY <1>2 DEF FeedbackShare, Train
    <2>5. QED
      BY <1>2, <2>2, <2>3, <2>4 DEF FeedbackInv
  <1>3. directory' = directory => OnDisk' = OnDisk
    BY DEF OnDisk
  <1>4. ASSUME NEW b \in Builders, building'[b] = building[b]
        PROVE  building'[b] # Absent => Gathered(b)'
    BY <1>1, <1>4, ZenonT(40) DEF Fine, Whole, Train
  <1> HIDE DEF FeedbackRecord, Gathered
  <1>5. CASE UNCHANGED learningVars
    BY <1>1, <1>2, <1>3, <1>4, <1>5 DEF learningVars
  <1>6. CASE SubmitFeedback
    <2>1. PICK a \in DOMAIN Answers, k \in Corrections :
             corrected' = Append(corrected, [answer |-> a, target |-> k.target,
                                             eligible |-> Eligible(Answers[a], k)])
      BY <1>6 DEF SubmitFeedback
    <2>2. Eligible(Answers[a], k) \in BOOLEAN
      BY DEF Eligible
    <2>3. [answer |-> a, target |-> k.target, eligible |-> Eligible(Answers[a], k)] \in FeedbackRecord
      BY <2>2 DEF FeedbackRecord
    <2>4. corrected' \in Seq(FeedbackRecord)
      BY <1>1, <2>1, <2>3
    <2>5. \A n \in DOMAIN corrected' : corrected'[n].answer \in DOMAIN Answers
      <3> TAKE n \in DOMAIN corrected'
      <3>1. corrected'[n] \in FeedbackRecord
        BY <2>4, ElementOf
      <3>2. QED
        BY <3>1 DEF FeedbackRecord
    <2>6. QED
      BY <1>1, <1>2, <1>3, <1>4, <1>6, <2>4, <2>5 DEF SubmitFeedback
  <1>7. ASSUME NEW b \in Builders, Collect(b) PROVE FeedbackInv'
    <2>1. \E v \in Versions, base \in registered :
             building' = [building EXCEPT ![b] =
               [pc |-> "collected", version |-> v, added |-> FeedbackCases(base),
                dataset |-> [cutoff |-> base.cutoff,
                             cases |-> base.cases \union FeedbackCases(base)]]]
      BY <1>7 DEF Collect
    <2>2. PICK v \in Versions, base \in registered :
             building' = [building EXCEPT ![b] =
               [pc |-> "collected", version |-> v, added |-> FeedbackCases(base),
                dataset |-> [cutoff |-> base.cutoff,
                             cases |-> base.cases \union FeedbackCases(base)]]]
      BY <2>1
    <2> DEFINE added == FeedbackCases(base)
               made == [cutoff |-> base.cutoff, cases |-> base.cases \union added]
    <2>3. Fine(made) /\ 100 * Cardinality(added) <= Percent * Cardinality(Train(made))
      <3>1. DatasetsFit /\ Fine(base)
        BY <1>1 DEF FeedbackInv
      <3>2. made.cases = base.cases \union added
        OBVIOUS
      <3> HIDE DEF made
      <3>3. QED
        BY <3>1, <3>2, VersionShare
    <2>4. /\ building'[b] = [pc |-> "collected", version |-> v, added |-> added, dataset |-> made]
          /\ \A c \in Builders : c # b => building'[c] = building[c]
      BY <2>2 DEF BuildInv
    <2> HIDE DEF added, made
    <2>5. Gathered(b)'
      <3>1. /\ building'[b].pc = "collected" /\ building'[b].added = added
            /\ building'[b].dataset = made
        BY <2>4
      <3>2. /\ Fine(building'[b].dataset)
            /\ 100 * Cardinality(building'[b].added)
                  <= Percent * Cardinality(Train(building'[b].dataset))
        BY <2>3, <3>1
      <3>3. QED
        BY <3>1, <3>2 DEF Gathered, Fine, Whole, Train
    <2>6. \A c \in Builders : building'[c] # Absent => Gathered(c)'
      BY <1>4, <2>4, <2>5
    <2>7. QED
      BY <1>1, <1>2, <1>3, <1>7, <2>6 DEF Collect
  <1>8. ASSUME NEW b \in Builders, MakeDirectory(b) PROVE FeedbackInv'
    <2> DEFINE v == building[b].version
    <2>1. OnDisk' = OnDisk
      <3>1. CASE MayMake(v)
        <4>1. directory' = [directory EXCEPT ![v] = Started] /\ directory[v] = Absent
          BY <1>8, <3>1 DEF MakeDirectory, MayMake
        <4>2. \A w \in Versions : directory[w] \notin {Absent, Started} =>
                 w # v /\ directory'[w] = directory[w]
          BY <4>1 DEF BuildInv
        <4>3. \A w \in Versions : directory'[w] \notin {Absent, Started} =>
                 directory'[w] = directory[w]
          BY <4>1 DEF BuildInv
        <4>4. QED
          BY <4>2, <4>3 DEF OnDisk
      <3>2. CASE ~MayMake(v)
        BY <1>3, <1>8, <3>2 DEF MakeDirectory
      <3>3. QED
        BY <3>1, <3>2
    <2>2. /\ building'[b] = Absent \/ building'[b] = [building[b] EXCEPT !.pc = "writing"]
          /\ \A c \in Builders : c # b => building'[c] = building[c]
      BY <1>8 DEF MakeDirectory, BuildInv
    <2>3. building[b] # Absent /\ Gathered(b)
      BY <1>1, <1>8 DEF MakeDirectory
    <2>4. building'[b] # Absent => Gathered(b)'
      <3> SUFFICES ASSUME building'[b] # Absent PROVE Gathered(b)'
        OBVIOUS
      <3>1. building[b] = [pc |-> building[b].pc, version |-> building[b].version,
                           added |-> building[b].added, dataset |-> building[b].dataset]
        BY <2>3 DEF BuildInv
      <3>2. building'[b] = [building[b] EXCEPT !.pc = "writing"]
        BY <2>2
      <3>3. /\ building'[b].pc = "writing" /\ building'[b].added = building[b].added
            /\ building'[b].dataset = building[b].dataset
        BY <3>1, <3>2
      <3>4. QED
        BY <2>3, <3>3 DEF Gathered, Fine, Whole, Train
    <2>5. \A c \in Builders : building'[c] # Absent => Gathered(c)'
      BY <1>4, <2>2, <2>4
    <2>6. QED
      BY <1>1, <1>2, <1>8, <2>1, <2>5 DEF MakeDirectory
  <1>9. ASSUME NEW b \in Builders, WriteVersion(b) PROVE FeedbackInv'
    <2> DEFINE v == building[b].version
               d == building[b].dataset
    <2>1. building[b] # Absent /\ Gathered(b) /\ v \in Versions /\ directory[v] = Started
      BY <1>1, <1>9 DEF WriteVersion, BuildInv, Writing
    <2>2. PICK outcome \in {Absent, d} : directory' = [directory EXCEPT ![v] = outcome]
      BY <1>9 DEF WriteVersion
    <2>3. \A w \in Versions : w # v => directory'[w] = directory[w]
      BY <2>2 DEF BuildInv
    <2>4. directory'[v] = outcome
      BY <2>1, <2>2 DEF BuildInv
    <2>5. OnDisk \subseteq OnDisk'
      BY <2>1, <2>3 DEF OnDisk
    <2>6. OnDisk' \subseteq OnDisk \union {d}
      BY <2>2, <2>3, <2>4 DEF OnDisk
    <2>7. \A e \in OnDisk' : Fine(e)
      BY <1>1, <2>1, <2>6 DEF Gathered
    <2>8. building'[b] = Absent /\ \A c \in Builders : c # b => building'[c] = building[c]
      BY <1>9 DEF WriteVersion, BuildInv
    <2>9. \A c \in Builders : building'[c] # Absent => Gathered(c)'
      BY <1>4, <2>8
    <2>10. QED
      BY <1>1, <1>2, <1>9, <2>5, <2>7, <2>9 DEF WriteVersion
  <1>10. ASSUME NEW r \in Registrars, CheckDataset(r) PROVE FeedbackInv'
    <2>1. PICK d \in OnDisk : registering' = [registering EXCEPT ![r] = d]
      BY <1>10 DEF CheckDataset
    <2>2. /\ registering' = [s \in Registrars |-> registering'[s]]
          /\ \A s \in Registrars : registering'[s] = registering[s] \/ registering'[s] = d
      BY <1>1, <2>1
    <2>3. QED
      BY <1>1, <1>2, <1>3, <1>4, <1>10, <2>1, <2>2 DEF CheckDataset
  <1>11. ASSUME NEW r \in Registrars, AddDataset(r) PROVE FeedbackInv'
    <2>1. registered' \subseteq OnDisk
      BY <1>1, <1>11 DEF AddDataset
    <2>2. /\ registering' = [s \in Registrars |-> registering'[s]]
          /\ \A s \in Registrars : registering'[s] = registering[s] \/ registering'[s] = Absent
      BY <1>1, <1>11 DEF AddDataset
    <2>3. QED
      BY <1>1, <1>2, <1>3, <1>4, <1>11, <2>1, <2>2 DEF AddDataset
  <1>12. CASE LearningCrash
    <2>1. /\ \A b \in Builders : building'[b] = Absent
          /\ registering' = [r \in Registrars |-> Absent]
      BY <1>12 DEF LearningCrash
    <2>2. QED
      BY <1>1, <1>2, <1>3, <1>12, <2>1 DEF LearningCrash
  <1>13. QED
    BY <1>5, <1>6, <1>7, <1>8, <1>9, <1>10, <1>11, <1>12 DEF LearningNext

(* The inductive invariant of the datasets, for any number of corrections,  *)
(* builders, registrations and crashes.                                     *)
THEOREM LearningInvariant == LearningSpec => [](LearningTypeOK /\ DatasetsFit)
  <1>1. FeedbackInv => LearningTypeOK /\ DatasetsFit
    BY DEF FeedbackInv
  <1>2. QED
    BY <1>1, BuildInit, BuildStep, FeedbackInit, FeedbackStep, PTL DEF LearningSpec

(* What a version adds is at most feedback_fraction of its training cases,  *)
(* whatever corrections, paraphrases and datasets there are (build_dataset).*)
THEOREM FeedbackShareHolds == LearningSpec => []FeedbackShare
  <1>1. FeedbackInv => FeedbackShare
    BY DEF FeedbackInv
  <1>2. QED
    BY <1>1, BuildInit, BuildStep, FeedbackInit, FeedbackStep, PTL DEF LearningSpec

-----------------------------------------------------------------------------
(* Jobs of the gates. *)

(* Two jobs more. *)
LEMMA PairQueued ==
    ASSUME NEW R, NEW s \in Seq(R), NEW b \in R, NEW c \in R
    PROVE  /\ s \o <<b, c>> \in Seq(R)
           /\ DOMAIN (s \o <<b, c>>) = DOMAIN s \union {Len(s) + 1, Len(s) + 2}
           /\ \A n \in DOMAIN s : (s \o <<b, c>>)[n] = s[n]
           /\ (s \o <<b, c>>)[Len(s) + 1] = b /\ (s \o <<b, c>>)[Len(s) + 2] = c
  OBVIOUS

(* One job more. *)
LEMMA JobQueued ==
    ASSUME NEW R, NEW s \in Seq(R), NEW c \in R
    PROVE  /\ s \o <<c>> \in Seq(R)
           /\ DOMAIN (s \o <<c>>) = DOMAIN s \union {Len(s) + 1}
           /\ \A n \in DOMAIN s : (s \o <<c>>)[n] = s[n]
           /\ (s \o <<c>>)[Len(s) + 1] = c
  OBVIOUS

(* Every base evaluation of a queue is followed by a job.                   *)
PairsComplete(s) == \A n \in DOMAIN s : IsBase(s[n]) => n + 1 \in DOMAIN s

(* A queue stays so without its first job, and one that starts with a base  *)
(* evaluation has more than that.                                           *)
LEMMA TailComplete ==
    ASSUME NEW R, NEW s \in Seq(R), s # <<>>, PairsComplete(s)
    PROVE  /\ PairsComplete(Tail(s))
           /\ IsBase(Head(s)) => Tail(s) # <<>>
  <1>1. ASSUME NEW n \in DOMAIN Tail(s), IsBase(Tail(s)[n]) PROVE n + 1 \in DOMAIN Tail(s)
    <2>1. n + 1 \in DOMAIN s /\ Tail(s)[n] = s[n + 1]
      BY HeadAndTail
    <2>2. (n + 1) + 1 \in DOMAIN s
      BY <1>1, <2>1 DEF PairsComplete
    <2>3. n \in Nat
      BY <2>1, HeadAndTail
    <2>4. QED
      BY <2>2, <2>3, HeadAndTail
  <1>2. ASSUME IsBase(Head(s)) PROVE Tail(s) # <<>>
    <2>1. 2 \in DOMAIN s
      BY <1>2, HeadAndTail DEF PairsComplete
    <2>2. Len(Tail(s)) = Len(s) - 1 /\ Len(s) \in Nat /\ Len(s) >= 2
      BY <2>1, HeadAndTail
    <2>3. Len(Tail(s)) # 0
      BY <2>2
    <2>4. Len(<<>>) = 0
      OBVIOUS
    <2>5. QED
      BY <2>3, <2>4
  <1>3. QED
    BY <1>1, <1>2 DEF PairsComplete

(* A job that is queued. *)
LEMMA QueuedFits ==
    ASSUME GatesTypeOK, NEW job \in LaneJobs, ~IsBase(job), Enqueue(<<job>>)
    PROVE  waiting' \in Seq(LaneJobs) /\ PairsComplete(waiting')
  <1>1. waiting \in Seq(LaneJobs) /\ waiting' = waiting \o <<job>> /\ PairsComplete(waiting)
    BY DEF GatesTypeOK, Enqueue, PairsComplete
  <1>2. /\ waiting' \in Seq(LaneJobs) /\ DOMAIN waiting' = DOMAIN waiting \union {Len(waiting) + 1}
        /\ \A n \in DOMAIN waiting : waiting'[n] = waiting[n]
        /\ waiting'[Len(waiting) + 1] = job
    BY <1>1, JobQueued
  <1>3. QED
    BY <1>1, <1>2 DEF PairsComplete

(* Every step keeps jobs of their kinds. *)
LEMMA GatesStay == GatesTypeOK /\ [GatesNext]_gatesVars => GatesTypeOK'
  <1> SUFFICES ASSUME GatesTypeOK, [GatesNext]_gatesVars PROVE GatesTypeOK'
    OBVIOUS
  <1>1. /\ verified \subseteq VerifiedAnswers /\ results \subseteq LaneJobs
        /\ waiting \in Seq(LaneJobs) /\ PairsComplete(waiting)
        /\ reports \in Seq([interaction : Interactions, ready : BOOLEAN, stored : BOOLEAN])
        /\ \A n \in DOMAIN reports : reports[n].stored => reports[n].ready
    BY DEF GatesTypeOK, PairsComplete
  <1>2. ASSUME UNCHANGED <<verified, reports, results>>, waiting' \in Seq(LaneJobs), PairsComplete(waiting')
        PROVE  GatesTypeOK'
    BY <1>1, <1>2 DEF GatesTypeOK, PairsComplete, IsBase
  <1>3. CASE UNCHANGED gatesVars
    BY <1>1, <1>2, <1>3 DEF gatesVars
  <1>4. CASE StartComparison
    <2>1. PICK checkpoint \in Checkpoints, splits \in SplitChoices :
              LET items == {c \in Cases : c.split \in splits} IN
              items # {} /\ Enqueue(<<Job("evaluate", "base", items), Job("evaluate", checkpoint, items)>>)
      BY <1>4 DEF StartComparison
    <2> DEFINE items == {c \in Cases : c.split \in splits}
               b == Job("evaluate", "base", items)
               c == Job("evaluate", checkpoint, items)
    <2>2. items \in (SUBSET Cases) \ {{}}
      BY <2>1
    <2>3. b \in LaneJobs /\ c \in LaneJobs /\ ~IsBase(c)
      BY <2>2 DEF LaneJobs, Job, IsBase, Models, Checkpoints
    <2>4. waiting' = waiting \o <<b, c>>
      BY <2>1 DEF Enqueue
    <2> HIDE DEF b, c
    <2>5. /\ waiting' \in Seq(LaneJobs)
          /\ DOMAIN waiting' = DOMAIN waiting \union {Len(waiting) + 1, Len(waiting) + 2}
          /\ \A n \in DOMAIN waiting : waiting'[n] = waiting[n]
          /\ waiting'[Len(waiting) + 2] = c
      BY <1>1, <2>3, <2>4, PairQueued
    <2>6. PairsComplete(waiting')
      BY <1>1, <2>3, <2>5 DEF PairsComplete
    <2>7. QED
      BY <1>2, <1>4, <2>5, <2>6 DEF StartComparison
  <1>5. CASE StartReplay
    <2>1. PICK model \in Models : Enqueue(<<Job("replay", model, verified)>>)
      BY <1>5 DEF StartReplay
    <2>2. Job("replay", model, verified) \in LaneJobs /\ ~IsBase(Job("replay", model, verified))
      BY <1>1, <1>5 DEF StartReplay, LaneJobs, Job, IsBase
    <2>3. QED
      BY <1>2, <1>5, <2>1, <2>2, QueuedFits DEF StartReplay
  <1>6. CASE StartRegression
    <2>1. PICK model \in Models : Enqueue(<<Job("regression", model, DevelopmentChecks)>>)
      BY <1>6 DEF StartRegression
    <2>2. DevelopmentChecks \in (SUBSET Interactions) \ {{}}
      <3>1. \A n \in DOMAIN reports :
               reports[n] \in [interaction : Interactions, ready : BOOLEAN, stored : BOOLEAN]
        BY <1>1, ElementOf
      <3>2. QED
        BY <1>6, <3>1 DEF StartRegression, DevelopmentChecks
    <2>3. /\ Job("regression", model, DevelopmentChecks) \in LaneJobs
          /\ ~IsBase(Job("regression", model, DevelopmentChecks))
      BY <2>2 DEF LaneJobs, Job, IsBase
    <2>4. QED
      BY <1>2, <1>6, <2>1, <2>3, QueuedFits DEF StartRegression
  <1>7. CASE RunJob
    <2>1. waiting # <<>> /\ Head(waiting) \in LaneJobs
      BY <1>1, <1>7, HeadAndTail DEF RunJob
    <2>2. /\ Tail(waiting) \in Seq(LaneJobs) /\ PairsComplete(Tail(waiting))
          /\ IsBase(Head(waiting)) =>
                /\ Tail(Tail(waiting)) \in Seq(LaneJobs) /\ PairsComplete(Tail(Tail(waiting)))
      BY <1>1, <2>1, HeadAndTail, TailComplete
    <2>3. waiting' \in Seq(LaneJobs) /\ PairsComplete(waiting')
      BY <1>7, <2>2 DEF RunJob
    <2>4. results' \subseteq LaneJobs
      BY <1>1, <1>7, <2>1 DEF RunJob
    <2>5. UNCHANGED <<verified, reports>>
      BY <1>7 DEF RunJob
    <2>6. QED
      BY <1>1, <2>3, <2>4, <2>5 DEF GatesTypeOK, PairsComplete, IsBase
  <1>8. CASE Verify
    <2>1. verified' \subseteq VerifiedAnswers /\ UNCHANGED <<reports, results, waiting>>
      BY <1>1, <1>8 DEF Verify
    <2>2. QED
      BY <1>1, <2>1 DEF GatesTypeOK, PairsComplete, IsBase
  <1>9. ASSUME UNCHANGED <<verified, results, waiting>>,
               reports' \in Seq([interaction : Interactions, ready : BOOLEAN, stored : BOOLEAN]),
               \A n \in DOMAIN reports' : reports'[n].stored => reports'[n].ready
        PROVE  GatesTypeOK'
    BY <1>1, <1>9 DEF GatesTypeOK, PairsComplete, IsBase
  <1>10. CASE Submit
    <2>1. PICK i \in Interactions, ready \in BOOLEAN, stored \in BOOLEAN :
              (stored => ready) /\ reports' = Append(reports, [interaction |-> i, ready |-> ready, stored |-> stored])
      BY <1>10 DEF Submit
    <2> DEFINE R == [interaction : Interactions, ready : BOOLEAN, stored : BOOLEAN]
               e == [interaction |-> i, ready |-> ready, stored |-> stored]
    <2>2. e \in R /\ (e.stored => e.ready)
      BY <2>1
    <2> HIDE DEF R, e
    <2>3. reports \in Seq(R) /\ reports' = Append(reports, e)
      BY <1>1, <2>1 DEF R, e
    <2>4. /\ Append(reports, e) \in Seq(R)
          /\ DOMAIN Append(reports, e) = DOMAIN reports \union {Len(reports) + 1}
          /\ \A n \in DOMAIN reports : Append(reports, e)[n] = reports[n]
          /\ Append(reports, e)[Len(reports) + 1] = e
      BY <2>2, <2>3, Appended
    <2>5. \A n \in DOMAIN reports' : reports'[n].stored => reports'[n].ready
      BY <1>1, <2>2, <2>3, <2>4
    <2>6. QED
      BY <1>9, <1>10, <2>3, <2>4, <2>5 DEF Submit, R
  <1>11. CASE SubmitAgain
    <2> DEFINE R == [interaction : Interactions, ready : BOOLEAN, stored : BOOLEAN]
    <2>1. PICK n \in DOMAIN reports : reports[n].ready /\ reports' = [reports EXCEPT ![n].stored = TRUE]
      BY <1>11 DEF SubmitAgain
    <2>2. [reports[n] EXCEPT !.stored = TRUE] \in R
      <3>1. reports[n] \in R
        BY <1>1, ElementOf
      <3>2. QED
        BY <3>1
    <2>3. reports' = [reports EXCEPT ![n] = [reports[n] EXCEPT !.stored = TRUE]]
      BY <2>1
    <2> HIDE DEF R
    <2>4. reports' \in Seq(R)
      BY <1>1, <2>2, <2>3 DEF R
    <2>5. reports[n] \in [interaction : Interactions, ready : BOOLEAN, stored : BOOLEAN]
      BY <1>1, ElementOf
    <2>6. \A m \in DOMAIN reports' : reports'[m].stored => reports'[m].ready
      BY <1>1, <2>1, <2>3, <2>5
    <2>7. QED
      BY <1>9, <1>11, <2>4, <2>6 DEF SubmitAgain, R
  <1>12. QED
    BY <1>3, <1>4, <1>5, <1>6, <1>7, <1>8, <1>10, <1>11 DEF GatesNext

(* Nothing is put to a model but cases, verified answers and checks, none   *)
(* of it empty, and a base is queued with its candidate (create_comparison, *)
(* learning.spec_for).                                                      *)
THEOREM GatesTypesHold == GatesSpec => []GatesTypeOK
  <1>1. GatesInit => GatesTypeOK
    BY DEF GatesInit, GatesTypeOK
  <1>2. QED
    BY <1>1, GatesStay, PTL DEF GatesSpec

-----------------------------------------------------------------------------
(* A rate that must be 100 and is passed is of everything asked.            *)
LEMMA AllReached ==
    ASSUME NEW asked, IsFiniteSet(asked), NEW good \in SUBSET asked,
           Reached(Cardinality(good), Cardinality(asked), 100) = "passed"
    PROVE  asked # {} /\ good = asked
  <1>1. /\ Cardinality(asked) \in Nat /\ Cardinality(good) \in Nat
        /\ Cardinality(good) <= Cardinality(asked)
        /\ Cardinality(asked) = Cardinality(good) => asked = good
    BY FS_Subset, FS_CardinalityType
  <1>2. Cardinality(asked) # 0 /\ 100 * Cardinality(good) >= 100 * Cardinality(asked)
    BY DEF Reached
  <1>3. asked # {}
    BY <1>2, FS_EmptySet
  <1>4. Cardinality(good) = Cardinality(asked)
    BY <1>1, <1>2
  <1>5. QED
    BY <1>1, <1>3, <1>4

(* Gates that pass vouch for the checkpoint: in every held-out split it     *)
(* answered each case alike three times, and the replay it was put to it    *)
(* kept (consistency_gates).                                                *)
THEOREM GatesVouchHolds == GatesSpec => []GatesVouch
  <1>1. ASSUME GatesTypeOK, NEW job \in Compared, ConsistencyGates(job) = "passed"
        PROVE  /\ \A split \in Splits :
                     LET asked == {c \in job.items : c.split = split /\ c.declared} IN
                     /\ asked # {}
                     /\ \A c \in asked : \A n \in 1..3 :
                           behaviour.attempts[job.model][c.id][n] = behaviour.attempts[job.model][c.id][1]
               /\ \E r \in results : r.kind = "replay" /\ r.model = job.model
                                     /\ r.items \subseteq behaviour.keeps[job.model]
    <2>1. "failed" \notin GateResults(job) /\ "not_evaluated" \notin GateResults(job)
      BY <1>1 DEF ConsistencyGates
    <2>2. job \in results /\ job.kind = "evaluate" /\ job \in LaneJobs
      BY <1>1 DEF Compared, Finished, GatesTypeOK
    <2>3. IsFiniteSet(job.items)
      <3>1. job.items \subseteq Cases
        BY <2>2 DEF LaneJobs
      <3>2. QED
        BY <3>1, FS_Subset, GatesAssumption DEF GatesAssumption
    <2>4. ASSUME NEW split \in Splits
          PROVE  LET asked == {c \in job.items : c.split = split /\ c.declared} IN
                 /\ asked # {}
                 /\ \A c \in asked : AgreesThrice(job.model, c)
      <3> DEFINE asked == {c \in job.items : c.split = split /\ c.declared}
                 good == {c \in asked : AgreesThrice(job.model, c)}
      <3>1. asked = {c \in job.items : c.split = split /\ Applies("repeated", c, job.items)}
        BY DEF Applies
      <3>2. good = {c \in asked : Scores("repeated", job.model, c, job.items)}
        BY DEF Scores
      <3>3. AgreementGate("repeated", split, job) \in GateResults(job)
        BY GatesAssumption DEF GateResults, GatesAssumption
      <3>4. AgreementGate("repeated", split, job) = Reached(Cardinality(good), Cardinality(asked), 100)
        BY <3>1, <3>2, GatesAssumption DEF AgreementGate, GatesAssumption
      <3>5. IsFiniteSet(asked) /\ good \in SUBSET asked
        BY <2>3, FS_Subset
      <3>6. Reached(Cardinality(good), Cardinality(asked), 100) = "passed"
        BY <2>1, <3>3, <3>4 DEF Reached
      <3> HIDE DEF asked, good
      <3>7. asked # {} /\ good = asked
        BY <3>5, <3>6, AllReached
      <3>8. QED
        BY <3>7 DEF asked, good
    <2>5. ASSUME NEW c, c.declared, AgreesThrice(job.model, c), NEW n \in 1..3
          PROVE  behaviour.attempts[job.model][c.id][n] = behaviour.attempts[job.model][c.id][1]
      <3>1. \A k \in 1..3 : Key(job.model, c, k) = behaviour.attempts[job.model][c.id][k]
        BY <2>5 DEF Key
      <3>2. n = 1 \/ n \in 2..3
        OBVIOUS
      <3>3. n \in 2..3 => Key(job.model, c, n) = Key(job.model, c, 1)
        BY <2>5 DEF AgreesThrice
      <3>4. QED
        BY <3>1, <3>2, <3>3
    <2>6. \E r \in results : r.kind = "replay" /\ r.model = job.model
                            /\ r.items \subseteq behaviour.keeps[job.model]
      <3> DEFINE r == Result("replay", Replayed(job.model))
                 kept == r.items \intersect behaviour.keeps[r.model]
      <3>1. ReplayGate(job.model) = "passed"
        <4>1. ReplayGate(job.model) \in GateResults(job)
          BY DEF GateResults
        <4>2. QED
          BY <2>1, <4>1 DEF ReplayGate, Reached
      <3>2. /\ Finished("replay", Replayed(job.model)) # {}
            /\ Reached(Cardinality(kept), Cardinality(r.items), 100) = "passed"
        BY <3>1 DEF ReplayGate
      <3>3. r \in Finished("replay", Replayed(job.model))
        BY <3>2 DEF Result
      <3> HIDE DEF r
      <3>4. r \in results /\ r.kind = "replay" /\ r.model = job.model /\ r \in LaneJobs
        BY <1>1, <3>3 DEF Finished, Replayed, GatesTypeOK
      <3>5. IsFiniteSet(r.items)
        <4>1. r.items \subseteq VerifiedAnswers
          BY <3>4 DEF LaneJobs
        <4>2. QED
          BY <4>1, FS_Subset, GatesAssumption DEF GatesAssumption
      <3>6. kept = r.items
        BY <3>2, <3>5, AllReached
      <3>7. QED
        BY <3>4, <3>6
    <2>7. QED
      BY <2>4, <2>5, <2>6
  <1>2. GatesTypeOK => GatesVouch
    BY <1>1 DEF GatesVouch
  <1>3. QED
    BY <1>2, GatesTypesHold, PTL

-----------------------------------------------------------------------------
(* Sums. *)

(* g is what the sum of f comes to over each set of D. *)
AddsUp(g, f, D) == g = [s \in D |-> IF s = {} THEN 0 ELSE f[Some(s)] + g[s \ {Some(s)}]]

(* The sum of a function is a partial sum, the one over its domain. *)
LEMMA SumIsOne ==
    ASSUME NEW f
    PROVE  SumFunction(f) = (CHOOSE g : AddsUp(g, f, SUBSET DOMAIN f))[DOMAIN f]
  BY DEF SumFunction, SumFunctionOnSet, FoldFunctionOnSet, MapThenFoldSet, AddsUp, Some

(* There are partial sums. *)
LEMMA SumsExist ==
    ASSUME NEW S, IsFiniteSet(S), NEW f
    PROVE  \E g : AddsUp(g, f, SUBSET S)
  <1> DEFINE N == {n \in Nat : \E g : AddsUp(g, f, Smaller(S, n))}
  <1>1. \A s \in SUBSET S : IsFiniteSet(s) /\ Cardinality(s) \in Nat
    BY FS_Subset, FS_CardinalityType
  <1>2. \A s \in SUBSET S : s # {} => Some(s) \in s /\ Cardinality(s \ {Some(s)}) = Cardinality(s) - 1
    BY <1>1, FS_RemoveElement DEF Some
  <1>3. 0 \in N
    <2> DEFINE g == [s \in Smaller(S, 0) |-> 0]
    <2>1. \A s \in Smaller(S, 0) : s = {}
      BY <1>1, FS_EmptySet DEF Smaller
    <2>2. AddsUp(g, f, Smaller(S, 0))
      BY <2>1 DEF AddsUp
    <2>3. QED
      BY <2>2
  <1>4. ASSUME NEW n \in N PROVE n + 1 \in N
    <2>1. PICK g : AddsUp(g, f, Smaller(S, n))
      OBVIOUS
    <2> DEFINE h == [s \in Smaller(S, n + 1) |-> IF s = {} THEN 0 ELSE f[Some(s)] + g[s \ {Some(s)}]]
    <2>2. \A s \in Smaller(S, n) : s \in Smaller(S, n + 1) /\ h[s] = g[s]
      <3>1. \A s \in Smaller(S, n) : s \in Smaller(S, n + 1)
        BY <1>1 DEF Smaller
      <3>2. QED
        BY <2>1, <3>1 DEF AddsUp
    <2>3. \A s \in Smaller(S, n + 1) : s # {} => s \ {Some(s)} \in Smaller(S, n)
      BY <1>1, <1>2 DEF Smaller
    <2>4. AddsUp(h, f, Smaller(S, n + 1))
      BY <2>2, <2>3 DEF AddsUp
    <2>5. QED
      BY <2>4
  <1>5. N = Nat
    BY <1>3, <1>4, AllNumbers
  <1>6. PICK g : AddsUp(g, f, Smaller(S, Cardinality(S)))
    BY <1>1, <1>5
  <1>7. Smaller(S, Cardinality(S)) = SUBSET S
    BY FS_Subset DEF Smaller
  <1>8. QED
    BY <1>6, <1>7

(* A sum of natural numbers is at least each of them.                       *)
LEMMA SumAtLeast ==
    ASSUME NEW S, IsFiniteSet(S), NEW f \in [S -> Nat]
    PROVE  SumFunction(f) \in Nat /\ \A x \in S : f[x] <= SumFunction(f)
  <1> DEFINE g == CHOOSE g : AddsUp(g, f, SUBSET S)
             Q == {s \in SUBSET S : g[s] \in Nat /\ \A x \in s : f[x] <= g[s]}
  <1>1. AddsUp(g, f, SUBSET S)
    BY SumsExist
  <1>2. SumFunction(f) = g[S]
    BY SumIsOne
  <1> HIDE DEF g
  <1>3. {} \in Q
    BY <1>1 DEF AddsUp
  <1>4. ASSUME NEW s \in SUBSET S, s # {}, s \ {Some(s)} \in Q PROVE s \in Q
    <2> DEFINE x == Some(s)
               r == s \ {x}
    <2>1. x \in s /\ s = r \union {x} /\ r \in SUBSET S
      BY <1>4 DEF Some
    <2>2. g[s] = f[x] + g[r]
      BY <1>1, <1>4 DEF AddsUp
    <2>3. g[r] \in Nat /\ \A y \in r : f[y] <= g[r]
      BY <1>4
    <2>4. f[x] \in Nat /\ \A y \in r : f[y] \in Nat
      BY <2>1
    <2> HIDE DEF x, r
    <2>5. g[s] \in Nat /\ f[x] <= g[s] /\ \A y \in r : f[y] <= g[s]
      BY <2>2, <2>3, <2>4
    <2>6. QED
      BY <2>1, <2>5
  <1>5. S \in Q
    <2> HIDE DEF Q
    <2>1. QED
      BY <1>3, <1>4, HoldsWhole
  <1>6. QED
    BY <1>2, <1>5

(* A sum of natural numbers is at least each of them, and at most as many   *)
(* times a bound of them, which it only reaches when each of them does.     *)
LEMMA SumBounds ==
    ASSUME NEW S, IsFiniteSet(S), NEW f \in [S -> Nat], NEW most \in Nat,
           \A x \in S : f[x] <= most
    PROVE  /\ SumFunction(f) \in Nat
           /\ \A x \in S : f[x] <= SumFunction(f)
           /\ \A x \in S : SumFunction(f) + (most - f[x]) <= most * Cardinality(S)
  <1> DEFINE g == CHOOSE g : AddsUp(g, f, SUBSET S)
             Q == {s \in SUBSET S : /\ g[s] \in Nat
                                    /\ \A x \in s : f[x] <= g[s]
                                    /\ g[s] <= most * Cardinality(s)
                                    /\ \A x \in s : g[s] + (most - f[x]) <= most * Cardinality(s)}
  <1>1. AddsUp(g, f, SUBSET S)
    BY SumsExist
  <1>2. SumFunction(f) = g[S]
    BY SumIsOne
  <1> HIDE DEF g
  <1>3. {} \in Q
    BY <1>1, FS_EmptySet DEF AddsUp
  <1>4. ASSUME NEW s \in SUBSET S, s # {}, s \ {Some(s)} \in Q PROVE s \in Q
    <2> DEFINE x == Some(s)
               r == s \ {x}
               k == Cardinality(r)
    <2>1. x \in s /\ s = r \union {x} /\ r \in SUBSET S
      BY <1>4 DEF Some
    <2>2. k \in Nat /\ Cardinality(s) = k + 1
      BY <1>4, <2>1, FS_Subset, FS_CardinalityType, FS_RemoveElement
    <2>3. g[s] = f[x] + g[r]
      BY <1>1, <1>4 DEF AddsUp
    <2>4. /\ g[r] \in Nat /\ \A y \in r : f[y] <= g[r]
          /\ g[r] <= most * k
          /\ \A y \in r : g[r] + (most - f[y]) <= most * k
      BY <1>4
    <2>5. most * (k + 1) = most * k + most /\ most * k \in Nat
      BY <2>2
    <2>6. f[x] \in Nat /\ f[x] <= most /\ \A y \in r : f[y] \in Nat
      BY <2>1
    <2> HIDE DEF x, r, k
    <2>7. g[s] \in Nat /\ g[s] <= most * (k + 1) /\ f[x] <= g[s] /\ \A y \in r : f[y] <= g[s]
      BY <2>3, <2>4, <2>5, <2>6
    <2>8. /\ g[s] + (most - f[x]) <= most * (k + 1)
          /\ \A y \in r : g[s] + (most - f[y]) <= most * (k + 1)
      BY <2>3, <2>4, <2>5, <2>6
    <2>9. QED
      BY <2>1, <2>2, <2>7, <2>8
  <1>5. S \in Q
    <2> HIDE DEF Q
    <2>1. QED
      BY <1>3, <1>4, HoldsWhole
  <1>6. QED
    BY <1>2, <1>5

-----------------------------------------------------------------------------
(* What a gate that passes says of each case. *)

(* A status other than not_applicable that a gate lets through is passed.   *)
LEMMA PassedOnAll ==
    ASSUME GatesPass(gold.cases, predictions), NEW metric \in DOMAIN Thresholds
    PROVE  GateStatus(metric, gold.cases, predictions) = "passed"
  <1>1. GateStatus(metric, gold.cases, predictions) \in {"passed", "not_applicable"}
    BY DEF GatesPass
  <1>2. GateStatus(metric, gold.cases, predictions) # "not_applicable"
    BY DEF GatesPass
  <1>3. QED
    BY <1>1, <1>2

(* As many groups as cases, at most.                                        *)
LEMMA GroupsAreFinite ==
    ASSUME NEW cases, IsFiniteSet(cases)
    PROVE  IsFiniteSet({c.group : c \in cases}) /\ Cardinality({c.group : c \in cases}) \in Nat
  <1> DEFINE groups == {c.group : c \in cases}
             f == [c \in cases |-> c.group]
  <1>1. f \in Surjection(cases, groups)
    BY DEF Surjection
  <1>2. IsFiniteSet(groups)
    BY <1>1, FS_Surjection
  <1>3. QED
    BY <1>2, FS_CardinalityType

(* A rate of which 100 is asked, over scores of 0 and 100, is 100 on every  *)
(* case that counts: a group has its worst case's score (_summarise).       *)
LEMMA EveryCaseScores ==
    ASSUME NEW cases, IsFiniteSet(cases), NEW answers, NEW metric,
           metric \notin Counted, Thresholds[metric] = 100,
           GateStatus(metric, cases, answers) = "passed",
           \A d \in cases : Score(metric, d, Answered(answers, d)) \in {0, 100},
           NEW c \in cases, Counts(metric, c, Answered(answers, c))
    PROVE  Score(metric, c, Answered(answers, c)) = 100
  <1> DEFINE Supplied(d) == Score(metric, d, Answered(answers, d))
             eligible == {d \in cases : Counts(metric, d, Answered(answers, d))}
             groups == {d.group : d \in eligible}
             scores(g) == {Supplied(d) : d \in {e \in eligible : e.group = g}}
             f == [g \in groups |-> GroupScore(scores(g))]
             s == Summary(metric, cases, answers)
  <1>1. s.n = Cardinality(groups) /\ s.sum = SumFunction(f)
    BY DEF Summary
  <1>2. IsFiniteSet(groups) /\ Cardinality(groups) \in Nat
    <2>1. IsFiniteSet(eligible)
      BY FS_Subset
    <2>2. QED
      BY <2>1, GroupsAreFinite
  <1>3. ~(s.sum < 100 * s.n)
    BY DEF GateStatus
  <1>4. ASSUME NEW g \in groups
        PROVE  f[g] \in {0, 100} /\ \A k \in scores(g) : f[g] <= k
    <2>1. scores(g) \in SUBSET {0, 100} /\ scores(g) # {}
      OBVIOUS
    <2> HIDE DEF scores
    <2>2. \E m \in scores(g) : \A k \in scores(g) : m <= k
      BY <2>1, LeastOf
    <2>3. f[g] = CHOOSE m \in scores(g) : \A k \in scores(g) : m <= k
      BY DEF GroupScore, Min
    <2>4. QED
      BY <2>1, <2>2, <2>3
  <1>5. f \in [groups -> Nat] /\ \A g \in groups : f[g] <= 100
    <2> HIDE DEF groups, scores
    <2>1. \A g \in groups : f[g] \in Nat /\ f[g] <= 100
      BY <1>4
    <2>2. QED
      BY <2>1
  <1>6. c \in eligible /\ c.group \in groups /\ Supplied(c) \in scores(c.group)
    OBVIOUS
  <1>7. Supplied(c) \in {0, 100}
    OBVIOUS
  <1> HIDE DEF Supplied, eligible, groups, scores, f, s
  <1>8. /\ SumFunction(f) \in Nat
        /\ SumFunction(f) + (100 - f[c.group]) <= 100 * Cardinality(groups)
    <2>1. 100 \in Nat
      OBVIOUS
    <2>2. /\ SumFunction(f) \in Nat
          /\ \A g \in groups : SumFunction(f) + (100 - f[g]) <= 100 * Cardinality(groups)
      BY <1>2, <1>5, <2>1, SumBounds
    <2>3. QED
      BY <1>6, <2>2
  <1>9. f[c.group] = 100
    BY <1>1, <1>2, <1>3, <1>4, <1>6, <1>8
  <1>10. Supplied(c) = 100
    BY <1>4, <1>6, <1>7, <1>9
  <1>11. QED
    BY <1>10 DEF Supplied

(* Where no unsupported claim is allowed, no case has one.                  *)
LEMMA NoCaseUnsupported ==
    ASSUME NEW cases, IsFiniteSet(cases), NEW answers,
           Thresholds["critical_unsupported_claims"] = 0,
           GateStatus("critical_unsupported_claims", cases, answers) = "passed",
           \A d \in cases : Unsupported(d, Answered(answers, d)) \in Nat,
           NEW c \in cases
    PROVE  Unsupported(c, Answered(answers, c)) = 0
  <1> DEFINE f == [d \in cases |-> Unsupported(d, Answered(answers, d))]
  <1>1. Count("critical_unsupported_claims", cases, answers) = SumFunction(f)
    BY DEF Count
  <1>2. ~(Count("critical_unsupported_claims", cases, answers) > 0)
    BY DEF GateStatus, Counted
  <1>3. f \in [cases -> Nat]
    OBVIOUS
  <1>4. SumFunction(f) \in Nat /\ f[c] <= SumFunction(f)
    <2> HIDE DEF f
    <2>1. QED
      BY <1>3, SumAtLeast
  <1>5. f[c] = 0
    BY <1>1, <1>2, <1>3, <1>4
  <1>6. QED
    BY <1>5

(* A portfolio whose slice passes the count gate has enough groups.         *)
LEMMA EnoughGroups ==
    ASSUME NEW cases, IsFiniteSet(cases), NEW answers, NEW c \in cases,
           GateStatus("critical_unsupported_claims", cases, answers) \in {"passed", "not_applicable"}
    PROVE  Cardinality({d.group : d \in cases}) >= MinEligible
  <1> DEFINE groups == {d.group : d \in cases}
  <1>1. IsFiniteSet(groups) /\ Cardinality(groups) \in Nat
    BY GroupsAreFinite
  <1>2. groups # {}
    OBVIOUS
  <1>3. /\ Cardinality(groups) = 0 => FALSE
        /\ ~(Cardinality(groups) < MinEligible)
    <2>1. Cardinality(groups) # 0
      <3> HIDE DEF groups
      <3>1. QED
        BY <1>1, <1>2, FS_EmptySet
    <2>2. QED
      BY <2>1 DEF GateStatus, Counted
  <1>4. QED
    BY <1>1, <1>3, DecisionAssumption DEF DecisionAssumption

-----------------------------------------------------------------------------
(* Decisions. *)

(* The gold set and the predictions are ones that can be given. *)
PredictionsFit ==
    /\ gold \in GoldSets
    /\ \A id \in DOMAIN predictions : \E c \in gold.cases : predictions[id] \in ResponsesTo(c)

(* A set of numbers of no elements is empty. *)
LEMMA NoneCounted ==
    ASSUME NEW S, IsFiniteSet(S)
    PROVE  Cardinality(S) \in Nat /\ (Cardinality(S) = 0 => S = {})
  BY FS_CardinalityType, FS_EmptySet

(* What the counts of an answer count, and that they are numbers: what its  *)
(* facts and the rest of it cite of anything else, the facts that cite      *)
(* nothing, and what the judge calls unsupported (metrics.score_case).      *)
CountsFully(c, a) ==
    /\ Unsupported(c, a) \in Nat
    /\ Unsupported(c, a) = 0 /\ a.kind = "answer" =>
          /\ Refs(a) \subseteq c.evidence /\ {} \notin Range(a.facts)
          /\ bundle.judged => "unsupported" \notin Range(a.labels)
LEMMA UnsupportedCounts ==
    ASSUME NEW c, NEW a,
           a.kind = "answer" =>
             /\ IsFiniteSet(a.also) /\ IsFiniteSet(DOMAIN a.facts) /\ IsFiniteSet(DOMAIN a.labels)
             /\ \A n \in DOMAIN a.facts : IsFiniteSet(a.facts[n])
    PROVE  CountsFully(c, a)
  <1>1. CASE a.kind # "answer"
    BY <1>1 DEF CountsFully, Unsupported
  <1>2. CASE a.kind = "answer"
    <2> DEFINE other(n) == a.facts[n] \ c.evidence
               f == [n \in DOMAIN a.facts |-> Cardinality(other(n))]
               rest == a.also \ c.evidence
               u == Cardinality(Uncited(a))
               j == Cardinality(Refuted(a))
    <2>1. Unsupported(c, a) = u + j + (SumFunction(f) + Cardinality(rest))
      BY <1>2 DEF Unsupported, Unknown
    <2>2. \A n \in DOMAIN a.facts : Cardinality(other(n)) \in Nat /\ (Cardinality(other(n)) = 0 => other(n) = {})
      BY <1>2, FS_Difference, NoneCounted
    <2>3. Cardinality(rest) \in Nat /\ (Cardinality(rest) = 0 => rest = {})
      BY <1>2, FS_Difference, NoneCounted
    <2>4. u \in Nat /\ (u = 0 => Uncited(a) = {})
      BY <1>2, FS_Subset, NoneCounted DEF Uncited
    <2>5. j \in Nat /\ (j = 0 => Refuted(a) = {})
      BY <1>2, FS_Subset, NoneCounted DEF Refuted
    <2>6. SumFunction(f) \in Nat /\ \A n \in DOMAIN a.facts : f[n] <= SumFunction(f)
      <3>1. f \in [DOMAIN a.facts -> Nat]
        BY <2>2
      <3> HIDE DEF f
      <3>2. QED
        BY <1>2, <3>1, SumAtLeast
    <2>7. Unsupported(c, a) \in Nat
      <3> HIDE DEF u, j, f, rest
      <3>1. QED
        BY <2>1, <2>3, <2>4, <2>5, <2>6
    <2>8. ASSUME Unsupported(c, a) = 0
          PROVE  u = 0 /\ j = 0 /\ SumFunction(f) = 0 /\ Cardinality(rest) = 0
      <3> HIDE DEF u, j, f, rest
      <3>1. QED
        BY <2>1, <2>3, <2>4, <2>5, <2>6, <2>8
    <2>9. ASSUME Unsupported(c, a) = 0, NEW n \in DOMAIN a.facts PROVE other(n) = {}
      <3>1. f[n] = Cardinality(other(n)) /\ f[n] <= 0
        BY <2>6, <2>8, <2>9
      <3> HIDE DEF f, other
      <3>2. QED
        BY <2>2, <3>1
    <2>10. Unsupported(c, a) = 0 => Refs(a) \subseteq c.evidence
      <3>1. ASSUME Unsupported(c, a) = 0, NEW id \in Refs(a) PROVE id \in c.evidence
        <4>1. CASE id \in a.also
          BY <2>3, <2>8, <3>1, <4>1
        <4>2. CASE \E n \in DOMAIN a.facts : id \in a.facts[n]
          BY <2>9, <3>1, <4>2
        <4>3. QED
          BY <3>1, <4>1, <4>2 DEF Refs, Range
      <3>2. QED
        BY <3>1
    <2>11. Unsupported(c, a) = 0 => {} \notin Range(a.facts)
      BY <2>4, <2>8 DEF Uncited, Range
    <2>12. Unsupported(c, a) = 0 => (bundle.judged => "unsupported" \notin Range(a.labels))
      BY <2>5, <2>8 DEF Refuted, Range
    <2>13. QED
      BY <2>7, <2>10, <2>11, <2>12 DEF CountsFully
  <1>3. QED
    BY <1>1, <1>2

(* So it is for whatever a case was answered.                               *)
LEMMA AnswersCount ==
    ASSUME PredictionsFit, NEW c
    PROVE  CountsFully(c, Answered(predictions, c))
  <1>1. CASE c.id \in DOMAIN predictions
    BY <1>1, UnsupportedCounts, DecisionAssumption DEF PredictionsFit, DecisionAssumption, Answered
  <1>2. CASE c.id \notin DOMAIN predictions
    BY <1>2, UnsupportedCounts DEF Answered, Failed
  <1>3. QED
    BY <1>1, <1>2

(* What the gates, the eligibility and the comparison ask before a          *)
(* candidate is promoted proves it on every case (compare_adapters).        *)
LEMMA PromotableIsProven ==
    ASSUME PredictionsFit, Promotable PROVE Proven
  <1> DEFINE A(c) == Answered(predictions, c)
  <1>1. IsFiniteSet(gold.cases)
    BY DecisionAssumption DEF PredictionsFit, DecisionAssumption
  <1>2. GatesPass(gold.cases, predictions) /\ Eligibility
    BY DEF Promotable
  <1>3. ASSUME NEW c \in gold.cases
        PROVE  c.id \in DOMAIN predictions /\ StatusCorrect(c, predictions[c.id])
    <2> DEFINE metric == "answer_status_correctness"
    <2>1. metric \in DOMAIN Thresholds /\ Thresholds[metric] = 100 /\ metric \notin Counted
      BY DecisionAssumption DEF DecisionAssumption, Counted
    <2>2. GateStatus(metric, gold.cases, predictions) = "passed"
      BY <1>2, <2>1, PassedOnAll
    <2>3. \A d \in gold.cases :
             /\ Score(metric, d, A(d)) = Percentage(StatusCorrect(d, A(d)))
             /\ Score(metric, d, A(d)) \in {0, 100}
             /\ Counts(metric, d, A(d))
      BY DEF Score, Percentage, Counts
    <2>4. Score(metric, c, A(c)) = 100
      <3> HIDE DEF metric
      <3>1. QED
        BY <1>1, <2>1, <2>2, <2>3, EveryCaseScores
    <2>5. StatusCorrect(c, A(c))
      BY <2>3, <2>4 DEF Percentage
    <2>6. c.id \in DOMAIN predictions
      BY <2>5 DEF StatusCorrect, RefusedRightly, Answered, Failed
    <2>7. QED
      BY <2>5, <2>6 DEF Answered
  <1>4. ASSUME NEW c \in gold.cases, predictions[c.id].kind = "answer"
        PROVE  LET a == predictions[c.id] IN
               /\ Refs(a) \subseteq c.evidence /\ {} \notin Range(a.facts)
               /\ bundle.judged => "unsupported" \notin Range(a.labels)
    <2>1. GateStatus("critical_unsupported_claims", gold.cases, predictions) = "passed"
      BY <1>2, PassedOnAll, DecisionAssumption DEF DecisionAssumption
    <2>2. \A d \in gold.cases : Unsupported(d, A(d)) \in Nat
      BY AnswersCount DEF CountsFully
    <2>3. Unsupported(c, A(c)) = 0
      BY <1>1, <2>1, <2>2, NoCaseUnsupported, DecisionAssumption DEF DecisionAssumption
    <2>4. A(c) = predictions[c.id]
      BY <1>3 DEF Answered
    <2> HIDE DEF A
    <2>5. QED
      BY <1>4, <2>3, <2>4, AnswersCount DEF CountsFully, A
  <1>5. ASSUME NEW c \in gold.cases, c.numeric
        PROVE  predictions[c.id].kind = "answer" /\ predictions[c.id].numbers
    <2> DEFINE metric == "numerical_agreement"
    <2>1. metric \in DOMAIN Thresholds /\ Thresholds[metric] = 100 /\ metric \notin Counted
      BY DecisionAssumption DEF DecisionAssumption, Counted
    <2>2. GateStatus(metric, gold.cases, predictions) = "passed"
      BY <1>2, <2>1, PassedOnAll
    <2>3. \A d \in gold.cases :
             /\ Score(metric, d, A(d)) =
                   Percentage(A(d).kind = "answer" /\ A(d).numbers /\ StatusCorrect(d, A(d)))
             /\ Score(metric, d, A(d)) \in {0, 100}
             /\ Counts(metric, d, A(d)) = d.numeric
      BY DEF Score, Percentage, Counts
    <2>4. Score(metric, c, A(c)) = 100
      <3> HIDE DEF metric
      <3>1. QED
        BY <1>1, <1>5, <2>1, <2>2, <2>3, EveryCaseScores
    <2>5. A(c).kind = "answer" /\ A(c).numbers
      BY <2>3, <2>4 DEF Percentage
    <2>6. QED
      BY <1>3, <2>5 DEF Answered
  <1>6. ASSUME NEW c \in gold.cases
        PROVE  c.group \notin bundle.training \union bundle.calibrationUsed \union QualificationGroups
    <2> DEFINE sets == <<ReleaseGroups, bundle.training, bundle.calibration, QualificationGroups>>
    <2>1. \A y \in 2..4 : sets[1] \intersect sets[y] = {}
      BY <1>2 DEF Eligibility
    <2>2. bundle.calibration = bundle.calibrationUsed /\ c.group \in ReleaseGroups
      BY <1>2 DEF Eligibility, ReleaseGroups
    <2>3. QED
      BY <2>1, <2>2
  <1>7. ASSUME NEW p \in Portfolios
        PROVE  Cardinality({c.group : c \in {d \in gold.cases : d.portfolio = p}}) >= MinEligible
    <2> DEFINE slice == {d \in gold.cases : d.portfolio = p}
    <2>1. PICK c \in gold.cases : c.portfolio = p
      BY <1>2 DEF GatesPass
    <2>2. slice \in Slices(gold.cases)
      BY <2>1 DEF Slices
    <2>3. GateStatus("critical_unsupported_claims", slice, predictions) \in {"passed", "not_applicable"}
      BY <1>2, <2>2, DecisionAssumption DEF GatesPass, DecisionAssumption
    <2>4. IsFiniteSet(slice) /\ c \in slice
      BY <1>1, <2>1, FS_Subset
    <2> HIDE DEF slice
    <2>5. Cardinality({d.group : d \in slice}) >= MinEligible
      BY <2>3, <2>4, EnoughGroups
    <2>6. QED
      BY <2>5 DEF slice
  <1>8. \E c \in gold.cases : c.injection
    <2> DEFINE metric == "prompt_injection_block_rate"
               eligible == {c \in gold.cases : Counts(metric, c, A(c))}
    <2>1. GateStatus(metric, gold.cases, predictions) # "not_applicable" /\ metric \notin Counted
      BY <1>2, DecisionAssumption DEF GatesPass, DecisionAssumption, Counted
    <2>2. Summary(metric, gold.cases, predictions).n = Cardinality({c.group : c \in eligible})
      BY DEF Summary
    <2>3. Summary(metric, gold.cases, predictions).n # 0
      BY <2>1 DEF GateStatus
    <2>4. eligible # {}
      <3> SUFFICES ASSUME eligible = {} PROVE FALSE
        OBVIOUS
      <3>1. {c.group : c \in eligible} = {}
        OBVIOUS
      <3>2. QED
        BY <2>2, <2>3, <3>1, FS_EmptySet
    <2>5. \A c \in gold.cases : Counts(metric, c, A(c)) = c.injection
      BY DEF Counts
    <2>6. QED
      BY <2>4, <2>5
  <1>9. QED
    BY <1>3, <1>4, <1>5, <1>6, <1>7, <1>8 DEF Proven

(* A candidate is promoted only when it is proven on every case.            *)
THEOREM PromotedIsProvenHolds == DecisionSpec => []PromotedIsProven
  <1> DEFINE Inv == PredictionsFit /\ PromotedIsProven
  <1>1. DecisionInit => Inv
    BY DecisionAssumption DEF DecisionInit, DecisionAssumption, PredictionsFit, PromotedIsProven
  <1>2. Inv /\ [DecisionNext]_decisionVars => Inv'
    <2> SUFFICES ASSUME Inv, [DecisionNext]_decisionVars PROVE Inv'
      OBVIOUS
    <2>1. CASE UNCHANGED decisionVars
      BY <2>1 DEF decisionVars, PredictionsFit, PromotedIsProven, Proven, StatusCorrect, RefusedRightly,
                  HasAnswer, Declines, Expected, Refs, QualificationGroups
    <2>2. CASE Predict
      <3>1. PredictionsFit'
        BY <2>2 DEF Predict, PredictionsFit
      <3>2. decision' # "promote_candidate"
        BY <2>2, DecisionAssumption DEF Predict, DecisionAssumption
      <3>3. QED
        BY <3>1, <3>2 DEF PromotedIsProven
    <2>3. CASE Decide
      <3>1. UNCHANGED <<gold, champion, bundle, predictions>>
        BY <2>3 DEF Decide
      <3>2. PredictionsFit'
        BY <3>1 DEF PredictionsFit
      <3>3. decision' = "promote_candidate" => Proven
        BY <2>3, PromotableIsProven DEF Decide
      <3>4. Proven => Proven'
        BY <3>1 DEF Proven, StatusCorrect, RefusedRightly, Declines, Expected, Unsupported, Unknown,
                    QualificationGroups
      <3>5. QED
        BY <3>2, <3>3, <3>4 DEF PromotedIsProven
    <2>4. QED
      BY <2>1, <2>2, <2>3 DEF DecisionNext
  <1>3. Inv => PromotedIsProven
    OBVIOUS
  <1>4. QED
    BY <1>1, <1>2, <1>3, PTL DEF DecisionSpec

(* A decision is one of the two, and only cases of the gold set are         *)
(* answered (cli.release_report, runner.compare_adapters).                  *)
THEOREM DecisionTypesHold == DecisionSpec => []DecisionTypeOK
  <1>1. DecisionInit => DecisionTypeOK
    BY DEF DecisionInit, DecisionTypeOK
  <1>2. DecisionTypeOK /\ [DecisionNext]_decisionVars => DecisionTypeOK'
    BY DEF DecisionTypeOK, DecisionNext, Predict, Decide, decisionVars
  <1>3. QED
    BY <1>1, <1>2, PTL DEF DecisionSpec

-----------------------------------------------------------------------------
(* The five together. *)

(* A behaviour of the composition is one of each component.                 *)
LEMMA LoopParts ==
    LoopSpec => ReleaseSpec /\ TrainingSpec /\ LearningSpec /\ GatesSpec /\ DecisionSpec
  <1>1. LoopInit => ReleaseInit /\ TrainingInit /\ LearningInit /\ GatesInit /\ DecisionInit
    BY DEF LoopInit
  <1>2. [LoopNext]_loopVars =>
           /\ [ReleaseNext]_releaseVars /\ [TrainingNext]_trainingVars /\ [LearningNext]_learningVars
           /\ [GatesNext]_gatesVars /\ [DecisionNext]_decisionVars
    BY DEF LoopNext, ReleaseStep, TrainingStep, LearningStep, GatesStep, DecisionStep, loopVars
  <1>3. QED
    BY <1>1, <1>2, PTL DEF LoopSpec, ReleaseSpec, TrainingSpec, LearningSpec, GatesSpec, DecisionSpec

(* Whatever is released, exported, trained, compared and decided, each part *)
(* keeps to its types, for any requests, budgets, corrections and cases.    *)
THEOREM LoopTypesHold == LoopSpec => []LoopTypeOK
  <1> DEFINE Known == part \in {"release", "training", "datasets", "gates", "decision"}
  <1>1. /\ Known /\ ReleaseTypeOK /\ TrainingTypeOK /\ LearningTypeOK /\ DatasetsFit
        /\ GatesTypeOK /\ DecisionTypeOK
        => LoopTypeOK
    BY DEF LoopTypeOK
  <1>2. LoopInit => Known
    BY DEF LoopInit
  <1>3. Known /\ [LoopNext]_loopVars => Known'
    BY DEF LoopNext, ReleaseStep, TrainingStep, LearningStep, GatesStep, DecisionStep, loopVars
  <1>4. LoopSpec => []Known
    BY <1>2, <1>3, PTL DEF LoopSpec
  <1>5. QED
    BY <1>1, <1>4, LoopParts, ReleaseTypesHold, TrainingTypesHold, LearningInvariant, GatesTypesHold,
       DecisionTypesHold, PTL

(* Everything the run of ModelLoop checks beside it, of the composition     *)
(* that the run explores: what is released, learned from, trained, named a  *)
(* winner and promoted is what the next step takes it for.                  *)
THEOREM LoopGuarantees ==
    ASSUME \A r, s \in Registrars : r = s
    PROVE  LoopSpec => /\ [](ReleasedIsGrounded /\ GoldStaysOut)
                       /\ [](BestIsBest /\ RunsWhatWasNamed)
                       /\ [](TrainedNeverProtected /\ FeedbackShare) /\ VersionIsImmutable
                       /\ [](GatesVouch /\ PromotedIsProven)
  <1>1. LearningSpec => []TrainedNeverProtected
    BY TrainedNeverProtectedHolds
  <1>2. QED
    BY <1>1, LoopParts, ReleasedIsGroundedHolds, GoldStaysOutHolds, BestIsBestHolds,
       RunsWhatWasNamedHolds, FeedbackShareHolds, VersionStays, GatesVouchHolds,
       PromotedIsProvenHolds, PTL

=============================================================================
