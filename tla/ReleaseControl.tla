--------------------------- MODULE ReleaseControl ---------------------------
(***************************************************************************)
(* What the API serves and what it lets be trained on: api.analyse with    *)
(* the policy rules (data_prep/rules.py), the output guardrails            *)
(* (guardrails.py, data_prep/derivation.py) and action control             *)
(* (risk_tiers.py); api.analysis_feedback; and the export of feedback to a *)
(* dataset (feedback.py, dataset.py).                                      *)
(*                                                                         *)
(* A text is a sequence of fragments and full stops: sources are joined    *)
(* before they are split into sentences, and a phrase is looked for in     *)
(* what an answer says as a whole. The rows and the approval they need are *)
(* ReviewApproval's and PortfolioQuery's.                                  *)
(***************************************************************************)
EXTENDS Integers, SequencesExt

CONSTANTS
    Requests,       \* a reviewer's plan and question, with the factsheet it gives
    Passages,       \* the text of each passage
    Stop,           \* what ends a sentence: a full stop, or a line break
    Numbers,        \* the numbers each passage cites
    PolicyRules,    \* policy_rules.yaml
    AnalysisTiers,  \* action_control.analysis_tiers, by analysis type
    Prohibited,     \* the phrases of prohibited_actions
    Material,       \* the phrases of high_tier_markers
    Outputs,        \* what the model answers, and what reviewers correct it to
    Verdicts,       \* a reviewer's cause, approval, score and semantic review
    Lineages,       \* the group ids upstream may give to obligors
    StableSplit,    \* stable_split of each group
    Cutoffs,        \* out-of-time dates of exports
    MaxServed, MaxFeedback, MaxExports,     \* bounds
    Nothing

(* stable_split knows every group, and an output is not the lack of one.    *)
ASSUME ReleaseAssumption ==
    /\ Nothing \notin Outputs
    /\ \A g \in DOMAIN StableSplit : StableSplit[g] \in {"train", "valid", "test"}
    /\ \A lineage \in Lineages, r \in Requests :
          lineage[r.obligor] \in DOMAIN StableSplit \union {Nothing}

VARIABLES
    served,         \* interactions, with the action control of each response
    feedback,       \* feedback records
    datasets        \* exported datasets
releaseVars == <<served, feedback, datasets>>

ReleaseInit ==
    served = <<>> /\ feedback = <<>> /\ datasets = <<>>

-----------------------------------------------------------------------------
Holds(operator, observed, threshold) ==
    CASE operator = "gt"  -> observed > threshold
      [] operator = "gte" -> observed >= threshold
      [] operator = "lt"  -> observed < threshold
      [] operator = "lte" -> observed <= threshold
      [] operator = "eq"  -> observed = threshold

(* Registry.applicable, and evaluate_rules: a rule whose evidence was not   *)
(* retrieved, or does not cite its threshold, or whose metric is not valid, *)
(* cannot be evaluated.                                                     *)
Applicable(r) ==
    {p \in PolicyRules : /\ p.jurisdiction = r.jurisdiction /\ r.portfolio \in p.portfolios
                         /\ p.from <= r.asOf /\ (p.to = Nothing \/ p.to >= r.asOf)}
Measured(r, metric, unit) ==
    metric \in DOMAIN r.metrics /\ r.metrics[metric].valid /\ r.metrics[metric].unit = unit
Evaluated(p, r, evidence) ==
    LET evaluable == /\ p.evidence \in Range(evidence) /\ p.threshold \in Numbers[p.evidence]
                     /\ Measured(r, p.metric, p.unit)
        holds == Holds(p.operator, r.metrics[p.metric].value, p.threshold) IN
    [rule |-> p.rule, metric |-> p.metric, operator |-> p.operator, threshold |-> p.threshold,
     unit |-> p.unit, evidence |-> p.evidence, mandatory |-> p.mandatory,
     holds |-> IF evaluable THEN holds ELSE Nothing,
     status |-> IF ~evaluable THEN "unevaluable" ELSE IF holds THEN "fired" ELSE "not_fired"]
EvaluateRules(r, evidence) == {Evaluated(p, r, evidence) : p \in Applicable(r)}

(* check_claim_derivation: the claim compares a metric of the factsheet,    *)
(* with a threshold of a rule that was evaluated or of evidence it cites.   *)
DerivationHolds(claim, r, evidence, rules) ==
    LET d == claim.derivation IN
    /\ d # Nothing
    /\ Measured(r, d.metric, d.unit) /\ r.metrics[d.metric].value = d.observed
    /\ d.source \in Range(evidence) /\ d.source \in Range(claim.cites)
    /\ IF d.rule # Nothing
          THEN \E e \in rules : /\ e.rule = d.rule /\ e.metric = d.metric /\ e.unit = d.unit
                                /\ e.operator = d.operator /\ e.evidence = d.source
                                /\ e.threshold = d.threshold
          ELSE d.threshold \in Numbers[d.source]
    /\ Holds(d.operator, d.observed, d.threshold) = d.holds

(* supported_text: a statement, with or without its full stop, is a whole   *)
(* sentence of a text.                                                      *)
Sentences(text) ==
    LET ends == {0, Len(text) + 1} \union {n \in DOMAIN text : text[n] = Stop} IN
    {SubSeq(text, b[1] + 1, b[2] - 1) : b \in
        {c \in ends \X ends : c[1] < c[2] /\ ~\E n \in ends : c[1] < n /\ n < c[2]}} \ {<<>>}
Bare(statement) ==
    IF statement # <<>> /\ Last(statement) = Stop THEN Front(statement) ELSE statement
Supported(statement, text) == Bare(statement) \in Sentences(text)

(* The passages and the factsheet of the case, joined in the order cited: a *)
(* sentence may begin in one and end in the next.                           *)
SourceText(r, evidence, id) ==
    IF id = r.case THEN r.sheet ELSE IF id \in Range(evidence) THEN Passages[id] ELSE <<>>
Joined(r, evidence, ids) == FlattenSeq([n \in DOMAIN ids |-> SourceText(r, evidence, ids[n])])
Sources(r, evidence) == Append(evidence, r.case)

(* What of an answer the output check reads. The words of its typed details *)
(* (o.details) are not read, and these are only asked what they cite.       *)
Claims(o) == Range(o.claims)
Cited(o) == o.cited \union UNION {Range(c.cites) : c \in Claims(o)}
Narrative(o) ==
    ({o.summary, o.recommendation} \union Range(o.narrative)
        \union UNION {{i.text, i.basis} : i \in Range(o.inferences)}) \ {<<>>}
ClaimSupported(c, r, evidence) == Supported(c.text, Joined(r, evidence, c.cites))
Contradicts(c, e) ==
    c.derivation # Nothing /\ c.derivation.rule = e.rule /\ c.derivation.holds # e.holds

(* validate_output.                                                         *)
OutputFailures(o, r, evidence, rules) ==
    {f \in {"unsupported_claim", "uncited", "unknown_citation", "invalid_derivation",
            "rule_contradiction", "unverified_narrative", "needs_human"} :
       CASE f = "unsupported_claim" -> \E c \in Claims(o) : ~ClaimSupported(c, r, evidence)
         [] f = "uncited" -> \E c \in Claims(o) : c.cites = <<>>
         [] f = "unknown_citation" -> ~(Cited(o) \subseteq Range(Sources(r, evidence)))
         [] f = "invalid_derivation" ->
              \E c \in Claims(o) : c.derivation # Nothing /\ ~DerivationHolds(c, r, evidence, rules)
         [] f = "rule_contradiction" -> \E c \in Claims(o), e \in rules : Contradicts(c, e)
         [] f = "unverified_narrative" ->
              \E s \in Narrative(o) : ~Supported(s, Joined(r, evidence, Sources(r, evidence)))
         [] f = "needs_human" -> ~o.human /\ o.recommendation # <<>>}

(* classify and gate. The body is what the answer says, without the bases   *)
(* of its inferences and its typed details, as one text: a phrase may run   *)
(* from one field into the next, but not over an empty one, which leaves a  *)
(* second blank.                                                            *)
Spoken(text) == IF text = <<>> THEN <<Stop>> ELSE text
Body(o) ==
    LET texts(parts) == [n \in DOMAIN parts |-> parts[n].text]
        fields == <<o.summary, o.recommendation>> \o o.narrative
                     \o texts(o.claims) \o texts(o.inferences) IN
    FlattenSeq([n \in DOMAIN fields |-> Spoken(fields[n])])
Says(body, phrases) == \E i, j \in DOMAIN body : SubSeq(body, i, j) \in phrases
Tier(o, r) ==
    LET tier == AnalysisTiers[r.type] IN
    IF Says(Body(o), Prohibited) THEN "prohibited"
    ELSE IF Says(Body(o), Material) \/ o.status = "ESCALATE" THEN "high"
    ELSE IF o.recommendation # <<>> /\ tier = "low" THEN "medium" ELSE tier
Release(tier) ==
    CASE tier = "low" -> "auto_release" [] tier = "medium" -> "analyst_review_required"
      [] tier = "high" -> "senior_credit_approval_required" [] tier = "prohibited" -> "blocked"
Gate(o, r) ==
    [release |-> Release(Tier(o, r)), released |-> Tier(o, r) = "low" /\ ~o.human]

(* Mutant: what the output check found is only reported.                    *)
ControlReported(o, r, evidence, rules) == Gate(o, r)
Control(o, r, evidence, rules) ==
    IF OutputFailures(o, r, evidence, rules) = {} THEN Gate(o, r)
    ELSE [release |-> "blocked", released |-> FALSE]

-----------------------------------------------------------------------------
Record(r, evidence, rules, output, status, control) ==
    [request |-> r, evidence |-> evidence, rules |-> rules, output |-> output,
     status |-> status, control |-> control]
Blocked == [release |-> "blocked", released |-> FALSE]

(* analyse, for rows that were fetched and made a factsheet: it abstains    *)
(* without evidence, or when a mandatory rule cannot be evaluated; else the *)
(* model answers, or its service fails and nothing is recorded.             *)
Analyse ==
    /\ Len(served) < MaxServed
    /\ \E r \in Requests : \E evidence \in r.retrievable :
          LET rules == EvaluateRules(r, evidence)
              abstains == \/ evidence = <<>>
                          \/ \E e \in rules : e.mandatory /\ e.status = "unevaluable" IN
          /\ ~r.cohort /\ ~r.refused
          /\ \/ /\ abstains
                /\ served' = Append(served, Record(r, evidence,
                      IF evidence = <<>> THEN {} ELSE rules, Nothing, "INSUFFICIENT_EVIDENCE", Blocked))
             \/ /\ ~abstains
                /\ \E o \in Outputs :
                      served' = Append(served, Record(r, evidence, rules, o, o.status,
                                                      Control(o, r, evidence, rules)))
    /\ UNCHANGED <<feedback, datasets>>

(* is_admissible_training_target: a paraphrase needs a derivation, or a     *)
(* review bound to this target and these sources.                           *)
Soft == {"unsupported_claim", "unverified_narrative"}
Derived(o, r, evidence) ==
    \A c \in Claims(o) : ClaimSupported(c, r, evidence) \/ DerivationHolds(c, r, evidence, {})
Admissible(o, r, evidence, rules, review, group) ==
    LET failures == OutputFailures(o, r, evidence, rules)
        soft == (failures \intersect Soft) \
                   (IF Derived(o, r, evidence) THEN {"unsupported_claim"} ELSE {}) IN
    /\ failures \subseteq Soft
    /\ soft = {} \/ /\ review # Nothing /\ review.status = "approved"
                    /\ review.bound = <<o, r, evidence, group>>

(* analysis_feedback, by the reviewer who was served. The correction is     *)
(* validated against the sources, without the rules.                        *)
Trainable(f) ==
    f.cause = "model_behaviour" /\ f.corrected # Nothing /\ f.status = "approved" /\ f.score >= 4
AnalysisFeedback ==
    /\ Len(feedback) < MaxFeedback
    /\ \E i \in DOMAIN served, v \in Verdicts, corrected \in Outputs \union {Nothing} :
          LET x == served[i]
              review == IF v.reviewed
                        THEN [status |-> v.status, bound |-> <<corrected, x.request, x.evidence, Nothing>>]
                        ELSE Nothing IN
          /\ v.cause = "model_behaviour" => corrected # Nothing
          /\ corrected # Nothing =>
                Admissible(corrected, x.request, x.evidence, {}, review, Nothing)
          /\ feedback' = Append(feedback,
                [interaction |-> i, cause |-> v.cause, corrected |-> corrected,
                 status |-> v.status, score |-> v.score, review |-> review])
    /\ UNCHANGED <<served, datasets>>

-----------------------------------------------------------------------------
(* build_training_batch: the latest record of each interaction. The group   *)
(* lineage is added upstream of the export: served factsheets have none.    *)
LatestOf(fs) == {n \in DOMAIN fs : \A m \in DOMAIN fs : fs[m].interaction = fs[n].interaction => m <= n}
AdmissibleWith(n, lineage, rules) ==
    LET f == feedback[n]
        x == served[f.interaction] IN
    Admissible(f.corrected, x.request, x.evidence, rules, f.review, lineage[x.request.obligor])
TrainingBatch(lineage) ==
    {n \in LatestOf(feedback) :
        LET x == served[feedback[n].interaction] IN
        /\ Trainable(feedback[n]) /\ lineage[x.request.obligor] # Nothing
        /\ AdmissibleWith(n, lineage, x.rules)}

(* main makes the records again, without the rules; one that fails then     *)
(* refuses the export.                                                      *)
Example(n, lineage) ==
    LET f == feedback[n]
        x == served[f.interaction] IN
    [record |-> n, interaction |-> f.interaction, group |-> lineage[x.request.obligor],
     content |-> <<x.request, x.evidence, {}, f.corrected>>]
Family(e) == <<StableSplit[e.group], e.content[1].type>>

(* build_dataset: one record per content; a group with a case on or after   *)
(* the cutoff, or in the test split, is test as a whole; excluded groups    *)
(* are left out; a family in two splits is refused.                         *)
Distinct(es) ==
    {e \in es : \A d \in es : d.content = e.content /\ d.group = e.group => e.record <= d.record}
Frozen(es, cutoff) ==
    {e.group : e \in {d \in es : d.content[1].asOf >= cutoff \/ StableSplit[d.group] = "test"}}
SplitOf(e, frozen) == IF e.group \in frozen THEN "test" ELSE StableSplit[e.group]
Excluded == IF datasets = <<>> THEN {} ELSE Last(datasets).gold

(* Mutant: the manifest passes on what it was given.                        *)
GoldGiven(frozen, blocked) == blocked
Gold(frozen, blocked) == frozen \union blocked
ExportDataset ==
    /\ Len(datasets) < MaxExports
    /\ \E cutoff \in Cutoffs, lineage \in Lineages :
          LET all == Distinct({Example(n, lineage) : n \in TrainingBatch(lineage)})
              frozen == Frozen(all, cutoff)
              kept == {e \in all : e.group \notin Excluded}
              split == [e \in kept |-> SplitOf(e, frozen)] IN
          /\ \A n \in TrainingBatch(lineage) : AdmissibleWith(n, lineage, {})
          /\ kept # {}
          /\ \A d, e \in kept : Family(d) = Family(e) => split[d] = split[e]
          /\ datasets' = Append(datasets,
                [split |-> split, gold |-> Gold(frozen, Excluded)])
    /\ UNCHANGED <<served, feedback>>

ReleaseNext == Analyse \/ AnalysisFeedback \/ ExportDataset
ReleaseSpec == ReleaseInit /\ [][ReleaseNext]_releaseVars

-----------------------------------------------------------------------------
ReleaseTypeOK ==
    /\ \A n \in DOMAIN feedback : feedback[n].interaction \in DOMAIN served
    /\ \A i \in DOMAIN served :
          served[i].request \in Requests /\ (served[i].output = Nothing => served[i].control = Blocked)
    /\ \A n \in DOMAIN datasets : Range(datasets[n].split) \subseteq {"train", "valid", "test"}

(* "An unsupported or miscited claim is never released, whatever the tier": *)
(* a released answer cites only what it was given; each claim is a sentence *)
(* of the sources it cites, joined, and the rest it says, with the bases of *)
(* its inferences, one of all its sources; a comparison is of the           *)
(* factsheet's value, comes out as said, and agrees with the rule it names, *)
(* which was evaluated; no mandatory rule was left unevaluated; and no      *)
(* phrase for a reviewer is in its body. Neither the words of its typed     *)
(* details nor phrases in the bases are looked at.                          *)
ReleasedIsGrounded ==
    \A i \in DOMAIN served : served[i].control.released =>
        LET x == served[i]
            r == x.request
            sources == Sources(r, x.evidence) IN
        /\ Cited(x.output) \subseteq Range(sources)
        /\ \A s \in Narrative(x.output) : Supported(s, Joined(r, x.evidence, sources))
        /\ \A c \in Claims(x.output) :
              /\ c.cites # <<>> /\ ClaimSupported(c, r, x.evidence)
              /\ c.derivation # Nothing =>
                    LET d == c.derivation IN
                    /\ Measured(r, d.metric, d.unit)
                    /\ Holds(d.operator, r.metrics[d.metric].value, d.threshold) = d.holds
                    /\ d.rule # Nothing =>
                          \E e \in x.rules : e.rule = d.rule /\ e.threshold = d.threshold
                    /\ \A e \in x.rules : e.rule = d.rule => e.holds = d.holds
        /\ \A e \in x.rules : e.mandatory => e.status # "unevaluable"
        /\ ~Says(Body(x.output), Prohibited \union Material)

(* "The same frozen exclusions must be supplied": a group is in one split,  *)
(* and once in a test split it is in no later training or validation split, *)
(* whatever cutoff later exports are given.                                 *)
GoldStaysOut ==
    \A m, n \in DOMAIN datasets : m <= n =>
        \A d \in DOMAIN datasets[m].split, e \in DOMAIN datasets[n].split :
            datasets[m].split[d] = "test" /\ d.group = e.group => datasets[n].split[e] = "test"

=============================================================================
