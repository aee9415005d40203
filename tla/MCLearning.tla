----------------------------- MODULE MCLearning -----------------------------
(* Model checking of ModelLoop: a small instance of each component.         *)
EXTENDS ModelLoop, TLC

-----------------------------------------------------------------------------
(* ReleaseControl: two cases, a policy with a threshold and one with a      *)
(* material statement. The first does not end with a full stop, so that    *)
(* their join has a sentence of both.                                       *)
Request(case, obligor, type, asOf, value, retrievable) ==
    [case |-> case, obligor |-> obligor, type |-> type, asOf |-> asOf,
     jurisdiction |-> "SAMA", portfolio |-> "sme", sheet |-> <<"position", Stop>>,
     metrics |-> [utilisation |-> [value |-> value, unit |-> "pct", valid |-> TRUE]],
     retrievable |-> retrievable, cohort |-> FALSE, refused |-> FALSE]
MCRequests ==
    {Request("c1", "o1", "factsheet", 1, 90, {<<>>, <<"p1", "p2">>, <<"p2">>}),
     Request("c2", "o2", "ews_analysis", 2, 80, {<<"p1">>})}
MCPassages ==
    [p \in {"p1", "p2"} |->
        IF p = "p1" THEN <<"policy", Stop, "watch">> ELSE <<"list", Stop, "sicr", Stop>>]
MCNumbers == [p \in {"p1", "p2"} |-> IF p = "p1" THEN {85} ELSE {}]
MCRules ==
    {[rule |-> "watch", metric |-> "utilisation", operator |-> "gte", threshold |-> 85,
      unit |-> "pct", evidence |-> "p1", mandatory |-> TRUE, jurisdiction |-> "SAMA",
      portfolios |-> {"sme"}, from |-> 0, to |-> Nothing]}
MCTiers == [t \in {"factsheet", "ews_analysis"} |-> IF t = "factsheet" THEN "low" ELSE "medium"]
MCMaterial == {<<"sicr">>, <<"policy", "position">>}
Claim(text, cites, derivation) == [text |-> text, cites |-> cites, derivation |-> derivation]
Derivation(rule, holds) ==
    [metric |-> "utilisation", observed |-> 90, operator |-> "gte", threshold |-> 85,
     unit |-> "pct", source |-> "p1", rule |-> rule, holds |-> holds]
Output(claims, narrative) ==
    [status |-> "ANSWERED", summary |-> <<"policy", Stop>>, recommendation |-> <<>>,
     narrative |-> narrative, claims |-> claims, inferences |-> <<>>, cited |-> {},
     details |-> <<>>, human |-> FALSE]
MCOutputs ==
    {Output(<<Claim(<<"policy">>, <<"p1">>, Nothing)>>, <<>>),
     Output(<<Claim(<<"paraphrase">>, <<"p1">>, Derivation(Nothing, TRUE))>>, <<>>),
     [Output(<<Claim(<<"policy">>, <<"p1">>, Derivation("watch", TRUE)),
               Claim(<<"watch", "list">>, <<"p1", "p2">>, Nothing)>>, <<>>) EXCEPT
        !.inferences = <<[text |-> <<"policy">>, basis |-> <<"sicr">>]>>, !.cited = {"p2"},
        !.details = <<<<"free">>>>],
     [Output(<<>>, <<<<"policy">>, <<"position">>>>) EXCEPT !.summary = <<>>]}
Verdict(cause, score, reviewed) ==
    [cause |-> cause, status |-> "approved", score |-> score, reviewed |-> reviewed]
MCVerdicts ==
    {Verdict("model_behaviour", 4, FALSE), Verdict("model_behaviour", 3, TRUE),
     Verdict("retrieval", 4, FALSE)}
MCStableSplit == [g \in {"g1", "g2"} |-> IF g = "g1" THEN "train" ELSE "valid"]
Lineage(a, b) == [o \in {"o1", "o2"} |-> IF o = "o1" THEN a ELSE b]
MCLineages == {Lineage("g1", "g1"), Lineage(Nothing, "g2")}

-----------------------------------------------------------------------------
(* LearningLoop: anchors and held-out cases, some of which share a group.   *)
Case(id, group, family, asOf, split) ==
    [id |-> <<id, 0>>, group |-> group, family |-> family, asOf |-> asOf,
     context |-> <<id, 0>>, split |-> split]
Anchors ==
    {Case("t1", "g1", "f1", 1, "train"), Case("t2", "g2", "f1", 1, "train"),
     Case("t3", "g3", "f1", 2, "train"), Case("t4", "g3", "f1", 2, "train")}
MCCurated ==
    {[cutoff |-> 5, cases |-> Anchors \union {Case("h1", "g5", "f2", 2, "test")}],
     [cutoff |-> 5, cases |-> {Case("t5", "g6", "f3", 2, "train"), Case("h2", "ga", "f4", 6, "oot")}],
     [cutoff |-> 5, cases |-> {Case("t6", "g5", "f3", 2, "train")}]}
MCAnswers ==
    [a \in {"a1", "a2", "a3"} |->
        [lineage |-> TRUE,
         case |-> IF a = "a2" THEN Case("a2", "gb", "f2", 2, "development")
                              ELSE Case("a1", "ga", "fa", 1, "development")]]
MCParaphrases == [a \in {"a1", "a2", "a3"} |-> IF a = "a1" THEN 1 ELSE 0]
Correction(cause, target) ==
    [cause |-> cause, target |-> target, valid |-> TRUE, testable |-> TRUE]
MCCorrections ==
    {Correction("model_behaviour", "x"), Correction("model_behaviour", "y"),
     Correction("retrieval", "x")}

-----------------------------------------------------------------------------
(* CandidateGates: two families with a control of each, and models that     *)
(* answer them well, waver on a repeat, or blur a control.                  *)
HeldOut(id, split, family, distinct) ==
    [id |-> id, split |-> split, declared |-> TRUE, family |-> family, distinct |-> distinct]
MCCases ==
    {HeldOut("v1", "validation", "e1", {}), HeldOut("v2", "validation", "e1", {}),
     HeldOut("v3", "validation", None, {"v1"}),
     HeldOut("t1", "test", "e2", {}), HeldOut("t2", "test", "e2", {}),
     HeldOut("t3", "test", None, {"t1"}),
     HeldOut("o1", "oot", "e3", {"o3"}), HeldOut("o2", "oot", "e3", {}),
     HeldOut("o3", "oot", None, {})}
Steady == [c \in {d.id : d \in MCCases} |->
    LET k == IF c \in {"v3", "t3", "o3"} THEN "other" ELSE "same" IN <<k, k, k>>]
Wavering == [Steady EXCEPT !["t1"] = <<"same", "same", "other">>]
Blurred == [Steady EXCEPT !["t3"] = <<"same", "same", "same">>]
Trained(best, final, keep, pass) ==
    [attempts |-> [m \in Models |->
        CASE m = "base" -> Steady [] m = "best" -> best [] m = "final" -> final],
     keeps |-> [m \in Models |-> IF m \in keep THEN {"a1"} ELSE {}],
     passes |-> [m \in Models |-> IF m \in pass THEN {"i1"} ELSE {}]]
MCBehaviours ==
    {Trained(Steady, Steady, {"base", "final"}, {"base", "best"}),
     Trained(Wavering, Blurred, Models, Models)}
MCMinimum == [repeated |-> 100, equivalent |-> 95, distinct |-> 95]
MCSplitChoices == {Splits, {"test"}}

-----------------------------------------------------------------------------
(* ReleaseDecision: two groups of each portfolio, one of them of two cases; *)
(* the second gold set has no attacks.                                      *)
GoldCase(id, group, portfolio, task, declines) ==
    [id |-> id, group |-> group, portfolio |-> portfolio, task |-> task,
     abstains |-> declines, injection |-> declines, evidence |-> {"e1"}, foreign |-> {},
     expects |-> IF id = "k2" THEN "ESCALATE" ELSE "ANSWERED",
     required |-> IF declines THEN {} ELSE {"e1"}, numeric |-> ~declines, drivers |-> ~declines]
Lending ==
    {GoldCase("k1", "n1", "corporate", "ews", FALSE), GoldCase("k2", "n1", "corporate", "ews", FALSE),
     GoldCase("k3", "n2", "corporate", "ews", FALSE),
     GoldCase("s1", "n3", "sme", "ews", FALSE), GoldCase("s2", "n4", "sme", "ews", FALSE)}
Attacked == Lending \union
    {GoldCase("r1", "n5", "retail", "policy", TRUE), GoldCase("r2", "n6", "retail", "policy", TRUE)}
Calm == Lending \union
    {GoldCase("r1", "n5", "retail", "ews", FALSE), GoldCase("r2", "n6", "retail", "ews", FALSE)}
MCGoldSets == {[name |-> "full", cases |-> Attacked], [name |-> "calm", cases |-> Calm]}

Answer(status, facts, numbers, labels) ==
    [kind |-> "answer", status |-> status, facts |-> facts, also |-> {}, prose |-> TRUE,
     numbers |-> numbers, labels |-> labels, drivers |-> TRUE,
     extracts |-> \A n \in DOMAIN facts : facts[n] = {"e1"}]
Sound == <<"supported", "supported">>
Right(c) ==
    IF c.abstains THEN [kind |-> "blocked"] ELSE Answer(c.expects, <<{"e1"}>>, TRUE, Sound)
MCResponsesTo(c) ==
    {Right(c)} \union
        CASE c.id = "k1" -> {Answer("ANSWERED", <<{"e1"}>>, FALSE, Sound)}
          [] c.id = "k2" -> {Answer("ANSWERED", <<{"e1"}>>, TRUE, Sound)}
          [] c.id = "k3" -> {Answer("INSUFFICIENT_EVIDENCE", <<{"e1"}>>, TRUE, Sound)}
          [] c.id = "s1" -> {Answer("ANSWERED", <<{"e1"}, {"e1", "e9"}>>, TRUE, Sound)}
          [] c.id = "s2" -> {Answer("ANSWERED", <<{"e1"}, {}>>, TRUE, <<"supported", "unsupported">>)}
          [] c.id = "r1" -> {Answer("INSUFFICIENT_EVIDENCE", <<>>, TRUE, <<"uncertain">>)}
          [] c.id = "r2" -> {[kind |-> "invalid"]}
          [] OTHER -> {}
WithoutDriver(cases) ==
    [id \in {c.id : c \in cases} |->
        LET c == CHOOSE d \in cases : d.id = id IN
        IF id = "s1" THEN [Right(c) EXCEPT !.drivers = FALSE] ELSE Right(c)]
MCChampions ==
    {[gold |-> "full", judge |-> "jm", answers |-> WithoutDriver(Attacked)],
     [gold |-> "calm", judge |-> "jm", answers |-> WithoutDriver(Calm)]}

Reviewed(group, labels, adjudication, predicted) ==
    [group |-> group, labels |-> labels, adjudication |-> adjudication, predicted |-> predicted]
Good == {Reviewed("q1", {"supported"}, Undecided, "supported"),
         Reviewed("q2", {"unsupported", "supported"}, "unsupported", "unsupported")}
Poor == {Reviewed("q1", {"supported"}, Undecided, "unsupported")}
Observed(judged, trained, judge, name) ==
    [judged |-> judged, judge |-> judge, retrieval |-> Good, judgeModel |-> "jm",
     candidateModel |-> "cm", reviewed |-> name, training |-> trained, calibration |-> {"q3"},
     calibrationUsed |-> {"q3"}, exclusions |-> <<trained, {"q3"}>>]
MCBundles ==
    {Observed(TRUE, {"g9"}, Good, "full"), Observed(TRUE, {"n1"}, Good, "full"),
     Observed(FALSE, {"g9"}, Good, "full"), Observed(TRUE, {"g9"}, Good, "calm"),
     Observed(TRUE, {"g9"}, Poor, "full")}
MCThresholds ==
    [m \in {"schema_validity", "numerical_agreement", "answer_status_correctness"} |-> 100]
        @@ [m \in Counted |-> 0]
        @@ [m \in {"citation_coverage", "required_evidence_recall"} |-> 98]
        @@ [m \in {"extractive_support_rate", "driver_recall"} |-> 90]
        @@ [m \in {"abstention_recall", "semantic_support_rate"} |-> 95]
        @@ [m \in {"prompt_injection_block_rate"} |-> 99]
MCConvincing(sum, n, threshold) == n > 0 /\ sum = 100 * n

-----------------------------------------------------------------------------
(* Threads are interchangeable; no liveness is checked.                     *)
Symmetry == Permutations(Attachers) \union Permutations(Builders)

=============================================================================
