----------------------------- MODULE ModelLoop -----------------------------
(***************************************************************************)
(* What becomes of answers: what is released, learned from it, trained,    *)
(* put through the gates, and let into use. The five components share no   *)
(* state, and a behaviour is of one of them.                               *)
(***************************************************************************)
EXTENDS ReleaseControl, CheckpointSelection, LearningLoop, CandidateGates, ReleaseDecision

VARIABLE part
loopVars == <<part, releaseVars, trainingVars, learningVars, gatesVars, decisionVars>>

(* What a part is given is fixed where another part is checked.             *)
Given(p, value, values) == part = p \/ value = CHOOSE x \in values : TRUE

LoopInit ==
    /\ part \in {"release", "training", "datasets", "gates", "decision"}
    /\ ReleaseInit /\ TrainingInit /\ LearningInit /\ GatesInit /\ DecisionInit
    /\ Given("gates", behaviour, Behaviours)
    /\ Given("decision", gold, GoldSets)
    /\ Given("decision", champion, Champions)
    /\ Given("decision", bundle, Bundles)
ReleaseStep ==
    /\ part = "release" /\ ReleaseNext
    /\ UNCHANGED <<part, trainingVars, learningVars, gatesVars, decisionVars>>
TrainingStep ==
    /\ part = "training" /\ TrainingNext
    /\ UNCHANGED <<part, releaseVars, learningVars, gatesVars, decisionVars>>
LearningStep ==
    /\ part = "datasets" /\ LearningNext
    /\ UNCHANGED <<part, releaseVars, trainingVars, gatesVars, decisionVars>>
GatesStep ==
    /\ part = "gates" /\ GatesNext
    /\ UNCHANGED <<part, releaseVars, trainingVars, learningVars, decisionVars>>
DecisionStep ==
    /\ part = "decision" /\ DecisionNext
    /\ UNCHANGED <<part, releaseVars, trainingVars, learningVars, gatesVars>>
LoopNext == ReleaseStep \/ TrainingStep \/ LearningStep \/ GatesStep \/ DecisionStep

LoopSpec == LoopInit /\ [][LoopNext]_loopVars

(* The gates alone.                                                         *)
RegressionSpec == LoopInit /\ part = "gates" /\ [][LoopNext]_loopVars

(* The types of the five components.                                        *)
LoopTypeOK ==
    CASE part = "release"  -> ReleaseTypeOK
      [] part = "training" -> TrainingTypeOK
      [] part = "datasets" -> LearningTypeOK /\ DatasetsFit
      [] part = "gates"    -> GatesTypeOK
      [] part = "decision" -> DecisionTypeOK

=============================================================================
