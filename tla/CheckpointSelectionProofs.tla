---------------------- MODULE CheckpointSelectionProofs ----------------------
(***************************************************************************)
(* Proofs about CheckpointSelection for any training budget, patience,      *)
(* losses and threads: a job gets whole what a successful training recorded *)
(* for the checkpoint it names, and the best checkpoint is the best.       *)
(***************************************************************************)
EXTENDS CheckpointSelection, TLAPS

Weights == Nat \union {NoWeights}
Taking == [pc : {"idle", "copy", "copying", "verify", "queued", "hashed", "loaded", "exported", "failed"},
           checkpoint : Checkpoint, hash : Weights, job : Queued \union {NoWeights}]
TrainingTypes ==
    /\ training \in [pc : {"prepared", "training", "final", "early_stopped", "failed", "killed"},
                     at : Nat, best : Weights, bad : Nat, bestAt : Weights, baseline : Weights,
                     selected : Weights]
    /\ saved \in [Checkpoint -> Weights]
    /\ validated \subseteq [at : Nat, loss : Nat]
    /\ attaching \in [Attachers -> Taking]
    /\ adapters \in [Queued -> Taking]

Successful == training.pc = "early_stopped" \/ Completed
Succeeded == manifest.status \in {"completed", "early_stopped"}

(* Where the run is says what was validated and saved.                      *)
TrainingShape ==
    /\ Successful => \E v \in validated : v.at = training.at
    /\ training.pc \in {"prepared", "training"} => \A v \in validated : v.at # IterationsFor
    /\ training.at # 0 => training.baseline # NoWeights
    /\ saved["final"] # NoWeights =>
          /\ training.pc \in {"failed", "killed"} \/ Successful
          /\ saved["final"] = training.at

(* The manifest of a successful run was written last.                       *)
ManifestIsLast ==
    Succeeded =>
        /\ Successful
        /\ saved["final"] # NoWeights
        /\ manifest.best = saved["best"] /\ manifest.final = saved["final"]

(* As long as nothing went wrong, the loss to beat is the baseline's or the *)
(* saved best's, and no recorded loss beats it by more than min_delta.      *)
BestSoFar ==
    training.pc \notin {"failed", "killed"} =>
        /\ training.baseline = NoWeights => validated = {} /\ saved["best"] = NoWeights
        /\ training.baseline # NoWeights =>
              /\ training.best \in Nat /\ training.best <= training.baseline
              /\ \A v \in validated :
                    /\ v.at = 0 => v.loss = training.baseline
                    /\ v.at >= Accumulation => training.best <= v.loss + MinDelta
        /\ saved["best"] # NoWeights =>
              /\ saved["best"] >= Accumulation
              /\ [at |-> saved["best"], loss |-> training.best] \in validated
              /\ training.best < training.baseline - MinDelta

(* Who takes a checkpoint has the hash of what was saved.                   *)
Named(x) == Succeeded /\ x.hash # NoWeights /\ x.hash = saved[x.checkpoint]
TakersAreServed ==
    /\ \A t \in Attachers : attaching[t].pc # "idle" => Named(attaching[t])
    /\ \A j \in Queued : adapters[j].pc \notin {"idle", "failed"} => Named(adapters[j])

CheckpointInv ==
    TrainingTypes /\ TrainingShape /\ ManifestIsLast /\ BestSoFar /\ TakersAreServed

-----------------------------------------------------------------------------
(* The iteration budget is positive.                                        *)
LEMMA CeilDivPositive == ASSUME NEW a \in Nat \ {0}, NEW b \in Nat \ {0}
                         PROVE  CeilDiv(a, b) \in Nat \ {0}
  <1> DEFINE q == (a + b - 1) \div b
  <1>1. q \in Int
    OBVIOUS
  <1>2. b * q <= a + b - 1 /\ a + b - 1 < b * (q + 1)
    OBVIOUS
  <1>3. q >= 1
    <2> SUFFICES ASSUME q <= 0 PROVE FALSE
      BY <1>1
    <2>1. b * (q + 1) <= b
      BY <1>1
    <2> QED
      BY <1>2, <2>1
  <1> QED
    BY <1>1, <1>3 DEF CeilDiv

(* A run has at least one iteration, so its final weights are trained.      *)
LEMMA IterationsPositive == IterationsFor \in Nat \ {0}
  <1>1. Examples * Epochs \in Nat \ {0}
    BY TrainingAssumption
  <1>2. CeilDiv(Examples * Epochs, Batch) \in Nat \ {0}
    BY <1>1, TrainingAssumption, CeilDivPositive
  <1>3. CeilDiv(CeilDiv(Examples * Epochs, Batch), Accumulation) \in Nat \ {0}
    BY <1>2, TrainingAssumption, CeilDivPositive
  <1> QED
    BY <1>3, TrainingAssumption DEF IterationsFor

(* Nothing is trained, saved or taken at first.                             *)
LEMMA CheckpointInit == TrainingInit => CheckpointInv
  <1> SUFFICES ASSUME TrainingInit PROVE CheckpointInv
    OBVIOUS
  <1> USE DEF TrainingInit
  <1>1. TrainingTypes
    BY DEF TrainingTypes, Weights, Taking, Idle, Checkpoint
  <1>2. TrainingShape
    BY DEF TrainingShape, Successful, Completed, Checkpoint
  <1>3. ManifestIsLast /\ BestSoFar
    BY DEF ManifestIsLast, Succeeded, NoManifest, BestSoFar, Checkpoint
  <1>4. TakersAreServed
    BY DEF TakersAreServed, Idle
  <1> QED
    BY <1>1, <1>2, <1>3, <1>4 DEF CheckpointInv

(* Before a manifest of success, nobody takes anything.                     *)
LEMMA NobodyBefore ==
    ASSUME CheckpointInv, ~Succeeded, UNCHANGED <<attaching, adapters>> PROVE TakersAreServed'
  BY DEF CheckpointInv, TakersAreServed, Named

(* A validation, during training or after it.                               *)
LEMMA ReportStep ==
    ASSUME CheckpointInv, NEW at \in Nat, NEW loss \in Nat, Report(at, loss),
           UNCHANGED <<manifest, copied, attaching, adapters>>,
           \/ training.pc = "training" /\ at < IterationsFor /\ (at = 0 => training.at = 0)
           \/ training.pc = "final" /\ at = IterationsFor /\ ~Completed
    PROVE  CheckpointInv'
  <1> USE TrainingAssumption, IterationsPositive
  <1> DEFINE v == [at |-> at, loss |-> loss]
  <1>1. /\ validated' = validated \union {v} /\ v.at = at /\ v.loss = loss
        /\ v \in [at : Nat, loss : Nat]
    BY DEF Report
  <1>2. ~Succeeded /\ ~Succeeded' /\ saved["final"] = NoWeights
    BY DEF CheckpointInv, TrainingShape, ManifestIsLast, Successful, Completed, Succeeded
  <1>3. TakersAreServed' /\ ManifestIsLast'
    BY <1>2, NobodyBefore DEF ManifestIsLast
  <1>4. /\ "best" \in Checkpoint /\ "final" \in Checkpoint
    BY DEF Checkpoint
  <1> HIDE DEF v
  <1>5. CASE at = 0 /\ training.baseline = NoWeights /\ training' = Baseline(loss) /\ UNCHANGED saved
    <2>1. TrainingTypes'
      BY <1>1, <1>5 DEF CheckpointInv, TrainingTypes, Weights, Baseline
    <2>2. /\ training'.pc = training.pc /\ training'.at = training.at
          /\ training'.baseline = loss /\ training'.best = loss
      BY <1>5 DEF CheckpointInv, TrainingTypes, Baseline
    <2>3. training.pc = "training" /\ training.at = 0
      BY <1>5
    <2>4. TrainingShape'
      BY <1>1, <1>2, <1>5, <2>2, <2>3 DEF CheckpointInv, TrainingTypes, TrainingShape, Successful, Completed
    <2>5. BestSoFar'
      BY <1>1, <1>5, <2>2, <2>3 DEF CheckpointInv, BestSoFar
    <2> QED
      BY <1>3, <2>1, <2>4, <2>5 DEF CheckpointInv
  <1>6. CASE training' = [training EXCEPT !.pc = "failed"] /\ UNCHANGED saved
    <2>1. TrainingTypes'
      BY <1>1, <1>6 DEF CheckpointInv, TrainingTypes
    <2>2. training'.pc = "failed" /\ training'.at = training.at
          /\ training'.baseline = training.baseline
      BY <1>6 DEF CheckpointInv, TrainingTypes
    <2>3. TrainingShape' /\ BestSoFar'
      BY <1>2, <1>6, <2>2 DEF CheckpointInv, TrainingShape, Successful, Completed, BestSoFar
    <2> QED
      BY <1>3, <2>1, <2>3 DEF CheckpointInv
  <1>7. CASE at > 0 /\ training.baseline # NoWeights
    <2>a. training.best \in Nat /\ training.baseline \in Nat
      BY <1>7 DEF CheckpointInv, BestSoFar, TrainingTypes, Weights, Completed
    <2>1. CASE at < Accumulation /\ training' = [training EXCEPT !.at = at] /\ UNCHANGED saved
      <3>1. TrainingTypes'
        BY <1>1, <2>1 DEF CheckpointInv, TrainingTypes
      <3>2. /\ training'.pc = training.pc /\ training'.at = at /\ training'.best = training.best
            /\ training'.baseline = training.baseline
        BY <2>1 DEF CheckpointInv, TrainingTypes
      <3>3. TrainingShape'
        BY <1>1, <1>2, <1>7, <2>1, <3>2 DEF CheckpointInv, TrainingShape, Successful, Completed
      <3>4. BestSoFar'
        BY <1>1, <1>7, <2>1, <3>2 DEF CheckpointInv, BestSoFar
      <3> QED
        BY <1>3, <3>1, <3>3, <3>4 DEF CheckpointInv
    <2>2. CASE /\ at >= Accumulation /\ Improves(loss)
               /\ training' = Better(at, loss) /\ saved' = [saved EXCEPT !["best"] = at]
      <3>1. TrainingTypes'
        BY <1>1, <2>2 DEF CheckpointInv, TrainingTypes, Better, Weights
      <3>2. /\ training'.pc = training.pc /\ training'.at = at /\ training'.best = loss
            /\ training'.baseline = training.baseline /\ loss < training.best - MinDelta
            /\ saved'["best"] = at /\ saved'["final"] = saved["final"]
        BY <1>4, <2>2 DEF CheckpointInv, TrainingTypes, Better, Improves
      <3>3. TrainingShape'
        BY <1>1, <1>2, <1>7, <3>2 DEF CheckpointInv, TrainingShape, Successful, Completed
      <3>4. training.best <= training.baseline
        BY <1>7 DEF CheckpointInv, BestSoFar, Completed
      <3>5. BestSoFar'
        BY <1>1, <1>7, <2>2, <2>a, <3>2, <3>4 DEF CheckpointInv, BestSoFar, v, TrainingTypes
      <3> QED
        BY <1>3, <3>1, <3>3, <3>5 DEF CheckpointInv
    <2>3. CASE at >= Accumulation /\ ~Improves(loss) /\ training' = Worse(at) /\ UNCHANGED saved
      <3>a. PICK pc \in {training.pc, "early_stopped"} :
              training' = [training EXCEPT !.bad = training.bad + 1, !.at = at, !.pc = pc]
        BY <2>3 DEF CheckpointInv, TrainingTypes, Worse
      <3>b. /\ training.bad + 1 \in Nat
            /\ pc \in {"prepared", "training", "final", "early_stopped", "failed", "killed"}
        BY DEF CheckpointInv, TrainingTypes
      <3>1. TrainingTypes'
        BY <1>1, <2>3, <3>a, <3>b DEF CheckpointInv, TrainingTypes
      <3>2. /\ training'.pc = training.pc
                  \/ (training.pc = "training" /\ training'.pc = "early_stopped")
            /\ training'.at = at /\ training'.best = training.best
            /\ training'.baseline = training.baseline /\ ~(loss < training.best - MinDelta)
        BY <2>3 DEF CheckpointInv, TrainingTypes, Worse, Improves
      <3>3. TrainingShape'
        BY <1>1, <1>2, <1>7, <2>3, <3>2 DEF CheckpointInv, TrainingShape, Successful, Completed
      <3>4. BestSoFar'
        BY <1>1, <1>7, <2>3, <2>a, <3>2 DEF CheckpointInv, BestSoFar
      <3> QED
        BY <1>3, <3>1, <3>3, <3>4 DEF CheckpointInv
    <2> QED
      BY <1>7, <2>1, <2>2, <2>3 DEF Report
  <1> QED
    BY <1>5, <1>6, <1>7 DEF Report

-----------------------------------------------------------------------------
(* The invariant is inductive.                                              *)
LEMMA CheckpointStep == CheckpointInv /\ [TrainingNext]_trainingVars => CheckpointInv'
  <1> SUFFICES ASSUME CheckpointInv, [TrainingNext]_trainingVars PROVE CheckpointInv'
    OBVIOUS
  <1> USE TrainingAssumption, IterationsPositive
  <1>1. CASE ValidateDuring
    <2>1. PICK at \in {0} \union (training.at + 1)..(IterationsFor - 1), loss \in Losses :
            (at = 0 => training.at = 0) /\ Report(at, loss)
      BY <1>1 DEF ValidateDuring
    <2>2. at \in Nat /\ loss \in Nat /\ at < IterationsFor
      BY DEF CheckpointInv, TrainingTypes
    <2> QED
      BY <1>1, <2>1, <2>2, ReportStep DEF ValidateDuring
  <1>2. CASE ValidateFinal
    <2>1. PICK loss \in Losses : Report(IterationsFor, loss)
      BY <1>2 DEF ValidateFinal
    <2> QED
      BY <1>2, <2>1, ReportStep DEF ValidateFinal, Completed
  <1>3. ASSUME NEW pc \in {"training", "final", "failed", "killed"},
               training' = [training EXCEPT !.pc = pc], ~Succeeded,
               UNCHANGED <<saved, manifest, copied, attaching, adapters, validated>>,
               pc = "training" => training.pc = "prepared",
               pc = "final" => training.pc = "training"
        PROVE  CheckpointInv'
    <2>1. TrainingTypes' /\ training'.pc = pc /\ training'.at = training.at
          /\ training'.best = training.best /\ training'.baseline = training.baseline
      BY <1>3 DEF CheckpointInv, TrainingTypes
    <2>2. TrainingShape'
      BY <1>3, <2>1 DEF CheckpointInv, TrainingShape, Successful, Completed
    <2>3. BestSoFar'
      BY <1>3, <2>1 DEF CheckpointInv, BestSoFar
    <2>4. ManifestIsLast' /\ TakersAreServed'
      BY <1>3, NobodyBefore DEF ManifestIsLast, Succeeded
    <2> QED
      BY <2>1, <2>2, <2>3, <2>4 DEF CheckpointInv
  <1>4. CASE StartTraining \/ TrainToTheEnd \/ TrainingFails \/ KillTraining
    <2>1. ~Succeeded
      BY <1>4 DEF StartTraining, TrainToTheEnd, TrainingFails, KillTraining, Succeeded, NoManifest,
                  CheckpointInv, ManifestIsLast, Successful, Completed
    <2> QED
      BY <1>3, <1>4, <2>1 DEF StartTraining, TrainToTheEnd, TrainingFails, KillTraining
  <1>5. CASE SaveFinal
    <2>1. /\ training.pc = "failed" \/ Successful
          /\ saved' = [saved EXCEPT !["final"] = training.at]
          /\ UNCHANGED <<training, manifest, attaching, adapters, validated>>
      BY <1>5 DEF SaveFinal, Successful, Succeeded, NoManifest
    <2>2. TrainingTypes' /\ saved'["best"] = saved["best"] /\ saved'["final"] = training.at
      BY <2>1 DEF CheckpointInv, TrainingTypes, Weights, Checkpoint
    <2>3. ~Succeeded /\ ~Succeeded'
      BY <1>5 DEF SaveFinal, Succeeded, NoManifest
    <2>4. TrainingShape'
      BY <2>1, <2>2 DEF CheckpointInv, TrainingShape, Successful, Completed
    <2>5. BestSoFar'
      BY <2>1, <2>2 DEF CheckpointInv, BestSoFar
    <2> QED
      BY <2>1, <2>2, <2>3, <2>4, <2>5, NobodyBefore DEF CheckpointInv, ManifestIsLast
  <1>6. ASSUME UNCHANGED <<training, saved, validated>>
        PROVE  TrainingShape' /\ BestSoFar'
    BY <1>6 DEF CheckpointInv, TrainingShape, BestSoFar, Successful, Completed
  <1>7. CASE Complete \/ SaveFails
    <2>1. /\ UNCHANGED <<training, saved, attaching, adapters, validated>>
          /\ manifest = NoManifest /\ ~Succeeded
      BY <1>7 DEF Complete, SaveFails, Succeeded, NoManifest
    <2>2. TrainingTypes'
      BY <2>1 DEF CheckpointInv, TrainingTypes
    <2>3. ManifestIsLast'
      <3>1. CASE Complete
        BY <2>1, <3>1 DEF Complete, CheckpointInv, TrainingShape, ManifestIsLast, Succeeded,
                          Successful, Completed
      <3>2. CASE SaveFails
        BY <3>2 DEF SaveFails, NoManifest, ManifestIsLast, Succeeded
      <3> QED
        BY <1>7, <3>1, <3>2
    <2> QED
      BY <1>6, <2>1, <2>2, <2>3, NobodyBefore DEF CheckpointInv
  <1>8. ASSUME UNCHANGED <<training, saved, manifest, validated>>, TrainingTypes', TakersAreServed'
        PROVE  CheckpointInv'
    BY <1>6, <1>8 DEF CheckpointInv, ManifestIsLast, Succeeded, Successful, Completed
  <1>9. ASSUME NEW t \in Attachers, Attach(t) PROVE CheckpointInv'
    <2>1. PICK c \in Checkpoint, j \in Queued, pc \in {"copy", "verify"} :
            /\ Usable(c)
            /\ attaching' = [attaching EXCEPT ![t] =
                  [pc |-> pc, checkpoint |-> c, hash |-> saved[c], job |-> j]]
      BY <1>9 DEF Attach
    <2>2. UNCHANGED <<training, saved, manifest, adapters, validated>>
      BY <1>9 DEF Attach
    <2> DEFINE new == [pc |-> pc, checkpoint |-> c, hash |-> saved[c], job |-> j]
    <2>3. new \in Taking /\ new.hash = saved[new.checkpoint] /\ new.hash # NoWeights
      BY <2>1 DEF Taking, Usable, CheckpointInv, TrainingTypes
    <2> HIDE DEF new
    <2>4. TrainingTypes'
      BY <2>1, <2>2, <2>3 DEF CheckpointInv, TrainingTypes, new
    <2>5. TakersAreServed'
      BY <2>1, <2>2, <2>3 DEF CheckpointInv, TakersAreServed, Named, Succeeded, TrainingTypes, Usable, new
    <2> QED
      BY <1>8, <2>2, <2>4, <2>5
  <1>10. ASSUME NEW t \in Attachers, BeginCopy(t) \/ EndCopy(t) PROVE CheckpointInv'
    <2>1. PICK pc \in {"copying", "verify"} :
            /\ attaching[t].pc # "idle" /\ attaching' = [attaching EXCEPT ![t].pc = pc]
            /\ UNCHANGED <<training, saved, manifest, adapters, validated>>
      BY <1>10 DEF BeginCopy, EndCopy
    <2>2. TrainingTypes'
      BY <2>1 DEF CheckpointInv, TrainingTypes, Taking
    <2>3. TakersAreServed'
      BY <2>1 DEF CheckpointInv, TakersAreServed, Named, Succeeded, TrainingTypes, Taking
    <2> QED
      BY <1>8, <2>1, <2>2, <2>3
  <1>11. ASSUME NEW t \in Attachers, VerifyCopy(t) PROVE CheckpointInv'
    <2>1. /\ attaching[t].pc # "idle" /\ attaching' = [attaching EXCEPT ![t] = Idle]
          /\ UNCHANGED <<training, saved, manifest, validated>>
          /\ \/ adapters' = adapters
             \/ adapters' = [adapters EXCEPT ![attaching[t].job] =
                                [attaching[t] EXCEPT !.pc = "queued"]]
      BY <1>11 DEF VerifyCopy
    <2> DEFINE new == [attaching[t] EXCEPT !.pc = "queued"]
    <2>2. new \in Taking /\ Named(new) /\ Idle \in Taking /\ Idle.pc = "idle"
      BY <2>1 DEF CheckpointInv, TakersAreServed, Named, TrainingTypes, Taking, Idle, Checkpoint, Weights
    <2> HIDE DEF new
    <2>3. TrainingTypes'
      BY <2>1, <2>2 DEF CheckpointInv, TrainingTypes, new
    <2>4. TakersAreServed'
      BY <2>1, <2>2 DEF CheckpointInv, TakersAreServed, Named, Succeeded, TrainingTypes, new
    <2> QED
      BY <1>8, <2>1, <2>3, <2>4
  <1>12. CASE DashboardCrash
    <2>1. TrainingTypes' /\ TakersAreServed'
      BY <1>12 DEF DashboardCrash, CheckpointInv, TakersAreServed, Named, Succeeded, TrainingTypes,
                   Taking, Idle, Checkpoint, Weights
    <2> QED
      BY <1>8, <1>12, <2>1 DEF DashboardCrash
  <1>13. CASE LoadAdapter
    <2>1. PICK j \in Queued, pc \in {"failed", "hashed", "loaded"} :
            /\ adapters[j].pc \notin {"idle", "failed"} /\ adapters' = [adapters EXCEPT ![j].pc = pc]
            /\ UNCHANGED <<training, saved, manifest, attaching, validated>>
      BY <1>13 DEF LoadAdapter
    <2>2. TrainingTypes'
      BY <2>1 DEF CheckpointInv, TrainingTypes, Taking
    <2>3. TakersAreServed'
      BY <2>1 DEF CheckpointInv, TakersAreServed, Named, Succeeded, TrainingTypes, Taking
    <2> QED
      BY <1>8, <2>1, <2>2, <2>3
  <1>14. CASE Fuse
    <2>1. PICK c \in Checkpoint, j \in Queued :
            /\ Usable(c)
            /\ adapters' = [adapters EXCEPT ![j] =
                  [pc |-> "exported", checkpoint |-> c, hash |-> saved[c], job |-> j]]
            /\ UNCHANGED <<training, saved, manifest, attaching, validated>>
      BY <1>14 DEF Fuse
    <2> DEFINE new == [pc |-> "exported", checkpoint |-> c, hash |-> saved[c], job |-> j]
    <2>2. new \in Taking /\ new.hash = saved[new.checkpoint] /\ new.hash # NoWeights
      BY <2>1 DEF Taking, Usable, CheckpointInv, TrainingTypes
    <2> HIDE DEF new
    <2>3. TrainingTypes'
      BY <2>1, <2>2 DEF CheckpointInv, TrainingTypes, new
    <2>4. TakersAreServed'
      BY <2>1, <2>2 DEF CheckpointInv, TakersAreServed, Named, Succeeded, TrainingTypes, Usable, new
    <2> QED
      BY <1>8, <2>1, <2>3, <2>4
  <1>15. CASE UNCHANGED trainingVars
    <2>1. TrainingTypes' /\ TakersAreServed'
      BY <1>15 DEF trainingVars, CheckpointInv, TrainingTypes, TakersAreServed, Named, Succeeded
    <2> QED
      BY <1>8, <1>15, <2>1 DEF trainingVars
  <1> QED
    BY <1>1, <1>2, <1>4, <1>5, <1>7, <1>9, <1>10, <1>11, <1>12, <1>13, <1>14, <1>15
       DEF TrainingNext

(* The invariant holds in every state.                                      *)
THEOREM CheckpointInvariant == TrainingSpec => []CheckpointInv
  <1> QED
    BY CheckpointInit, CheckpointStep, PTL DEF TrainingSpec

(* Whoever takes a checkpoint takes what a successful training recorded for *)
(* it, whatever copies crash or are shared (server.attach_checkpoint,       *)
(* worker, training.fuse).                                                  *)
THEOREM RunsWhatWasNamedHolds == TrainingSpec => []RunsWhatWasNamed
  <1>1. CheckpointInv => RunsWhatWasNamed
    <2> SUFFICES ASSUME CheckpointInv, NEW j \in Taken PROVE
             /\ manifest.status \in {"completed", "early_stopped"}
             /\ adapters[j].hash = saved[adapters[j].checkpoint]
             /\ adapters[j].checkpoint = "final" => \E v \in validated : v.at = adapters[j].hash
      BY DEF RunsWhatWasNamed
    <2>1. Named(adapters[j])
      BY DEF CheckpointInv, TakersAreServed, Taken
    <2> QED
      BY <2>1 DEF CheckpointInv, Named, Succeeded, ManifestIsLast, TrainingShape
  <1> QED
    BY <1>1, CheckpointInvariant, PTL

(* A best checkpoint that anybody takes beats the baseline by more than     *)
(* min_delta, and no recorded validation beats it by more, whichever way    *)
(* the run ended (training.BestAdapterCallback).                            *)
THEOREM BestIsBestHolds == TrainingSpec => []BestIsBest
  <1>1. CheckpointInv => BestIsBest
    <2> SUFFICES ASSUME CheckpointInv, NEW j \in Taken, adapters[j].checkpoint = "best"
                 PROVE  \E best \in validated :
                           /\ best.at = adapters[j].hash /\ best.at >= Accumulation
                           /\ \A v \in validated :
                                 /\ v.at = 0 => best.loss < v.loss - MinDelta
                                 /\ v.at >= Accumulation => best.loss <= v.loss + MinDelta
      BY DEF BestIsBest
    <2>1. /\ Succeeded /\ adapters[j].hash = saved["best"] /\ saved["best"] # NoWeights
      BY DEF CheckpointInv, TakersAreServed, Taken, Named
    <2>2. training.pc \notin {"failed", "killed"}
      BY <2>1 DEF CheckpointInv, ManifestIsLast, Successful, Completed
    <2> DEFINE best == [at |-> saved["best"], loss |-> training.best]
    <2>3. /\ best \in validated /\ best.at = saved["best"] /\ best.loss = training.best
          /\ saved["best"] >= Accumulation /\ training.best < training.baseline - MinDelta
          /\ training.baseline # NoWeights
      BY <2>1, <2>2 DEF CheckpointInv, BestSoFar
    <2>4. \A v \in validated : /\ v.at = 0 => v.loss = training.baseline
                               /\ v.at >= Accumulation => training.best <= v.loss + MinDelta
      BY <2>2, <2>3 DEF CheckpointInv, BestSoFar
    <2> HIDE DEF best
    <2> QED
      BY <2>1, <2>3, <2>4
  <1> QED
    BY <1>1, CheckpointInvariant, PTL

(* The run stays within its budget, and a copy is missing, cut short or     *)
(* what was saved: nothing is copied before the training succeeded, and     *)
(* nothing is saved after (server.attach_checkpoint, worker).               *)
THEOREM TrainingTypesHold == TrainingSpec => []TrainingTypeOK
  <1>1. TrainingInit => TrainingTypeOK
    <2>1. 0 \in 0..IterationsFor
      BY IterationsPositive
    <2>2. QED
      BY <2>1 DEF TrainingInit, TrainingTypeOK, NoManifest
  <1>2. CheckpointInv /\ TrainingTypeOK /\ [TrainingNext]_trainingVars => TrainingTypeOK'
    <2> SUFFICES ASSUME CheckpointInv, TrainingTypeOK, [TrainingNext]_trainingVars
                 PROVE  TrainingTypeOK'
      OBVIOUS
    <2> DEFINE Run == /\ training.pc \in {"prepared", "training", "final", "early_stopped", "failed", "killed"}
                      /\ training.at \in 0..IterationsFor
               Copies == /\ DOMAIN copied = Checkpoint
                         /\ \A c \in Checkpoint :
                               /\ copied[c] \in {NoWeights, Partial, saved[c]}
                               /\ copied[c] # NoWeights => Succeeded
               Statuses == {"none", "completed", "early_stopped", "failed"}
    <2>1. /\ Run /\ Copies /\ manifest.status \in Statuses
          /\ Run' /\ Copies' /\ manifest'.status \in Statuses => TrainingTypeOK'
      BY DEF TrainingTypeOK, Succeeded
    <2>2. ASSUME ~Succeeded, ~Succeeded', UNCHANGED copied PROVE Copies'
      BY <2>1, <2>2
    <2>3. ASSUME UNCHANGED <<saved, manifest, copied>> PROVE Copies' /\ manifest'.status \in Statuses
      BY <2>1, <2>3 DEF Succeeded
    <2>4. ASSUME NEW at \in 0..IterationsFor, NEW loss, Report(at, loss), UNCHANGED <<manifest, copied>>,
                 training.pc = "training" \/ (training.pc = "final" /\ ~Completed)
          PROVE  TrainingTypeOK'
      <3>1. ~Succeeded /\ ~Succeeded'
        BY <2>4 DEF CheckpointInv, ManifestIsLast, Successful, Completed, Succeeded
      <3>2. Run'
        BY <2>1, <2>4 DEF Report, Baseline, Better, Worse, CheckpointInv, TrainingTypes
      <3>3. QED
        BY <2>1, <2>2, <2>4, <3>1, <3>2
    <2>5. CASE ValidateDuring
      <3>1. PICK at \in {0} \union (training.at + 1)..(IterationsFor - 1), loss \in Losses : Report(at, loss)
        BY <2>5 DEF ValidateDuring
      <3>2. at \in 0..IterationsFor
        BY <2>1, IterationsPositive
      <3>3. QED
        BY <2>4, <2>5, <3>1, <3>2 DEF ValidateDuring
    <2>6. CASE ValidateFinal
      <3>1. PICK loss \in Losses : Report(IterationsFor, loss)
        BY <2>6 DEF ValidateFinal
      <3>2. IterationsFor \in 0..IterationsFor
        BY IterationsPositive
      <3>3. QED
        BY <2>4, <2>6, <3>1, <3>2 DEF ValidateFinal, Completed
    <2>7. CASE StartTraining \/ TrainToTheEnd \/ TrainingFails \/ KillTraining
      <3>1. PICK pc \in {"training", "final", "failed", "killed"} : training' = [training EXCEPT !.pc = pc]
        BY <2>7 DEF StartTraining, TrainToTheEnd, TrainingFails, KillTraining
      <3>2. Run'
        BY <2>1, <3>1 DEF CheckpointInv, TrainingTypes
      <3>3. QED
        BY <2>1, <2>3, <2>7, <3>2 DEF StartTraining, TrainToTheEnd, TrainingFails, KillTraining
    <2>8. CASE SaveFinal
      <3>1. ~Succeeded /\ ~Succeeded' /\ UNCHANGED <<training, copied, manifest>>
        BY <2>8 DEF SaveFinal, Succeeded, NoManifest
      <3>2. QED
        BY <2>1, <2>2, <3>1
    <2>9. CASE Complete \/ SaveFails
      <3>1. ~Succeeded /\ UNCHANGED <<training, copied, saved>> /\ manifest'.status \in Statuses
        <4>1. CASE Complete
          BY <2>1, <4>1 DEF Complete, Succeeded, NoManifest, CheckpointInv, TrainingShape, Successful, Completed
        <4>2. CASE SaveFails
          BY <4>2 DEF SaveFails, Succeeded, NoManifest
        <4>3. QED
          BY <2>9, <4>1, <4>2
      <3>2. \A c \in Checkpoint : copied[c] = NoWeights
        BY <2>1, <3>1
      <3>3. QED
        BY <2>1, <3>1, <3>2
    <2>10. ASSUME NEW t \in Attachers, BeginCopy(t) \/ EndCopy(t) PROVE TrainingTypeOK'
      <3>1. attaching[t].checkpoint \in Checkpoint /\ Succeeded
        BY <2>10 DEF BeginCopy, EndCopy, CheckpointInv, TrainingTypes, Taking, TakersAreServed, Named
      <3>2. \/ copied' = [copied EXCEPT ![attaching[t].checkpoint] = Partial]
            \/ copied' = [copied EXCEPT ![attaching[t].checkpoint] = saved[attaching[t].checkpoint]]
        BY <2>10 DEF BeginCopy, EndCopy
      <3>3. UNCHANGED <<training, saved, manifest>>
        BY <2>10 DEF BeginCopy, EndCopy
      <3>4. Copies'
        BY <2>1, <3>1, <3>2, <3>3 DEF Succeeded
      <3>5. QED
        BY <2>1, <3>3, <3>4
    <2>11. CASE UNCHANGED <<training, saved, manifest, copied>>
      BY <2>1, <2>3, <2>11
    <2>12. QED
      BY <2>5, <2>6, <2>7, <2>8, <2>9, <2>10, <2>11
         DEF TrainingNext, Attach, VerifyCopy, DashboardCrash, LoadAdapter, Fuse, trainingVars
  <1>3. QED
    BY <1>1, <1>2, CheckpointInvariant, PTL DEF TrainingSpec

=============================================================================
