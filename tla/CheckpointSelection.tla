------------------------- MODULE CheckpointSelection -------------------------
(***************************************************************************)
(* One training run (training.py, worker.prepare_training), the checkpoint *)
(* it selects, and everybody who takes one: server.attach_checkpoint in    *)
(* request threads, the worker that loads it, and the fuse command.        *)
(*                                                                         *)
(* Weights are named by the number of micro-batches they have seen, and    *)
(* a file's hash by its weights; a half-written copy is Partial. The     *)
(* trainer of mlx_lm is external: it reports validations in order, the     *)
(* first one before training.                                              *)
(***************************************************************************)
EXTENDS Integers

CONSTANTS
    Examples, Epochs, Batch, Accumulation,
    Patience, MinDelta,     \* early_stopping_*
    Losses,                 \* validation losses, in steps of the smallest change
    Attachers,              \* request threads of the dashboard
    Queued,                 \* jobs that take a checkpoint
    NoWeights

ASSUME TrainingAssumption ==
    /\ Examples \in Nat \ {0} /\ Epochs \in Nat \ {0} /\ Batch \in Nat \ {0}
    /\ Accumulation \in Nat \ {0} /\ Patience \in Nat \ {0} /\ MinDelta \in Nat
    /\ Losses \subseteq Nat /\ NoWeights \notin Nat

VARIABLES
    training,   \* the worker and its callback
    saved,      \* best_adapters.safetensors and adapters.safetensors
    manifest,   \* completion.json
    copied,     \* selected-best and selected-final
    attaching,  \* each thread, inside attach_checkpoint
    adapters,   \* the checkpoint each job was queued with
    validated   \* history: every validation
trainingVars == <<training, saved, manifest, copied, attaching, adapters, validated>>

CeilDiv(a, b) == (a + b - 1) \div b
IterationsFor == CeilDiv(CeilDiv(Examples * Epochs, Batch), Accumulation) * Accumulation
Partial == -1
Checkpoint == {"best", "final"}
NoManifest == [status |-> "none", best |-> NoWeights, final |-> NoWeights, updates |-> 0,
               selected |-> NoWeights, baseline |-> NoWeights]
Idle == [pc |-> "idle", checkpoint |-> "best", hash |-> NoWeights, job |-> NoWeights]

TrainingInit ==
    /\ training = [pc |-> "prepared", at |-> 0, best |-> NoWeights, bad |-> 0,
                   bestAt |-> NoWeights, baseline |-> NoWeights, selected |-> NoWeights]
    /\ saved = [c \in Checkpoint |-> NoWeights]
    /\ copied = [c \in Checkpoint |-> NoWeights]
    /\ manifest = NoManifest
    /\ attaching = [t \in Attachers |-> Idle]
    /\ adapters = [j \in Queued |-> Idle]
    /\ validated = {}

-----------------------------------------------------------------------------
(* on_val_loss_report, on a finite loss: the first validation is the        *)
(* baseline; none before the first optimizer update can be selected.        *)
(* Mutant: the baseline is recorded, but is nothing to improve on.          *)
BaselineRecorded(loss) == [training EXCEPT !.baseline = loss, !.best = loss + MinDelta + 1]
Baseline(loss) == [training EXCEPT !.baseline = loss, !.best = loss]
Improves(loss) == loss < training.best - MinDelta
Better(at, loss) ==
    [training EXCEPT !.best = loss, !.selected = loss, !.bad = 0, !.bestAt = at, !.at = at]
Worse(at) ==
    [training EXCEPT !.bad = @ + 1, !.at = at,
                     !.pc = IF @ = "training" /\ training.bad + 1 >= Patience THEN "early_stopped" ELSE @]

StartTraining ==
    /\ training.pc = "prepared"
    /\ training' = [training EXCEPT !.pc = "training"]
    /\ UNCHANGED <<saved, manifest, copied, attaching, adapters, validated>>

Report(at, loss) ==
    /\ validated' = validated \union {[at |-> at, loss |-> loss]}
    /\ \/ /\ at = 0 /\ training.baseline = NoWeights
          /\ training' = Baseline(loss) /\ UNCHANGED saved
       \/ /\ (at = 0) = (training.baseline # NoWeights)
          /\ training' = [training EXCEPT !.pc = "failed"] /\ UNCHANGED saved
       \/ /\ at > 0 /\ training.baseline # NoWeights
          /\ \/ /\ at < Accumulation
                /\ training' = [training EXCEPT !.at = at] /\ UNCHANGED saved
             \/ /\ at >= Accumulation /\ Improves(loss)
                /\ training' = Better(at, loss) /\ saved' = [saved EXCEPT !["best"] = at]
             \/ /\ at >= Accumulation /\ ~Improves(loss)
                /\ training' = Worse(at) /\ UNCHANGED saved

ValidateDuring ==
    /\ training.pc = "training"
    /\ \E at \in {0} \union (training.at + 1)..(IterationsFor - 1), loss \in Losses :
          (at = 0 => training.at = 0) /\ Report(at, loss)
    /\ UNCHANGED <<manifest, copied, attaching, adapters>>

(* After the whole budget the final weights are validated too; EarlyStop    *)
(* is then too late to stop anything.                                       *)
TrainToTheEnd ==
    /\ training.pc = "training"
    /\ training' = [training EXCEPT !.pc = "final"]
    /\ UNCHANGED <<saved, manifest, copied, attaching, adapters, validated>>
ValidateFinal ==
    /\ training.pc = "final" /\ ~\E v \in validated : v.at = IterationsFor
    /\ \E loss \in Losses : Report(IterationsFor, loss)
    /\ UNCHANGED <<manifest, copied, attaching, adapters>>

(* A loss that is not finite, or any other error, ends the run as failed.   *)
TrainingFails ==
    /\ training.pc \in {"training", "final"} /\ manifest = NoManifest
    /\ training' = [training EXCEPT !.pc = "failed"]
    /\ UNCHANGED <<saved, manifest, copied, attaching, adapters, validated>>

(* finally: the current weights are the final checkpoint, then the          *)
(* completion manifest.                                                     *)
Completed == \E v \in validated : training.pc = "final" /\ v.at = IterationsFor
SaveFinal ==
    /\ training.pc \in {"early_stopped", "failed"} \/ Completed
    /\ saved["final"] = NoWeights /\ manifest = NoManifest
    /\ saved' = [saved EXCEPT !["final"] = training.at]
    /\ UNCHANGED <<training, manifest, copied, attaching, adapters, validated>>
Complete ==
    /\ training.pc # "killed" /\ saved["final"] # NoWeights /\ manifest = NoManifest
    /\ manifest' =
          [status |-> IF training.pc = "final" THEN "completed" ELSE training.pc,
           best |-> saved["best"], final |-> saved["final"],
           updates |-> IF training.bestAt = NoWeights THEN 0 ELSE training.bestAt \div Accumulation,
           selected |-> training.selected, baseline |-> training.baseline]
    /\ UNCHANGED <<training, saved, copied, attaching, adapters, validated>>

(* Saving the weights fails: execute_training records only the failure.     *)
SaveFails ==
    /\ training.pc \in {"early_stopped", "failed"} \/ Completed
    /\ saved["final"] = NoWeights /\ manifest = NoManifest
    /\ manifest' = [NoManifest EXCEPT !.status = "failed"]
    /\ UNCHANGED <<training, saved, copied, attaching, adapters, validated>>

(* The worker is killed: what it saved stays, nothing is completed.         *)
KillTraining ==
    /\ training.pc \notin {"prepared", "killed"} /\ manifest = NoManifest
    /\ training' = [training EXCEPT !.pc = "killed"]
    /\ UNCHANGED <<saved, manifest, copied, attaching, adapters, validated>>

-----------------------------------------------------------------------------
Hash(c) == IF c = "best" THEN manifest.best ELSE manifest.final
(* Mutant: any run that left a manifest will do.                            *)
UsableAnyStatus(c) == saved[c] # NoWeights /\ saved[c] = Hash(c)
Usable(c) ==
    /\ manifest.status \in {"completed", "early_stopped"}
    /\ c = "best" => manifest.updates # 0
    /\ saved[c] # NoWeights /\ Hash(c) # NoWeights /\ saved[c] = Hash(c)

(* attach_checkpoint: the chosen file is copied once for all jobs.          *)
Attach(t) ==
    /\ attaching[t].pc = "idle"
    /\ \E c \in Checkpoint, j \in {q \in Queued : adapters[q] = Idle} :
          /\ Usable(c)
          /\ attaching' = [attaching EXCEPT ![t] =
                [pc |-> IF copied[c] = NoWeights THEN "copy" ELSE "verify",
                 checkpoint |-> c, hash |-> saved[c], job |-> j]]
    /\ UNCHANGED <<training, saved, manifest, copied, adapters, validated>>
BeginCopy(t) ==
    /\ attaching[t].pc = "copy"
    /\ copied' = [copied EXCEPT ![attaching[t].checkpoint] = Partial]
    /\ attaching' = [attaching EXCEPT ![t].pc = "copying"]
    /\ UNCHANGED <<training, saved, manifest, adapters, validated>>
EndCopy(t) ==
    /\ attaching[t].pc = "copying"
    /\ copied' = [copied EXCEPT ![attaching[t].checkpoint] = saved[attaching[t].checkpoint]]
    /\ attaching' = [attaching EXCEPT ![t].pc = "verify"]
    /\ UNCHANGED <<training, saved, manifest, adapters, validated>>

VerifyCopy(t) ==
    /\ attaching[t].pc = "verify"
    /\ adapters' = IF copied[attaching[t].checkpoint] = attaching[t].hash
                      /\ adapters[attaching[t].job] = Idle
                   THEN [adapters EXCEPT ![attaching[t].job] = [attaching[t] EXCEPT !.pc = "queued"]]
                   ELSE adapters
    /\ attaching' = [attaching EXCEPT ![t] = Idle]
    /\ UNCHANGED <<training, saved, manifest, copied, validated>>

(* The dashboard ends, and another one starts.                              *)
DashboardCrash ==
    /\ \E t \in Attachers : attaching[t] # Idle
    /\ attaching' = [t \in Attachers |-> Idle]
    /\ UNCHANGED <<training, saved, manifest, copied, adapters, validated>>

(* The worker of the job hashes the copy again, and then loads it; a file   *)
(* that is cut short does not load.                                         *)
LoadAdapter ==
    /\ \E j \in Queued :
          /\ adapters[j].pc \in {"queued", "hashed"}
          /\ adapters' = [adapters EXCEPT ![j].pc =
                IF copied[adapters[j].checkpoint] # adapters[j].hash THEN "failed"
                ELSE IF @ = "queued" THEN "hashed" ELSE "loaded"]
    /\ UNCHANGED <<training, saved, manifest, copied, attaching, validated>>

(* fuse, from the training's own directory, by hash as well.                *)
Fuse ==
    /\ \E c \in Checkpoint, j \in Queued :
          /\ adapters[j] = Idle /\ Usable(c)
          /\ c = "best" => manifest.selected # NoWeights /\ manifest.selected < manifest.baseline
          /\ adapters' = [adapters EXCEPT ![j] =
                [pc |-> "exported", checkpoint |-> c, hash |-> saved[c], job |-> j]]
    /\ UNCHANGED <<training, saved, manifest, copied, attaching, validated>>

TrainingNext ==
    \/ StartTraining \/ ValidateDuring \/ TrainToTheEnd \/ ValidateFinal \/ TrainingFails
    \/ SaveFinal \/ Complete \/ SaveFails \/ KillTraining
    \/ \E t \in Attachers : Attach(t) \/ BeginCopy(t) \/ EndCopy(t) \/ VerifyCopy(t)
    \/ DashboardCrash \/ LoadAdapter \/ Fuse
TrainingSpec == TrainingInit /\ [][TrainingNext]_trainingVars

-----------------------------------------------------------------------------
TrainingTypeOK ==
    /\ training.pc \in {"prepared", "training", "final", "early_stopped", "failed", "killed"}
    /\ training.at \in 0..IterationsFor
    /\ manifest.status \in {"none", "completed", "early_stopped", "failed"}
    /\ DOMAIN copied = Checkpoint
    /\ \A c \in Checkpoint :
          /\ copied[c] \in {NoWeights, Partial, saved[c]}
          /\ copied[c] # NoWeights => manifest.status \in {"completed", "early_stopped"}

Taken == {j \in Queued : adapters[j].pc \in {"loaded", "exported"}}

(* "No verified best checkpoint improved over baseline": a best checkpoint  *)
(* that is loaded or exported was validated after the first optimizer       *)
(* update, beats the untrained model, and no validation the run recorded    *)
(* beats it by more than min_delta, the final one included.                 *)
BestIsBest ==
    \A j \in Taken : adapters[j].checkpoint = "best" =>
        \E best \in validated :
           /\ best.at = adapters[j].hash /\ best.at >= Accumulation
           /\ \A v \in validated :
                 /\ v.at = 0 => best.loss < v.loss - MinDelta
                 /\ v.at >= Accumulation => best.loss <= v.loss + MinDelta

(* "Selected adapter changed after queuing": whatever copies were begun,    *)
(* cut short or shared, a job runs with the weights a successful training   *)
(* recorded for the checkpoint it names, whole.                             *)
RunsWhatWasNamed ==
    \A j \in Taken :
        /\ manifest.status \in {"completed", "early_stopped"}
        /\ adapters[j].hash = saved[adapters[j].checkpoint]
        /\ adapters[j].checkpoint = "final" => \E v \in validated : v.at = adapters[j].hash

=============================================================================
