------------------------------- MODULE TrainLoop -------------------------------
(***************************************************************************)
(* DLIOBenchmark.run with its _train and _eval loops and                   *)
(* ConfigArguments.reconfigure (main.py, utils/config.py), executed by     *)
(* CommSize MPI ranks.                                                     *)
(*                                                                         *)
(* Each rank runs the same sequential program; pc names the place it has   *)
(* reached.  Ranks only meet in MPI collectives (see Collectives).         *)
(***************************************************************************)
EXTENDS Integers, FiniteSets

CONSTANTS
  CommSize,                  \* comm.size
  Epochs,                    \* train.epochs
  MaxSteps,                  \* floor(samples * files / batch_size / comm_size)
  TotalTrainingSteps,        \* train.total_training_steps, unused unless > 0:
                             \* it limits each epoch, as overall_step starts at 1
                             \* in every call of _train
  Batches,                   \* Batches[r]: batches the loader of rank r yields
  DoCheckpoint,              \* workflow.checkpoint
  StepsBetweenCheckpoints,   \* < 0: checkpoint by epoch; >= 0: by step
  CheckpointAfterEpoch,
  EpochsBetweenCheckpoints,
  DoEval,                    \* workflow.evaluation
  EvalAfterEpoch,
  EpochsBetweenEvals

Rank == 0 .. CommSize - 1

ASSUME TrainLoopAssumption ==
  /\ CommSize \in Nat \ {0}
  /\ Epochs \in Nat
  /\ MaxSteps \in Nat
  /\ TotalTrainingSteps \in Int
  /\ Batches \in [Rank -> Nat]
  /\ DoCheckpoint \in BOOLEAN
  /\ StepsBetweenCheckpoints \in Int
  /\ CheckpointAfterEpoch \in Nat
  /\ EpochsBetweenCheckpoints \in Nat
  /\ DoEval \in BOOLEAN
  /\ EvalAfterEpoch \in Nat
  /\ EpochsBetweenEvals \in Nat

VARIABLES
  pc,                  \* place each rank has reached
  calls,               \* collectives each rank has called
  epoch,               \* epoch of run(); 0 until the loop is entered
  step,                \* overall_step of _train
  next_checkpoint_step,
  next_checkpoint_epoch,
  next_eval_epoch,
  processed,           \* batches the rank has computed (stats.batch_processed)
  saved,               \* saved[r]: ids <<epoch, step>> rank r finished writing
  evaluated            \* evaluated[r]: epochs after which rank r ran _eval

vars == <<pc, calls, epoch, step, next_checkpoint_step, next_checkpoint_epoch,
          next_eval_epoch, processed, saved, evaluated>>

schedule == <<next_checkpoint_step, next_checkpoint_epoch, next_eval_epoch>>
history  == <<processed, saved, evaluated>>

Barriers   == {"start", "step", "end_train"}
Allreduces == {"reconf_train", "reconf_eval", "au", "throughput",
               "eval_au", "eval_throughput"}

INSTANCE Collectives

Places == Sites \cup {"init", "epoch", "fetch", "save", "save_epoch",
                      "evaluate", "done"}

-------------------------------------------------------------------------------
(* run(): before the loop over epochs *)

Init ==
  /\ pc = [r \in Rank |-> "init"]
  /\ calls = [r \in Rank |-> 0]
  /\ epoch = [r \in Rank |-> 0]
  /\ step = [r \in Rank |-> 1]
  /\ next_checkpoint_step = [r \in Rank |-> StepsBetweenCheckpoints]
  /\ next_checkpoint_epoch = [r \in Rank |-> CheckpointAfterEpoch]
  /\ next_eval_epoch = [r \in Rank |-> EvalAfterEpoch]
  /\ processed = [r \in Rank |-> 0]
  /\ saved = [r \in Rank |-> {}]
  /\ evaluated = [r \in Rank |-> {}]

(* reconfigure(1): shards the file list, then the first of two allreduces *)
Configure(r) ==
  /\ pc[r] = "init"
  /\ Enter(r, "reconf_train")
  /\ UNCHANGED <<epoch, step, schedule, history>>

ReduceTrainSum(r) ==
  /\ Released(r, "reconf_train")
  /\ Enter(r, "reconf_eval")
  /\ UNCHANGED <<epoch, step, schedule, history>>

(* The second allreduce of reconfigure: then rank 0 compares the sums, and goes
   on: the job is one whose loader has a sampler, or has a single sample (Sharding
   and Config say what becomes of the others).  The first time the loaders are
   built and the ranks meet at the barrier before the loop; later it ends an epoch. *)
ReduceEvalSum(r) ==
  /\ Released(r, "reconf_eval")
  /\ IF epoch[r] = 0
       THEN Enter(r, "start") /\ UNCHANGED epoch
       ELSE /\ Goto(r, "epoch")
            /\ epoch' = [epoch EXCEPT ![r] = @ + 1]
            /\ UNCHANGED calls
  /\ UNCHANGED <<step, schedule, history>>

StartLoop(r) ==
  /\ Released(r, "start")
  /\ Goto(r, "epoch")
  /\ epoch' = [epoch EXCEPT ![r] = 1]
  /\ UNCHANGED <<calls, step, schedule, history>>

-------------------------------------------------------------------------------
(* _train(epoch) *)

(* mutant: only total_training_steps ends the epoch, not max_steps *)
LimitReachedNoMax(s) == TotalTrainingSteps > 0 /\ s > TotalTrainingSteps

LimitReached(s) ==
  \/ s > MaxSteps
  \/ TotalTrainingSteps > 0 /\ s > TotalTrainingSteps

(* mutant: next_checkpoint_step keeps its value from the epoch before *)
StartEpochNoReset(r) ==
  /\ pc[r] = "epoch"
  /\ epoch[r] <= Epochs
  /\ Goto(r, "fetch")
  /\ step' = [step EXCEPT ![r] = 1]
  /\ UNCHANGED <<calls, epoch, schedule, history>>

StartEpoch(r) ==
  /\ pc[r] = "epoch"
  /\ epoch[r] <= Epochs
  /\ Goto(r, "fetch")
  /\ step' = [step EXCEPT ![r] = 1]
  /\ next_checkpoint_step' = [next_checkpoint_step EXCEPT ![r] = StepsBetweenCheckpoints]
  /\ UNCHANGED <<calls, epoch, next_checkpoint_epoch, next_eval_epoch, history>>

(* mutant: the barrier after compute is missing *)
TrainStepNoBarrier(r) ==
  /\ pc[r] = "fetch"
  /\ step[r] <= Batches[r]
  /\ ~LimitReached(step[r])
  /\ processed' = [processed EXCEPT ![r] = @ + 1]
  /\ IF DoCheckpoint /\ step[r] = next_checkpoint_step[r]
       THEN Goto(r, "save") /\ UNCHANGED step
       ELSE Goto(r, "fetch") /\ step' = [step EXCEPT ![r] = @ + 1]
  /\ UNCHANGED <<calls, epoch, schedule, saved, evaluated>>

(* The loader yields a batch and the limits allow a step: compute, then barrier *)
TrainStep(r) ==
  /\ pc[r] = "fetch"
  /\ step[r] <= Batches[r]
  /\ ~LimitReached(step[r])
  /\ processed' = [processed EXCEPT ![r] = @ + 1]
  /\ Enter(r, "step")
  /\ UNCHANGED <<epoch, step, schedule, saved, evaluated>>

(* The loader is exhausted, or the batch it yields is past a limit (break) *)
StopTraining(r) ==
  /\ pc[r] = "fetch"
  /\ step[r] > Batches[r] \/ LimitReached(step[r])
  /\ Enter(r, "end_train")
  /\ UNCHANGED <<epoch, step, schedule, history>>

StepCheckpointDue(r) ==
  /\ DoCheckpoint
  /\ StepsBetweenCheckpoints >= 0
  /\ step[r] = next_checkpoint_step[r]

EndStep(r) ==
  /\ Released(r, "step")
  /\ IF StepCheckpointDue(r)
       THEN Goto(r, "save") /\ UNCHANGED step
       ELSE Goto(r, "fetch") /\ step' = [step EXCEPT ![r] = @ + 1]
  /\ UNCHANGED <<calls, epoch, schedule, history>>

(* save_checkpoint returns: no barrier follows, whatever checkpoint_rank_sync *)
SaveStepCheckpoint(r) ==
  /\ pc[r] = "save"
  /\ Goto(r, "fetch")
  /\ saved' = [saved EXCEPT ![r] = @ \cup {<<epoch[r], step[r]>>}]
  /\ next_checkpoint_step' =
       [next_checkpoint_step EXCEPT ![r] = @ + StepsBetweenCheckpoints]
  /\ step' = [step EXCEPT ![r] = @ + 1]
  /\ UNCHANGED <<calls, epoch, next_checkpoint_epoch, next_eval_epoch,
                 processed, evaluated>>

EpochCheckpointDue(r) ==
  /\ DoCheckpoint
  /\ StepsBetweenCheckpoints < 0
  /\ epoch[r] = next_checkpoint_epoch[r]

EndTrain(r) ==
  /\ Released(r, "end_train")
  /\ Goto(r, IF EpochCheckpointDue(r) THEN "save_epoch" ELSE "evaluate")
  /\ UNCHANGED <<calls, epoch, step, schedule, history>>

SaveEpochCheckpoint(r) ==
  /\ pc[r] = "save_epoch"
  /\ Goto(r, "evaluate")
  /\ saved' = [saved EXCEPT ![r] = @ \cup {<<epoch[r], step[r]>>}]
  /\ next_checkpoint_epoch' =
       [next_checkpoint_epoch EXCEPT ![r] = @ + EpochsBetweenCheckpoints]
  /\ UNCHANGED <<calls, epoch, step, next_checkpoint_step, next_eval_epoch,
                 processed, evaluated>>

-------------------------------------------------------------------------------
(* run(): evaluation, reconfiguration for the next epoch, end of the run *)

(* mutant: the first evaluation is one epoch late *)
EvalDueLate(r) == DoEval /\ epoch[r] > next_eval_epoch[r]

EvalDue(r) == DoEval /\ epoch[r] >= next_eval_epoch[r]

(* _eval has no collective: it is one step here.  Then reconfigure(epoch + 1) *)
Evaluate(r) ==
  /\ pc[r] = "evaluate"
  /\ IF EvalDue(r)
       THEN /\ next_eval_epoch' = [next_eval_epoch EXCEPT ![r] = @ + EpochsBetweenEvals]
            /\ evaluated' = [evaluated EXCEPT ![r] = @ \cup {epoch[r]}]
       ELSE UNCHANGED <<next_eval_epoch, evaluated>>
  /\ Enter(r, "reconf_train")
  /\ UNCHANGED <<epoch, step, next_checkpoint_step, next_checkpoint_epoch,
                 processed, saved>>

(* end_run reduces the utilisation and throughput of training, then of _eval *)
EndRun(r) ==
  /\ pc[r] = "epoch"
  /\ epoch[r] > Epochs
  /\ Enter(r, "au")
  /\ UNCHANGED <<epoch, step, schedule, history>>

ReduceMetric(r, site, following) ==
  /\ Released(r, site)
  /\ Enter(r, following)
  /\ UNCHANGED <<epoch, step, schedule, history>>

ReduceLastMetric(r) ==
  /\ Released(r, IF DoEval THEN "eval_throughput" ELSE "throughput")
  /\ Goto(r, "done")
  /\ UNCHANGED <<calls, epoch, step, schedule, history>>

ReduceMetrics(r) ==
  \/ ReduceMetric(r, "au", "throughput")
  \/ DoEval /\ ReduceMetric(r, "throughput", "eval_au")
  \/ DoEval /\ ReduceMetric(r, "eval_au", "eval_throughput")
  \/ ReduceLastMetric(r)

-------------------------------------------------------------------------------
RankStep(r) ==
  \/ Configure(r)   \/ ReduceTrainSum(r) \/ ReduceEvalSum(r) \/ StartLoop(r)
  \/ StartEpoch(r)  \/ TrainStep(r)      \/ StopTraining(r)  \/ EndStep(r)
  \/ SaveStepCheckpoint(r) \/ EndTrain(r) \/ SaveEpochCheckpoint(r)
  \/ Evaluate(r)    \/ EndRun(r)         \/ ReduceMetrics(r)

AllDone == \A r \in Rank : pc[r] = "done"

Terminated == AllDone /\ UNCHANGED vars

Next == Terminated \/ \E r \in Rank : RankStep(r)

(* The operating system runs every rank that is not blocked in a collective. *)
Spec == Init /\ [][Next]_vars /\ \A r \in Rank : WF_vars(RankStep(r))
-------------------------------------------------------------------------------
(* Properties *)

(* The steps of one epoch.  total_training_steps is compared with a step that is
   counted from the start of the epoch: in a job of several epochs it is a limit of
   each and not of the job (TotalIsOfTheJob is what the program says of it). *)
StepsPerEpoch ==
  IF TotalTrainingSteps > 0 /\ TotalTrainingSteps < MaxSteps
    THEN TotalTrainingSteps ELSE MaxSteps

(* Every loader yields at least the batches an epoch uses: the condition under
   which the loop is meant to run (Sharding says which shapes meet it). *)
EnoughBatches == \A r \in Rank : Batches[r] >= StepsPerEpoch

(* Types, with the bounds the loops keep. *)
TypeOK ==
  /\ pc \in [Rank -> Places]
  /\ calls \in [Rank -> Nat]
  /\ epoch \in [Rank -> 0 .. Epochs + 1]
  /\ step \in [Rank -> 1 .. MaxSteps + 1]
  /\ next_checkpoint_step \in [Rank -> Int]
  /\ next_checkpoint_epoch \in [Rank -> Nat]
  /\ next_eval_epoch \in [Rank -> Nat]
  /\ processed \in [Rank -> Nat]
  /\ saved \in [Rank -> SUBSET ((1 .. Epochs) \X (1 .. MaxSteps + 1))]
  /\ evaluated \in [Rank -> SUBSET (1 .. Epochs)]

(* Ranks that wait in the same collective (the n-th of each) called it from the
   same line, in the same epoch and step: no step barrier of one rank pairs
   with the end-of-epoch barrier or an allreduce of another (main.py 382, 404,
   445, config.py 887-888). *)
CollectivesAgree ==
  \A r, q \in Rank :
    (pc[r] \in Sites /\ pc[q] \in Sites /\ calls[r] = calls[q])
      => pc[r] = pc[q] /\ epoch[r] = epoch[q] /\ step[r] = step[q]

Saving(r) == pc[r] \in {"save", "save_epoch"}

(* While a rank writes checkpoint (e, s), every rank has computed every step of
   the job up to the one the checkpoint is for: the state saved is that of one
   step (the barriers of main.py 382 and 404 stand before the two saves). *)
CheckpointConsistent ==
  \A r \in Rank : Saving(r) =>
    \A q \in Rank : processed[q] >= processed[r]

(* The checkpoints a rank has finished and another has not are at most the last
   one: all ranks finish checkpoint k before any rank begins checkpoint k + 1,
   although no barrier follows save_checkpoint in _train (main.py 383-409). *)
OneCheckpointAtATime ==
  \A r, q \in Rank :
    /\ Cardinality(saved[r] \ saved[q]) <= 1
    /\ Saving(r) => saved[q] \subseteq saved[r] \cup {<<epoch[r], step[r]>>}
    /\ Saving(r) => saved[r] \subseteq saved[q]

(* The checkpoints the parameters call for.  By step: after every multiple of
   steps_between_checkpoints in each epoch.  By epoch: after epoch
   checkpoint_after_epoch and every epochs_between_checkpoints from there,
   under the id of the step after the last. *)
ExpectedCheckpoints ==
  IF ~DoCheckpoint THEN {}
  ELSE IF StepsBetweenCheckpoints > 0
    THEN {c \in (1 .. Epochs) \X (1 .. StepsPerEpoch) : c[2] % StepsBetweenCheckpoints = 0}
  ELSE IF StepsBetweenCheckpoints < 0
    THEN {<<e, StepsPerEpoch + 1>> : e \in
            {f \in CheckpointAfterEpoch .. Epochs :
               IF EpochsBetweenCheckpoints = 0 THEN f = CheckpointAfterEpoch
               ELSE (f - CheckpointAfterEpoch) % EpochsBetweenCheckpoints = 0}}
  ELSE {}

(* _eval runs after epoch eval_after_epoch and every epochs_between_evals. *)
ExpectedEvals ==
  IF ~DoEval THEN {}
  ELSE {e \in EvalAfterEpoch .. Epochs :
          \/ EpochsBetweenEvals = 0
          \/ (e - EvalAfterEpoch) % EpochsBetweenEvals = 0}

(* A rank that has finished has trained, saved and evaluated exactly as the code
   reads the parameters, total_training_steps as a limit of each epoch: the counters run() and _train advance (next_checkpoint_step,
   next_checkpoint_epoch, next_eval_epoch) name every due point and no other. *)
ScheduleMet ==
  \A r \in Rank : pc[r] = "done" =>
    /\ processed[r] = Epochs * StepsPerEpoch
    /\ saved[r] = ExpectedCheckpoints
    /\ evaluated[r] = ExpectedEvals

(* What the program says of total_training_steps, in the line it logs before the
   first epoch: the job "Will only run up to min(total * epochs,
   total_training_steps)" steps (main.py 428; config.rst calls it the number of
   training steps to simulate). *)
TotalIsOfTheJob ==
  TotalTrainingSteps > 0 =>
    \A r \in Rank : /\ processed[r] <= MaxSteps * Epochs
                    /\ processed[r] <= TotalTrainingSteps

(* The ranks train in lock step, as BulkSync specifies; the steps of a job are
   those the code runs, StepsPerEpoch in every epoch. *)
Bulk == INSTANCE BulkSync WITH Total <- Epochs * StepsPerEpoch, done <- processed
BulkSynchronous == Bulk!Spec

(* Every rank comes to the end of run(): no rank is left in a collective. *)
Termination == <>AllDone

===============================================================================
