--------------------------------- MODULE Stats ---------------------------------
(***************************************************************************)
(* What one rank measures in one epoch: the blocks of StatsCounter           *)
(* (utils/statscounter.py), driven by _train and _eval (main.py).  A block  *)
(* is the training between two checkpoints of the epoch.                    *)
(*                                                                         *)
(* Time is part of the model: now is the clock, and a call that takes time  *)
(* (a batch to arrive, the compute, the barrier, a checkpoint) advances it  *)
(* by one of the durations given.  Everything else is instantaneous.        *)
(*                                                                         *)
(* conf says what the epoch is:                                             *)
(*   steps, total      max_steps, total_training_steps (unused unless > 0)  *)
(*   batches           batches the loader yields                            *)
(*   do_checkpoint, between     steps_between_checkpoints, < 0: by epoch    *)
(*   epoch_due         epoch = next_checkpoint_epoch                        *)
(*   exclude_start, exclude_end  metric_exclude_start_steps, _end_steps     *)
(*   do_eval, steps_eval, batches_eval                                      *)
(***************************************************************************)
EXTENDS Integers, FiniteSets, Sequences, Functions

CONSTANTS
  Configurations,
  LoadTimes, ComputeTimes, BarrierTimes, SaveTimes   \* durations

ConfigurationType ==
  [steps: Nat, total: Int, batches: Nat, do_checkpoint: BOOLEAN, between: Int,
   epoch_due: BOOLEAN, exclude_start: Nat, exclude_end: Nat,
   do_eval: BOOLEAN, steps_eval: Nat, batches_eval: Nat]

(* The constructor of StatsCounter exits if more steps are asked for than there
   are samples for. *)
ASSUME StatsAssumption ==
  /\ Configurations \subseteq {c \in ConfigurationType : c.total <= c.steps}
  /\ LoadTimes \subseteq Nat
  /\ ComputeTimes \subseteq Nat
  /\ BarrierTimes \subseteq Nat
  /\ SaveTimes \subseteq Nat

VARIABLES
  conf,                  \* constant in a behaviour
  pc,
  now,                   \* time()
  block, block_step, overall_step, next_checkpoint_step,
  start_timestamp,       \* set by start_block and start_eval
  start_time_loading, start_time_compute,
  output,                \* output[b]: the lists and metrics of block b, or of EvalKey
  save_ckpt,             \* save_ckpt[b]: when checkpoint b began and ended
  weights                \* end_train's steps: the weight of each block in the average

vars == <<conf, pc, now, block, block_step, overall_step, next_checkpoint_step,
          start_timestamp, start_time_loading, start_time_compute, output,
          save_ckpt, weights>>

EvalKey == 0      \* 'eval', in the same dictionaries as the blocks
Unset   == -1     \* a time not recorded

(* StatsCounter.steps *)
Steps == IF conf.total > 0 THEN conf.total ELSE conf.steps

-------------------------------------------------------------------------------
(* Metrics.  s[a:b] of a list of length n is s[i] for i in Slice(n, a, b). *)
Bounded(i, n) ==
  IF i < 0 THEN (IF n + i < 0 THEN 0 ELSE n + i) ELSE (IF i > n THEN n ELSE i)

Slice(n, a, b) == Bounded(a, n) + 1 .. Bounded(b, n)

(* metric_end_step + 1, of the steps of an epoch or of an evaluation *)
EndIndex(steps) == steps - conf.exclude_end

Included(n, steps) == Slice(n, conf.exclude_start, EndIndex(steps))

(* The time of the excluded steps; where the two slices overlap, it counts twice. *)
ExcludedTime(proc, steps) ==
  LET n == Len(proc)
  IN  SumFunctionOnSet(proc, Slice(n, 0, conf.exclude_start))
        + SumFunctionOnSet(proc, Slice(n, EndIndex(steps), n))

(* compute_metrics_train: au as <<compute, total>> time (0 if nothing was computed),
   throughput as <<steps, time>>. *)
TrainMetrics(r, elapsed) ==
  LET total == elapsed - ExcludedTime(r.proc, Steps)
      n     == Len(r.compute)
  IN  [r EXCEPT !.au = <<SumFunctionOnSet(r.compute, Included(n, Steps)), total>>,
                !.throughput = <<n - 2, total>>]

(* compute_metrics_eval: throughput is over all steps and all the time *)
EvalMetrics(r, elapsed) ==
  LET n == Len(r.compute)
  IN  [r EXCEPT !.au = <<SumFunctionOnSet(r.compute, Included(n, conf.steps_eval)),
                         elapsed - ExcludedTime(r.proc, conf.steps_eval)>>,
                !.throughput = <<n, elapsed>>]

-------------------------------------------------------------------------------
(* The calls of StatsCounter on a record of output *)

New(t) ==
  [load |-> <<>>, proc |-> <<>>, compute |-> <<>>, au |-> <<0, 0>>,
   throughput |-> <<0, 0>>, start |-> t, end |-> Unset, taken |-> 0]

Put(f, key, value) == [k \in DOMAIN f \cup {key} |-> IF k = key THEN value ELSE f[k]]

(* The effect of a call on the record of its key *)
Loaded(r, duration) == [r EXCEPT !.load = Append(@, duration)]

Processed(r, duration, computation_time) ==
  [r EXCEPT !.proc = Append(@, duration), !.compute = Append(@, computation_time)]

Closed(r, t, steps_taken) == [r EXCEPT !.end = t, !.taken = steps_taken]

(* The metrics are computed before the guard. *)
EndedBlock(r, elapsed, t, steps_taken) ==
  IF r.end # Unset THEN TrainMetrics(r, elapsed)
                   ELSE Closed(TrainMetrics(r, elapsed), t, steps_taken)

(* The steps reported are those expected. *)
EndedEval(r, elapsed, t) == Closed(EvalMetrics(r, elapsed), t, conf.steps_eval)

(* batch_loaded, eval_batch_loaded *)
BatchLoaded(b) ==
  output' = Put(output, b, Loaded(output[b], now' - start_time_loading))

(* batch_processed, eval_batch_processed *)
BatchProcessed(b) ==
  output' = Put(output, b, Processed(output[b], now' - start_time_loading,
                                     now' - start_time_compute))

(* end_block *)
EndBlock(b, steps_taken) ==
  output' = Put(output, b, EndedBlock(output[b], now' - start_timestamp, now', steps_taken))

(* start_save_ckpt, end_save_ckpt *)
StartSave(saves, b, t) == Put(saves, b, [start |-> t, end |-> Unset])
StopSave(saves, b, t)  == [saves EXCEPT ![b].end = t]

Took(times) == \E t \in times : now' = now + t

counters == <<block, block_step, overall_step, next_checkpoint_step>>

-------------------------------------------------------------------------------
(* start_train, and _train up to the loop *)
Init ==
  /\ conf \in Configurations
  /\ pc = "fetch"
  /\ now = 0
  /\ block = 1
  /\ block_step = 1
  /\ overall_step = 1
  /\ next_checkpoint_step = conf.between
  /\ start_timestamp = 0
  /\ start_time_loading = 0
  /\ start_time_compute = Unset
  /\ output = Put(<<>>, 1, New(0))
  /\ save_ckpt = <<>>
  /\ weights = <<>>

LimitReached ==
  \/ overall_step > conf.steps
  \/ conf.total > 0 /\ overall_step > conf.total

(* Every batch so far was a step: the loader has yielded overall_step - 1. *)
Exhausted == overall_step > conf.batches

(* The loader yields a batch. *)
Fetch ==
  /\ pc = "fetch"
  /\ ~Exhausted
  /\ ~LimitReached
  /\ Took(LoadTimes)
  /\ BatchLoaded(block)
  /\ start_time_compute' = now'
  /\ pc' = "compute"
  /\ UNCHANGED <<conf, counters, start_timestamp, start_time_loading, save_ckpt, weights>>

Compute ==
  /\ pc = "compute"
  /\ Took(ComputeTimes)
  /\ BatchProcessed(block)
  /\ pc' = "barrier"
  /\ UNCHANGED <<conf, counters, start_timestamp, start_time_loading,
                 start_time_compute, save_ckpt, weights>>

CheckpointDue ==
  /\ conf.do_checkpoint
  /\ conf.between >= 0
  /\ overall_step = next_checkpoint_step

(* The barrier after a step that no checkpoint follows. *)
NextStep ==
  /\ pc = "barrier"
  /\ ~CheckpointDue
  /\ Took(BarrierTimes)
  /\ block_step' = block_step + 1
  /\ overall_step' = overall_step + 1
  /\ start_time_loading' = now'
  /\ pc' = "fetch"
  /\ UNCHANGED <<conf, block, next_checkpoint_step, start_timestamp,
                 start_time_compute, output, save_ckpt, weights>>

(* mutant: the steps before this one are reported *)
EndOfBlockReportsPrevious ==
  /\ pc = "barrier"
  /\ CheckpointDue
  /\ Took(BarrierTimes)
  /\ EndBlock(block, block_step - 1)
  /\ save_ckpt' = StartSave(save_ckpt, block, now')
  /\ pc' = "save"
  /\ UNCHANGED <<conf, counters, start_timestamp, start_time_loading,
                 start_time_compute, weights>>

(* The barrier after a step that a checkpoint follows: end_block, start_save_ckpt. *)
EndOfBlock ==
  /\ pc = "barrier"
  /\ CheckpointDue
  /\ Took(BarrierTimes)
  /\ EndBlock(block, block_step)
  /\ save_ckpt' = StartSave(save_ckpt, block, now')
  /\ pc' = "save"
  /\ UNCHANGED <<conf, counters, start_timestamp, start_time_loading,
                 start_time_compute, weights>>

(* mutant: the new block starts before the checkpoint is written *)
EndSaveStartsFirst ==
  /\ pc = "save"
  /\ Took(SaveTimes)
  /\ save_ckpt' = StopSave(save_ckpt, block, now')
  /\ block' = block + 1
  /\ block_step' = 1
  /\ overall_step' = overall_step + 1
  /\ next_checkpoint_step' = next_checkpoint_step + conf.between
  /\ output' = Put(output, block', New(now))
  /\ start_timestamp' = now
  /\ start_time_loading' = now'
  /\ pc' = "fetch"
  /\ UNCHANGED <<conf, start_time_compute, weights>>

(* The checkpoint is written: end_save_ckpt, and the next block starts. *)
EndSave ==
  /\ pc = "save"
  /\ Took(SaveTimes)
  /\ save_ckpt' = StopSave(save_ckpt, block, now')
  /\ block' = block + 1
  /\ block_step' = 1
  /\ overall_step' = overall_step + 1
  /\ next_checkpoint_step' = next_checkpoint_step + conf.between
  /\ output' = Put(output, block', New(now'))
  /\ start_timestamp' = now'
  /\ start_time_loading' = now'
  /\ pc' = "fetch"
  /\ UNCHANGED <<conf, start_time_compute, weights>>

(* The loader yields a batch too many, or finds that it has none left: the last
   block ends. *)
EndOfLoop ==
  /\ pc = "fetch"
  /\ Exhausted \/ LimitReached
  /\ Took(LoadTimes)
  /\ EndBlock(block, block_step - 1)
  /\ pc' = "end_train"
  /\ UNCHANGED <<conf, counters, start_timestamp, start_time_loading,
                 start_time_compute, save_ckpt, weights>>

(* The barrier after the loop, and start_save_ckpt of a checkpoint by epoch. *)
EndOfEpoch ==
  /\ pc = "end_train"
  /\ Took(BarrierTimes)
  /\ IF conf.do_checkpoint /\ conf.between < 0 /\ conf.epoch_due
     THEN /\ save_ckpt' = StartSave(save_ckpt, block, now')
          /\ pc' = "save_epoch"
     ELSE pc' = "average" /\ UNCHANGED save_ckpt
  /\ UNCHANGED <<conf, counters, start_timestamp, start_time_loading,
                 start_time_compute, output, weights>>

EndEpochSave ==
  /\ pc = "save_epoch"
  /\ Took(SaveTimes)
  /\ save_ckpt' = StopSave(save_ckpt, block, now')
  /\ pc' = "average"
  /\ UNCHANGED <<conf, counters, start_timestamp, start_time_loading,
                 start_time_compute, output, weights>>

(* mutant: the block that ended with the epoch is left out *)
EndTrainOfCheckpoints ==
  /\ pc = "average"
  /\ weights' = [b \in 1 .. block - 1 |-> Len(output[b].proc)]
  /\ IF conf.do_eval
     THEN /\ output' = Put(output, EvalKey, New(now))
          /\ start_timestamp' = now
          /\ start_time_loading' = now
          /\ pc' = "eval"
     ELSE pc' = "done" /\ UNCHANGED <<output, start_timestamp, start_time_loading>>
  /\ UNCHANGED <<conf, now, counters, start_time_compute, save_ckpt>>

(* end_train averages over every key there is; then start_eval, if it is due. *)
EndTrain ==
  /\ pc = "average"
  /\ weights' = [b \in DOMAIN output |-> Len(output[b].proc)]
  /\ IF conf.do_eval
     THEN /\ output' = Put(output, EvalKey, New(now))
          /\ start_timestamp' = now
          /\ start_time_loading' = now
          /\ pc' = "eval"
     ELSE pc' = "done" /\ UNCHANGED <<output, start_timestamp, start_time_loading>>
  /\ UNCHANGED <<conf, now, counters, start_time_compute, save_ckpt>>

-------------------------------------------------------------------------------
(* _eval *)

eval_step == Len(output[EvalKey].proc) + 1

EvalEnds == eval_step > conf.batches_eval \/ eval_step > conf.steps_eval

FetchEval ==
  /\ pc = "eval"
  /\ ~EvalEnds
  /\ Took(LoadTimes)
  /\ BatchLoaded(EvalKey)
  /\ start_time_compute' = now'
  /\ pc' = "compute_eval"
  /\ UNCHANGED <<conf, counters, start_timestamp, start_time_loading, save_ckpt, weights>>

ComputeEval ==
  /\ pc = "compute_eval"
  /\ Took(ComputeTimes)
  /\ BatchProcessed(EvalKey)
  /\ start_time_loading' = now'
  /\ pc' = "eval"
  /\ UNCHANGED <<conf, counters, start_timestamp, start_time_compute, save_ckpt, weights>>

(* The loop of _eval ends: end_eval. *)
EndEval ==
  /\ pc = "eval"
  /\ EvalEnds
  /\ Took(LoadTimes)
  /\ output' = Put(output, EvalKey, EndedEval(output[EvalKey], now' - start_timestamp, now'))
  /\ pc' = "done"
  /\ UNCHANGED <<conf, counters, start_timestamp, start_time_loading,
                 start_time_compute, save_ckpt, weights>>

Terminated == pc = "done" /\ UNCHANGED vars

Next ==
  \/ Fetch \/ Compute \/ NextStep \/ EndOfBlock \/ EndSave
  \/ EndOfLoop \/ EndOfEpoch \/ EndEpochSave \/ EndTrain
  \/ FetchEval \/ ComputeEval \/ EndEval
  \/ Terminated

Spec == Init /\ [][Next]_vars

-------------------------------------------------------------------------------
Blocks == 1 .. block
Ended  == {b \in DOMAIN output : output[b].end # Unset}

(* A block that a checkpoint ended has steps_between_checkpoints steps, and the
   number of steps end_block reports, which the loop gives it once before and once
   after the step is counted, is that of the times recorded, in each of the lists. *)
StepsInBlocks ==
  \A b \in Blocks \cap Ended :
    /\ output[b].taken = Len(output[b].load)
    /\ output[b].taken = Len(output[b].proc)
    /\ output[b].taken = Len(output[b].compute)
    /\ b < block => output[b].taken = conf.between

(* No time of a checkpoint counts as training: the blocks and the checkpoints of
   an epoch follow one another, each begun when the one before has ended. *)
CheckpointsOutsideBlocks ==
  /\ \A b \in Blocks \cap Ended : output[b].start <= output[b].end
  /\ \A b \in DOMAIN save_ckpt :
       /\ b \in Ended
       /\ output[b].end <= save_ckpt[b].start
       /\ save_ckpt[b].end # Unset => save_ckpt[b].start <= save_ckpt[b].end
  /\ \A b \in 1 .. block - 1 :
       /\ b \in DOMAIN save_ckpt /\ save_ckpt[b].end # Unset
       /\ save_ckpt[b].end <= output[b + 1].start

(* The average of the epoch weighs each step once: no block is left out or still
   open, and the evaluation, in the same dictionaries, is not averaged with the
   training.  Blocks without a step, like the one after a checkpoint at the end,
   weigh nothing. *)
AverageCoversSteps ==
  pc \in {"eval", "compute_eval", "done"} =>
    /\ DOMAIN weights = Blocks /\ Blocks \subseteq Ended
    /\ SumFunction(weights) = overall_step - 1
    /\ overall_step - 1 = IF conf.batches < Steps THEN conf.batches ELSE Steps

(* Accelerator utilisation is at most 100%: the time a block's metrics are taken
   over holds the compute of the included steps, whatever is excluded; and it is
   time of the block. *)
AUWithinBounds ==
  \A b \in Ended :
    LET r == output[b]
    IN  /\ r.au[1] > 0 => r.au[1] <= r.au[2]
        /\ r.au[2] <= r.end - r.start

(* "Metric calculation will exclude the beginning s and end e steps, only includes
   n steps" (statscounter.py 88): so it does for the utilisation of an epoch that is
   one block and of an evaluation, unless more are excluded than there are. *)
UtilizationOfIncludedSteps ==
  \A b \in Ended :
    LET r == output[b]
        n == Len(r.compute)
        included == conf.exclude_start + 1 .. n - conf.exclude_end
    IN  /\ b = EvalKey \/ block = 1
        /\ n = (IF b = EvalKey THEN conf.steps_eval ELSE Steps)
        /\ conf.exclude_start + conf.exclude_end <= n
        => r.au = <<SumFunctionOnSet(r.compute, included),
                    (r.end - r.start) - SumFunctionOnSet(r.proc, DOMAIN r.proc \ included)>>

(* The metrics of an epoch are of its steps: the average covers each once, and the
   utilisation is that of the included ones and at most 100%
   (statscounter.py 86-93, 266-299, 423-445). *)
MetricsOfSteps ==
  /\ AverageCoversSteps
  /\ AUWithinBounds
  /\ UtilizationOfIncludedSteps
===============================================================================
