-------------------------------- MODULE MCStats --------------------------------
(***************************************************************************)
(* Small epochs for TLC: with and without checkpoints by step and by epoch, *)
(* loaders that yield fewer, as many and more batches than needed.          *)
(***************************************************************************)
EXTENDS Stats

CONSTANTS MaxSteps, MaxBetween, MaxExcluded

Training ==
  [steps: 0 .. MaxSteps, total: 0 .. MaxSteps, batches: 0 .. MaxSteps + 1,
   do_checkpoint: BOOLEAN, between: -1 .. MaxBetween, epoch_due: BOOLEAN,
   exclude_start: 0 .. MaxExcluded, exclude_end: 0 .. MaxExcluded,
   do_eval: {FALSE}, steps_eval: {0}, batches_eval: {0}]

(* One training step, then an evaluation. *)
Evaluation ==
  [steps: {1}, total: {0}, batches: {1}, do_checkpoint: {FALSE}, between: {1},
   epoch_due: {FALSE}, exclude_start: 0 .. MaxExcluded, exclude_end: 0 .. MaxExcluded,
   do_eval: {TRUE}, steps_eval: 0 .. 2, batches_eval: 0 .. 3]

(* The checkpoint options matter only if there are checkpoints. *)
MCConfigurations ==
  {c \in Training :
     /\ c.total <= c.steps
     /\ c.batches >= c.steps - 1
     /\ ~c.do_checkpoint => c.between = -1 /\ c.epoch_due
     /\ c.between >= 0 => c.epoch_due}
  \cup Evaluation

===============================================================================
