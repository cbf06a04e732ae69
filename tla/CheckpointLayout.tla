---------------------------- MODULE CheckpointLayout ----------------------------
(***************************************************************************)
(* Which rank holds and writes which part of a model checkpoint            *)
(* (checkpointing/base_checkpointing.py), for the parallelisms that        *)
(* ConfigArguments.validate lets through.                                  *)
(*                                                                         *)
(* A configuration c is a record: size (ranks), tp, pp, dp (tensor,        *)
(* pipeline and data parallelism; dp < 0: derived), zero (ZeRO stage),     *)
(* layers (num_layers; -1, the default: none given), subset                *)
(* (checkpoint_mode), predefined (layer_parameters and optimization_groups *)
(* are given) and model (a model_size is, and the model is no transformer).*)
(* The parameters of a layer are its number; CheckpointStore adds the      *)
(* storage.                                                                *)
(***************************************************************************)
EXTENDS Integers, FiniteSets

ConfigurationType ==
  [size: Nat \ {0}, tp: Nat \ {0}, pp: Nat \ {0}, dp: Int, zero: 0 .. 3, layers: Int,
   subset: BOOLEAN, predefined: BOOLEAN, model: BOOLEAN]

(* validate(): the configurations that reach the checkpointing mechanism *)
Valid(c) ==
  /\ c.layers > 0 => c.layers >= c.pp
  /\ ~(c.pp > 1 /\ c.zero = 3)
  /\ IF c.subset
       THEN c.dp > 0 /\ c.dp * c.tp * c.pp >= c.size
       ELSE c.dp <= 0 /\ c.size % (c.pp * c.tp) = 0

-------------------------------------------------------------------------------
(* The place of a rank in the tp x pp x dp grid *)

ModelParallelism(c) == c.pp * c.tp
DataParallelism(c)  == IF c.dp < 0 THEN c.size \div ModelParallelism(c) ELSE c.dp

PipelineRank(c, r) == (r \div c.tp) % c.pp
TensorRank(c, r)   == r % c.tp
DataRank(c, r)     == r \div ModelParallelism(c)

(* mutant: the pipeline stage is forgotten *)
ModelRankTensorOnly(c, r) == r % c.tp

ModelRank(c, r) == r % ModelParallelism(c)

(* rank_to_checkpoint = my_rank: without ZeRO only the first replica saves *)
Saves(c, r) == c.zero = 0 /\ r >= ModelParallelism(c) => r = 0

(* mutant: the later stages forget that the first are one longer *)
LayerIndexOverlapping(c, r) ==
  LET p     == PipelineRank(c, r)
      group == c.layers \div c.pp
      rest  == c.layers % c.pp
      start == IF p < rest THEN p * (group + 1) + 1 ELSE p * group + 1
      end   == IF p < rest THEN start + group ELSE start + group - 1
  IN  (IF p = 0 THEN 0 ELSE start) .. (IF p = c.pp - 1 THEN c.layers + 2 ELSE end)

(* get_layer_index: transformer layers 1 .. layers in contiguous runs, the first
   stages one longer; unless the layers are predefined also the embedding 0 on
   the first stage, lm_head and weight (layers + 1, layers + 2) on the last *)
LayerIndex(c, r) ==
  LET p     == PipelineRank(c, r)
      group == c.layers \div c.pp
      rest  == c.layers % c.pp
      start == IF p < rest THEN p * (group + 1) + 1
                           ELSE rest * (group + 1) + (p - rest) * group + 1
      end   == IF p < rest THEN start + group ELSE start + group - 1
  IN  IF c.predefined THEN start .. end
      ELSE (IF p = 0 THEN 0 ELSE start) .. (IF p = c.pp - 1 THEN c.layers + 2 ELSE end)

-------------------------------------------------------------------------------
(* What a rank holds: layer_state and optimization_state of the constructor *)

LayerState(c, r) ==
  IF Saves(c, r) /\ (c.predefined \/ (c.layers > 0 /\ ~(c.zero = 1 /\ DataRank(c, r) # 0)))
    THEN LayerIndex(c, r) ELSE {}

HasOptimizerState(c, r) == (c.predefined \/ c.layers > 0) /\ Saves(c, r)

(* get_optimization_groups: a saving rank holds 1/OptimizerShards of the state,
   and the whole of predefined groups *)
OptimizerShards(c) ==
  IF c.predefined THEN 1
  ELSE IF c.zero > 0 THEN DataParallelism(c) * ModelParallelism(c)
  ELSE ModelParallelism(c)

-------------------------------------------------------------------------------
(* What save_checkpoint writes: files with the layers each holds *)

SavedModel(c, r) ==
  IF LayerState(c, r) = {} THEN {}
  ELSE IF c.zero \in {1, 2}
    THEN IF DataRank(c, r) # 0 THEN {}
         ELSE IF c.pp > 1
           THEN {[file |-> <<"layer", l, ModelRank(c, r)>>, layers |-> {l}] : l \in LayerState(c, r)}
           ELSE {[file |-> <<"model", ModelRank(c, r)>>, layers |-> LayerState(c, r)]}
    ELSE {[file |-> <<"zero_model", DataRank(c, r), ModelRank(c, r)>>,
           layers |-> LayerState(c, r)]}

SavedOptimizer(c, r) ==
  IF HasOptimizerState(c, r)
    THEN {[file |-> <<"zero_optim", DataRank(c, r), ModelRank(c, r)>>, layers |-> {}]}
    ELSE {}

(* model_state, of models that are not transformers *)
SavedModelState(c, r) ==
  IF c.model /\ Saves(c, r) THEN {[file |-> <<"model_states", r>>, layers |-> {}]} ELSE {}

Saved(c, r) == SavedModelState(c, r) \cup SavedModel(c, r) \cup SavedOptimizer(c, r)

(* load_checkpoint reads the same files, after an assertion of its own *)
LoadAsserts(c, r) ==
  (LayerState(c, r) # {} /\ c.zero \notin {1, 2}) => c.pp = 1

-------------------------------------------------------------------------------
(* Sizes: parameters per layer and in all, for a model m without tensor
   parallelism or ZeRO 3 (which divide each matrix, rounding down) *)

DimKV(m) == (m.hidden \div m.heads) * m.kvHeads

LayerParameters(m, layer) ==
  IF layer \in {0, m.layers + 1} THEN m.hidden * m.vocab
  ELSE IF layer = m.layers + 2 THEN m.hidden
  ELSE 2 * m.hidden + m.hidden * (m.hidden + 2 * DimKV(m)) + m.hidden * m.hidden
         + 3 * m.hidden * m.ffn

NumParameters(m) ==
  2 * m.vocab * m.hidden + m.hidden
    + m.layers * (2 * m.hidden + m.hidden * (m.hidden + 2 * DimKV(m)) + m.hidden * m.hidden
                    + 2 * m.ffn * m.hidden + m.ffn * m.hidden)
===============================================================================
