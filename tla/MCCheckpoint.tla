------------------------------ MODULE MCCheckpoint ------------------------------
(***************************************************************************)
(* CheckpointStore over every valid layout of bounded size, with two jobs   *)
(* on a few layouts of one and two ranks: replicas without ZeRO, ZeRO 3,    *)
(* a pipeline under ZeRO 1 and one rank of a pipeline without ZeRO,         *)
(* predefined layers, nothing to save.                                      *)
(***************************************************************************)
EXTENDS CheckpointStore

CONSTANTS MaxSize, MaxParallelism, MaxLayers

Layout(size, pp, zero, layers, predefined) ==
  [size |-> size, tp |-> 1, pp |-> pp, dp |-> IF size < pp THEN 1 ELSE -1, zero |-> zero,
   layers |-> layers, subset |-> size < pp, predefined |-> predefined, model |-> predefined]

MCSimulated ==
  { Layout(2, 1, 0, 1, FALSE), Layout(2, 1, 3, 1, FALSE), Layout(1, 1, 3, 1, FALSE),
    Layout(1, 2, 0, 2, FALSE), Layout(2, 2, 1, 2, FALSE), Layout(1, 1, 0, 1, TRUE),
    Layout(2, 1, 0, -1, FALSE) }

MCLayouts ==
  MCSimulated \cup
  {c \in [size: 1 .. MaxSize, tp: 1 .. MaxParallelism, pp: 1 .. MaxParallelism,
          dp: {-1} \cup 1 .. MaxParallelism, zero: 0 .. 3, layers: {-1} \cup 1 .. MaxLayers,
          subset: BOOLEAN, predefined: BOOLEAN, model: BOOLEAN] :
     Valid(c) /\ (c.model => c.layers < 2)}

Workload(train, writes, reads, scale, tf, sync) ==
  [train |-> train, writes |-> writes, reads |-> reads, scale |-> scale, tf |-> tf, sync |-> sync]

MCWorkloads ==
  { Workload(<< >>, 1, 1, 1, FALSE, FALSE), Workload(<< >>, 1, 1, 2, FALSE, TRUE),
    Workload(<< >>, 2, 2, 1, FALSE, FALSE), Workload(<< >>, 0, 2, 1, FALSE, FALSE),
    Workload(<< >>, 1, 1, 1, TRUE, FALSE), Workload(<<<<1, 2>>, <<1, 3>>>>, 0, 0, 1, FALSE, FALSE) }

MCModels == [hidden: {4, 6}, heads: {1, 2}, kvHeads: {1, 2}, vocab: {3}, ffn: {5, 8}]
================================================================================
