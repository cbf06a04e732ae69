-------------------------------- MODULE Sharding --------------------------------
(***************************************************************************)
(* How a dataset of files with the same number of samples each is divided  *)
(* among the ranks, the reading threads and the batches: the samplers of   *)
(* the data loaders, VirtualIndexMap and build_sample_map_iter             *)
(* (utils/config.py), and the batches each loader yields per epoch.        *)
(*                                                                         *)
(* Everything is a function of the sizes, so this module has no variables. *)
(* Samples are numbered in file order.                                     *)
(***************************************************************************)
EXTENDS Integers, FiniteSetsExt

CeilDiv(a, b) == (a + b - 1) \div b

-------------------------------------------------------------------------------
(* Shares of total samples.  start_sample and end_sample are computed the same
   way in dlio_sampler, get_global_map_index and build_sample_map_iter; a rank
   past the end has an empty share. *)
SamplesPerProc(total, size) == CeilDiv(total, size)

(* mutant: samples_per_proc is rounded down *)
ShareRoundedDown(rank, size, total) ==
  rank * (total \div size) .. (rank + 1) * (total \div size) - 1

Share(rank, size, total) ==
  LET spp  == SamplesPerProc(total, size)
      last == (rank + 1) * spp - 1
  IN  rank * spp .. (IF last > total - 1 THEN total - 1 ELSE last)

ShareSize(rank, size, total) == Cardinality(Share(rank, size, total))

(* What reconfigure compares: the sum of the sample indices over all ranks.  Only the
   iterative and the index sampler sum any: for a loader without a sampler (synthetic,
   native_dali, custom and none, unless data_loader_sampler is set) it is 0. *)
SharesSum(size, total) ==
  SumFunction([r \in 0 .. size - 1 |-> SumFunction([s \in Share(r, size, total) |-> s])])

IndexSum(sampler, size, total) == IF sampler = "none" THEN 0 ELSE SharesSum(size, total)

ExpectedIndexSum(total) == (total * (total - 1)) \div 2

-------------------------------------------------------------------------------
(* Where a sample is read: <<file, sample in that file>> *)

(* VirtualIndexMap, for the loaders that index (PyTorch, DALI) *)
VirtualIndex(sample, perFile) == <<sample \div perFile, sample % perFile>>

(* build_sample_map_iter, for the loaders that iterate, in an order of the rank's
   share: the i-th sample is read at its own index within a file, in the file its
   position i calls for, the rank's offset plus i \div perFile. *)
FilesPerRank(size, files) == (files \div size) % files

(* mutant: the rank's offset is forgotten after the first sample *)
ShuffledIndexNoOffset(rank, size, files, perFile, order, i) ==
  <<(IF i = 0 THEN rank * FilesPerRank(size, files) ELSE i \div perFile) % files,
    order[i] % perFile>>

ShuffledIndex(rank, size, files, perFile, order, i) ==
  <<(rank * FilesPerRank(size, files) + i \div perFile) % files, order[i] % perFile>>

FileOrder(rank, size, total) ==
  [i \in 0 .. ShareSize(rank, size, total) - 1 |-> rank * SamplesPerProc(total, size) + i]

(* Without shuffling *)
IterIndex(rank, size, files, perFile, i) ==
  ShuffledIndex(rank, size, files, perFile, FileOrder(rank, size, files * perFile), i)

SamplesPerThread(size, total, threads) == SamplesPerProc(total, size) \div threads

(* The code divides by samples_per_thread for every sample of the rank. *)
BuildRaises(rank, size, total, threads) ==
  ShareSize(rank, size, total) > 0 /\ SamplesPerThread(size, total, threads) = 0

(* The thread of a rank's i-th sample *)
ThreadOf(i, size, total, threads) == (i \div SamplesPerThread(size, total, threads)) % threads

ThreadSamples(rank, size, total, threads, t) ==
  {i \in 0 .. ShareSize(rank, size, total) - 1 : ThreadOf(i, size, total, threads) = t}

-------------------------------------------------------------------------------
(* Batches per epoch *)

(* mutant: rounded up, as training_steps of ConfigArguments is *)
MaxStepsRoundedUp(size, total, batch) == CeilDiv(total, batch * size)

(* main.py: the most steps an epoch can have *)
MaxStepsOf(size, total, batch) == (total \div batch) \div size

(* PyTorch: DataLoader over the share with drop_last *)
TorchBatches(rank, size, total, batch) == ShareSize(rank, size, total) \div batch

(* TensorFlow: each reading thread batches its own samples (FormatReader.next
   drops the incomplete last batch of every thread) *)
TFBatches(rank, size, total, batch, threads) ==
  SumFunction(
    [t \in 0 .. threads - 1 |->
       Cardinality(ThreadSamples(rank, size, total, threads, t)) \div batch])

(* DALI: its share, a batch being whole or not yielded, and at most total/batch *)
DaliBatches(rank, size, total, batch) ==
  LET own == ShareSize(rank, size, total) \div batch
  IN  IF own > total \div batch THEN total \div batch ELSE own

(* Synthetic: counts steps from 1 while step < total/batch, on every rank *)
SyntheticBatches(total, batch) ==
  IF total \div batch = 0 THEN 0 ELSE total \div batch - 1
===============================================================================
