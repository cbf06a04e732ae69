------------------------------- MODULE MCSharding -------------------------------
(***************************************************************************)
(* Sharding over every dataset, job and batch of bounded size: shape is a  *)
(* constant of a behaviour, any of Shapes.                                 *)
(***************************************************************************)
EXTENDS Sharding, FiniteSets

CONSTANTS MaxSize, MaxFiles, MaxPerFile, MaxBatch, MaxThreads

ASSUME ShardingAssumption ==
  {MaxSize, MaxFiles, MaxPerFile, MaxBatch, MaxThreads} \subseteq Nat \ {0}

VARIABLE shape

Shapes ==
  [size: 1 .. MaxSize, files: 1 .. MaxFiles, perFile: 1 .. MaxPerFile,
   batch: 1 .. MaxBatch, threads: 1 .. MaxThreads,
   sampler: {"iterative", "index", "none"}]

ShapeInit == shape \in Shapes

ShapeNext == UNCHANGED shape

ShapeSpec == ShapeInit /\ [][ShapeNext]_shape

Total   == shape.files * shape.perFile
Ranks   == 0 .. shape.size - 1
Dataset == (0 .. shape.files - 1) \X (0 .. shape.perFile - 1)

Divides(a, b) == b % a = 0

(* Every sample of the dataset is in the share of exactly one rank, also when
   the ranks do not divide the samples (config.py 795-800, torch_data_loader.py
   83-88). *)
SamplesPartitioned ==
  \A s \in 0 .. Total - 1 :
    Cardinality({r \in Ranks : s \in Share(r, shape.size, Total)}) = 1

IterReads(r, order) ==
  {ShuffledIndex(r, shape.size, shape.files, shape.perFile, order, i) : i \in DOMAIN order}

Unshuffled(r) == FileOrder(r, shape.size, Total)

Swapped(order, i, j) == [order EXCEPT ![i] = order[j], ![j] = order[i]]

(* What sample_shuffle does to the index within a file it does not do to the file:
   of two samples that change places, neither is read as before unless they are of
   one file or at one index. *)
ShufflesApart(r) ==
  LET order == Unshuffled(r) IN
  \A i, j \in DOMAIN order :
    IterReads(r, Swapped(order, i, j)) = IterReads(r, order)
      <=> \/ i \div shape.perFile = j \div shape.perFile
          \/ i % shape.perFile = j % shape.perFile

(* One epoch over the whole of every share reads every sample of every file, and
   each once: through VirtualIndexMap always, through the iterative map when the
   ranks divide the files and the samples are not shuffled; shuffled, only a
   dataset of one sample per file is (config.py 41-105, 810-829). *)
DatasetReadOnce ==
  /\ {VirtualIndex(s, shape.perFile) : s \in 0 .. Total - 1} = Dataset
  /\ Divides(shape.size, shape.files) =>
       /\ UNION {IterReads(r, Unshuffled(r)) : r \in Ranks} = Dataset
       /\ \A r, q \in Ranks :
            r # q => IterReads(r, Unshuffled(r)) \cap IterReads(q, Unshuffled(q)) = {}
       /\ \A r \in Ranks : ShufflesApart(r)

(* The index loaders have a batch for each of the max_steps steps on every rank,
   so that no rank leaves the loop of _train before the others, if the ranks
   divide the samples; a rank with a whole share always has.  The synthetic
   loader, given a data_loader_sampler, has as many unless the job is a single
   rank, whose last step is missing (main.py 360, torch_data_loader.py 106-152). *)
IndexLoadersKeepUp ==
  LET steps == MaxStepsOf(shape.size, Total, shape.batch)
      whole == SamplesPerProc(Total, shape.size)
  IN  /\ \A r \in Ranks :
           ShareSize(r, shape.size, Total) = whole \/ Divides(shape.size, Total) =>
             /\ TorchBatches(r, shape.size, Total, shape.batch) >= steps
             /\ DaliBatches(r, shape.size, Total, shape.batch) >= steps
      /\ shape.size > 1 => SyntheticBatches(Total, shape.batch) >= steps

(* The same of the TensorFlow loader, whose reading threads each drop their last
   incomplete batch: if the batches divide what each thread reads
   (reader_handler.py 72-102, config.py 817). *)
ThreadedLoaderKeepsUp ==
  Divides(shape.size * shape.batch * shape.threads, Total) =>
    \A r \in Ranks :
      TFBatches(r, shape.size, Total, shape.batch, shape.threads)
        >= MaxStepsOf(shape.size, Total, shape.batch)

(* A rank that raises while it builds its map leaves the others in the sum check of
   reconfigure.  It does with fewer samples to a rank than threads, and then the
   ranks with an empty share do not (config.py 803, 817, 886). *)
MapsBuiltTogether ==
  \A r, q \in Ranks :
    BuildRaises(r, shape.size, Total, shape.threads)
      /\ ~BuildRaises(q, shape.size, Total, shape.threads) =>
         /\ SamplesPerProc(Total, shape.size) < shape.threads
         /\ q * SamplesPerProc(Total, shape.size) >= Total

(* No iterative map raises, so that every rank comes to the sums. *)
SumsTaken ==
  shape.sampler = "iterative" =>
    \A r \in Ranks : ~BuildRaises(r, shape.size, Total, shape.threads)

(* The exception of reconfigure, "Sharding of train samples are missing samples",
   raised on rank 0 only, which leaves the other ranks in the next barrier, is raised
   for want of a sampler and for nothing else: never with one, however the ranks
   divide the samples, and always without, if there is more than one sample
   (config.py 659-663, 875-894). *)
SumCheckPasses ==
  SumsTaken =>
    (IndexSum(shape.sampler, shape.size, Total) = ExpectedIndexSum(Total)
       <=> shape.sampler # "none" \/ Total <= 1)

(* When a rank falls behind the others in an epoch for want of batches or of its map,
   or for the sum check: exactly, or at most, in the cases given. *)
LoadersKeepUp ==
  IndexLoadersKeepUp /\ ThreadedLoaderKeepsUp /\ MapsBuiltTogether /\ SumCheckPasses
===============================================================================
