-------------------------------- MODULE MCReads --------------------------------
(***************************************************************************)
(* The reads that Sharding gives a reading thread or a worker of a small    *)
(* job, for the readers' models.                                           *)
(***************************************************************************)
EXTENDS Integers, Sequences

CONSTANTS MaxSize, MaxFiles, MaxPerFile, MaxThreads

S == INSTANCE Sharding

BatchSize == 2
MCEpochs  == 2

Shapes ==
  {s \in [size: 1 .. MaxSize, files: 1 .. MaxFiles, perFile: 1 .. MaxPerFile,
          threads: 1 .. MaxThreads, rank: 0 .. MaxSize - 1, thread: 0 .. MaxThreads - 1] :
     /\ s.rank < s.size
     /\ s.thread < s.threads
     /\ S!SamplesPerThread(s.size, s.files * s.perFile, s.threads) > 0}

(* file_map[thread], the list that build_sample_map_iter appends to *)
IterateReads(s) ==
  LET total == s.files * s.perFile
      mine  == SelectSeq([i \in 1 .. S!ShareSize(s.rank, s.size, total) |-> i - 1],
                         LAMBDA i : S!ThreadOf(i, s.size, total, s.threads) = s.thread)
  IN  [i \in DOMAIN mine |-> S!IterIndex(s.rank, s.size, s.files, s.perFile, mine[i])]

(* The PyTorch loader hands whole batches to its workers in turn. *)
IndexReads(s) ==
  LET total == s.files * s.perFile
      whole == BatchSize * S!TorchBatches(s.rank, s.size, total, BatchSize)
      mine  == SelectSeq([i \in 1 .. whole |-> i - 1],
                         LAMBDA i : (i \div BatchSize) % s.threads = s.thread)
      first == s.rank * S!SamplesPerProc(total, s.size)
  IN  [i \in DOMAIN mine |-> S!VirtualIndex(first + mine[i], s.perFile)]
================================================================================
