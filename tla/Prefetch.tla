-------------------------------- MODULE Prefetch --------------------------------
(***************************************************************************)
(* One reader of ReaderFactory (reader/reader_factory.py): a TensorFlow     *)
(* reading thread (next) or a PyTorch worker (read_index) of the formats    *)
(* that count bytes instead of decoding.  Their classes differ in what they *)
(* fetch before the loop of FormatReader (_LocalFSIterableMixin,            *)
(* _S3IterableMixin), in what open and close do, and in what get_sample     *)
(* reports.  Parquet is in Reader, tf.data and DALI read by themselves.     *)
(*                                                                         *)
(* conf says what the reader is given:                                      *)
(*   format, odirect, library     as configured; library "none" if unset    *)
(*   storage    "file" or "object" (StorageType.S3, AISTORE)                *)
(*   mode, on_demand, reads, perFile, batch, epochs     as in Reader        *)
(*   whole      the loader asks for thread -1: TFDataLoader of TFRECORD     *)
(*   faulty     a request to the storage may fail for good                  *)
(***************************************************************************)
EXTENDS Integers, SequencesExt

CONSTANTS Configurations, None

Formats   == {"npy", "npz", "hdf5", "jpeg", "csv", "tfrecord", "indexed_binary"}
Libraries == {"s3dlio", "s3torchconnector", "minio"}

ConfigurationType ==
  [format: Formats, odirect: BOOLEAN, library: Libraries \cup {"none"},
   storage: {"file", "object"}, mode: {"iterate", "index"}, on_demand: BOOLEAN,
   whole: BOOLEAN, reads: Seq(Nat \X Nat), perFile: Nat \ {0}, batch: Nat \ {0},
   epochs: Nat \ {0}, faulty: BOOLEAN]

(* get_reader returns no class of this module for TFRECORD outside an object store
   (reader_factory.py 122-135), and only read() of TFDataLoader asks for thread -1. *)
ASSUME ConfigurationsAssumption ==
  /\ Configurations \subseteq ConfigurationType
  /\ \A c \in Configurations :
       /\ c.format = "tfrecord" /\ ~c.odirect => c.storage = "object" /\ c.library \in Libraries
       /\ c.whole => c.format = "tfrecord" /\ c.mode = "iterate"

ASSUME NoneAssumption == None \notin Nat

VARIABLES
  conf,             \* constant in a behaviour
  pc,               \* the place in the code
  epoch,
  image_processed,  \* samples read in this epoch
  batch,            \* samples of the batch being filled
  step,             \* 1 + the batches yielded
  open_file_map,    \* what open returned for a file, or None
  cache,            \* cache["local"] and cache["object"]: file |-> byte count
  stages,           \* the prefetches still to do, first next
  pending,          \* requests in flight
  fetched,          \* answers so far
  requests,         \* history: how often each file was read in this epoch
  reported          \* history: the image_size of each sample of this epoch

vars == <<conf, pc, epoch, image_processed, batch, step, open_file_map, cache,
          stages, pending, fetched, requests, reported>>

-------------------------------------------------------------------------------
(* A reader class: its prefetches in the order that next and read_index call
   them (each class before super()), where open takes its value from (storage:
   open reads the file itself), where get_sample takes the size from, whether
   close drops the file from the object cache, and whether the constructor reads
   index files through the file system. *)
FileReader ==
  [prefetch |-> <<>>, open |-> "storage", size |-> "open_file_map",
   pops |-> FALSE, index |-> FALSE]

LocalReader == [FileReader EXCEPT !.prefetch = <<"local">>, !.open = "local"]

NPYReader   == LocalReader
NPZReader   == LocalReader
HDF5Reader  == LocalReader
ImageReader == LocalReader
CSVReader   == FileReader
NPYReaderODirect    == FileReader
NPZReaderODIRECT    == FileReader
IndexedBinaryReader == [FileReader EXCEPT !.index = TRUE]

(* These read an object in open, and inherit next and read_index. *)
NPYReaderS3 == [NPYReader EXCEPT !.open = "storage"]
NPZReaderS3 == [NPZReader EXCEPT !.open = "storage"]

(* class XReaderS3Iterable(XReader, _S3IterableMixin): super().next() and
   super().read_index() are those of XReader. *)
S3Iterable(parent) ==
  [parent EXCEPT !.prefetch = <<"object">> \o @, !.open = "object",
                 !.size = "object", !.pops = TRUE]

NPYReaderS3Iterable      == S3Iterable(NPYReader)
NPZReaderS3Iterable      == S3Iterable(NPZReader)
HDF5ReaderS3Iterable     == S3Iterable(HDF5Reader)
ImageReaderS3Iterable    == S3Iterable(ImageReader)
CSVReaderS3Iterable      == S3Iterable(CSVReader)
(* With thread -1 it has a loop of its own, without super(). *)
TFRecordReaderS3Iterable ==
  IF conf.whole THEN S3Iterable(FileReader) ELSE S3Iterable(NPYReader)

OnObjects == conf.storage = "object"
Iterable  == OnObjects /\ conf.library \in Libraries

(* The formats that get_reader refuses to read with O_DIRECT *)
Refused == conf.odirect /\ conf.format \notin {"npy", "npz"}

Class ==
  CASE conf.format = "npy" /\ conf.odirect -> NPYReaderODirect
    [] conf.format = "npz" /\ conf.odirect -> NPZReaderODIRECT
    [] conf.format = "npy" /\ ~conf.odirect ->
         IF Iterable THEN NPYReaderS3Iterable
                     ELSE IF OnObjects THEN NPYReaderS3 ELSE NPYReader
    [] conf.format = "npz" /\ ~conf.odirect ->
         IF Iterable THEN NPZReaderS3Iterable
                     ELSE IF OnObjects THEN NPZReaderS3 ELSE NPZReader
    [] conf.format = "hdf5" -> IF Iterable THEN HDF5ReaderS3Iterable ELSE HDF5Reader
    [] conf.format = "jpeg" -> IF Iterable THEN ImageReaderS3Iterable ELSE ImageReader
    [] conf.format = "csv"  -> IF Iterable THEN CSVReaderS3Iterable ELSE CSVReader
    [] conf.format = "tfrecord" -> TFRecordReaderS3Iterable
    [] conf.format = "indexed_binary" -> IndexedBinaryReader

Indexed == conf.mode = "index"
Demand  == Indexed /\ conf.on_demand
Reads   == conf.reads
Files   == {Reads[i][1] : i \in DOMAIN Reads}
File    == Reads[image_processed + 1][1]
JustRead == Reads[image_processed][1]

(* What a file or object counts in bytes: a size of its own *)
Bytes(file) == file + 1

(* dict.get(file, default) *)
Get(dict, file, default) == IF file \in DOMAIN dict THEN dict[file] ELSE default

(* dict[file] = value *)
Put(dict, file, value) ==
  [f \in DOMAIN dict \cup {file} |-> IF f = file THEN value ELSE dict[f]]

NoFile == [f \in {} |-> 0]
Unread == [f \in Files |-> 0]

(* The generator that read() of TFDataLoader holds for TFRECORD is the same one
   in every epoch, and can be iterated once. *)
OneShot == conf.whole

(* Whether opening and reading this through the file system raises *)
NotAFile == OnObjects

Init ==
  /\ conf \in Configurations
  /\ pc = "construct"
  /\ epoch = 1
  /\ image_processed = 0
  /\ batch = 0
  /\ step = 1
  /\ open_file_map = [f \in Files |-> None]
  /\ cache = [local |-> NoFile, object |-> NoFile]
  /\ stages = <<>>
  /\ pending = {}
  /\ fetched = NoFile
  /\ requests = Unread
  /\ reported = <<>>

(* ReaderFactory.get_reader and the constructor. *)
Construct ==
  /\ pc = "construct"
  /\ pc' = IF Refused \/ (Class.index /\ NotAFile) THEN "failed" ELSE "call"
  /\ UNCHANGED <<conf, epoch, image_processed, batch, step, open_file_map, cache,
                 stages, pending, fetched, requests, reported>>

(* A call of read_index, or the first of next. *)
Call ==
  /\ pc = "call"
  /\ image_processed < Len(Reads)
  /\ stages' = Class.prefetch
  /\ pc' = "prefetch"
  /\ UNCHANGED <<conf, epoch, image_processed, batch, step, open_file_map, cache,
                 pending, fetched, requests, reported>>

(* mutant: asks for the file again in every call of read_index *)
WantedAgain(kind) == IF Indexed THEN {File} ELSE Files

(* What a prefetch asks for: next everything the thread reads, in place of what
   was there; read_index the file of the sample, if it is not there. *)
Wanted(kind) == IF Indexed THEN {File} \ DOMAIN cache[kind] ELSE Files

(* _s3_prefetch_all, _s3_ensure_cached, _localfs_prefetch_all or
   _localfs_ensure_cached: the requests are made, *)
Prefetch ==
  /\ pc = "prefetch"
  /\ stages # <<>>
  /\ IF Head(stages) = "local" /\ NotAFile /\ Wanted("local") # {}
     THEN /\ pc' = "failed"
          /\ UNCHANGED <<pending, fetched>>
     ELSE /\ pc' = "fetch"
          /\ pending' = Wanted(Head(stages))
          /\ fetched' = IF Indexed THEN cache[Head(stages)] ELSE NoFile
  /\ UNCHANGED <<conf, epoch, image_processed, batch, step, open_file_map, cache,
                 stages, requests, reported>>

(* they are answered in any order, *)
Answer ==
  /\ pc = "fetch"
  /\ \E file \in pending :
       /\ pending' = pending \ {file}
       /\ fetched' = Put(fetched, file, Bytes(file))
       /\ requests' = [requests EXCEPT ![file] = @ + 1]
  /\ UNCHANGED <<conf, pc, epoch, image_processed, batch, step, open_file_map,
                 cache, stages, reported>>

(* and with the last answer the cache is replaced. *)
Install ==
  /\ pc = "fetch"
  /\ pending = {}
  /\ cache' = [cache EXCEPT ![Head(stages)] = fetched]
  /\ stages' = Tail(stages)
  /\ pc' = "prefetch"
  /\ UNCHANGED <<conf, epoch, image_processed, batch, step, open_file_map,
                 pending, fetched, requests, reported>>

(* A request fails for good: the exception leaves next or read_index. *)
RequestFails ==
  /\ conf.faulty
  /\ pc = "fetch"
  /\ pending # {}
  /\ pc' = "failed"
  /\ UNCHANGED <<conf, epoch, image_processed, batch, step, open_file_map, cache,
                 stages, pending, fetched, requests, reported>>

(* The prefetches are done: the loop of FormatReader.next, or read_index. *)
Prefetched ==
  /\ pc = "prefetch"
  /\ stages = <<>>
  /\ pc' = "open"
  /\ UNCHANGED <<conf, epoch, image_processed, batch, step, open_file_map, cache,
                 stages, pending, fetched, requests, reported>>

Handle ==
  CASE Class.open = "storage" -> Bytes(File)
    [] Class.open = "local"   -> Get(cache["local"], File, 0)
    [] Class.open = "object"  -> Get(cache["object"], File, None)

(* mutant: waits for an object that is not there *)
OpenedWaits == IF Handle = None THEN "open" ELSE "get_sample"

(* Whatever open returns, the sample is read. *)
Opened == "get_sample"

(* A file whose entry is None is opened; the loop for thread -1 opens none. *)
Open ==
  /\ pc = "open"
  /\ image_processed < Len(Reads)
  /\ IF OneShot \/ (open_file_map[File] # None /\ ~Demand)
     THEN pc' = "get_sample" /\ UNCHANGED <<open_file_map, requests>>
     ELSE IF Class.open = "storage" /\ NotAFile /\ Class.prefetch = <<>>
     THEN pc' = "failed" /\ UNCHANGED <<open_file_map, requests>>
     ELSE /\ pc' = Opened
          /\ open_file_map' = [open_file_map EXCEPT ![File] = Handle]
          /\ requests' = [requests EXCEPT ![File] = IF Class.open = "storage" THEN @ + 1 ELSE @]
  /\ UNCHANGED <<conf, epoch, image_processed, batch, step, cache, stages,
                 pending, fetched, reported>>

ImageSize ==
  IF Class.size = "object" THEN Get(cache["object"], File, 0) ELSE open_file_map[File]

LastSample == image_processed + 1 = Len(Reads)

(* mutant: the sample just read is not counted yet *)
FileEndsEarly == image_processed % conf.perFile = 0

(* As many samples as a file has are read. *)
FileEnds == (image_processed + 1) % conf.perFile = 0

(* mutant: the sample just read is not counted yet *)
BatchFullLate == batch = conf.batch

(* The loop for thread -1 fills up its last batch. *)
BatchFull == batch + 1 = conf.batch \/ (OneShot /\ LastSample)

(* get_sample and the rest of the loop of next: a full batch is yielded, a file
   that ends is closed, but not by the loop for thread -1. *)
GetSample ==
  /\ pc = "get_sample"
  /\ ~Indexed
  /\ reported' = Append(reported, ImageSize)
  /\ image_processed' = image_processed + 1
  /\ IF BatchFull
     THEN batch' = 0 /\ step' = step + 1
     ELSE batch' = batch + 1 /\ UNCHANGED step
  /\ pc' = IF FileEnds /\ ~OneShot THEN "close" ELSE "open"
  /\ UNCHANGED <<conf, epoch, open_file_map, cache, stages, pending, fetched, requests>>

(* get_sample and the rest of read_index. *)
GetSampleIndex ==
  /\ pc = "get_sample"
  /\ Indexed
  /\ reported' = Append(reported, ImageSize)
  /\ image_processed' = image_processed + 1
  /\ pc' = IF Demand THEN "close" ELSE IF LastSample THEN "open" ELSE "call"
  /\ UNCHANGED <<conf, epoch, batch, step, open_file_map, cache, stages, pending,
                 fetched, requests>>

(* close drops the object's size, and the entry becomes None. *)
Close ==
  /\ pc = "close"
  /\ cache' = IF Class.pops
              THEN [cache EXCEPT !["object"] = Restrict(@, DOMAIN @ \ {JustRead})]
              ELSE cache
  /\ open_file_map' = [open_file_map EXCEPT ![JustRead] = None]
  /\ pc' = IF Indexed /\ image_processed < Len(Reads) THEN "call" ELSE "open"
  /\ UNCHANGED <<conf, epoch, image_processed, batch, step, stages, pending,
                 fetched, requests, reported>>

EpochRead == pc \in {"call", "open"} /\ image_processed = Len(Reads)

(* The next epoch.  A worker lives on; a TensorFlow thread gets a new reader; an
   exhausted generator yields nothing. *)
EndEpoch ==
  /\ EpochRead
  /\ IF epoch = conf.epochs
     THEN /\ pc' = "done"
          /\ UNCHANGED <<epoch, image_processed, batch, step, open_file_map, cache,
                         requests, reported>>
     ELSE /\ epoch' = epoch + 1
          /\ batch' = 0
          /\ step' = 1
          /\ requests' = Unread
          /\ reported' = <<>>
          /\ IF OneShot
             THEN UNCHANGED <<pc, image_processed, open_file_map, cache>>
             ELSE /\ pc' = "call"
                  /\ image_processed' = 0
                  /\ IF Indexed
                     THEN UNCHANGED <<open_file_map, cache>>
                     ELSE /\ open_file_map' = [f \in Files |-> None]
                          /\ cache' = [local |-> NoFile, object |-> NoFile]
  /\ UNCHANGED <<conf, stages, pending, fetched>>

Terminated == pc \in {"done", "failed"} /\ UNCHANGED vars

Next ==
  \/ Construct \/ Call \/ Prefetch \/ Answer \/ Install \/ RequestFails
  \/ Prefetched \/ Open \/ GetSample \/ GetSampleIndex \/ Close
  \/ EndEpoch \/ Terminated

Spec == Init /\ [][Next]_vars /\ WF_vars(Next)

-------------------------------------------------------------------------------
(* The files of the reads change exactly where next closes one. *)
FileByFile ==
  \A i, j \in DOMAIN Reads :
    Reads[i][1] = Reads[j][1] <=> (i - 1) \div conf.perFile = (j - 1) \div conf.perFile

(* "Fetches every assigned object ... get_sample() reports that byte count"
   (csv_reader_s3_iterable.py 31-34): every sample is reported with the size of
   its file, and never one of a prefetch that failed half way.  next drops the
   objects' sizes by counting samples, so that for objects the reads must go file
   by file; the size of a file on a file system is never dropped. *)
SizesReported ==
  /\ Class.pops /\ ~Indexed /\ ~OneShot => FileByFile
  => \A i \in DOMAIN reported : reported[i] = Bytes(Reads[i][1])

SamplesOf(file) == Cardinality({i \in DOMAIN Reads : Reads[i][1] = file})

(* What an epoch measures: next reads every file of the thread once.  A worker
   reads each file in its first epoch and none later, whose epochs measure no
   I/O; with ReadType.ON_DEMAND it reads an object, or a file it has to parse, for
   every sample, but a file whose bytes it counts still once in its life, since
   close of the local readers keeps the count (npy_reader.py 39-46).  The generator
   for thread -1 reads in the first epoch only. *)
FilesRead ==
  EpochRead =>
    \A file \in Files :
      requests[file] =
        IF Demand /\ Class.open # "local" THEN SamplesOf(file)
        ELSE IF Indexed \/ OneShot THEN IF epoch = 1 THEN 1 ELSE 0
        ELSE IF Class.open # "storage" \/ FileByFile THEN 1 ELSE requests[file]

(* A reader delivers the samples in order and whole batches, each epoch anew; the
   generator for thread -1 in its life one epoch. *)
D == INSTANCE Delivery WITH
  samples <- Len(Reads), size <- conf.batch,
  epochs <- IF OneShot THEN 1 ELSE conf.epochs,
  epoch <- IF OneShot THEN 1 ELSE epoch,
  delivered <- image_processed,
  batches <- IF Indexed \/ OneShot THEN image_processed \div conf.batch ELSE step - 1

Delivers == D!Spec

(* What reads as far as the storage answers: files, and objects with a class that
   has no prefetch of files behind its own. *)
Readable ==
  /\ ~Refused
  /\ OnObjects => Iterable /\ ~conf.odirect /\ (conf.format = "csv" \/ OneShot)

(* Every combination ReaderFactory takes either reads all epochs, or raises; which
   one does not depend on the order in which requests are answered. *)
ReadsToTheEnd ==
  /\ Readable /\ ~conf.faulty => <>(pc = "done")
  /\ ~Readable /\ Reads # <<>> => <>(pc = "failed")

(* "All objects assigned to this DLIO thread are prefetched before iteration begins"
   (npy_reader_s3_iterable.py 30). *)
ObjectsPrefetched ==
  ~Refused /\ ~conf.faulty /\ Contains(Class.prefetch, "object") => pc # "failed"
===============================================================================
