--------------------------------- MODULE Reader ---------------------------------
(***************************************************************************)
(* One reader: a TensorFlow reading thread that runs FormatReader.next, or  *)
(* a PyTorch worker on which the loader calls FormatReader.read_index       *)
(* (reader/reader_handler.py), with the row-group cache of the Parquet      *)
(* readers (reader/parquet_reader*.py).  A reader is sequential: an action  *)
(* is the code between two places of pc.                                    *)
(*                                                                         *)
(* conf says what the reader is given:                                      *)
(*   mode       "iterate" (next) or "index" (read_index)                    *)
(*   on_demand  read_type is ReadType.ON_DEMAND (next does not ask)         *)
(*   reads      the samples of an epoch in order, each <<file, sample>>:    *)
(*              file_map[thread_index], or what the sampler sends           *)
(*   perFile, batch    num_samples_per_file, batch_size                     *)
(*   groups, rows      row groups of a file, rows in each but the last      *)
(*   cacheSize  row_group_cache_size                                        *)
(*   epochs     epochs a PyTorch worker lives, or TensorFlow readers run    *)
(***************************************************************************)
EXTENDS Integers, SequencesExt

CONSTANT Configurations

ConfigurationType ==
  [mode: {"iterate", "index"}, on_demand: BOOLEAN, reads: Seq(Nat \X Nat),
   perFile: Nat \ {0}, batch: Nat \ {0}, groups: Nat \ {0}, rows: Nat \ {0},
   cacheSize: Nat, epochs: Nat \ {0}]

ASSUME ConfigurationsAssumption == Configurations \subseteq ConfigurationType

VARIABLES
  conf,             \* constant in a behaviour
  pc,               \* the place in the code
  epoch,
  image_processed,  \* samples read in this epoch
  batch,            \* len(batch): samples of the batch being filled
  step,             \* self.step: 1 + the batches yielded
  open_file_map,    \* the files whose entry is not None
  rg_cache,         \* keys of the row groups held, each <<file, group>>
  rg_lru,           \* the same keys, least recently used first
  opened,           \* history: how often this reader opened each file
  fetched           \* history: how often it fetched each row group

vars == <<conf, pc, epoch, image_processed, batch, step, open_file_map,
          rg_cache, rg_lru, opened, fetched>>

Reads   == conf.reads
Indexed == conf.mode = "index"
Demand  == Indexed /\ conf.on_demand

(* The row group of a sample: the bisection of the cumulative row offsets,
   clamped to the groups there are. *)
GroupOf(sample) ==
  IF sample \div conf.rows < conf.groups THEN sample \div conf.rows ELSE conf.groups - 1

File   == Reads[image_processed + 1][1]          \* of the sample being read
Key    == <<File, GroupOf(Reads[image_processed + 1][2])>>
JustRead == Reads[image_processed][1]            \* of the sample just read

(* list.remove, skipped if the key is not in the list *)
Without(lru, key) ==
  IF \E i \in DOMAIN lru : lru[i] = key
  THEN RemoveAt(lru, CHOOSE i \in DOMAIN lru : lru[i] = key)
  ELSE lru

Full == Cardinality(rg_cache) >= conf.cacheSize

Files == {Reads[i][1] : i \in DOMAIN Reads}
Keys  == {<<Reads[i][1], GroupOf(Reads[i][2])>> : i \in DOMAIN Reads}

-------------------------------------------------------------------------------
Init ==
  /\ conf \in Configurations
  /\ pc = "open"
  /\ epoch = 1
  /\ image_processed = 0
  /\ batch = 0
  /\ step = 1
  /\ open_file_map = {}
  /\ rg_cache = {}
  /\ rg_lru = <<>>
  /\ opened = [f \in Files |-> 0]
  /\ fetched = [k \in Keys |-> 0]

(* The head of the loop over the samples, or a call of read_index. *)
Open ==
  /\ pc = "open"
  /\ image_processed < Len(Reads)
  /\ IF File \notin open_file_map \/ Demand
     THEN /\ open_file_map' = open_file_map \cup {File}
          /\ opened' = [opened EXCEPT ![File] = @ + 1]
     ELSE UNCHANGED <<open_file_map, opened>>
  /\ pc' = "get_sample"
  /\ UNCHANGED <<conf, epoch, image_processed, batch, step, rg_cache, rg_lru, fetched>>

(* mutant: the hit does not take the key from its old place in the list *)
HitNoRemove ==
  /\ pc = "get_sample"
  /\ Key \in rg_cache
  /\ rg_lru' = Append(rg_lru, Key)
  /\ pc' = "deliver"
  /\ UNCHANGED <<conf, epoch, image_processed, batch, step, open_file_map,
                 rg_cache, opened, fetched>>

(* get_sample of a sample whose row group is cached: it becomes the most recent. *)
Hit ==
  /\ pc = "get_sample"
  /\ Key \in rg_cache
  /\ rg_lru' = Append(Without(rg_lru, Key), Key)
  /\ pc' = "deliver"
  /\ UNCHANGED <<conf, epoch, image_processed, batch, step, open_file_map,
                 rg_cache, opened, fetched>>

(* get_sample of a sample whose row group is not: it is fetched, *)
Miss ==
  /\ pc = "get_sample"
  /\ Key \notin rg_cache
  /\ fetched' = [fetched EXCEPT ![Key] = @ + 1]
  /\ pc' = "evict"
  /\ UNCHANGED <<conf, epoch, image_processed, batch, step, open_file_map,
                 rg_cache, rg_lru, opened>>

(* mutant: the key is popped from the list and the group stays *)
EvictKeyOnly ==
  /\ pc = "evict"
  /\ Full
  /\ IF rg_lru # <<>> THEN rg_lru' = Tail(rg_lru) ELSE UNCHANGED rg_lru
  /\ UNCHANGED <<conf, pc, epoch, image_processed, batch, step, open_file_map,
                 rg_cache, opened, fetched>>

(* the least recent groups make room: one turn of the loop, which does nothing
   when there is none left (and then turns for ever), *)
Evict ==
  /\ pc = "evict"
  /\ Full
  /\ IF rg_lru # <<>>
     THEN /\ rg_lru' = Tail(rg_lru)
          /\ rg_cache' = rg_cache \ {Head(rg_lru)}
     ELSE UNCHANGED <<rg_lru, rg_cache>>
  /\ UNCHANGED <<conf, pc, epoch, image_processed, batch, step, open_file_map,
                 opened, fetched>>

(* and it is stored. *)
Store ==
  /\ pc = "evict"
  /\ ~Full
  /\ rg_cache' = rg_cache \cup {Key}
  /\ rg_lru' = Append(rg_lru, Key)
  /\ pc' = "deliver"
  /\ UNCHANGED <<conf, epoch, image_processed, batch, step, open_file_map,
                 opened, fetched>>

(* mutant: the yielded batch is not emptied *)
DeliverKeepsBatch ==
  /\ pc = "deliver"
  /\ ~Indexed
  /\ image_processed' = image_processed + 1
  /\ batch' = batch + 1
  /\ step' = IF batch' = conf.batch THEN step + 1 ELSE step
  /\ pc' = IF image_processed' % conf.perFile = 0 THEN "close" ELSE "open"
  /\ UNCHANGED <<conf, epoch, open_file_map, rg_cache, rg_lru, opened, fetched>>

(* mutant: the sample just read is not counted yet when the file's end is tested *)
DeliverClosesEarly ==
  /\ pc = "deliver"
  /\ ~Indexed
  /\ image_processed' = image_processed + 1
  /\ IF batch + 1 = conf.batch
     THEN batch' = 0 /\ step' = step + 1
     ELSE batch' = batch + 1 /\ UNCHANGED step
  /\ pc' = IF image_processed % conf.perFile = 0 THEN "close" ELSE "open"
  /\ UNCHANGED <<conf, epoch, open_file_map, rg_cache, rg_lru, opened, fetched>>

(* The rest of the loop of next: a batch that is full is yielded; after as many
   samples as a file has, the file of this one is closed. *)
DeliverIterate ==
  /\ pc = "deliver"
  /\ ~Indexed
  /\ image_processed' = image_processed + 1
  /\ IF batch + 1 = conf.batch
     THEN batch' = 0 /\ step' = step + 1
     ELSE batch' = batch + 1 /\ UNCHANGED step
  /\ pc' = IF image_processed' % conf.perFile = 0 THEN "close" ELSE "open"
  /\ UNCHANGED <<conf, epoch, open_file_map, rg_cache, rg_lru, opened, fetched>>

(* The rest of read_index. *)
DeliverIndex ==
  /\ pc = "deliver"
  /\ Indexed
  /\ image_processed' = image_processed + 1
  /\ pc' = IF Demand THEN "close" ELSE "open"
  /\ UNCHANGED <<conf, epoch, batch, step, open_file_map, rg_cache, rg_lru,
                 opened, fetched>>

(* mutant: close leaves the row groups of the file in the cache *)
CloseFileOnly ==
  /\ pc = "close"
  /\ open_file_map' = open_file_map \ {JustRead}
  /\ pc' = "open"
  /\ UNCHANGED <<conf, epoch, image_processed, batch, step, rg_cache, rg_lru,
                 opened, fetched>>

(* close: the cached row groups of the file go, one key a turn, *)
CloseGroup ==
  /\ pc = "close"
  /\ \E key \in rg_cache :
       /\ key[1] = JustRead
       /\ rg_cache' = rg_cache \ {key}
       /\ rg_lru' = Without(rg_lru, key)
  /\ UNCHANGED <<conf, pc, epoch, image_processed, batch, step, open_file_map,
                 opened, fetched>>

(* and the entry of the file is set to None. *)
CloseFile ==
  /\ pc = "close"
  /\ \A key \in rg_cache : key[1] # JustRead
  /\ open_file_map' = open_file_map \ {JustRead}
  /\ pc' = "open"
  /\ UNCHANGED <<conf, epoch, image_processed, batch, step, rg_cache, rg_lru,
                 opened, fetched>>

(* The epoch's samples are read.  A PyTorch worker persists; for TensorFlow
   the next epoch's generator makes a new reader.  What batch holds is dropped. *)
EndEpoch ==
  /\ pc = "open"
  /\ image_processed = Len(Reads)
  /\ IF epoch < conf.epochs
     THEN /\ epoch' = epoch + 1
          /\ image_processed' = 0
          /\ batch' = 0
          /\ step' = 1
          /\ UNCHANGED pc
          /\ IF Indexed
             THEN UNCHANGED <<open_file_map, rg_cache, rg_lru, opened, fetched>>
             ELSE /\ open_file_map' = {}
                  /\ rg_cache' = {}
                  /\ rg_lru' = <<>>
                  /\ opened' = [f \in Files |-> 0]
                  /\ fetched' = [k \in Keys |-> 0]
     ELSE /\ pc' = "done"
          /\ UNCHANGED <<epoch, image_processed, batch, step, open_file_map,
                         rg_cache, rg_lru, opened, fetched>>
  /\ UNCHANGED conf

Terminated == pc = "done" /\ UNCHANGED vars

Next ==
  \/ Open \/ Hit \/ Miss \/ Evict \/ Store
  \/ DeliverIterate \/ DeliverIndex \/ CloseGroup \/ CloseFile
  \/ EndEpoch \/ Terminated

Spec == Init /\ [][Next]_vars /\ WF_vars(Next)

-------------------------------------------------------------------------------
Places == {"open", "get_sample", "evict", "deliver", "close", "done"}

(* Types, and the sample or the file that each place works on exists. *)
TypeOK ==
  /\ conf \in ConfigurationType
  /\ pc \in Places
  /\ epoch \in 1 .. conf.epochs
  /\ image_processed \in 0 .. Len(Reads)
  /\ pc \in {"get_sample", "evict", "deliver"} => image_processed < Len(Reads)
  /\ pc = "close" => image_processed > 0
  /\ batch \in 0 .. conf.batch - 1
  /\ step \in Nat \ {0}
  /\ open_file_map \subseteq Files
  /\ rg_cache \subseteq Keys
  /\ rg_lru \in Seq(Keys)
  /\ opened \in [Files -> Nat]
  /\ fetched \in [Keys -> Nat]

(* The cache and the list of its keys, kept in step by hand in four places
   (get_sample hit and miss, _evict_lru, close), never drift apart: the list
   has every cached key and each once.  A key left in the list alone would be
   evicted in place of a group that is there; one in the cache alone never. *)
CacheMatchesLRU ==
  /\ rg_cache = {rg_lru[i] : i \in DOMAIN rg_lru}
  /\ \A i, j \in DOMAIN rg_lru : i # j => rg_lru[i] # rg_lru[j]

(* The bound of row_group_cache_size is kept at every moment, also while a group
   is being exchanged for another. *)
CacheBounded == Cardinality(rg_cache) <= conf.cacheSize

(* No row group stays in memory after its file is closed, and the file of the
   group that get_sample fetches is open: whatever the order of the reads, a file
   is not closed under a sample (next closes by counting samples, not by file). *)
CachedFilesAreOpen ==
  /\ \A key \in rg_cache : key[1] \in open_file_map
  /\ pc \in {"get_sample", "evict", "deliver"} => File \in open_file_map

(* The reads cover one file after the other: the files change exactly where next
   closes one. *)
FileByFile ==
  \A i, j \in DOMAIN Reads :
    Reads[i][1] = Reads[j][1] <=> (i - 1) \div conf.perFile = (j - 1) \div conf.perFile

EpochRead == pc = "open" /\ image_processed = Len(Reads)

(* next opens each file once and leaves none open but an unfinished last one, if
   the reads go file by file; otherwise it closes the wrong file, and others stay
   open (reader_handler.py 98-100).  read_index opens each file once in the life
   of the worker, or for every sample and holds nothing between two samples. *)
FilesOpenedOnce ==
  /\ ~Indexed /\ FileByFile =>
       /\ \A f \in Files : opened[f] <= 1
       /\ EpochRead /\ Reads # <<>> =>
            open_file_map = IF Len(Reads) % conf.perFile = 0 THEN {}
                                                             ELSE {Reads[Len(Reads)][1]}
  /\ Indexed /\ ~Demand => \A f \in Files : opened[f] <= 1
  /\ Demand /\ pc = "open" => open_file_map = {} /\ rg_cache = {}

(* "Row groups are cached so consecutive samples from the same row group cost only
   one read" (parquet_reader.py 6-8): each group once per epoch, if the file is
   not closed after every sample; for next, if the reads go file by file and the
   cache takes a file (a share that starts within a file reads it from the middle,
   round to its beginning). *)
GroupsFetchedOnce ==
  /\ Indexed /\ ~Demand => \A k \in Keys : fetched[k] <= epoch
  /\ ~Indexed /\ FileByFile /\ conf.cacheSize >= conf.groups =>
       \A k \in Keys : fetched[k] <= 1

(* What a reader opens and fetches in an epoch. *)
ReadOnce == FilesOpenedOnce /\ GroupsFetchedOnce

(* A reader delivers the samples in order, whatever it has to fetch or close on the
   way, and a thread the whole batches of its reads, each epoch anew; what is left
   in the batch is dropped (TFBatches of Sharding takes that for the number of its
   batches). *)
D == INSTANCE Delivery WITH
  samples <- Len(Reads), size <- conf.batch, epochs <- conf.epochs,
  delivered <- image_processed,
  batches <- IF Indexed THEN image_processed \div conf.batch ELSE step - 1

Delivers == D!Spec

(* Every epoch is read to its end: the loop of evictions ends, unless the cache is
   to hold no group at all, which nothing in the configuration rejects. *)
ReadsToTheEnd == conf.cacheSize > 0 => <>(pc = "done")
===============================================================================
