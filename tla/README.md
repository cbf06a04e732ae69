# A verification development of DLIO Benchmark

DLIO Benchmark emulates the I/O of a deep-learning job: MPI ranks generate a
dataset, read it epoch by epoch through a data loader, "compute" by sleeping,
meet at a barrier after every step, write checkpoints, and report throughput.
What it measures is only worth something if the ranks really form a
bulk-synchronous job, if every sample is read once and reported with the bytes
that were read, if a checkpoint is one job's and whole, and if the options that
were set are those in force. This directory specifies those parts in TLA+, checks
them with TLC on small instances, and proves with TLAPS, for every value of the
parameters, that the training loop runs in lock step and on schedule, that a job
keeps its ranks and its dataset in order, that the shares partition the samples,
which jobs' files a checkpoint that is loaded can have, that what is listed after a
generation is what was generated, that every reader delivers its samples in order
and reports the bytes it read, that the row-group cache is consistent, and that the
blocks of an epoch's statistics count what happened.

Paths below are relative to `src/dlio_benchmark/`.

## 1. Inventory

| Component | State it keeps | Operations | Interacts through |
|---|---|---|---|
| Training loop (`main.py` `run`, `_train`, `_eval`) | epoch, step, `next_checkpoint_step`, `next_checkpoint_epoch`, `next_eval_epoch` | one step, a checkpoint, an evaluation, the end of an epoch | barriers with the other ranks; calls loader, checkpointing, statistics, `reconfigure` |
| Job lifecycle (`main.py` `initialize`, `_checkpoint*`, `finalize`) | the place each rank has reached; the dataset and the checkpoints in storage | generate, settle, list, build the mechanism, write and read checkpoints, delete | barriers; storage shared by all ranks |
| MPI (`utils/utility.py` `DLIOMPI`) | rank, size | barrier, allreduce | matched in call order, not by call site |
| Data sharding (`utils/config.py` maps and `reconfigure`, `VirtualIndexMap`, `dlio_sampler`) | none beyond the file list and the seed | share of a rank, file and index of a sample, thread of a sample, sum check | two allreduces; an exception on rank 0 |
| Data loaders (`data_loader/`) | position in an epoch | yield a batch | call readers; their length decides when a rank leaves the loop |
| Readers (`reader/reader_handler.py`, `reader/parquet_reader*.py`) | open files, row-group cache | open, read a sample, close, evict | storage |
| Prefetching readers (`reader/*_iterable*.py`, `reader/npy_reader.py` and siblings) | sizes of prefetched files and objects | prefetch a thread's files, or one on demand; report a sample's size | storage; a thread pool |
| Checkpoint layout (`checkpointing/base_checkpointing.py`) | layers and optimizer shards of a rank | save, load | files of one folder, written by all ranks at once |
| Checkpoint back ends (`checkpointing/*`) | buffers, a streaming child process | save and load a state | storage, across jobs |
| Data generation (`data_generator/`) | list of files, seeds | make folders, write a rank's files in a thread pool | a barrier; storage |
| Storage back ends (`storage/`) | none of their own | create, put, list, delete | the storage, with requests that fail or are dropped |
| Statistics (`utils/statscounter.py`) | times per epoch and block | start and end of blocks, batches, checkpoints, evaluation, `end_run` | allreduces |
| Configuration (`utils/config.py` `LoadConfig`, `validate`, `derive_configurations`, `GetConfig`) | the singleton `ConfigArguments` | load, override from the environment, derive, validate, query | read by everything |
| Factories (`*_factory.py`) | the framework singleton | choose a class, or refuse | read the configuration |
| Frameworks, profilers, postprocessor, plugins | adapters and tools | | |

What is hard here, and what a test on one or two processes does not reach:

* **Collectives are matched by order.** A rank that leaves a loop one step early
  does not fail: its next barrier pairs with the others' step barrier, and every
  collective after it is out of step.
* **Only some ranks act.** Rank 0 makes folders, sleeps, compares sums, raises
  and deletes; everyone else relies on a barrier at the right line.
* **Exceptions are local.** Nothing calls `MPI_Abort`: the ranks that did not
  raise wait for ever.
* **Storage may lag, drop and keep.** An object store's listing is not that of
  the writes and may break off, AIStore uploads fail without an error, and a killed job, or one of
  other ranks, leaves files under the names the next one uses.
* **Arithmetic at the edges.** Ceilings and floors of samples, files, layers,
  threads and batches that do not divide each other, in several copies.
* **Schedules by equality.** A checkpoint is due when a counter *equals* the
  step; a counter that is passed once never matches again.
* **Caches kept in step by hand.** Row groups and their LRU list, prefetched
  sizes dropped by counting samples.
* **Configuration in three places.** YAML, environment and `.env`, stored under
  attribute names of which some are read by nobody, or as strings that equal no member
  of the enumeration they are compared with, derived twice.

`PROJECT.json` lists these as hazards, each at its line with the properties that
cover it.

## 2. Modules

| Module | Models | State |
|---|---|---|
| `Collectives` | barrier and allreduce on `MPI_COMM_WORLD` | `pc`, `calls` (shared with the module that instantiates it) |
| `BulkSync` | abstract: the bulk-synchronous job | `done[r]` |
| `TrainLoop`, `MCTrainLoop` | `run`, `_train`, `_eval`, the collectives of `reconfigure` and `end_run` | per rank: `pc`, `epoch`, `step`, the three schedule counters; history: `processed`, `saved`, `evaluated` |
| `Job` | `initialize`, checkpoint-only `run`, `finalize`, data generation, on all ranks | `conf` (the workload), `pc`, the dataset (`folders`, `files`, `visible`), `listed`, `block`, `saved`, `timed` |
| `Sharding`, `MCSharding` | shares, index maps (shuffled too), threads, batches per loader | `shape` (the sizes, constant in a behaviour) |
| `Delivery` | abstract: what a loader may rely on of a reader | `epoch`, `delivered`, `batches` |
| `Reader`, `MCReader` | a TensorFlow reading thread (`FormatReader.next`) or PyTorch worker (`read_index`), with the Parquet readers' row-group cache | `conf` (what it reads), `pc`, `epoch`, `image_processed`, `batch`, `step`, `open_file_map`, `rg_cache`, `rg_lru`; history: `opened`, `fetched` |
| `Prefetch`, `MCPrefetch` | the readers that count bytes: `_LocalFSIterableMixin`, `_S3IterableMixin` and the classes over them that `ReaderFactory` chooses | as `Reader`, with `cache` (sizes of files and of objects), `stages` (the prefetches of the class hierarchy still to run), `pending`, `fetched`; history: `requests`, `reported` |
| `MCReads` | the reads `Sharding` gives each thread and worker of a small job | |
| `CheckpointLayout` | which rank holds and saves what, as functions of a configuration | |
| `CheckpointStore`, `MCCheckpoint` | `_checkpoint` and the back ends over successive jobs of other ranks, parallelism, model and framework, with kills and listings that fail | `storage`; `layout`, `work` (the job), per rank `pc`, `at`, `todo`; `store` (file to job and chunks), `nodes` (folders); history: `ran` (what each job writes), `phantom`, `killed` |
| `Dataset`, `MCDataset` | generation, listing and deletion over successive jobs, with kills and failed requests | `conf` (the job), per rank `phase`, `begun`, `active`, `listed`; `store`, `index` (of TFRecord), `faults`, `lost`, `killed` |
| `Stats`, `MCStats` | the blocks, checkpoints and evaluation of an epoch in `StatsCounter`, as `_train` and `_eval` drive it on one rank | `conf` (the epoch), `pc`, `now` (the clock), `block`, `block_step`, `overall_step`, `next_checkpoint_step`, the three start times, `output[b]` (lists and metrics of a block), `save_ckpt`, `weights` |
| `Options` | the sections of a workload file, the attribute each option is stored in, read from and answered from | |
| `Config`, `MCConfig` | `LoadConfig`, `derive_configurations`, `validate`, `reconfigure` (its errors) and the factories in the order `main.py` calls them | `job` (YAML, environment, `.env`, machine), `pc`, `args` (`ConfigArguments`), `profiles`, `validated`, `error` |
| `*Proofs` | the theorems, one module per component (section 4) | |

**Composition.** `TrainLoop` and `Job` instantiate `Collectives`; `TrainLoop`
implements `BulkSync`; `Reader` and `Prefetch` implement `Delivery`;
`CheckpointStore` extends `CheckpointLayout`, and `Config` extends `Options`; the
reads of `Reader` and `Prefetch` are those that `Sharding` gives a thread or
worker. Where two models meet at an assumption, one shows what the other takes:
`Sharding` that the loaders yield `EnoughBatches` for `TrainLoop`; `Delivery` that a
thread yields the `TFBatches` that `Sharding` counts; `Dataset` and `CheckpointStore` what
`Job` takes as the files of one generation and one checkpoint.

**Correspondence.** A rank's program counter `pc[r]` is the line it has reached.
In the modules of several ranks a place of `Barriers` or `Allreduces` is the
collective of one line; standing there means having called it. An action is the
code from one place to the next: it carries every assignment on the way (a
counter advanced, a file saved), in the order of the source, and nothing else.
`Collectives` counts the calls of each rank and releases a rank when every other
has made as many, *whatever line they are on*: that is how MPI matches them, so a
mismatch is a state of the model rather than excluded by it. A barrier that
meets an allreduce releases nobody.

**Abstractions.**

* *Everywhere:* log output, tensors and record contents are left out; times are but
  in `Stats`. The extra barriers of a profiled run (`main.py` 205-210, 479-484)
  and the one of the constructor (111) are not in the models: every rank of a job
  passes them under the same condition.
* *`TrainLoop`:* the loader is the number of batches it yields to each rank
  (`Batches`). A checkpoint is one step, begun and finished at different times by
  different ranks. `_eval` has no collective and is one step.
* *`Job`:* training is one step that reads the listed files; a checkpoint is
  complete when each rank has finished its part; the checkpoint folder is on a
  file system; the settle time is long enough for the listing to catch up (a
  shorter one is the same as none, which `ListingMayLag` covers); jobs start on an
  empty storage or on an earlier job's whole dataset (`Configurations`): what
  partial and older ones do is `Dataset` and `CheckpointStore`. The end-of-run
  allreduces, two or four, are one place `metrics` in `Job` and four in `TrainLoop`.
* *`Sharding`:* file shuffling permutes the list before and is left out; sample
  shuffling is an order of the share.
* *`Reader`, `Prefetch`:* one reader, which nothing else touches: a TensorFlow
  thread makes a new one each epoch, a PyTorch worker keeps its one. Every file has
  the same samples. The samples of a worker are whole batches handed out in turn, which
  is what the PyTorch loader does. The answers of a thread pool arrive in any
  order; a batched GET of a library succeeds whole or not at all. Whether `read_type` is
  `ReadType.ON_DEMAND` is an input: it is by default, and is not when a
  configuration names it, as a string.
* *`CheckpointStore`:* a state is written in chunks (`scale` to a file), so that a kill
  can cut it; the object stores' multipart upload appears at its end; a streaming
  checkpoint is taken as the simple one of the repository. A storage is an object store,
  a file system where the count lists the folder that is written to, or one (`rooted`)
  where it lists `storage_root/checkpoint_folder` and raises, since nothing makes that
  folder. A failed listing of an object store gives the names listed so far: the count
  is then any smaller number, which the model tells apart only as too few (`missed`).
* *`Dataset`:* a file is absent, cut, or holds a number of samples; ranks write
  several at a time. A DALI index has the base name of its file. A listing that fails
  gives nothing or, on an S3 store, the first part of the names. Training is the
  listing.
* *`Stats`:* each call that takes time advances a clock by one of a set of
  durations. A ratio is kept as the pair of its terms.
* *`Config`:* one rank, since all do the same with the same values; an option is its
  key, a class its name, a value what the branches tell apart; a string that the program
  compares with members of an enumeration, and that equals none, is wrapped
  (`Unconverted`). `reconfigure` is its two exceptions on rank 0: with a sampler the sums
  agree (`Sharding`), without one they are 0.

## 3. Runs

| Run | Question | Bounds | Distinct states |
|---|---|---|---|
| `train_by_steps` | lock step, step checkpoints, `total_training_steps` | 3 ranks, 2 epochs of up to 6 steps cut to 5, a checkpoint every 2 | 662 |
| `train_by_epochs` | no mismatch, epoch checkpoints and evaluations, termination | 3 ranks, 4 epochs of 2 steps | 742 |
| `job` | does every workflow end on all ranks alike | 3 ranks, 4 files, ≤ 2 checkpoints, every combination of the switches | 321,566 |
| `sharding` | are the shares a partition, is the dataset read once, do the loaders keep up | ≤ 4 ranks, 6 files, 3 samples, batch 3, 3 threads, each sampler: every combination | 1,944 |
| `reader` | are the cache and the open files right whatever is read | ≤ 2 ranks, 3 files, 3 samples per file, 2 threads; batch 2, cache of 0 to 2 groups of 1 or 2 rows, 2 epochs; all three modes | 10,420 |
| `prefetch` | are the bytes reported those that were read, once | the same reads; 12 combinations of format, library and storage, for each kind of reader class, both entry points, with and without failing requests | 31,161 |
| `checkpoint` | is every part saved once, and what do later jobs find | layouts ≤ 8 ranks, parallelism ≤ 3 each, ≤ 4 layers, all ZeRO stages, both modes; two jobs, each one of 6 workloads on one of 7 layouts of one and two ranks; file system, rooted file system, objects; a kill anywhere | 4,698,738 |
| `dataset` | is what is listed what was generated, and what of leftovers | two jobs of 19 configurations, ≤ 2 ranks, ≤ 4 files, ≤ 4 threads; three storages, one failed request, a kill anywhere | 274,487 |
| `stats` | is what a rank measures in an epoch what it did | ≤ 3 steps, a checkpoint every 1 or 2 or by epoch, 0 to 2 steps excluded at each end, loaders a batch short or over; loads of 0 or 2, computes of 1 or 2, barriers of 0 or 1, saves of 1; evaluations of ≤ 2 steps | 1,792,494 |
| `config` | which options take effect, do the parts fit | families of jobs varied over storage, library, framework, format, loader, sampler, numbers of samples, packages and the three sources; ≤ 12 processors, 3 ranks | 83,412 |
| `object_readers` | are objects prefetched (expected: no) | 1 rank, 2 files, 2 samples | |
| `train_total` | is `total_training_steps` the total of a job (expected: no) | 3 ranks, 2 epochs of 6 steps, a total of 5 | |

Why these are enough. Three ranks are the fewest of which two can disagree while
rank 0 acts apart. Two epochs show a counter that is not reset; four show every
second epoch due twice. In both training runs rank 0's loader has a batch more
than needed, so that one rank leaves the loop by `break` and the others by
exhaustion. Four files over three ranks are not divided evenly. The sizes of
`sharding` and the layouts of `checkpoint` include every kind of remainder (none, on the
last, on all) and empty shares. Those of `reader` and `prefetch` include a share
that starts within a file, a thread whose reads do not end with one, a file of
more groups than the cache holds, and a last group of fewer rows. Two jobs are
the fewest of which one finds what another left; those of `dataset` differ in size,
layout, format and number of samples, those of `checkpoint` in
ranks, ZeRO stage, pipeline, framework, size and in who writes.
A third job finds a storage that is again one whole or cut dataset over another.
The epochs of `stats` include blocks of no step and of one, blocks shorter than what is
excluded, exclusions that overlap, and times of 0; a load differs from a compute
and from a save, so that no time can stand in for another.

### What the properties say

*Training.*

* `CollectivesAgree` — ranks that wait in the same collective called it from the
  same line, epoch and step. `Termination` — every rank comes to the end.
* `CheckpointConsistent`, `OneCheckpointAtATime` — while one rank writes a
  checkpoint, no rank has a batch of that step left, and no rank is at another
  checkpoint, although no barrier *follows* a save.
* `ScheduleMet` — at the end exactly the due batches, checkpoints and evaluations
  were done. `BulkSynchronous` — `TrainLoop` implements `BulkSync`, liveness
  included.

*The job.*

* `NoRankFails` — no rank raises when its inputs are there and no listing lags,
  and no collective pairs two lines. `EndsTogether` — every rank ends, all with
  the same outcome unless a listing lagged.
* `CheckpointsInOrder` — nothing is loaded before all ranks have written it, and
  with `rank_sync` the recorded time covers all ranks. `DatasetAtExit` — when a rank
  leaves, the dataset is whole, or gone if it is not kept; on an object store it stays
  whatever `keep_files` says (see the divergences below).

*Samples.*

* `SamplesPartitioned`, `DatasetReadOnce` — the shares are a partition, and an
  epoch reads the dataset once: through the index map always, through the
  iterative one if the ranks divide the files and samples are not shuffled. With
  `sample_shuffle` the iterative map takes the file from the position and the
  index from the shuffled number, so that samples are read twice and others
  never; the property says exactly when.
* `LoadersKeepUp` — no loader runs dry before `max_steps`, under the divisibility
  stated; ranks build their maps all or, with fewer samples than threads, fail
  together but for those of an empty share; the sum check raises for want of a sampler
  (with the loaders synthetic, native_dali, custom and none) when there is more than
  one sample, and never otherwise.
* `Delivers` — `Reader` and `Prefetch` implement `Delivery`: an epoch's samples in
  order, each once, in whole batches. `ReadsToTheEnd` — every epoch comes to its
  end, but for a `row_group_cache_size` of 0 (the eviction loop turns for ever)
  and the combinations that cannot read, which raise in every order of answers.
* `CacheMatchesLRU`, `CachedFilesAreOpen` — the row-group cache and its LRU list,
  kept in step by hand in four places, agree; no group outlives its file and no
  file is closed under a sample.
* `ReadOnce` — what caching is for. For `next` it needs a share that goes file by
  file (`FileByFile`): it closes a file after counting as many samples as a file
  has, and otherwise closes the wrong one.
* `SizesReported`, `FilesRead` — a sample is reported with the bytes of its file,
  whichever class fetched them and however a prefetch ended, and an epoch reads
  the files it should: a worker of local files and the generator of TFRecord
  objects read in the first epoch only.

*Storage.*

* `FilesDistinct`, `SavedOnce` — no two ranks write one file, and a checkpoint is
  the model, once; predefined optimizer groups, which are not divided, are in it whole
  for every rank that saves them.
* `WrittenIsLoaded`, `WritersCountEnough` — a job finds what it has written
  itself, over whatever other jobs left; a rank that counts too few checkpoints
  counts in another folder than it writes to (`rooted`), or is on an object store: its
  listing has failed, or it is in a job with nothing to save (a transformer
  without `num_layers`), which writes no object, or it is a replica that saves nothing,
  without `rank_sync`, when as many are to be read as were written.
* `CheckpointOfOneJob`, `FoldersAreCheckpoints` — a checkpoint has files of two jobs
  only if one was killed or the two had different layouts, and what the ranks load
  themselves of their own names mixes jobs only where they read more than they wrote;
  a folder that counts as a checkpoint holds every file of one of the jobs, whole,
  unless a job was killed or a failed load has made the folder. Two layouts do mix
  (`CheckpointOfOneJob` fails without that disjunct): the files of two ranks stay under a
  checkpoint that one rank writes next.
* `GeneratedIsListed` — what is generated into an empty folder is what is listed,
  or the ranks raise; a lost upload, an empty or a partial listing is never taken for the
  dataset. `ListedFilesWhole` — no cut file and no older content is listed by the
  job that generates. `LeftoversRead` — which files of an older dataset of another
  size are read instead. `IndexFollowsFile` — the DALI index is that of its file
  unless an earlier job's dataset had a file of the same base name, in whichever
  sub-folder.

*Statistics and configuration.*

* `StepsInBlocks`, `CheckpointsOutsideBlocks` — every step is in one block, in
  each of its lists, a block that a checkpoint ended has
  `steps_between_checkpoints`; blocks and checkpoints follow one another in time.
* `MetricsOfSteps` — the average of the epoch weighs each step once and no
  evaluation; whatever is excluded, utilisation is at most 100%; in an epoch of
  one block it is that of the included steps. An epoch of more blocks has no such
  property: the bounds are those of the epoch but the lists are a block's, so that
  each block loses its own first steps.
* `OptionsInForce` — every option set is in force where the program reads it, but
  `fsync` and `recovery_rank_shift`, which are stored where nothing reads them, and
  `read_type`, `file_shuffle` and `compression`, which stay strings; the storage's
  options follow the order library, YAML, shell, `.env`, of which the last two count
  only in a job without an output folder. `DerivedTwice` — the second derivation, after
  the generation, changes four fields (`dimension`, `max_dimension`, `dimension_stdev`,
  `required_samples`), each exactly in the cases given. `PartsAgree` — library,
  mechanism, start method, threads and profiling flag fit. `RefusedLate` — which jobs
  pass `validate` and fail later: in `reconfigure` or in a factory, for seven reasons.

Every property has a mutant of the code (`mutants` of `PROJECT.json`) under which its
run fails.

`Job`, `Reader`, `Prefetch`, `Stats` and the training runs stop at the end of the program:
the stuttering actions `Stopped` and `Terminated` say so, and deadlock is checked. In
`checkpoint`, `dataset` and `config` the system really stops, after the last job or the last
call: deadlock is not checked there.

### Findings

Two runs show where the code does not do what is said of it:

* `object_readers`: the readers of npy, npz, hdf5, jpeg and png objects prefetch their
  objects, as `reader/npy_reader_s3_iterable.py` 30 says, and then call the
  parent's `next` or `read_index`, which prefetches *files* (`npy_reader.py` 53-63)
  and opens the object's key as a path: every such job raises.
* `train_total`: `total_training_steps` is compared in `_train` with a step that starts
  at 1 in each epoch (`main.py` 362, 370). `main.py` 428 logs that the job "Will only
  run up to" the smaller of all steps and that total: two epochs of 6 steps with a total
  of 5 train 10. `ScheduleMet` and `BulkSynchronous` take the limit as the code does, of
  each epoch.

Divergences met while modelling, which the models follow and no run singles out:

* *Loaders.* `data_loader` defaults to a string that is no member of `DataLoaderType`
  (`utils/config.py` 209), where `docs/source/config.rst` 365 has `tensorflow`: the job has
  no sampler, and rank 0 raises "Sharding of train samples are missing samples" in
  `reconfigure`, before the factory that would refuse it. The same becomes of `synthetic`,
  which config.rst names, and `native_dali`, whose sampler is None too, unless
  `data_loader_sampler` is set. With the 8 threads sized automatically, 8 files of one
  sample on two ranks raise a `ZeroDivisionError` in the iterative map.
* *Options.* `file_shuffle: off` shuffles and `compression: zip` writes uncompressed
  (config.rst 309-311, 389-391), since both are strings compared with enumeration members,
  as is `read_type`; `DLIO_STORAGE_TYPE`, `DLIO_BUCKET` and `DLIO_OUTPUT_FOLDER` have no
  effect, since the fields they would fill are never `None` or are overwritten; the file
  counts that `validate` compares are not yet known then.
* *Dataset.* With `keep_files: False` (config.rst 321-323) on an object store the
  dataset stays, after `main.py` 486 has logged "Deleting dataset": `get_node` looks for
  an object of the folder's name and finds none. One sub-folder, or any on an object
  store, is generated and never listed. The DALI index of a file of the same base name
  in another sub-folder is taken for the new file's.
* *Checkpoints.* Jobs of other layouts mix their files under one checkpoint without a
  warning; predefined `optimization_groups` are written whole by every saver; on a file
  system the count is of `storage_root/checkpoint_folder`, the writes are in
  `checkpoint_folder`; `load_checkpoint` asserts `pipeline_parallelism = 1`, though such
  checkpoints are saved; the size reported for ZeRO 2 counts replicas that are not saved;
  with `checkpoint_after_epoch = 0` no epoch checkpoint is ever taken, since the counter
  starts below the first epoch and is compared by equality; `layer_parameters` without
  `num_layers` saves no layers; the TensorFlow mechanism cannot load nested states; a load
  creates the folder it does not find, which later counts as a checkpoint.
* *Others.* `rank_sync` does nothing in training; a block's throughput is of two steps
  less than it has.

### Fairness

Weak fairness of each rank's next step (`TrainLoop`, `Job`): the operating system
runs a process that is not blocked, and a rank is blocked only in a collective,
whose action is disabled until all have called it. The steps a rank takes are
finite computations and I/O calls, assumed to return. `Job` adds weak fairness of
`Propagate`: an object store brings a write into its listings eventually. No
strong fairness is needed: once a collective can release a rank it stays so.
`Reader` and `Prefetch` have weak fairness of `Next`: they are sequential, and a request
to the storage is answered or refused. `Sharding`, `CheckpointStore`, `Dataset`, `Stats`
and `Config` state safety only and have none.

## 4. Proofs

Every module of proofs extends the module it is about and proves its theorems for
all values of the constants, from the named assumptions only.

| Module, theorem | Says | Assumes |
|---|---|---|
| `TrainLoopProofs` `TypeCorrect` | `TypeOK`, whatever the loaders yield | `TrainLoopAssumption` |
| `CollectivesNeverMismatch` | `CollectivesAgree` | and `EnoughBatches` |
| `CheckpointsConsistent` | `CheckpointConsistent` | and `EnoughBatches` |
| `TrainLoopIsBulkSynchronous` | every behaviour is one of `BulkSync` (`Init` and `[][Next]`) | and `EnoughBatches` |
| `RanksInLockstep` | no rank is more than a step ahead, carried over from `BulkSync` | and `EnoughBatches` |
| `ScheduleKept` | `ScheduleMet` | and `EnoughBatches`, first checkpoint and evaluation after epoch 1 or later |
| `CheckpointsDoNotOverlap` | `OneCheckpointAtATime` | and `EnoughBatches` |
| `JobProofs` `TypeInvariant` | `TypeOK` | `JobAssumption` |
| `CheckpointOrder` | `CheckpointsInOrder` | `JobAssumption` |
| `RanksDoNotFail` | `NoRankFails` | `JobAssumption` |
| `DatasetLeft` | `DatasetAtExit` | `JobAssumption` |
| `EpochProofs` `SharesPartition` | `SamplesPartitioned` | the bounds are positive |
| `WholeSharesKeepUp` | a rank with a whole share has a batch for every step (part of `LoadersKeepUp`) | the bounds are positive |
| `IndexLoaders` | the PyTorch and DALI loaders of any share yield the batches of a step count that the divisibility allows (part of `LoadersKeepUp`) | the bounds are positive |
| `MapsTogether` | the ranks build their index maps all or none, but for those of an empty share (part of `LoadersKeepUp`) | the bounds are positive |
| `ReadsDataset` | `DatasetReadOnce` | the bounds are positive |
| `LoadersInStep` | `LoadersKeepUp` | the bounds are positive |
| `BlocksCountTheirSteps` | `StepsInBlocks` | `StatsAssumption` |
| `CheckpointsAreNotTraining` | `CheckpointsOutsideBlocks` | `StatsAssumption` |
| `StepsAreMeasured` | `MetricsOfSteps` | `StatsAssumption` |
| `CheckpointProofs` `RanksWriteApart` | `FilesDistinct` | `StoreAssumption` |
| `LoadedIsOneJobs` | `CheckpointOfOneJob` | `StoreAssumption` |
| `CountedIsWritten` | `FoldersAreCheckpoints` | `StoreAssumption` |
| `OwnCheckpointsLoad` | `WrittenIsLoaded` | `StoreAssumption` |
| `WritersCountAll` | `WritersCountEnough` | `StoreAssumption` |
| `ModelSavedWhole` | `SavedOnce`, and its `WholeModel` in every state | `StoreAssumption` |
| `ReaderProofs` `ReaderTypeCorrect` | `TypeOK` | `ConfigurationsAssumption` |
| `CacheInSync`, `CacheStaysBounded`, `CacheOfOpenFiles` | `CacheMatchesLRU`, `CacheBounded`, `CachedFilesAreOpen` | `ConfigurationsAssumption` |
| `ReaderDelivers` | `Delivers`: every behaviour is one of `Delivery` | `ConfigurationsAssumption` |
| `ReaderOpensOnce` | the part of `ReadOnce` about files, whatever the order of the reads | `ConfigurationsAssumption` |
| `ReaderReadsOnce` | `ReadOnce`; of a worker, if its reads go row group by row group | `ConfigurationsAssumption` |
| `PrefetchProofs` `PrefetchTypeCorrect` | where a reader can be and what its counters count | `ConfigurationsAssumption` |
| `PrefetchDelivers` | `Delivers`, for every class of reader | `ConfigurationsAssumption` |
| `SizesAreReported` | `SizesReported` | and `NoneAssumption` |
| `EachFileRead` | `FilesRead` | and `NoneAssumption` |
| `DatasetProofs` `DatasetSafe` | the inductive invariant `IInv` | `DatasetAssumption` |
| `ListedAreWhole` | `ListedFilesWhole` | `DatasetAssumption` |
| `IndexFollows` | `IndexFollowsFile` | `DatasetAssumption` |
| `GeneratedListed` | `GeneratedIsListed` | `DatasetAssumption` |
| `LeftoversAreRead` | `LeftoversRead` | `DatasetAssumption` |
| `ConfigProofs` `OptionsKept` | `OptionsInForce` | `JobsAssumption`, `UnsetAssumption` |
| `SecondDerivation` | `DerivedTwice` | the same |
| `PartsFit` | `PartsAgree` | the same |
| `LateRefusals` | `RefusedLate` | the same |

The assumptions are types and non-emptiness of the constants. `EnoughBatches`, that
every loader yields the batches an epoch uses, is the condition under which the
loop is meant to run; `Sharding` says which sizes meet it.
`ConfigurationsAssumption` of `Prefetch` also says that TFRecord files are read by a class
of the module only as objects of one of the three libraries (`reader_factory.py` 122-135)
and that thread -1, all samples at once, is asked of the TFRecord reader alone
(`TFDataLoader.read`); `NoneAssumption`, that the `None` of an open file is no byte count. `JobsAssumption` of
`Config` says that the options given are options of the program and have a value, those of
the loader and the switches one that `LoadConfig` accepts, and that a node has a rank;
`UnsetAssumption`, that None is no Boolean.

*Training.* None of the properties is inductive: that two ranks wait at the same
line says nothing of how they got there. `LockInv` adds two facts. `InOrder`: a
rank's place, epoch and step determine how many collectives it has called and how
many batches it has computed (`AtPlace`, a table of the program: `Base(e)`
collectives before epoch `e`, one per step, three to close it). `Waiting`: a rank
outside the collectives has called no more than any other, since the last one it
left released it only then. Agreement is then injectivity of the table on waiting
places (`SitesApart`); consistency is its monotonicity (`BatchesFollowCalls`); the
refinement follows because a rank about to train is outside the collectives.

*The schedule.* `ScheduleInv` says of each counter what it is: the next multiple of
`steps_between_checkpoints` from the step on (`StepsInv`), the next epoch due after
those decided on (`EpochsInv`, `EvalsInv`, by `NextIs` and the lemma `NextDue`), so that the
comparison by equality names every due point (`StepNamed`, `EpochNamed`); and that a rank
has saved exactly the due checkpoints whose points it has passed (`SavedInv`). At the end it
has passed them all. That checkpoints do not overlap needs `Close`, that calls differ
by one at most: a rank past a checkpoint has made at least as many calls as are due by
then (`PassedCalls`), one before it at most as many (`NotPassedCalls`), so that two ranks differ in
no more than the checkpoint one of them is at. The two assumptions on first epochs are
needed: with 0 no epoch checkpoint is taken, and evaluations shift.

*The job.* `JobInv` is the same argument for every workload: place,
round and workload fix the calls, and with them what is saved and timed
(`AtPlace`). `DatasetInv` tells the dataset by the calls of rank 0, which makes the folders,
sleeps and deletes: before its deletion the files are those of an earlier job or
of the shares written so far, all of them after the barrier that ends the
generation (`Milestones`, `AllGenerated`). `Unhurt`, that no rank has failed until now, is
inductive only with both.

*Shares.* The lemma `OneMultiple` puts each sample between two consecutive multiples of
the share in one way only; ceilings cover what they divide (`CeilCovers`). What is read is
followed from a position to its file and the place in it, the quotient and rest of one
division (`Coordinates`, `InFileOrder`): if the ranks divide the files a share begins at the
start of a file (`EvenShare`, `RankReads`), and the ranks together read everything
(`RanksReadAll`) and nothing twice (`RanksReadApart`). That shuffled samples are not read once
needs a permutation that shows it: one that exchanges two samples (`Exchange`) moves what the
iterative map reads (`ShufflesMove`). Sums are folds of the community modules, which unfold to
a function defined by choice of an element (`IsSum`); what they add up to is shown by the
least set or number where it fails (`LeastElement`, `SmallestPart`), which is induction
without an operator as a parameter. The shares follow one another (`SharesFollow`), so that
the sum check of the code expects what they add up to (`SumOfShares`); a thread reads one
sample in so many of its rank's (`ThreadShare`).

*Checkpoints.* Names are distinct because a rank's replica and place in it are quotient
and rest of one division. The runs of layers that `get_layer_index` gives the stages follow
one another and end with the last layer (`StagesOrdered`, `StageIs`), so that every layer is
on one stage (`OneStage`); which ranks of a stage save it is counted over the grid
(`FirstReplica`, `CountReplicas`, `FullGrid`), with no bound on any of its sides. That the
layers have the parameters of the model is a sum over a set, which the community modules
define as the fold some function on the subsets computes: the partial sums in closed form
(`PartSum`) are one such function, and any other agrees with it, for a smallest subset on
which it did not could not lose an element (`SmallestPart`, from the well-founded order on
the subsets of a finite set; `SumOfParts`). `StoreInv` joins types, the places that ranks of
one job may be at together (`PlacesAgree`: the barriers between writing and reading), that
what a rank has saved is there and of this job (`WrittenThere`), and that every other
checkpoint on the storage is settled if none was killed (`OthersSettled`): files of one
checkpoint, one layout and one extension are of one job (`Alike`), and some job has all
its files in every folder, whole (`Full`). Whose a file is follows from the history `ran`
(`JobsAgree`, `FilesOfJobs`). The invariant is preserved over the change of jobs because a
job that ends unkilled has written everything (`WrittenSettles`), over whatever another
layout has left (`SettledBeside`). What a job counts needs `CountInv`: a
rank that counts has made the folders of all its writes (`FoldersMade`); no rank is
more than the barrier ahead of another (`RanksMeet`), so that all have written the parts
of every checkpoint but the last, and with `rank_sync` of that too (`RanksSync`). Names
number the folders and objects injectively (`FoldersCount`, `ObjectsCount`).

*The cache.* `CacheInv` joins the three cache properties and adds that the group
about to be stored is not in the cache (`Missed`), without which its key could
enter the list twice, and that the cache is finite.

*One reader.* The refinement of `Delivery` rests on `BatchInv`: the samples read are the
batches yielded and the one being filled, which for a worker are the quotient and
the rest of a division. `OpenInv` says which files are open at each place: the one the
next sample is in, for `next`; those of the samples so far, for a worker; none
between samples on demand. `FetchInv` says the same of row groups: a worker holds the
last group it was in, so that it fetches none twice if it never comes back to one
(`GroupByGroup`, as the sequential sampler reads); `next` holds all groups of its file if
the cache has room for them.

*Prefetches.* `SizesInv` carries the byte counts from the requests to the report:
counts in a cache or an answer are those of their files (`CountsInv`), a prefetch that
is done has left those of all files that the rest of the epoch needs (`HeldInv`), an
open file has its own (`OpenInv`). It holds from the start unless `next` drops counts as
it closes files, where the reads must go file by file. `RequestsInv` gives the stages of a
class and tells those that cannot read from the others (`DoomedInv`); `FilesInv` says how
often each file has been asked for, in four parts, since there are four ways to ask:
`next` before the epoch (`NextAsked`) or at each opening (`OneFileOpen`), a worker that keeps
what it has (`KeptOnce`) or lets go of it (`AskedEachTime`).

*The dataset.* `IInv` joins the phases (`PhaseInv`: nobody lists before all have
written their shares), the content of a file that a sound rank is done with
(`WrittenInv`), where cut files come from (`CutInv`), whose an index is and when it is
complete (`OwnIndex`, `IndexWritten`), and that a job which began with an empty folder finds
its own names and folders there (`FreshInv`). That the listing then gives exactly the
dataset needs the number of names of each kind (`KindCount`) and the folders the
names are in. What it gives of a folder with other sizes rests on the order of the names
(`NumberOrder`), on what the first n of a finite set of them hold (`FirstOwn`), on the
store being a finite set of such names (`Inventory`), and on nothing being written while a
rank lists or has listed (`StoreSettled`). Where the sizes differ in their number of digits the
order is that of prefixes, and `LeftoversRead` says nothing.

*Statistics.* `StepsInBlocks` speaks of ended blocks only and is not inductive.
`OpenBlock` gives the lengths of the open block's lists at each place of the
loop, `LastOpen` says that only the last block is open and only in the loop, and
`Distance` that the next checkpoint is as many steps away as the block lacks. For
the times, `SavesInv` says that the open block has no checkpoint and a block being
saved has one, with no time later than `now`. `MetricsOfSteps` adds up: the steps of the epoch
are `between` for each block but the last (`CountInv`), whose last step the loader or the
limit made so (`LimitInv`), and the weights are of all blocks and nothing else
(`KeysInv`). The steps of a record follow one another from its start (`Timed`), computing for
part of each, so that what is computed in the included steps and what the excluded ones take
are together no more than the record's time: the slices of Python either part the list
in three (`Slices`, `ComputeFits`) or include nothing.

*The configuration.* An option is found again from its attribute (`Key`), so that
`FromYaml`, which chooses the option of an attribute, chooses the one given
(`KeyOfAttribute`, `Stored`), and what the environment and the other sections then fill is
followed field by field (`LoadConfigFields`, `StorageOptionsLoaded`). Deriving is idempotent
in every field but the four that `DerivedTwice` names (`DerivedAgain`). `StartInv` says what the configuration is
between any two calls of the start, before and after each derivation (`FlowInv`), that
what goes on past `validate` is valid (`ValidInv`), and what made the framework's instance
(`ProfilesInv`); each property follows from it and these lemmas. No job is enumerated:
the theorems hold for any values of the options, any variables and any node.

*Only model-checked.* Liveness, which is out of the prover's reach: `Termination`,
`EndsTogether`, `ReadsToTheEnd`, the fairness of `BulkSync`. Every safety property of a
passing run is proved, under the assumptions that the table names; `ObjectsPrefetched` and
`TotalIsOfTheJob`, which the code violates, are not.

## 5. Not modelled

* **Profilers** (`profiler/`): start and stop external tools; no state of the job
  depends on them, but for the barriers named in section 2.
* **Postprocessor** (`postprocessor.py`): a sequential report over the files of a
  finished run.
* **Plugins** (`plugins/`): examples of user extensions, which no workload of the
  repository loads.
* **Frameworks** (`framework/`): adapters; `compute` sleeps, and is a duration in
  `Stats`. The singleton and its profiling flag are in `Config`.
* **Storage back ends:** signatures, parallel GETs and multipart uploads are the
  libraries'. `Dataset` has what they do to a request that fails; AIStore's prefix
  without a trailing slash is not in it.
* **Data loaders:** queues and worker processes are the frameworks'; the pipelines of
  `tf.data` and DALI read by themselves; of `native_dali` only which jobs start is in
  `Config`, not what it yields.
* **Readers:** the memory-mapped IndexedBinary reader and the DALI readers, which keep
  no state between samples; `finalize`, which no loader calls.
* **Data generation:** Hive partitions of Parquet, and the MPI-IO path of IndexedBinary,
  one collective call of the library.
* **Checkpoints:** AIStore with `pt_save`, which writes to a local path while the count
  lists the bucket; the KSM option and the sizes of tensors under tensor parallelism, which
  are data; the streaming producer and consumer, which are in an external package.
* **Statistics:** the summary over epochs in `end_run` and the files of `save_data`:
  arithmetic over finished lists. **Configuration:** the DFTracer settings and the
  formats of values.
