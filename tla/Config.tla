--------------------------------- MODULE Config ---------------------------------
(***************************************************************************)
(* How a job turns its options into a configuration and its parts: LoadConfig,*)
(* derive_configurations, validate and reconfigure of utils/config.py, the   *)
(* factories, and the order in which DLIOBenchmark.__init__, initialize and   *)
(* run (main.py) call them.  Every rank does the same with the same values,  *)
(* so one is modelled, rank 0; the dataset is taken to be listed whole        *)
(* (Dataset).                                                                *)
(*                                                                         *)
(* A job is                                                                 *)
(*   yaml       option |-> value, for the options set in YAML or on the       *)
(*              command line                                                *)
(*   env, dotenv   variable |-> value: the shell's and those of .env         *)
(*   installed  the optional packages found                                 *)
(*   cpus, ranks, ranks_per_node                                            *)
(* An option that names a class of the user's is stored, and the parts are    *)
(* chosen without it.                                                       *)
(***************************************************************************)
EXTENDS Options, SequencesExt

CONSTANT Jobs

FrameworkType == {"tensorflow", "pytorch"}
StorageType   == {"local_fs", "parallel_fs", "s3", "aistore", "direct_fs"}
FormatType    == {"tfrecord", "hdf5", "csv", "npz", "npy", "hdf5_opt", "jpeg", "png",
                  "indexed_binary", "mmap_indexed_binary", "synthetic", "parquet"}
DataLoaderType == {"tensorflow", "pytorch", "dali", "native_dali", "custom", "none",
                   "synthetic"}
DataLoaderSampler == {"iterative", "index", "none"}

Counts    == {"num_files_train", "num_files_eval", "record_length_bytes_stdev", "read_threads"}
Positives == {"num_samples_per_file", "batch_size"}

(* The options of a job are known ones and have a value: a member of DataLoaderType
   or of DataLoaderSampler, or LoadConfig raises, a Boolean for a switch, TRUE for the
   section ksm, a number for what the samples are counted by. *)
ASSUME JobsAssumption ==
  \A j \in Jobs :
    /\ DOMAIN j.yaml \subseteq Options \cup {"storage_library"}
    /\ \A o \in DOMAIN j.yaml :
         /\ j.yaml[o] # Unset
         /\ o = "data_loader" => j.yaml[o] \in DataLoaderType
         /\ o = "data_loader_sampler" => j.yaml[o] \in DataLoaderSampler
         /\ o \in Counts => j.yaml[o] \in Nat
         /\ o \in Positives => j.yaml[o] \in Nat \ {0}
         /\ o \in {"train", "generate_data", "checkpoint", "profiling"} =>
              j.yaml[o] \in BOOLEAN
         /\ o = "ksm" => j.yaml[o] = TRUE
    /\ j.cpus \in Nat /\ j.ranks \in Nat \ {0} /\ j.ranks_per_node \in Nat \ {0}

(* None is neither a Boolean nor an error. *)
ASSUME UnsetAssumption == Unset \notin BOOLEAN /\ Unset # "Invalid"

VARIABLES
  job,         \* constant in a behaviour
  pc,          \* the next call
  args,        \* ConfigArguments
  profiles,    \* the framework instance's profiling flag, or Unset before it exists
  validated,   \* history: validate has passed
  error        \* what was raised, or Unset

vars == <<job, pc, args, profiles, validated, error>>

-------------------------------------------------------------------------------
(* LoadConfig *)

(* Options that LoadConfig stores as the string it finds where the program compares
   with the members of an enumeration.  <<v>> is the string v, which equals none. *)
Unconverted == {"read_type", "file_shuffle", "compression"}

Converted(o, v) == IF o \in Unconverted THEN <<v>> ELSE v

FromYaml(yaml) ==
  LET set == DOMAIN yaml \ {"storage_library"}
  IN  [a \in {Attribute(o) : o \in set} |->
         LET o == CHOOSE x \in set : Attribute(x) = a IN Converted(o, yaml[o])]

(* storage.storage_library goes into the options of the storage. *)
LibraryPromoted(yaml, a) ==
  IF "storage_library" \in DOMAIN yaml
  THEN [a EXCEPT !.storage_options =
          Over([storage_library |-> yaml["storage_library"]], a.storage_options)]
  ELSE a

Sections(yaml) == LibraryPromoted(yaml, Over(FromYaml(yaml), AllDefaults))

(* _getenv *)
Getenv(j, v) ==
  IF v \in DOMAIN j.env THEN j.env[v]
  ELSE IF v \in DOMAIN j.dotenv THEN j.dotenv[v] ELSE Unset

StorageVariables ==
  [DLIO_STORAGE_LIBRARY |-> "storage_library", AWS_ACCESS_KEY_ID |-> "access_key_id",
   AWS_SECRET_ACCESS_KEY |-> "secret_access_key", AWS_ENDPOINT_URL |-> "endpoint_url",
   AWS_REGION |-> "region"]

(* mutant: the environment overrides the file *)
VariablesToFillAll(j, a) == {v \in DOMAIN StorageVariables : Getenv(j, v) # Unset}

VariablesToFill(j, a) ==
  {v \in DOMAIN StorageVariables :
     Getenv(j, v) # Unset /\ StorageVariables[v] \notin DOMAIN a.storage_options}

(* _apply_env_overrides: storage_type and storage_root are never None here, and
   'auto' is no method of generation. *)
EnvOverrides(j, a) ==
  LET new  == {StorageVariables[v] : v \in VariablesToFill(j, a)}
      VariableOf(k) == CHOOSE v \in DOMAIN StorageVariables : StorageVariables[v] = k
      Filled(field, v, blank) == IF a[field] \in blank /\ Getenv(j, v) # Unset
                                 THEN Getenv(j, v) ELSE a[field]
  IN  [a EXCEPT
         !.data_gen_method = Filled("data_gen_method", "DLIO_DATA_GEN", {Unset, "auto"}),
         !.storage_type = Filled("storage_type", "DLIO_STORAGE_TYPE", {Unset}),
         !.storage_root = Filled("storage_root", "DLIO_BUCKET", {Unset}),
         !.storage_options = Over([k \in new |-> Getenv(j, VariableOf(k))], a.storage_options)]

(* The end of the output section: whatever the overrides made of the folder, it
   is Hydra's or 'output/'. *)
OutputSection(j, a) ==
  IF a.output_folder # Unset THEN a
  ELSE [EnvOverrides(j, a) EXCEPT !.output_folder = "output/"]

WorkflowSection(a) ==
  [a EXCEPT
     !.generate_only = ~a.do_train /\ a.generate_data /\ ~a.do_checkpoint,
     !.checkpoint_only = ~a.do_train /\ a.do_checkpoint]

LoadConfig(j) == WorkflowSection(OutputSection(j, Sections(j.yaml)))

Library(a) ==
  IF "storage_library" \in DOMAIN a.storage_options
  THEN a.storage_options["storage_library"] ELSE Unset

-------------------------------------------------------------------------------
(* derive_configurations.  The integer square root is that of int(math.sqrt). *)

ISqrt(n) == CHOOSE k \in 0..n : k * k <= n /\ (k + 1) * (k + 1) > n
Product(dims) == FoldLeft(LAMBDA p, d : p * d, 1, dims)

DataGenMethod(j, a) ==
  LET method == IF a.data_gen_method # Unset THEN a.data_gen_method
                ELSE IF "DLIO_DATA_GEN" \in DOMAIN j.env THEN j.env["DLIO_DATA_GEN"]
                ELSE "dgen"
  IN  IF (a.generate_data \/ a.do_checkpoint) /\ "dgen" \notin j.installed
      THEN "numpy" ELSE method

Mechanism(a) ==
  IF a.checkpoint_mechanism # "none" THEN a.checkpoint_mechanism
  ELSE IF a.framework = "tensorflow" THEN "tf_save"
  ELSE IF a.storage_type # "s3" THEN "pt_save"
  ELSE IF Library(a) = "s3torchconnector" THEN "pt_s3_save" ELSE "pt_obj_save"

Sampler(a) ==
  IF a.data_loader_sampler # Unset THEN a.data_loader_sampler
  ELSE IF a.data_loader = "tensorflow" THEN "iterative"
  ELSE IF a.data_loader \in {"pytorch", "dali"} THEN "index" ELSE Unset

(* The deviation over twice the length of a record, or over twice its root: the
   terms of the quotient. *)
DimensionStdev(a) ==
  IF a.record_length_stdev = 0 THEN <<0>>
  ELSE <<a.record_length_stdev, IF a.record_dims # <<>> THEN "length" ELSE "root",
         a.record_length>>

Dimensions(a) ==
  LET side == ISqrt(a.record_length)
  IN  [a EXCEPT !.dimension = IF a.record_dims # <<>> THEN a.record_dims ELSE <<side>>,
                !.dimension_stdev = DimensionStdev(a),
                !.max_dimension = IF a.record_length_resize > 0
                                  THEN ISqrt(a.record_length_resize) ELSE side]

(* What derive_configurations counts when it is given the files, those of a job that
   trains; training_steps, eval_steps and the sums of the indices follow from it.
   required_samples takes read_threads as they are before they are sized. *)
WithFiles(j, a) ==
  LET train == IF a.do_train THEN a.num_files_train ELSE 0
      eval  == IF a.do_train THEN a.num_files_eval ELSE 0
  IN  [a EXCEPT
         !.num_files_train = train, !.num_files_eval = eval,
         !.total_samples_train = a.num_samples_per_file * train,
         !.total_samples_eval = a.num_samples_per_file * eval,
         !.required_samples = j.ranks * a.batch_size
                                * IF a.read_threads > 0 THEN a.read_threads ELSE 1]

NativeLoader(a) ==
  \/ a.data_loader = "tensorflow" /\ a.format = "tfrecord"
  \/ a.data_loader = "native_dali" /\ a.format \in {"jpeg", "png", "npy", "tfrecord"}

Context(a) ==
  IF Library(a) \in {"s3dlio", "s3torchconnector"} /\ a.multiprocessing_context = "fork"
  THEN "spawn" ELSE a.multiprocessing_context

(* The default cap DLIO_MAX_AUTO_THREADS. *)
MaxAutoThreads == 8

(* mutant: sized by the node's processors, not the rank's *)
AutoThreadsOfNode(j, n) == IF n = 1 /\ j.cpus < MaxAutoThreads THEN j.cpus ELSE n

AutoThreads(j, n) ==
  LET perRank == j.cpus \div j.ranks_per_node
  IN  IF n = 1 THEN (IF perRank > MaxAutoThreads THEN MaxAutoThreads
                     ELSE IF perRank > 1 THEN perRank ELSE 1)
      ELSE n

(* record_element_type stands for its item size; images are always uint8. *)
ElementBytes(a) == IF a.format \in {"jpeg", "png"} THEN 1 ELSE a.record_element_type

(* mutant: without dimensions the length is taken for a number of elements *)
RecordLengthInElements(a) ==
  (IF a.record_dims = <<>> THEN a.record_length ELSE Product(a.record_dims))
    * ElementBytes(a)

(* record_length is the product of the dimensions even if there are none. *)
RecordLength(a) == Product(a.record_dims) * ElementBytes(a)

Derive(j, a, listed) ==
  LET b == IF listed THEN WithFiles(j, Dimensions(a)) ELSE Dimensions(a)
  IN  [b EXCEPT
         !.data_gen_method = DataGenMethod(j, a),
         !.checkpoint_mechanism = Mechanism(a),
         !.data_loader_sampler = Sampler(a),
         !.native_data_loader = NativeLoader(a),
         !.multiprocessing_context = Context(a),
         !.read_threads = AutoThreads(j, a.read_threads),
         !.write_threads = AutoThreads(j, a.write_threads),
         !.record_element_type = ElementBytes(a),
         !.record_length = RecordLength(a)]

-------------------------------------------------------------------------------
(* validate, without the file counts, which derive_configurations has just made
   equal, and custom classes. *)

Incompatible(j, a) ==
  \/ a.do_profiling /\ a.profiler = "darshan" /\ "darshan" \notin j.installed
  \/ a.format = "tfrecord" /\ a.data_loader = "pytorch"
  \/ a.framework = "tensorflow" /\ a.data_loader = "pytorch"
  \/ a.framework = "pytorch" /\ a.data_loader = "tensorflow"

BadParallelism(j, a) ==
  LET model == a.tensor_parallelism * a.pipeline_parallelism IN
  \/ a.num_layers > 0 /\ a.num_layers < a.pipeline_parallelism
  \/ a.pipeline_parallelism > 1 /\ a.zero_stage = 3
  \/ a.checkpoint_mode = "default" /\ (a.data_parallelism > 0 \/ j.ranks % model # 0)
  \/ a.checkpoint_mode = "subset" /\ (\/ a.data_parallelism <= 0
                                      \/ a.data_parallelism * model < j.ranks)

BadCheckpoint(a) ==
  \/ a.num_checkpoints_write > 0 /\ a.num_checkpoints_read > a.num_checkpoints_write
  \/ a.ksm_present /\ a.checkpoint_randomize_tensor

BadRecord(a) ==
  /\ a.record_dims # <<>>
  /\ \/ a.record_dims[1] % a.num_dset_per_record # 0
     \/ a.format \in {"jpeg", "png"} /\ Len(a.record_dims) > 2
     \/ a.record_length_stdev > 0

Credential(j, a, option, v) == option \in DOMAIN a.storage_options \/ v \in DOMAIN j.env

BadObjectStore(j, a) ==
  \/ a.storage_type = "aistore" /\ "aistore" \notin j.installed
  \/ /\ a.storage_type = "s3" /\ a.framework = "pytorch"
     /\ \/ Library(a) \notin {"s3torchconnector", "minio", "s3dlio"}
        \/ Library(a) = "s3torchconnector" /\ a.do_train /\ a.format \notin {"npz", "npy"}
        \/ Library(a) \notin j.installed
        \/ /\ a.do_checkpoint
           /\ a.checkpoint_mechanism # IF Library(a) = "s3torchconnector"
                                       THEN "pt_s3_save" ELSE "pt_obj_save"
        \/ ~Credential(j, a, "access_key_id", "AWS_ACCESS_KEY_ID")
        \/ ~Credential(j, a, "secret_access_key", "AWS_SECRET_ACCESS_KEY")
        \/ ~Credential(j, a, "endpoint_url", "AWS_ENDPOINT_URL")

Invalid(j, a) == \/ Incompatible(j, a) \/ BadParallelism(j, a) \/ BadCheckpoint(a)
                 \/ BadRecord(a) \/ BadObjectStore(j, a)

-------------------------------------------------------------------------------
(* reconfigure, on rank 0.  Without a sampler no map is built and nothing is summed:
   the sum of the indices is right only if there is at most one sample.  With one it
   is right (Sharding), but the iterative map of the training or the evaluation
   samples divides by the samples of a reading thread. *)

MissingSamples(a) ==
  /\ a.data_loader_sampler \notin {"iterative", "index"}
  /\ \E total \in {a.total_samples_train, a.total_samples_eval} : total > 1

MapThreads(a) ==
  IF a.read_threads > 0 /\ a.data_loader # "dali" THEN a.read_threads ELSE 1

(* The share of rank 0 is ceil(total / ranks) samples. *)
FewerThanThreads(j, a, total) ==
  total > 0 /\ (total + j.ranks - 1) \div j.ranks < MapThreads(a)

ReconfigureError(j, a) ==
  IF MissingSamples(a) THEN "Exception"
  ELSE IF /\ a.data_loader_sampler = "iterative"
          /\ \E total \in {a.total_samples_train, a.total_samples_eval} :
               FewerThanThreads(j, a, total)
  THEN "ZeroDivisionError" ELSE Unset

-------------------------------------------------------------------------------
(* The factories: the error an instance is refused with, or Unset. *)

ObjectStorageError(j, a) ==
  IF Library(a) \notin {"s3dlio", "s3torchconnector", "minio"} THEN "ValueError"
  ELSE IF Library(a) \notin j.installed THEN "ImportError" ELSE Unset

StorageError(j, a) ==
  CASE a.storage_type \in {"local_fs", "direct_fs"} -> Unset
    [] a.storage_type = "s3" -> ObjectStorageError(j, a)
    [] a.storage_type = "aistore" /\ "aistore" \in j.installed -> Unset
    [] a.storage_type = "aistore" /\ "aistore" \notin j.installed -> "ImportError"
    [] OTHER -> "EC1001"

GeneratorError(a) == IF a.format \in FormatType \ {"hdf5_opt"} THEN Unset ELSE "EC1001"

(* mutant: only one of the two mechanisms is known *)
MechanismErrorS3Only(j, a) == IF a.checkpoint_mechanism = "pt_obj_save"
                              THEN "EC1005" ELSE Unset

MechanismError(j, a) ==
  IF a.checkpoint_mechanism \in {"pt_s3_save", "pt_obj_save"} /\ "mlpstorage" \notin j.installed
  THEN "ImportError" ELSE Unset

(* Only rank 0 raises EC1004; the others get None and raise on its first use. *)
LoaderError(a) ==
  IF a.data_loader \in {"pytorch", "tensorflow", "dali", "native_dali", "synthetic"}
  THEN Unset ELSE "EC1004"

ObjectLibrary(a) == /\ a.storage_type \in {"s3", "aistore"}
                    /\ Library(a) \in {"s3dlio", "s3torchconnector", "minio"}

(* SyntheticDataLoader has no reader; NativeDaliDataLoader wants the pipeline of
   a DALI reader and DaliIndexDataset an index-based one, which TFReader is not. *)
ReaderError(a) ==
  IF \/ a.data_loader = "synthetic"
     \/ a.data_loader = "native_dali" /\ a.format = "npy" THEN Unset
  ELSE IF a.odirect /\ a.format \notin {"npy", "npz"} THEN "odirect"
  ELSE IF \/ a.format = "hdf5_opt"
          \/ a.data_loader = "native_dali" /\ a.format = "npz" THEN "format"
  ELSE IF /\ a.data_loader = "native_dali"
          /\ \/ a.format \notin {"jpeg", "png", "tfrecord"}
             \/ a.format = "tfrecord" /\ ObjectLibrary(a) THEN "pipeline"
  ELSE IF a.data_loader = "dali" /\ a.format = "tfrecord" /\ ~ObjectLibrary(a)
  THEN "AssertionError" ELSE Unset

-------------------------------------------------------------------------------
Init ==
  /\ job \in Jobs
  /\ pc = "load" /\ args = AllDefaults /\ profiles = Unset
  /\ validated = FALSE /\ error = Unset

(* Go on to the next call, or leave with an error. *)
Proceed(next, e) ==
  /\ pc' = IF e = Unset THEN next ELSE "failed"
  /\ error' = e

(* DLIOBenchmark.__init__ *)
Load ==
  /\ pc = "load"
  /\ args' = LoadConfig(job)
  /\ Proceed("storage", Unset)
  /\ UNCHANGED <<job, profiles, validated>>

(* DataStorage makes the framework's instance, with profiling off, unless it is
   given no framework, as by ObjStoreLibStorage. *)
GetStorage ==
  /\ pc = "storage"
  /\ Proceed("framework", StorageError(job, args))
  /\ profiles' = IF args.storage_type = "s3" THEN Unset ELSE FALSE
  /\ UNCHANGED <<job, args, validated>>

(* get_instance(profiling) returns the instance there is. *)
GetFramework ==
  /\ pc = "framework"
  /\ profiles' = IF profiles = Unset THEN args.do_profiling ELSE profiles
  /\ Proceed(IF args.generate_data THEN "generator" ELSE "derive", Unset)
  /\ UNCHANGED <<job, args, validated>>

(* The generator's constructor derives the configuration before there are files. *)
GetGenerator ==
  /\ pc = "generator"
  /\ Proceed("derive", GeneratorError(args))
  /\ args' = IF GeneratorError(args) = Unset THEN Derive(job, args, FALSE) ELSE args
  /\ UNCHANGED <<job, profiles, validated>>

(* initialize: the dataset has been generated and listed. *)
DeriveConfigurations ==
  /\ pc = "derive"
  /\ args' = Derive(job, args, TRUE)
  /\ Proceed("validate", Unset)
  /\ UNCHANGED <<job, profiles, validated>>

Validate ==
  /\ pc = "validate"
  /\ Proceed("mechanism", IF Invalid(job, args) THEN "Invalid" ELSE Unset)
  /\ validated' = ~Invalid(job, args)
  /\ UNCHANGED <<job, args, profiles>>

GetMechanism ==
  /\ pc = "mechanism"
  /\ Proceed(IF args.generate_only \/ args.checkpoint_only THEN "ready" ELSE "reconfigure",
             IF ~args.generate_only /\ args.do_checkpoint
             THEN MechanismError(job, args) ELSE Unset)
  /\ UNCHANGED <<job, args, profiles, validated>>

(* run *)
Reconfigure ==
  /\ pc = "reconfigure"
  /\ Proceed("loader", ReconfigureError(job, args))
  /\ UNCHANGED <<job, args, profiles, validated>>

GetLoader ==
  /\ pc = "loader"
  /\ Proceed("reader", LoaderError(args))
  /\ UNCHANGED <<job, args, profiles, validated>>

GetReader ==
  /\ pc = "reader"
  /\ Proceed("ready", ReaderError(args))
  /\ UNCHANGED <<job, args, profiles, validated>>

Next == \/ Load \/ GetStorage \/ GetFramework \/ GetGenerator \/ DeriveConfigurations
        \/ Validate \/ GetMechanism \/ Reconfigure \/ GetLoader \/ GetReader

Spec == Init /\ [][Next]_vars

-------------------------------------------------------------------------------
(* Properties *)

(* Options that have no effect: LoadConfig stores two where nothing reads them, and
   three as strings that the program compares with members of an enumeration, so that
   read_type: memory reads on demand, file_shuffle: off shuffles (config.py 868) and
   compression: zip writes uncompressed (npz_generator.py 57). *)
Misplaced == {"fsync", "recovery_rank_shift"} \cup Unconverted

FromEnvironment(v) == IF "folder" \in DOMAIN job.yaml THEN Unset ELSE Getenv(job, v)

StorageOption(v, k) ==
  IF "storage_options" \in DOMAIN job.yaml /\ k \in DOMAIN job.yaml["storage_options"]
  THEN job.yaml["storage_options"][k] ELSE FromEnvironment(v)

(* 'auto' leaves the method of generation to the environment. *)
ValueGiven(o) ==
  IF /\ o = "data_gen_method" /\ job.yaml[o] = "auto"
     /\ FromEnvironment("DLIO_DATA_GEN") # Unset
  THEN FromEnvironment("DLIO_DATA_GEN") ELSE job.yaml[o]

StorageOptionInForce(k) == IF k \in DOMAIN args.storage_options
                           THEN args.storage_options[k] ELSE Unset

(* After LoadConfig every option but the Misplaced has the value of the YAML file
   where the program reads it, and a query of it answers that value or None; and every
   option of the storage the value of, in this order, storage_library,
   storage_options, the shell and .env; the last two count only in a job that sets no
   output folder. *)
OptionsInForce ==
  pc = "storage" =>
    /\ \A o \in DOMAIN job.yaml \ (Misplaced \cup {"storage_library", "storage_options"}) :
         /\ args[ReadAttribute(o)] = ValueGiven(o)
         /\ GetConfig(args, o) \in {ValueGiven(o), Unset}
    /\ \A v \in DOMAIN StorageVariables :
         StorageOptionInForce(StorageVariables[v]) =
           IF v = "DLIO_STORAGE_LIBRARY" /\ "storage_library" \in DOMAIN job.yaml
           THEN job.yaml["storage_library"] ELSE StorageOption(v, StorageVariables[v])

Once == Derive(job, LoadConfig(job), TRUE)

SameLength == LoadConfig(job).record_length = args.record_length
SameSide   == ISqrt(LoadConfig(job).record_length) = ISqrt(args.record_length)

(* A job that generates its dataset derives its configuration twice, in the generator
   and in initialize.  It ends with the configuration of one derivation (mechanism,
   sampler, threads, context, record length, numbers of samples) save four fields: the
   sizes and the deviation taken from record_length, which the first derivation has
   set, and required_samples, which is multiplied by the threads the first has sized.
   Each of the four is that of one derivation exactly in the cases given. *)
DerivedTwice ==
  pc = "ready" =>
    /\ \A f \in DOMAIN args \ {"dimension", "max_dimension", "dimension_stdev",
                               "required_samples"} : args[f] = Once[f]
    /\ (args.dimension = Once.dimension) <=>
         \/ ~args.generate_data \/ args.record_dims # <<>> \/ SameSide
    /\ (args.max_dimension = Once.max_dimension) <=>
         \/ ~args.generate_data \/ args.record_length_resize > 0 \/ SameSide
    /\ (args.dimension_stdev = Once.dimension_stdev) <=>
         \/ ~args.generate_data \/ args.record_length_stdev = 0 \/ SameLength
    /\ (args.required_samples = Once.required_samples) <=>
         \/ ~args.generate_data \/ args.read_threads = LoadConfig(job).read_threads

(* The threads the ranks of a node are given without asking fit its processors. *)
ThreadsFit ==
  /\ Once.read_threads # LoadConfig(job).read_threads =>
       Once.read_threads * job.ranks_per_node <= job.cpus
  /\ Once.write_threads # LoadConfig(job).write_threads =>
       Once.write_threads * job.ranks_per_node <= job.cpus

(* What storage, mechanism, loader and reader of a job that starts rest on agrees:
   a PyTorch job on an object store has an installed library that all of them know,
   the mechanism of that library, and workers that are not forked if the library is
   a native one; threads sized automatically fit the node; and the framework profiles
   only when asked to and not already made by the storage. *)
PartsAgree ==
  pc = "ready" =>
    /\ args.storage_type = "s3" /\ args.framework = "pytorch" =>
         /\ Library(args) \in {"s3dlio", "s3torchconnector", "minio"} \cap job.installed
         /\ args.checkpoint_mechanism = "pt_s3_save" <=> Library(args) = "s3torchconnector"
         /\ Library(args) # "minio" => args.multiprocessing_context # "fork"
    /\ ThreadsFit
    /\ profiles <=> args.do_profiling /\ args.storage_type = "s3"

(* No sampler comes with the loader, and none is set: with synthetic, native_dali,
   custom and none, and with the default, the string 'tensorflow' that is no member of
   DataLoaderType (docs/source/config.rst has tensorflow). *)
NoSampler ==
  IF "data_loader_sampler" \in DOMAIN job.yaml
  THEN job.yaml["data_loader_sampler"] = "none"
  ELSE args.data_loader \notin {"tensorflow", "pytorch", "dali"}

SamplesListed == {args.num_samples_per_file * args.num_files_train,
                  args.num_samples_per_file * args.num_files_eval}

(* A job that validate lets through starts, unless checkpoints on an object store
   lack their package; no sampler maps its samples and there is more than one; the
   ranks have fewer samples than reading threads to map them to; no loader is chosen;
   odirect is set for a format that has no such reader; or a DALI loader is given a
   format it cannot read. *)
RefusedLate ==
  pc = "failed" /\ validated =>
    \/ args.do_checkpoint /\ args.storage_type = "s3" /\ "mlpstorage" \notin job.installed
    \/ NoSampler /\ \E total \in SamplesListed : total > 1
    \/ /\ args.data_loader_sampler = "iterative" /\ args.data_loader # "dali"
       /\ \E total \in SamplesListed \ {0} : total <= job.ranks * (args.read_threads - 1)
    \/ args.data_loader \in {"'tensorflow'", "custom", "none"}
    \/ args.odirect /\ args.format \notin {"npy", "npz"}
    \/ args.data_loader \in {"dali", "native_dali"} /\ args.format \notin {"npy", "jpeg", "png"}
    \/ args.format = "hdf5_opt"
===============================================================================
