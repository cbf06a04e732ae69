------------------------------ MODULE ConfigProofs ------------------------------
(***************************************************************************)
(* The start of a job (Config), for every set of jobs, any number of        *)
(* processors and ranks of a node, and any values of the options.  First    *)
(* what LoadConfig and derive_configurations make of each field, then the   *)
(* invariant StartInv of the calls that follow, which says what the         *)
(* configuration is between any two of them, and from both the properties.  *)
(***************************************************************************)
EXTENDS Config, TLAPS

-------------------------------------------------------------------------------
(* LoadConfig *)

(* The option of an attribute that has another name *)
Original ==
  [record_length |-> "record_length_bytes",
   record_length_resize |-> "record_length_bytes_resize",
   record_length_stdev |-> "record_length_bytes_stdev",
   parquet_columns |-> "columns", parquet_row_group_size |-> "row_group_size",
   parquet_partition_by |-> "partition_by",
   parquet_generation_batch_size |-> "generation_batch_size",
   checkpoint_type |-> "type", checkpoint_sync |-> "fsync",
   checkpoint_recover_rank_shift |-> "recovery_rank_shift",
   checkpoint_rank_sync |-> "rank_sync", checkpoint_mode |-> "mode",
   checkpoint_randomize_tensor |-> "randomize_tensor", ksm_present |-> "ksm",
   ksm_madv_mergeable_id |-> "madv_mergeable_id",
   ksm_high_ram_trigger |-> "high_ram_trigger", ksm_low_ram_exit |-> "low_ram_exit",
   ksm_await_time |-> "await_time",
   model |-> "name", model_size |-> "model_size_bytes",
   tensor_parallelism |-> "tensor", pipeline_parallelism |-> "pipeline",
   data_parallelism |-> "data", output_folder |-> "folder",
   metric_exclude_start_steps |-> "exclude_start_steps",
   metric_exclude_end_steps |-> "exclude_end_steps",
   do_train |-> "train", do_eval |-> "evaluation", do_checkpoint |-> "checkpoint",
   do_profiling |-> "profiling"]

Key(a) == IF a \in DOMAIN Original THEN Original[a] ELSE a

(* An attribute that has another name than its option leads back to it. *)
LEMMA RenamedBack == \A o \in DOMAIN Renamed : Key(Renamed[o]) = o
  BY DEF Renamed, Key, Original

(* No option has the name of an attribute that another option is stored in. *)
LEMMA NoAttribute == \A o \in Options : o \notin DOMAIN Original
  BY DEF Original, Options, StorageOptions, DatasetOptions, ParquetOptions, HDF5Options,
  ReaderOptions, TrainOptions, EvaluationOptions, CheckpointOptions, KSMOptions, ModelOptions,
  ParallelismOptions, TransformerOptions, OutputOptions, WorkflowOptions, ProfilingOptions

(* LoadConfig stores two options in two attributes: each leads back to its option. *)
LEMMA KeyOfAttribute == \A o \in Options : Key(Attribute(o)) = o
  BY RenamedBack, NoAttribute DEF Attribute, Key

(* What LoadConfig or derive_configurations computes is not to be set in YAML. *)
LEMMA NotOptions ==
  {"generate_only", "checkpoint_only", "checkpoint_mechanism", "storage_library"}
    \cap Options = {}
  BY DEF Options, StorageOptions, DatasetOptions, ParquetOptions, HDF5Options,
  ReaderOptions, TrainOptions, EvaluationOptions, CheckpointOptions, KSMOptions, ModelOptions,
  ParallelismOptions, TransformerOptions, OutputOptions, WorkflowOptions, ProfilingOptions

(* The options of the attributes the parts of a job are chosen by. *)
LEMMA KeysKnown ==
  /\ Key("generate_only") = "generate_only" /\ Key("checkpoint_only") = "checkpoint_only"
  /\ Key("checkpoint_mechanism") = "checkpoint_mechanism"
  /\ Key("data_gen_method") = "data_gen_method" /\ Key("storage_type") = "storage_type"
  /\ Key("storage_root") = "storage_root" /\ Key("storage_options") = "storage_options"
  /\ Key("output_folder") = "folder" /\ Key("data_loader") = "data_loader"
  /\ Key("generate_data") = "generate_data" /\ Key("do_profiling") = "profiling"
  BY DEF Key, Original

(* The attributes of the options the parts of a job are chosen by. *)
LEMMA AttributesKnown ==
  /\ Attribute("data_loader") = "data_loader" /\ Attribute("storage_options") = "storage_options"
  /\ Attribute("folder") = "output_folder" /\ Attribute("generate_data") = "generate_data"
  /\ Attribute("profiling") = "do_profiling"
  /\ Attribute("data_gen_method") = "data_gen_method"
  BY DEF Attribute, Renamed

(* What one table of values laid over another gives. *)
LEMMA Overlaid ==
  ASSUME NEW f, NEW g
  PROVE  /\ DOMAIN Over(f, g) = DOMAIN f \cup DOMAIN g
         /\ \A x \in DOMAIN f : Over(f, g)[x] = f[x]
         /\ \A x \in DOMAIN g \ DOMAIN f : Over(f, g)[x] = g[x]
  BY DEF Over

Given(y) == DOMAIN y \ {"storage_library"}

(* FromYaml stores the value of every option given, converted, in its attribute. *)
LEMMA Stored ==
  ASSUME NEW y, DOMAIN y \subseteq Options \cup {"storage_library"}
  PROVE  /\ DOMAIN FromYaml(y) = {Attribute(o) : o \in Given(y)}
         /\ \A o \in Given(y) : FromYaml(y)[Attribute(o)] = Converted(o, y[o])
<1>1. DOMAIN FromYaml(y) = {Attribute(o) : o \in Given(y)}
  BY DEF FromYaml, Given
<1>2. ASSUME NEW o \in Given(y)
      PROVE  FromYaml(y)[Attribute(o)] = Converted(o, y[o])
  <2>. DEFINE p == CHOOSE x \in Given(y) : Attribute(x) = Attribute(o)
  <2>1. p \in Given(y) /\ Attribute(p) = Attribute(o)
    OBVIOUS
  <2>2. p = o
    BY <2>1, KeyOfAttribute DEF Given
  <2>3. FromYaml(y)[Attribute(o)] = Converted(p, y[p])
    BY DEF FromYaml, Given
  <2>. QED
    BY <2>2, <2>3
<1>. QED
  BY <1>1, <1>2

(* AllDefaults has the defaults of the fields. *)
LEMMA DefaultsIn ==
  /\ DOMAIN Defaults \subseteq DOMAIN AllDefaults
  /\ \A a \in DOMAIN Defaults : AllDefaults[a] = Defaults[a]
<1>. DEFINE P == [a \in {Attribute(o) : o \in Plain} |-> "default"]
<1>1. DOMAIN P \cap DOMAIN Defaults = {}
  BY DEF Plain
<1>2. AllDefaults = Over(P, Defaults)
  BY DEF AllDefaults
<1>. HIDE DEF P
<1>3. /\ DOMAIN Over(P, Defaults) = DOMAIN P \cup DOMAIN Defaults
      /\ \A a \in DOMAIN Defaults \ DOMAIN P : Over(P, Defaults)[a] = Defaults[a]
  BY Overlaid
<1>4. ASSUME NEW a \in DOMAIN Defaults
      PROVE  AllDefaults[a] = Defaults[a]
  <2>1. a \in DOMAIN Defaults \ DOMAIN P
    BY <1>1
  <2>. QED
    BY <2>1, <1>2, <1>3
<1>. QED
  BY <1>2, <1>3, <1>4

Loaded(y) == Over(FromYaml(y), AllDefaults)

(* The fields as the sections of the file leave them: a given option has its value,
   a field whose option is not given its default. *)
LEMMA LoadedFields ==
  ASSUME NEW y, DOMAIN y \subseteq Options \cup {"storage_library"}
  PROVE  /\ DOMAIN Defaults \subseteq DOMAIN Loaded(y)
         /\ \A o \in Given(y) : /\ Attribute(o) \in DOMAIN Loaded(y)
                                /\ Loaded(y)[Attribute(o)] = Converted(o, y[o])
         /\ \A a \in DOMAIN Defaults :
              Key(a) \notin Given(y) => Loaded(y)[a] = Defaults[a]
<1>1. /\ DOMAIN Loaded(y) = DOMAIN FromYaml(y) \cup DOMAIN AllDefaults
      /\ \A a \in DOMAIN FromYaml(y) : Loaded(y)[a] = FromYaml(y)[a]
      /\ \A a \in DOMAIN AllDefaults \ DOMAIN FromYaml(y) : Loaded(y)[a] = AllDefaults[a]
  BY Overlaid DEF Loaded
<1>2. /\ DOMAIN FromYaml(y) = {Attribute(o) : o \in Given(y)}
      /\ \A o \in Given(y) : FromYaml(y)[Attribute(o)] = Converted(o, y[o])
  BY Stored
<1>3. DOMAIN Defaults \subseteq DOMAIN Loaded(y)
  BY <1>1, DefaultsIn
<1>4. ASSUME NEW o \in Given(y)
      PROVE  /\ Attribute(o) \in DOMAIN Loaded(y)
             /\ Loaded(y)[Attribute(o)] = Converted(o, y[o])
  <2>1. Attribute(o) \in DOMAIN FromYaml(y)
    BY <1>2
  <2>. QED
    BY <2>1, <1>1, <1>2
<1>5. ASSUME NEW a \in DOMAIN Defaults, Key(a) \notin Given(y)
      PROVE  Loaded(y)[a] = Defaults[a]
  <2>1. a \notin DOMAIN FromYaml(y)
    <3>1. \A o \in Given(y) : Key(Attribute(o)) = o
      BY KeyOfAttribute DEF Given
    <3>. QED
      BY <3>1, <1>2, <1>5
  <2>2. a \in DOMAIN AllDefaults /\ AllDefaults[a] = Defaults[a]
    BY DefaultsIn
  <2>. QED
    BY <2>1, <2>2, <1>1
<1>. QED
  BY <1>3, <1>4, <1>5

(* The attributes the rest of LoadConfig sets *)
Overridden == {"storage_options", "data_gen_method", "storage_type", "storage_root",
               "output_folder", "generate_only", "checkpoint_only"}

(* The fields the proofs speak of are fields of ConfigArguments. *)
LEMMA DefaultFields ==
  Overridden \cup {"do_train", "generate_data", "do_checkpoint", "do_profiling",
                   "data_loader", "checkpoint_mechanism", "framework", "format",
                   "data_loader_sampler", "record_length", "record_dims", "dimension",
                   "max_dimension", "record_length_resize", "native_data_loader",
                   "multiprocessing_context", "read_threads", "write_threads",
                   "record_element_type", "do_train", "num_files_train", "num_files_eval",
                   "num_samples_per_file", "batch_size", "total_samples_train",
                   "total_samples_eval", "required_samples", "dimension_stdev",
                   "record_length_stdev"}
    \subseteq DOMAIN Defaults
  BY DEF Overridden, Defaults

(* The library promoted to an option of the storage leaves the other fields alone. *)
LEMMA SectionsFields ==
  ASSUME NEW y
  PROVE  /\ DOMAIN Sections(y) = DOMAIN Loaded(y)
         /\ \A a \in DOMAIN Loaded(y) \ {"storage_options"} : Sections(y)[a] = Loaded(y)[a]
         /\ "storage_options" \in DOMAIN Loaded(y) =>
              Sections(y).storage_options =
                IF "storage_library" \in DOMAIN y
                THEN Over([storage_library |-> y["storage_library"]],
                          Loaded(y).storage_options)
                ELSE Loaded(y).storage_options
  BY DEF Sections, LibraryPromoted, Loaded

(* The method of generation a job that gives one, and no output folder, is left with *)
MethodGiven(j, m) ==
  IF m = "auto" /\ Getenv(j, "DLIO_DATA_GEN") # Unset
  THEN Getenv(j, "DLIO_DATA_GEN") ELSE m

(* The environment and the folder of the output section fill what has no value and
   leave alone what has one. *)
LEMMA OutputFields ==
  ASSUME NEW j, NEW a, Overridden \subseteq DOMAIN a
  PROVE  /\ DOMAIN OutputSection(j, a) = DOMAIN a
         /\ \A f \in DOMAIN a \ Overridden : OutputSection(j, a)[f] = a[f]
         /\ \A f \in {"storage_type", "storage_root", "output_folder"} :
              a[f] # Unset => OutputSection(j, a)[f] = a[f]
         /\ a.output_folder = Unset /\ a.data_gen_method # Unset =>
              OutputSection(j, a).data_gen_method = MethodGiven(j, a.data_gen_method)
         /\ \A f \in {"generate_only", "checkpoint_only"} : OutputSection(j, a)[f] = a[f]
         /\ a.output_folder # Unset => OutputSection(j, a) = a
         /\ a.output_folder = Unset =>
              OutputSection(j, a).storage_options = EnvOverrides(j, a).storage_options
<1>. DEFINE e == EnvOverrides(j, a)
<1>1. /\ DOMAIN e = DOMAIN a
      /\ \A f \in DOMAIN a \ {"storage_options", "data_gen_method", "storage_type",
                              "storage_root"} : e[f] = a[f]
  BY DEF EnvOverrides
<1>2. e.storage_type = a.storage_type \/ a.storage_type = Unset
  BY DEF EnvOverrides, Overridden
<1>3. e.storage_root = a.storage_root \/ a.storage_root = Unset
  BY DEF EnvOverrides, Overridden
<1>4. a.data_gen_method # Unset => e.data_gen_method = MethodGiven(j, a.data_gen_method)
  BY DEF EnvOverrides, Overridden, MethodGiven
<1>. HIDE DEF e
<1>5. OutputSection(j, a) =
        IF a.output_folder # Unset THEN a ELSE [e EXCEPT !.output_folder = "output/"]
  BY DEF OutputSection, e
<1>6. CASE a.output_folder # Unset
  BY <1>5, <1>6
<1>7. CASE a.output_folder = Unset
  <2>. DEFINE o == OutputSection(j, a)
  <2>1. o = [e EXCEPT !.output_folder = "output/"]
    BY <1>5, <1>7
  <2>. HIDE DEF o
  <2>2. /\ DOMAIN o = DOMAIN a /\ \A f \in DOMAIN a \ {"output_folder"} : o[f] = e[f]
    BY <1>1, <2>1
  <2>3. \A f \in DOMAIN a \ Overridden : o[f] = a[f]
    BY <1>1, <2>2 DEF Overridden
  <2>4. \A f \in {"storage_type", "storage_root", "output_folder"} :
          a[f] # Unset => o[f] = a[f]
    BY <1>2, <1>3, <1>7, <2>2 DEF Overridden
  <2>5. a.data_gen_method # Unset => o.data_gen_method = MethodGiven(j, a.data_gen_method)
    BY <1>4, <2>2 DEF Overridden
  <2>6. \A f \in {"generate_only", "checkpoint_only"} : o[f] = a[f]
    BY <1>1, <2>2 DEF Overridden
  <2>7. o.storage_options = e.storage_options
    BY <2>2 DEF Overridden
  <2>. QED
    BY <1>7, <2>2, <2>3, <2>4, <2>5, <2>6, <2>7 DEF o, e
<1>. QED
  BY <1>6, <1>7

(* The workflow section sets generate_only and checkpoint_only. *)
LEMMA WorkflowFields ==
  ASSUME NEW a, Overridden \subseteq DOMAIN a
  PROVE  /\ DOMAIN WorkflowSection(a) = DOMAIN a
         /\ \A f \in DOMAIN a \ {"generate_only", "checkpoint_only"} :
              WorkflowSection(a)[f] = a[f]
  BY DEF WorkflowSection, Overridden

(* A job has an output folder after its sections if and only if it gives one. *)
LEMMA OutputFolder ==
  ASSUME NEW j \in Jobs
  PROVE  /\ DOMAIN Loaded(j.yaml) = DOMAIN Sections(j.yaml)
         /\ "output_folder" \in DOMAIN Sections(j.yaml)
         /\ Sections(j.yaml).output_folder # Unset <=> "folder" \in DOMAIN j.yaml
<1>. DEFINE y == j.yaml
<1>0. /\ DOMAIN y \subseteq Options \cup {"storage_library"}
      /\ \A o \in DOMAIN y : y[o] # Unset
  BY JobsAssumption
<1>. HIDE DEF y
<1>1. /\ DOMAIN Defaults \subseteq DOMAIN Loaded(y)
      /\ \A o \in Given(y) : Loaded(y)[Attribute(o)] = Converted(o, y[o])
      /\ \A a \in DOMAIN Defaults : Key(a) \notin Given(y) => Loaded(y)[a] = Defaults[a]
  BY <1>0, LoadedFields
<1>2. "output_folder" \in DOMAIN Defaults /\ Defaults.output_folder = Unset
  BY DEF Defaults
<1>3. DOMAIN Sections(y) = DOMAIN Loaded(y)
  BY SectionsFields
<1>4. Sections(y).output_folder = Loaded(y).output_folder
  <2>1. "output_folder" \in DOMAIN Loaded(y) \ {"storage_options"}
    BY <1>1, <1>2
  <2>. QED
    BY <2>1, SectionsFields
<1>5. CASE "folder" \in DOMAIN y
  <2>1. "folder" \in Given(y)
    BY <1>5 DEF Given
  <2>2. Loaded(y).output_folder = y["folder"]
    BY <2>1, <1>1, AttributesKnown DEF Converted, Unconverted
  <2>. QED
    BY <2>2, <1>0, <1>1, <1>2, <1>3, <1>4, <1>5 DEF y
<1>6. CASE "folder" \notin DOMAIN y
  <2>1. Key("output_folder") \notin Given(y)
    BY <1>6, KeysKnown DEF Given
  <2>. QED
    BY <2>1, <1>1, <1>2, <1>3, <1>4, <1>6 DEF y
<1>. QED
  BY <1>5, <1>6

(* The value an option given in YAML has after LoadConfig, and a field of no option *)
LEMMA LoadConfigFields ==
  ASSUME NEW j \in Jobs
  PROVE  /\ DOMAIN Defaults \subseteq DOMAIN LoadConfig(j)
         /\ \A o \in Given(j.yaml) \ {"storage_options", "data_gen_method"} :
              LoadConfig(j)[Attribute(o)] = Converted(o, j.yaml[o])
         /\ "data_gen_method" \in DOMAIN j.yaml =>
              LoadConfig(j).data_gen_method =
                IF "folder" \in DOMAIN j.yaml THEN j.yaml["data_gen_method"]
                ELSE MethodGiven(j, j.yaml["data_gen_method"])
         /\ \A a \in DOMAIN Defaults \ Overridden :
              Key(a) \notin Given(j.yaml) => LoadConfig(j)[a] = Defaults[a]
         /\ LoadConfig(j).storage_options =
              IF "folder" \in DOMAIN j.yaml THEN Sections(j.yaml).storage_options
              ELSE EnvOverrides(j, Sections(j.yaml)).storage_options
<1>. DEFINE y == j.yaml
            S == Sections(y)
            O == OutputSection(j, S)
            L == WorkflowSection(O)
<1>0. /\ DOMAIN y \subseteq Options \cup {"storage_library"}
      /\ \A o \in DOMAIN y : y[o] # Unset
  BY JobsAssumption
<1>1. LoadConfig(j) = L
  BY DEF LoadConfig
<1>2. S.output_folder # Unset <=> "folder" \in DOMAIN y
  BY OutputFolder
<1>y. y = j.yaml
  OBVIOUS
<1>. HIDE DEF y
<1>3. /\ DOMAIN Defaults \subseteq DOMAIN Loaded(y)
      /\ \A o \in Given(y) : /\ Attribute(o) \in DOMAIN Loaded(y)
                             /\ Loaded(y)[Attribute(o)] = Converted(o, y[o])
      /\ \A a \in DOMAIN Defaults : Key(a) \notin Given(y) => Loaded(y)[a] = Defaults[a]
  BY <1>0, LoadedFields
<1>4. /\ DOMAIN S = DOMAIN Loaded(y)
      /\ \A a \in DOMAIN Loaded(y) \ {"storage_options"} : S[a] = Loaded(y)[a]
  BY SectionsFields
<1>. HIDE DEF S
<1>5. Overridden \subseteq DOMAIN S
  BY <1>3, <1>4, DefaultFields
<1>6. /\ DOMAIN O = DOMAIN S
      /\ \A f \in DOMAIN S \ Overridden : O[f] = S[f]
      /\ \A f \in {"storage_type", "storage_root", "output_folder"} :
           S[f] # Unset => O[f] = S[f]
      /\ S.output_folder = Unset /\ S.data_gen_method # Unset =>
           O.data_gen_method = MethodGiven(j, S.data_gen_method)
      /\ S.output_folder # Unset => O = S
      /\ S.output_folder = Unset => O.storage_options = EnvOverrides(j, S).storage_options
  BY <1>5, OutputFields
<1>. HIDE DEF O
<1>7. /\ DOMAIN L = DOMAIN O
      /\ \A f \in DOMAIN O \ {"generate_only", "checkpoint_only"} : L[f] = O[f]
  BY <1>5, <1>6, WorkflowFields
<1>. HIDE DEF L
<1>8. ASSUME NEW o \in Given(y) \ {"storage_options", "data_gen_method"}
      PROVE  L[Attribute(o)] = Converted(o, y[o])
  <2>. DEFINE a == Attribute(o)
  <2>1. o \in Options /\ Key(a) = o
    BY <1>0, KeyOfAttribute DEF Given
  <2>2. a \in DOMAIN Loaded(y) /\ Loaded(y)[a] = Converted(o, y[o])
    BY <1>3
  <2>3. a \notin {"generate_only", "checkpoint_only", "storage_options"}
    BY <2>1, KeysKnown, NotOptions
  <2>. HIDE DEF a
  <2>4. a \in DOMAIN S /\ S[a] = Converted(o, y[o])
    BY <2>2, <2>3, <1>4
  <2>5. L[a] = O[a]
    BY <2>3, <2>4, <1>6, <1>7
  <2>6. CASE a \notin Overridden
    BY <2>4, <2>5, <2>6, <1>6 DEF a
  <2>7. CASE a \in Overridden
    <3>1. a \in {"storage_type", "storage_root", "output_folder"}
      BY <2>1, <2>3, <2>7, KeysKnown DEF Overridden
    <3>2. o \notin Unconverted
      BY <3>1, <2>1, KeysKnown DEF Unconverted
    <3>3. S[a] # Unset
      BY <3>2, <2>4, <1>0 DEF Converted, Unconverted, Given
    <3>. QED
      BY <3>1, <3>3, <2>4, <2>5, <1>6 DEF a
  <2>. QED
    BY <2>6, <2>7
<1>9. ASSUME NEW a \in DOMAIN Defaults \ Overridden, Key(a) \notin Given(y)
      PROVE  L[a] = Defaults[a]
  <2>1. Loaded(y)[a] = Defaults[a] /\ a \in DOMAIN Loaded(y)
    BY <1>3, <1>9
  <2>2. a \notin {"generate_only", "checkpoint_only", "storage_options"}
    BY DEF Overridden
  <2>3. a \in DOMAIN S /\ S[a] = Defaults[a]
    BY <2>1, <2>2, <1>4
  <2>. QED
    BY <2>2, <2>3, <1>6, <1>7
<1>10. L.storage_options = O.storage_options
  BY <1>5, <1>6, <1>7 DEF Overridden
<1>11. O.storage_options = IF "folder" \in DOMAIN y THEN S.storage_options
                           ELSE EnvOverrides(j, S).storage_options
  BY <1>2, <1>6
<1>12. DOMAIN Defaults \subseteq DOMAIN L
  BY <1>3, <1>4, <1>6, <1>7
<1>13. ASSUME "data_gen_method" \in DOMAIN y
       PROVE  L.data_gen_method = IF "folder" \in DOMAIN y THEN y["data_gen_method"]
                                  ELSE MethodGiven(j, y["data_gen_method"])
  <2>1. "data_gen_method" \in Given(y)
    BY <1>13 DEF Given
  <2>2. "data_gen_method" \in DOMAIN Loaded(y) /\ Loaded(y).data_gen_method = y["data_gen_method"]
    BY <2>1, <1>3, AttributesKnown DEF Converted, Unconverted
  <2>3. /\ "data_gen_method" \in DOMAIN S /\ S.data_gen_method = y["data_gen_method"]
        /\ S.data_gen_method # Unset
    BY <2>2, <1>0, <1>4, <1>13
  <2>4. L.data_gen_method = O.data_gen_method
    BY <2>3, <1>6, <1>7
  <2>. QED
    BY <2>3, <2>4, <1>2, <1>6
<1>. QED
  BY <1>y, <1>1, <1>8, <1>9, <1>10, <1>11, <1>12, <1>13 DEF S

-------------------------------------------------------------------------------
(* The options of the storage *)

At(f, k) == IF k \in DOMAIN f THEN f[k] ELSE Unset

Base(y) == IF "storage_options" \in DOMAIN y THEN y["storage_options"] ELSE <<>>

(* The options of the storage before the library and the environment add to them. *)
LEMMA BaseLoaded ==
  ASSUME NEW j \in Jobs
  PROVE  Loaded(j.yaml).storage_options = Base(j.yaml)
<1>. DEFINE y == j.yaml
<1>0. DOMAIN y \subseteq Options \cup {"storage_library"}
  BY JobsAssumption
<1>. HIDE DEF y
<1>1. /\ \A o \in Given(y) : Loaded(y)[Attribute(o)] = Converted(o, y[o])
      /\ \A a \in DOMAIN Defaults : Key(a) \notin Given(y) => Loaded(y)[a] = Defaults[a]
  BY <1>0, LoadedFields
<1>2. "storage_options" \in DOMAIN Defaults /\ Defaults.storage_options = <<>>
  BY DEF Defaults
<1>3. CASE "storage_options" \in DOMAIN y
  <2>1. "storage_options" \in Given(y)
    BY <1>3 DEF Given
  <2>. QED
    BY <2>1, <1>1, <1>3, AttributesKnown DEF Converted, Unconverted, Base, y
<1>4. CASE "storage_options" \notin DOMAIN y
  <2>1. Key("storage_options") \notin Given(y)
    BY <1>4, KeysKnown DEF Given
  <2>. QED
    BY <2>1, <1>1, <1>2, <1>4 DEF Base, y
<1>. QED
  BY <1>3, <1>4

(* Each variable of the environment fills an option of its own. *)
LEMMA StorageVariablesDiffer ==
  /\ DOMAIN StorageVariables = {"DLIO_STORAGE_LIBRARY", "AWS_ACCESS_KEY_ID",
                                "AWS_SECRET_ACCESS_KEY", "AWS_ENDPOINT_URL", "AWS_REGION"}
  /\ \A v, w \in DOMAIN StorageVariables :
       StorageVariables[v] = StorageVariables[w] => v = w
  /\ \A v \in DOMAIN StorageVariables :
       StorageVariables[v] = "storage_library" <=> v = "DLIO_STORAGE_LIBRARY"
  BY DEF StorageVariables

(* An option of the storage after storage_library is promoted to one of them. *)
LEMMA PromotedOptions ==
  ASSUME NEW j \in Jobs, NEW k
  PROVE  At(Sections(j.yaml).storage_options, k) =
           IF k = "storage_library" /\ "storage_library" \in DOMAIN j.yaml
           THEN j.yaml["storage_library"] ELSE At(Base(j.yaml), k)
<1>. DEFINE y == j.yaml
            one == [storage_library |-> y["storage_library"]]
<1>1. "storage_options" \in DOMAIN Loaded(y)
  <2>1. DOMAIN y \subseteq Options \cup {"storage_library"}
    BY JobsAssumption
  <2>2. DOMAIN Defaults \subseteq DOMAIN Loaded(y)
    BY <2>1, LoadedFields
  <2>. QED
    BY <2>2, DefaultFields DEF Overridden
<1>2. Loaded(y).storage_options = Base(y)
  BY BaseLoaded
<1>3. Sections(y).storage_options =
        IF "storage_library" \in DOMAIN y THEN Over(one, Base(y)) ELSE Base(y)
  BY <1>1, <1>2, SectionsFields
<1>4. DOMAIN one = {"storage_library"} /\ one["storage_library"] = y["storage_library"]
  OBVIOUS
<1>. HIDE DEF one
<1>5. /\ DOMAIN Over(one, Base(y)) = DOMAIN one \cup DOMAIN Base(y)
      /\ \A x \in DOMAIN one : Over(one, Base(y))[x] = one[x]
      /\ \A x \in DOMAIN Base(y) \ DOMAIN one : Over(one, Base(y))[x] = Base(y)[x]
  BY Overlaid
<1>. QED
  BY <1>3, <1>4, <1>5 DEF At

(* _apply_env_overrides fills an option of the storage only if it has no value. *)
LEMMA FilledOptions ==
  ASSUME NEW j, NEW a, Overridden \subseteq DOMAIN a, NEW v \in DOMAIN StorageVariables
  PROVE  At(EnvOverrides(j, a).storage_options, StorageVariables[v]) =
           IF StorageVariables[v] \in DOMAIN a.storage_options
           THEN a.storage_options[StorageVariables[v]] ELSE Getenv(j, v)
<1>. DEFINE k == StorageVariables[v]
            new == {StorageVariables[w] : w \in VariablesToFill(j, a)}
            VariableOf(x) == CHOOSE w \in DOMAIN StorageVariables : StorageVariables[w] = x
            f == [x \in new |-> Getenv(j, VariableOf(x))]
            s == a.storage_options
<1>1. EnvOverrides(j, a).storage_options = Over(f, s)
  BY DEF EnvOverrides, Overridden
<1>2. VariableOf(k) = v
  BY StorageVariablesDiffer
<1>3. k \in new <=> Getenv(j, v) # Unset /\ k \notin DOMAIN s
  BY StorageVariablesDiffer DEF VariablesToFill
<1>4. DOMAIN f = new /\ (k \in new => f[k] = Getenv(j, v))
  BY <1>2
<1>. HIDE DEF f, new, s, k
<1>5. /\ DOMAIN Over(f, s) = DOMAIN f \cup DOMAIN s
      /\ \A x \in DOMAIN f : Over(f, s)[x] = f[x]
      /\ \A x \in DOMAIN s \ DOMAIN f : Over(f, s)[x] = s[x]
  BY Overlaid
<1>6. At(Over(f, s), k) = IF k \in DOMAIN s THEN s[k] ELSE Getenv(j, v)
  BY <1>3, <1>4, <1>5 DEF At
<1>. QED
  BY <1>1, <1>6 DEF k, s

(* The options of the storage that LoadConfig leaves *)
LEMMA StorageOptionsLoaded ==
  ASSUME NEW j \in Jobs, NEW v \in DOMAIN StorageVariables
  PROVE  At(LoadConfig(j).storage_options, StorageVariables[v]) =
           IF v = "DLIO_STORAGE_LIBRARY" /\ "storage_library" \in DOMAIN j.yaml
           THEN j.yaml["storage_library"]
           ELSE IF StorageVariables[v] \in DOMAIN Base(j.yaml)
           THEN Base(j.yaml)[StorageVariables[v]]
           ELSE IF "folder" \in DOMAIN j.yaml THEN Unset ELSE Getenv(j, v)
<1>. DEFINE y == j.yaml
            k == StorageVariables[v]
            S == Sections(y)
<1>0. k = "storage_library" <=> v = "DLIO_STORAGE_LIBRARY"
  BY StorageVariablesDiffer
<1>1. At(S.storage_options, k) =
        IF k = "storage_library" /\ "storage_library" \in DOMAIN y
        THEN y["storage_library"] ELSE At(Base(y), k)
  BY PromotedOptions
<1>2. k \in DOMAIN S.storage_options <=>
        \/ k = "storage_library" /\ "storage_library" \in DOMAIN y
        \/ k \in DOMAIN Base(y)
  <2>1. DOMAIN y \subseteq Options \cup {"storage_library"}
    BY JobsAssumption
  <2>2. DOMAIN Defaults \subseteq DOMAIN Loaded(y)
    BY <2>1, LoadedFields
  <2>3. "storage_options" \in DOMAIN Loaded(y)
    BY <2>2, DefaultFields DEF Overridden
  <2>4. S.storage_options =
          IF "storage_library" \in DOMAIN y
          THEN Over([storage_library |-> y["storage_library"]], Base(y)) ELSE Base(y)
    BY <2>3, BaseLoaded, SectionsFields
  <2>5. DOMAIN Over([storage_library |-> y["storage_library"]], Base(y))
          = {"storage_library"} \cup DOMAIN Base(y)
    BY DEF Over
  <2>. QED
    BY <2>4, <2>5
<1>3. CASE "folder" \in DOMAIN y
  <2>1. LoadConfig(j).storage_options = S.storage_options
    BY <1>3, LoadConfigFields
  <2>. QED
    BY <2>1, <1>0, <1>1, <1>3 DEF At
<1>4. CASE "folder" \notin DOMAIN y
  <2>1. LoadConfig(j).storage_options = EnvOverrides(j, S).storage_options
    BY <1>4, LoadConfigFields
  <2>2. Overridden \subseteq DOMAIN S
    <3>1. DOMAIN y \subseteq Options \cup {"storage_library"}
      BY JobsAssumption
    <3>2. DOMAIN Defaults \subseteq DOMAIN Loaded(y)
      BY <3>1, LoadedFields
    <3>3. DOMAIN S = DOMAIN Loaded(y)
      BY SectionsFields
    <3>. QED
      BY <3>2, <3>3, DefaultFields
  <2>3. At(EnvOverrides(j, S).storage_options, k) =
          IF k \in DOMAIN S.storage_options THEN S.storage_options[k] ELSE Getenv(j, v)
    <3>. HIDE DEF S
    <3>. QED
      BY <2>2, FilledOptions
  <2>. QED
    BY <2>1, <2>3, <1>0, <1>1, <1>2, <1>4 DEF At
<1>. QED
  BY <1>3, <1>4

-------------------------------------------------------------------------------
(* derive_configurations *)

(* What derive_configurations sets when it is given the files *)
Counted == {"num_files_train", "num_files_eval", "total_samples_train",
            "total_samples_eval", "required_samples"}

Derived == Counted \cup
           {"dimension", "dimension_stdev", "max_dimension", "data_gen_method",
            "checkpoint_mechanism", "data_loader_sampler", "native_data_loader",
            "multiprocessing_context", "read_threads", "write_threads",
            "record_element_type", "record_length"}

(* What derive_configurations sets are fields. *)
LEMMA DerivedDefaults == Derived \subseteq DOMAIN Defaults
  BY DEF Derived, Counted, Defaults

(* The files of a job, and what it counts by them *)
Files(a, f)       == IF a.do_train THEN a[f] ELSE 0
SamplesOf(a, f)   == a.num_samples_per_file * Files(a, f)
SamplesAtOnce(j, a) ==
  j.ranks * a.batch_size * (IF a.read_threads > 0 THEN a.read_threads ELSE 1)

CountedFrom(j, a, b) ==
  /\ b.num_files_train = Files(a, "num_files_train")
  /\ b.num_files_eval = Files(a, "num_files_eval")
  /\ b.total_samples_train = SamplesOf(a, "num_files_train")
  /\ b.total_samples_eval = SamplesOf(a, "num_files_eval")
  /\ b.required_samples = SamplesAtOnce(j, a)

DerivedFrom(j, a, listed, b) ==
  /\ DOMAIN b = DOMAIN a
  /\ \A f \in DOMAIN a \ Derived : b[f] = a[f]
  /\ b.dimension = IF a.record_dims # <<>> THEN a.record_dims ELSE <<ISqrt(a.record_length)>>
  /\ b.dimension_stdev = DimensionStdev(a)
  /\ b.max_dimension = IF a.record_length_resize > 0 THEN ISqrt(a.record_length_resize)
                       ELSE ISqrt(a.record_length)
  /\ b.data_gen_method = DataGenMethod(j, a)
  /\ b.checkpoint_mechanism = Mechanism(a)
  /\ b.data_loader_sampler = Sampler(a)
  /\ b.native_data_loader = NativeLoader(a)
  /\ b.multiprocessing_context = Context(a)
  /\ b.read_threads = AutoThreads(j, a.read_threads)
  /\ b.write_threads = AutoThreads(j, a.write_threads)
  /\ b.record_element_type = ElementBytes(a)
  /\ b.record_length = RecordLength(a)
  /\ listed => CountedFrom(j, a, b)
  /\ ~listed => \A f \in Counted : b[f] = a[f]

(* What the counts of the files leave in each field. *)
LEMMA CountFields ==
  ASSUME NEW j, NEW a, Counted \subseteq DOMAIN a
  PROVE  /\ DOMAIN WithFiles(j, a) = DOMAIN a
         /\ \A f \in DOMAIN a \ Counted : WithFiles(j, a)[f] = a[f]
         /\ CountedFrom(j, a, WithFiles(j, a))
  BY DEF WithFiles, Counted, CountedFrom, Files, SamplesOf, SamplesAtOnce

(* What the sizes of a record leave in each field. *)
LEMMA DimensionFields ==
  ASSUME NEW a, Derived \subseteq DOMAIN a
  PROVE  /\ DOMAIN Dimensions(a) = DOMAIN a
         /\ \A f \in DOMAIN a \ {"dimension", "dimension_stdev", "max_dimension"} :
              Dimensions(a)[f] = a[f]
         /\ Dimensions(a).dimension =
              IF a.record_dims # <<>> THEN a.record_dims ELSE <<ISqrt(a.record_length)>>
         /\ Dimensions(a).dimension_stdev = DimensionStdev(a)
         /\ Dimensions(a).max_dimension =
              IF a.record_length_resize > 0 THEN ISqrt(a.record_length_resize)
              ELSE ISqrt(a.record_length)
  BY DEF Dimensions, Derived

(* What one call of derive_configurations makes of each field. *)
LEMMA DeriveFields ==
  ASSUME NEW j, NEW a, NEW listed \in BOOLEAN, DOMAIN Defaults \subseteq DOMAIN a
  PROVE  DerivedFrom(j, a, listed, Derive(j, a, listed))
<1>. DEFINE d == Dimensions(a)
            w == WithFiles(j, d)
            b == IF listed THEN w ELSE d
            c == Derive(j, a, listed)
<1>1. Derived \subseteq DOMAIN a /\ Counted \subseteq DOMAIN a
  BY DerivedDefaults DEF Derived
<1>2. /\ DOMAIN d = DOMAIN a
      /\ \A f \in DOMAIN a \ {"dimension", "dimension_stdev", "max_dimension"} : d[f] = a[f]
      /\ d.dimension = IF a.record_dims # <<>> THEN a.record_dims
                       ELSE <<ISqrt(a.record_length)>>
      /\ d.dimension_stdev = DimensionStdev(a)
      /\ d.max_dimension = IF a.record_length_resize > 0 THEN ISqrt(a.record_length_resize)
                           ELSE ISqrt(a.record_length)
  BY <1>1, DimensionFields
<1>3. c = [b EXCEPT
             !.data_gen_method = DataGenMethod(j, a),
             !.checkpoint_mechanism = Mechanism(a),
             !.data_loader_sampler = Sampler(a),
             !.native_data_loader = NativeLoader(a),
             !.multiprocessing_context = Context(a),
             !.read_threads = AutoThreads(j, a.read_threads),
             !.write_threads = AutoThreads(j, a.write_threads),
             !.record_element_type = ElementBytes(a),
             !.record_length = RecordLength(a)]
  BY DEF Derive
<1>. HIDE DEF d
<1>4. /\ DOMAIN w = DOMAIN a
      /\ \A f \in DOMAIN a \ Counted : w[f] = d[f]
      /\ CountedFrom(j, d, w)
  BY <1>1, <1>2, CountFields
<1>5. CountedFrom(j, a, w)
  <2>1. /\ {"do_train", "num_samples_per_file", "batch_size", "read_threads",
            "num_files_train", "num_files_eval"} \subseteq DOMAIN a
        /\ d.do_train = a.do_train /\ d.num_samples_per_file = a.num_samples_per_file
        /\ d.batch_size = a.batch_size /\ d.read_threads = a.read_threads
        /\ d["num_files_train"] = a["num_files_train"]
        /\ d["num_files_eval"] = a["num_files_eval"]
    BY <1>2, DefaultFields
  <2>. QED
    BY <1>4, <2>1 DEF CountedFrom, Files, SamplesOf, SamplesAtOnce
<1>. HIDE DEF w
<1>6. DOMAIN b = DOMAIN a
  BY <1>2, <1>4
<1>7. /\ \A f \in DOMAIN a \ Derived : b[f] = a[f]
      /\ b.dimension = d.dimension /\ b.dimension_stdev = d.dimension_stdev
      /\ b.max_dimension = d.max_dimension
      /\ listed => \A f \in Counted : b[f] = w[f]
      /\ ~listed => \A f \in Counted : b[f] = a[f]
  BY <1>1, <1>2, <1>4 DEF Derived, Counted
<1>. HIDE DEF b
<1>8. /\ DOMAIN c = DOMAIN a
      /\ \A f \in DOMAIN a : f \notin Derived \/ f \in Counted \cup
             {"dimension", "dimension_stdev", "max_dimension"} => c[f] = b[f]
  BY <1>3, <1>6 DEF Derived, Counted
<1>9. /\ c.data_gen_method = DataGenMethod(j, a)
      /\ c.checkpoint_mechanism = Mechanism(a)
      /\ c.data_loader_sampler = Sampler(a)
      /\ c.native_data_loader = NativeLoader(a)
      /\ c.multiprocessing_context = Context(a)
      /\ c.read_threads = AutoThreads(j, a.read_threads)
      /\ c.write_threads = AutoThreads(j, a.write_threads)
      /\ c.record_element_type = ElementBytes(a)
      /\ c.record_length = RecordLength(a)
  BY <1>1, <1>3, <1>6 DEF Derived
<1>. HIDE DEF c
<1>10. {"dimension", "dimension_stdev", "max_dimension"} \subseteq DOMAIN a
  BY <1>1 DEF Derived
<1>11. listed => CountedFrom(j, a, c)
  <2>1. listed => \A f \in Counted : c[f] = w[f]
    BY <1>1, <1>7, <1>8
  <2>. QED
    BY <2>1, <1>5 DEF Counted, CountedFrom
<1>12. ~listed => \A f \in Counted : c[f] = a[f]
  BY <1>1, <1>7, <1>8
<1>13. \A f \in DOMAIN a \ Derived : c[f] = a[f]
  BY <1>7, <1>8
<1>14. /\ c.dimension = d.dimension /\ c.dimension_stdev = d.dimension_stdev
       /\ c.max_dimension = d.max_dimension
  BY <1>7, <1>8, <1>10
<1>15. DerivedFrom(j, a, listed, c)
  BY <1>2, <1>8, <1>9, <1>11, <1>12, <1>13, <1>14 DEF DerivedFrom
<1>. QED
  BY <1>15 DEF c

(* The fields derive_configurations reads and leaves alone *)
Read == {"generate_data", "do_checkpoint", "do_train", "framework", "storage_type",
         "storage_options", "data_loader", "format", "record_dims", "record_length_resize",
         "record_length_stdev", "num_samples_per_file", "batch_size"}

(* derive_configurations does not set what it chooses by. *)
LEMMA ReadLeft == Read \subseteq DOMAIN Defaults \ Derived
  BY DEF Read, Derived, Counted, Defaults

(* A number of threads that has been sized is not sized again. *)
LEMMA ThreadsSettle ==
  ASSUME NEW j, NEW n
  PROVE  AutoThreads(j, AutoThreads(j, n)) = AutoThreads(j, n)
  BY DEF AutoThreads

(* The fields that a derivation before the files are listed changes *)
Unsettled == {"dimension", "max_dimension", "dimension_stdev", "required_samples"}

(* A derivation before the files are listed changes no other field of the one after. *)
LEMMA DerivedAgain ==
  ASSUME NEW j, NEW a, DOMAIN Defaults \subseteq DOMAIN a, NEW f \in DOMAIN a \ Unsettled
  PROVE  Derive(j, Derive(j, a, FALSE), TRUE)[f] = Derive(j, a, TRUE)[f]
<1>. DEFINE b == Derive(j, a, FALSE)
            c == Derive(j, b, TRUE)
            d == Derive(j, a, TRUE)
<1>1. DerivedFrom(j, a, FALSE, b) /\ DerivedFrom(j, a, TRUE, d)
  BY DeriveFields
<1>. HIDE DEF b, d
<1>3. DerivedFrom(j, b, TRUE, c)
  <2>1. DOMAIN Defaults \subseteq DOMAIN b
    BY <1>1 DEF DerivedFrom
  <2>. QED
    BY <2>1, DeriveFields
<1>. HIDE DEF c
<1>4. \A g \in Read : b[g] = a[g]
  BY <1>1, ReadLeft DEF DerivedFrom
<1>5. /\ b.generate_data = a.generate_data /\ b.do_checkpoint = a.do_checkpoint
      /\ b.framework = a.framework /\ b.storage_type = a.storage_type
      /\ b.storage_options = a.storage_options /\ b.data_loader = a.data_loader
      /\ b.format = a.format /\ b.record_dims = a.record_dims
      /\ b.do_train = a.do_train /\ b.num_samples_per_file = a.num_samples_per_file
  BY <1>4 DEF Read
<1>6. c.data_gen_method = d.data_gen_method
  BY <1>1, <1>3, <1>5 DEF DerivedFrom, DataGenMethod
<1>7. c.checkpoint_mechanism = d.checkpoint_mechanism
  <2>1. Mechanism(a) # "none"
    BY DEF Mechanism
  <2>2. b.checkpoint_mechanism # "none" => Mechanism(b) = b.checkpoint_mechanism
    BY DEF Mechanism
  <2>. QED
    BY <2>1, <2>2, <1>1, <1>3 DEF DerivedFrom
<1>8. c.data_loader_sampler = d.data_loader_sampler
  BY <1>1, <1>3, <1>5 DEF DerivedFrom, Sampler
<1>9. c.native_data_loader = d.native_data_loader
  BY <1>1, <1>3, <1>5 DEF DerivedFrom, NativeLoader
<1>10. c.multiprocessing_context = d.multiprocessing_context
  BY <1>1, <1>3, <1>5 DEF DerivedFrom, Context, Library
<1>11. c.read_threads = d.read_threads /\ c.write_threads = d.write_threads
  BY <1>1, <1>3, ThreadsSettle DEF DerivedFrom
<1>12. c.record_element_type = d.record_element_type /\ ElementBytes(b) = ElementBytes(a)
  BY <1>1, <1>3, <1>5 DEF DerivedFrom, ElementBytes
<1>13. c.record_length = d.record_length
  BY <1>1, <1>3, <1>5, <1>12 DEF DerivedFrom, RecordLength
<1>14. /\ c.num_files_train = d.num_files_train /\ c.num_files_eval = d.num_files_eval
       /\ c.total_samples_train = d.total_samples_train
       /\ c.total_samples_eval = d.total_samples_eval
  <2>1. /\ b["num_files_train"] = a["num_files_train"]
        /\ b["num_files_eval"] = a["num_files_eval"]
    BY <1>1 DEF DerivedFrom, Counted
  <2>. QED
    BY <2>1, <1>1, <1>3, <1>5 DEF DerivedFrom, CountedFrom, Files, SamplesOf
<1>15. ASSUME f \notin Derived PROVE c[f] = d[f]
  <2>1. d[f] = a[f] /\ b[f] = a[f]
    BY <1>1, <1>15 DEF DerivedFrom
  <2>2. c[f] = b[f]
    BY <1>1, <1>3, <1>15 DEF DerivedFrom
  <2>. QED
    BY <2>1, <2>2
<1>16. ASSUME f \in Derived PROVE c[f] = d[f]
  BY <1>6, <1>7, <1>8, <1>9, <1>10, <1>11, <1>12, <1>13, <1>14, <1>16
     DEF Derived, Counted, Unsettled
<1>. QED
  BY <1>15, <1>16 DEF b, c, d

-------------------------------------------------------------------------------
(* Where a job is in its start, what the configuration and the framework are by then *)

(* The configuration LoadConfig leaves, that of the generator, and the one the job
   starts with *)
Initial == LoadConfig(job)
First   == Derive(job, Initial, FALSE)
Final   == IF Initial.generate_data THEN Derive(job, First, TRUE) ELSE Once

(* The configuration between two calls *)
FlowInv ==
  /\ job \in Jobs
  /\ pc \in {"storage", "framework", "generator"} => args = Initial
  /\ pc = "generator" => Initial.generate_data
  /\ pc = "derive" => args = IF Initial.generate_data THEN First ELSE Initial
  /\ pc \in {"validate", "mechanism", "reconfigure", "loader", "reader", "ready"} => args = Final

(* What validate has let through is valid, and only that goes on. *)
ValidInv ==
  /\ pc \in {"mechanism", "reconfigure", "loader", "reader", "ready"} => ~Invalid(job, args)
  /\ validated => /\ pc \in {"mechanism", "reconfigure", "loader", "reader", "ready", "failed"}
                  /\ args = Final

(* Whether the instance of the framework profiles *)
ProfilesInv ==
  /\ pc = "framework" => profiles = IF Initial.storage_type = "s3" THEN Unset ELSE FALSE
  /\ pc \in {"generator", "derive", "validate", "mechanism", "reconfigure", "loader", "reader", "ready"} =>
       profiles = IF Initial.storage_type = "s3" THEN Initial.do_profiling ELSE FALSE

(* Why a job that was validated is refused *)
RefusedInv ==
  pc = "failed" /\ validated =>
    \/ args.do_checkpoint /\ MechanismError(job, args) # Unset
    \/ ReconfigureError(job, args) # Unset
    \/ LoaderError(args) # Unset
    \/ ReaderError(args) # Unset

StartInv == FlowInv /\ ValidInv /\ ProfilesInv /\ RefusedInv

(* A job that has not started satisfies the invariant. *)
LEMMA StartInit == Init => StartInv
  BY DEF Init, StartInv, FlowInv, ValidInv, ProfilesInv, RefusedInv

(* Each call of the start of a job preserves the invariant. *)
LEMMA StartStep == StartInv /\ [Next]_vars => StartInv'
<1>. SUFFICES ASSUME StartInv, [Next]_vars PROVE StartInv'
  OBVIOUS
<1>. USE DEF StartInv, Proceed
<1>0. job' = job /\ Initial' = Initial /\ Once' = Once /\ First' = First /\ Final' = Final
  <2>1. job' = job
    BY DEF Next, vars, Load, GetStorage, GetFramework, GetGenerator,
           DeriveConfigurations, Validate, GetMechanism, Reconfigure, GetLoader, GetReader
  <2>. QED
    BY <2>1 DEF Initial, Once, First, Final
<1>1. CASE Load
  BY <1>0, <1>1 DEF Load, FlowInv, ValidInv, ProfilesInv, RefusedInv, Initial
<1>2. CASE GetStorage
  BY <1>0, <1>2 DEF GetStorage, FlowInv, ValidInv, ProfilesInv, RefusedInv
<1>3. CASE GetFramework
  BY <1>0, <1>3, UnsetAssumption DEF GetFramework, FlowInv, ValidInv, ProfilesInv, RefusedInv
<1>4. CASE GetGenerator
  BY <1>0, <1>4 DEF GetGenerator, FlowInv, ValidInv, ProfilesInv, RefusedInv, Initial, First
<1>5. CASE DeriveConfigurations
  BY <1>0, <1>5 DEF DeriveConfigurations, FlowInv, ValidInv, ProfilesInv, RefusedInv,
                    Initial, Once, First, Final
<1>6. CASE Validate
  BY <1>0, <1>6, UnsetAssumption DEF Validate, FlowInv, ValidInv, ProfilesInv, RefusedInv
<1>7. CASE GetMechanism
  BY <1>0, <1>7 DEF GetMechanism, FlowInv, ValidInv, ProfilesInv, RefusedInv
<1>8. CASE GetLoader
  BY <1>0, <1>8 DEF GetLoader, FlowInv, ValidInv, ProfilesInv, RefusedInv
<1>9. CASE GetReader
  BY <1>0, <1>9 DEF GetReader, FlowInv, ValidInv, ProfilesInv, RefusedInv
<1>10. CASE Reconfigure
  BY <1>0, <1>10 DEF Reconfigure, FlowInv, ValidInv, ProfilesInv, RefusedInv
<1>11. CASE UNCHANGED vars
  BY <1>0, <1>11 DEF vars, FlowInv, ValidInv, ProfilesInv, RefusedInv
<1>. QED
  BY <1>1, <1>2, <1>3, <1>4, <1>5, <1>6, <1>7, <1>8, <1>9, <1>10, <1>11 DEF Next

(* The invariant of the start holds throughout. *)
LEMMA Starts == Spec => []StartInv
  BY StartInit, StartStep, PTL DEF Spec

-------------------------------------------------------------------------------
(* A field is the value its option is given, or its default. *)
LEMMA OptionOrDefault ==
  ASSUME NEW j \in Jobs, NEW o \in Options \ (Unconverted \cup {"data_gen_method"}),
         Attribute(o) \in DOMAIN Defaults \ Overridden
  PROVE  LoadConfig(j)[Attribute(o)] =
           IF o \in DOMAIN j.yaml THEN j.yaml[o] ELSE Defaults[Attribute(o)]
<1>1. /\ \A x \in Given(j.yaml) \ {"storage_options", "data_gen_method"} :
           LoadConfig(j)[Attribute(x)] = Converted(x, j.yaml[x])
      /\ \A a \in DOMAIN Defaults \ Overridden :
           Key(a) \notin Given(j.yaml) => LoadConfig(j)[a] = Defaults[a]
  BY LoadConfigFields
<1>2. o # "storage_library" /\ Key(Attribute(o)) = o
  BY KeyOfAttribute, NotOptions
<1>3. o # "storage_options"
  BY AttributesKnown DEF Overridden
<1>4. CASE o \in DOMAIN j.yaml
  BY <1>1, <1>2, <1>3, <1>4 DEF Given, Converted
<1>5. CASE o \notin DOMAIN j.yaml
  BY <1>1, <1>2, <1>5 DEF Given
<1>. QED
  BY <1>4, <1>5

(* The options of the fields that have a type, with the attributes *)
LEMMA TypedAttributes ==
  /\ {"data_loader", "profiling", "generate_data", "data_loader_sampler", "read_threads",
      "num_samples_per_file", "batch_size", "num_files_train", "num_files_eval",
      "record_length_bytes_stdev"} \subseteq Options \ (Unconverted \cup {"data_gen_method"})
  /\ Attribute("data_loader") = "data_loader" /\ Attribute("profiling") = "do_profiling"
  /\ Attribute("generate_data") = "generate_data"
  /\ Attribute("data_loader_sampler") = "data_loader_sampler"
  /\ Attribute("read_threads") = "read_threads"
  /\ Attribute("num_samples_per_file") = "num_samples_per_file"
  /\ Attribute("batch_size") = "batch_size"
  /\ Attribute("num_files_train") = "num_files_train"
  /\ Attribute("num_files_eval") = "num_files_eval"
  /\ Attribute("record_length_bytes_stdev") = "record_length_stdev"
<1>1. {"data_loader", "data_loader_sampler", "read_threads", "batch_size"} \subseteq Options
  BY DEF Options, ReaderOptions
<1>2. {"num_samples_per_file", "num_files_train", "num_files_eval",
       "record_length_bytes_stdev"} \subseteq Options
  BY DEF Options, DatasetOptions
<1>3. {"profiling", "generate_data"} \subseteq Options
  BY DEF Options, WorkflowOptions
<1>. QED
  BY <1>1, <1>2, <1>3 DEF Unconverted, Attribute, Renamed

(* The defaults of the fields that have a type *)
LEMMA TypedDefaults ==
  /\ {"data_loader", "do_profiling", "generate_data", "data_loader_sampler", "read_threads",
      "num_samples_per_file", "batch_size", "num_files_train", "num_files_eval",
      "record_length_stdev", "checkpoint_mechanism"} \subseteq DOMAIN Defaults \ Overridden
  /\ Defaults.checkpoint_mechanism = "none" /\ Defaults.data_loader = "'tensorflow'"
  /\ Defaults.do_profiling = FALSE /\ Defaults.generate_data = FALSE
  /\ Defaults.data_loader_sampler = Unset /\ Defaults.read_threads = 1
  /\ Defaults.num_samples_per_file = 1 /\ Defaults.batch_size = 1
  /\ Defaults.num_files_train = 8 /\ Defaults.num_files_eval = 0
  /\ Defaults.record_length_stdev = 0
  BY DEF Defaults, Overridden

(* What LoadConfig sets of the fields the parts are chosen by *)
LEMMA InitialFields ==
  ASSUME NEW j \in Jobs
  PROVE  /\ LoadConfig(j).checkpoint_mechanism = "none"
         /\ LoadConfig(j).data_loader \in DataLoaderType \cup {"'tensorflow'"}
         /\ LoadConfig(j).do_profiling \in BOOLEAN
         /\ LoadConfig(j).generate_data \in BOOLEAN
         /\ LoadConfig(j).data_loader_sampler =
              IF "data_loader_sampler" \in DOMAIN j.yaml
              THEN j.yaml["data_loader_sampler"] ELSE Unset
         /\ LoadConfig(j).read_threads \in Nat /\ LoadConfig(j).record_length_stdev \in Nat
         /\ LoadConfig(j).num_files_train \in Nat /\ LoadConfig(j).num_files_eval \in Nat
         /\ LoadConfig(j).num_samples_per_file \in Nat \ {0}
         /\ LoadConfig(j).batch_size \in Nat \ {0}
<1>. DEFINE y == j.yaml
            L == LoadConfig(j)
            T == {"data_loader", "profiling", "generate_data", "data_loader_sampler",
                  "read_threads", "num_samples_per_file", "batch_size", "num_files_train",
                  "num_files_eval", "record_length_bytes_stdev"}
<1>0. /\ DOMAIN y \subseteq Options \cup {"storage_library"}
      /\ "data_loader" \in DOMAIN y => y["data_loader"] \in DataLoaderType
      /\ "profiling" \in DOMAIN y => y["profiling"] \in BOOLEAN
      /\ "generate_data" \in DOMAIN y => y["generate_data"] \in BOOLEAN
  BY JobsAssumption
<1>n. /\ "read_threads" \in DOMAIN y => y["read_threads"] \in Nat
      /\ "record_length_bytes_stdev" \in DOMAIN y => y["record_length_bytes_stdev"] \in Nat
      /\ "num_files_train" \in DOMAIN y => y["num_files_train"] \in Nat
      /\ "num_files_eval" \in DOMAIN y => y["num_files_eval"] \in Nat
      /\ "num_samples_per_file" \in DOMAIN y => y["num_samples_per_file"] \in Nat \ {0}
      /\ "batch_size" \in DOMAIN y => y["batch_size"] \in Nat \ {0}
  BY JobsAssumption DEF Counts, Positives
<1>1. \A o \in T : L[Attribute(o)] = IF o \in DOMAIN y THEN y[o] ELSE Defaults[Attribute(o)]
  <2>1. \A o \in T : /\ o \in Options \ (Unconverted \cup {"data_gen_method"})
                    /\ Attribute(o) \in DOMAIN Defaults \ Overridden
    BY TypedAttributes, TypedDefaults
  <2>. QED
    BY <2>1, OptionOrDefault
<1>2. L.checkpoint_mechanism = "none"
  <2>1. Key("checkpoint_mechanism") \notin Given(y)
    BY <1>0, KeysKnown, NotOptions DEF Given
  <2>. QED
    BY <2>1, LoadConfigFields, TypedDefaults
<1>. HIDE DEF y, L
<1>3. /\ L.data_loader = IF "data_loader" \in DOMAIN y THEN y["data_loader"]
                         ELSE "'tensorflow'"
      /\ L.do_profiling = IF "profiling" \in DOMAIN y THEN y["profiling"] ELSE FALSE
      /\ L.generate_data = IF "generate_data" \in DOMAIN y THEN y["generate_data"] ELSE FALSE
      /\ L.data_loader_sampler = IF "data_loader_sampler" \in DOMAIN y
                                 THEN y["data_loader_sampler"] ELSE Unset
  BY <1>1, TypedAttributes, TypedDefaults
<1>4. /\ L.read_threads = IF "read_threads" \in DOMAIN y THEN y["read_threads"] ELSE 1
      /\ L.num_files_train = IF "num_files_train" \in DOMAIN y
                             THEN y["num_files_train"] ELSE 8
      /\ L.num_files_eval = IF "num_files_eval" \in DOMAIN y THEN y["num_files_eval"] ELSE 0
      /\ L.record_length_stdev = IF "record_length_bytes_stdev" \in DOMAIN y
                                 THEN y["record_length_bytes_stdev"] ELSE 0
      /\ L.num_samples_per_file = IF "num_samples_per_file" \in DOMAIN y
                                  THEN y["num_samples_per_file"] ELSE 1
      /\ L.batch_size = IF "batch_size" \in DOMAIN y THEN y["batch_size"] ELSE 1
  BY <1>1, TypedAttributes, TypedDefaults
<1>5. /\ L.read_threads \in Nat /\ L.record_length_stdev \in Nat
      /\ L.num_files_train \in Nat /\ L.num_files_eval \in Nat
      /\ L.num_samples_per_file \in Nat \ {0} /\ L.batch_size \in Nat \ {0}
  <2>3. L.read_threads \in Nat /\ L.record_length_stdev \in Nat
    BY <1>4, <1>n
  <2>4. L.num_files_train \in Nat /\ L.num_files_eval \in Nat
    BY <1>4, <1>n
  <2>5. L.num_samples_per_file \in Nat \ {0} /\ L.batch_size \in Nat \ {0}
    BY <1>4, <1>n
  <2>. QED
    BY <2>3, <2>4, <2>5
<1>6. /\ L.data_loader \in DataLoaderType \cup {"'tensorflow'"}
      /\ L.do_profiling \in BOOLEAN /\ L.generate_data \in BOOLEAN
  BY <1>0, <1>3
<1>. QED
  BY <1>2, <1>3, <1>5, <1>6 DEF L, y

(* The configuration a job starts with against that of one derivation *)
LEMMA OnceFields ==
  ASSUME job \in Jobs
  PROVE  /\ DOMAIN Defaults \subseteq DOMAIN Initial
         /\ DOMAIN Once = DOMAIN Initial /\ DOMAIN Final = DOMAIN Initial
         /\ DerivedFrom(job, Initial, TRUE, Once)
         /\ \A f \in DOMAIN Initial \ Unsettled : Final[f] = Once[f]
         /\ DerivedFrom(job, Initial, FALSE, First)
         /\ Initial.generate_data => DerivedFrom(job, First, TRUE, Final)
<1>1. DOMAIN Defaults \subseteq DOMAIN Initial
  BY LoadConfigFields DEF Initial
<1>2. Once = Derive(job, Initial, TRUE)
  BY DEF Once, Initial
<1>3. DerivedFrom(job, Initial, TRUE, Once)
  BY <1>1, <1>2, DeriveFields
<1>4. DerivedFrom(job, Initial, FALSE, First)
  BY <1>1, DeriveFields DEF First
<1>5. DOMAIN Once = DOMAIN Initial /\ DOMAIN First = DOMAIN Initial
  BY <1>3, <1>4 DEF DerivedFrom
<1>6. DerivedFrom(job, First, TRUE, Derive(job, First, TRUE))
  BY <1>1, <1>5, DeriveFields
<1>7. DOMAIN Derive(job, First, TRUE) = DOMAIN Initial
  BY <1>5, <1>6 DEF DerivedFrom
<1>8. \A f \in DOMAIN Initial \ Unsettled : Derive(job, First, TRUE)[f] = Once[f]
  BY <1>1, <1>2, DerivedAgain DEF First
<1>. QED
  BY <1>1, <1>3, <1>4, <1>5, <1>6, <1>7, <1>8 DEF Final

(* derive_configurations leaves alone what it does not set. *)
LEMMA FinalFields ==
  ASSUME job \in Jobs
  PROVE  /\ \A f \in DOMAIN Defaults \ Derived : Final[f] = Initial[f]
         /\ Final.checkpoint_mechanism = Mechanism(Initial)
         /\ Final.multiprocessing_context = Context(Initial)
         /\ Final.data_loader_sampler = Sampler(Initial)
         /\ Final.read_threads = AutoThreads(job, Initial.read_threads)
         /\ CountedFrom(job, Initial, Once)
         /\ \A f \in Counted \ {"required_samples"} : Final[f] = Once[f]
<1>1. /\ DOMAIN Defaults \subseteq DOMAIN Initial
      /\ DerivedFrom(job, Initial, TRUE, Once)
      /\ \A f \in DOMAIN Initial \ Unsettled : Final[f] = Once[f]
  BY OnceFields
<1>2. {"checkpoint_mechanism", "multiprocessing_context", "data_loader_sampler",
       "read_threads"} \cup Counted \subseteq DOMAIN Initial
  BY <1>1, DefaultFields DEF Counted
<1>3. \A f \in {"checkpoint_mechanism", "multiprocessing_context", "data_loader_sampler",
               "read_threads"} : Final[f] = Once[f]
  BY <1>1, <1>2 DEF Unsettled
<1>4. \A f \in Counted \ {"required_samples"} : Final[f] = Once[f]
  BY <1>1, <1>2 DEF Unsettled, Counted
<1>5. \A f \in DOMAIN Defaults \ Derived : Final[f] = Initial[f]
  <2>1. Unsettled \subseteq Derived
    BY DEF Unsettled, Derived, Counted
  <2>. QED
    BY <2>1, <1>1 DEF DerivedFrom
<1>. QED
  BY <1>1, <1>3, <1>4, <1>5 DEF DerivedFrom

(* derive_configurations leaves alone the fields the parts are chosen by. *)
LEMMA ChosenFields ==
  {"storage_type", "framework", "storage_options", "do_profiling", "data_loader", "format",
   "odirect", "do_checkpoint", "generate_data", "record_dims", "record_length_resize",
   "record_length_stdev", "num_samples_per_file", "batch_size", "do_train"}
    \subseteq DOMAIN Defaults \ Derived
  BY DEF Defaults, Derived, Counted

(* OptionsInForce for every job: whatever options, variables and .env it has, after
   LoadConfig each option has the value given where the program reads it, and each
   option of the storage that of its first source. *)
THEOREM OptionsKept == Spec => []OptionsInForce
<1>1. StartInv => OptionsInForce
  <2>. SUFFICES ASSUME StartInv, pc = "storage" PROVE OptionsInForce
    BY DEF OptionsInForce
  <2>. DEFINE y == job.yaml
  <2>1. job \in Jobs /\ args = LoadConfig(job)
    BY DEF StartInv, FlowInv, Initial
  <2>2. DOMAIN y \subseteq Options \cup {"storage_library"}
    BY <2>1, JobsAssumption
  <2>3. /\ \A o \in Given(y) \ {"storage_options", "data_gen_method"} :
             args[Attribute(o)] = Converted(o, y[o])
        /\ "data_gen_method" \in DOMAIN y =>
             args.data_gen_method =
               IF "folder" \in DOMAIN y THEN y["data_gen_method"]
               ELSE MethodGiven(job, y["data_gen_method"])
    BY <2>1, LoadConfigFields
  <2>4. ASSUME NEW o \in DOMAIN y \ (Misplaced \cup {"storage_library", "storage_options"})
        PROVE  /\ args[ReadAttribute(o)] = ValueGiven(o)
               /\ GetConfig(args, o) \in {ValueGiven(o), Unset}
    <3>1. args[Attribute(o)] = ValueGiven(o)
      <4>1. CASE o = "data_gen_method"
        BY <4>1, <2>3, AttributesKnown DEF ValueGiven, FromEnvironment, MethodGiven
      <4>2. CASE o # "data_gen_method"
        BY <4>2, <2>3 DEF Given, Misplaced, Converted, Unconverted, ValueGiven
      <4>. QED
        BY <4>1, <4>2
    <3>2. ReadAttribute(o) = Attribute(o)
      BY DEF ReadAttribute, Misplaced
    <3>. QED
      BY <3>1, <3>2 DEF GetConfig
  <2>5. ASSUME NEW v \in DOMAIN StorageVariables
        PROVE  StorageOptionInForce(StorageVariables[v]) =
                 IF v = "DLIO_STORAGE_LIBRARY" /\ "storage_library" \in DOMAIN y
                 THEN y["storage_library"] ELSE StorageOption(v, StorageVariables[v])
    <3>. DEFINE k == StorageVariables[v]
    <3>1. At(args.storage_options, k) =
            IF v = "DLIO_STORAGE_LIBRARY" /\ "storage_library" \in DOMAIN y
            THEN y["storage_library"]
            ELSE IF k \in DOMAIN Base(y) THEN Base(y)[k]
            ELSE IF "folder" \in DOMAIN y THEN Unset ELSE Getenv(job, v)
      BY <2>1, StorageOptionsLoaded
    <3>2. StorageOption(v, k) = IF k \in DOMAIN Base(y) THEN Base(y)[k]
                                ELSE IF "folder" \in DOMAIN y THEN Unset ELSE Getenv(job, v)
      BY DEF StorageOption, FromEnvironment, Base
    <3>3. StorageOptionInForce(k) = At(args.storage_options, k)
      BY DEF StorageOptionInForce, At
    <3>. QED
      BY <3>1, <3>2, <3>3
  <2>. QED
    BY <2>4, <2>5 DEF OptionsInForce
<1>. QED
  BY <1>1, Starts, PTL

(* What the ranks read at once changes when the threads are sized in between. *)
LEMMA SamplesDiffer ==
  ASSUME NEW j \in Jobs, NEW b \in Nat \ {0}, NEW n \in Nat, NEW m, m = AutoThreads(j, n)
  PROVE  j.ranks * b * (IF m > 0 THEN m ELSE 1) = j.ranks * b * (IF n > 0 THEN n ELSE 1)
           <=> m = n
<1>1. PICK r \in Nat \ {0} : r = j.ranks
  BY JobsAssumption
<1>2. PICK k \in Nat \ {0} : k = r * b
  BY <1>1
<1>3. m \in Nat /\ (n = 0 => m = 0) /\ (n > 0 => m > 0)
  <2>1. j.cpus \div j.ranks_per_node \in Nat
    BY JobsAssumption
  <2>. QED
    BY <2>1 DEF AutoThreads, MaxAutoThreads
<1>4. CASE n = 0
  BY <1>3, <1>4
<1>5. CASE n > 0
  <2>1. k * m = k * n <=> m = n
    <3>1. ASSUME NEW x \in Nat, NEW y \in Nat, x < y
          PROVE  k * x < k * y
      <4>0. y - x \in Nat \ {0}
        BY <3>1
      <4>1. PICK d \in Nat \ {0} : y = x + d
        BY <4>0
      <4>2. k * y = k * x + k * d /\ k * d > 0 /\ k * x \in Nat
        BY <1>2, <4>1
      <4>. QED
        BY <1>2, <4>2
    <3>2. k * m \in Nat /\ k * n \in Nat /\ (m < n \/ n < m \/ m = n)
      BY <1>2, <1>3
    <3>. QED
      BY <3>1, <3>2, <1>2, <1>3
  <2>. QED
    BY <2>1, <1>1, <1>2, <1>3, <1>5
<1>. QED
  BY <1>4, <1>5

(* DerivedTwice for every job: deriving the configuration in the generator and again
   in initialize ends with that of one derivation, save the dimensions, the deviation
   and the samples at once, which agree exactly when the property says. *)
THEOREM SecondDerivation == Spec => []DerivedTwice
<1>1. StartInv => DerivedTwice
  <2>. SUFFICES ASSUME StartInv, pc = "ready" PROVE DerivedTwice
    BY DEF DerivedTwice
  <2>1. job \in Jobs /\ args = Final
    BY DEF StartInv, FlowInv
  <2>2. /\ DOMAIN Defaults \subseteq DOMAIN Initial
        /\ DOMAIN Final = DOMAIN Initial
        /\ DerivedFrom(job, Initial, TRUE, Once)
        /\ \A f \in DOMAIN Initial \ Unsettled : Final[f] = Once[f]
        /\ DerivedFrom(job, Initial, FALSE, First)
        /\ Initial.generate_data => DerivedFrom(job, First, TRUE, Final)
    BY <2>1, OnceFields
  <2>3. /\ Initial.generate_data \in BOOLEAN /\ Initial.record_length_stdev \in Nat
        /\ Initial.read_threads \in Nat /\ Initial.batch_size \in Nat \ {0}
    BY <2>1, InitialFields DEF Initial
  <2>4. ~Initial.generate_data => Final = Once
    BY DEF Final
  <2>5. \A f \in {"generate_data", "record_dims", "record_length_resize",
                 "record_length_stdev", "batch_size"} :
          Once[f] = Initial[f] /\ First[f] = Initial[f] /\ Final[f] = Initial[f]
    <3>1. \A f \in DOMAIN Defaults \ Derived :
            Once[f] = Initial[f] /\ First[f] = Initial[f] /\ Final[f] = Initial[f]
      BY <2>1, <2>2, FinalFields DEF DerivedFrom
    <3>. QED
      BY <3>1, ChosenFields
  <2>6. /\ args.generate_data = Initial.generate_data
        /\ args.record_dims = Initial.record_dims /\ First.record_dims = Initial.record_dims
        /\ args.record_length_resize = Initial.record_length_resize
        /\ First.record_length_resize = Initial.record_length_resize
        /\ args.record_length_stdev = Initial.record_length_stdev
        /\ First.record_length_stdev = Initial.record_length_stdev
        /\ First.batch_size = Initial.batch_size
    BY <2>1, <2>5
  <2>7. args.record_length = Once.record_length /\ Once.record_length = First.record_length
    <3>1. "record_length" \in DOMAIN Initial \ Unsettled
      BY <2>2, DefaultFields DEF Unsettled
    <3>. QED
      BY <3>1, <2>1, <2>2 DEF DerivedFrom
  <2>8. args.read_threads = First.read_threads
        /\ First.read_threads = AutoThreads(job, Initial.read_threads)
    BY <2>1, <2>2, FinalFields DEF DerivedFrom
  <2>9. /\ SameLength <=> Initial.record_length = First.record_length
        /\ SameSide <=> ISqrt(Initial.record_length) = ISqrt(First.record_length)
    BY <2>7 DEF SameLength, SameSide, Initial
  <2>10. \A f \in DOMAIN args \ Unsettled : args[f] = Once[f]
    BY <2>1, <2>2
  <2>11. CASE ~Initial.generate_data
    <3>1. args = Once /\ ~args.generate_data
      BY <2>1, <2>4, <2>6, <2>11
    <3>. QED
      BY <3>1 DEF DerivedTwice
  <2>12. CASE Initial.generate_data
    <3>0. /\ args.generate_data
          /\ DerivedFrom(job, First, TRUE, args)
      BY <2>1, <2>2, <2>6, <2>12
    <3>1. (args.dimension = Once.dimension) <=> args.record_dims # <<>> \/ SameSide
      <4>1. /\ args.dimension = IF Initial.record_dims # <<>> THEN Initial.record_dims
                                ELSE <<ISqrt(First.record_length)>>
            /\ Once.dimension = IF Initial.record_dims # <<>> THEN Initial.record_dims
                                ELSE <<ISqrt(Initial.record_length)>>
        BY <3>0, <2>2, <2>6 DEF DerivedFrom
      <4>. DEFINE p == ISqrt(First.record_length)
                  q == ISqrt(Initial.record_length)
      <4>. HIDE DEF p, q
      <4>2. <<p>> = <<q>> <=> p = q
        OBVIOUS
      <4>. QED
        BY <4>1, <4>2, <2>6, <2>9 DEF p, q
    <3>2. (args.max_dimension = Once.max_dimension) <=>
            args.record_length_resize > 0 \/ SameSide
      <4>1. /\ args.max_dimension = IF Initial.record_length_resize > 0
                                    THEN ISqrt(Initial.record_length_resize)
                                    ELSE ISqrt(First.record_length)
            /\ Once.max_dimension = IF Initial.record_length_resize > 0
                                    THEN ISqrt(Initial.record_length_resize)
                                    ELSE ISqrt(Initial.record_length)
        BY <3>0, <2>2, <2>6 DEF DerivedFrom
      <4>. QED
        BY <4>1, <2>6, <2>9
    <3>3. (args.dimension_stdev = Once.dimension_stdev) <=>
            args.record_length_stdev = 0 \/ SameLength
      <4>1. /\ args.dimension_stdev = DimensionStdev(First)
            /\ Once.dimension_stdev = DimensionStdev(Initial)
        BY <3>0, <2>2 DEF DerivedFrom
      <4>. QED
        BY <4>1, <2>6, <2>9 DEF DimensionStdev
    <3>4. (args.required_samples = Once.required_samples) <=>
            args.read_threads = LoadConfig(job).read_threads
      <4>1. /\ args.required_samples = SamplesAtOnce(job, First)
            /\ Once.required_samples = SamplesAtOnce(job, Initial)
        BY <3>0, <2>2 DEF DerivedFrom, CountedFrom
      <4>. DEFINE n == Initial.read_threads
                  m == First.read_threads
                  b == Initial.batch_size
      <4>2. /\ args.required_samples = job.ranks * b * (IF m > 0 THEN m ELSE 1)
            /\ Once.required_samples = job.ranks * b * (IF n > 0 THEN n ELSE 1)
        BY <4>1, <2>6 DEF SamplesAtOnce
      <4>3. n \in Nat /\ b \in Nat \ {0} /\ m = AutoThreads(job, n)
        BY <2>3, <2>8
      <4>4. args.read_threads = m /\ LoadConfig(job).read_threads = n
        BY <2>8 DEF Initial
      <4>. HIDE DEF n, m, b
      <4>. QED
        BY <4>2, <4>3, <4>4, <2>1, SamplesDiffer
    <3>. QED
      BY <3>0, <3>1, <3>2, <3>3, <3>4, <2>10 DEF DerivedTwice, Unsettled
  <2>. QED
    BY <2>3, <2>11, <2>12
<1>. QED
  BY <1>1, Starts, PTL

(* Threads that are not the number asked for fit the processors of the node. *)
LEMMA ThreadsWithin ==
  ASSUME NEW j \in Jobs, NEW n, AutoThreads(j, n) # n
  PROVE  AutoThreads(j, n) * j.ranks_per_node <= j.cpus
<1>1. PICK c \in Nat, r \in Nat \ {0} : c = j.cpus /\ r = j.ranks_per_node
  BY JobsAssumption
<1>2. PICK q \in Nat : q = c \div r /\ r * q <= c
  <2>. QED
    BY <1>1
<1>3. AutoThreads(j, n) \in 1..q
  BY <1>1, <1>2 DEF AutoThreads, MaxAutoThreads
<1>4. PICK t \in 1..q : t = AutoThreads(j, n)
  BY <1>3
<1>5. t * r <= r * q
  <2>0. q - t \in Nat /\ q = t + (q - t)
    BY <1>2, <1>4
  <2>1. PICK d \in Nat : q = t + d
    BY <2>0
  <2>2. r * q = t * r + d * r
    BY <1>1, <1>4, <2>1
  <2>3. d * r \in Nat /\ t * r \in Nat
    BY <1>1, <1>4, <2>1
  <2>. QED
    BY <2>2, <2>3
<1>6. t * r \in Nat /\ r * q \in Nat
  BY <1>1, <1>2, <1>4
<1>7. t * r <= c
  BY <1>1, <1>2, <1>5, <1>6
<1>. QED
  BY <1>1, <1>4, <1>7

(* PartsAgree for every job: the storage, the mechanism, the workers, the threads and
   the profiling of a job that starts agree, for any number of processors and ranks
   of a node. *)
THEOREM PartsFit == Spec => []PartsAgree
<1>1. StartInv => PartsAgree
  <2>. SUFFICES ASSUME StartInv, pc = "ready" PROVE PartsAgree
    BY DEF PartsAgree
  <2>1. /\ job \in Jobs /\ args = Final /\ ~Invalid(job, args)
        /\ profiles = IF Initial.storage_type = "s3" THEN Initial.do_profiling ELSE FALSE
    BY DEF StartInv, FlowInv, ValidInv, ProfilesInv
  <2>2. /\ \A f \in DOMAIN Defaults \ Derived : args[f] = Initial[f]
        /\ args.checkpoint_mechanism = Mechanism(Initial)
        /\ args.multiprocessing_context = Context(Initial)
    BY <2>1, FinalFields
  <2>3. /\ args.storage_type = Initial.storage_type /\ args.framework = Initial.framework
        /\ args.do_profiling = Initial.do_profiling
        /\ args.storage_options = Initial.storage_options
    BY <2>2, ChosenFields
  <2>4. Initial.checkpoint_mechanism = "none" /\ Initial.do_profiling \in BOOLEAN
    BY <2>1, InitialFields DEF Initial
  <2>5. ASSUME args.storage_type = "s3", args.framework = "pytorch"
        PROVE  /\ Library(args) \in {"s3dlio", "s3torchconnector", "minio"} \cap job.installed
               /\ args.checkpoint_mechanism = "pt_s3_save" <=> Library(args) = "s3torchconnector"
               /\ Library(args) # "minio" => args.multiprocessing_context # "fork"
    <3>1. Library(args) \in {"s3dlio", "s3torchconnector", "minio"} \cap job.installed
      BY <2>1, <2>5 DEF Invalid, BadObjectStore
    <3>2. Library(args) = Library(Initial)
      BY <2>3 DEF Library
    <3>. QED
      BY <3>1, <3>2, <2>2, <2>3, <2>4, <2>5 DEF Mechanism, Context
  <2>6. ThreadsFit
    <3>1. DerivedFrom(job, Initial, TRUE, Once)
      BY <2>1, OnceFields
    <3>. QED
      BY <3>1, <2>1, ThreadsWithin DEF DerivedFrom, ThreadsFit, Initial
  <2>7. profiles <=> args.do_profiling /\ args.storage_type = "s3"
    BY <2>1, <2>3, <2>4
  <2>. QED
    BY <2>5, <2>6, <2>7 DEF PartsAgree
<1>. QED
  BY <1>1, Starts, PTL

(* The samples that reconfigure maps are those of the files the job asks for, or none. *)
LEMMA FinalSamples ==
  ASSUME job \in Jobs, args = Final
  PROVE  /\ args.total_samples_train \in {0, args.num_samples_per_file * args.num_files_train}
         /\ args.total_samples_eval \in {0, args.num_samples_per_file * args.num_files_eval}
         /\ args.total_samples_train \in Nat /\ args.total_samples_eval \in Nat
         /\ SamplesListed \subseteq Nat
<1>1. /\ args.num_samples_per_file = Initial.num_samples_per_file
      /\ CountedFrom(job, Initial, Once)
      /\ args.num_files_train = Once.num_files_train
      /\ args.num_files_eval = Once.num_files_eval
      /\ args.total_samples_train = Once.total_samples_train
      /\ args.total_samples_eval = Once.total_samples_eval
  <2>1. args.num_samples_per_file = Initial.num_samples_per_file
    BY FinalFields, ChosenFields
  <2>. QED
    BY <2>1, FinalFields DEF Counted
<1>2. /\ Initial.num_samples_per_file \in Nat
      /\ Initial.num_files_train \in Nat /\ Initial.num_files_eval \in Nat
  BY InitialFields DEF Initial
<1>3. PICK n \in Nat, p \in Nat, q \in Nat :
        /\ n = Initial.num_samples_per_file
        /\ p = Files(Initial, "num_files_train") /\ q = Files(Initial, "num_files_eval")
  BY <1>2 DEF Files
<1>4. /\ args.total_samples_train = n * p /\ args.total_samples_eval = n * q
      /\ args.num_samples_per_file = n
      /\ args.num_files_train = p /\ args.num_files_eval = q
  BY <1>1, <1>3 DEF CountedFrom, SamplesOf
<1>5. n * p \in Nat /\ n * q \in Nat
  BY <1>3
<1>. QED
  BY <1>4, <1>5 DEF SamplesListed

(* A share with fewer samples than threads is one of so many samples in all. *)
LEMMA FewSamples ==
  ASSUME NEW t \in Nat, NEW r \in Nat \ {0}, NEW n \in Nat \ {0},
         (t + r - 1) \div r < n
  PROVE  t <= r * (n - 1)
<1>1. PICK q \in Nat : q = (t + r - 1) \div r
  OBVIOUS
<1>2. t + r - 1 < r * q + r
  <2>1. PICK d \in Nat : d = t + r - 1
    OBVIOUS
  <2>2. d = r * (d \div r) + (d % r) /\ d % r < r
    BY <2>1
  <2>3. d \div r = q
    BY <1>1, <2>1
  <2>4. d % r \in Nat /\ r * q \in Nat
    BY <2>1
  <2>. QED
    BY <2>1, <2>2, <2>3, <2>4
<1>3. PICK e \in Nat : n - 1 = q + e
  <2>1. n - 1 - q \in Nat
    BY <1>1
  <2>. QED
    BY <2>1
<1>4. r * (n - 1) = r * q + r * e /\ r * e \in Nat /\ r * q \in Nat
  BY <1>3
<1>. QED
  BY <1>2, <1>4

(* RefusedLate for every job: what validate lets through is refused only for the
   reasons the property lists. *)
THEOREM LateRefusals == Spec => []RefusedLate
<1>1. StartInv => RefusedLate
  <2>. SUFFICES ASSUME StartInv, pc = "failed", validated PROVE RefusedLate
    BY DEF RefusedLate
  <2>1. /\ job \in Jobs /\ args = Final
        /\ \/ args.do_checkpoint /\ MechanismError(job, args) # Unset
           \/ ReconfigureError(job, args) # Unset
           \/ LoaderError(args) # Unset
           \/ ReaderError(args) # Unset
    BY DEF StartInv, FlowInv, ValidInv, RefusedInv
  <2>2. /\ \A f \in DOMAIN Defaults \ Derived : args[f] = Initial[f]
        /\ args.checkpoint_mechanism = Mechanism(Initial)
        /\ args.data_loader_sampler = Sampler(Initial)
        /\ args.read_threads = AutoThreads(job, Initial.read_threads)
    BY <2>1, FinalFields
  <2>3. args.storage_type = Initial.storage_type /\ args.data_loader = Initial.data_loader
    BY <2>2, ChosenFields
  <2>4. /\ Initial.checkpoint_mechanism = "none"
        /\ Initial.data_loader \in DataLoaderType \cup {"'tensorflow'"}
        /\ Initial.data_loader_sampler = IF "data_loader_sampler" \in DOMAIN job.yaml
                                         THEN job.yaml["data_loader_sampler"] ELSE Unset
        /\ Initial.read_threads \in Nat
    BY <2>1, InitialFields DEF Initial
  <2>5. CASE args.do_checkpoint /\ MechanismError(job, args) # Unset
    BY <2>2, <2>3, <2>4, <2>5 DEF RefusedLate, MechanismError, Mechanism
  <2>6. CASE LoaderError(args) # Unset
    BY <2>3, <2>4, <2>6 DEF RefusedLate, LoaderError, DataLoaderType
  <2>7. CASE ReaderError(args) # Unset
    BY <2>7 DEF RefusedLate, ReaderError
  <2>8. CASE ReconfigureError(job, args) # Unset
    <3>1. /\ args.total_samples_train \in {0, args.num_samples_per_file * args.num_files_train}
          /\ args.total_samples_eval \in {0, args.num_samples_per_file * args.num_files_eval}
          /\ args.total_samples_train \in Nat /\ args.total_samples_eval \in Nat
      BY <2>1, FinalSamples
    <3>2. \A total \in {args.total_samples_train, args.total_samples_eval} \ {0} :
            total \in SamplesListed
      BY <3>1 DEF SamplesListed
    <3>3. CASE MissingSamples(args)
      <4>1. NoSampler
        <5>1. CASE "data_loader_sampler" \in DOMAIN job.yaml
          <6>1. job.yaml["data_loader_sampler"] \in DataLoaderSampler
            BY <2>1, <5>1, JobsAssumption
          <6>2. args.data_loader_sampler = job.yaml["data_loader_sampler"]
            <7>1. job.yaml["data_loader_sampler"] # Unset
              BY <2>1, <5>1, JobsAssumption
            <7>. QED
              BY <7>1, <5>1, <2>2, <2>4 DEF Sampler
          <6>. QED
            BY <6>1, <6>2, <5>1, <3>3 DEF MissingSamples, NoSampler, DataLoaderSampler
        <5>2. CASE "data_loader_sampler" \notin DOMAIN job.yaml
          BY <5>2, <3>3, <2>2, <2>3, <2>4 DEF MissingSamples, NoSampler, Sampler
        <5>. QED
          BY <5>1, <5>2
      <4>2. PICK total \in {args.total_samples_train, args.total_samples_eval} : total > 1
        BY <3>3 DEF MissingSamples
      <4>3. total \in SamplesListed
        BY <4>2, <3>2
      <4>. QED
        BY <4>1, <4>2, <4>3 DEF RefusedLate
    <3>4. CASE ~MissingSamples(args)
      <4>1. /\ args.data_loader_sampler = "iterative"
            /\ \E total \in {args.total_samples_train, args.total_samples_eval} :
                 FewerThanThreads(job, args, total)
        BY <2>8, <3>4 DEF ReconfigureError
      <4>2. PICK total \in {args.total_samples_train, args.total_samples_eval} :
              /\ total > 0
              /\ (total + job.ranks - 1) \div job.ranks < MapThreads(args)
        BY <4>1 DEF FewerThanThreads
      <4>3. total \in Nat \ {0} /\ total \in SamplesListed \ {0}
        BY <4>2, <3>1, <3>2
      <4>4. PICK r \in Nat \ {0} : r = job.ranks
        BY <2>1, JobsAssumption
      <4>5. args.read_threads \in Nat
        <5>1. job.cpus \div job.ranks_per_node \in Nat
          BY <2>1, JobsAssumption
        <5>. QED
          BY <5>1, <2>2, <2>4 DEF AutoThreads, MaxAutoThreads
      <4>6. PICK q \in Nat : q = (total + r - 1) \div r /\ q > 0
        <5>1. (total + r - 1) \div r > 0 /\ (total + r - 1) \div r \in Nat
          BY <4>3, <4>4
        <5>. QED
          BY <5>1
      <4>7. args.data_loader # "dali" /\ MapThreads(args) = args.read_threads
            /\ args.read_threads \in Nat \ {0}
        BY <4>2, <4>4, <4>5, <4>6 DEF MapThreads
      <4>8. total <= job.ranks * (args.read_threads - 1)
        BY <4>2, <4>3, <4>4, <4>7, FewSamples
      <4>. QED
        BY <4>1, <4>3, <4>7, <4>8 DEF RefusedLate
    <3>. QED
      BY <3>3, <3>4
  <2>. QED
    BY <2>1, <2>5, <2>6, <2>7, <2>8
<1>. QED
  BY <1>1, Starts, PTL
=================================================================================
