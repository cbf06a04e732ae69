-------------------------------- MODULE Options --------------------------------
(***************************************************************************)
(* The options of a workload file, section by section, and the attribute of *)
(* ConfigArguments each is stored in by LoadConfig, read from by the rest of *)
(* the program, and answered from by GetConfig (utils/config.py).           *)
(*                                                                         *)
(* An option goes by its key; type is checkpoint.type, model_type model.type *)
(* and name model.name.  The mean and the deviation of a duration are one    *)
(* attribute each (the program keeps them in a dictionary).                 *)
(***************************************************************************)
EXTENDS Integers, TLC

CONSTANT Unset

StorageOptions == {"storage_type", "storage_root", "storage_options",
                   "post_generation_settle_seconds"}

DatasetOptions ==
  {"record_length_bytes", "record_length_bytes_stdev", "record_length_bytes_resize",
   "num_files_train", "num_files_eval", "generation_buffer_size", "num_samples_per_file",
   "data_folder", "num_subfolders_train", "num_subfolders_eval", "enable_chunking",
   "chunk_size", "compression", "compression_level", "file_prefix", "format",
   "data_gen_method", "keep_files", "record_element_bytes", "record_element_type",
   "record_dims"}

ParquetOptions == {"columns", "row_group_size", "partition_by", "generation_batch_size"}
HDF5Options    == {"chunk_dims", "num_dset_per_record", "max_shape"}

ReaderOptions ==
  {"dont_use_mmap", "reader_classname", "multiprocessing_context", "data_loader",
   "data_loader_classname", "data_loader_sampler", "read_threads", "write_threads",
   "computation_threads", "batch_size", "batch_size_eval", "prefetch_size",
   "file_shuffle", "file_access", "shuffle_size", "sample_shuffle", "read_type",
   "transfer_size", "odirect", "preprocess_time", "preprocess_time_stdev", "pin_memory",
   "transformed_record_dims", "transformed_record_element_type"}

TrainOptions == {"epochs", "total_training_steps", "seed_change_epoch",
                 "computation_time", "computation_time_stdev", "seed"}

EvaluationOptions == {"eval_time", "eval_time_stdev", "eval_after_epoch",
                      "epochs_between_evals"}

CheckpointOptions ==
  {"checkpoint_folder", "checkpoint_after_epoch", "epochs_between_checkpoints",
   "steps_between_checkpoints", "type", "checkpoint_mechanism_classname", "fsync",
   "time_between_checkpoints", "num_checkpoints_write", "num_checkpoints_read",
   "recovery_rank_shift", "rank_sync", "mode", "randomize_tensor", "ksm"}

KSMOptions == {"madv_mergeable_id", "high_ram_trigger", "low_ram_exit", "await_time"}

ModelOptions ==
  {"name", "model_type", "model_size_bytes", "optimization_groups", "num_layers",
   "layer_parameters", "model_datatype", "optimizer_datatype"}

ParallelismOptions == {"tensor", "pipeline", "data", "zero_stage"}

TransformerOptions == {"vocab_size", "hidden_size", "ffn_hidden_size",
                       "num_attention_heads", "num_kv_heads"}

OutputOptions    == {"folder", "log_file", "exclude_start_steps", "exclude_end_steps"}
WorkflowOptions  == {"train", "generate_data", "evaluation", "checkpoint", "profiling"}
ProfilingOptions == {"profiler", "iostat_devices"}

Options ==
  {"framework", "au"} \cup StorageOptions \cup DatasetOptions \cup ParquetOptions
    \cup HDF5Options \cup ReaderOptions \cup TrainOptions \cup EvaluationOptions
    \cup CheckpointOptions \cup KSMOptions \cup ModelOptions \cup ParallelismOptions
    \cup TransformerOptions \cup OutputOptions \cup WorkflowOptions \cup ProfilingOptions

-------------------------------------------------------------------------------
(* The attribute of ConfigArguments that LoadConfig sets for an option... *)
Renamed ==
  [record_length_bytes |-> "record_length",
   record_length_bytes_resize |-> "record_length_resize",
   record_length_bytes_stdev |-> "record_length_stdev",
   columns |-> "parquet_columns", row_group_size |-> "parquet_row_group_size",
   partition_by |-> "parquet_partition_by",
   generation_batch_size |-> "parquet_generation_batch_size",
   type |-> "checkpoint_type", fsync |-> "checkpoint_sync",
   recovery_rank_shift |-> "checkpoint_recover_rank_shift",
   rank_sync |-> "checkpoint_rank_sync", mode |-> "checkpoint_mode",
   randomize_tensor |-> "checkpoint_randomize_tensor", ksm |-> "ksm_present",
   madv_mergeable_id |-> "ksm_madv_mergeable_id",
   high_ram_trigger |-> "ksm_high_ram_trigger", low_ram_exit |-> "ksm_low_ram_exit",
   await_time |-> "ksm_await_time",
   name |-> "model", model_size_bytes |-> "model_size",
   tensor |-> "tensor_parallelism", pipeline |-> "pipeline_parallelism",
   data |-> "data_parallelism", folder |-> "output_folder",
   exclude_start_steps |-> "metric_exclude_start_steps",
   exclude_end_steps |-> "metric_exclude_end_steps",
   train |-> "do_train", evaluation |-> "do_eval", checkpoint |-> "do_checkpoint",
   profiling |-> "do_profiling"]

Attribute(o) == IF o \in DOMAIN Renamed THEN Renamed[o] ELSE o

(* ... and the one the rest of the program reads. *)
ReadAttribute(o) ==
  CASE o = "fsync" -> "checkpoint_fsync"
    [] o = "recovery_rank_shift" -> "checkpoint_recovery_rank_shift"
    [] OTHER -> Attribute(o)

(* The fields' defaults.  data_loader's is the value of a member, a string that
   equals no member of DataLoaderType. *)
Defaults ==
  [framework |-> "tensorflow", format |-> "tfrecord", storage_type |-> "local_fs",
   storage_root |-> "./", storage_options |-> <<>>, record_length |-> 64 * 1024,
   record_length_stdev |-> 0, record_length_resize |-> 0, record_dims |-> <<>>,
   record_element_type |-> 1, num_dset_per_record |-> 1, parquet_columns |-> <<>>,
   num_files_train |-> 8, num_files_eval |-> 0, num_samples_per_file |-> 1,
   batch_size |-> 1, total_samples_train |-> 1, total_samples_eval |-> 1,
   required_samples |-> 1, dimension |-> <<1>>, dimension_stdev |-> <<0>>,
   max_dimension |-> 1, data_gen_method |-> Unset,
   data_loader |-> "'tensorflow'", data_loader_sampler |-> Unset,
   read_threads |-> 1, write_threads |-> 1, multiprocessing_context |-> "spawn",
   read_type |-> "on_demand", odirect |-> FALSE,
   native_data_loader |-> FALSE, checkpoint_mechanism |-> "none",
   checkpoint_fsync |-> FALSE, checkpoint_recovery_rank_shift |-> FALSE,
   checkpoint_rank_sync |-> FALSE, checkpoint_mode |-> "default",
   num_checkpoints_write |-> -1, num_checkpoints_read |-> -1,
   checkpoint_randomize_tensor |-> TRUE, ksm_present |-> FALSE,
   num_layers |-> -1, tensor_parallelism |-> 1, pipeline_parallelism |-> 1,
   data_parallelism |-> -1, zero_stage |-> 0, output_folder |-> Unset,
   do_train |-> TRUE, generate_data |-> FALSE, do_checkpoint |-> FALSE,
   do_profiling |-> FALSE, profiler |-> "iostat", generate_only |-> FALSE,
   checkpoint_only |-> FALSE]

(* The options no other one and no choice of a part depends on: their default is
   one value.  LoadConfig stores the two excepted under a name nothing reads. *)
Plain == {o \in Options : Attribute(o) \notin DOMAIN Defaults}
           \ {"fsync", "recovery_rank_shift"}

(* The values of f, and those of g for what f does not set *)
Over(f, g) == [x \in DOMAIN f \cup DOMAIN g |-> IF x \in DOMAIN f THEN f[x] ELSE g[x]]

AllDefaults == Over([a \in {Attribute(o) : o \in Plain} |-> "default"], Defaults)

(* Options that GetConfig does not know by their key, and None is the answer *)
Unasked ==
  {"storage_options", "post_generation_settle_seconds", "data_gen_method",
   "record_element_bytes", "record_element_type", "record_dims", "write_threads",
   "odirect", "transformed_record_dims", "transformed_record_element_type",
   "rank_sync", "randomize_tensor", "ksm"}
     \cup ParquetOptions \cup HDF5Options \cup KSMOptions

(* query_config prints what GetConfig returns for a key after LoadConfig. *)
GetConfig(a, o) == IF o \in Unasked THEN Unset ELSE a[ReadAttribute(o)]
===============================================================================
