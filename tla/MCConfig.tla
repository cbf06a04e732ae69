-------------------------------- MODULE MCConfig --------------------------------
(* Jobs for Config: a plain job varied along the options that meet in one part of
   the program, one family for each part. *)
EXTENDS Config

CONSTANTS MaxCpus, MaxRanks

Job(yaml) == [yaml |-> yaml, env |-> <<>>, dotenv |-> <<>>,
              installed |-> {"dgen", "s3dlio", "minio", "s3torchconnector", "mlpstorage"},
              cpus |-> 1, ranks |-> 1, ranks_per_node |-> 1]

Loading ==
  {Job([framework |-> fw, format |-> fm, odirect |-> o] @@ dl @@ st) :
     fw \in FrameworkType, fm \in FormatType, o \in BOOLEAN,
     dl \in {<<>>} \cup {[data_loader |-> l] : l \in DataLoaderType},
     st \in {<<>>, [storage_type |-> "s3", storage_library |-> "minio"]}}

Keys == [access_key_id |-> "k1", secret_access_key |-> "s1", endpoint_url |-> "e1"]

Objects ==
  {[Job([framework |-> fw, storage_type |-> st, format |-> "npz", data_loader |-> fw,
         train |-> t, checkpoint |-> c, multiprocessing_context |-> "fork"] @@ o @@ l)
      EXCEPT !.installed = i] :
     fw \in FrameworkType, st \in StorageType, t \in BOOLEAN, c \in BOOLEAN,
     o \in {<<>>, [storage_options |-> Keys]},
     l \in {<<>>, [storage_library |-> "other"]}
             \cup {[storage_library |-> x] : x \in {"s3dlio", "minio", "s3torchconnector"}},
     i \in {{}, {"s3dlio", "minio", "s3torchconnector"}, {"s3dlio", "minio", "mlpstorage"}}}

Environment ==
  {[Job([framework |-> "pytorch", storage_type |-> "s3", data_loader |-> "pytorch",
         format |-> "npz"] @@ y) EXCEPT !.env = e, !.dotenv = d] :
     y \in {<<>>, [folder |-> "out"], [storage_library |-> "minio"],
            [data_gen_method |-> "auto"],
            [storage_options |-> [storage_library |-> "s3dlio"] @@ Keys]},
     e \in {<<>>, [DLIO_STORAGE_LIBRARY |-> "minio", DLIO_DATA_GEN |-> "numpy"],
            [AWS_ACCESS_KEY_ID |-> "k2", AWS_SECRET_ACCESS_KEY |-> "s2",
             AWS_ENDPOINT_URL |-> "e2", DLIO_STORAGE_TYPE |-> "local_fs"]},
     d \in {<<>>, [DLIO_STORAGE_LIBRARY |-> "s3dlio", AWS_ACCESS_KEY_ID |-> "k3",
                   AWS_SECRET_ACCESS_KEY |-> "s3", AWS_ENDPOINT_URL |-> "e3"]}}

Records ==
  {Job([format |-> fm, data_loader |-> "tensorflow", record_element_type |-> b,
        generate_data |-> g, profiling |-> g] @@ d @@ l) :
     fm \in {"npz", "jpeg", "hdf5_opt"}, b \in {1, 4}, g \in BOOLEAN,
     d \in {<<>>, [record_dims |-> <<4, 4>>], [record_dims |-> <<3, 2, 2>>],
            [record_dims |-> <<4>>, num_dset_per_record |-> 3]},
     l \in {<<>>, [record_length_bytes |-> 16], [record_length_bytes_resize |-> 9],
            [record_length_bytes_stdev |-> 2],
            [record_length_bytes |-> 1, record_length_bytes_stdev |-> 2]}}

Threads ==
  {[Job([format |-> "npz", data_loader |-> "tensorflow", read_threads |-> r,
         write_threads |-> w, generate_data |-> g, data_gen_method |-> "dgen"])
      EXCEPT !.cpus = c, !.ranks_per_node = n, !.installed = {}] :
     r \in {0, 1, 3}, w \in {1, 2}, g \in BOOLEAN, c \in 1..MaxCpus, n \in 1..MaxRanks}

Samples ==
  {[Job([format |-> "npy", framework |-> fw, num_files_train |-> f, num_files_eval |-> e,
         generate_data |-> g, batch_size |-> 4, read_threads |-> r] @@ dl @@ s)
      EXCEPT !.cpus = MaxCpus, !.ranks = n] :
     fw \in FrameworkType, f \in {0, 1, 8}, e \in {0, 2}, g \in BOOLEAN,
     r \in 0..2,
     dl \in {<<>>} \cup {[data_loader |-> l] : l \in DataLoaderType \ {"custom", "none"}},
     s \in {<<>>, [num_samples_per_file |-> 3]}
             \cup {[data_loader_sampler |-> x] : x \in DataLoaderSampler},
     n \in 1..MaxRanks}

Models ==
  {[Job([train |-> FALSE, checkpoint |-> TRUE, mode |-> m, data |-> d, tensor |-> t,
         pipeline |-> p, zero_stage |-> z, num_layers |-> 2] @@ c) EXCEPT !.ranks = n] :
     m \in {"default", "subset"}, d \in {-1, 1, 2}, t \in {1, 2}, p \in {1, 3},
     z \in {0, 3}, n \in 1..MaxRanks,
     c \in {<<>>, [num_checkpoints_write |-> 1, num_checkpoints_read |-> 2],
            [ksm |-> TRUE, fsync |-> TRUE], [ksm |-> TRUE, randomize_tensor |-> FALSE],
            [rank_sync |-> TRUE, recovery_rank_shift |-> TRUE, read_type |-> "memory"]}}

(* Each option that plays no part in the flow, alone *)
Single == {Job(o :> "given") : o \in Plain}

MCJobs == Single \cup Loading \cup Objects \cup Environment \cup Records \cup Threads \cup Samples
            \cup Models
===============================================================================
