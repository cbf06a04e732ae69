-------------------------------- MODULE MCPrefetch --------------------------------
(***************************************************************************)
(* Prefetch for every reader class over the reads of a small job.          *)
(***************************************************************************)
EXTENDS Prefetch, MCReads

(* Two formats stand for those with the same classes (npz, hdf5 and jpeg read as
   npy does); a CSV object without a library is read by pandas, a TFRecord file by
   tf.data. *)
Inputs ==
  {[format |-> f[1], odirect |-> f[2], library |-> f[3], storage |-> f[4]] : f \in
     {<<"npy", FALSE, "none", "file">>, <<"npy", TRUE, "none", "file">>,
      <<"npz", TRUE, "minio", "object">>, <<"hdf5", TRUE, "none", "file">>,
      <<"csv", FALSE, "none", "file">>, <<"indexed_binary", FALSE, "none", "file">>,
      <<"indexed_binary", FALSE, "s3dlio", "object">>, <<"npy", FALSE, "none", "object">>,
      <<"npz", FALSE, "s3torchconnector", "object">>, <<"jpeg", FALSE, "s3dlio", "object">>,
      <<"csv", FALSE, "minio", "object">>, <<"tfrecord", FALSE, "s3dlio", "object">>}}

Modes ==
  {[mode |-> m[1], on_demand |-> m[2], whole |-> m[3]] :
     m \in {<<"iterate", FALSE, FALSE>>, <<"iterate", FALSE, TRUE>>,
            <<"index", FALSE, FALSE>>, <<"index", TRUE, FALSE>>}}

(* What thread -1 reads: the entries of all threads, one after the other *)
AllReads(s) ==
  FlattenSeq([t \in 1 .. s.threads |-> IterateReads([s EXCEPT !.thread = t - 1])])

Chosen ==
  {c \in Inputs \X Modes : c[2].mode = "iterate" => c[2].whole = (c[1].format = "tfrecord")}

MCConfigurations ==
  {[format |-> c[1].format, odirect |-> c[1].odirect, library |-> c[1].library,
    storage |-> c[1].storage, mode |-> c[2].mode, on_demand |-> c[2].on_demand,
    whole |-> c[2].whole,
    reads |-> IF c[2].mode = "index" THEN IndexReads(s)
              ELSE IF c[2].whole THEN AllReads(s) ELSE IterateReads(s),
    perFile |-> s.perFile, batch |-> BatchSize, epochs |-> MCEpochs, faulty |-> f] :
   c \in Chosen, s \in Shapes, f \in BOOLEAN}
===============================================================================
