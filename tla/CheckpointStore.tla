---------------------------- MODULE CheckpointStore ----------------------------
(***************************************************************************)
(* Checkpoints on the storage over successive jobs: _checkpoint, its writes *)
(* and its reads (main.py), save_checkpoint and load_checkpoint, the        *)
(* back ends of save_state and load_state (checkpointing/), for the files   *)
(* that CheckpointLayout gives each rank.  The jobs differ in their ranks,  *)
(* parallelism, model and framework, and a job that is killed leaves what   *)
(* it wrote: the next one writes or reads under the same names.             *)
(*                                                                         *)
(* Storages: "file", a file system on which the working directory is        *)
(* storage_root or checkpoint_folder is absolute; "rooted", one where it is *)
(* not, so that storage_root/checkpoint_folder is another folder; "object". *)
(*                                                                         *)
(* A workload is a job: train, the ids <<epoch, step>> that a training job  *)
(* checkpoints, or << >> for a checkpoint-only job with its writes and      *)
(* reads (num_checkpoints_write, num_checkpoints_read); scale, chunks to a  *)
(* file; tf, the TensorFlow mechanism; sync, checkpoint_rank_sync.         *)
(***************************************************************************)
EXTENDS CheckpointLayout, Sequences, FiniteSetsExt

CONSTANTS
  Layouts,     \* configurations of CheckpointLayout
  Simulated,   \* those of them whose jobs are run
  Workloads, Storages,
  MaxJobs,     \* jobs run one after the other
  Models       \* sizes of the layers of a transformer

WorkloadType ==
  [train: {s \in Seq(Nat \X Nat) : \A i, j \in DOMAIN s : s[i] = s[j] => i = j},
   writes: Nat, reads: Nat, scale: Nat \ {0}, tf: BOOLEAN, sync: BOOLEAN]

ASSUME StoreAssumption ==
  /\ Simulated \subseteq Layouts
  /\ \A c \in Layouts : c \in ConfigurationType /\ Valid(c)
  /\ Workloads # {} /\ Workloads \subseteq WorkloadType
  /\ Storages \subseteq {"file", "rooted", "object"}
  /\ MaxJobs \in Nat
  /\ Models \subseteq [hidden: Nat, heads: Nat \ {0}, kvHeads: Nat, vocab: Nat, ffn: Nat]

VARIABLES
  storage,           \* constant in a behaviour
  layout, work,      \* the configuration and the workload of the job that runs
  ran,               \* history: what the jobs begun write, in order
  pc,                \* where each rank is
  at,                \* the checkpoint it is at: the writes, then the reads
  todo,              \* the files of it that are left
  store,             \* <<id, file, extension>> -> the chunks in it and the job that wrote it
  nodes,             \* the folders of checkpoints, on a file system
  killed,            \* history: a job was killed before it had written everything
  phantom            \* history: folders that a load made

job  == <<ran, work>>
jobs == Len(ran)
vars == <<layout, storage, job, pc, at, todo, store, nodes, killed, phantom>>

Ranks(c) == 0 .. c.size - 1
Rank     == Ranks(layout)

Local == storage # "object"

Training == work.train # << >>
Writes   == IF Training THEN Len(work.train) ELSE work.writes
Reads    == IF Training THEN 0 ELSE work.reads

(* mutant: the reads go on numbering where the writes ended *)
IdGoingOn(n) == IF Training THEN work.train[n] ELSE <<1, n>>

(* global_epoch<epoch>_step<step>: a checkpoint-only job numbers its writes, and
   again its reads, from 1, all in epoch 1. *)
Id(n) ==
  IF Training THEN work.train[n] ELSE <<1, IF n <= Writes THEN n ELSE n - Writes>>

(* _compute_state_bytes, in chunks: the jobs on a storage differ in the size of
   the layers only, so that every file of a job has the same number. *)
Chunks == work.scale

(* The order of save_checkpoint: model state, layers by number, optimizer *)
Place(part) ==
  CASE part.file[1] = "model_states" -> 0
    [] part.file[1] = "layer"        -> 1 + part.file[2]
    [] part.file[1] \in {"model", "zero_model"} -> 1
    [] part.file[1] = "zero_optim"   -> layout.layers + 4

(* The next part to be written or read: one, as Place tells a rank's parts apart *)
FirstOf(parts) == {p \in parts : \A q \in parts : Place(p) <= Place(q)}

(* get_name: the extension of the back end *)
Ext(tf) == IF tf THEN "pb" ELSE "pt"

NameOf(id, part) == <<id, part.file, Ext(work.tf)>>
Name(r, part)    == NameOf(Id(at[r]), part)

Put(f, k, v) == [x \in DOMAIN f \cup {k} |-> IF x = k THEN v ELSE f[x]]

Goto(r, p) == pc' = [pc EXCEPT ![r] = p]

Init ==
  /\ layout \in Layouts
  /\ storage \in Storages
  /\ ran = << >>
  /\ work = CHOOSE w \in Workloads : TRUE
  /\ pc = [r \in Rank |-> "off"]
  /\ at = [r \in Rank |-> 0]
  /\ todo = [r \in Rank |-> {}]
  /\ store = << >> /\ nodes = {}
  /\ killed = FALSE /\ phantom = {}

Off == \A r \in Rank : pc[r] = "off"

StartJob ==
  /\ Off /\ jobs < MaxJobs
  /\ \E c \in Simulated, w \in Workloads :
       /\ w.tf => Local
       /\ layout' = c /\ work' = w
       /\ ran' = Append(ran, [layout |-> c, scale |-> w.scale, tf |-> w.tf])
       /\ pc' = [r \in Ranks(c) |-> "next"]
       /\ at' = [r \in Ranks(c) |-> 0]
       /\ todo' = [r \in Ranks(c) |-> {}]
  /\ UNCHANGED <<storage, store, nodes, killed, phantom>>

--------------------------------------------------------------------------------
(* The loops: a barrier before each checkpoint *)

(* What walk_node of the checkpoint folder has to list: its folders, and on an
   object store every object below it *)
Existing == IF Local THEN Cardinality(nodes) ELSE Cardinality(DOMAIN store)

(* The listing is not of what is there: storage_root/checkpoint_folder, which nothing
   makes, raises; and on an object store a request that fails leaves the names listed
   so far, or none, for the whole. *)
Misses ==
  \/ storage = "rooted"
  \/ storage = "object" /\ Reads > 0

(* mutant: as many as are to be read are not enough *)
CountCheckpointsMore(r) ==
  /\ pc[r] = "next" /\ at[r] = Writes /\ ~Training
  /\ \/ Misses /\ Goto(r, "missed")
     \/ storage # "rooted" /\ Goto(r, IF Existing <= Reads THEN "few" ELSE "counted")
  /\ UNCHANGED <<layout, storage, job, at, todo, store, nodes, killed, phantom>>

(* _checkpoint counts between its writes and its reads. *)
CountCheckpoints(r) ==
  /\ pc[r] = "next" /\ at[r] = Writes /\ ~Training
  /\ \/ Misses /\ Goto(r, "missed")
     \/ storage # "rooted" /\ Goto(r, IF Existing < Reads THEN "few" ELSE "counted")
  /\ UNCHANGED <<layout, storage, job, at, todo, store, nodes, killed, phantom>>

NextCheckpoint(r) ==
  /\ \/ pc[r] = "counted"
     \/ pc[r] = "next" /\ (at[r] # Writes \/ Training)
  /\ IF at[r] = Writes + Reads THEN Goto(r, "ended") /\ UNCHANGED at
     ELSE at' = [at EXCEPT ![r] = @ + 1] /\ Goto(r, "barrier")
  /\ UNCHANGED <<layout, storage, job, todo, store, nodes, killed, phantom>>

(* mutant: no barrier *)
MetNever(r) == TRUE

Met(r) == \A q \in Rank : at[q] >= at[r]

Saving(r) == at[r] <= Writes

(* create_node: load_checkpoint makes the folder too. *)
StartCheckpoint(r) ==
  /\ pc[r] = "barrier" /\ Met(r)
  /\ nodes' = IF Local THEN nodes \cup {Id(at[r])} ELSE nodes
  /\ phantom' = IF Saving(r) THEN phantom \ {Id(at[r])}
                 ELSE phantom \cup (nodes' \ nodes)
  /\ todo' = [todo EXCEPT ![r] = Saved(layout, r)]
  /\ Goto(r, IF Saving(r) THEN "save" ELSE "load")
  /\ UNCHANGED <<layout, storage, job, at, store, killed>>

(* checkpoint_rank_sync: a barrier after each, which training does not have *)
Synced(r) ==
  work.sync /\ ~Training =>
    \A q \in Rank :
      \/ at[q] > at[r]
      \/ at[q] = at[r] /\ pc[q] \in {"saved", "next", "counted", "few", "missed", "ended"}

EndCheckpoint(r) ==
  /\ \/ pc[r] \in {"save", "load"} /\ todo[r] = {} /\ Goto(r, "saved")
     \/ pc[r] = "saved" /\ Synced(r) /\ Goto(r, "next")
  /\ UNCHANGED <<layout, storage, job, at, todo, store, nodes, killed, phantom>>

--------------------------------------------------------------------------------
(* save_state *)

Written(chunks) == [chunks |-> chunks, job |-> jobs]

(* SimpleStreamingCheckpointing.save: opening empties the file, the chunks
   follow, and nothing is renamed. *)
OpenFile(r) ==
  /\ pc[r] = "save" /\ todo[r] # {} /\ Local /\ ~work.tf
  /\ \E part \in FirstOf(todo[r]) : store' = Put(store, Name(r, part), Written(0))
  /\ Goto(r, "stream")
  /\ UNCHANGED <<layout, storage, job, at, todo, nodes, killed, phantom>>

(* mutant: the last chunk stays in the buffer *)
WriteChunkUnflushed(r) ==
  /\ pc[r] = "stream"
  /\ \E part \in FirstOf(todo[r]) :
       LET chunks == store[Name(r, part)].chunks + 1
       IN  IF chunks = Chunks
           THEN todo' = [todo EXCEPT ![r] = @ \ {part}] /\ Goto(r, "save") /\ UNCHANGED store
           ELSE store' = Put(store, Name(r, part), Written(chunks)) /\ UNCHANGED <<todo, pc>>
  /\ UNCHANGED <<layout, storage, job, at, nodes, killed, phantom>>

WriteChunk(r) ==
  /\ pc[r] = "stream"
  /\ \E part \in FirstOf(todo[r]) :
       LET chunks == store[Name(r, part)].chunks + 1
       IN  /\ store' = Put(store, Name(r, part), Written(chunks))
           /\ IF chunks = Chunks
              THEN todo' = [todo EXCEPT ![r] = @ \ {part}] /\ Goto(r, "save")
              ELSE UNCHANGED <<todo, pc>>
  /\ UNCHANGED <<layout, storage, job, at, nodes, killed, phantom>>

(* An object is there when its upload ends, and tf.train.Checkpoint renames what
   it has written. *)
SaveWhole(r) ==
  /\ pc[r] = "save" /\ todo[r] # {} /\ (~Local \/ work.tf)
  /\ \E part \in FirstOf(todo[r]) :
       /\ store' = Put(store, Name(r, part), Written(Chunks))
       /\ todo' = [todo EXCEPT ![r] = @ \ {part}]
  /\ UNCHANGED <<layout, storage, job, pc, at, nodes, killed, phantom>>

--------------------------------------------------------------------------------
(* load_state *)

(* PyTorchCheckpointing reads as many bytes as its own state has: a longer file
   will do. *)
StreamLoads(name, part) ==
  name \in DOMAIN store /\ store[name].chunks >= Chunks

(* TFCheckpointing.load_state asks every value of the state for its shape: the
   layers of one file, and predefined optimizer groups, are dictionaries. *)
Nested(part) ==
  \/ part.file[1] \in {"model", "zero_model"}
  \/ part.file[1] = "zero_optim" /\ layout.predefined

TFLoads(name, part) ==
  ~Nested(part) /\ name \in DOMAIN store /\ store[name].chunks = Chunks

Loads(name, part) == IF work.tf THEN TFLoads(name, part) ELSE StreamLoads(name, part)

LoadPart(r) ==
  /\ pc[r] = "load" /\ todo[r] # {}
  /\ \E part \in FirstOf(todo[r]) :
       IF (part.file[1] = "zero_model" => LoadAsserts(layout, r)) /\ Loads(Name(r, part), part)
       THEN todo' = [todo EXCEPT ![r] = @ \ {part}] /\ UNCHANGED pc
       ELSE Goto(r, "failed") /\ UNCHANGED todo
  /\ UNCHANGED <<layout, storage, job, at, store, nodes, killed, phantom>>

--------------------------------------------------------------------------------
FinishJob ==
  /\ \A r \in Rank : pc[r] = "ended"
  /\ pc' = [r \in Rank |-> "off"]
  /\ at' = [r \in Rank |-> 0]
  /\ UNCHANGED <<layout, storage, job, todo, store, nodes, killed, phantom>>

(* The job dies, at any time, or mpirun ends it because a rank has raised. *)
Kill ==
  /\ ~Off
  /\ pc' = [r \in Rank |-> "off"]
  /\ at' = [r \in Rank |-> 0]
  /\ todo' = [r \in Rank |-> {}]
  /\ killed' = (killed \/ \E r \in Rank :
                  at[r] < Writes \/ (Saving(r) /\ pc[r] \in {"barrier", "save", "stream"}))
  /\ UNCHANGED <<layout, storage, job, store, nodes, phantom>>

Next ==
  \/ StartJob \/ FinishJob \/ Kill
  \/ \E r \in Rank :
       \/ CountCheckpoints(r) \/ NextCheckpoint(r) \/ StartCheckpoint(r) \/ EndCheckpoint(r)
       \/ OpenFile(r) \/ WriteChunk(r) \/ SaveWhole(r) \/ LoadPart(r)

Spec == Init /\ [][Next]_vars
--------------------------------------------------------------------------------
(* Properties *)

Places == {"off", "next", "few", "missed", "counted", "barrier", "save", "stream", "load",
           "saved", "failed", "ended"}

(* Types: a rank is at a checkpoint of its job, and a file is of some rank of the job
   that has written it. *)
TypeOK ==
  /\ layout \in Layouts /\ storage \in Storages
  /\ ran \in Seq([layout: Layouts, scale: Nat \ {0}, tf: BOOLEAN]) /\ work \in WorkloadType
  /\ jobs > 0 => ran[jobs] = [layout |-> layout, scale |-> work.scale, tf |-> work.tf]
  /\ pc \in [Rank -> Places]
  /\ at \in [Rank -> Nat]
  /\ todo \in [Rank -> SUBSET UNION {Saved(layout, r) : r \in Rank}]
  /\ \A r \in Rank : /\ at[r] <= Writes + Reads /\ todo[r] \subseteq Saved(layout, r)
                     /\ pc[r] # "off" => jobs > 0
  /\ \A name \in DOMAIN store :
       LET k == store[name].job
       IN  /\ k \in 1 .. jobs
           /\ \E r \in Ranks(ran[k].layout) : \E p \in Saved(ran[k].layout, r) :
                name = <<name[1], p.file, Ext(ran[k].tf)>>
  /\ phantom \subseteq nodes

(* All the ranks write their part of a checkpoint at the same time and without
   a lock: no two of them write the same file (base_checkpointing.py 385-418). *)
FilesDistinct ==
  \A r, q \in Rank : r # q =>
    {w.file : w \in Saved(layout, r)} \cap {w.file : w \in Saved(layout, q)} = {}

(* The layers of the model, or those that are predefined *)
AllLayers == IF layout.predefined THEN 1 .. layout.layers
             ELSE IF layout.layers > 0 THEN 0 .. layout.layers + 2 ELSE {}

(* For each tensor shard every layer is in exactly one file, and under ZeRO 3 in one
   file of each data replica, which holds a shard of it (base_checkpointing.py
   360-382, 394-418). *)
LayersSavedOnce ==
  \A l \in AllLayers, t \in 0 .. layout.tp - 1 :
    LET savers == {r \in Rank : /\ TensorRank(layout, r) = t
                                 /\ \E w \in SavedModel(layout, r) : l \in w.layers}
    IN  Cardinality(savers) = IF layout.zero = 3 THEN DataParallelism(layout) ELSE 1

(* As many ranks save a part of the optimizer state as get_optimization_groups
   divides it into; predefined groups, which it does not divide, each of these ranks
   saves whole (base_checkpointing.py 340-358, 414-418). *)
OptimizerSavedOnce ==
  AllLayers # {} =>
    LET savers == IF layout.zero > 0 THEN layout.size ELSE ModelParallelism(layout)
        copies == IF layout.predefined THEN savers ELSE 1
    IN  Cardinality({r \in Rank : SavedOptimizer(layout, r) # {}})
          = copies * OptimizerShards(layout)

(* A full checkpoint holds the whole model and the whole optimizer state, each part
   once, but for predefined optimizer groups.  (With ZeRO and a data_parallelism of 0,
   which validate lets through, the constructor divides by it and there is no
   checkpoint.) *)
ModelSavedOnce ==
  ~layout.subset /\ layout.dp # 0 => LayersSavedOnce /\ OptimizerSavedOnce

LayerSum(m, layers) == MapThenSumSet(LAMBDA l : LayerParameters(m, l), layers)

(* The layers add up to the size of the model that the optimizer state and the
   report are computed from: two formulas written apart (base_checkpointing.py
   284-302, 304-329). *)
ParametersAddUp ==
  \A sizes \in Models :
    LET m == [hidden |-> sizes.hidden, heads |-> sizes.heads, kvHeads |-> sizes.kvHeads,
              vocab |-> sizes.vocab, ffn |-> sizes.ffn, layers |-> layout.layers]
    IN  LayerSum(m, AllLayers) = NumParameters(m)

(* A full checkpoint holds the whole model, each part once; its optimizer state is
   whole too, and once unless its groups are predefined; and its layers have as many
   parameters as the optimizer state is made for.  With predefined layers and no
   num_layers, its default, there is no layer to save (base_checkpointing.py 340-382,
   394-418). *)
WholeModel ==
  /\ ModelSavedOnce
  /\ ~layout.subset /\ layout.layers > 0 /\ ~layout.predefined => ParametersAddUp

(* So it is for every layout, one of which a behaviour starts with: the layouts of
   the jobs are among them (StoreAssumption). *)
SavedOnce == jobs = 0 => WholeModel

(* The parts of a checkpoint, all there and as long as this job's. *)
Complete(id) ==
  \A r \in Rank : \A p \in Saved(layout, r) :
    NameOf(id, p) \in DOMAIN store /\ store[NameOf(id, p)].chunks >= Chunks

Unloadable(r) == ~LoadAsserts(layout, r) \/ (work.tf /\ \E p \in Saved(layout, r) : Nested(p))

(* A job that reads the checkpoints it has itself written, over whatever a killed
   job or one with other ranks or another model left under the same names, never
   finds one missing or short.  Loading fails only by the assertion on the
   pipeline, or in the TensorFlow back end on nested states
   (main.py 296-350, base_checkpointing.py 385-460). *)
WrittenIsLoaded ==
  \A r \in Rank :
    (pc[r] = "failed" /\ (Writes >= Reads \/ (\A n \in 1 .. Reads : Complete(<<1, n>>) /\ ~work.tf)))
      => Unloadable(r)

(* A rank of a job that writes its checkpoints counts enough of them on a file
   system, if it counts in the folder it has written to.  On an object store whose
   listing has not failed it counts too few only if no rank has anything to save, or
   as a replica that saves nothing itself, without rank_sync, in a job that reads all
   it has written: it counts objects while the others still upload the last
   checkpoint, and raises (main.py 303-305). *)
WritersCountEnough ==
  \A r \in Rank : pc[r] \in {"few", "missed"} /\ Writes >= Reads =>
    /\ storage # "file"
    /\ pc[r] = "few" =>
         /\ storage = "object" /\ Saved(layout, r) = {}
         /\ \/ \A q \in Rank : Saved(layout, q) = {}
            \/ ~work.sync /\ Reads = Writes

(* The files of a checkpoint that have the job's extension, and those that it names *)
Under(id) == {name \in DOMAIN store : name[1] = id /\ name[3] = Ext(work.tf)}
Own(id)   == {NameOf(id, p) : p \in UNION {Saved(layout, r) : r \in Rank}}

(* A checkpoint that is loaded has the files of two jobs only if a job was killed
   before it had written everything, or if the two had different layouts: the files
   are replaced one by one under the same names, those of a rank that is no longer
   there stay, and nothing marks a checkpoint as complete.  What the ranks load
   themselves is then still of one job if it is theirs (main.py 310-348). *)
CheckpointOfOneJob ==
  \A r \in Rank : pc[r] = "load" =>
    \A n, m \in Under(Id(at[r])) : store[n].job # store[m].job =>
      /\ killed \/ ran[store[n].job].layout # ran[store[m].job].layout
      /\ {n, m} \subseteq Own(Id(at[r])) => at[r] - Writes > Writes

(* Every file of checkpoint id that job k writes is there, whole and of job k. *)
CheckpointOf(k, id) ==
  \A r \in Ranks(ran[k].layout) : \A p \in Saved(ran[k].layout, r) :
    LET name == <<id, p.file, Ext(ran[k].tf)>>
    IN  name \in DOMAIN store /\ store[name] = [chunks |-> ran[k].scale, job |-> k]

(* A folder that a later job counts holds a whole checkpoint, every file of the ranks
   of one job and all of that job, whatever the layouts of the others that wrote to
   it; unless a job was killed while it wrote, or the folder was made by a load that
   then failed for want of the checkpoint: that folder counts as a checkpoint from
   then on. *)
FoldersAreCheckpoints ==
  Off /\ ~killed => \A id \in nodes \ phantom : \E k \in 1 .. jobs : CheckpointOf(k, id)
================================================================================
