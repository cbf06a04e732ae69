---------------------------------- MODULE Job ----------------------------------
(***************************************************************************)
(* A benchmark job from DLIOBenchmark.initialize to finalize (main.py) on  *)
(* CommSize ranks: data generation, the settle guard, the listing of the   *)
(* dataset, the checkpoint-only workload (_checkpoint) and the deletion of *)
(* the dataset.  The training loop, which TrainLoop models, is one step    *)
(* that reads the listed files.                                            *)
(*                                                                         *)
(* conf is the workload: fixed in a behaviour, chosen in Init.             *)
(* - generate, train, checkpoint: the workflow switches                    *)
(* - object: the dataset is in an object store, whose listings may lag     *)
(* - settle: post_generation_settle_seconds > 0                            *)
(* - keep: keep_files                                                      *)
(* - rankSync: checkpoint_rank_sync                                        *)
(* - writes, reads: num_checkpoints_write, num_checkpoints_read            *)
(* - found: the dataset of an earlier job is there                         *)
(* - earlier: checkpoints 1 .. earlier of an earlier job are there         *)
(***************************************************************************)
EXTENDS Integers, FiniteSets

CONSTANTS
  CommSize,        \* comm.size
  NumFiles,        \* num_files_train (+ num_files_eval)
  MaxCheckpoints   \* bound on conf.writes, conf.reads and conf.earlier

ASSUME JobAssumption ==
  /\ CommSize \in Nat \ {0}
  /\ NumFiles \in Nat \ {0}
  /\ MaxCheckpoints \in Nat

Rank  == 0 .. CommSize - 1
Files == 0 .. NumFiles - 1

VARIABLES
  conf,
  pc,        \* place each rank has reached
  calls,     \* collectives each rank has called
  folders,   \* the folders of the dataset exist
  files,     \* dataset files written
  visible,   \* dataset files a listing shows
  listed,    \* listed[r]: the file list of rank r
  block,     \* block[r]: checkpoint rank r is at in _checkpoint_write or _read
  saved,     \* saved[r]: checkpoints of which rank r's part is complete
  timed      \* timed[r]: checkpoints whose save rank r has recorded (end_save_ckpt)

vars == <<conf, pc, calls, folders, files, visible, listed, block, saved, timed>>

dataset     == <<folders, files, visible>>
checkpoints == <<block, saved, timed>>

Barriers   == {"begin", "folders_made", "generated", "settled", "listing", "initialized",
               "before_save", "after_save", "before_load", "after_load",
               "finalize", "delete", "exit"}
Allreduces == {"model_size", "optimizer_size", "metrics"}

INSTANCE Collectives

Places == Sites \cup {"init", "make_folders", "write", "sleep", "list", "train", "save",
                      "saved", "count", "load", "loaded", "deleting", "done", "failed"}

(* LoadConfig: the modes the workflow switches give *)
GenerateOnly   == conf.generate /\ ~conf.train /\ ~conf.checkpoint
CheckpointOnly == conf.checkpoint /\ ~conf.train

Configurations ==
  {c \in [generate: BOOLEAN, train: BOOLEAN, checkpoint: BOOLEAN, object: BOOLEAN,
          settle: BOOLEAN, keep: BOOLEAN, rankSync: BOOLEAN, found: BOOLEAN,
          writes: 0 .. MaxCheckpoints, reads: 0 .. MaxCheckpoints,
          earlier: 0 .. MaxCheckpoints] :
     /\ c.generate \/ c.train \/ c.checkpoint
     /\ c.writes > 0 => c.reads <= c.writes            \* validate()
     /\ c.generate => ~c.found                         \* no files overwritten
     /\ c.writes > 0 => c.earlier = 0                  \* nor checkpoints
     /\ ~c.generate => ~c.settle                       \* the rest is unused
     /\ c.train \/ ~c.checkpoint =>
          ~c.rankSync /\ c.writes + c.reads + c.earlier = 0}

Init ==
  /\ conf \in Configurations
  /\ pc = [r \in Rank |-> "init"]
  /\ calls = [r \in Rank |-> 0]
  /\ folders = (conf.found \/ conf.object)      \* an object store has no folders
  /\ files = IF conf.found THEN Files ELSE {}
  /\ visible = files
  /\ listed = [r \in Rank |-> {}]
  /\ block = [r \in Rank |-> 1]
  /\ saved = [r \in Rank |-> 1 .. conf.earlier]
  /\ timed = [r \in Rank |-> {}]

-------------------------------------------------------------------------------
(* initialize(): generation of the dataset *)

Begin(r) ==
  /\ pc[r] = "init"
  /\ Enter(r, "begin")
  /\ UNCHANGED <<conf, dataset, listed, checkpoints>>

EndBegin(r) ==
  /\ Released(r, "begin")
  /\ IF conf.generate THEN Goto(r, "make_folders") /\ UNCHANGED calls
                      ELSE Enter(r, "listing")
  /\ UNCHANGED <<conf, dataset, listed, checkpoints>>

(* mutant: the ranks do not wait for the folders *)
MakeFoldersNoBarrier(r) ==
  /\ pc[r] = "make_folders"
  /\ folders' = (folders \/ r = 0)
  /\ Goto(r, "write")
  /\ UNCHANGED <<conf, calls, files, visible, listed, checkpoints>>

(* DataGenerator.generate: rank 0 makes the folders, then the barrier *)
MakeFolders(r) ==
  /\ pc[r] = "make_folders"
  /\ folders' = (folders \/ r = 0)
  /\ Enter(r, "folders_made")
  /\ UNCHANGED <<conf, files, visible, listed, checkpoints>>

StartWriting(r) ==
  /\ Released(r, "folders_made")
  /\ Goto(r, "write")
  /\ UNCHANGED <<conf, calls, dataset, listed, checkpoints>>

(* _generate_files: rank r writes the files r, r + CommSize, ...; the threads of
   its pool end theirs in any order.  Writing into a missing folder raises. *)
OwnFiles(r) == {f \in Files : f % CommSize = r}

WriteFile(r) ==
  /\ pc[r] = "write"
  /\ \/ /\ ~folders
        /\ Goto(r, "failed")
        /\ UNCHANGED <<files, visible>>
     \/ \E f \in OwnFiles(r) \ files :
          /\ folders
          /\ files' = files \cup {f}
          /\ visible' = IF conf.object THEN visible ELSE visible \cup {f}
          /\ UNCHANGED pc
  /\ UNCHANGED <<conf, calls, folders, listed, checkpoints>>

EndWriting(r) ==
  /\ pc[r] = "write"
  /\ OwnFiles(r) \subseteq files
  /\ Enter(r, "generated")
  /\ UNCHANGED <<conf, dataset, listed, checkpoints>>

(* The object store brings a written file into its listings. *)
Propagate ==
  /\ \E f \in files \ visible : visible' = visible \cup {f}
  /\ UNCHANGED <<conf, pc, calls, folders, files, listed, checkpoints>>

(* _apply_settle_guard: rank 0 sleeps, the others go to the barrier after it *)
SettleGuard(r) ==
  /\ Released(r, "generated")
  /\ IF conf.settle /\ conf.object
       THEN IF r = 0 THEN Goto(r, "sleep") /\ UNCHANGED calls
                     ELSE Enter(r, "settled")
       ELSE Enter(r, "listing")
  /\ UNCHANGED <<conf, dataset, listed, checkpoints>>

(* The settle time is set long enough for listings to catch up. *)
WakeUp(r) ==
  /\ pc[r] = "sleep"
  /\ visible = files
  /\ Enter(r, "settled")
  /\ UNCHANGED <<conf, dataset, listed, checkpoints>>

Settled(r) ==
  /\ Released(r, "settled")
  /\ Enter(r, "listing")
  /\ UNCHANGED <<conf, dataset, listed, checkpoints>>

-------------------------------------------------------------------------------
(* initialize(): listing of the dataset, checkpointing mechanism *)

StartListing(r) ==
  /\ Released(r, "listing")
  /\ Goto(r, "list")
  /\ UNCHANGED <<conf, calls, dataset, listed, checkpoints>>

(* mutant: only rank 0 builds the checkpointing mechanism *)
ListFilesRankZeroMechanism(r) ==
  /\ pc[r] = "list"
  /\ listed' = [listed EXCEPT ![r] = IF conf.train THEN visible ELSE {}]
  /\ Enter(r, IF conf.checkpoint /\ r = 0 THEN "model_size" ELSE "initialized")
  /\ UNCHANGED <<conf, dataset, checkpoints>>

(* Every rank lists the dataset itself and raises if files are missing; then the
   constructor of the checkpointing mechanism, with two allreduces. *)
ListFiles(r) ==
  /\ pc[r] = "list"
  /\ listed' = [listed EXCEPT ![r] = IF conf.train THEN visible ELSE {}]
  /\ IF conf.train /\ Cardinality(visible) < NumFiles
       THEN Goto(r, "failed") /\ UNCHANGED calls
       ELSE Enter(r, IF conf.checkpoint THEN "model_size" ELSE "initialized")
  /\ UNCHANGED <<conf, dataset, checkpoints>>

BuildMechanism(r) ==
  /\ \/ Released(r, "model_size") /\ Enter(r, "optimizer_size")
     \/ Released(r, "optimizer_size") /\ Enter(r, "initialized")
  /\ UNCHANGED <<conf, dataset, listed, checkpoints>>

-------------------------------------------------------------------------------
(* run() *)

(* The first collective after the workload: the metrics of end_run, or the
   barrier of finalize if the job only generates. *)
EndRun(r) == Enter(r, IF GenerateOnly THEN "finalize" ELSE "metrics")

Run(r) ==
  /\ Released(r, "initialized")
  /\ \/ conf.train /\ Goto(r, "train") /\ UNCHANGED calls
     \/ GenerateOnly /\ EndRun(r)
     \/ CheckpointOnly /\ conf.writes > 0 /\ Enter(r, "before_save")
     \/ CheckpointOnly /\ conf.writes = 0 /\ Goto(r, "count") /\ UNCHANGED calls
  /\ UNCHANGED <<conf, dataset, listed, checkpoints>>

(* The training loop: reads the files it has listed, fails on a missing one *)
Train(r) ==
  /\ pc[r] = "train"
  /\ IF listed[r] \subseteq files THEN EndRun(r) ELSE Goto(r, "failed") /\ UNCHANGED calls
  /\ UNCHANGED <<conf, dataset, listed, checkpoints>>

(* _checkpoint_write *)
StartSave(r) ==
  /\ Released(r, "before_save")
  /\ Goto(r, "save")
  /\ UNCHANGED <<conf, calls, dataset, listed, checkpoints>>

Save(r) ==
  /\ pc[r] = "save"
  /\ saved' = [saved EXCEPT ![r] = @ \cup {block[r]}]
  /\ IF conf.rankSync THEN Enter(r, "after_save") ELSE Goto(r, "saved") /\ UNCHANGED calls
  /\ UNCHANGED <<conf, dataset, listed, block, timed>>

EndSave(r) ==
  /\ pc[r] = "saved" \/ Released(r, "after_save")
  /\ timed' = [timed EXCEPT ![r] = @ \cup {block[r]}]
  /\ IF block[r] < conf.writes
       THEN Enter(r, "before_save") /\ block' = [block EXCEPT ![r] = @ + 1]
       ELSE Goto(r, "count") /\ block' = [block EXCEPT ![r] = 1] /\ UNCHANGED calls
  /\ UNCHANGED <<conf, dataset, listed, saved>>

(* A checkpoint's folder exists from when a rank begins to save it, and a rank
   that begins to load one makes its folder too. *)
CheckpointFolders ==
  UNION {saved[q] \cup (IF pc[q] \in {"save", "load"} THEN {block[q]} ELSE {}) : q \in Rank}

(* mutant: the ranks do not meet before they load *)
CountCheckpointsNoBarrier(r) ==
  /\ pc[r] = "count"
  /\ Goto(r, IF Cardinality(CheckpointFolders) < conf.reads THEN "failed" ELSE "load")
  /\ UNCHANGED <<conf, calls, dataset, listed, checkpoints>>

(* _checkpoint: raises if there are fewer checkpoints than to be read *)
CountCheckpoints(r) ==
  /\ pc[r] = "count"
  /\ IF Cardinality(CheckpointFolders) < conf.reads
       THEN Goto(r, "failed") /\ UNCHANGED calls
     ELSE IF conf.reads > 0 THEN Enter(r, "before_load")
     ELSE EndRun(r)
  /\ UNCHANGED <<conf, dataset, listed, checkpoints>>

(* _checkpoint_read *)
StartLoad(r) ==
  /\ Released(r, "before_load")
  /\ Goto(r, "load")
  /\ UNCHANGED <<conf, calls, dataset, listed, checkpoints>>

Load(r) ==
  /\ pc[r] = "load"
  /\ IF block[r] \notin saved[r] THEN Goto(r, "failed") /\ UNCHANGED calls
     ELSE IF conf.rankSync THEN Enter(r, "after_load")
     ELSE Goto(r, "loaded") /\ UNCHANGED calls
  /\ UNCHANGED <<conf, dataset, listed, checkpoints>>

EndLoad(r) ==
  /\ pc[r] = "loaded" \/ Released(r, "after_load")
  /\ IF block[r] < conf.reads
       THEN Enter(r, "before_load") /\ block' = [block EXCEPT ![r] = @ + 1]
       ELSE EndRun(r) /\ UNCHANGED block
  /\ UNCHANGED <<conf, dataset, listed, saved, timed>>

-------------------------------------------------------------------------------
(* end_run and finalize() *)

ReduceMetrics(r) ==
  /\ Released(r, "metrics")
  /\ Enter(r, "finalize")
  /\ UNCHANGED <<conf, dataset, listed, checkpoints>>

(* mutant: the ranks but 0 leave without waiting for the deletion *)
FinalizeNoExit(r) ==
  /\ Released(r, "finalize")
  /\ IF conf.keep \/ GenerateOnly \/ r # 0
       THEN Goto(r, "done") /\ UNCHANGED calls
       ELSE Goto(r, "deleting") /\ UNCHANGED calls
  /\ UNCHANGED <<conf, dataset, listed, checkpoints>>

Finalize(r) ==
  /\ Released(r, "finalize")
  /\ Enter(r, IF conf.keep \/ GenerateOnly THEN "exit" ELSE "delete")
  /\ UNCHANGED <<conf, dataset, listed, checkpoints>>

StartDelete(r) ==
  /\ Released(r, "delete")
  /\ IF r = 0 THEN Goto(r, "deleting") /\ UNCHANGED calls ELSE Enter(r, "exit")
  /\ UNCHANGED <<conf, dataset, listed, checkpoints>>

(* get_node finds no node for the data folder on an object store, so that the
   objects stay. *)
Delete(r) ==
  /\ pc[r] = "deleting"
  /\ folders' = conf.object
  /\ files' = IF conf.object THEN files ELSE {}
  /\ visible' = IF conf.object THEN visible ELSE {}
  /\ Enter(r, "exit")
  /\ UNCHANGED <<conf, listed, checkpoints>>

Exit(r) ==
  /\ Released(r, "exit")
  /\ Goto(r, "done")
  /\ UNCHANGED <<conf, calls, dataset, listed, checkpoints>>

RankStep(r) ==
  \/ Begin(r) \/ EndBegin(r) \/ MakeFolders(r) \/ StartWriting(r) \/ WriteFile(r)
  \/ EndWriting(r) \/ SettleGuard(r) \/ WakeUp(r) \/ Settled(r) \/ StartListing(r)
  \/ ListFiles(r) \/ BuildMechanism(r) \/ Run(r) \/ Train(r) \/ StartSave(r)
  \/ Save(r) \/ EndSave(r) \/ CountCheckpoints(r) \/ StartLoad(r) \/ Load(r)
  \/ EndLoad(r) \/ ReduceMetrics(r) \/ Finalize(r) \/ StartDelete(r) \/ Delete(r) \/ Exit(r)

Failed == \E r \in Rank : pc[r] = "failed"

(* A rank that raises ends; the ranks that wait for it in a collective hang. *)
Stopped ==
  /\ Failed \/ \A r \in Rank : pc[r] = "done"
  /\ UNCHANGED vars

Next == Propagate \/ Stopped \/ \E r \in Rank : RankStep(r)

Spec ==
  /\ Init /\ [][Next]_vars
  /\ \A r \in Rank : WF_vars(RankStep(r))
  /\ WF_vars(Propagate)
-------------------------------------------------------------------------------
(* Properties *)

(* Types: a rank's place, and the rounds, files and checkpoints there can be. *)
TypeOK ==
  /\ conf \in Configurations
  /\ pc \in [Rank -> Places]
  /\ calls \in [Rank -> Nat]
  /\ folders \in BOOLEAN
  /\ files \subseteq Files
  /\ visible \subseteq files
  /\ listed \in [Rank -> SUBSET Files]
  /\ block \in [Rank -> 1 .. MaxCheckpoints \cup {1}]
  /\ saved \in [Rank -> SUBSET (1 .. MaxCheckpoints)]
  /\ timed \in [Rank -> SUBSET (1 .. MaxCheckpoints)]

(* Ranks that wait in the same collective called it from the same line of
   main.py, in the same round of _checkpoint_write and _checkpoint_read. *)
CollectivesAgree ==
  \A r, q \in Rank :
    pc[r] \in Sites /\ pc[q] \in Sites /\ calls[r] = calls[q]
      => pc[r] = pc[q] /\ block[r] = block[q]

(* A listing may miss files that have been written: an object store without a
   settle time, the default. *)
ListingMayLag == conf.generate /\ conf.train /\ conf.object /\ ~conf.settle

(* What the workload reads is there, or the job itself makes it. *)
InputsPresent ==
  /\ conf.train => conf.generate \/ conf.found
  /\ CheckpointOnly /\ conf.writes = 0 => conf.reads <= conf.earlier

(* No rank meets another's collective in its own, and no rank raises: every file
   is written into a folder that exists, every rank lists the whole dataset its
   own job has generated, although each writes only a part, and every checkpoint
   read is complete (main.py 193-256, 296-350, data_generator.py 207-254). *)
NoRankFails ==
  /\ CollectivesAgree
  /\ InputsPresent /\ ~ListingMayLag => ~Failed

(* A checkpoint is written or read only when every rank has finished the ones
   before, and read only when every rank has written its part
   (main.py 311-350).  With rank_sync the time a rank records for a checkpoint
   covers the writing of every rank (config.rst 527-530, main.py 324-327). *)
CheckpointsInOrder ==
  \A r, q \in Rank :
    /\ pc[r] = "save" => 1 .. block[r] - 1 \subseteq saved[q]
    /\ pc[r] = "load" => 1 .. block[r] \subseteq saved[q]
    /\ conf.rankSync => timed[r] \subseteq saved[q]

(* When a rank leaves the program the dataset is as its calls leave it: whole if
   it is kept, and gone from a file system if not.  On an object store a job with
   keep_files false keeps it, whole, too: get_node finds nothing under the name of
   a folder, so that rank 0 deletes nothing, after it has logged "Deleting dataset"
   (main.py 484-493) and against config.rst 321-323 (main.py 469-495). *)
DatasetAtExit ==
  \A r \in Rank : pc[r] = "done" =>
    files = IF conf.keep \/ conf.object \/ GenerateOnly
              THEN (IF conf.generate \/ conf.found THEN Files ELSE {})
              ELSE {}

AllAt(place) == \A r \in Rank : pc[r] = place

(* Every job ends, and with the same outcome on all ranks: no rank waits for ever
   in a collective for one that raised, unless a listing lagged. *)
EndsTogether == ~ListingMayLag => <>(AllAt("done") \/ AllAt("failed"))
===============================================================================
