-------------------------------- MODULE Dataset --------------------------------
(***************************************************************************)
(* The dataset on the storage over successive jobs: generation              *)
(* (data_generator/), the storage back ends (storage/), the listing and the *)
(* deletion of main.py.  A job that is killed leaves what it wrote, and the *)
(* next job on the same data folder finds it.                               *)
(*                                                                         *)
(* Storages: "file" (FileStorage), "s3" (ObjStoreLibStorage with s3dlio or  *)
(* minio) and "aistore".  Off the file system a file appears when its       *)
(* upload ends; on it, a file is there, and cut, as soon as it is opened.   *)
(*                                                                         *)
(* conf is a job's configuration: ranks, threads (write_threads), files and *)
(* folders (num_files, num_subfolders: of "train", of "valid"), format,     *)
(* samples (num_samples_per_file), generate, only (generate_only), train,   *)
(* eval, keep (keep_files).                                                 *)
(***************************************************************************)
EXTENDS Naturals, Sequences, FiniteSetsExt

CONSTANTS Configurations, Storages,
          MaxJobs,      \* jobs run one after the other
          MaxFaults     \* requests of a job that the object store fails

Kinds   == {"train", "valid"}
Flat    == <<>>
Formats == {"npy", "npz", "csv", "hdf5", "jpeg", "png", "synthetic", "tfrecord",
            "parquet", "indexed_binary"}

ConfigurationType ==
  [ranks: Nat \ {0}, threads: Nat, files: [Kinds -> Nat], folders: [Kinds -> Nat],
   format: Formats, samples: Nat \ {0}, generate: BOOLEAN, only: BOOLEAN,
   train: BOOLEAN, eval: BOOLEAN, keep: BOOLEAN]

ASSUME DatasetAssumption ==
  /\ Configurations \subseteq ConfigurationType
  /\ Storages \subseteq {"file", "s3", "aistore"}
  /\ MaxJobs \in Nat /\ MaxFaults \in Nat

VARIABLES
  storage,    \* constant in a behaviour
  jobs,       \* jobs begun
  conf,       \* of the job that runs
  phase,      \* where each rank is, "off" between two jobs
  begun,      \* files of its share each rank has begun
  active,     \* files a rank is writing: <<number, "data">> or <<number, "index">>
  store,      \* the files: name -> samples in it, Cut if it is not complete
  index,      \* the DALI index files: their names -> records listed, Cut likewise
  dirs,       \* the directories under the data folder: <<kind>>, <<kind, folder>>
  listed,     \* the files each rank lists, file_list_train and file_list_eval
  faults,     \* requests of this job the store failed
  lost,       \* history: files of this job whose upload was lost without an error
  fresh,      \* history: the data folder was empty when this job began
  killed,     \* history: a job was killed since the data folder was last empty
  written     \* history: files begun by earlier jobs since it was last empty

job     == <<jobs, conf>>
history == <<lost, fresh, killed, written>>
vars    == <<storage, job, phase, begun, active, store, index, dirs, listed, faults, history>>

Rank  == 0..conf.ranks - 1
Local == storage = "file"
Cut   == 0

(* What each generator writes: the samples of a file, whether the files of a
   rank go through the thread pool of _generate_files, whether it can write to
   an object store, and whether it writes a DALI index file. *)
NPYGenerator  == [samples |-> conf.samples, pooled |-> TRUE, objects |-> TRUE, indexed |-> FALSE]
NPZGenerator  == [samples |-> conf.samples, pooled |-> TRUE, objects |-> TRUE, indexed |-> FALSE]
CSVGenerator  == [samples |-> conf.samples, pooled |-> TRUE, objects |-> TRUE, indexed |-> FALSE]
JPEGGenerator == [samples |-> 1, pooled |-> TRUE, objects |-> TRUE, indexed |-> FALSE]
PNGGenerator  == [samples |-> 1, pooled |-> TRUE, objects |-> TRUE, indexed |-> FALSE]
SyntheticGenerator == [samples |-> 1, pooled |-> TRUE, objects |-> TRUE, indexed |-> FALSE]
HDF5Generator    == [samples |-> conf.samples, pooled |-> FALSE, objects |-> TRUE, indexed |-> FALSE]
ParquetGenerator == [samples |-> conf.samples, pooled |-> FALSE, objects |-> TRUE, indexed |-> FALSE]
TFRecordGenerator == [samples |-> conf.samples, pooled |-> FALSE, objects |-> TRUE, indexed |-> Local]
IndexedBinaryGenerator ==   \* more files than ranks: the files are not shared
  [samples |-> conf.samples, pooled |-> FALSE, objects |-> FALSE, indexed |-> FALSE]

Generator ==
  CASE conf.format = "npy"  -> NPYGenerator
    [] conf.format = "npz"  -> NPZGenerator
    [] conf.format = "csv"  -> CSVGenerator
    [] conf.format = "jpeg" -> JPEGGenerator
    [] conf.format = "png"  -> PNGGenerator
    [] conf.format = "synthetic" -> SyntheticGenerator
    [] conf.format = "hdf5" -> HDF5Generator
    [] conf.format = "parquet"   -> ParquetGenerator
    [] conf.format = "tfrecord"  -> TFRecordGenerator
    [] conf.format = "indexed_binary" -> IndexedBinaryGenerator

--------------------------------------------------------------------------------
(* Names and shares *)

Digits(n) == Cardinality({k \in 1..n : 10^k <= n}) + 1      \* len(str(n))

FolderOf(kind, k) ==
  LET n == conf.folders[kind] IN IF n > 1 THEN <<k % n, Digits(n)>> ELSE Flat

Name(kind, k) ==
  [kind |-> kind, folder |-> FolderOf(kind, k), number |-> k,
   of |-> conf.files[kind], format |-> conf.format]

Total == conf.files["train"] + conf.files["valid"]

FileName(i) ==
  IF i < conf.files["train"] THEN Name("train", i)
                             ELSE Name("valid", i - conf.files["train"])

Dataset == {FileName(i) : i \in 0..Total - 1}

(* index/train/<base name>.idx or index/valid/<base name>.idx, whatever sub-folder
   the file is in *)
IndexName(f) == [f EXCEPT !.folder = Flat]

Share(r) == {i \in 0..Total - 1 : i % conf.ranks = r}

Workers(r) ==
  IF Generator.pooled THEN Max({1, Min({conf.threads, Cardinality(Share(r))})}) ELSE 1

NamePrecedesBySize(f, g) ==   \* mutant: the size comes first in a name
  f.of < g.of \/ (f.of = g.of /\ f.number < g.number)

(* prefix_<number>_of_<of>.<format>, numbers padded to the digits of <of>: the
   order of the names as strings. *)
NamePrecedes(f, g) ==
  LET w == Min({Digits(f.of), Digits(g.of)})
      x == f.number \div 10^(Digits(f.of) - w)
      y == g.number \div 10^(Digits(g.of) - w)
  IN  \/ x < y
      \/ x = y /\ Digits(f.of) > Digits(g.of)
      \/ x = y /\ Digits(f.of) = Digits(g.of) /\ f.of < g.of

(* A sub-folder's number sorts before a file's prefix. *)
PathPrecedes(f, g) ==
  \/ f.folder # Flat /\ g.folder = Flat
  \/ f.folder # g.folder /\ g.folder # Flat /\ f.folder # Flat /\ f.folder[1] < g.folder[1]
  \/ f.folder = g.folder /\ NamePrecedes(f, g)

(* Local sub-folders are sorted by base name, every other listing by path. *)
Precedes(f, g) ==
  IF Local /\ f.folder # Flat THEN NamePrecedes(f, g) ELSE PathPrecedes(f, g)

(* file_list[:n] of the sorted list *)
FirstFiles(n, files) ==
  IF Cardinality(files) <= n THEN {files}
  ELSE {first \in kSubset(n, files) : \A f \in first, g \in files \ first : ~Precedes(g, f)}

--------------------------------------------------------------------------------
(* Storage *)

Put(f, k, v) == [x \in DOMAIN f \cup {k} |-> IF x = k THEN v ELSE f[x]]

SubFolders(kind) == {d \in dirs : Len(d) = 2 /\ d[1] = kind}

FlatFiles(kind)   == {f \in DOMAIN store : f.kind = kind /\ f.folder = Flat}
InFolders(kind)   == {f \in DOMAIN store : f.kind = kind /\ f.folder # Flat}
OfFormat(files)   == {f \in files : f.format = conf.format}

Found(files) == [ok |-> TRUE, files |-> files]
Raised       == [ok |-> FALSE, files |-> {}]

(* FileStorage: os.listdir gives the entries in no order, and the first one
   decides whether the folder is taken to hold sub-folders. *)
FileListings(kind) ==
  IF <<kind>> \notin dirs THEN {Raised}
  ELSE IF SubFolders(kind) = {} /\ FlatFiles(kind) = {} THEN {Found({})}
  ELSE {IF conf.folders[kind] = Cardinality(SubFolders(kind)) + Cardinality(FlatFiles(kind))
        THEN Found(OfFormat(InFolders(kind))) ELSE Raised : d \in SubFolders(kind)}
       \cup
       {IF conf.folders[kind] = 0 THEN Found(OfFormat(FlatFiles(kind))) ELSE Raised
          : f \in FlatFiles(kind)}

(* Object stores list every object under the prefix, have no directories, and
   take a failed request for an empty folder. *)
ObjectListing(kind, seen) ==
  IF seen = {} THEN Found({})
  ELSE IF conf.folders[kind] = 0 THEN Found(OfFormat(seen)) ELSE Raised

(* list_objects logs an error and returns the keys it has got by then, in their
   order; AIStoreStorage.walk_node returns none. *)
ObjStoreListings(kind, failed) ==
  LET all == {f \in DOMAIN store : f.kind = kind}
  IN  IF failed
      THEN {ObjectListing(kind, seen) : seen \in
              {first \in SUBSET all : \A f \in first, g \in all \ first : ~PathPrecedes(g, f)}}
      ELSE {ObjectListing(kind, all)}

AIStoreListings(kind, failed) ==
  {ObjectListing(kind, IF failed THEN {} ELSE {f \in DOMAIN store : f.kind = kind})}

Listings(kind, failed) ==
  CASE storage = "file"    -> FileListings(kind)
    [] storage = "s3"      -> ObjStoreListings(kind, failed)
    [] storage = "aistore" -> AIStoreListings(kind, failed)

--------------------------------------------------------------------------------
(* Generation *)

Goto(r, p) == phase' = [phase EXCEPT ![r] = p]

Init ==
  /\ storage \in Storages
  /\ jobs = 0
  /\ conf \in Configurations
  /\ phase = [r \in Rank |-> "off"]
  /\ begun = [r \in Rank |-> 0]
  /\ active = [r \in Rank |-> {}]
  /\ listed = [r \in Rank |-> {}]
  /\ store = << >> /\ index = << >> /\ dirs = {}
  /\ faults = 0 /\ lost = {} /\ fresh = TRUE /\ killed = FALSE /\ written = {}

Off == \A r \in Rank : phase[r] = "off"

StartJob ==
  /\ Off /\ jobs < MaxJobs
  /\ jobs' = jobs + 1
  /\ \E c \in Configurations :
       /\ conf' = c
       /\ phase' = [r \in 0..c.ranks - 1 |->
            IF c.generate THEN IF r = 0 THEN "folders" ELSE "ready"
            ELSE IF c.train THEN "list" ELSE "listed"]
       /\ begun'  = [r \in 0..c.ranks - 1 |-> 0]
       /\ active' = [r \in 0..c.ranks - 1 |-> {}]
       /\ listed' = [r \in 0..c.ranks - 1 |-> {}]
  /\ faults' = 0 /\ lost' = {}
  /\ fresh' = (store = << >> /\ index = << >> /\ dirs = {})
  /\ killed' = (killed /\ ~fresh')
  /\ written' = IF fresh' THEN {} ELSE written
  /\ UNCHANGED <<storage, store, index, dirs>>

(* create_node: object stores have no directories to create *)
MakeFolders ==
  /\ phase[0] = "folders"
  /\ Goto(0, "ready")
  /\ dirs' = IF ~Local THEN dirs
             ELSE dirs \cup {<<kind>> : kind \in Kinds} \cup
                  UNION {{<<kind, FolderOf(kind, k)>> : k \in 0..conf.folders[kind] - 1}
                           : kind \in {x \in Kinds : conf.folders[x] > 1}}
  /\ UNCHANGED <<storage, job, begun, active, store, index, listed, faults, history>>

StartWritingAtOnce(r) ==   \* mutant: no barrier after the folders
  /\ phase[r] = "ready"
  /\ Goto(r, "write")
  /\ UNCHANGED <<storage, job, begun, active, store, index, dirs, listed, faults, history>>

(* The barrier of generate(): the folders are there before the files. *)
StartWriting(r) ==
  /\ phase[r] = "ready"
  /\ phase[0] # "folders"
  /\ Goto(r, "write")
  /\ UNCHANGED <<storage, job, begun, active, store, index, dirs, listed, faults, history>>

FolderThere(f) ==
  IF f.folder = Flat THEN <<f.kind>> \in dirs ELSE <<f.kind, f.folder>> \in dirs

CanWrite(f) == IF Local THEN FolderThere(f) ELSE Generator.objects

Writing(r) == phase[r] = "write" \/ phase[r] = "failing"

MoreFiles(r) == begun[r] < Cardinality(Share(r))

(* The pool drops what it has not begun once a file has failed, but may begin
   more before it knows. *)
WriteBegin(r) ==
  /\ Writing(r)
  /\ phase[r] = "failing" => Workers(r) > 1
  /\ MoreFiles(r)
  /\ Cardinality(active[r]) < Workers(r)
  /\ LET i == r + begun[r] * conf.ranks IN
       /\ begun' = [begun EXCEPT ![r] = @ + 1]
       /\ \/ /\ CanWrite(FileName(i))
             /\ active' = [active EXCEPT ![r] = @ \cup {<<i, "data">>}]
             /\ store' = IF Local THEN Put(store, FileName(i), Cut) ELSE store
             /\ UNCHANGED phase
          \/ ~CanWrite(FileName(i)) /\ Goto(r, "failing") /\ UNCHANGED <<active, store>>
  /\ UNCHANGED <<storage, job, index, dirs, listed, faults, history>>

NeedsIndexOfRankZero(f) ==   \* mutant: only rank 0 writes index files
  Generator.indexed /\ IndexName(f) \notin DOMAIN index /\ f.number % conf.ranks = 0

NeedsIndex(f) == Generator.indexed /\ IndexName(f) \notin DOMAIN index

WriteEnd(r, i) ==
  LET f == FileName(i) IN
  /\ <<i, "data">> \in active[r]
  /\ store' = Put(store, f, Generator.samples)
  /\ IF NeedsIndex(f)
     THEN /\ index' = Put(index, IndexName(f), Cut)
          /\ active' = [active EXCEPT ![r] = (@ \ {<<i, "data">>}) \cup {<<i, "index">>}]
     ELSE /\ active' = [active EXCEPT ![r] = @ \ {<<i, "data">>}]
          /\ UNCHANGED index
  /\ UNCHANGED <<storage, job, phase, begun, dirs, listed, faults, history>>

(* create_index_file goes through the file it has just written *)
IndexEnd(r, i) ==
  /\ <<i, "index">> \in active[r]
  /\ index' = Put(index, IndexName(FileName(i)), store[FileName(i)])
  /\ active' = [active EXCEPT ![r] = @ \ {<<i, "index">>}]
  /\ UNCHANGED <<storage, job, phase, begun, store, dirs, listed, faults, history>>

(* A failed upload: AIStoreStorage.put_data returns False, which no caller
   looks at, the S3 libraries raise. *)
UploadFails(r, i) ==
  /\ ~Local /\ faults < MaxFaults
  /\ <<i, "data">> \in active[r]
  /\ faults' = faults + 1
  /\ active' = [active EXCEPT ![r] = @ \ {<<i, "data">>}]
  /\ IF storage = "aistore" THEN lost' = lost \cup {FileName(i)} /\ UNCHANGED phase
                            ELSE Goto(r, "failing") /\ UNCHANGED lost
  /\ UNCHANGED <<storage, job, begun, store, index, dirs, listed, fresh, killed, written>>

WriteDone(r) ==
  /\ active[r] = {}
  /\ \/ phase[r] = "write" /\ begun[r] = Cardinality(Share(r)) /\ Goto(r, "wrote")
     \/ phase[r] = "failing" /\ Goto(r, "failed")
  /\ UNCHANGED <<storage, job, begun, active, store, index, dirs, listed, faults, history>>

Wrote(r) == phase[r] \in {"wrote", "list", "listed", "refused"}

GeneratedAlone(r) ==   \* mutant: no barrier after the generation
  /\ phase[r] = "wrote"
  /\ Goto(r, IF conf.train THEN "list" ELSE "listed")
  /\ UNCHANGED <<storage, job, begun, active, store, index, dirs, listed, faults, history>>

(* The barrier of initialize() after the generation *)
Generated(r) ==
  /\ phase[r] = "wrote"
  /\ \A q \in Rank : Wrote(q)
  /\ Goto(r, IF conf.train THEN "list" ELSE "listed")
  /\ UNCHANGED <<storage, job, begun, active, store, index, dirs, listed, faults, history>>

--------------------------------------------------------------------------------
(* Listing and deletion *)

TooFew(train, valid) ==
  \/ ~conf.only /\ conf.files["train"] > Cardinality(train)
  \/ conf.eval /\ conf.files["valid"] > Cardinality(valid)

ListDataset(r) ==
  /\ phase[r] = "list"
  /\ \E failed \in SUBSET Kinds :
       /\ Local => failed = {}
       /\ faults + Cardinality(failed) <= MaxFaults
       /\ faults' = faults + Cardinality(failed)
       /\ \E train \in Listings("train", "train" \in failed),
             valid \in Listings("valid", "valid" \in failed) :
            IF train.ok /\ valid.ok /\ ~TooFew(train.files, valid.files)
            THEN /\ \E t \in FirstFiles(conf.files["train"], train.files),
                       v \in FirstFiles(conf.files["valid"], valid.files) :
                      listed' = [listed EXCEPT ![r] = t \cup v]
                 /\ Goto(r, "listed")
            ELSE Goto(r, "refused") /\ UNCHANGED listed
  /\ UNCHANGED <<storage, job, begun, active, store, index, dirs, history>>

(* get_node of the data folder is DIRECTORY on the file system and nothing on
   an object store, which therefore keeps the files. *)
Deletes == ~conf.only /\ ~conf.keep /\ Local /\ dirs # {}

Ended ==
  /\ phase' = [r \in Rank |-> "off"]
  /\ active' = [r \in Rank |-> {}]
  /\ written' = written \cup (IF conf.generate THEN Dataset ELSE {})

FinishJob ==
  /\ \A r \in Rank : phase[r] = "listed"
  /\ Ended
  /\ IF Deletes THEN store' = << >> /\ index' = << >> /\ dirs' = {}
                ELSE UNCHANGED <<store, index, dirs>>
  /\ UNCHANGED <<storage, job, begun, listed, faults, lost, fresh, killed>>

(* The job dies, at any time, or mpirun ends it because a rank has raised. *)
Kill ==
  /\ ~Off
  /\ Ended
  /\ killed' = TRUE
  /\ UNCHANGED <<storage, job, begun, store, index, dirs, listed, faults, lost, fresh>>

Next ==
  \/ StartJob \/ FinishJob \/ Kill
  \/ ~Off /\ MakeFolders
  \/ \E r \in Rank :
       \/ StartWriting(r) \/ WriteBegin(r) \/ WriteDone(r) \/ Generated(r) \/ ListDataset(r)
       \/ \E i \in Share(r) : WriteEnd(r, i) \/ IndexEnd(r, i) \/ UploadFails(r, i)

Spec == Init /\ [][Next]_vars
--------------------------------------------------------------------------------
(* Properties *)

HasEntries(kind) == conf.files[kind] > 0 \/ (Local /\ conf.folders[kind] > 1)

(* The sub-folders a dataset can have been generated in and be listed again. *)
LayoutListed ==
  \A kind \in Kinds : HasEntries(kind) =>
     IF Local THEN conf.folders[kind] # 1 ELSE conf.folders[kind] = 0

(* What a job generates into an empty data folder is what it then lists.
   - With no failed request, the generation raises no error, and every rank lists
     exactly the dataset if the layout is one the listing understands: no
     sub-folders, or on a file system two or more.  With another layout every
     rank raises: after the generation of one sub-folder, which writes to none,
     and of any sub-folder on an object store.
   - An upload that AIStoreStorage.put_data drops without an error, or a listing
     that a back end answers with nothing or with its first part, is never taken
     for the dataset: a rank lists all of it or raises "Not enough training dataset", and
     likewise for the evaluation if the job evaluates (main.py 195-261). *)
GeneratedIsListed ==
  fresh /\ conf.generate =>
    \A r \in Rank :
      /\ faults = 0 /\ Generator.objects =>
           /\ phase[r] \notin {"failing", "failed"}
           /\ phase[r] = "refused" => ~LayoutListed
           /\ phase[r] = "listed" /\ conf.train => LayoutListed /\ listed[r] = Dataset
      /\ conf.train /\ ~conf.only /\ phase[r] = "listed" =>
           {f \in Dataset : f.kind = "train" \/ conf.eval} \subseteq listed[r]

(* No rank lists a file that is not complete, or a file of its own dataset that
   holds what an earlier job wrote, when its job has generated the dataset: the
   barrier after the generation and the truncation of a file that is there see
   to it, whatever an earlier job left.  Only an upload that was lost leaves the
   old file.  A job that does not generate may find a cut file, on a file system
   and after a job was killed. *)
ListedFilesWhole ==
  \A r \in Rank : \A f \in listed[r] : phase[r] = "listed" =>
    /\ store[f] = Cut => Local /\ killed /\ ~(conf.generate /\ f \in Dataset)
    /\ conf.generate /\ f \in Dataset \ lost => store[f] = Generator.samples

(* The files of an older dataset of another size in the same folder: the listing
   takes the first num_files_train names, and img_0_of_3 comes before
   img_1_of_2.  A job reads its own training files if and only if no file of
   another size has a smaller number than its last one, where the sizes have the same
   number of digits. *)
LeftoversRead ==
  \A r \in Rank :
    LET n        == conf.files["train"]
        train    == OfFormat(FlatFiles("train"))
        leftover == {f \in train : f.of # n}
    IN  phase[r] = "listed" /\ conf.generate /\ conf.train /\ ~conf.only
          /\ Local /\ conf.folders["train"] = 0
          /\ (\A f \in leftover : Digits(f.of) = Digits(n)) =>
            ( {f \in Dataset : f.kind = "train"} \subseteq listed[r]
              <=> \A f \in leftover : f.number >= n - 1 )

(* Index files that an earlier job may have left *)
OlderIndexes == {IndexName(f) : f \in written}

(* The DALI index of a TFRecord file is written only if there is none of its base
   name, in whichever sub-folder the file was (tf_generator.py 107-115): a listed
   file's index is complete and counts its records unless an earlier job whose
   dataset has not been deleted has begun a file of that base name. *)
IndexFollowsFile ==
  \A r \in Rank : phase[r] = "listed" /\ conf.generate /\ conf.format = "tfrecord" /\ Local =>
    \A f \in Dataset : IndexName(f) \notin OlderIndexes =>
      IndexName(f) \in DOMAIN index /\ index[IndexName(f)] = store[f]
================================================================================
