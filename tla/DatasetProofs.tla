----------------------------- MODULE DatasetProofs -----------------------------
(***************************************************************************)
(* What a job generates and what it lists, for every sequence of jobs and    *)
(* configurations, on each storage, with a kill at any point and any number   *)
(* of failed requests.                                                       *)
(*                                                                         *)
(* The invariant IInv follows the files by the numbers that the ranks have    *)
(* begun (Begun), which NthOfShare shows to be their shares:                  *)
(*   PhaseInv    a rank lists only after all have written their shares        *)
(*   WrittenInv  a begun file that is not being written is there, or lost     *)
(*   CutInv      a cut file is being written, or was left by a killed job     *)
(*   IndexInv    whose an index file is, and that it is complete              *)
(*   FreshInv    what is in a data folder that the job has found empty        *)
(* ListedAreWhole and IndexFollows follow from it.  GeneratedListed adds what  *)
(* the listing makes of the files (KindIsListed, for one kind of them).       *)
(***************************************************************************)
EXTENDS Dataset, FiniteSetTheorems, TLAPS

-------------------------------------------------------------------------------
(* The shares and the names *)

(* What a rank's files are counted and named by, as functions. *)
ShareSize == [r \in Rank |-> Cardinality(Share(r))]
Names     == [i \in Nat |-> FileName(i)]
Indexes   == [i \in Nat |-> IndexName(FileName(i))]

(* A number is the only one of its rank with its quotient. *)
LEMMA OneQuotient ==
  ASSUME NEW R \in Nat \ {0}, NEW r \in 0 .. R - 1, NEW s \in 0 .. R - 1,
         NEW n \in Nat, NEW m \in Nat, r + n * R = s + m * R
  PROVE  r = s /\ n = m
<1>1. \A x, y \in Nat : n * R \in Nat /\ m * R \in Nat
  OBVIOUS
<1>2. CASE n >= m + 1
  <2>1. PICK d \in Nat : n = m + 1 + d
    BY <1>2, n - m - 1 \in Nat
  <2>2. d * R \in Nat /\ n * R = m * R + R + d * R /\ m * R \in Nat
    BY <2>1
  <2> QED
    BY <2>2
<1>3. CASE m >= n + 1
  <2>1. PICK d \in Nat : m = n + 1 + d
    BY <1>3, m - n - 1 \in Nat
  <2>2. d * R \in Nat /\ m * R = n * R + R + d * R /\ n * R \in Nat
    BY <2>1
  <2> QED
    BY <2>2
<1>4. CASE n = m
  <2>1. n * R \in Nat
    OBVIOUS
  <2> QED
    BY <1>4, <2>1
<1> QED
  BY <1>2, <1>3, <1>4

(* The quotient and the remainder of a number. *)
LEMMA Division ==
  ASSUME NEW R \in Nat \ {0}, NEW i \in Nat
  PROVE  i \div R \in Nat /\ i % R \in 0 .. R - 1 /\ i = (i % R) + (i \div R) * R
<1>1. i \div R \in Nat /\ i % R \in 0 .. R - 1 /\ i = R * (i \div R) + (i % R)
  OBVIOUS
<1>2. \A q \in Nat : R * q = q * R /\ q * R \in Nat
  OBVIOUS
<1> QED
  BY <1>1, <1>2

(* The n-th file of a rank's share is counted back to the rank and to n. *)
LEMMA Remainder ==
  ASSUME NEW R \in Nat \ {0}, NEW r \in 0 .. R - 1, NEW n \in Nat
  PROVE  r + n * R \in Nat /\ (r + n * R) % R = r /\ (r + n * R) \div R = n
<1> DEFINE i == r + n * R
<1>1. i \in Nat
  <2>1. n * R \in Nat
    OBVIOUS
  <2> QED
    BY <2>1
<1> HIDE DEF i
<1>2. /\ i \div R \in Nat /\ i % R \in 0 .. R - 1 /\ i = (i % R) + (i \div R) * R
  BY <1>1, Division
<1>3. i = r + n * R
  BY DEF i
<1>4. i % R = r /\ i \div R = n
  BY <1>2, <1>3, OneQuotient
<1> QED
  BY <1>1, <1>4 DEF i

(* The files of a rank are r, r + ranks, r + 2 * ranks and so on, as many as its
   share has (Share; WriteBegin takes them in this order). *)
LEMMA NthOfShare ==
  ASSUME conf \in ConfigurationType, NEW r \in Rank
  PROVE  /\ IsFiniteSet(Share(r)) /\ ShareSize[r] \in Nat
         /\ \A n \in Nat : n < ShareSize[r] => r + n * conf.ranks \in Share(r)
         /\ \A i \in Share(r) : \E n \in 0 .. ShareSize[r] - 1 : i = r + n * conf.ranks
<1> DEFINE R == conf.ranks
           N == Total
<1>1. R \in Nat \ {0} /\ r \in 0 .. R - 1 /\ N \in Nat
  BY DEF ConfigurationType, Rank, Total, Kinds
<1> DEFINE S == Share(r)
<1>2. S = {i \in 0 .. N - 1 : i % R = r}
  BY DEF Share
<1> HIDE DEF R, N, S
<1>3. IsFiniteSet(S) /\ Cardinality(S) \in Nat
  <2>1. 0 \in Int /\ N - 1 \in Int
    BY <1>1
  <2>2. IsFiniteSet(0 .. N - 1)
    BY <2>1, FS_Interval
  <2>3. S \in SUBSET (0 .. N - 1)
    BY <1>2
  <2> QED
    BY <2>2, <2>3, FS_Subset, FS_CardinalityType
(* A set of as many numbers as lie below n has at most n elements, and n if all
   numbers below n are there. *)
<1>4. \A n \in Nat : IsFiniteSet(0 .. n - 1) /\ Cardinality(0 .. n - 1) = n
  <2> TAKE n \in Nat
  <2>1. 0 \in Int /\ n - 1 \in Int /\ (n - 1) - 0 + 1 = n /\ (0 > n - 1 => n = 0)
    OBVIOUS
  <2>2. /\ IsFiniteSet(0 .. n - 1)
        /\ Cardinality(0 .. n - 1) = IF 0 > n - 1 THEN 0 ELSE (n - 1) - 0 + 1
    BY <2>1, FS_Interval
  <2> QED
    BY <2>1, <2>2
<1>5. ASSUME NEW n \in Nat, n < Cardinality(S) PROVE r + n * R \in S
  <2> SUFFICES ASSUME r + n * R \notin S PROVE FALSE
    OBVIOUS
  <2>1. r + n * R \in Nat /\ (r + n * R) % R = r
    BY <1>1, Remainder
  <2>2. r + n * R >= N
    BY <1>1, <1>2, <2>1
  <2> DEFINE f == [i \in S |-> i \div R]
  <2>3. ASSUME NEW i \in S PROVE i \div R \in 0 .. n - 1
    <3>1. i \in Nat /\ i < N /\ i % R = r
      BY <1>1, <1>2
    <3>2. i \div R \in Nat /\ i = r + (i \div R) * R
      BY <1>1, <3>1, Division
    <3>3. CASE i \div R >= n
      <4>1. PICK q \in Nat, d \in Nat : q = i \div R /\ q = n + d
        BY <3>2, <3>3, (i \div R) - n \in Nat
      <4>2. q * R = n * R + d * R /\ d * R \in Nat /\ n * R \in Nat
        BY <1>1, <4>1
      <4> QED
        BY <1>1, <2>2, <3>1, <3>2, <4>1, <4>2
    <3> QED
      BY <3>2, <3>3
  <2>4. ASSUME NEW i \in S, NEW j \in S, i \div R = j \div R PROVE i = j
    <3>1. i \in Nat /\ j \in Nat /\ i % R = r /\ j % R = r
      BY <1>1, <1>2
    <3>2. i = r + (i \div R) * R /\ j = r + (j \div R) * R
      BY <1>1, <3>1, Division
    <3> QED
      BY <2>4, <3>2
  <2>5. f \in Injection(S, 0 .. n - 1)
    BY <2>3, <2>4 DEF Injection, IsInjective
  <2> HIDE DEF f
  <2>6. Cardinality(S) <= n
    BY <1>4, <2>5, FS_Injection
  <2> QED
    BY <1>3, <1>5, <2>6
<1>6. ASSUME NEW i \in S PROVE \E n \in 0 .. Cardinality(S) - 1 : i = r + n * R
  <2>1. i \in Nat /\ i < N /\ i % R = r
    BY <1>1, <1>2
  <2>2. PICK q \in Nat : i = r + q * R
    BY <1>1, <2>1, Division
  <2> DEFINE f == [n \in 0 .. (q + 1) - 1 |-> r + n * R]
  <2>3. ASSUME NEW n \in 0 .. (q + 1) - 1 PROVE r + n * R \in S
    <3>1. PICK d \in Nat : q = n + d
      BY q - n \in Nat
    <3>2. q * R = n * R + d * R /\ d * R \in Nat /\ n * R \in Nat
      BY <1>1, <3>1
    <3>3. r + n * R \in Nat /\ (r + n * R) % R = r
      BY <1>1, Remainder
    <3> QED
      BY <1>1, <1>2, <2>1, <2>2, <3>2, <3>3
  <2>4. ASSUME NEW n \in 0 .. (q + 1) - 1, NEW m \in 0 .. (q + 1) - 1, r + n * R = r + m * R
        PROVE  n = m
    BY <1>1, <2>4, OneQuotient
  <2>5. f \in Injection(0 .. (q + 1) - 1, S)
    BY <2>3, <2>4 DEF Injection, IsInjective
  <2> HIDE DEF f
  <2>6. Cardinality(0 .. (q + 1) - 1) <= Cardinality(S)
    BY <1>3, <2>5, FS_Injection
  <2>7. Cardinality(0 .. (q + 1) - 1) = q + 1
    BY <1>4, q + 1 \in Nat
  <2>8. q \in 0 .. Cardinality(S) - 1
    BY <1>3, <2>6, <2>7
  <2> QED
    BY <2>2, <2>8
<1>7. ShareSize[r] = Cardinality(S)
  BY DEF ShareSize, S
<1> QED
  BY <1>3, <1>5, <1>6, <1>7 DEF R, S

(* No two files of a dataset have the same name. *)
LEMMA NamesDiffer ==
  ASSUME conf \in ConfigurationType, NEW i \in Nat, NEW j \in Nat, FileName(i) = FileName(j)
  PROVE  i = j
<1>1. conf.files["train"] \in Nat
  BY DEF ConfigurationType, Kinds
<1>2. FileName(i).number = FileName(j).number /\ FileName(i).kind = FileName(j).kind
  OBVIOUS
<1> QED
  BY <1>1, <1>2 DEF FileName, Name

(* Nor have their index files. *)
LEMMA IndexesDiffer ==
  ASSUME conf \in ConfigurationType, NEW i \in Nat, NEW j \in Nat,
         IndexName(FileName(i)) = IndexName(FileName(j))
  PROVE  i = j
<1>1. conf.files["train"] \in Nat
  BY DEF ConfigurationType, Kinds
<1>2. \A k \in Nat : /\ IndexName(FileName(k)).number = FileName(k).number
                     /\ IndexName(FileName(k)).kind = FileName(k).kind
  BY DEF IndexName, FileName, Name
<1>3. FileName(i).number = FileName(j).number /\ FileName(i).kind = FileName(j).kind
  BY <1>2
<1> QED
  BY <1>1, <1>3 DEF FileName, Name

(* Every generator writes at least a sample into a file. *)
LEMMA SamplesThere ==
  ASSUME conf \in ConfigurationType
  PROVE  Generator.samples \in Nat \ {0}
<1>1. conf.samples \in Nat \ {0} /\ conf.format \in Formats
  BY DEF ConfigurationType
<1> QED
  BY <1>1 DEF Generator, Formats, NPYGenerator, NPZGenerator, CSVGenerator, JPEGGenerator,
     PNGGenerator, SyntheticGenerator, HDF5Generator, ParquetGenerator, TFRecordGenerator,
     IndexedBinaryGenerator
-------------------------------------------------------------------------------
(* The inductive invariant *)

Phases == {"off", "folders", "ready", "write", "failing", "failed", "wrote",
           "list", "listed", "refused"}

Types ==
  /\ storage \in Storages /\ conf \in ConfigurationType
  /\ phase \in [Rank -> Phases]
  /\ begun \in [Rank -> Nat]
  /\ active \in [Rank -> SUBSET (Nat \X {"data", "index"})]
  /\ DOMAIN listed = Rank
  /\ faults \in Nat

(* The files that each rank has begun. *)
Begun == [r \in Rank |-> {r + n * conf.ranks : n \in 0 .. begun[r] - 1}]

Listing(r) == phase[r] \in {"list", "listed", "refused"}

(* Where a rank can be, what it has begun and is writing there.  A rank leaves the
   barrier of the generation only when all ranks have written their shares. *)
PhaseInv ==
  /\ Off \/ \A r \in Rank : phase[r] # "off"
  /\ ~conf.generate => \A r \in Rank : phase[r] = "off" \/ Listing(r)
  /\ \A r \in Rank :
       /\ begun[r] <= ShareSize[r]
       /\ \A w \in active[r] : w[1] \in Begun[r]
       /\ \A i \in Begun[r] : ~(<<i, "data">> \in active[r] /\ <<i, "index">> \in active[r])
       /\ phase[r] \notin {"write", "failing"} => active[r] = {}
       /\ conf.generate /\ Wrote(r) => begun[r] = ShareSize[r]
       /\ conf.generate /\ Listing(r) => \A q \in Rank : Wrote(q)

Sound(r) == phase[r] \notin {"off", "failing", "failed"}

(* A file that a rank has written is there with all its samples, unless its upload
   was lost. *)
WrittenInv ==
  conf.generate => \A r \in Rank : Sound(r) =>
    \A i \in Begun[r] : <<i, "data">> \notin active[r] =>
      \/ Names[i] \in lost
      \/ Names[i] \in DOMAIN store /\ store[Names[i]] = Generator.samples

(* A file that is not complete is being written, or is left from a job that was
   killed. *)
CutInv ==
  \A f \in DOMAIN store : store[f] = Cut =>
    Local /\ (killed \/ \E r \in Rank : \E i \in Begun[r] :
                          <<i, "data">> \in active[r] /\ f = Names[i])

LostInv   == lost # {} => storage = "aistore"
ListedInv == \A r \in Rank : phase[r] # "off" => listed[r] \subseteq DOMAIN store

DataInv == WrittenInv /\ CutInv /\ LostInv /\ ListedInv

(* An index file that no earlier job has left was begun by the rank that has
   written its file, *)
OwnIndex ==
  \A x \in DOMAIN index : x \notin OlderIndexes =>
    /\ conf.generate /\ ~Off
    /\ \E r \in Rank : \E i \in Begun[r] : x = Indexes[i] /\ <<i, "data">> \notin active[r]

(* and is complete when that rank is done with it. *)
IndexWritten ==
  conf.generate /\ conf.format = "tfrecord" /\ Local => \A r \in Rank : Sound(r) =>
    \A i \in Begun[r] : <<i, "data">> \notin active[r] /\ Indexes[i] \notin OlderIndexes =>
      /\ Indexes[i] \in DOMAIN index
      /\ <<i, "index">> \in active[r] \/ index[Indexes[i]] = store[Names[i]]

IndexInv == OwnIndex /\ IndexWritten

(* The directories that MakeFolders makes in an empty data folder. *)
MadeDirs ==
  {<<kind>> : kind \in Kinds} \cup
  UNION {{<<kind, FolderOf(kind, k)>> : k \in 0 .. conf.folders[kind] - 1}
           : kind \in {x \in Kinds : conf.folders[x] > 1}}

(* What a job that began with an empty data folder finds there is its own, and no
   file is begun before the folders are made. *)
FreshInv ==
  /\ ~Local => dirs = {}
  /\ phase[0] = "folders" => \A r \in Rank : phase[r] \in {"folders", "ready"}
  /\ fresh /\ conf.generate /\ ~Off =>
       /\ Local => dirs = IF phase[0] = "folders" THEN {} ELSE MadeDirs
       /\ DOMAIN store \subseteq Dataset
       /\ faults = 0 => lost = {}
       /\ faults = 0 /\ Generator.objects =>
            \A r \in Rank : phase[r] \notin {"failing", "failed"}

IInv == Types /\ PhaseInv /\ DataInv /\ IndexInv /\ FreshInv

-------------------------------------------------------------------------------
(* The steps *)

(* What the configuration and the storage determine. *)
LEMMA SameJob ==
  ASSUME conf' = conf, storage' = storage
  PROVE  /\ Rank' = Rank /\ ShareSize' = ShareSize /\ Names' = Names /\ Indexes' = Indexes
         /\ written' = written => OlderIndexes' = OlderIndexes
         /\ Dataset' = Dataset /\ Generator' = Generator /\ (Local <=> Local')
         /\ MadeDirs' = MadeDirs
         /\ begun' = begun => Begun' = Begun
  BY DEF Rank, ShareSize, Share, Total, Names, Indexes, IndexName, OlderIndexes, FileName, Name, FolderOf,
     Dataset, Local, MadeDirs, Begun, Generator, NPYGenerator, NPZGenerator, CSVGenerator, JPEGGenerator,
     PNGGenerator, SyntheticGenerator, HDF5Generator, ParquetGenerator, TFRecordGenerator,
     IndexedBinaryGenerator

(* A rank gets from one place to another and writes nothing on the way: to one
   where it writes no file after it has written its share, to the listing after
   all ranks have, and it lists files that are there. *)
LEMMA GotoKeeps ==
  ASSUME IInv, NEW r \in Rank, NEW p \in Phases \ {"off"},
         Goto(r, p), UNCHANGED <<storage, job, begun, active, store, index, history>>,
         faults' \in Nat, DOMAIN listed' = Rank,
         phase[r] # "off",
         p \in {"failing", "failed"} <=> phase[r] \in {"failing", "failed"},
         p \notin {"write", "failing"} => active[r] = {},
         ~conf.generate => p \in {"list", "listed", "refused"},
         p \in {"wrote", "list", "listed", "refused"} /\ conf.generate => begun[r] = ShareSize[r],
         p \in {"list", "listed", "refused"} /\ conf.generate =>
           \A q \in Rank : q # r => Wrote(q),
         Wrote(r) => p \in {"wrote", "list", "listed", "refused"},
         \A q \in Rank \ {r} : listed'[q] = listed[q],
         listed'[r] \subseteq DOMAIN store
  PROVE  /\ Types' /\ PhaseInv' /\ DataInv' /\ IndexInv'
         /\ UNCHANGED dirs /\ "folders" \notin {phase[0], p} /\ faults' >= faults => IInv'
<1>1. /\ conf' = conf /\ storage' = storage /\ begun' = begun /\ active' = active
      /\ store' = store /\ index' = index
      /\ lost' = lost /\ killed' = killed /\ written' = written
  BY DEF job, history
<1>2. /\ Rank' = Rank /\ ShareSize' = ShareSize /\ Names' = Names /\ Indexes' = Indexes
      /\ OlderIndexes' = OlderIndexes /\ Generator' = Generator /\ (Local <=> Local') /\ Begun' = Begun
  BY <1>1, SameJob
<1>3. phase \in [Rank -> Phases]
  BY DEF IInv, Types
<1>4. /\ phase' \in [Rank -> Phases] /\ phase'[r] = p
      /\ \A q \in Rank : q # r => phase'[q] = phase[q]
  BY <1>3 DEF Goto
<1>5. Types'
  BY <1>1, <1>2, <1>4 DEF IInv, Types
<1>6. ~Off /\ ~Off' /\ \A q \in Rank : phase[q] # "off" /\ phase'[q] # "off"
  BY <1>2, <1>4 DEF IInv, PhaseInv, Off
<1>7. PhaseInv'
  <2>1. ~conf.generate => \A q \in Rank : phase'[q] \in {"list", "listed", "refused"}
    BY <1>4, <1>6 DEF IInv, PhaseInv, Listing
  <2>2. ASSUME NEW q \in Rank
        PROVE  /\ phase'[q] \notin {"write", "failing"} => active[q] = {}
               /\ conf.generate /\ phase'[q] \in {"wrote", "list", "listed", "refused"} =>
                    begun[q] = ShareSize[q]
               /\ conf.generate /\ phase'[q] \in {"list", "listed", "refused"} =>
                    \A s \in Rank : phase'[s] \in {"wrote", "list", "listed", "refused"}
    BY <1>4 DEF IInv, PhaseInv, Wrote, Listing
  <2> QED
    BY <1>1, <1>2, <1>6, <2>1, <2>2 DEF IInv, PhaseInv, Wrote, Listing
<1>8. \A q \in Rank : Sound(q)' <=> Sound(q)
  BY <1>4, <1>6 DEF Sound
<1>9. DataInv'
  <2>1. WrittenInv'
    BY <1>1, <1>2, <1>8 DEF IInv, DataInv, WrittenInv
  <2>2. CutInv'
    BY <1>1, <1>2 DEF IInv, DataInv, CutInv
  <2>3. LostInv' /\ ListedInv'
    BY <1>1, <1>2, <1>4, <1>6 DEF IInv, DataInv, LostInv, ListedInv
  <2> QED
    BY <2>1, <2>2, <2>3 DEF DataInv
<1>10. IndexInv'
  <2>1. OwnIndex'
    <3> SUFFICES ASSUME NEW x \in DOMAIN index, x \notin OlderIndexes
                 PROVE  /\ conf.generate /\ ~Off
                        /\ \E q \in Rank : \E i \in Begun[q] : x = Indexes[i] /\ <<i, "data">> \notin active[q]
      BY <1>1, <1>2, <1>6 DEF OwnIndex
    <3> QED
      BY DEF IInv, IndexInv, OwnIndex
  <2>2. IndexWritten'
    BY <1>1, <1>2, <1>8 DEF IInv, IndexInv, IndexWritten
  <2> QED
    BY <2>1, <2>2 DEF IndexInv
<1>11. ASSUME UNCHANGED dirs, "folders" \notin {phase[0], p}, faults' >= faults
       PROVE  FreshInv'
  <2>1. \A q \in Rank :
          phase'[q] \in {"failing", "failed"} <=> phase[q] \in {"failing", "failed"}
    BY <1>4, <1>11
  <2>2. 0 \in Rank /\ faults \in Nat
    BY DEF IInv, Types, ConfigurationType, Rank
  <2>7. phase'[0] # "folders"
    BY <1>4, <1>11, <2>2
  <2>3. fresh' = fresh /\ dirs' = dirs /\ Dataset' = Dataset /\ MadeDirs' = MadeDirs
        /\ (faults' = 0 => faults = 0)
    BY <1>1, <1>11, <2>2, SameJob DEF history
  <2>4. ~Local' => dirs' = {}
    BY <1>2, <2>3 DEF IInv, FreshInv
  <2>5. ASSUME fresh, conf.generate
        PROVE  /\ Local' => dirs' = IF phase'[0] = "folders" THEN {} ELSE MadeDirs
               /\ DOMAIN store' \subseteq Dataset
               /\ faults' = 0 => lost' = {}
    BY <1>1, <1>2, <1>6, <1>11, <2>2, <2>3, <2>5, <2>7 DEF IInv, FreshInv
  <2>6. ASSUME fresh, conf.generate, faults' = 0, Generator.objects, NEW q \in Rank
        PROVE  phase'[q] \notin {"failing", "failed"}
    BY <1>6, <2>1, <2>3, <2>6 DEF IInv, FreshInv
  <2> QED
    BY <1>1, <1>2, <2>3, <2>4, <2>5, <2>6, <2>7 DEF FreshInv
<1> QED
  BY <1>5, <1>7, <1>9, <1>10, <1>11 DEF IInv

(* The barrier of generate(). *)
LEMMA StartWritingKeeps ==
  ASSUME IInv, NEW r \in Rank, StartWriting(r)
  PROVE  IInv'
<1>1. /\ phase[r] = "ready" /\ phase[0] # "folders" /\ Goto(r, "write")
      /\ UNCHANGED <<storage, job, begun, active, store, index, history, dirs, listed, faults>>
  BY DEF StartWriting
<1>2. conf.generate
  BY <1>1 DEF IInv, PhaseInv, Listing
<1>3. faults \in Nat /\ DOMAIN listed = Rank
  BY DEF IInv, Types
<1>6. listed'[r] \subseteq DOMAIN store
  BY <1>1 DEF IInv, DataInv, ListedInv
<1>4. "write" \in Phases \ {"off"} /\ ~Wrote(r) /\ Rank' = Rank
  BY <1>1, SameJob DEF Phases, Wrote, job
<1>5. faults' = faults /\ faults' >= faults /\ listed' = listed
  BY <1>1, <1>3
<1> QED
  BY <1>1, <1>2, <1>3, <1>4, <1>5, <1>6, GotoKeeps

(* A rank has written its share, or gives up with the files it was writing. *)
LEMMA WriteDoneKeeps ==
  ASSUME IInv, NEW r \in Rank, WriteDone(r)
  PROVE  IInv'
<1>1. UNCHANGED <<storage, job, begun, active, store, index, history, dirs, listed, faults>>
      /\ active[r] = {}
  BY DEF WriteDone
<1>2. faults' \in Nat /\ DOMAIN listed' = Rank /\ faults' >= faults /\ listed' = listed
  BY <1>1 DEF IInv, Types
<1>5. /\ phase[r] # "off" => listed'[r] \subseteq DOMAIN store
      /\ phase[r] \in {"write", "failing"} => phase[0] # "folders"
  BY <1>1 DEF IInv, DataInv, ListedInv, FreshInv
<1>3. CASE phase[r] = "write" /\ begun[r] = Cardinality(Share(r)) /\ Goto(r, "wrote")
  <2>1. conf.generate /\ begun[r] = ShareSize[r]
    BY <1>3 DEF IInv, PhaseInv, Listing, ShareSize
  <2>2. "wrote" \in Phases \ {"off"} /\ ~Wrote(r)
    BY <1>3 DEF Phases, Wrote
  <2> QED
    BY <1>1, <1>2, <1>3, <1>5, <2>1, <2>2, GotoKeeps
<1>4. CASE phase[r] = "failing" /\ Goto(r, "failed")
  <2>1. conf.generate
    BY <1>4 DEF IInv, PhaseInv, Listing
  <2>2. "failed" \in Phases \ {"off"} /\ ~Wrote(r)
    BY <1>4 DEF Phases, Wrote
  <2> QED
    BY <1>1, <1>2, <1>4, <1>5, <2>1, <2>2, GotoKeeps
<1> QED
  BY <1>3, <1>4 DEF WriteDone

(* The barrier after the generation. *)
LEMMA GeneratedKeeps ==
  ASSUME IInv, NEW r \in Rank, Generated(r)
  PROVE  IInv'
<1> DEFINE p == IF conf.train THEN "list" ELSE "listed"
<1>1. /\ phase[r] = "wrote" /\ Goto(r, p) /\ \A q \in Rank : Wrote(q)
      /\ UNCHANGED <<storage, job, begun, active, store, index, history, dirs, listed, faults>>
  BY DEF Generated
<1>2. faults' \in Nat /\ DOMAIN listed' = Rank /\ faults' >= faults /\ listed' = listed
  BY <1>1 DEF IInv, Types
<1>3. /\ conf.generate /\ active[r] = {}
      /\ begun[r] = ShareSize[r]
  BY <1>1 DEF IInv, PhaseInv, Listing, Wrote
<1>5. listed'[r] \subseteq DOMAIN store /\ phase[0] # "folders"
  BY <1>1 DEF IInv, DataInv, ListedInv, FreshInv
<1>4. p \in {"list", "listed"} /\ p \in Phases \ {"off"}
  BY DEF Phases
<1> QED
  BY <1>1, <1>2, <1>3, <1>4, <1>5, GotoKeeps

(* The files that a listing takes are among those it found, *)
LEMMA FirstFilesWithin ==
  ASSUME NEW n, NEW files, NEW first \in FirstFiles(n, files)
  PROVE  first \subseteq files
  BY DEF FirstFiles, kSubset

(* and those are there. *)
LEMMA ListingsWithin ==
  ASSUME IInv, NEW kind, NEW failed, NEW listing \in Listings(kind, failed)
  PROVE  listing.files \subseteq DOMAIN store
<1>1. storage \in {"file", "s3", "aistore"}
  BY DatasetAssumption DEF IInv, Types
<1>2. CASE storage = "file"
  <2>1. listing \in FileListings(kind)
    BY <1>2 DEF Listings
  <2>2. listing \in {Raised, Found({}), Found(OfFormat(InFolders(kind))),
                     Found(OfFormat(FlatFiles(kind)))}
    BY <2>1 DEF FileListings
  <2> QED
    BY <2>2 DEF Found, Raised, OfFormat, InFolders, FlatFiles
<1>3. CASE storage \in {"s3", "aistore"}
  BY <1>3 DEF Listings, ObjStoreListings, AIStoreListings, ObjectListing, Found, Raised,
     OfFormat
<1> QED
  BY <1>1, <1>2, <1>3

(* The requests of a listing that fail. *)
LEMMA FailedCount ==
  ASSUME NEW failed \in SUBSET Kinds
  PROVE  IsFiniteSet(failed) /\ Cardinality(failed) \in Nat
<1>1. IsFiniteSet({}) /\ Kinds = ({} \cup {"train"}) \cup {"valid"}
  BY FS_EmptySet DEF Kinds
<1>2. IsFiniteSet({} \cup {"train"})
  BY <1>1, FS_AddElement
<1>3. IsFiniteSet(Kinds)
  BY <1>1, <1>2, FS_AddElement
<1> QED
  BY <1>3, FS_Subset, FS_CardinalityType

(* The listing, or its error. *)
LEMMA ListDatasetKeeps ==
  ASSUME IInv, NEW r \in Rank, ListDataset(r)
  PROVE  IInv'
<1>1. /\ phase[r] = "list"
      /\ UNCHANGED <<storage, job, begun, active, store, index, history, dirs>>
  BY DEF ListDataset
<1>2. PICK failed \in SUBSET Kinds :
        /\ faults' = faults + Cardinality(failed)
        /\ \E train \in Listings("train", "train" \in failed),
              valid \in Listings("valid", "valid" \in failed) :
             IF train.ok /\ valid.ok /\ ~TooFew(train.files, valid.files)
             THEN /\ \E t \in FirstFiles(conf.files["train"], train.files),
                        v \in FirstFiles(conf.files["valid"], valid.files) :
                       listed' = [listed EXCEPT ![r] = t \cup v]
                  /\ Goto(r, "listed")
             ELSE Goto(r, "refused") /\ UNCHANGED listed
  BY DEF ListDataset
<1>3. Cardinality(failed) \in Nat /\ faults' \in Nat /\ faults' >= faults
  BY <1>2, FailedCount DEF IInv, Types
<1>4. PICK p \in {"listed", "refused"} :
        /\ Goto(r, p)
        /\ DOMAIN listed' = Rank /\ \A q \in Rank \ {r} : listed'[q] = listed[q]
        /\ listed'[r] \subseteq DOMAIN store
  <2>1. PICK train \in Listings("train", "train" \in failed),
             valid \in Listings("valid", "valid" \in failed) :
          IF train.ok /\ valid.ok /\ ~TooFew(train.files, valid.files)
          THEN /\ \E t \in FirstFiles(conf.files["train"], train.files),
                     v \in FirstFiles(conf.files["valid"], valid.files) :
                    listed' = [listed EXCEPT ![r] = t \cup v]
               /\ Goto(r, "listed")
          ELSE Goto(r, "refused") /\ UNCHANGED listed
    BY <1>2
  <2>2. DOMAIN listed = Rank /\ listed[r] \subseteq DOMAIN store
    BY <1>1 DEF IInv, Types, DataInv, ListedInv
  <2>3. CASE Goto(r, "refused") /\ UNCHANGED listed
    BY <2>2, <2>3
  <2>4. ASSUME NEW t \in FirstFiles(conf.files["train"], train.files),
               NEW v \in FirstFiles(conf.files["valid"], valid.files),
               listed' = [listed EXCEPT ![r] = t \cup v], Goto(r, "listed")
        PROVE  /\ DOMAIN listed' = Rank /\ \A q \in Rank \ {r} : listed'[q] = listed[q]
               /\ listed'[r] \subseteq DOMAIN store
    <3>1. t \subseteq DOMAIN store /\ v \subseteq DOMAIN store
      <4>1. train.files \subseteq DOMAIN store /\ valid.files \subseteq DOMAIN store
        BY <2>1, ListingsWithin
      <4>2. t \subseteq train.files /\ v \subseteq valid.files
        BY <2>4, FirstFilesWithin
      <4> QED
        BY <4>1, <4>2
    <3> QED
      BY <2>2, <2>4, <3>1
  <2> QED
    BY <2>1, <2>3, <2>4
<1>5. /\ p \in Phases \ {"off"} /\ active[r] = {} /\ "folders" \notin {phase[0], p}
      /\ conf.generate => begun[r] = ShareSize[r] /\ \A q \in Rank : Wrote(q)
  BY <1>1, <1>4 DEF IInv, PhaseInv, FreshInv, Phases, Listing, Wrote
<1> QED
  BY <1>1, <1>3, <1>4, <1>5, GotoKeeps

(* The folders are made. *)
LEMMA MakeFoldersKeeps ==
  ASSUME IInv, ~Off, MakeFolders
  PROVE  IInv'
<1>1. /\ phase[0] = "folders" /\ Goto(0, "ready") /\ 0 \in Rank
      /\ UNCHANGED <<storage, job, begun, active, store, index, listed, history, faults>>
  BY DEF MakeFolders, IInv, Types, ConfigurationType, Rank
<1>2. conf.generate /\ active[0] = {}
  BY <1>1 DEF IInv, PhaseInv, Listing
<1>3. /\ faults' \in Nat /\ DOMAIN listed' = Rank /\ listed' = listed
      /\ listed'[0] \subseteq DOMAIN store
  BY <1>1 DEF IInv, Types, DataInv, ListedInv
<1>4. "ready" \in Phases \ {"off"} /\ ~Wrote(0)
  BY <1>1 DEF Phases, Wrote
<1>5. Types' /\ PhaseInv' /\ DataInv' /\ IndexInv'
  BY <1>1, <1>2, <1>3, <1>4, GotoKeeps
<1>6. FreshInv'
  <2>1. /\ Dataset' = Dataset /\ MadeDirs' = MadeDirs /\ (Local <=> Local') /\ Rank' = Rank
        /\ conf' = conf /\ store' = store /\ fresh' = fresh /\ lost' = lost /\ faults' = faults
        /\ Generator' = Generator
    BY <1>1, SameJob DEF job, history
  <2>2. phase'[0] = "ready" /\ \A q \in Rank : q # 0 => phase'[q] = phase[q]
    BY <1>1 DEF Goto, IInv, Types
  <2>3. dirs' = IF ~Local THEN dirs ELSE dirs \cup MadeDirs
    BY DEF MakeFolders, MadeDirs
  <2>4. ~Local' => dirs' = {}
    BY <2>1, <2>3 DEF IInv, FreshInv
  <2>5. ASSUME fresh, conf.generate
        PROVE  /\ Local' => dirs' = MadeDirs
               /\ DOMAIN store' \subseteq Dataset
               /\ faults' = 0 => lost' = {}
               /\ faults' = 0 /\ Generator.objects =>
                    \A q \in Rank : phase'[q] \notin {"failing", "failed"}
    BY <1>1, <2>1, <2>2, <2>3, <2>5 DEF IInv, FreshInv
  <2> QED
    BY <2>1, <2>2, <2>4, <2>5 DEF FreshInv
<1> QED
  BY <1>5, <1>6 DEF IInv

(* A rank's share has a number of files. *)
LEMMA ShareSizeType == conf \in ConfigurationType => \A r \in Rank : ShareSize[r] \in Nat
  BY NthOfShare

(* A job begins: nothing of it is there yet, and nothing else is being written. *)
LEMMA StartJobKeeps ==
  ASSUME IInv, StartJob
  PROVE  IInv'
<1>1. Off /\ storage' = storage /\ store' = store /\ index' = index /\ dirs' = dirs
      /\ faults' = 0 /\ lost' = {}
      /\ fresh' = (store = << >> /\ index = << >> /\ dirs = {})
      /\ killed' = (killed /\ ~fresh')
      /\ written' = IF fresh' THEN {} ELSE written
  BY DEF StartJob
<1>2. PICK c \in Configurations :
       /\ conf' = c
       /\ phase' = [r \in 0..c.ranks - 1 |->
            IF c.generate THEN IF r = 0 THEN "folders" ELSE "ready"
            ELSE IF c.train THEN "list" ELSE "listed"]
       /\ begun'  = [r \in 0..c.ranks - 1 |-> 0]
       /\ active' = [r \in 0..c.ranks - 1 |-> {}]
       /\ listed' = [r \in 0..c.ranks - 1 |-> {}]
  BY DEF StartJob
<1>3. conf' \in ConfigurationType /\ Rank' = 0 .. c.ranks - 1 /\ 0 \in Rank'
  BY <1>2, DatasetAssumption DEF Rank, ConfigurationType
<1>4. ASSUME NEW r \in Rank'
      PROVE  /\ begun'[r] = 0 /\ active'[r] = {} /\ listed'[r] = {}
             /\ phase'[r] \in Phases \ {"off"}
             /\ conf'.generate => phase'[r] \in {"folders", "ready"}
             /\ ~conf'.generate => phase'[r] \in {"list", "listed"}
  BY <1>2, <1>3 DEF Phases
<1>5. Types'
  BY <1>1, <1>2, <1>3, <1>4 DEF IInv, Types
<1>6. \A r \in Rank' : Begun'[r] = {}
  BY <1>4 DEF Begun
<1>7. PhaseInv'
  <2>1. \A r \in Rank' : ShareSize'[r] \in Nat
    <3>1. (conf \in ConfigurationType => \A r \in Rank : ShareSize[r] \in Nat)'
      BY ShareSizeType, PTL
    <3> QED
      BY <1>3, <3>1
  <2>2. \A r \in Rank' : begun'[r] <= ShareSize'[r]
    BY <1>4, <2>1
  <2>3. ~conf'.generate => \A r \in Rank' : Listing(r)'
    BY <1>2, <1>4 DEF Listing
  <2>4. conf'.generate => \A r \in Rank' : ~Wrote(r)' /\ ~Listing(r)'
    BY <1>2, <1>4 DEF Listing, Wrote
  <2> QED
    BY <1>4, <1>6, <2>2, <2>3, <2>4 DEF PhaseInv
<1>8. \A r \in Rank : active[r] = {} /\ phase[r] = "off"
  BY <1>1 DEF IInv, PhaseInv, Off
<1>9. DOMAIN << >> = {}
  OBVIOUS
<1>10. DataInv'
  <2>1. WrittenInv'
    BY <1>6 DEF WrittenInv
  <2>2. CutInv'
    <3> SUFFICES ASSUME NEW f \in DOMAIN store, store[f] = Cut PROVE Local' /\ killed'
      BY <1>1 DEF CutInv, Cut
    <3>1. Local /\ killed
      BY <1>8 DEF IInv, DataInv, CutInv
    <3> QED
      BY <1>1, <1>9, <3>1 DEF Local
  <2>3. LostInv' /\ ListedInv'
    BY <1>1, <1>4 DEF LostInv, ListedInv
  <2> QED
    BY <2>1, <2>2, <2>3 DEF DataInv
<1>11. IndexInv'
  <2>1. OwnIndex'
    <3>1. \A x \in DOMAIN index : x \in OlderIndexes
      BY <1>1 DEF IInv, IndexInv, OwnIndex
    <3>2. DOMAIN index # {} => ~fresh' /\ OlderIndexes' = OlderIndexes
      BY <1>1, <1>9 DEF OlderIndexes
    <3> QED
      BY <1>1, <3>1, <3>2 DEF OwnIndex
  <2>2. IndexWritten'
    BY <1>6 DEF IndexWritten
  <2> QED
    BY <2>1, <2>2 DEF IndexInv
<1>12. FreshInv'
  <2>1. ~Local' => dirs' = {}
    BY <1>1 DEF IInv, FreshInv, Local
  <2>2. ASSUME fresh', conf'.generate
        PROVE  /\ dirs' = {} /\ phase'[0] = "folders" /\ DOMAIN store' = {} /\ lost' = {}
               /\ \A r \in Rank' : phase'[r] \notin {"failing", "failed"}
    BY <1>1, <1>2, <1>3, <1>4, <1>9, <2>2
  <2>3. phase'[0] = "folders" => \A r \in Rank' : phase'[r] \in {"folders", "ready"}
    BY <1>3, <1>4
  <2> QED
    BY <2>1, <2>2, <2>3 DEF FreshInv
<1> QED
  BY <1>5, <1>7, <1>10, <1>11, <1>12 DEF IInv

(* The files that a job has begun are of its dataset. *)
LEMMA BegunInDataset ==
  ASSUME IInv, NEW r \in Rank, NEW i \in Begun[r]
  PROVE  /\ i \in Share(r) /\ i \in Nat /\ i % conf.ranks = r
         /\ Names[i] \in Dataset /\ Names[i] = FileName(i) /\ Indexes[i] = IndexName(FileName(i))
<1>1. conf \in ConfigurationType /\ begun[r] \in Nat /\ begun[r] <= ShareSize[r]
  BY DEF IInv, Types, PhaseInv
<1>2. ShareSize[r] \in Nat
  BY <1>1, NthOfShare
<1>3. PICK n \in 0 .. begun[r] - 1 : i = r + n * conf.ranks
  BY DEF Begun
<1>4. n \in Nat /\ n < ShareSize[r]
  BY <1>1, <1>2
<1>5. i \in Share(r)
  BY <1>1, <1>3, <1>4, NthOfShare
<1>6. i \in 0 .. Total - 1 /\ i % conf.ranks = r /\ Total \in Nat
  BY <1>1, <1>5 DEF Share, Total, ConfigurationType, Kinds
<1> QED
  BY <1>5, <1>6 DEF Names, Indexes, Dataset

(* The end of a job, which leaves its files or deletes them, *)
LEMMA EndedKeeps ==
  ASSUME IInv, Ended,
         UNCHANGED <<storage, job, begun, listed, faults, lost, fresh>>,
         \/ UNCHANGED <<store, index, dirs>> /\ (killed' \/ (UNCHANGED killed /\ \A r \in Rank : active[r] = {}))
         \/ store' = << >> /\ index' = << >> /\ dirs' = {}
  PROVE  IInv'
<1>1. /\ conf' = conf /\ storage' = storage /\ begun' = begun /\ lost' = lost
      /\ phase' = [r \in Rank |-> "off"] /\ active' = [r \in Rank |-> {}]
      /\ written' = written \cup (IF conf.generate THEN Dataset ELSE {})
      /\ faults' = faults /\ listed' = listed
  BY DEF Ended, job
<1>2. /\ Rank' = Rank /\ ShareSize' = ShareSize /\ Names' = Names /\ Indexes' = Indexes
      /\ (Local <=> Local') /\ Begun' = Begun
  BY <1>1, SameJob
<1>3. \A r \in Rank : phase'[r] = "off" /\ active'[r] = {}
  BY <1>1
<1>4. Off'
  BY <1>2, <1>3 DEF Off
<1>5. Types'
  BY <1>1, <1>2 DEF IInv, Types, Phases
<1>6. PhaseInv'
  BY <1>1, <1>2, <1>3, <1>4 DEF IInv, PhaseInv, Wrote, Listing
<1>7. DOMAIN << >> = {}
  OBVIOUS
<1>8. DataInv'
  <2>1. WrittenInv' /\ ListedInv' /\ LostInv'
    BY <1>1, <1>2, <1>3 DEF IInv, DataInv, WrittenInv, ListedInv, LostInv, Sound
  <2>2. CutInv'
    <3> SUFFICES ASSUME NEW f \in DOMAIN store', store'[f] = Cut PROVE Local' /\ killed'
      BY DEF CutInv, Cut
    <3>1. UNCHANGED <<store, index, dirs>>
          /\ (killed' \/ (UNCHANGED killed /\ \A r \in Rank : active[r] = {}))
      BY <1>7
    <3>2. Local /\ (killed \/ \E r \in Rank : \E i \in Begun[r] :
                       <<i, "data">> \in active[r] /\ f = Names[i])
      BY <3>1 DEF IInv, DataInv, CutInv, Cut
    <3> QED
      BY <1>2, <3>1, <3>2
  <2> QED
    BY <2>1, <2>2 DEF DataInv
<1>9. IndexInv'
  <2>1. ASSUME NEW x \in DOMAIN index PROVE x \in OlderIndexes'
    <3>1. CASE x \in OlderIndexes
      BY <1>1, <3>1 DEF OlderIndexes
    <3>2. CASE x \notin OlderIndexes
      <4>1. PICK r \in Rank : \E i \in Begun[r] : conf.generate /\ x = Indexes[i]
        BY <3>2 DEF IInv, IndexInv, OwnIndex
      <4>2. PICK i \in Begun[r] : conf.generate /\ x = Indexes[i]
        BY <4>1
      <4>3. Names[i] \in Dataset /\ i \in Nat
        BY <4>2, BegunInDataset
      <4>4. Names[i] \in written' /\ x = IndexName(Names[i])
        BY <1>1, <4>2, <4>3 DEF Names, Indexes
      <4> QED
        BY <4>4 DEF OlderIndexes, IndexName
    <3> QED
      BY <3>1, <3>2
  <2>2. OwnIndex'
    BY <1>7, <2>1 DEF OwnIndex
  <2>3. IndexWritten'
    BY <1>2, <1>3 DEF IndexWritten, Sound
  <2> QED
    BY <2>2, <2>3 DEF IndexInv
<1>10. FreshInv'
  <2>1. 0 \in Rank
    BY DEF IInv, Types, ConfigurationType, Rank
  <2> QED
    BY <1>2, <1>3, <1>4, <2>1 DEF IInv, FreshInv
<1> QED
  BY <1>5, <1>6, <1>8, <1>9, <1>10 DEF IInv

(* when all ranks have listed it, *)
LEMMA FinishJobKeeps ==
  ASSUME IInv, FinishJob
  PROVE  IInv'
<1>1. \A r \in Rank : active[r] = {}
  BY DEF FinishJob, IInv, PhaseInv
<1> QED
  BY <1>1, EndedKeeps DEF FinishJob

(* or at any time. *)
LEMMA KillKeeps ==
  ASSUME IInv, Kill
  PROVE  IInv'
<1>1. Ended /\ killed' /\ UNCHANGED <<store, index, dirs>>
      /\ UNCHANGED <<storage, job, begun, listed, faults, lost, fresh>>
  BY DEF Kill
<1> QED
  BY <1>1, EndedKeeps

(* Nothing happens. *)
LEMMA StutterKeeps ==
  ASSUME IInv, UNCHANGED vars
  PROVE  IInv'
<1>1. /\ UNCHANGED <<storage, conf, phase, begun, active, store, index, dirs, listed, faults>>
      /\ UNCHANGED <<lost, fresh, killed, written>>
  BY DEF vars, job, history
<1>2. /\ Rank' = Rank /\ ShareSize' = ShareSize /\ Names' = Names /\ Indexes' = Indexes
      /\ OlderIndexes' = OlderIndexes /\ Dataset' = Dataset
      /\ Generator' = Generator /\ (Local <=> Local') /\ MadeDirs' = MadeDirs /\ Begun' = Begun
  BY <1>1, SameJob
<1>3. Types'
  BY <1>1, <1>2 DEF IInv, Types
<1>4. PhaseInv'
  BY <1>1, <1>2 DEF IInv, PhaseInv, Off, Wrote, Listing
<1>5. DataInv'
  BY <1>1, <1>2 DEF IInv, DataInv, WrittenInv, CutInv, LostInv, ListedInv, Sound
<1>6. IndexInv'
  BY <1>1, <1>2 DEF IInv, IndexInv, OwnIndex, IndexWritten, Off, Sound
<1>7. FreshInv'
  BY <1>1, <1>2 DEF IInv, FreshInv, Off
<1> QED
  BY <1>3, <1>4, <1>5, <1>6, <1>7 DEF IInv


(* A file is of one rank's share, and written under a name of its own. *)
LEMMA OtherFile ==
  ASSUME conf \in ConfigurationType, NEW r \in Rank, NEW q \in Rank,
         NEW i \in Share(r), NEW j \in Share(q), Names[i] = Names[j]
  PROVE  i = j /\ r = q
<1>1. /\ i \in Nat /\ j \in Nat /\ i % conf.ranks = r /\ j % conf.ranks = q
  BY DEF Share, Total, ConfigurationType, Kinds
<1>2. FileName(i) = FileName(j)
  BY <1>1 DEF Names
<1> QED
  BY <1>1, <1>2, NamesDiffer

(* A name that FolderOf gives a file is among those that MakeFolders makes. *)
LEMMA FolderMade ==
  ASSUME conf \in ConfigurationType, Local, dirs = MadeDirs, NEW i \in Nat
  PROVE  FolderThere(FileName(i))
<1>1. PICK kind \in Kinds, k \in Nat : FileName(i) = Name(kind, k)
  <2>1. i < conf.files["train"] \/ i - conf.files["train"] \in Nat
    BY DEF ConfigurationType, Kinds
  <2> QED
    BY <2>1 DEF FileName, Kinds
<1> DEFINE f == Name(kind, k)
           n == conf.folders[kind]
<1>2. f.kind = kind /\ f.folder = IF n > 1 THEN <<k % n, Digits(n)>> ELSE Flat
  BY DEF Name, FolderOf
<1>3. n \in Nat
  BY DEF ConfigurationType
<1>4. CASE f.folder = Flat
  BY <1>1, <1>2, <1>4 DEF FolderThere, MadeDirs
<1>5. CASE f.folder # Flat
  <2>1. n > 1 /\ f.folder = <<k % n, Digits(n)>>
    BY <1>2, <1>5
  <2>2. k % n \in 0 .. n - 1 /\ (k % n) % n = k % n
    <3>1. k % n \in 0 .. n - 1
      BY <1>3, <2>1
    <3>2. \A m \in 0 .. n - 1 : m % n = m
      BY <1>3, <2>1
    <3> QED
      BY <3>1, <3>2
  <2>3. f.folder = FolderOf(kind, k % n)
    BY <2>1, <2>2 DEF FolderOf
  <2>4. <<kind, f.folder>> \in {<<kind, FolderOf(kind, m)>> : m \in 0 .. conf.folders[kind] - 1}
    BY <2>2, <2>3
  <2>5. <<kind, f.folder>> \in MadeDirs
    BY <2>1, <2>4 DEF MadeDirs
  <2> QED
    BY <1>1, <1>2, <1>5, <2>5 DEF FolderThere
<1> QED
  BY <1>4, <1>5

(* While a rank writes, none lists. *)
LEMMA WhileWriting ==
  ASSUME IInv, NEW r \in Rank, Writing(r)
  PROVE  /\ conf.generate /\ ~Off /\ phase[0] # "folders" /\ ~Wrote(r)
         /\ \A q \in Rank : ~Listing(q) /\ phase[q] # "off"
<1>1. conf.generate /\ ~Off /\ ~Wrote(r) /\ phase[0] # "folders"
  BY DEF IInv, PhaseInv, FreshInv, Writing, Wrote, Listing, Off
<1> QED
  BY <1>1 DEF IInv, PhaseInv

(* A file is begun. *)
LEMMA WriteBeginKeeps ==
  ASSUME IInv, NEW r \in Rank, WriteBegin(r)
  PROVE  IInv'
<1> DEFINE i == r + begun[r] * conf.ranks
           d == <<i, "data">>
<1>1. /\ Writing(r) /\ begun[r] < Cardinality(Share(r))
      /\ begun' = [begun EXCEPT ![r] = @ + 1]
      /\ \/ /\ CanWrite(FileName(i))
            /\ active' = [active EXCEPT ![r] = @ \cup {d}]
            /\ store' = IF Local THEN Put(store, FileName(i), Cut) ELSE store
            /\ UNCHANGED phase
         \/ ~CanWrite(FileName(i)) /\ Goto(r, "failing") /\ UNCHANGED <<active, store>>
      /\ UNCHANGED <<storage, job, index, dirs, listed, faults, history>>
  BY DEF WriteBegin, MoreFiles
<1>2. /\ conf' = conf /\ storage' = storage /\ lost' = lost /\ killed' = killed
      /\ written' = written /\ fresh' = fresh /\ index' = index /\ dirs' = dirs
      /\ listed' = listed /\ faults' = faults
  BY <1>1 DEF job, history
<1>3. /\ Rank' = Rank /\ ShareSize' = ShareSize /\ Names' = Names /\ Indexes' = Indexes
      /\ OlderIndexes' = OlderIndexes /\ Dataset' = Dataset
      /\ Generator' = Generator /\ (Local <=> Local') /\ MadeDirs' = MadeDirs
  BY <1>2, SameJob
<1>4. /\ conf \in ConfigurationType /\ conf.ranks \in Nat \ {0}
      /\ phase \in [Rank -> Phases] /\ begun \in [Rank -> Nat]
      /\ active \in [Rank -> SUBSET (Nat \X {"data", "index"})]
  BY DEF IInv, Types, ConfigurationType
<1>5. /\ begun[r] \in Nat /\ r \in 0 .. conf.ranks - 1 /\ ShareSize[r] \in Nat
      /\ begun[r] < ShareSize[r]
  BY <1>1, <1>4, NthOfShare DEF Rank, ShareSize
<1>6. i \in Share(r) /\ i \in Nat /\ Names[i] = FileName(i) /\ FileName(i) \in Dataset
  <2>1. i \in Share(r)
    BY <1>4, <1>5, NthOfShare
  <2>2. i \in 0 .. Total - 1
    BY <2>1 DEF Share
  <2> QED
    BY <2>1, <2>2 DEF Names, Dataset
<1>7. i \notin Begun[r]
  <2> SUFFICES ASSUME NEW n \in 0 .. begun[r] - 1, r + n * conf.ranks = i PROVE FALSE
    BY DEF Begun
  <2>1. n \in Nat /\ n = begun[r]
    BY <1>4, <1>5, OneQuotient
  <2> QED
    BY <1>5, <2>1
<1>8. Begun'[r] = Begun[r] \cup {i} /\ \A q \in Rank : q # r => Begun'[q] = Begun[q]
  <2>1. begun'[r] = begun[r] + 1 /\ \A q \in Rank : q # r => begun'[q] = begun[q]
    BY <1>1, <1>4
  <2>2. 0 .. (begun[r] + 1) - 1 = (0 .. begun[r] - 1) \cup {begun[r]}
    BY <1>5
  <2>3. Begun'[r] = {r + n * conf.ranks : n \in 0 .. (begun[r] + 1) - 1}
    BY <1>2, <1>3, <2>1 DEF Begun
  <2>4. Begun'[r] = Begun[r] \cup {i}
    BY <2>2, <2>3 DEF Begun
  <2> QED
    BY <1>2, <1>3, <2>1, <2>4 DEF Begun
<1> HIDE DEF i
(* The new file is none of those begun before. *)
<1>9. ASSUME NEW q \in Rank, NEW j \in Begun[q]
      PROVE  j # i /\ Names[j] # Names[i] /\ <<j, "data">> # d /\ <<j, "index">> # d
  <2>1. j \in Share(q) /\ j # i
    <3>1. j \in Share(q) /\ j % conf.ranks = q
      BY BegunInDataset
    <3>2. i % conf.ranks = r
      BY <1>6 DEF Share
    <3> QED
      BY <1>7, <3>1, <3>2
  <2> QED
    BY <1>4, <1>6, <2>1, OtherFile
<1>10. \A q \in Rank : d \notin active[q] /\ <<i, "index">> \notin active[q]
  BY <1>9 DEF IInv, PhaseInv
<1>11. ~Off /\ conf.generate /\ phase[0] # "folders" /\ ~Wrote(r)
       /\ \A q \in Rank : ~Listing(q) /\ phase[q] # "off"
  BY <1>1, WhileWriting
<1>12. phase[r] \in {"write", "failing"} /\ 0 \in Rank
  BY <1>1, <1>4 DEF Writing, Rank
(* What the step does to the place, the files being written and the store. *)
<1>13. /\ phase'[r] \in {"write", "failing"} /\ phase' \in [Rank -> Phases]
       /\ \A q \in Rank : q # r => phase'[q] = phase[q]
       /\ \/ phase'[r] = phase[r] /\ active'[r] = active[r] \cup {d}
          \/ phase'[r] = "failing" /\ active'[r] = active[r]
       /\ \A q \in Rank : q # r => active'[q] = active[q]
       /\ active' \in [Rank -> SUBSET (Nat \X {"data", "index"})]
  BY <1>1, <1>4, <1>6, <1>12 DEF Goto, Phases
<1>14. \/ store' = store
       \/ /\ Local /\ d \in active'[r]
          /\ DOMAIN store' = DOMAIN store \cup {Names[i]}
          /\ store'[Names[i]] = Cut
          /\ \A f \in DOMAIN store : f # Names[i] => store'[f] = store[f]
  <2>1. CASE CanWrite(FileName(i)) /\ Local
    <3>1. active' = [active EXCEPT ![r] = @ \cup {d}]
          /\ store' = IF Local THEN Put(store, FileName(i), Cut) ELSE store
      BY <1>1, <2>1
    <3>2. store' = Put(store, Names[i], Cut)
      BY <1>6, <2>1, <3>1
    <3>3. d \in active'[r]
      BY <1>4, <3>1
    <3>4. /\ DOMAIN store' = DOMAIN store \cup {Names[i]} /\ store'[Names[i]] = Cut
          /\ \A f \in DOMAIN store : f # Names[i] => store'[f] = store[f]
      BY <3>2 DEF Put
    <3> QED
      BY <2>1, <3>3, <3>4
  <2>2. CASE ~(CanWrite(FileName(i)) /\ Local)
    BY <1>1, <2>2
  <2> QED
    BY <2>1, <2>2
<1>15. \A f \in DOMAIN store : f # Names[i] => f \in DOMAIN store' /\ store'[f] = store[f]
  BY <1>14
<1>16. Types'
  BY <1>1, <1>2, <1>3, <1>4, <1>13 DEF IInv, Types
<1>17. PhaseInv'
  <2>1. \A q \in Rank : ~Listing(q)' /\ phase'[q] # "off" /\ (Wrote(q)' <=> q # r /\ Wrote(q))
    BY <1>11, <1>13 DEF Listing, Wrote
  <2>2. begun'[r] <= ShareSize[r] /\ \A q \in Rank : q # r => begun'[q] = begun[q]
    BY <1>1, <1>4, <1>5
  <2>3. ASSUME NEW q \in Rank
        PROVE  /\ \A w \in active'[q] : w[1] \in Begun'[q]
               /\ \A j \in Begun'[q] : ~(<<j, "data">> \in active'[q] /\ <<j, "index">> \in active'[q])
    <3>1. CASE q = r
      <4>1. d[1] = i
        OBVIOUS
      <4>2. \A w \in active'[r] : w \in active[r] \/ w = d
        BY <1>13
      <4>3. \A w \in active'[r] : w[1] \in Begun'[r]
        BY <1>8, <4>1, <4>2 DEF IInv, PhaseInv
      <4>4. ASSUME NEW j \in Begun'[r], <<j, "data">> \in active'[r], <<j, "index">> \in active'[r]
            PROVE  FALSE
        <5>1. <<j, "index">> \in active[r]
          BY <4>2, <4>4
        <5>2. j # i
          BY <1>10, <5>1
        <5>3. j \in Begun[r] /\ <<j, "data">> \in active[r]
          BY <1>8, <1>9, <4>2, <4>4, <5>2
        <5> QED
          BY <5>1, <5>3 DEF IInv, PhaseInv
      <4> QED
        BY <3>1, <4>3, <4>4
    <3>2. CASE q # r
      BY <1>8, <1>13, <3>2 DEF IInv, PhaseInv
    <3> QED
      BY <3>1, <3>2
  <2>4. \A q \in Rank : phase'[q] \notin {"write", "failing"} => active'[q] = {}
    BY <1>13 DEF IInv, PhaseInv
  <2>5. \A q \in Rank : q # r /\ Wrote(q) => begun[q] = ShareSize[q]
    BY <1>11 DEF IInv, PhaseInv
  <2>6. \A q \in Rank : begun'[q] <= ShareSize[q] /\ (Wrote(q)' => begun'[q] = ShareSize[q])
    BY <2>1, <2>2, <2>5 DEF IInv, PhaseInv
  <2> QED
    BY <1>2, <1>3, <1>11, <2>1, <2>3, <2>4, <2>6 DEF PhaseInv
(* The files that are not being written now are the same as before. *)
<1>18. ASSUME NEW q \in Rank, Sound(q)', NEW j \in Begun'[q], <<j, "data">> \notin active'[q]
       PROVE  /\ Sound(q) /\ j \in Begun[q] /\ <<j, "data">> \notin active[q]
              /\ Names[j] # Names[i]
              /\ <<j, "index">> \in active[q] => <<j, "index">> \in active'[q]
  <2>1. Sound(q) /\ (q = r => active'[r] = active[r] \cup {d})
    BY <1>11, <1>13, <1>18 DEF Sound
  <2>2. j \in Begun[q]
    <3>1. CASE q = r
      BY <1>8, <1>18, <2>1, <3>1
    <3>2. CASE q # r
      BY <1>8, <1>18, <3>2
    <3> QED
      BY <3>1, <3>2
  <2> QED
    BY <1>9, <1>13, <1>18, <2>1, <2>2
<1>19. WrittenInv'
  <2> SUFFICES ASSUME NEW q \in Rank, Sound(q)', NEW j \in Begun'[q], <<j, "data">> \notin active'[q]
               PROVE  \/ Names[j] \in lost
                      \/ Names[j] \in DOMAIN store' /\ store'[Names[j]] = Generator.samples
    BY <1>2, <1>3 DEF WrittenInv
  <2>1. /\ Sound(q) /\ j \in Begun[q] /\ <<j, "data">> \notin active[q]
        /\ Names[j] # Names[i]
    BY <1>18
  <2>2. \/ Names[j] \in lost
        \/ Names[j] \in DOMAIN store /\ store[Names[j]] = Generator.samples
    BY <1>11, <2>1 DEF IInv, DataInv, WrittenInv
  <2> QED
    BY <1>15, <2>1, <2>2
<1>20. CutInv'
  <2> SUFFICES ASSUME NEW f \in DOMAIN store', store'[f] = Cut
               PROVE  Local /\ (killed \/ \E q \in Rank : \E j \in Begun'[q] :
                                  <<j, "data">> \in active'[q] /\ f = Names[j])
    BY <1>2, <1>3 DEF CutInv, Cut
  <2>1. CASE f = Names[i] /\ Local /\ d \in active'[r]
    BY <1>8, <2>1
  <2>2. CASE f \in DOMAIN store /\ store[f] = Cut
    <3>1. Local /\ (killed \/ \E q \in Rank : \E j \in Begun[q] :
                       <<j, "data">> \in active[q] /\ f = Names[j])
      BY <2>2 DEF IInv, DataInv, CutInv, Cut
    <3>2. \A q \in Rank : Begun[q] \subseteq Begun'[q] /\ active[q] \subseteq active'[q]
      BY <1>8, <1>13
    <3> QED
      BY <3>1, <3>2
  <2> QED
    BY <1>14, <2>1, <2>2
<1>21. LostInv' /\ ListedInv'
  <2>1. DOMAIN store \subseteq DOMAIN store'
    BY <1>14
  <2>2. LostInv'
    BY <1>2 DEF IInv, DataInv, LostInv
  <2> QED
    BY <1>2, <1>3, <1>11, <2>1, <2>2 DEF IInv, DataInv, ListedInv
<1>22. ~Off'
  BY <1>3, <1>12, <1>13 DEF Off
<1>23. OwnIndex'
  <2> SUFFICES ASSUME NEW f \in DOMAIN index, f \notin OlderIndexes
               PROVE  \E q \in Rank : \E j \in Begun'[q] : f = Indexes[j] /\ <<j, "data">> \notin active'[q]
    BY <1>2, <1>3, <1>11, <1>22 DEF OwnIndex
  <2>1. PICK q \in Rank : \E j \in Begun[q] : f = Indexes[j] /\ <<j, "data">> \notin active[q]
    BY DEF IInv, IndexInv, OwnIndex
  <2>2. PICK j \in Begun[q] : f = Indexes[j] /\ <<j, "data">> \notin active[q]
    BY <2>1
  <2>3. j \in Begun'[q] /\ <<j, "data">> \notin active'[q]
    BY <1>8, <1>9, <1>13, <2>2
  <2> QED
    BY <2>2, <2>3
<1>24. IndexWritten'
  <2> SUFFICES ASSUME conf.generate, conf.format = "tfrecord", Local, NEW q \in Rank, Sound(q)',
                      NEW j \in Begun'[q], <<j, "data">> \notin active'[q], Indexes[j] \notin OlderIndexes
               PROVE  /\ Indexes[j] \in DOMAIN index
                      /\ <<j, "index">> \in active'[q] \/ index[Indexes[j]] = store'[Names[j]]
    BY <1>2, <1>3 DEF IndexWritten
  <2>1. /\ Sound(q) /\ j \in Begun[q] /\ <<j, "data">> \notin active[q]
        /\ Names[j] # Names[i]
        /\ <<j, "index">> \in active[q] => <<j, "index">> \in active'[q]
    BY <1>18
  <2>2. /\ Indexes[j] \in DOMAIN index
        /\ <<j, "index">> \in active[q] \/ index[Indexes[j]] = store[Names[j]]
    BY <2>1 DEF IInv, IndexInv, IndexWritten
  <2>3. Names[j] \notin lost
    BY DEF IInv, DataInv, LostInv, Local
  <2>4. Names[j] \in DOMAIN store
    BY <2>1, <2>3 DEF IInv, DataInv, WrittenInv
  <2> QED
    BY <1>15, <2>1, <2>2, <2>4
<1>25. FreshInv'
  <2>1. ~Local' => dirs' = {}
    BY <1>2, <1>3 DEF IInv, FreshInv
  <2>2. phase'[0] # "folders"
    BY <1>11, <1>12, <1>13
  <2>3. ASSUME fresh
        PROVE  /\ Local => dirs = MadeDirs
               /\ DOMAIN store' \subseteq Dataset
               /\ faults = 0 => lost = {}
    BY <1>6, <1>11, <1>14, <2>3 DEF IInv, FreshInv
  <2>4. ASSUME fresh, faults = 0, Generator.objects, NEW q \in Rank
        PROVE  phase'[q] \notin {"failing", "failed"}
    <3>1. phase[q] \notin {"failing", "failed"} /\ phase[r] \notin {"failing", "failed"}
      BY <1>11, <2>4 DEF IInv, FreshInv
    <3>2. CanWrite(FileName(i))
      BY <1>4, <1>6, <2>3, <2>4, FolderMade DEF CanWrite
    <3>3. phase' = phase
      BY <1>1, <3>2
    <3> QED
      BY <3>1, <3>3
  <2> QED
    BY <1>2, <1>3, <2>1, <2>2, <2>3, <2>4 DEF FreshInv
<1> QED
  BY <1>16, <1>17, <1>19, <1>20, <1>21, <1>23, <1>24, <1>25 DEF IInv, DataInv, IndexInv


(* A rank goes from one file that it is writing to another, and may fail there. *)
LEMMA ActiveKeeps ==
  ASSUME IInv, NEW r \in Rank, NEW i \in Share(r), NEW A,
         \/ <<i, "data">> \in active[r] \/ <<i, "index">> \in active[r],
         \/ A = active[r] \ {<<i, "data">>}
         \/ A = (active[r] \ {<<i, "data">>}) \cup {<<i, "index">>}
         \/ A = active[r] \ {<<i, "index">>},
         active' = [active EXCEPT ![r] = A],
         phase' = phase \/ Goto(r, "failing"),
         UNCHANGED <<storage, job, begun, listed, dirs>>, faults' \in Nat
  PROVE  /\ Types' /\ PhaseInv' /\ ~Off'
         /\ conf.generate /\ ~Off /\ i \in Begun[r] /\ Begun' = Begun
         /\ Names[i] \in Dataset /\ Names[i] = FileName(i) /\ Indexes[i] = IndexName(FileName(i))
         /\ DOMAIN store \subseteq DOMAIN store' => ListedInv'
         /\ active'[r] = A
         /\ \A q \in Rank : q # r => active'[q] = active[q] /\ phase'[q] = phase[q]
         /\ \A q \in Rank : Sound(q)' => Sound(q)
         /\ phase'[0] # "folders" /\ phase[0] # "folders"
<1>1. /\ conf' = conf /\ storage' = storage /\ begun' = begun /\ listed' = listed
  BY DEF job
<1>2. Rank' = Rank /\ ShareSize' = ShareSize /\ Begun' = Begun
  BY <1>1, SameJob
<1>3. /\ conf \in ConfigurationType /\ phase \in [Rank -> Phases]
      /\ active \in [Rank -> SUBSET (Nat \X {"data", "index"})]
  BY DEF IInv, Types
<1>4. i \in Begun[r] /\ phase[r] \in {"write", "failing"}
  <2>1. PICK w \in active[r] : w[1] = i
    OBVIOUS
  <2> QED
    BY <2>1 DEF IInv, PhaseInv
<1>5. i \in Nat /\ Names[i] \in Dataset /\ Names[i] = FileName(i) /\ Indexes[i] = IndexName(FileName(i))
  BY <1>4, BegunInDataset
<1>6. /\ conf.generate /\ ~Off /\ phase[0] # "folders" /\ ~Wrote(r)
      /\ \A q \in Rank : ~Listing(q) /\ phase[q] # "off"
  BY <1>4, WhileWriting DEF Writing
<1>7. /\ phase' \in [Rank -> Phases] /\ phase'[r] \in {phase[r], "failing"}
      /\ \A q \in Rank : q # r => phase'[q] = phase[q]
  BY <1>3 DEF Goto, Phases
<1>8. /\ active'[r] = A /\ \A q \in Rank : q # r => active'[q] = active[q]
  BY <1>3
<1>9. A \in SUBSET (Nat \X {"data", "index"})
  <2>1. <<i, "index">> \in Nat \X {"data", "index"}
    BY <1>5
  <2> QED
    BY <1>3, <2>1
<1>10. Types'
  <2>1. active' \in [Rank -> SUBSET (Nat \X {"data", "index"})]
    BY <1>3, <1>9
  <2> QED
    BY <1>1, <1>2, <1>7, <2>1 DEF IInv, Types
<1>11. 0 \in Rank
  BY <1>3 DEF ConfigurationType, Rank
<1>12. phase'[0] # "folders"
  BY <1>4, <1>6, <1>7, <1>11
<1>13. \A q \in Rank : phase'[q] # "off" /\ (Wrote(q)' <=> Wrote(q)) /\ ~Listing(q)'
  BY <1>4, <1>6, <1>7 DEF Wrote, Listing
<1>14. PhaseInv'
  <2>1. ASSUME NEW w \in A PROVE w[1] \in Begun[r]
    <3>1. w \in active[r] \/ w = <<i, "index">>
      BY <2>1
    <3>2. <<i, "index">>[1] = i
      OBVIOUS
    <3> QED
      BY <1>4, <3>1, <3>2 DEF IInv, PhaseInv
  <2>2. ASSUME NEW j \in Begun[r], <<j, "data">> \in A, <<j, "index">> \in A PROVE FALSE
    <3>1. <<j, "data">> \in active[r] /\ <<j, "data">> # <<i, "index">>
      BY <2>2
    <3>2. <<j, "index">> \notin active[r]
      BY <3>1 DEF IInv, PhaseInv
    <3>3. <<j, "index">> = <<i, "index">> /\ A = (active[r] \ {<<i, "data">>}) \cup {<<i, "index">>}
      BY <2>2, <3>2
    <3>4. j = i
      BY <3>3
    <3> QED
      BY <2>2, <3>3, <3>4
  <2>3. \A q \in Rank : phase'[q] \notin {"write", "failing"} => active'[q] = {}
    BY <1>4, <1>7, <1>8 DEF IInv, PhaseInv
  <2>4. ASSUME NEW q \in Rank
        PROVE  /\ begun[q] <= ShareSize[q]
               /\ \A w \in active'[q] : w[1] \in Begun[q]
               /\ \A j \in Begun[q] : ~(<<j, "data">> \in active'[q] /\ <<j, "index">> \in active'[q])
               /\ conf.generate /\ Wrote(q) => begun[q] = ShareSize[q]
    <3>1. CASE q = r
      BY <1>8, <2>1, <2>2, <3>1 DEF IInv, PhaseInv
    <3>2. CASE q # r
      BY <1>8, <3>2 DEF IInv, PhaseInv
    <3> QED
      BY <3>1, <3>2
  <2> QED
    BY <1>1, <1>2, <1>6, <1>13, <2>3, <2>4 DEF PhaseInv
<1>15. DOMAIN store \subseteq DOMAIN store' => ListedInv'
  BY <1>1, <1>2, <1>6 DEF IInv, DataInv, ListedInv
<1>16. \A q \in Rank : Sound(q)' => Sound(q)
  BY <1>6, <1>7 DEF Sound
<1>17. ~Off'
  BY <1>2, <1>11, <1>13 DEF Off
<1> QED
  BY <1>2, <1>4, <1>5, <1>6, <1>7, <1>8, <1>10, <1>12, <1>14, <1>15, <1>16, <1>17

(* A rank's file is written under no name that another file has. *)
LEMMA OtherNames ==
  ASSUME IInv, NEW r \in Rank, NEW q \in Rank, NEW i \in Begun[r], NEW j \in Begun[q], i # j
  PROVE  Names[j] # Names[i] /\ Indexes[j] # Indexes[i]
<1>1. i \in Share(r) /\ j \in Share(q) /\ i \in Nat /\ j \in Nat /\ conf \in ConfigurationType
  BY BegunInDataset DEF IInv, Types
<1>2. Names[j] # Names[i]
  BY <1>1, OtherFile
<1>3. Indexes[j] # Indexes[i]
  BY <1>1, IndexesDiffer DEF Indexes
<1> QED
  BY <1>2, <1>3

(* Only the rank of a file's share writes it. *)
LEMMA OneWriter ==
  ASSUME IInv, NEW r \in Rank, NEW q \in Rank, NEW i \in Begun[r], i \in Begun[q]
  PROVE  q = r
  BY BegunInDataset

(* A file is there with its samples.  A TFRecord generator goes on to its index file
   if there is none. *)
LEMMA WriteEndKeeps ==
  ASSUME IInv, NEW r \in Rank, NEW i \in Share(r), WriteEnd(r, i)
  PROVE  IInv'
<1> DEFINE d == <<i, "data">>
           x == <<i, "index">>
           need == NeedsIndex(FileName(i))
           A == IF need THEN (active[r] \ {d}) \cup {x} ELSE active[r] \ {d}
<1>1. /\ d \in active[r] /\ store' = Put(store, FileName(i), Generator.samples)
      /\ active' = [active EXCEPT ![r] = A]
      /\ index' = IF need THEN Put(index, IndexName(FileName(i)), Cut) ELSE index
      /\ UNCHANGED <<storage, job, phase, begun, dirs, listed, faults, history>>
  BY DEF WriteEnd
<1>2. /\ conf' = conf /\ storage' = storage /\ lost' = lost /\ killed' = killed
      /\ written' = written /\ fresh' = fresh /\ dirs' = dirs /\ begun' = begun
      /\ listed' = listed /\ faults' = faults /\ phase' = phase
  BY <1>1 DEF job, history
<1>3. /\ Rank' = Rank /\ ShareSize' = ShareSize /\ Names' = Names /\ Indexes' = Indexes
      /\ OlderIndexes' = OlderIndexes /\ Dataset' = Dataset
      /\ Generator' = Generator /\ (Local <=> Local') /\ MadeDirs' = MadeDirs
  BY <1>2, SameJob
<1>4. faults \in Nat /\ conf \in ConfigurationType
  BY DEF IInv, Types
<1>5. /\ Types' /\ PhaseInv' /\ ~Off'
      /\ conf.generate /\ ~Off /\ i \in Begun[r] /\ Begun' = Begun
      /\ Names[i] \in Dataset /\ Names[i] = FileName(i) /\ Indexes[i] = IndexName(FileName(i))
      /\ DOMAIN store \subseteq DOMAIN store' => ListedInv'
      /\ active'[r] = A
      /\ \A q \in Rank : q # r => active'[q] = active[q]
      /\ \A q \in Rank : Sound(q)' => Sound(q)
      /\ phase'[0] # "folders" /\ phase[0] # "folders"
  <2>1. /\ d \in active[r] /\ active' = [active EXCEPT ![r] = A]
        /\ \/ A = active[r] \ {d} \/ A = (active[r] \ {d}) \cup {x}
        /\ UNCHANGED <<storage, job, begun, listed, dirs>> /\ phase' = phase /\ faults' \in Nat
    BY <1>1, <1>2, <1>4
  <2> HIDE DEF A
  <2> QED
    BY <2>1, ActiveKeeps
<1>6. /\ DOMAIN store' = DOMAIN store \cup {Names[i]}
      /\ store'[Names[i]] = Generator.samples
      /\ \A f \in DOMAIN store : f # Names[i] => store'[f] = store[f]
  <2>1. store' = Put(store, Names[i], Generator.samples)
    BY <1>1, <1>5
  <2> QED
    BY <2>1 DEF Put
<1>7. /\ DOMAIN index \subseteq DOMAIN index' /\ DOMAIN index' \subseteq DOMAIN index \cup {Indexes[i]}
      /\ \A f \in DOMAIN index : f # Indexes[i] => index'[f] = index[f]
      /\ need => Indexes[i] \in DOMAIN index'
      /\ ~need => index' = index
  <2>1. CASE need
    <3>1. index' = Put(index, Indexes[i], Cut)
      BY <1>1, <1>5, <2>1
    <3>2. /\ DOMAIN index' = DOMAIN index \cup {Indexes[i]}
          /\ \A f \in DOMAIN index : f # Indexes[i] => index'[f] = index[f]
      BY <3>1 DEF Put
    <3> QED
      BY <2>1, <3>2
  <2>2. CASE ~need
    BY <1>1, <2>2
  <2> QED
    BY <2>1, <2>2
<1> HIDE DEF need
(* The file is no longer being written, and no other begins to be. *)
<1>8. /\ d \notin active'[r] /\ (need => x \in active'[r])
      /\ \A w \in active[r] : w # d => w \in active'[r]
      /\ \A w \in active'[r] : w # x => w \in active[r]
  <2>1. d # x
    OBVIOUS
  <2> QED
    BY <1>5, <2>1
<1>9. ASSUME NEW q \in Rank, NEW j \in Begun[q], j # i
      PROVE  /\ Names[j] # Names[i] /\ Indexes[j] # Indexes[i]
             /\ <<j, "data">> \in active'[q] <=> <<j, "data">> \in active[q]
             /\ <<j, "index">> \in active[q] => <<j, "index">> \in active'[q]
  <2>1. Names[j] # Names[i] /\ Indexes[j] # Indexes[i]
    BY <1>5, <1>9, OtherNames
  <2>2. <<j, "data">> # d /\ <<j, "data">> # x /\ <<j, "index">> # d
    BY <1>9
  <2> QED
    BY <1>5, <1>8, <2>1, <2>2
<1>10. \A q \in Rank : i \in Begun[q] => q = r
  BY <1>5, OneWriter
<1>11. WrittenInv'
  <2> SUFFICES ASSUME NEW q \in Rank, Sound(q)', NEW j \in Begun[q], <<j, "data">> \notin active'[q]
               PROVE  \/ Names[j] \in lost
                      \/ Names[j] \in DOMAIN store' /\ store'[Names[j]] = Generator.samples
    BY <1>2, <1>3, <1>5 DEF WrittenInv
  <2>1. CASE j = i
    BY <1>6, <2>1
  <2>2. CASE j # i
    <3>1. Names[j] # Names[i] /\ <<j, "data">> \notin active[q] /\ Sound(q)
      BY <1>5, <1>9, <2>2
    <3>2. \/ Names[j] \in lost
          \/ Names[j] \in DOMAIN store /\ store[Names[j]] = Generator.samples
      BY <1>5, <3>1 DEF IInv, DataInv, WrittenInv
    <3> QED
      BY <1>6, <3>1, <3>2
  <2> QED
    BY <2>1, <2>2
<1>12. Generator.samples # Cut
  BY <1>4, SamplesThere DEF Cut
<1>13. CutInv'
  <2> SUFFICES ASSUME NEW f \in DOMAIN store', store'[f] = Cut
               PROVE  Local /\ (killed \/ \E q \in Rank : \E j \in Begun[q] :
                                  <<j, "data">> \in active'[q] /\ f = Names[j])
    BY <1>2, <1>3, <1>5 DEF CutInv, Cut
  <2>1. f # Names[i] /\ f \in DOMAIN store /\ store[f] = Cut
    BY <1>6, <1>12
  <2>2. Local /\ (killed \/ \E q \in Rank : \E j \in Begun[q] :
                     <<j, "data">> \in active[q] /\ f = Names[j])
    BY <2>1 DEF IInv, DataInv, CutInv, Cut
  <2>3. ASSUME NEW q \in Rank, NEW j \in Begun[q], <<j, "data">> \in active[q], f = Names[j]
        PROVE  <<j, "data">> \in active'[q]
    <3>1. j # i
      BY <2>1, <2>3
    <3> QED
      BY <1>9, <2>3, <3>1
  <2> QED
    BY <2>2, <2>3
<1>14. LostInv' /\ ListedInv'
  BY <1>2, <1>5, <1>6 DEF IInv, DataInv, LostInv
<1>15. OwnIndex'
  <2> SUFFICES ASSUME NEW f \in DOMAIN index', f \notin OlderIndexes
               PROVE  \E q \in Rank : \E j \in Begun[q] : f = Indexes[j] /\ <<j, "data">> \notin active'[q]
    BY <1>2, <1>3, <1>5 DEF OwnIndex
  <2>1. CASE f = Indexes[i]
    BY <1>5, <1>8, <2>1
  <2>2. CASE f # Indexes[i]
    <3>1. f \in DOMAIN index
      BY <1>7, <2>2
    <3>2. PICK q \in Rank : \E j \in Begun[q] : f = Indexes[j] /\ <<j, "data">> \notin active[q]
      BY <3>1 DEF IInv, IndexInv, OwnIndex
    <3>3. PICK j \in Begun[q] : f = Indexes[j] /\ <<j, "data">> \notin active[q]
      BY <3>2
    <3>4. j # i
      BY <2>2, <3>3
    <3> QED
      BY <1>9, <3>3, <3>4
  <2> QED
    BY <2>1, <2>2
<1>16. IndexWritten'
  <2> SUFFICES ASSUME conf.generate, conf.format = "tfrecord", Local, NEW q \in Rank, Sound(q)',
                      NEW j \in Begun[q], <<j, "data">> \notin active'[q], Indexes[j] \notin OlderIndexes
               PROVE  /\ Indexes[j] \in DOMAIN index'
                      /\ <<j, "index">> \in active'[q] \/ index'[Indexes[j]] = store'[Names[j]]
    BY <1>2, <1>3, <1>5 DEF IndexWritten
  <2>1. CASE j = i
    <3>1. Indexes[i] \notin DOMAIN index
      <4> SUFFICES ASSUME Indexes[i] \in DOMAIN index PROVE FALSE
        OBVIOUS
      <4>1. PICK s \in Rank : \E k \in Begun[s] : Indexes[i] = Indexes[k] /\ <<k, "data">> \notin active[s]
        BY <2>1 DEF IInv, IndexInv, OwnIndex
      <4>2. PICK k \in Begun[s] : Indexes[i] = Indexes[k] /\ <<k, "data">> \notin active[s]
        BY <4>1
      <4>3. k = i
        BY <1>5, <4>2, OtherNames
      <4> QED
        BY <1>1, <1>10, <4>2, <4>3
    <3>2. Generator.indexed
      BY DEF Generator, TFRecordGenerator
    <3>3. need
      BY <1>5, <3>1, <3>2 DEF need, NeedsIndex
    <3> QED
      BY <1>7, <1>8, <1>10, <2>1, <3>3
  <2>2. CASE j # i
    <3>1. /\ Names[j] # Names[i] /\ Indexes[j] # Indexes[i] /\ <<j, "data">> \notin active[q] /\ Sound(q)
          /\ <<j, "index">> \in active[q] => <<j, "index">> \in active'[q]
      BY <1>5, <1>9, <2>2
    <3>2. /\ Indexes[j] \in DOMAIN index
          /\ <<j, "index">> \in active[q] \/ index[Indexes[j]] = store[Names[j]]
      BY <3>1 DEF IInv, IndexInv, IndexWritten
    <3>3. Names[j] \in DOMAIN store
      BY <1>5, <3>1 DEF IInv, DataInv, WrittenInv, LostInv, Local
    <3> QED
      BY <1>6, <1>7, <3>1, <3>2, <3>3
  <2> QED
    BY <2>1, <2>2
<1>17. FreshInv'
  <2>1. ~Local' => dirs' = {}
    BY <1>2, <1>3 DEF IInv, FreshInv
  <2>2. ASSUME fresh
        PROVE  /\ Local => dirs = MadeDirs
               /\ DOMAIN store' \subseteq Dataset
               /\ faults = 0 => lost = {}
               /\ faults = 0 /\ Generator.objects =>
                    \A q \in Rank : phase[q] \notin {"failing", "failed"}
    BY <1>5, <1>6, <2>2 DEF IInv, FreshInv
  <2> QED
    BY <1>2, <1>3, <1>5, <2>1, <2>2 DEF FreshInv
<1> QED
  BY <1>5, <1>11, <1>13, <1>14, <1>15, <1>16, <1>17 DEF IInv, DataInv, IndexInv

(* An index file is complete. *)
LEMMA IndexEndKeeps ==
  ASSUME IInv, NEW r \in Rank, NEW i \in Share(r), IndexEnd(r, i)
  PROVE  IInv'
<1> DEFINE x == <<i, "index">>
           A == active[r] \ {x}
<1>1. /\ x \in active[r] /\ index' = Put(index, IndexName(FileName(i)), store[FileName(i)])
      /\ active' = [active EXCEPT ![r] = A]
      /\ UNCHANGED <<storage, job, phase, begun, store, dirs, listed, faults, history>>
  BY DEF IndexEnd
<1>2. /\ conf' = conf /\ storage' = storage /\ lost' = lost /\ killed' = killed
      /\ written' = written /\ fresh' = fresh /\ dirs' = dirs /\ begun' = begun
      /\ listed' = listed /\ faults' = faults /\ phase' = phase /\ store' = store
  BY <1>1 DEF job, history
<1>3. /\ Rank' = Rank /\ ShareSize' = ShareSize /\ Names' = Names /\ Indexes' = Indexes
      /\ OlderIndexes' = OlderIndexes /\ Dataset' = Dataset
      /\ Generator' = Generator /\ (Local <=> Local') /\ MadeDirs' = MadeDirs
  BY <1>2, SameJob
<1>4. faults \in Nat
  BY DEF IInv, Types
<1>5. /\ Types' /\ PhaseInv' /\ ~Off'
      /\ conf.generate /\ ~Off /\ i \in Begun[r] /\ Begun' = Begun
      /\ Names[i] \in Dataset /\ Names[i] = FileName(i) /\ Indexes[i] = IndexName(FileName(i))
      /\ DOMAIN store \subseteq DOMAIN store' => ListedInv'
      /\ active'[r] = A
      /\ \A q \in Rank : q # r => active'[q] = active[q]
      /\ \A q \in Rank : Sound(q)' => Sound(q)
      /\ phase'[0] # "folders" /\ phase[0] # "folders"
  <2>1. /\ x \in active[r] /\ active' = [active EXCEPT ![r] = A] /\ A = active[r] \ {x}
        /\ UNCHANGED <<storage, job, begun, listed, dirs>> /\ phase' = phase /\ faults' \in Nat
    BY <1>1, <1>2, <1>4
  <2> HIDE DEF A
  <2> QED
    BY <2>1, ActiveKeeps
<1>6. index' = Put(index, Indexes[i], store[Names[i]])
  BY <1>1, <1>5
<1>7. /\ DOMAIN index' = DOMAIN index \cup {Indexes[i]}
      /\ index'[Indexes[i]] = store[Names[i]]
      /\ \A f \in DOMAIN index : f # Indexes[i] => index'[f] = index[f]
  BY <1>6 DEF Put
<1>8. \A q \in Rank, j \in Nat : <<j, "data">> \in active'[q] <=> <<j, "data">> \in active[q]
  BY <1>5
<1>9. ASSUME NEW q \in Rank, NEW j \in Begun[q], j # i
      PROVE  Indexes[j] # Indexes[i] /\ (<<j, "index">> \in active[q] => <<j, "index">> \in active'[q])
  <2>1. Indexes[j] # Indexes[i]
    BY <1>5, <1>9, OtherNames
  <2>2. <<j, "index">> # x
    BY <1>9
  <2> QED
    BY <1>5, <2>1, <2>2
<1>10. \A q \in Rank : \A j \in Begun[q] : j \in Nat
  BY BegunInDataset
<1>11. DataInv'
  <2>1. WrittenInv'
    BY <1>2, <1>3, <1>5, <1>8, <1>10 DEF IInv, DataInv, WrittenInv
  <2>2. CutInv'
    BY <1>2, <1>3, <1>5, <1>8, <1>10 DEF IInv, DataInv, CutInv
  <2>3. LostInv' /\ ListedInv'
    BY <1>2, <1>5 DEF IInv, DataInv, LostInv
  <2> QED
    BY <2>1, <2>2, <2>3 DEF DataInv
<1>12. OwnIndex'
  <2> SUFFICES ASSUME NEW f \in DOMAIN index', f \notin OlderIndexes
               PROVE  \E q \in Rank : \E j \in Begun[q] : f = Indexes[j] /\ <<j, "data">> \notin active[q]
    BY <1>2, <1>3, <1>5, <1>8, <1>10 DEF OwnIndex
  <2>1. CASE f = Indexes[i]
    <3>1. <<i, "data">> \notin active[r]
      BY <1>1, <1>5 DEF IInv, PhaseInv
    <3> QED
      BY <1>5, <2>1, <3>1
  <2>2. CASE f \in DOMAIN index
    BY <2>2 DEF IInv, IndexInv, OwnIndex
  <2> QED
    BY <1>7, <2>1, <2>2
<1>13. IndexWritten'
  <2> SUFFICES ASSUME conf.generate, conf.format = "tfrecord", Local, NEW q \in Rank, Sound(q)',
                      NEW j \in Begun[q], <<j, "data">> \notin active[q], Indexes[j] \notin OlderIndexes
               PROVE  /\ Indexes[j] \in DOMAIN index'
                      /\ <<j, "index">> \in active'[q] \/ index'[Indexes[j]] = store[Names[j]]
    BY <1>2, <1>3, <1>5, <1>8, <1>10 DEF IndexWritten
  <2>1. CASE j = i
    BY <1>7, <2>1
  <2>2. CASE j # i
    <3>1. /\ Indexes[j] \in DOMAIN index
          /\ <<j, "index">> \in active[q] \/ index[Indexes[j]] = store[Names[j]]
      BY <1>5 DEF IInv, IndexInv, IndexWritten
    <3> QED
      BY <1>7, <1>9, <2>2, <3>1
  <2> QED
    BY <2>1, <2>2
<1>14. FreshInv'
  <2>1. ~Local' => dirs' = {}
    BY <1>2, <1>3 DEF IInv, FreshInv
  <2>2. ASSUME fresh
        PROVE  /\ Local => dirs = MadeDirs
               /\ DOMAIN store \subseteq Dataset
               /\ faults = 0 => lost = {}
               /\ faults = 0 /\ Generator.objects =>
                    \A q \in Rank : phase[q] \notin {"failing", "failed"}
    BY <1>5, <2>2 DEF IInv, FreshInv
  <2> QED
    BY <1>2, <1>3, <1>5, <2>1, <2>2 DEF FreshInv
<1> QED
  BY <1>5, <1>11, <1>12, <1>13, <1>14 DEF IInv, IndexInv

(* An upload fails, silently or not. *)
LEMMA UploadFailsKeeps ==
  ASSUME IInv, NEW r \in Rank, NEW i \in Share(r), UploadFails(r, i)
  PROVE  IInv'
<1> DEFINE d == <<i, "data">>
           A == active[r] \ {d}
<1>1. /\ d \in active[r] /\ active' = [active EXCEPT ![r] = A] /\ ~Local
      /\ faults' = faults + 1
      /\ IF storage = "aistore" THEN lost' = lost \cup {FileName(i)} /\ UNCHANGED phase
                                ELSE Goto(r, "failing") /\ UNCHANGED lost
      /\ UNCHANGED <<storage, job, begun, store, index, dirs, listed, fresh, killed, written>>
  BY DEF UploadFails
<1>2. conf' = conf
  BY <1>1 DEF job
<1>3. /\ Rank' = Rank /\ ShareSize' = ShareSize /\ Names' = Names /\ Indexes' = Indexes
      /\ OlderIndexes' = OlderIndexes /\ Dataset' = Dataset
      /\ Generator' = Generator /\ (Local <=> Local')
  BY <1>1, <1>2, SameJob
<1>4. faults \in Nat /\ phase \in [Rank -> Phases]
  BY DEF IInv, Types
<1>5. /\ Types' /\ PhaseInv' /\ ~Off'
      /\ conf.generate /\ ~Off /\ i \in Begun[r] /\ Begun' = Begun
      /\ Names[i] \in Dataset /\ Names[i] = FileName(i) /\ Indexes[i] = IndexName(FileName(i))
      /\ DOMAIN store \subseteq DOMAIN store' => ListedInv'
      /\ active'[r] = A
      /\ \A q \in Rank : q # r => active'[q] = active[q]
      /\ \A q \in Rank : Sound(q)' => Sound(q)
      /\ phase'[0] # "folders"
  <2>1. /\ d \in active[r] /\ active' = [active EXCEPT ![r] = A] /\ A = active[r] \ {d}
        /\ UNCHANGED <<storage, job, begun, listed, dirs>> /\ faults' \in Nat
        /\ phase' = phase \/ Goto(r, "failing")
    BY <1>1, <1>4
  <2> HIDE DEF A
  <2> QED
    BY <2>1, ActiveKeeps
<1>6. LostInv' /\ lost \subseteq lost'
  BY <1>1 DEF IInv, DataInv, LostInv
<1>7. WrittenInv'
  <2> SUFFICES ASSUME NEW q \in Rank, Sound(q)', NEW j \in Begun[q], <<j, "data">> \notin active'[q]
               PROVE  \/ Names[j] \in lost'
                      \/ Names[j] \in DOMAIN store /\ store[Names[j]] = Generator.samples
    BY <1>1, <1>3, <1>5 DEF WrittenInv
  <2>1. CASE <<j, "data">> \notin active[q]
    BY <1>5, <1>6, <2>1 DEF IInv, DataInv, WrittenInv
  <2>2. CASE <<j, "data">> \in active[q]
    <3>1. q = r /\ <<j, "data">> = d
      BY <1>5, <2>2
    <3>2. j = i
      BY <3>1
    <3>3. storage = "aistore"
      <4> SUFFICES ASSUME Goto(r, "failing") PROVE FALSE
        BY <1>1
      <4>1. phase'[r] = "failing"
        BY <1>4 DEF Goto
      <4> QED
        BY <3>1, <4>1 DEF Sound
    <3> QED
      BY <1>1, <1>5, <3>2, <3>3
  <2> QED
    BY <2>1, <2>2
<1>8. CutInv' /\ ListedInv'
  BY <1>1, <1>5 DEF IInv, DataInv, CutInv
<1>9. IndexInv'
  <2>1. OwnIndex'
    <3> SUFFICES ASSUME NEW f \in DOMAIN index, f \notin OlderIndexes
                 PROVE  \E q \in Rank : \E j \in Begun[q] : f = Indexes[j] /\ <<j, "data">> \notin active'[q]
      BY <1>1, <1>2, <1>3, <1>5 DEF OwnIndex
    <3> QED
      BY <1>5 DEF IInv, IndexInv, OwnIndex
  <2>2. IndexWritten'
    BY <1>1, <1>3 DEF IndexWritten
  <2> QED
    BY <2>1, <2>2 DEF IndexInv
<1>10. FreshInv'
  <2>1. dirs' = {} /\ faults' # 0
    BY <1>1, <1>4 DEF IInv, FreshInv
  <2>2. fresh => DOMAIN store \subseteq Dataset
    BY <1>5 DEF IInv, FreshInv
  <2> QED
    BY <1>1, <1>3, <1>5, <2>1, <2>2 DEF FreshInv
<1> QED
  BY <1>5, <1>6, <1>7, <1>8, <1>9, <1>10 DEF IInv, DataInv

(* No job has begun and the data folder is empty. *)
LEMMA InitSound ==
  ASSUME Init PROVE IInv
<1>1. conf \in ConfigurationType /\ 0 \in Rank
  BY DatasetAssumption DEF Init, ConfigurationType, Rank
<1>2. \A r \in Rank : phase[r] = "off" /\ begun[r] = 0 /\ active[r] = {}
  BY DEF Init
<1>3. DOMAIN << >> = {}
  OBVIOUS
<1>4. Types
  BY <1>1 DEF Init, Types, Phases
<1>5. PhaseInv
  <2>1. \A r \in Rank : ShareSize[r] \in Nat
    BY <1>1, ShareSizeType
  <2> QED
    BY <1>2, <2>1 DEF PhaseInv, Off, Wrote, Listing
<1>6. DataInv /\ IndexInv /\ FreshInv
  BY <1>1, <1>2, <1>3 DEF Init, DataInv, WrittenInv, CutInv, LostInv, ListedInv, IndexInv,
     OwnIndex, IndexWritten, FreshInv, Sound, Off
<1> QED
  BY <1>4, <1>5, <1>6 DEF IInv

(* Every step preserves the invariant: one lemma per action above. *)
LEMMA NextKeeps ==
  ASSUME IInv, [Next]_vars PROVE IInv'
<1>1. CASE StartJob \/ FinishJob \/ Kill
  BY <1>1, StartJobKeeps, FinishJobKeeps, KillKeeps
<1>2. CASE ~Off /\ MakeFolders
  BY <1>2, MakeFoldersKeeps
<1>3. ASSUME NEW r \in Rank,
             StartWriting(r) \/ WriteBegin(r) \/ WriteDone(r) \/ Generated(r) \/ ListDataset(r)
      PROVE  IInv'
  BY <1>3, StartWritingKeeps, WriteBeginKeeps, WriteDoneKeeps, GeneratedKeeps, ListDatasetKeeps
<1>4. ASSUME NEW r \in Rank, NEW i \in Share(r), WriteEnd(r, i) \/ IndexEnd(r, i) \/ UploadFails(r, i)
      PROVE  IInv'
  BY <1>4, WriteEndKeeps, IndexEndKeeps, UploadFailsKeeps
<1>5. CASE UNCHANGED vars
  BY <1>5, StutterKeeps
<1> QED
  BY <1>1, <1>2, <1>3, <1>4, <1>5 DEF Next

(* The invariant holds in every behaviour, whatever the configurations of the jobs
   and wherever they are killed. *)
THEOREM DatasetSafe == Spec => []IInv
<1>1. Init => IInv
  BY InitSound
<1>2. IInv /\ [Next]_vars => IInv'
  BY NextKeeps
<1> QED
  BY <1>1, <1>2, PTL DEF Spec

-------------------------------------------------------------------------------
(* What a rank finds when it lists *)

(* When a rank has got to the listing, every rank has written its share and is
   writing nothing, and the shares are all the dataset. *)
LEMMA AllWritten ==
  ASSUME IInv, conf.generate, NEW r \in Rank, Listing(r)
  PROVE  /\ \A q \in Rank : active[q] = {} /\ Sound(q)
         /\ \A f \in Dataset : \E q \in Rank : \E i \in Begun[q] : f = Names[i]
<1>1. \A q \in Rank : Wrote(q) /\ active[q] = {} /\ Sound(q) /\ begun[q] = ShareSize[q]
  BY DEF IInv, PhaseInv, Wrote, Sound
<1>2. ASSUME NEW f \in Dataset PROVE \E q \in Rank : \E i \in Begun[q] : f = Names[i]
  <2>1. conf \in ConfigurationType /\ conf.ranks \in Nat \ {0} /\ Total \in Nat
    BY DEF IInv, Types, ConfigurationType, Total, Kinds
  <2>2. PICK i \in 0 .. Total - 1 : f = FileName(i)
    BY DEF Dataset
  <2>3. i \in Nat /\ f = Names[i]
    BY <2>1, <2>2 DEF Names
  <2>4. i % conf.ranks \in Rank
    BY <2>1, <2>3, Division DEF Rank
  <2> DEFINE q == i % conf.ranks
  <2>5. i \in Share(q)
    BY <2>2 DEF Share
  <2> HIDE DEF q
  <2>6. PICK n \in 0 .. ShareSize[q] - 1 : i = q + n * conf.ranks
    BY <2>1, <2>4, <2>5, NthOfShare DEF q
  <2>7. i \in Begun[q]
    BY <1>1, <2>4, <2>6 DEF Begun, q
  <2> QED
    BY <2>3, <2>4, <2>7 DEF q
<1> QED
  BY <1>1, <1>2

(* Its files are there, unless their uploads were lost. *)
LEMMA DatasetThere ==
  ASSUME IInv, conf.generate, NEW r \in Rank, Listing(r), NEW f \in Dataset
  PROVE  f \in lost \/ (f \in DOMAIN store /\ store[f] = Generator.samples)
<1>1. PICK q \in Rank : \E i \in Begun[q] : f = Names[i]
  BY AllWritten
<1>2. active[q] = {} /\ Sound(q)
  BY AllWritten
<1> QED
  BY <1>1, <1>2 DEF IInv, DataInv, WrittenInv

(* No rank lists a file that is not complete, unless a job that was killed has left
   it on a file system and this job has not generated it again, and what a rank
   lists of the dataset that its job has generated holds the samples that this job
   has written, unless the upload was lost (the truncation of a file that is there
   when a generator opens it, the barrier after the generation in initialize()). *)
THEOREM ListedAreWhole == Spec => []ListedFilesWhole
<1>1. IInv => ListedFilesWhole
  <2> SUFFICES ASSUME IInv, NEW r \in Rank, NEW f \in listed[r], phase[r] = "listed"
               PROVE  /\ store[f] = Cut => Local /\ killed /\ ~(conf.generate /\ f \in Dataset)
                      /\ conf.generate /\ f \in Dataset \ lost => store[f] = Generator.samples
    BY DEF ListedFilesWhole
  <2>1. Listing(r) /\ f \in DOMAIN store
    BY DEF IInv, DataInv, ListedInv, Listing
  <2>2. conf.generate /\ f \in Dataset \ lost => store[f] = Generator.samples
    BY <2>1, DatasetThere
  <2>3. ASSUME store[f] = Cut
        PROVE  Local /\ killed /\ ~(conf.generate /\ f \in Dataset)
    <3>1. Local /\ (killed \/ \E q \in Rank : \E i \in Begun[q] : <<i, "data">> \in active[q])
      BY <2>1, <2>3 DEF IInv, DataInv, CutInv
    <3>2. \A q \in Rank : active[q] = {}
      <4>1. CASE conf.generate
        BY <2>1, <4>1, AllWritten
      <4>2. CASE ~conf.generate
        BY <4>2 DEF IInv, PhaseInv, Listing
      <4> QED
        BY <4>1, <4>2
    <3>3. lost = {}
      BY <3>1 DEF IInv, DataInv, LostInv, Local
    <3>4. Generator.samples # Cut
      BY SamplesThere DEF IInv, Types, Cut
    <3> QED
      BY <2>2, <2>3, <3>1, <3>2, <3>3, <3>4
  <2> QED
    BY <2>2, <2>3
<1> QED
  BY <1>1, DatasetSafe, PTL

(* The DALI index of a listed TFRecord file is complete and counts the file's
   records, unless an earlier job whose dataset is still there has begun a file of
   that base name, in whichever sub-folder (TFRecordGenerator writes an index only
   where there is none under index/train or index/valid). *)
THEOREM IndexFollows == Spec => []IndexFollowsFile
<1>1. IInv => IndexFollowsFile
  <2> SUFFICES ASSUME IInv, NEW r \in Rank, phase[r] = "listed", conf.generate,
                      conf.format = "tfrecord", Local, NEW f \in Dataset,
                      IndexName(f) \notin OlderIndexes
               PROVE  IndexName(f) \in DOMAIN index /\ index[IndexName(f)] = store[f]
    BY DEF IndexFollowsFile
  <2>1. Listing(r)
    BY DEF Listing
  <2>2. PICK q \in Rank : \E i \in Begun[q] : f = Names[i]
    BY <2>1, AllWritten
  <2>3. active[q] = {} /\ Sound(q)
    BY <2>1, AllWritten
  <2>4. PICK i \in Begun[q] : f = Names[i]
    BY <2>2
  <2>5. IndexName(f) = Indexes[i]
    BY <2>4, BegunInDataset DEF Names, Indexes
  <2> QED
    BY <2>3, <2>4, <2>5 DEF IInv, IndexInv, IndexWritten
<1> QED
  BY <1>1, DatasetSafe, PTL

(* The files of one kind, and how many there are. *)
OwnFiles(kind) == {f \in Dataset : f.kind = kind}

(* A set that is numbered from 0 to n - 1 has n elements. *)
LEMMA CountOf ==
  ASSUME NEW n \in Nat, NEW S, NEW f \in Bijection(0 .. n - 1, S)
  PROVE  IsFiniteSet(S) /\ Cardinality(S) = n
<1>1. 0 \in Int /\ n - 1 \in Int /\ (n - 1) - 0 + 1 = n /\ (0 > n - 1 => n = 0)
  OBVIOUS
<1>2. /\ IsFiniteSet(0 .. n - 1)
      /\ Cardinality(0 .. n - 1) = IF 0 > n - 1 THEN 0 ELSE (n - 1) - 0 + 1
  BY <1>1, FS_Interval
<1>3. Cardinality(0 .. n - 1) = n
  BY <1>1, <1>2
<1>4. ExistsBijection(0 .. n - 1, S)
  BY DEF ExistsBijection
<1> QED
  BY <1>2, <1>3, <1>4, FS_Bijection

(* There are as many files of a kind as the configuration says: their numbers tell
   them apart. *)
LEMMA KindCount ==
  ASSUME conf \in ConfigurationType, NEW kind \in Kinds
  PROVE  IsFiniteSet(OwnFiles(kind)) /\ Cardinality(OwnFiles(kind)) = conf.files[kind]
<1> DEFINE n == conf.files[kind]
           f == [k \in 0 .. n - 1 |-> Name(kind, k)]
           T == conf.files["train"]
           V == conf.files["valid"]
<1>1. n \in Nat /\ T \in Nat /\ V \in Nat
  BY DEF ConfigurationType, Kinds
<1>2. \A k, l \in 0 .. n - 1 : Name(kind, k) = Name(kind, l) => k = l
  BY DEF Name
<1>3. ASSUME NEW k \in 0 .. n - 1 PROVE Name(kind, k) \in OwnFiles(kind)
  <2>1. Name(kind, k).kind = kind
    BY DEF Name
  <2>2. CASE kind = "train"
    <3>1. k \in 0 .. (T + V) - 1 /\ k < T
      BY <1>1, <2>2
    <3>2. FileName(k) = Name(kind, k)
      BY <2>2, <3>1 DEF FileName
    <3> QED
      BY <2>1, <3>1, <3>2 DEF Dataset, Total, OwnFiles
  <2>3. CASE kind = "valid"
    <3>1. T + k \in 0 .. (T + V) - 1 /\ ~(T + k < T) /\ (T + k) - T = k
      BY <1>1, <2>3
    <3>2. FileName(T + k) = Name(kind, k)
      BY <2>3, <3>1 DEF FileName
    <3> QED
      BY <2>1, <3>1, <3>2 DEF Dataset, Total, OwnFiles
  <2> QED
    BY <2>2, <2>3 DEF Kinds
<1>4. ASSUME NEW g \in OwnFiles(kind) PROVE \E k \in 0 .. n - 1 : g = Name(kind, k)
  <2>1. PICK i \in 0 .. (T + V) - 1 : g = FileName(i)
    BY DEF OwnFiles, Dataset, Total
  <2>2. g.kind = kind
    BY DEF OwnFiles
  <2>3. CASE i < T
    <3>1. g = Name("train", i) /\ kind = "train"
      BY <2>1, <2>2, <2>3 DEF FileName, Name
    <3>2. i \in 0 .. n - 1
      BY <1>1, <2>3, <3>1
    <3> QED
      BY <3>1, <3>2
  <2>4. CASE ~(i < T)
    <3>1. g = Name("valid", i - T) /\ kind = "valid"
      BY <2>1, <2>2, <2>4 DEF FileName, Name
    <3>2. i - T \in 0 .. n - 1
      BY <1>1, <2>4, <3>1
    <3> QED
      BY <3>1, <3>2
  <2> QED
    BY <2>3, <2>4
<1>5. f \in Bijection(0 .. n - 1, OwnFiles(kind))
  BY <1>2, <1>3, <1>4 DEF Bijection, Injection, IsInjective, Surjection
<1> HIDE DEF f
<1> QED
  BY <1>1, <1>5, CountOf

(* A file of the dataset has its job's format and is in a sub-folder if there are
   more than one. *)
LEMMA OwnFile ==
  ASSUME NEW kind \in Kinds, NEW f \in OwnFiles(kind)
  PROVE  f.kind = kind /\ f.format = conf.format /\ (f.folder # Flat <=> conf.folders[kind] > 1)
<1>1. PICK k : f = Name(kind, k)
  <2>1. PICK i : f = FileName(i) /\ f.kind = kind
    BY DEF OwnFiles, Dataset
  <2> QED
    BY <2>1 DEF FileName, Name
<1>2. f.folder = FolderOf(kind, k) /\ f.kind = kind /\ f.format = conf.format
  BY <1>1 DEF Name
<1> QED
  BY <1>2 DEF FolderOf, Flat

(* What a rank is given when it lists one kind of files of a data folder that its
   job has found empty is of the dataset. *)
LEMMA ListsOwn ==
  ASSUME IInv, fresh, conf.generate, ~Off, NEW kind \in Kinds, NEW failed,
         NEW listing \in Listings(kind, failed)
  PROVE  listing.files \subseteq OwnFiles(kind)
<1>1. DOMAIN store \subseteq Dataset
  BY DEF IInv, FreshInv
<1>2. listing.files \subseteq DOMAIN store
  BY ListingsWithin
<1>3. \A f \in listing.files : f.kind = kind
  <2>1. storage \in {"file", "s3", "aistore"}
    BY DatasetAssumption DEF IInv, Types
  <2>2. CASE storage = "file"
    <3>1. listing \in FileListings(kind)
      BY <2>2 DEF Listings
    <3>2. listing \in {Raised, Found({}), Found(OfFormat(InFolders(kind))),
                       Found(OfFormat(FlatFiles(kind)))}
      BY <3>1 DEF FileListings
    <3> QED
      BY <3>2 DEF Found, Raised, OfFormat, InFolders, FlatFiles
  <2>3. CASE storage \in {"s3", "aistore"}
    BY <2>3 DEF Listings, ObjStoreListings, AIStoreListings, ObjectListing, Found, Raised,
       OfFormat
  <2> QED
    BY <2>1, <2>2, <2>3
<1> QED
  BY <1>1, <1>2, <1>3 DEF OwnFiles

(* No more files than asked for are all taken. *)
LEMMA AllFirst ==
  ASSUME conf \in ConfigurationType, NEW kind \in Kinds, NEW files, files \subseteq OwnFiles(kind),
         ~(conf.files[kind] > Cardinality(files))
  PROVE  files = OwnFiles(kind) /\ FirstFiles(conf.files[kind], files) = {files}
<1>1. IsFiniteSet(OwnFiles(kind)) /\ Cardinality(OwnFiles(kind)) = conf.files[kind]
  BY KindCount
<1>2. conf.files[kind] \in Nat
  BY DEF ConfigurationType
<1>3. IsFiniteSet(files) /\ Cardinality(files) \in Nat
      /\ Cardinality(files) <= Cardinality(OwnFiles(kind))
      /\ (Cardinality(OwnFiles(kind)) = Cardinality(files) => OwnFiles(kind) = files)
  BY <1>1, FS_Subset, FS_CardinalityType
<1>4. Cardinality(files) = conf.files[kind]
  BY <1>1, <1>2, <1>3
<1>5. Cardinality(files) <= conf.files[kind]
  BY <1>2, <1>4
<1> QED
  BY <1>1, <1>3, <1>4, <1>5 DEF FirstFiles

(* Whether one kind of files has been generated where it is listed. *)
KindListed(kind) ==
  HasEntries(kind) => IF Local THEN conf.folders[kind] # 1 ELSE conf.folders[kind] = 0

(* The sub-folders made for one kind. *)
LEMMA FoldersMade ==
  ASSUME conf \in ConfigurationType, dirs = MadeDirs, NEW kind \in Kinds
  PROVE  /\ <<kind>> \in dirs
         /\ conf.folders[kind] > 1 => /\ SubFolders(kind) # {}
                                      /\ Cardinality(SubFolders(kind)) = conf.folders[kind]
         /\ ~(conf.folders[kind] > 1) => SubFolders(kind) = {}
<1> DEFINE n == conf.folders[kind]
           g == [k \in 0 .. n - 1 |-> <<kind, <<k, Digits(n)>>>>]
<1>1. n \in Nat
  BY DEF ConfigurationType
<1>2. <<kind>> \in dirs
  BY DEF MadeDirs
<1>3. \A x : Len(<<x>>) = 1
  OBVIOUS
<1>4. \A d \in dirs : \/ \E x \in Kinds : d = <<x>>
                      \/ \E x \in Kinds : conf.folders[x] > 1 /\
                            \E k \in 0 .. conf.folders[x] - 1 : d = <<x, FolderOf(x, k)>>
  BY DEF MadeDirs
<1>5. \A d \in SubFolders(kind) : n > 1 /\ \E k \in 0 .. n - 1 : d = <<kind, FolderOf(kind, k)>>
  <2> TAKE d \in SubFolders(kind)
  <2>1. d \in dirs /\ Len(d) = 2 /\ d[1] = kind
    BY DEF SubFolders
  <2>2. PICK x \in Kinds : conf.folders[x] > 1 /\
               \E k \in 0 .. conf.folders[x] - 1 : d = <<x, FolderOf(x, k)>>
    BY <1>3, <1>4, <2>1
  <2>3. x = kind
    BY <2>1, <2>2
  <2> QED
    BY <2>2, <2>3
<1>6. CASE n > 1
  <2>1. \A k \in 0 .. n - 1 : FolderOf(kind, k) = <<k, Digits(n)>>
    <3>1. \A k \in 0 .. n - 1 : k % n = k
      BY <1>1, <1>6
    <3> QED
      BY <1>6, <3>1 DEF FolderOf
  <2>2. ASSUME NEW k \in 0 .. n - 1 PROVE g[k] \in SubFolders(kind)
    <3>1. g[k] = <<kind, FolderOf(kind, k)>>
      BY <2>1
    <3>2. g[k] \in dirs
      BY <1>6, <3>1 DEF MadeDirs
    <3>3. Len(g[k]) = 2 /\ g[k][1] = kind
      BY <3>1
    <3> QED
      BY <3>2, <3>3 DEF SubFolders
  <2>3. \A d \in SubFolders(kind) : \E k \in 0 .. n - 1 : g[k] = d
    BY <1>5, <2>1
  <2>4. \A k, l \in 0 .. n - 1 : g[k] = g[l] => k = l
    OBVIOUS
  <2>5. g \in Bijection(0 .. n - 1, SubFolders(kind))
    BY <2>2, <2>3, <2>4 DEF Bijection, Injection, IsInjective, Surjection
  <2>6. 0 \in 0 .. n - 1
    BY <1>1, <1>6
  <2>7. SubFolders(kind) # {}
    BY <2>2, <2>6
  <2> HIDE DEF g
  <2>8. Cardinality(SubFolders(kind)) = n
    BY <1>1, <2>5, CountOf
  <2> QED
    BY <1>2, <1>6, <2>7, <2>8
<1>7. CASE ~(n > 1)
  BY <1>2, <1>5, <1>7
<1> QED
  BY <1>6, <1>7

(* When all of the dataset is there, each kind is listed whole, or with an error if
   its layout is not one that the listing understands. *)
LEMMA KindIsListed ==
  ASSUME IInv, fresh, conf.generate, NEW r \in Rank, Listing(r), lost = {}, NEW kind \in Kinds
  PROVE  Listings(kind, FALSE) = {IF KindListed(kind) THEN Found(OwnFiles(kind)) ELSE Raised}
<1> DEFINE n == conf.folders[kind]
           Own == OwnFiles(kind)
<1> SUFFICES Listings(kind, FALSE) = {IF KindListed(kind) THEN Found(Own) ELSE Raised}
  OBVIOUS
<1>1. conf \in ConfigurationType /\ n \in Nat /\ conf.files[kind] \in Nat
  BY DEF IInv, Types, ConfigurationType
<1>2. ~Off /\ phase[0] # "folders"
  BY DEF IInv, FreshInv, Listing, Off
<1>3. DOMAIN store = Dataset
  <2>1. DOMAIN store \subseteq Dataset
    BY <1>2 DEF IInv, FreshInv
  <2>2. Dataset \subseteq DOMAIN store
    BY DatasetThere
  <2> QED
    BY <2>1, <2>2
<1>4. \A f \in Own : f.kind = kind /\ f.format = conf.format /\ (f.folder # Flat <=> n > 1)
  BY OwnFile
<1>5. {f \in DOMAIN store : f.kind = kind} = Own /\ OfFormat(Own) = Own
  BY <1>3, <1>4 DEF OwnFiles, OfFormat
<1>6. Own = {} <=> conf.files[kind] = 0
  BY <1>1, KindCount, FS_EmptySet
<1>7. storage \in {"file", "s3", "aistore"}
  BY DatasetAssumption DEF IInv, Types
<1>8. CASE storage # "file"
  <2>1. Listings(kind, FALSE) = {ObjectListing(kind, Own)}
    <3>1. Listings(kind, FALSE) = {ObjectListing(kind, {f \in DOMAIN store : f.kind = kind})}
      BY <1>7, <1>8 DEF Listings, ObjStoreListings, AIStoreListings
    <3> QED
      BY <1>5, <3>1
  <2>2. KindListed(kind) <=> (conf.files[kind] > 0 => n = 0)
    BY <1>8 DEF KindListed, HasEntries, Local
  <2> HIDE DEF Own
  <2>3. CASE Own = {}
    <3>1. ObjectListing(kind, Own) = Found(Own)
      BY <2>3 DEF ObjectListing
    <3>2. KindListed(kind)
      BY <1>1, <1>6, <2>2, <2>3
    <3> QED
      BY <2>1, <3>1, <3>2
  <2>4. CASE Own # {}
    <3>1. ObjectListing(kind, Own) = IF n = 0 THEN Found(Own) ELSE Raised
      BY <1>5, <2>4 DEF ObjectListing
    <3>2. KindListed(kind) <=> n = 0
      BY <1>1, <1>6, <2>2, <2>4
    <3> QED
      BY <2>1, <3>1, <3>2
  <2> QED
    BY <2>3, <2>4
<1>9. CASE storage = "file"
  <2>1. Local /\ dirs = MadeDirs
    BY <1>2, <1>9 DEF IInv, FreshInv, Local
  <2>2. Listings(kind, FALSE) = FileListings(kind)
    BY <1>9 DEF Listings
  <2>3. /\ <<kind>> \in dirs
        /\ n > 1 => SubFolders(kind) # {} /\ Cardinality(SubFolders(kind)) = n
        /\ ~(n > 1) => SubFolders(kind) = {}
    BY <1>1, <2>1, FoldersMade
  <2>4. /\ n > 1 => FlatFiles(kind) = {} /\ InFolders(kind) = Own
        /\ ~(n > 1) => FlatFiles(kind) = Own
    BY <1>3, <1>4 DEF FlatFiles, InFolders, OwnFiles
  <2>5. KindListed(kind) <=> (conf.files[kind] > 0 \/ n > 1 => n # 1)
    BY <2>1 DEF KindListed, HasEntries
  <2> HIDE DEF Own
  <2>6. CASE n > 1
    <3>1. Cardinality({}) = 0
      BY FS_EmptySet
    <3>2. n = Cardinality(SubFolders(kind)) + Cardinality(FlatFiles(kind))
      BY <1>1, <2>3, <2>4, <2>6, <3>1
    <3>3. FileListings(kind) = {Found(OfFormat(InFolders(kind)))}
      BY <2>3, <2>4, <2>6, <3>2 DEF FileListings
    <3>4. KindListed(kind)
      BY <2>5, <2>6
    <3> QED
      BY <1>5, <2>2, <2>4, <2>6, <3>3, <3>4
  <2>7. CASE ~(n > 1) /\ Own = {}
    <3>1. FileListings(kind) = {Found({})}
      BY <2>3, <2>4, <2>7 DEF FileListings
    <3>2. KindListed(kind)
      BY <1>1, <1>6, <2>5, <2>7
    <3> QED
      BY <2>2, <2>7, <3>1, <3>2
  <2>8. CASE ~(n > 1) /\ Own # {}
    <3>1. FileListings(kind) = {IF n = 0 THEN Found(OfFormat(FlatFiles(kind))) ELSE Raised}
      BY <2>3, <2>4, <2>8 DEF FileListings
    <3>2. KindListed(kind) <=> n = 0
      BY <1>1, <1>6, <2>5, <2>8
    <3> QED
      BY <1>5, <2>2, <2>4, <2>8, <3>1, <3>2
  <2> QED
    BY <2>6, <2>7, <2>8
<1> QED
  BY <1>8, <1>9

(* The listing of a dataset that the job has generated into an empty data folder. *)
LEMMA OwnListing ==
  ASSUME IInv, fresh, conf.generate, NEW r \in Rank, ListDataset(r)
  PROVE  /\ faults' = 0 /\ Generator.objects =>
              \/ phase'[r] = "refused" /\ ~LayoutListed
              \/ phase'[r] = "listed" /\ LayoutListed /\ listed'[r] = Dataset
         /\ ~conf.only /\ phase'[r] = "listed" =>
              {f \in Dataset : f.kind = "train" \/ conf.eval} \subseteq listed'[r]
<1> DEFINE Ft == OwnFiles("train")
           Fv == OwnFiles("valid")
<1>1. /\ conf \in ConfigurationType /\ phase \in [Rank -> Phases] /\ DOMAIN listed = Rank
      /\ faults \in Nat /\ "train" \in Kinds /\ "valid" \in Kinds
  BY DEF IInv, Types, Kinds
<1>2. phase[r] = "list" /\ Listing(r) /\ ~Off
  BY DEF ListDataset, Listing, Off
<1>3. PICK failed \in SUBSET Kinds :
       /\ faults' = faults + Cardinality(failed)
       /\ \E train \in Listings("train", "train" \in failed),
             valid \in Listings("valid", "valid" \in failed) :
            IF train.ok /\ valid.ok /\ ~TooFew(train.files, valid.files)
            THEN /\ \E t \in FirstFiles(conf.files["train"], train.files),
                       v \in FirstFiles(conf.files["valid"], valid.files) :
                      listed' = [listed EXCEPT ![r] = t \cup v]
                 /\ Goto(r, "listed")
            ELSE Goto(r, "refused") /\ UNCHANGED listed
  BY DEF ListDataset
<1>4. PICK train \in Listings("train", "train" \in failed),
            valid \in Listings("valid", "valid" \in failed) :
            IF train.ok /\ valid.ok /\ ~TooFew(train.files, valid.files)
            THEN /\ \E t \in FirstFiles(conf.files["train"], train.files),
                       v \in FirstFiles(conf.files["valid"], valid.files) :
                      listed' = [listed EXCEPT ![r] = t \cup v]
                 /\ Goto(r, "listed")
            ELSE Goto(r, "refused") /\ UNCHANGED listed
  BY <1>3
<1>5. train.files \subseteq Ft /\ valid.files \subseteq Fv
  BY <1>1, <1>2, ListsOwn
<1>6. \A f \in Dataset : f \in Ft \/ f \in Fv
  BY DEF Dataset, FileName, Name, OwnFiles
<1>7. \A p \in {"refused", "listed"} : Goto(r, p) => phase'[r] = p
  BY <1>1 DEF Goto
<1>8. ASSUME ~conf.only, phase'[r] = "listed"
      PROVE  {f \in Dataset : f.kind = "train" \/ conf.eval} \subseteq listed'[r]
  <2>1. train.ok /\ valid.ok /\ ~TooFew(train.files, valid.files)
    BY <1>4, <1>7, <1>8
  <2>2. PICK t \in FirstFiles(conf.files["train"], train.files),
              v \in FirstFiles(conf.files["valid"], valid.files) :
            listed' = [listed EXCEPT ![r] = t \cup v]
    BY <1>4, <2>1
  <2>3. listed'[r] = t \cup v
    BY <1>1, <2>2
  <2>4. t = Ft
    <3>1. ~(conf.files["train"] > Cardinality(train.files))
      BY <1>8, <2>1 DEF TooFew
    <3> QED
      BY <1>1, <1>5, <2>2, <3>1, AllFirst
  <2>5. conf.eval => v = Fv
    <3> SUFFICES ASSUME conf.eval PROVE v = Fv
      OBVIOUS
    <3>1. ~(conf.files["valid"] > Cardinality(valid.files))
      BY <2>1 DEF TooFew
    <3> QED
      BY <1>1, <1>5, <2>2, <3>1, AllFirst
  <2>6. \A f \in Dataset : f.kind = "train" => f \in Ft
    BY DEF OwnFiles
  <2> QED
    BY <1>6, <2>3, <2>4, <2>5, <2>6
<1>9. ASSUME faults' = 0, Generator.objects
      PROVE  \/ phase'[r] = "refused" /\ ~LayoutListed
             \/ phase'[r] = "listed" /\ LayoutListed /\ listed'[r] = Dataset
  <2>1. faults = 0 /\ failed = {}
    <3>2. IsFiniteSet(failed) /\ Cardinality(failed) \in Nat
      BY FailedCount
    <3>3. Cardinality(failed) = 0 /\ faults = 0
      BY <1>1, <1>3, <1>9, <3>2
    <3> QED
      BY <3>2, <3>3, FS_EmptySet
  <2>2. lost = {}
    BY <1>2, <2>1 DEF IInv, FreshInv
  <2>3. /\ train \in Listings("train", FALSE) /\ valid \in Listings("valid", FALSE)
    <3>1. ("train" \in failed) = FALSE /\ ("valid" \in failed) = FALSE
      BY <2>1
    <3> QED
      BY <3>1
  <2>4. /\ train = IF KindListed("train") THEN Found(Ft) ELSE Raised
        /\ valid = IF KindListed("valid") THEN Found(Fv) ELSE Raised
    <3>1. /\ Listings("train", FALSE) = {IF KindListed("train") THEN Found(Ft) ELSE Raised}
          /\ Listings("valid", FALSE) = {IF KindListed("valid") THEN Found(Fv) ELSE Raised}
      BY <1>1, <1>2, <2>2, KindIsListed
    <3> QED
      BY <2>3, <3>1
  <2>5. LayoutListed <=> KindListed("train") /\ KindListed("valid")
    BY DEF LayoutListed, KindListed, Kinds
  <2> HIDE DEF Ft, Fv
  <2>6. CASE ~LayoutListed
    <3>1. ~train.ok \/ ~valid.ok
      BY <2>4, <2>5, <2>6 DEF Raised
    <3>2. Goto(r, "refused")
      BY <1>4, <3>1
    <3> QED
      BY <1>7, <2>6, <3>2
  <2>7. CASE LayoutListed
    <3>1. train = Found(Ft) /\ valid = Found(Fv)
      BY <2>4, <2>5, <2>7
    <3>2. train.ok /\ valid.ok /\ train.files = Ft /\ valid.files = Fv
      BY <3>1 DEF Found
    <3>3. /\ Cardinality(Ft) = conf.files["train"] /\ Cardinality(Fv) = conf.files["valid"]
          /\ conf.files["train"] \in Nat /\ conf.files["valid"] \in Nat
      BY <1>1, KindCount DEF ConfigurationType, Ft, Fv
    <3>4. ~TooFew(train.files, valid.files)
      BY <3>2, <3>3 DEF TooFew
    <3>5. PICK t \in FirstFiles(conf.files["train"], Ft), v \in FirstFiles(conf.files["valid"], Fv) :
            listed' = [listed EXCEPT ![r] = t \cup v]
      BY <1>4, <3>2, <3>4
    <3>6. Goto(r, "listed")
      BY <1>4, <3>2, <3>4
    <3>7. t = Ft /\ v = Fv
      BY <3>3, <3>5 DEF FirstFiles
    <3>8. Ft \cup Fv = Dataset
      BY <1>6 DEF Ft, Fv, OwnFiles
    <3> QED
      BY <1>1, <1>7, <2>7, <3>5, <3>6, <3>7, <3>8
  <2> QED
    BY <2>6, <2>7
<1> QED
  BY <1>8, <1>9

(* A step of another rank, or of this one before it lists, leaves where it is and
   what it has listed. *)
LEMMA OwnKept ==
  ASSUME IInv, [Next]_vars, conf'.generate, NEW r \in Rank',
         phase'[r] \in {"listed", "refused"}
  PROVE  /\ UNCHANGED <<storage, conf, fresh>> /\ faults' \in Nat /\ faults' >= faults
         /\ \/ phase'[r] = phase[r] /\ listed'[r] = listed[r]
            \/ ListDataset(r)
            \/ phase'[r] = "listed" /\ ~conf'.train
<1>1. faults \in Nat /\ phase \in [Rank -> Phases] /\ DOMAIN listed = Rank
  BY DEF IInv, Types
<1>2. CASE UNCHANGED vars
  BY <1>1, <1>2 DEF vars, job, history
<1>3. CASE StartJob
  <2>1. PICK c \in Configurations :
       /\ conf' = c
       /\ phase' = [q \in 0..c.ranks - 1 |->
            IF c.generate THEN IF q = 0 THEN "folders" ELSE "ready"
            ELSE IF c.train THEN "list" ELSE "listed"]
    BY <1>3 DEF StartJob
  <2>2. r \in 0 .. c.ranks - 1
    BY <2>1 DEF Rank
  <2> QED
    BY <2>1, <2>2
<1>4. CASE FinishJob \/ Kill
  <2>1. Rank' = Rank /\ phase' = [q \in Rank |-> "off"]
    BY <1>4 DEF FinishJob, Kill, Ended, job, Rank
  <2> QED
    BY <2>1
<1>5. CASE MakeFolders
  BY <1>1, <1>5 DEF MakeFolders, Goto, job, history, Rank
<1>6. ASSUME NEW q \in Rank, NEW p, p \notin {"listed", "refused"}, Goto(q, p) \/ phase' = phase,
             UNCHANGED <<storage, job, listed, fresh>>, faults' \in Nat, faults' >= faults
      PROVE  /\ UNCHANGED <<storage, conf, fresh>> /\ faults' \in Nat /\ faults' >= faults
             /\ phase'[r] = phase[r] /\ listed'[r] = listed[r]
  <2>1. r \in Rank
    BY <1>6 DEF job, Rank
  <2>2. phase'[r] = phase[r]
    BY <1>1, <1>6, <2>1 DEF Goto
  <2> QED
    BY <1>6, <2>2 DEF job
<1>7. ASSUME NEW q \in Rank, StartWriting(q) \/ WriteBegin(q) \/ WriteDone(q)
      PROVE  /\ UNCHANGED <<storage, conf, fresh>> /\ faults' \in Nat /\ faults' >= faults
             /\ phase'[r] = phase[r] /\ listed'[r] = listed[r]
  <2>1. UNCHANGED <<storage, job, listed, fresh, faults>>
    BY <1>7 DEF StartWriting, WriteBegin, WriteDone, history
  <2>2. \E p \in {"write", "failing", "wrote", "failed"} : Goto(q, p) \/ phase' = phase
    BY <1>7 DEF StartWriting, WriteBegin, WriteDone
  <2>3. faults' \in Nat /\ faults' >= faults
    BY <1>1, <2>1
  <2>4. PICK p \in {"write", "failing", "wrote", "failed"} : Goto(q, p) \/ phase' = phase
    BY <2>2
  <2>5. p \notin {"listed", "refused"}
    OBVIOUS
  <2> QED
    BY <1>6, <2>1, <2>3, <2>4, <2>5
<1>8. ASSUME NEW q \in Rank, NEW i, WriteEnd(q, i) \/ IndexEnd(q, i) \/ UploadFails(q, i)
      PROVE  /\ UNCHANGED <<storage, conf, fresh>> /\ faults' \in Nat /\ faults' >= faults
             /\ phase'[r] = phase[r] /\ listed'[r] = listed[r]
  <2>1. UNCHANGED <<storage, job, listed, fresh>>
    BY <1>8 DEF WriteEnd, IndexEnd, UploadFails, history
  <2>2. Goto(q, "failing") \/ phase' = phase
    BY <1>8 DEF WriteEnd, IndexEnd, UploadFails
  <2>3. faults' \in {faults, faults + 1}
    BY <1>8 DEF WriteEnd, IndexEnd, UploadFails
  <2>4. faults' \in Nat /\ faults' >= faults
    BY <1>1, <2>3
  <2>5. "failing" \notin {"listed", "refused"}
    OBVIOUS
  <2>6. UNCHANGED <<storage, job, listed, fresh>> /\ faults' \in Nat /\ faults' >= faults
    BY <2>1, <2>4
  <2> QED
    BY <1>6, <2>2, <2>5, <2>6
<1>9. ASSUME NEW q \in Rank, Generated(q)
      PROVE  /\ UNCHANGED <<storage, conf, fresh>> /\ faults' \in Nat /\ faults' >= faults
             /\ \/ phase'[r] = phase[r] /\ listed'[r] = listed[r]
                \/ phase'[r] = "listed" /\ ~conf'.train
  <2>1. /\ UNCHANGED <<storage, job, listed, fresh, faults>>
        /\ Goto(q, IF conf.train THEN "list" ELSE "listed")
    BY <1>9 DEF Generated, history
  <2>2. conf' = conf /\ Rank' = Rank
    BY <2>1 DEF job, Rank
  <2>3. phase'[r] = phase[r] \/ (phase'[r] = "listed" /\ ~conf.train)
    BY <1>1, <2>1, <2>2 DEF Goto
  <2> QED
    BY <1>1, <2>1, <2>2, <2>3
<1>10. ASSUME NEW q \in Rank, ListDataset(q)
       PROVE  /\ UNCHANGED <<storage, conf, fresh>> /\ faults' \in Nat /\ faults' >= faults
              /\ \/ phase'[r] = phase[r] /\ listed'[r] = listed[r]
                 \/ ListDataset(r)
  <2>1. UNCHANGED <<storage, job, fresh>>
    BY <1>10 DEF ListDataset, history
  <2>2. conf' = conf /\ Rank' = Rank
    BY <2>1 DEF job, Rank
  <2>3. faults' \in Nat /\ faults' >= faults
    <3>1. PICK failed \in SUBSET Kinds : faults' = faults + Cardinality(failed)
      BY <1>10 DEF ListDataset
    <3>2. Cardinality(failed) \in Nat
      BY FailedCount
    <3> QED
      BY <1>1, <3>1, <3>2
  <2>4. CASE q = r
    BY <1>10, <2>1, <2>2, <2>3, <2>4
  <2>5. CASE q # r
    <3>1. /\ \E p : Goto(q, p)
          /\ listed' = listed \/ \E l : listed' = [listed EXCEPT ![q] = l]
      BY <1>10 DEF ListDataset
    <3>2. phase'[r] = phase[r] /\ listed'[r] = listed[r]
      BY <1>1, <2>2, <2>5, <3>1 DEF Goto
    <3> QED
      BY <2>1, <2>2, <2>3, <3>2
  <2> QED
    BY <2>4, <2>5
<1> QED
  BY <1>2, <1>3, <1>4, <1>5, <1>7, <1>8, <1>9, <1>10 DEF Next

(* What a job generates into an empty data folder is what every rank then lists, or
   every rank raises if the layout is none that the listing understands; and
   whatever uploads or listings fail, no rank takes less than the dataset for it
   (generate(), walk_node and the checks of "Not enough training dataset"). *)
THEOREM GeneratedListed == Spec => []GeneratedIsListed
<1>1. Init => GeneratedIsListed
  <2> SUFFICES ASSUME Init, NEW r \in Rank PROVE phase[r] = "off"
    BY DEF GeneratedIsListed
  <2> QED
    BY DEF Init
<1>2. IInv /\ IInv' /\ GeneratedIsListed /\ [Next]_vars => GeneratedIsListed'
  <2> SUFFICES ASSUME IInv, IInv', GeneratedIsListed, [Next]_vars, fresh', conf'.generate,
                      NEW r \in Rank'
               PROVE  /\ faults' = 0 /\ Generator'.objects =>
                          /\ phase'[r] \notin {"failing", "failed"}
                          /\ phase'[r] = "refused" => ~LayoutListed'
                          /\ phase'[r] = "listed" /\ conf'.train =>
                               LayoutListed' /\ listed'[r] = Dataset'
                      /\ conf'.train /\ ~conf'.only /\ phase'[r] = "listed" =>
                          {f \in Dataset' : f.kind = "train" \/ conf'.eval} \subseteq listed'[r]
    BY DEF GeneratedIsListed
  <2>1. faults' = 0 /\ Generator'.objects => phase'[r] \notin {"failing", "failed"}
    <3>1. phase'[r] # "off" => ~Off'
      BY DEF Off
    <3> QED
      BY <3>1 DEF IInv, FreshInv
  <2>2. CASE phase'[r] \notin {"listed", "refused"}
    BY <2>1, <2>2
  <2>3. CASE phase'[r] \in {"listed", "refused"}
    <3>1. /\ fresh /\ UNCHANGED <<storage, conf>> /\ faults' \in Nat /\ faults' >= faults
          /\ \/ phase'[r] = phase[r] /\ listed'[r] = listed[r]
             \/ ListDataset(r)
             \/ phase'[r] = "listed" /\ ~conf'.train
      BY <2>3, OwnKept
    <3>2. /\ Rank' = Rank /\ Dataset' = Dataset /\ Generator' = Generator
          /\ conf' = conf /\ (LayoutListed' <=> LayoutListed)
      BY <3>1, SameJob DEF LayoutListed, HasEntries, Local
    <3>3. faults \in Nat /\ (faults' = 0 => faults = 0)
      BY <3>1 DEF IInv, Types
    <3>4. CASE phase'[r] = phase[r] /\ listed'[r] = listed[r]
      <4>1. /\ faults = 0 /\ Generator.objects =>
                /\ phase[r] = "refused" => ~LayoutListed
                /\ phase[r] = "listed" /\ conf.train => LayoutListed /\ listed[r] = Dataset
            /\ conf.train /\ ~conf.only /\ phase[r] = "listed" =>
                {f \in Dataset : f.kind = "train" \/ conf.eval} \subseteq listed[r]
        BY <3>1, <3>2 DEF GeneratedIsListed
      <4> QED
        BY <2>1, <3>2, <3>3, <3>4, <4>1
    <3>5. CASE ListDataset(r)
      <4>1. /\ faults' = 0 /\ Generator.objects =>
                 \/ phase'[r] = "refused" /\ ~LayoutListed
                 \/ phase'[r] = "listed" /\ LayoutListed /\ listed'[r] = Dataset
            /\ ~conf.only /\ phase'[r] = "listed" =>
                 {f \in Dataset : f.kind = "train" \/ conf.eval} \subseteq listed'[r]
        BY <3>1, <3>2, <3>5, OwnListing
      <4> QED
        BY <2>1, <3>2, <4>1
    <3>6. CASE phase'[r] = "listed" /\ ~conf'.train
      BY <2>1, <3>6
    <3> QED
      BY <3>1, <3>4, <3>5, <3>6
  <2> QED
    BY <2>2, <2>3
<1> QED
  BY <1>1, <1>2, DatasetSafe, PTL DEF Spec

-------------------------------------------------------------------------------
(* The order of names *)

(* How many digits a number has is a number. *)
LEMMA DigitsType ==
  ASSUME NEW n \in Nat
  PROVE  Digits(n) \in Nat
<1> DEFINE S == {k \in 1 .. n : 10^k <= n}
<1>1. IsFiniteSet(1 .. n)
  BY FS_Interval
<1>2. S \subseteq 1 .. n
  OBVIOUS
<1>3. Digits(n) = Cardinality(S) + 1
  BY DEF Digits
<1> HIDE DEF S
<1>4. Cardinality(S) \in Nat
  BY <1>1, <1>2, FS_Subset, FS_CardinalityType
<1> QED
  BY <1>3, <1>4

(* Of names with sizes of as many digits, the smaller number comes first, and the
   smaller size of two with one number. *)
LEMMA NumberOrder ==
  ASSUME NEW f, NEW g, f.of \in Nat, g.of \in Nat, f.number \in Nat, g.number \in Nat,
         Digits(f.of) = Digits(g.of)
  PROVE  NamePrecedes(f, g)
           <=> f.number < g.number \/ (f.number = g.number /\ f.of < g.of)
<1>1. PICK d \in Nat : d = Digits(f.of) /\ d = Digits(g.of)
  BY DigitsType
<1>2. Min({d, d}) = d
  BY DEF Min
<1>3. 10^(d - Min({d, d})) = 1
  <2>1. d - Min({d, d}) = 0
    BY <1>1, <1>2
  <2>2. 10^0 = 1
    OBVIOUS
  <2> QED
    BY <2>1, <2>2
<1> DEFINE x == f.number \div 10^(d - Min({d, d}))
           y == g.number \div 10^(d - Min({d, d}))
<1>4. NamePrecedes(f, g) <=> x < y \/ (x = y /\ d > d) \/ (x = y /\ d = d /\ f.of < g.of)
  BY <1>1 DEF NamePrecedes
<1>5. x = f.number /\ y = g.number
  <2>1. f.number \div 1 = f.number /\ g.number \div 1 = g.number
    OBVIOUS
  <2> QED
    BY <1>3, <2>1
<1> HIDE DEF x, y
<1> QED
  BY <1>1, <1>4, <1>5

(* The first n of the files in a folder hold the n that are of n if and only if none
   of another size has a smaller number than their last one. *)
LEMMA FirstOwn ==
  ASSUME NEW n \in Nat, NEW T, IsFiniteSet(T), NEW t \in FirstFiles(n, T), NEW D \in SUBSET T,
         Cardinality(D) = n,
         \A f \in T : /\ f.of \in Nat /\ Digits(f.of) = Digits(n) /\ f.number \in Nat /\ f.number < f.of
                      /\ f.folder = Flat /\ (f \in D <=> f.of = n),
         n > 0 => \E f \in D : f.number = n - 1
  PROVE  D \subseteq t <=> \A f \in T : f.of # n => f.number >= n - 1
<1>1. IsFiniteSet(D)
  BY FS_Subset
<1>2. CASE Cardinality(T) <= n
  <2>1. t = T
    BY <1>2 DEF FirstFiles
  <2>2. D = T
    BY <1>1, <1>2, FS_Subset, FS_CardinalityType
  <2> QED
    BY <2>1, <2>2
<1>3. CASE ~(Cardinality(T) <= n)
  <2>1. t \in SUBSET T /\ Cardinality(t) = n /\ \A f \in t, g \in T \ t : ~Precedes(g, f)
    BY <1>3 DEF FirstFiles, kSubset
  <2>2. IsFiniteSet(t)
    BY <2>1, FS_Subset
  <2>3. \A f, g \in T : Precedes(f, g)
          <=> f.number < g.number \/ (f.number = g.number /\ f.of < g.of)
    <3> SUFFICES ASSUME NEW f \in T, NEW g \in T
                 PROVE  Precedes(f, g)
                          <=> f.number < g.number \/ (f.number = g.number /\ f.of < g.of)
      OBVIOUS
    <3>1. NamePrecedes(f, g)
            <=> f.number < g.number \/ (f.number = g.number /\ f.of < g.of)
      BY NumberOrder
    <3>2. f.folder = Flat /\ g.folder = Flat
      OBVIOUS
    <3> QED
      BY <3>1, <3>2 DEF Precedes, PathPrecedes
  <2>4. ASSUME D \subseteq t, NEW f \in T, f.of # n PROVE f.number >= n - 1
    <3>1. D = t
      BY <1>1, <2>1, <2>2, <2>4, FS_Subset
    <3>2. CASE n = 0
      BY <3>2
    <3>3. CASE n > 0
      <4>1. PICK l \in D : l.number = n - 1
        BY <3>3
      <4>2. ~Precedes(f, l)
        BY <2>1, <2>4, <3>1
      <4> QED
        BY <2>3, <2>4, <4>1, <4>2
    <3> QED
      BY <3>2, <3>3
  <2>5. ASSUME \A f \in T : f.of # n => f.number >= n - 1, NEW d \in D, d \notin t PROVE FALSE
    <3>1. ~(t \subseteq D)
      <4> SUFFICES ASSUME t \subseteq D PROVE FALSE
        OBVIOUS
      <4>1. t = D
        BY <1>1, <2>1, <2>2, FS_Subset
      <4> QED
        BY <2>5, <4>1
    <3>2. PICK e \in t : e \notin D
      BY <3>1
    <3>3. e \in T /\ e.of # n /\ e.number >= n - 1 /\ e.number < e.of /\ e.number \in Nat
          /\ e.of \in Nat
      BY <2>1, <2>5, <3>2
    <3>4. d.of = n /\ d.number < n /\ d.number \in Nat /\ d \in T \ t
      BY <2>5
    <3>5. Precedes(d, e)
      BY <2>3, <3>3, <3>4
    <3> QED
      BY <2>1, <3>4, <3>5
  <2> QED
    BY <2>4, <2>5
<1> QED
  BY <1>2, <1>3

-------------------------------------------------------------------------------
(* What earlier jobs have left *)

(* Of the files in the data folder there are finitely many, each one of a dataset. *)
Inventory ==
  /\ IsFiniteSet(DOMAIN store) /\ IsFiniteSet(dirs)
  /\ \A f \in DOMAIN store :
       /\ f = [kind |-> f.kind, folder |-> f.folder, number |-> f.number, of |-> f.of,
               format |-> f.format]
       /\ f.of \in Nat /\ f.number \in 0 .. f.of - 1

(* The names of a dataset are such names. *)
LEMMA NameOfFile ==
  ASSUME conf \in ConfigurationType, NEW i \in 0 .. Total - 1, NEW f, f = FileName(i)
  PROVE  /\ f = [kind |-> f.kind, folder |-> f.folder, number |-> f.number, of |-> f.of,
                 format |-> f.format]
         /\ f.of \in Nat /\ f.number \in 0 .. f.of - 1
<1>1. conf.files["train"] \in Nat /\ conf.files["valid"] \in Nat
  BY DEF ConfigurationType, Kinds
<1>2. \/ f = Name("train", i) /\ i \in 0 .. conf.files["train"] - 1
      \/ f = Name("valid", i - conf.files["train"])
           /\ i - conf.files["train"] \in 0 .. conf.files["valid"] - 1
  BY <1>1 DEF FileName, Total
<1> QED
  BY <1>1, <1>2 DEF Name

(* A file more *)
LEMMA FileAdded ==
  ASSUME IInv, Inventory, NEW r \in Rank, NEW i \in Share(r), NEW v,
         store' = Put(store, FileName(i), v), dirs' = dirs
  PROVE  Inventory'
<1>1. DOMAIN store' = DOMAIN store \cup {FileName(i)}
  BY DEF Put
<1>2. IsFiniteSet(DOMAIN store')
  BY <1>1, FS_AddElement DEF Inventory
<1>3. i \in 0 .. Total - 1 /\ conf \in ConfigurationType
  BY DEF Share, IInv, Types
<1> QED
  BY <1>1, <1>2, <1>3, NameOfFile DEF Inventory

(* The folders more *)
LEMMA FoldersAdded ==
  ASSUME IInv, Inventory, MakeFolders
  PROVE  Inventory'
<1> DEFINE folders(kind) == {<<kind, FolderOf(kind, k)>> : k \in 0 .. conf.folders[kind] - 1}
<1>1. \A kind \in Kinds : IsFiniteSet(folders(kind))
  <2> TAKE kind \in Kinds
  <2>1. conf.folders[kind] \in Nat
    BY DEF IInv, Types, ConfigurationType
  <2> DEFINE n == conf.folders[kind]
             g == [k \in 0 .. n - 1 |-> <<kind, FolderOf(kind, k)>>]
  <2>2. IsFiniteSet(0 .. n - 1)
    BY <2>1, FS_Interval
  <2>3. g \in Surjection(0 .. n - 1, folders(kind))
    BY DEF Surjection
  <2> HIDE DEF n, g, folders
  <2> QED
    BY <2>2, <2>3, FS_Surjection
<1>2. dirs' \subseteq dirs \cup {<<"train">>} \cup {<<"valid">>}
                        \cup folders("train") \cup folders("valid")
  BY DEF MakeFolders, Kinds
<1>3. IsFiniteSet(dirs \cup {<<"train">>} \cup {<<"valid">>})
  BY FS_AddElement DEF Inventory
<1>4. IsFiniteSet(dirs \cup {<<"train">>} \cup {<<"valid">>}
                   \cup folders("train") \cup folders("valid"))
  <2>1. "train" \in Kinds /\ "valid" \in Kinds
    BY DEF Kinds
  <2> HIDE DEF folders
  <2>2. IsFiniteSet(folders("train")) /\ IsFiniteSet(folders("valid"))
    BY <1>1, <2>1
  <2> QED
    BY <1>3, <2>2, FS_Union
<1>5. IsFiniteSet(dirs')
  BY <1>2, <1>4, FS_Subset
<1>6. store' = store
  BY DEF MakeFolders
<1> QED
  BY <1>5, <1>6 DEF Inventory

(* Every step keeps the inventory. *)
LEMMA InventoryKept ==
  ASSUME IInv, Inventory, [Next]_vars
  PROVE  Inventory'
<1>1. ASSUME UNCHANGED <<store, dirs>> PROVE Inventory'
  BY <1>1 DEF Inventory
<1>2. CASE UNCHANGED vars \/ StartJob \/ Kill
  BY <1>1, <1>2 DEF vars, StartJob, Kill
<1>3. CASE FinishJob
  <2>1. CASE Deletes
    <3>1. store' = << >> /\ dirs' = {}
      BY <1>3, <2>1 DEF FinishJob
    <3> QED
      BY <3>1, FS_EmptySet DEF Inventory
  <2>2. CASE ~Deletes
    BY <1>1, <1>3, <2>2 DEF FinishJob
  <2> QED
    BY <2>1, <2>2
<1>4. CASE MakeFolders
  BY <1>4, FoldersAdded
<1>5. ASSUME NEW r \in Rank,
             StartWriting(r) \/ WriteDone(r) \/ Generated(r) \/ ListDataset(r)
      PROVE  Inventory'
  BY <1>1, <1>5 DEF StartWriting, WriteDone, Generated, ListDataset
<1>6. ASSUME NEW r \in Rank, WriteBegin(r) PROVE Inventory'
  <2> DEFINE i == r + begun[r] * conf.ranks
  <2>1. /\ begun[r] < Cardinality(Share(r)) /\ dirs' = dirs
        /\ store' = store \/ store' = Put(store, FileName(i), Cut)
    BY <1>6 DEF WriteBegin, MoreFiles
  <2>2. conf \in ConfigurationType /\ begun[r] \in Nat
    BY DEF IInv, Types
  <2>3. i \in Share(r)
    BY <2>1, <2>2, NthOfShare DEF ShareSize
  <2> HIDE DEF i
  <2> QED
    BY <1>1, <2>1, <2>3, FileAdded
<1>7. ASSUME NEW r \in Rank, NEW i \in Share(r),
             WriteEnd(r, i) \/ IndexEnd(r, i) \/ UploadFails(r, i)
      PROVE  Inventory'
  <2>1. dirs' = dirs /\ (store' = store \/ store' = Put(store, FileName(i), Generator.samples))
    BY <1>7 DEF WriteEnd, IndexEnd, UploadFails
  <2> QED
    BY <1>1, <2>1, FileAdded
<1> QED
  BY <1>2, <1>3, <1>4, <1>5, <1>6, <1>7 DEF Next

(* While a rank that lists what its job has generated, or has listed it, is there,
   nothing is written. *)
LEMMA StoreSettled ==
  ASSUME IInv, [Next]_vars, conf.generate, NEW r \in Rank, Listing(r), phase'[r] # "off"
  PROVE  store' = store
<1>1. \A q \in Rank : active[q] = {} /\ Wrote(q)
  BY AllWritten DEF IInv, PhaseInv
<1>2. CASE UNCHANGED vars \/ MakeFolders
  BY <1>2 DEF vars, MakeFolders
<1>3. ~StartJob
  BY DEF StartJob, Off, Listing
<1>4. ~FinishJob /\ ~Kill
  BY DEF FinishJob, Kill, Ended
<1>5. ASSUME NEW q \in Rank PROVE ~WriteBegin(q)
  BY <1>1 DEF WriteBegin, Writing, Wrote
<1>6. ASSUME NEW q \in Rank,
             StartWriting(q) \/ WriteDone(q) \/ Generated(q) \/ ListDataset(q)
      PROVE  store' = store
  BY <1>6 DEF StartWriting, WriteDone, Generated, ListDataset
<1>7. ASSUME NEW q \in Rank, NEW i \in Share(q),
             WriteEnd(q, i) \/ IndexEnd(q, i) \/ UploadFails(q, i)
      PROVE  store' = store
  BY <1>1, <1>7 DEF WriteEnd, IndexEnd, UploadFails
<1> QED
  BY <1>2, <1>3, <1>4, <1>5, <1>6, <1>7 DEF Next

(* Without sub-folders a job lists the files of its format that lie in the folder. *)
LEMMA FlatListing ==
  ASSUME IInv, Inventory, Local, NEW kind \in Kinds, conf.folders[kind] = 0, NEW failed,
         NEW listing \in Listings(kind, failed), listing.ok
  PROVE  listing.files = OfFormat(FlatFiles(kind))
<1>1. listing \in FileListings(kind)
  BY DEF Listings, Local
<1>2. IsFiniteSet(SubFolders(kind)) /\ IsFiniteSet(FlatFiles(kind))
  BY FS_Subset DEF Inventory, SubFolders, FlatFiles
<1>3. /\ Cardinality(SubFolders(kind)) \in Nat /\ Cardinality(FlatFiles(kind)) \in Nat
      /\ Cardinality(SubFolders(kind)) = 0 <=> SubFolders(kind) = {}
  BY <1>2, FS_CardinalityType, FS_EmptySet
<1>4. ~Raised.ok
  BY DEF Raised
<1>5. SubFolders(kind) # {} =>
        conf.folders[kind] # Cardinality(SubFolders(kind)) + Cardinality(FlatFiles(kind))
  BY <1>3
<1>6. listing \in {Raised, Found(OfFormat(FlatFiles(kind)))}
  <2>1. CASE SubFolders(kind) = {} /\ FlatFiles(kind) = {}
    <3>1. OfFormat(FlatFiles(kind)) = {}
      BY <2>1 DEF OfFormat
    <3> QED
      BY <1>1, <2>1, <3>1 DEF FileListings
  <2>2. CASE ~(SubFolders(kind) = {} /\ FlatFiles(kind) = {})
    BY <1>1, <1>5, <2>2 DEF FileListings
  <2> QED
    BY <2>1, <2>2
<1> QED
  BY <1>4, <1>6 DEF Found

(* What a rank finds of its own training files among those of other sizes. *)
LEMMA OwnAmongLeftovers ==
  ASSUME IInv, Inventory, conf.generate, ~conf.only, Local, conf.folders["train"] = 0,
         NEW r \in Rank, ListDataset(r), phase'[r] = "listed",
         \A f \in OfFormat(FlatFiles("train")) : f.of # conf.files["train"] =>
           Digits(f.of) = Digits(conf.files["train"])
  PROVE  OwnFiles("train") \subseteq listed'[r]
           <=> \A f \in OfFormat(FlatFiles("train")) :
                 f.of # conf.files["train"] => f.number >= conf.files["train"] - 1
<1> DEFINE n == conf.files["train"]
           T == OfFormat(FlatFiles("train"))
           D == OwnFiles("train")
<1>1. /\ conf \in ConfigurationType /\ phase \in [Rank -> Phases] /\ DOMAIN listed = Rank
      /\ "train" \in Kinds /\ "valid" \in Kinds /\ n \in Nat
  BY DEF IInv, Types, Kinds, ConfigurationType
<1>2. Listing(r)
  BY DEF ListDataset, Listing
<1>3. PICK failed \in SUBSET Kinds :
        \E train \in Listings("train", "train" \in failed),
           valid \in Listings("valid", "valid" \in failed) :
            IF train.ok /\ valid.ok /\ ~TooFew(train.files, valid.files)
            THEN /\ \E t \in FirstFiles(conf.files["train"], train.files),
                       v \in FirstFiles(conf.files["valid"], valid.files) :
                      listed' = [listed EXCEPT ![r] = t \cup v]
                 /\ Goto(r, "listed")
            ELSE Goto(r, "refused") /\ UNCHANGED listed
  BY DEF ListDataset
<1>4. PICK train \in Listings("train", "train" \in failed),
           valid \in Listings("valid", "valid" \in failed) :
            IF train.ok /\ valid.ok /\ ~TooFew(train.files, valid.files)
            THEN /\ \E t \in FirstFiles(conf.files["train"], train.files),
                       v \in FirstFiles(conf.files["valid"], valid.files) :
                      listed' = [listed EXCEPT ![r] = t \cup v]
                 /\ Goto(r, "listed")
            ELSE Goto(r, "refused") /\ UNCHANGED listed
  BY <1>3
<1>5. ~Goto(r, "refused")
  BY <1>1 DEF Goto
<1>6. train.ok /\ valid.ok
  BY <1>4, <1>5
<1>7. train.files = T
  BY <1>1, <1>6, FlatListing
<1>8. PICK t \in FirstFiles(n, T), v \in FirstFiles(conf.files["valid"], valid.files) :
        listed' = [listed EXCEPT ![r] = t \cup v]
  BY <1>4, <1>5, <1>7
<1>9. listed'[r] = t \cup v
  BY <1>1, <1>8
<1>10. \A f \in v : f.kind = "valid"
  <2>1. valid \in FileListings("valid")
    BY DEF Listings, Local
  <2>2. valid \in {Raised, Found({}), Found(OfFormat(InFolders("valid"))),
                   Found(OfFormat(FlatFiles("valid")))}
    BY <2>1 DEF FileListings
  <2>3. \A f \in valid.files : f.kind = "valid"
    BY <2>2 DEF Found, Raised, OfFormat, InFolders, FlatFiles
  <2> QED
    BY <2>3, FirstFilesWithin
<1>11. D \subseteq listed'[r] <=> D \subseteq t
  BY <1>9, <1>10 DEF OwnFiles
<1>12. IsFiniteSet(T)
  BY FS_Subset DEF Inventory, OfFormat, FlatFiles
<1>13. \A f \in D : f.kind = "train" /\ f.format = conf.format /\ f.folder = Flat
  BY <1>1, OwnFile
<1>14. D \subseteq T
  <2>1. lost = {}
    BY DEF IInv, DataInv, LostInv, Local
  <2>2. D \subseteq DOMAIN store
    BY <1>2, <2>1, DatasetThere DEF OwnFiles
  <2> QED
    BY <1>13, <2>2 DEF OfFormat, FlatFiles
<1>15. \A k \in 0 .. n - 1 : Name("train", k) \in D
  <2> TAKE k \in 0 .. n - 1
  <2>1. conf.files["valid"] \in Nat
    BY <1>1 DEF ConfigurationType
  <2>2. k \in 0 .. Total - 1 /\ FileName(k) = Name("train", k)
    BY <1>1, <2>1 DEF Total, FileName
  <2> QED
    BY <2>2 DEF OwnFiles, Dataset, Name
<1>16. ASSUME NEW f \in T
       PROVE  /\ f.of \in Nat /\ f.number \in Nat /\ f.number < f.of /\ f.folder = Flat
              /\ f \in D <=> f.of = n
  <2>1. /\ f = [kind |-> f.kind, folder |-> f.folder, number |-> f.number, of |-> f.of,
                format |-> f.format]
        /\ f.of \in Nat /\ f.number \in 0 .. f.of - 1
        /\ f.kind = "train" /\ f.folder = Flat /\ f.format = conf.format
    BY DEF Inventory, OfFormat, FlatFiles
  <2>2. ASSUME f.of = n PROVE f \in D
    <3>1. f = Name("train", f.number)
      BY <2>1, <2>2 DEF Name, FolderOf
    <3> QED
      BY <1>15, <2>1, <2>2, <3>1
  <2>3. ASSUME f \in D PROVE f.of = n
    <3>1. PICK i : f = FileName(i)
      BY <2>3 DEF OwnFiles, Dataset
    <3> QED
      BY <2>1, <3>1 DEF FileName, Name
  <2> QED
    BY <2>1, <2>2, <2>3
<1>17. Cardinality(D) = n
  BY <1>1, KindCount
<1>18. n > 0 => \E f \in D : f.number = n - 1
  <2>1. n > 0 => n - 1 \in 0 .. n - 1
    BY <1>1
  <2>2. Name("train", n - 1).number = n - 1
    BY DEF Name
  <2> QED
    BY <1>15, <2>1, <2>2
<1>19. \A f \in T : Digits(f.of) = Digits(n)
  OBVIOUS
<1>20. D \subseteq t <=> \A f \in T : f.of # n => f.number >= n - 1
  <2> HIDE DEF n, T, D
  <2> QED
    BY <1>1, <1>8, <1>12, <1>14, <1>16, <1>17, <1>18, <1>19, FirstOwn
<1> QED
  BY <1>11, <1>20

(* A job lists all its own training files, in a folder where other sizes have been
   generated, if and only if no file of those has a smaller number than its last one
   (os.listdir and sorted in main.py, the names of get_file_name). *)
THEOREM LeftoversAreRead == Spec => []LeftoversRead
<1>1. Init => Inventory /\ LeftoversRead
  <2>1. ASSUME Init PROVE Inventory
    <3>1. store = << >> /\ dirs = {}
      BY <2>1 DEF Init
    <3> QED
      BY <3>1, FS_EmptySet DEF Inventory
  <2>2. ASSUME Init, NEW r \in Rank PROVE phase[r] = "off"
    BY <2>2 DEF Init
  <2> QED
    BY <2>1, <2>2 DEF LeftoversRead
<1>2. IInv /\ Inventory /\ LeftoversRead /\ [Next]_vars => Inventory' /\ LeftoversRead'
  <2> SUFFICES ASSUME IInv, Inventory, LeftoversRead, [Next]_vars PROVE LeftoversRead'
    BY InventoryKept
  <2> SUFFICES ASSUME NEW r \in Rank', phase'[r] = "listed", conf'.generate, conf'.train,
                      ~conf'.only, Local', conf'.folders["train"] = 0,
                      \A f \in OfFormat(FlatFiles("train"))' : f.of # conf'.files["train"] =>
                        Digits(f.of) = Digits(conf'.files["train"])
               PROVE  {f \in Dataset' : f.kind = "train"} \subseteq listed'[r]
                        <=> \A f \in OfFormat(FlatFiles("train"))' :
                              f.of # conf'.files["train"] => f.number >= conf'.files["train"] - 1
    BY DEF LeftoversRead
  <2>1. /\ UNCHANGED <<storage, conf, fresh>>
        /\ \/ phase'[r] = phase[r] /\ listed'[r] = listed[r]
           \/ ListDataset(r)
           \/ phase'[r] = "listed" /\ ~conf'.train
    BY OwnKept
  <2>2. Rank' = Rank /\ Dataset' = Dataset /\ conf' = conf /\ (Local' <=> Local)
    BY <2>1, SameJob
  <2>3. r \in Rank /\ Listing(r) /\ conf.generate
    BY <2>1, <2>2 DEF Listing, ListDataset
  <2>4. store' = store
    BY <2>3, StoreSettled
  <2>5. OfFormat(FlatFiles("train"))' = OfFormat(FlatFiles("train"))
    BY <2>2, <2>4 DEF OfFormat, FlatFiles
  <2>6. CASE phase'[r] = phase[r] /\ listed'[r] = listed[r]
    <3>1. {f \in Dataset : f.kind = "train"} \subseteq listed[r]
            <=> \A f \in OfFormat(FlatFiles("train")) :
                  f.of # conf.files["train"] => f.number >= conf.files["train"] - 1
      BY <2>2, <2>3, <2>5, <2>6 DEF LeftoversRead
    <3> QED
      BY <2>2, <2>5, <2>6, <3>1
  <2>7. CASE ListDataset(r)
    <3>1. OwnFiles("train") \subseteq listed'[r]
            <=> \A f \in OfFormat(FlatFiles("train")) :
                  f.of # conf.files["train"] => f.number >= conf.files["train"] - 1
      BY <2>2, <2>3, <2>5, <2>7, OwnAmongLeftovers
    <3> QED
      BY <2>2, <2>5, <3>1 DEF OwnFiles
  <2> QED
    BY <2>1, <2>6, <2>7
<1> QED
  BY <1>1, <1>2, DatasetSafe, PTL DEF Spec
===============================================================================
