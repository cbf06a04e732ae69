----------------------------- MODULE PrefetchProofs -----------------------------
(***************************************************************************)
(* Proofs about Prefetch, for every set of configurations: any reads, files *)
(* of any number of samples, batches and epochs of any size, every class of *)
(* ReaderFactory, requests answered in any order, and requests that fail.   *)
(*                                                                         *)
(* Types bounds the counters.  BatchInv says what they count, and makes     *)
(* every step one of Delivery or a stutter.  SizesInv says that counts are  *)
(* those of their files (CountsInv), that a prefetch leaves those of all    *)
(* files still needed (HeldInv), and what that is in an open file (OpenInv) *)
(* and in the report (ReportInv).  RequestsInv says in which stage of its   *)
(* prefetches a class can be; FilesInv, by the four ways in which classes   *)
(* and modes come to a file, how often each has been asked for.             *)
(***************************************************************************)
EXTENDS Prefetch, SequenceTheorems, FiniteSetTheorems, TLAPS

-------------------------------------------------------------------------------
(* Types *)

Places == {"construct", "call", "prefetch", "fetch", "open", "get_sample", "close",
           "done", "failed"}

Types ==
  /\ conf \in Configurations
  /\ pc \in Places
  /\ epoch \in 1 .. conf.epochs
  /\ image_processed \in 0 .. Len(Reads)
  /\ batch \in 0 .. conf.batch - 1
  /\ step \in Nat \ {0}
  /\ pc \in {"prefetch", "fetch", "get_sample"} => image_processed < Len(Reads)
  /\ pc = "close" => image_processed > 0

(* What the configurations are. *)
LEMMA ConfType ==
  ASSUME conf \in Configurations
  PROVE  /\ conf \in ConfigurationType /\ Reads \in Seq(Nat \X Nat) /\ Len(Reads) \in Nat
         /\ conf.batch \in Nat \ {0} /\ conf.epochs \in Nat \ {0} /\ conf.perFile \in Nat \ {0}
         /\ DOMAIN Reads = 1 .. Len(Reads)
         /\ \A i \in 1 .. Len(Reads) : Reads[i] \in Nat \X Nat /\ Reads[i][1] \in Files
         /\ OneShot => ~Indexed
<1>1. conf \in ConfigurationType
  BY ConfigurationsAssumption
<1>2. Reads \in Seq(Nat \X Nat)
  BY <1>1 DEF ConfigurationType, Reads
<1>3. Len(Reads) \in Nat /\ DOMAIN Reads = 1 .. Len(Reads)
  BY <1>2, LenProperties
<1>4. \A i \in 1 .. Len(Reads) : Reads[i] \in Nat \X Nat
  BY <1>2, <1>3, ElementOfSeq
<1>5. OneShot => ~Indexed
  BY ConfigurationsAssumption DEF OneShot, Indexed
<1> QED
  BY <1>1, <1>2, <1>3, <1>4, <1>5 DEF ConfigurationType, Files

(* What the configuration determines. *)
LEMMA SameReader ==
  ASSUME [Next]_vars
  PROVE  conf' = conf
  BY DEF Next, vars, Construct, Call, Prefetch, Answer, Install, RequestFails, Prefetched,
     Open, GetSample, GetSampleIndex, Close, EndEpoch, Terminated

(* What follows from conf alone does not change while conf does not. *)
LEMMA SameConf ==
  ASSUME conf' = conf
  PROVE  /\ Reads' = Reads /\ Files' = Files /\ (Indexed' <=> Indexed) /\ (Demand' <=> Demand)
         /\ (OneShot' <=> OneShot) /\ Class' = Class /\ (NotAFile' <=> NotAFile)
         /\ (Refused' <=> Refused) /\ (FileByFile' <=> FileByFile)
  BY DEF Reads, Files, Indexed, Demand, OneShot, Class, NotAFile, Refused, FileByFile,
     OnObjects, Iterable, TFRecordReaderS3Iterable

(* A reader starts at its constructor, before the first sample. *)
LEMMA TypesInit == Init => Types
<1> SUFFICES ASSUME Init PROVE Types
  OBVIOUS
<1>1. conf \in Configurations /\ pc = "construct" /\ epoch = 1 /\ image_processed = 0
      /\ batch = 0 /\ step = 1
  BY DEF Init
<1>2. Len(Reads) \in Nat /\ conf.batch \in Nat \ {0} /\ conf.epochs \in Nat \ {0}
  BY <1>1, ConfType
<1> QED
  BY <1>1, <1>2 DEF Types, Places

(* Every step keeps the counters in their ranges. *)
LEMMA TypesNext == Types /\ [Next]_vars => Types'
<1> SUFFICES ASSUME Types, [Next]_vars PROVE Types'
  OBVIOUS
<1>1. conf' = conf /\ Reads' = Reads
  BY SameReader, SameConf
<1>2. /\ conf \in Configurations /\ Len(Reads) \in Nat /\ conf.batch \in Nat \ {0}
      /\ conf.epochs \in Nat \ {0}
  BY ConfType DEF Types
<1>3. CASE /\ UNCHANGED <<epoch, image_processed, batch, step>>
           /\ pc' \in Places \ {"close"}
           /\ pc' \in {"prefetch", "fetch", "get_sample"} => image_processed < Len(Reads)
  BY <1>1, <1>3 DEF Types
<1>4. CASE Construct \/ Call \/ Prefetch \/ Answer \/ Install \/ RequestFails
  BY <1>3, <1>4 DEF Construct, Call, Prefetch, Answer, Install, RequestFails, Types, Places
<1>5. CASE Prefetched \/ Open \/ Close
  BY <1>3, <1>5 DEF Prefetched, Open, Opened, Close, Types, Places
<1>6. CASE GetSample
  <2>1. image_processed < Len(Reads) /\ image_processed' = image_processed + 1
        /\ pc' \in {"close", "open"} /\ UNCHANGED epoch
        /\ \/ batch' = 0 /\ step' = step + 1
           \/ batch' = batch + 1 /\ step' = step /\ batch + 1 # conf.batch
    BY <1>6 DEF GetSample, Types, BatchFull
  <2>2. batch' \in 0 .. conf.batch - 1 /\ step' \in Nat \ {0}
    BY <1>2, <2>1 DEF Types
  <2> QED
    BY <1>1, <1>2, <2>1, <2>2 DEF Types, Places
<1>7. CASE GetSampleIndex
  <2>1. image_processed < Len(Reads) /\ image_processed' = image_processed + 1
        /\ pc' \in {"close", "open", "call"} /\ UNCHANGED <<epoch, batch, step>>
    BY <1>7 DEF GetSampleIndex, Types
  <2> QED
    BY <1>1, <1>2, <2>1 DEF Types, Places
<1>8. CASE EndEpoch
  <2>1. CASE epoch = conf.epochs
    BY <1>1, <1>8, <2>1 DEF EndEpoch, Types, Places
  <2>2. CASE epoch # conf.epochs
    <3>1. /\ epoch' = epoch + 1 /\ batch' = 0 /\ step' = 1
          /\ \/ pc' = pc /\ image_processed' = image_processed
             \/ pc' = "call" /\ image_processed' = 0
      BY <1>8, <2>2 DEF EndEpoch
    <3>2. epoch' \in 1 .. conf.epochs
      BY <1>2, <2>2, <3>1 DEF Types
    <3> QED
      BY <1>1, <1>2, <3>1, <3>2 DEF Types, Places
  <2> QED
    BY <2>1, <2>2
<1>9. CASE UNCHANGED vars
  BY <1>9 DEF Types, vars, Places, Reads
<1> QED
  BY <1>4, <1>5, <1>6, <1>7, <1>8, <1>9 DEF Next, Terminated

(* Where a reader can be, and what its counters count. *)
THEOREM PrefetchTypeCorrect == Spec => []Types
  BY TypesInit, TypesNext, PTL DEF Spec

-------------------------------------------------------------------------------
(* Delivery *)

(* A number between a multiple and the next has that quotient. *)
LEMMA QuotientOf ==
  ASSUME NEW n \in Nat \ {0}, NEW k \in Nat, NEW m \in 0 .. n - 1, NEW a, a = k * n + m
  PROVE  a \in Nat /\ a \div n = k
<1>1. k * n \in Nat /\ a \in Nat
  OBVIOUS
<1>2. PICK q \in Nat, s \in 0 .. n - 1 : a = n * q + s /\ a \div n = q
  <2>1. a \div n \in Nat /\ a = n * (a \div n) + (a % n) /\ a % n \in 0 .. n - 1
    BY <1>1
  <2> QED
    BY <2>1
<1>3. n * q \in Nat /\ n * q = q * n
  OBVIOUS
<1>4. CASE q >= k + 1
  <2>1. PICK d \in Nat : q = k + 1 + d
    BY <1>4, q - k - 1 \in Nat
  <2>2. d * n \in Nat /\ q * n = k * n + n + d * n
    BY <2>1
  <2> QED
    BY <1>1, <1>2, <1>3, <2>2
<1>5. CASE k >= q + 1
  <2>1. PICK d \in Nat : k = q + 1 + d
    BY <1>5, k - q - 1 \in Nat
  <2>2. d * n \in Nat /\ k * n = q * n + n + d * n
    BY <2>1
  <2> QED
    BY <1>1, <1>2, <1>3, <2>2
<1> QED
  BY <1>1, <1>2, <1>4, <1>5

(* Nothing read is no whole batch or file. *)
LEMMA QuotientOfZero ==
  ASSUME NEW n \in Nat \ {0}
  PROVE  0 \div n = 0
<1>1. 0 = 0 * n + 0 /\ 0 \in 0 .. n - 1 /\ 0 \in Nat
  OBVIOUS
<1> QED
  BY <1>1, QuotientOf

(* The batches a thread has yielded and the one it fills hold what it has read. *)
BatchInv == ~Indexed /\ ~OneShot => image_processed = (step - 1) * conf.batch + batch

(* The batches of Delivery. *)
Batches == IF Indexed \/ OneShot THEN image_processed \div conf.batch ELSE step - 1

(* No batch has been filled. *)
LEMMA BatchInit == Init => BatchInv
<1> SUFFICES ASSUME Init PROVE BatchInv
  OBVIOUS
<1>1. conf.batch \in Nat \ {0} /\ image_processed = 0 /\ step = 1 /\ batch = 0
  BY ConfType DEF Init
<1>2. (1 - 1) * conf.batch + 0 = 0
  BY <1>1
<1> QED
  BY <1>1, <1>2 DEF BatchInv

(* A sample goes into the batch, a full batch is counted by step, and both start
   anew with the epoch. *)
LEMMA BatchNext == Types /\ BatchInv /\ [Next]_vars => BatchInv'
<1> SUFFICES ASSUME Types, BatchInv, [Next]_vars PROVE BatchInv'
  OBVIOUS
<1>1. conf' = conf /\ (Indexed' <=> Indexed) /\ (OneShot' <=> OneShot)
  BY SameReader, SameConf
<1>2. /\ conf.batch \in Nat \ {0} /\ step \in Nat \ {0}
      /\ batch \in 0 .. conf.batch - 1 /\ image_processed \in Nat
  BY ConfType DEF Types
<1>3. CASE UNCHANGED <<image_processed, batch, step>>
  BY <1>1, <1>3 DEF BatchInv
<1>4. CASE GetSample /\ ~OneShot
  <2>1. ~Indexed /\ image_processed' = image_processed + 1
        /\ image_processed = (step - 1) * conf.batch + batch
    BY <1>4 DEF GetSample, BatchInv
  <2>2. PICK k \in Nat : step = k + 1
    BY <1>2, step - 1 \in Nat
  <2>3. (k + 1) * conf.batch = k * conf.batch + conf.batch /\ k * conf.batch \in Nat
    BY <1>2
  <2>4. CASE batch + 1 = conf.batch
    <3>1. batch' = 0 /\ step' = k + 2
      BY <1>4, <2>2, <2>4 DEF GetSample, BatchFull
    <3>2. step' - 1 = k + 1 /\ step - 1 = k
      BY <2>2, <3>1
    <3>3. image_processed' = (step' - 1) * conf.batch + batch'
      BY <1>2, <2>1, <2>3, <2>4, <3>1, <3>2
    <3> QED
      BY <1>1, <3>3 DEF BatchInv
  <2>5. CASE batch + 1 # conf.batch
    <3>1. batch' = batch + 1 /\ step' = step
      BY <1>4, <2>5 DEF GetSample, BatchFull
    <3>2. image_processed' = (step' - 1) * conf.batch + batch'
      BY <1>2, <2>1, <2>2, <2>3, <3>1
    <3> QED
      BY <1>1, <3>2 DEF BatchInv
  <2> QED
    BY <2>4, <2>5
<1>5. CASE GetSampleIndex \/ OneShot
  BY <1>1, <1>5 DEF GetSampleIndex, BatchInv
<1>6. CASE image_processed' = 0 /\ batch' = 0 /\ step' = 1
  BY <1>1, <1>2, <1>6 DEF BatchInv
<1>7. \/ UNCHANGED <<image_processed, batch, step>>
      \/ GetSample /\ ~OneShot
      \/ GetSampleIndex \/ OneShot
      \/ image_processed' = 0 /\ batch' = 0 /\ step' = 1
  BY DEF Next, vars, Construct, Call, Prefetch, Answer, Install, RequestFails, Prefetched,
     Open, Close, EndEpoch, Terminated
<1> QED
  BY <1>3, <1>4, <1>5, <1>6, <1>7

(* In every mode a batch is there exactly when its last sample is. *)
LEMMA BatchesCounted == Types /\ BatchInv => Batches = image_processed \div conf.batch
<1> SUFFICES ASSUME Types, BatchInv, ~Indexed, ~OneShot
             PROVE  step - 1 = image_processed \div conf.batch
  BY DEF Batches
<1>1. conf.batch \in Nat \ {0} /\ step - 1 \in Nat /\ batch \in 0 .. conf.batch - 1
      /\ image_processed = (step - 1) * conf.batch + batch
  BY ConfType DEF Types, BatchInv
<1> QED
  BY <1>1, QuotientOf

(* The epochs of Delivery. *)
Epoch == IF OneShot THEN 1 ELSE epoch
Epochs == IF OneShot THEN 1 ELSE conf.epochs

(* The initial states of a reader are initial states of Delivery. *)
LEMMA DeliveryInit == Init => D!Init
<1> SUFFICES ASSUME Init PROVE D!Init
  OBVIOUS
<1>1. /\ conf \in Configurations /\ epoch = 1 /\ image_processed = 0 /\ step = 1
  BY DEF Init
<1>2. Len(Reads) \in Nat /\ conf.batch \in Nat \ {0} /\ conf.epochs \in Nat \ {0}
  BY <1>1, ConfType
<1>3. Batches = 0
  <2>2. 0 \div conf.batch = 0
    BY <1>2, QuotientOfZero
  <2> QED
    BY <1>1, <2>2 DEF Batches
<1> QED
  BY <1>1, <1>2, <1>3 DEF D!Init, Batches

(* A step that reads a sample is a Deliver, the end of an epoch that another follows
   a NextEpoch, unless the generator for thread -1 is exhausted, and every other step
   a stutter: a prefetch, an open or a close is nothing a loader sees. *)
LEMMA DeliveryStep ==
  Types /\ BatchInv /\ BatchInv' /\ Types' /\ [Next]_vars => [D!Next]_(D!vars)
<1> SUFFICES ASSUME Types, BatchInv, Types', BatchInv', [Next]_vars
             PROVE  [D!Next]_(D!vars)
  OBVIOUS
<1>1. conf' = conf /\ Reads' = Reads /\ (Indexed' <=> Indexed) /\ (OneShot' <=> OneShot)
  BY SameReader, SameConf
<1>2. /\ Len(Reads)' = Len(Reads) /\ (conf.batch)' = conf.batch
      /\ (conf.epochs)' = conf.epochs /\ Epochs' = Epochs
      /\ epoch' = epoch => Epoch' = Epoch
  BY <1>1 DEF Epochs, Epoch
<1>3. Batches = image_processed \div conf.batch
      /\ Batches' = image_processed' \div conf.batch
  <2>1. (Types /\ BatchInv => Batches = image_processed \div conf.batch)'
    BY BatchesCounted, PTL
  <2> QED
    BY <1>1, <2>1, BatchesCounted
<1>4. CASE UNCHANGED <<image_processed, Epoch>>
  BY <1>2, <1>3, <1>4 DEF D!vars, Batches, Epoch, Epochs
<1>5. CASE GetSample \/ GetSampleIndex
  <2>1. /\ image_processed < Len(Reads) /\ image_processed' = image_processed + 1
        /\ epoch' = epoch
    BY <1>5 DEF Types, GetSample, GetSampleIndex
  <2> QED
    BY <1>2, <1>3, <2>1 DEF D!Next, D!Deliver, Batches, Epoch, Epochs
<1>6. CASE EndEpoch /\ epoch' = epoch + 1 /\ ~OneShot
  <2>1. /\ image_processed = Len(Reads) /\ epoch < conf.epochs
        /\ image_processed' = 0 /\ step' = 1
    <3>1. image_processed = Len(Reads) /\ image_processed' = 0 /\ step' = 1
      BY <1>6 DEF EndEpoch, EpochRead, Types
    <3>2. epoch \in Nat /\ epoch + 1 \in 1 .. conf.epochs /\ conf.epochs \in Nat
      BY <1>1, <1>6, ConfType DEF Types
    <3> QED
      BY <3>1, <3>2
  <2>2. Batches' = 0
    <3>1. conf.batch \in Nat \ {0}
      BY ConfType DEF Types
    <3> QED
      BY <1>3, <2>1, <3>1, QuotientOfZero
  <2>3. Epoch = epoch /\ Epoch' = Epoch + 1 /\ Epochs = conf.epochs
    BY <1>1, <1>6 DEF Epoch, Epochs
  <2> QED
    BY <1>2, <2>1, <2>2, <2>3 DEF D!Next, D!NextEpoch, Batches, Epoch, Epochs
<1>7. \/ UNCHANGED <<image_processed, Epoch>>
      \/ GetSample \/ GetSampleIndex
      \/ EndEpoch /\ epoch' = epoch + 1 /\ ~OneShot
  <2>1. \/ UNCHANGED <<image_processed, epoch>>
        \/ GetSample \/ GetSampleIndex
        \/ EndEpoch /\ epoch' = epoch + 1 /\ ~OneShot
        \/ EndEpoch /\ OneShot /\ UNCHANGED image_processed
    BY DEF Next, vars, Construct, Call, Prefetch, Answer, Install, RequestFails, Prefetched,
       Open, Close, EndEpoch, Terminated
  <2> QED
    BY <1>1, <2>1 DEF Epoch
<1> QED
  BY <1>4, <1>5, <1>6, <1>7

(* Every reader class implements Delivery (Delivers): the samples of an epoch one
   after the other, a batch when its last sample is there, every epoch anew, in
   whatever order the requests of its prefetches are answered; the generator for
   thread -1 delivers one epoch in its life. *)
THEOREM PrefetchDelivers == Spec => Delivers
<1>1. Spec => []BatchInv
  BY PrefetchTypeCorrect, BatchInit, BatchNext, PTL DEF Spec
<1>2. Spec => D!Init
  BY DeliveryInit, PTL DEF Spec
<1>3. Spec => [][D!Next]_(D!vars)
  BY <1>1, PrefetchTypeCorrect, DeliveryStep, PTL DEF Spec
<1> QED
  BY <1>2, <1>3, PTL DEF Delivers, D!Spec
-------------------------------------------------------------------------------
(* Sizes *)

Kinds == {"local", "object"}

(* The caches that a class fills before it reads. *)
Prefetches == {Class.prefetch[k] : k \in DOMAIN Class.prefetch}

(* The files of the samples that are still to be read, of which a call of
   read_index needs the first. *)
Needed ==
  IF Indexed THEN {File} ELSE {Reads[i][1] : i \in image_processed + 1 .. Len(Reads)}

(* Between the prefetches and the last sample they are for *)
Reading ==
  \/ pc \in {"open", "get_sample"} /\ image_processed < Len(Reads)
  \/ ~Indexed /\ pc \in {"open", "get_sample", "close"}

(* Byte counts are those of their files, *)
CountsInv ==
  /\ DOMAIN cache = Kinds
  /\ \A kind \in Kinds : \A f \in DOMAIN cache[kind] : cache[kind][f] = Bytes(f)
  /\ \A f \in DOMAIN fetched : fetched[f] = Bytes(f)

(* a prefetch that is done has left those of all files still needed, *)
HeldInv ==
  /\ pc = "fetch" => stages # <<>> /\ Needed \subseteq DOMAIN fetched \cup pending
  /\ pc \in {"prefetch", "fetch"} =>
       /\ stages \in {Class.prefetch, <<>>, <<"local">>}
       /\ stages = <<>> => \A kind \in Prefetches : Needed \subseteq DOMAIN cache[kind]
       /\ stages = <<"local">> /\ Class.open = "object" =>
            Needed \subseteq DOMAIN cache["object"]
  /\ Reading => \A kind \in Prefetches : Needed \subseteq DOMAIN cache[kind]
  /\ ~Indexed /\ pc = "close" => ~OneShot /\ image_processed % conf.perFile = 0

(* and an open file has the count of its class. *)
OpenInv ==
  Class.size = "open_file_map" =>
    /\ DOMAIN open_file_map = Files
    /\ \A f \in Files : open_file_map[f] \in {None, Bytes(f)}
    /\ pc = "get_sample" => open_file_map[File] = Bytes(File)

ReportInv ==
  /\ reported \in Seq(Nat)
  /\ \A i \in DOMAIN reported : reported[i] = Bytes(Reads[i][1])
  /\ Len(reported) = image_processed \/ (reported = <<>> /\ image_processed = Len(Reads))

(* What next needs to keep the counts of objects. *)
Ordered == Class.pops /\ ~Indexed /\ ~OneShot => FileByFile

SizesInv == Ordered => CountsInv /\ HeldInv /\ OpenInv /\ ReportInv

(* The classes of readers, by what the proofs need of them: those that read a file
   when they open it, those that count its bytes before, and those that count an
   object's. *)
LEMMA Classes ==
  ASSUME conf \in Configurations
  PROVE  /\ \/ /\ Class.prefetch = <<>> /\ Prefetches = {}
               /\ Class.open = "storage" /\ Class.size = "open_file_map" /\ ~Class.pops
            \/ /\ Class.prefetch = <<"local">> /\ Prefetches = {"local"}
               /\ Class.open \in {"local", "storage"} /\ Class.size = "open_file_map" /\ ~Class.pops
            \/ /\ \/ Class.prefetch = <<"object">> /\ Prefetches = {"object"}
                  \/ Class.prefetch = <<"object", "local">> /\ Prefetches = {"object", "local"}
               /\ Class.open = "object" /\ Class.size = "object" /\ Class.pops
         /\ OneShot => Class.open = "object"
<1>1. conf.format \in Formats /\ conf.odirect \in BOOLEAN
  BY ConfType DEF ConfigurationType
<1>2. /\ <<"object">> \o <<>> = <<"object">>
      /\ <<"object">> \o <<"local">> = <<"object", "local">>
  <2> DEFINE S == {"object", "local"}
             o == <<"object">>
             l == <<"local">>
             b == <<"object", "local">>
  <2>1. o \in Seq(S) /\ l \in Seq(S) /\ b \in Seq(S)
    OBVIOUS
  <2>2. /\ Len(o) = 1 /\ Len(l) = 1 /\ Len(b) = 2
        /\ o[1] = "object" /\ l[1] = "local" /\ b[1] = "object" /\ b[2] = "local"
    OBVIOUS
  <2> HIDE DEF S, o, l, b
  <2>3. o \o <<>> = o
    BY <2>1, ConcatEmptySeq
  <2>4. /\ o \o l \in Seq(S) /\ Len(o \o l) = 2
        /\ (o \o l)[1] = "object" /\ (o \o l)[2] = "local"
    BY <2>1, <2>2, ConcatProperties
  <2>5. \A i \in 1 .. 2 : (o \o l)[i] = b[i]
    <3>1. \A i \in 1 .. 2 : i = 1 \/ i = 2
      OBVIOUS
    <3> QED
      BY <2>2, <2>4, <3>1
  <2>6. o \o l = b
    BY <2>1, <2>2, <2>4, <2>5, SeqEqual
  <2> QED
    BY <2>3, <2>6 DEF o, l, b
<1>3. Class \in {FileReader, LocalReader, [LocalReader EXCEPT !.open = "storage"],
                 IndexedBinaryReader, S3Iterable(LocalReader), S3Iterable(FileReader)}
  BY <1>1 DEF Class, Formats, NPYReaderODirect, NPZReaderODIRECT, NPYReaderS3Iterable,
     NPYReaderS3, NPYReader, NPZReaderS3Iterable, NPZReaderS3, NPZReader, HDF5ReaderS3Iterable,
     HDF5Reader, ImageReaderS3Iterable, ImageReader, CSVReaderS3Iterable, CSVReader,
     TFRecordReaderS3Iterable
<1>4. OneShot => Class \in {S3Iterable(LocalReader), S3Iterable(FileReader)}
  <2> SUFFICES ASSUME OneShot PROVE Class \in {S3Iterable(LocalReader), S3Iterable(FileReader)}
    OBVIOUS
  <2>1. conf.format = "tfrecord"
    BY ConfigurationsAssumption DEF OneShot
  <2> QED
    BY <2>1 DEF Class, TFRecordReaderS3Iterable, NPYReader
<1>10. OneShot => Class.open = "object"
  BY <1>4 DEF S3Iterable, FileReader, LocalReader
<1>5. ASSUME NEW p, Class.prefetch = p PROVE Prefetches = {p[k] : k \in DOMAIN p}
  BY <1>5 DEF Prefetches
<1>6. /\ {<<>>[k] : k \in DOMAIN <<>>} = {}
      /\ {<<"local">>[k] : k \in DOMAIN <<"local">>} = {"local"}
      /\ {<<"object">>[k] : k \in DOMAIN <<"object">>} = {"object"}
      /\ {<<"object", "local">>[k] : k \in DOMAIN <<"object", "local">>} = {"object", "local"}
  OBVIOUS
<1>7. CASE Class \in {FileReader, IndexedBinaryReader}
  <2>1. Class.prefetch = <<>> /\ Class.open = "storage" /\ Class.size = "open_file_map" /\ ~Class.pops
    BY <1>7 DEF FileReader, IndexedBinaryReader
  <2> QED
    BY <1>5, <1>6, <1>10, <2>1
<1>8. CASE Class \in {LocalReader, [LocalReader EXCEPT !.open = "storage"]}
  <2>1. /\ Class.prefetch = <<"local">> /\ Class.open \in {"local", "storage"}
        /\ Class.size = "open_file_map" /\ ~Class.pops
    BY <1>8 DEF FileReader, LocalReader
  <2> QED
    BY <1>5, <1>6, <1>10, <2>1
<1>9. CASE Class \in {S3Iterable(LocalReader), S3Iterable(FileReader)}
  <2>1. /\ Class.prefetch \in {<<"object">>, <<"object", "local">>}
        /\ Class.open = "object" /\ Class.size = "object" /\ Class.pops
    BY <1>2, <1>9 DEF FileReader, LocalReader, S3Iterable
  <2> QED
    BY <1>5, <1>6, <1>10, <2>1
<1> QED
  BY <1>3, <1>7, <1>8, <1>9

(* The stages left are one of a few tuples. *)
LEMMA Tuples ==
  /\ Head(<<"local">>) = "local" /\ Tail(<<"local">>) = <<>>
  /\ Head(<<"object">>) = "object" /\ Tail(<<"object">>) = <<>>
  /\ Head(<<"object", "local">>) = "object" /\ Tail(<<"object", "local">>) = <<"local">>
  /\ <<"local">> # <<>> /\ <<"object">> # <<>> /\ <<"object", "local">> # <<>>
  /\ <<"object">> # <<"local">> /\ <<"object", "local">> # <<"local">>
  /\ <<"object", "local">> # <<"object">>
  OBVIOUS

(* What is fetched next is one of the two kinds, and what is then left to fetch. *)
LEMMA NextStage ==
  ASSUME Types, HeldInv, pc \in {"prefetch", "fetch"}, stages # <<>>
  PROVE  /\ Head(stages) \in Kinds
         /\ Tail(stages) \in {<<>>, <<"local">>}
         /\ Tail(stages) = <<"local">> => Head(stages) = "object" /\ Class.open = "object"
         /\ Tail(stages) = <<>> =>
              \A kind \in Prefetches \ {Head(stages)} : Needed \subseteq DOMAIN cache[kind]
<1>1. stages \in {Class.prefetch, <<"local">>}
  BY DEF HeldInv
<1>2. conf \in Configurations
  BY DEF Types
<1>3. CASE stages = <<"local">>
  <2>1. Head(stages) = "local" /\ Tail(stages) = <<>> /\ <<>> # <<"local">>
    BY <1>3, Tuples
  <2>2. Class.open = "object" => Needed \subseteq DOMAIN cache["object"]
    BY <1>3 DEF HeldInv
  <2>3. Prefetches \subseteq {"local"} \/ (Class.open = "object" /\ Prefetches \subseteq {"object", "local"})
    BY <1>2, Classes
  <2> QED
    BY <2>1, <2>2, <2>3 DEF Kinds
<1>4. CASE Class.prefetch = <<"object">> /\ stages = Class.prefetch
  <2>1. Head(stages) = "object" /\ Tail(stages) = <<>> /\ <<>> # <<"local">>
    BY <1>4, Tuples
  <2>2. Prefetches = {"object"}
    BY <1>2, <1>4, Classes, Tuples
  <2> QED
    BY <2>1, <2>2 DEF Kinds
<1>5. CASE Class.prefetch = <<"object", "local">> /\ stages = Class.prefetch
  <2>1. Head(stages) = "object" /\ Tail(stages) = <<"local">> /\ <<>> # <<"local">>
    BY <1>5, Tuples
  <2>2. Class.open = "object"
    BY <1>2, <1>5, Classes, Tuples
  <2> QED
    BY <2>1, <2>2 DEF Kinds
<1>6. Class.prefetch \in {<<>>, <<"local">>, <<"object">>, <<"object", "local">>}
  BY <1>2, Classes
<1>7. \/ stages = <<"local">>
      \/ Class.prefetch = <<"object">> /\ stages = Class.prefetch
      \/ Class.prefetch = <<"object", "local">> /\ stages = Class.prefetch
  BY <1>1, <1>6
<1> QED
  BY <1>3, <1>4, <1>5, <1>7

(* Nothing is counted or reported at first. *)
LEMMA SizesInit == Init => SizesInv
<1> SUFFICES ASSUME Init PROVE SizesInv
  OBVIOUS
<1>1. CountsInv
  BY DEF Init, CountsInv, Kinds, NoFile
<1>2. HeldInv
  BY DEF Init, HeldInv, Reading
<1>3. OpenInv
  BY DEF Init, OpenInv
<1>4. ReportInv
  <2>1. <<>> \in Seq(Nat) /\ Len(<<>>) = 0 /\ DOMAIN <<>> = {}
    OBVIOUS
  <2> QED
    BY <2>1 DEF Init, ReportInv
<1> QED
  BY <1>1, <1>2, <1>3, <1>4 DEF SizesInv

(* A count that is fetched is the file's; the caches are replaced by what was
   fetched, lose a file at a time, or start empty. *)
LEMMA CountsNext == Types /\ HeldInv /\ CountsInv /\ [Next]_vars => CountsInv'
<1> SUFFICES ASSUME Types, HeldInv, CountsInv, [Next]_vars PROVE CountsInv'
  OBVIOUS
<1> DEFINE Right(g) == \A f \in DOMAIN g : g[f] = Bytes(f)
<1>1. DOMAIN cache = Kinds /\ Right(cache["local"]) /\ Right(cache["object"]) /\ Right(fetched)
  BY DEF CountsInv, Kinds
<1>2. ASSUME DOMAIN cache' = Kinds, Right(cache'["local"]), Right(cache'["object"]), Right(fetched')
      PROVE  CountsInv'
  BY <1>2 DEF CountsInv, Kinds, Bytes
<1>3. Right(NoFile)
  BY DEF NoFile
<1>4. "local" \in Kinds /\ "object" \in Kinds /\ "local" # "object"
  BY DEF Kinds
<1>5. CASE UNCHANGED <<cache, fetched>>
  BY <1>1, <1>2, <1>5
<1>6. CASE Prefetch
  <2>1. cache' = cache /\ fetched' \in {fetched, cache[Head(stages)], NoFile}
    BY <1>6 DEF Prefetch
  <2>2. Head(stages) \in Kinds
    BY <1>6, NextStage DEF Prefetch
  <2>3. Right(cache[Head(stages)])
    BY <1>1, <2>2 DEF Kinds
  <2>4. Right(fetched')
    BY <1>1, <1>3, <2>1, <2>3
  <2> QED
    BY <1>1, <1>2, <2>1, <2>4
<1>7. CASE Answer
  <2>1. cache' = cache
    BY <1>7 DEF Answer
  <2>2. PICK file \in pending : fetched' = Put(fetched, file, Bytes(file))
    BY <1>7 DEF Answer
  <2>3. /\ DOMAIN fetched' = {file} \cup DOMAIN fetched
        /\ \A f \in DOMAIN fetched' : fetched'[f] = IF f = file THEN Bytes(file) ELSE fetched[f]
    BY <2>2 DEF Put
  <2>4. Right(fetched')
    BY <1>1, <2>3
  <2> QED
    BY <1>1, <1>2, <2>1, <2>4
<1>8. CASE Install
  <2>1. cache' = [cache EXCEPT ![Head(stages)] = fetched] /\ fetched' = fetched
    BY <1>8 DEF Install
  <2>2. /\ DOMAIN cache' = Kinds
        /\ cache'["local"] \in {cache["local"], fetched}
        /\ cache'["object"] \in {cache["object"], fetched}
    BY <1>1, <1>4, <2>1
  <2> QED
    BY <1>1, <1>2, <2>1, <2>2
<1>9. CASE Close
  <2>1. fetched' = fetched
        /\ \/ cache' = cache
           \/ cache' = [cache EXCEPT !["object"] = Restrict(@, DOMAIN @ \ {JustRead})]
    BY <1>9 DEF Close
  <2>2. ASSUME cache' = [cache EXCEPT !["object"] = Restrict(@, DOMAIN @ \ {JustRead})]
        PROVE  CountsInv'
    <3>1. /\ DOMAIN cache' = Kinds /\ cache'["local"] = cache["local"]
          /\ cache'["object"] = [f \in DOMAIN cache["object"] \ {JustRead} |-> cache["object"][f]]
      BY <1>1, <1>4, <2>2 DEF Restrict
    <3>2. Right(cache'["object"])
      BY <1>1, <3>1
    <3> QED
      BY <1>1, <1>2, <2>1, <3>1, <3>2
  <2> QED
    BY <1>5, <2>1, <2>2
<1>10. CASE EndEpoch
  <2>1. fetched' = fetched /\ cache' \in {cache, [local |-> NoFile, object |-> NoFile]}
    BY <1>10 DEF EndEpoch
  <2>2. CASE cache' = [local |-> NoFile, object |-> NoFile]
    BY <1>1, <1>2, <1>3, <2>1, <2>2 DEF Kinds
  <2> QED
    BY <1>5, <2>1, <2>2
<1>11. \/ UNCHANGED <<cache, fetched>> \/ Prefetch \/ Answer \/ Install \/ Close \/ EndEpoch
  BY DEF Next, vars, Construct, Call, RequestFails, Prefetched, Open, GetSample,
     GetSampleIndex, Terminated
<1> QED
  BY <1>5, <1>6, <1>7, <1>8, <1>9, <1>10, <1>11

(* The sample that is read next exists. *)
LEMMA NextSample ==
  ASSUME Types, image_processed < Len(Reads)
  PROVE  /\ image_processed + 1 \in DOMAIN Reads /\ File \in Files /\ File \in Needed
         /\ File \in Nat
<1>1. /\ Len(Reads) \in Nat /\ DOMAIN Reads = 1 .. Len(Reads)
      /\ \A i \in 1 .. Len(Reads) : Reads[i] \in Nat \X Nat /\ Reads[i][1] \in Files
      /\ image_processed \in 0 .. Len(Reads)
  BY ConfType DEF Types
<1>2. image_processed + 1 \in 1 .. Len(Reads) /\ image_processed + 1 \in image_processed + 1 .. Len(Reads)
  BY <1>1
<1>3. Reads[image_processed + 1] \in Nat \X Nat
  BY <1>1, <1>2
<1> QED
  BY <1>1, <1>2, <1>3 DEF File, Needed

(* The files needed are the reader's; after a sample, and after all of them, the same
   or fewer. *)
LEMMA NeededFiles ==
  ASSUME Types
  PROVE  /\ ~Indexed => Needed \subseteq Files
         /\ ~Indexed /\ image_processed = Len(Reads) => Needed = {}
<1>1. /\ Len(Reads) \in Nat
      /\ \A i \in 1 .. Len(Reads) : Reads[i][1] \in Files
      /\ image_processed \in 0 .. Len(Reads)
  BY ConfType DEF Types
<1>2. image_processed + 1 .. Len(Reads) \subseteq 1 .. Len(Reads)
  BY <1>1
<1>3. image_processed = Len(Reads) => image_processed + 1 .. Len(Reads) = {}
  BY <1>1
<1> QED
  BY <1>1, <1>2, <1>3 DEF Needed

(* Numbers that a multiple separates have different quotients. *)
LEMMA Separated ==
  ASSUME NEW n \in Nat \ {0}, NEW p \in Nat, p % n = 0, NEW a \in Nat, a < p,
         NEW b \in Nat, p <= b
  PROVE  a \div n # b \div n
<1> SUFFICES ASSUME a \div n = b \div n PROVE FALSE
  OBVIOUS
<1>1. PICK q \in Nat, m \in Nat, r \in 0 .. n - 1, s \in 0 .. n - 1 :
        p = n * m /\ a = n * q + r /\ b = n * q + s
  <2>1. /\ p \div n \in Nat /\ p = n * (p \div n) + (p % n)
        /\ a \div n \in Nat /\ a = n * (a \div n) + (a % n) /\ a % n \in 0 .. n - 1
        /\ b = n * (b \div n) + (b % n) /\ b % n \in 0 .. n - 1
    OBVIOUS
  <2>2. p = n * (p \div n)
    <3> DEFINE e == n * (p \div n)
    <3>1. e \in Nat
      BY <2>1
    <3> HIDE DEF e
    <3>2. p = e + 0
      BY <2>1 DEF e
    <3> QED
      BY <3>1, <3>2 DEF e
  <2>3. b = n * (a \div n) + (b % n)
    BY <2>1
  <2> QED
    BY <2>1, <2>2, <2>3
<1>2. n * q \in Nat
  OBVIOUS
<1>3. CASE m >= q + 1
  <2>1. PICK d \in Nat : m = q + 1 + d
    BY <1>3, m - q - 1 \in Nat
  <2>2. n * d \in Nat /\ n * m = n * q + n + n * d
    BY <2>1
  <2> QED
    BY <1>1, <1>2, <2>2
<1>4. CASE q >= m
  <2>1. PICK d \in Nat : q = m + d
    BY <1>4, q - m \in Nat
  <2>2. n * d \in Nat /\ n * q = n * m + n * d /\ n * m \in Nat
    BY <2>1
  <2> QED
    BY <1>1, <1>2, <2>2
<1> QED
  BY <1>3, <1>4

(* Between two files the file just read is not needed any more, if the reads go
   file by file. *)
LEMMA ReadToItsEnd ==
  ASSUME Types, FileByFile, ~Indexed, image_processed > 0, image_processed % conf.perFile = 0
  PROVE  JustRead \notin Needed
<1>1. /\ Len(Reads) \in Nat /\ DOMAIN Reads = 1 .. Len(Reads)
      /\ image_processed \in 1 .. Len(Reads) /\ conf.perFile \in Nat \ {0}
  BY ConfType DEF Types
<1>2. ASSUME NEW i \in image_processed + 1 .. Len(Reads), Reads[i][1] = JustRead PROVE FALSE
  <2>1. i \in DOMAIN Reads /\ image_processed \in DOMAIN Reads /\ Reads[i][1] = Reads[image_processed][1]
    BY <1>1, <1>2 DEF JustRead
  <2>2. (i - 1) \div conf.perFile = (image_processed - 1) \div conf.perFile
    BY <2>1 DEF FileByFile
  <2>3. /\ image_processed - 1 \in Nat /\ image_processed - 1 < image_processed
        /\ i - 1 \in Nat /\ image_processed <= i - 1 /\ image_processed \in Nat
    BY <1>1
  <2> DEFINE n == conf.perFile
             a == image_processed - 1
             b == i - 1
             p == image_processed
  <2>4. /\ n \in Nat \ {0} /\ a \in Nat /\ b \in Nat /\ p \in Nat /\ a < p /\ p <= b
        /\ p % n = 0 /\ a \div n = b \div n
    BY <1>1, <2>2, <2>3
  <2> HIDE DEF n, a, b, p
  <2> QED
    BY <2>4, Separated
<1> QED
  BY <1>2 DEF Needed

(* What was needed and is held stays held: a sample that is read is needed no more,
   and next drops only files that are not needed any more. *)
LEMMA HeldNext ==
  Types /\ CountsInv /\ HeldInv /\ Ordered /\ [Next]_vars => HeldInv'
<1> SUFFICES ASSUME Types, CountsInv, HeldInv, Ordered, [Next]_vars PROVE HeldInv'
  OBVIOUS
<1>1. /\ conf' = conf /\ Reads' = Reads /\ (Indexed' <=> Indexed) /\ (OneShot' <=> OneShot)
      /\ Class' = Class /\ Files' = Files
  BY SameReader, SameConf
<1>2. Prefetches' = Prefetches /\ (conf.perFile)' = conf.perFile /\ Len(Reads)' = Len(Reads)
  BY <1>1 DEF Prefetches
<1>3. conf \in Configurations /\ Len(Reads) \in Nat /\ image_processed \in 0 .. Len(Reads)
  BY ConfType DEF Types
<1>4. image_processed' = image_processed => Needed' = Needed
  BY <1>1 DEF Needed, File
<1> DEFINE Held(need) == \A kind \in Prefetches : need \subseteq DOMAIN cache[kind]
<1>5. CASE Construct \/ RequestFails
  BY <1>1, <1>5 DEF Construct, RequestFails, HeldInv, Reading
<1>6. CASE Call
  <2>1. /\ pc' = "prefetch" /\ stages' = Class.prefetch /\ UNCHANGED <<cache, image_processed>>
    BY <1>6 DEF Call
  <2>2. Class.prefetch = <<>> => Prefetches = {}
    BY <1>3, Classes, Tuples
  <2>3. ~(Class.prefetch = <<"local">> /\ Class.open = "object")
    BY <1>3, Classes, Tuples
  <2> QED
    BY <1>1, <1>2, <2>1, <2>2, <2>3 DEF HeldInv, Reading
<1>7. CASE Prefetch
  <2>1. /\ pc = "prefetch" /\ stages # <<>> /\ UNCHANGED <<cache, stages, image_processed>>
        /\ pc' \in {"failed", "fetch"}
    BY <1>7 DEF Prefetch
  <2>2. pc' = "fetch" => Needed' \subseteq DOMAIN fetched' \cup pending'
    <3> SUFFICES ASSUME pc' = "fetch" PROVE Needed \subseteq DOMAIN fetched' \cup pending'
      BY <1>4, <2>1
    <3>1. /\ pending' = Wanted(Head(stages))
          /\ fetched' = IF Indexed THEN cache[Head(stages)] ELSE NoFile
      BY <1>7 DEF Prefetch
    <3>2. CASE Indexed
      BY <3>1, <3>2 DEF Needed, Wanted
    <3>3. CASE ~Indexed
      BY <3>1, <3>3, NeededFiles DEF Wanted
    <3> QED
      BY <3>2, <3>3
  <2>3. /\ stages' \in {Class.prefetch, <<>>, <<"local">>} /\ stages' # <<>>
        /\ stages' = <<"local">> /\ Class.open = "object" => Needed \subseteq DOMAIN cache["object"]
    BY <2>1 DEF HeldInv
  <2> QED
    BY <1>1, <1>2, <1>4, <2>1, <2>2, <2>3 DEF HeldInv, Reading
<1>8. CASE Answer
  <2>1. /\ pc = "fetch" /\ pc' = pc /\ UNCHANGED <<cache, stages, image_processed>>
    BY <1>8 DEF Answer
  <2>2. PICK file \in pending : /\ pending' = pending \ {file}
                                /\ fetched' = Put(fetched, file, Bytes(file))
    BY <1>8 DEF Answer
  <2>3. DOMAIN fetched' \cup pending' = DOMAIN fetched \cup pending
    BY <2>2 DEF Put
  <2>4. Needed' \subseteq DOMAIN fetched' \cup pending'
    BY <1>4, <2>1, <2>3 DEF HeldInv
  <2>5. /\ stages' \in {Class.prefetch, <<>>, <<"local">>} /\ stages' # <<>>
        /\ stages' = <<"local">> /\ Class.open = "object" => Needed \subseteq DOMAIN cache["object"]
    BY <2>1 DEF HeldInv
  <2> QED
    BY <1>1, <1>2, <1>4, <2>1, <2>4, <2>5 DEF HeldInv, Reading
<1>9. CASE Install
  <2>1. /\ pc = "fetch" /\ pc' = "prefetch" /\ stages' = Tail(stages) /\ stages # <<>>
        /\ cache' = [cache EXCEPT ![Head(stages)] = fetched]
        /\ Needed \subseteq DOMAIN fetched /\ UNCHANGED image_processed
    BY <1>9 DEF Install, HeldInv
  <2>2. /\ Head(stages) \in Kinds
        /\ stages' \in {<<>>, <<"local">>}
        /\ stages' = <<"local">> => Head(stages) = "object" /\ Class.open = "object"
        /\ stages' = <<>> =>
             \A kind \in Prefetches \ {Head(stages)} : Needed \subseteq DOMAIN cache[kind]
    BY <2>1, NextStage
  <2>3. /\ cache'[Head(stages)] = fetched
        /\ \A kind \in Kinds \ {Head(stages)} : cache'[kind] = cache[kind]
    BY <2>1, <2>2 DEF CountsInv
  <2>4. Prefetches \subseteq Kinds
    BY <1>3, Classes DEF Kinds
  <2>5. stages' = <<>> => \A kind \in Prefetches : Needed \subseteq DOMAIN cache'[kind]
    BY <2>1, <2>2, <2>3, <2>4
  <2>6. stages' = <<"local">> => Needed \subseteq DOMAIN cache'["object"]
    BY <2>1, <2>2, <2>3
  <2> QED
    BY <1>1, <1>2, <1>4, <2>1, <2>2, <2>5, <2>6 DEF HeldInv, Reading
<1>10. CASE Prefetched
  <2>1. /\ pc' = "open" /\ UNCHANGED <<cache, image_processed>>
        /\ \A kind \in Prefetches : Needed \subseteq DOMAIN cache[kind]
    BY <1>10 DEF Prefetched, HeldInv
  <2> QED
    BY <1>1, <1>2, <1>4, <2>1 DEF HeldInv, Reading
<1>11. CASE Open
  <2>1. /\ pc = "open" /\ pc' \in {"get_sample", "failed"} /\ image_processed < Len(Reads)
        /\ UNCHANGED <<cache, image_processed>>
    BY <1>11 DEF Open, Opened
  <2>2. \A kind \in Prefetches : Needed \subseteq DOMAIN cache[kind]
    BY <2>1 DEF HeldInv, Reading
  <2> QED
    BY <1>1, <1>2, <1>4, <2>1, <2>2 DEF HeldInv, Reading
<1>12. CASE GetSample
  <2>1. /\ pc = "get_sample" /\ ~Indexed /\ image_processed' = image_processed + 1
        /\ pc' = (IF FileEnds /\ ~OneShot THEN "close" ELSE "open") /\ UNCHANGED cache
    BY <1>12 DEF GetSample
  <2>2. \A kind \in Prefetches : Needed \subseteq DOMAIN cache[kind]
    BY <2>1 DEF HeldInv, Reading
  <2>3. Needed' \subseteq Needed
    <3>1. image_processed' + 1 .. Len(Reads) \subseteq image_processed + 1 .. Len(Reads)
      BY <1>3, <2>1
    <3> QED
      BY <1>1, <2>1, <3>1 DEF Needed
  <2>4. \A kind \in Prefetches' : Needed' \subseteq DOMAIN cache'[kind]
    BY <1>2, <2>1, <2>2, <2>3
  <2>5. pc' = "close" => ~OneShot' /\ (image_processed % conf.perFile = 0)'
    BY <1>1, <1>2, <2>1 DEF FileEnds
  <2> QED
    BY <2>1, <2>4, <2>5 DEF HeldInv
<1>13. CASE GetSampleIndex
  <2>1. /\ Indexed /\ image_processed' = image_processed + 1
        /\ pc' \in {"close", "call", "open"}
        /\ pc' = "open" => image_processed + 1 = Len(Reads)
    BY <1>13 DEF GetSampleIndex, LastSample
  <2>2. ~Reading'
    BY <1>1, <1>3, <2>1 DEF Reading
  <2> QED
    BY <1>1, <2>1, <2>2 DEF HeldInv
<1>14. CASE Close
  <2>1. /\ pc = "close" /\ UNCHANGED image_processed
        /\ pc' = (IF Indexed /\ image_processed < Len(Reads) THEN "call" ELSE "open")
        /\ cache' = IF Class.pops
                    THEN [cache EXCEPT !["object"] = Restrict(@, DOMAIN @ \ {JustRead})]
                    ELSE cache
    BY <1>14 DEF Close
  <2>2. CASE Indexed
    <3>1. ~Reading' /\ pc' \in {"call", "open"}
      BY <1>1, <1>3, <2>1, <2>2 DEF Reading
    <3> QED
      BY <1>1, <3>1 DEF HeldInv
  <2>3. CASE ~Indexed
    <3>1. /\ pc' = "open" /\ ~OneShot /\ image_processed % conf.perFile = 0
          /\ \A kind \in Prefetches : Needed \subseteq DOMAIN cache[kind]
      BY <2>1, <2>3 DEF HeldInv, Reading
    <3>2. CASE ~Class.pops
      BY <1>1, <1>2, <1>4, <2>1, <3>1, <3>2 DEF HeldInv
    <3>3. CASE Class.pops
      <4>1. FileByFile
        BY <2>3, <3>1, <3>3 DEF Ordered
      <4>2. image_processed > 0
        BY <2>1 DEF Types
      <4>3. JustRead \notin Needed
        BY <2>3, <3>1, <4>1, <4>2, ReadToItsEnd
      <4>4. /\ "object" \in DOMAIN cache
            /\ cache'["object"] = Restrict(cache["object"], DOMAIN cache["object"] \ {JustRead})
            /\ \A kind \in Kinds \ {"object"} : cache'[kind] = cache[kind]
        BY <2>1, <3>3 DEF CountsInv, Kinds
      <4>5. DOMAIN cache'["object"] = DOMAIN cache["object"] \ {JustRead}
        BY <4>4 DEF Restrict
      <4>6. Prefetches \subseteq Kinds
        BY <1>3, Classes DEF Kinds
      <4>7. \A kind \in Prefetches : Needed \subseteq DOMAIN cache'[kind]
        BY <3>1, <4>3, <4>4, <4>5, <4>6
      <4>8. \A kind \in Prefetches' : Needed' \subseteq DOMAIN cache'[kind]
        BY <1>2, <1>4, <2>1, <4>7
      <4> QED
        BY <3>1, <4>8 DEF HeldInv
    <3> QED
      BY <3>2, <3>3
  <2> QED
    BY <2>2, <2>3
<1>15. CASE EndEpoch
  <2>1. pc \in {"call", "open"} /\ image_processed = Len(Reads)
    BY <1>15 DEF EndEpoch, EpochRead
  <2>2. \/ pc' \in {"done", "call"}
        \/ OneShot /\ UNCHANGED <<pc, image_processed, cache>>
    BY <1>15 DEF EndEpoch
  <2>3. CASE pc' \in {"done", "call"}
    BY <2>3 DEF HeldInv, Reading
  <2>4. CASE OneShot /\ UNCHANGED <<pc, image_processed, cache>>
    <3>1. Reading' <=> Reading
      BY <1>1, <1>2, <2>4 DEF Reading
    <3>2. Reading => \A kind \in Prefetches' : Needed' \subseteq DOMAIN cache'[kind]
      BY <1>2, <1>4, <2>4 DEF HeldInv
    <3>3. pc' \in {"call", "open"}
      BY <2>1, <2>4
    <3> QED
      BY <3>1, <3>2, <3>3 DEF HeldInv
  <2> QED
    BY <2>2, <2>3, <2>4
<1>16. CASE UNCHANGED vars
  <2>1. Needed' = Needed /\ (Reading' <=> Reading)
    BY <1>1, <1>2, <1>4, <1>16 DEF vars, Reading
  <2> QED
    BY <1>1, <1>2, <1>16, <2>1 DEF vars, HeldInv
<1> QED
  BY <1>5, <1>6, <1>7, <1>8, <1>9, <1>10, <1>11, <1>12, <1>13, <1>14, <1>15, <1>16
     DEF Next, Terminated

(* What open returns is the count of its class: the file system's, or the one that
   was prefetched. *)
LEMMA OpenNext ==
  Types /\ CountsInv /\ HeldInv /\ OpenInv /\ [Next]_vars => OpenInv'
<1> SUFFICES ASSUME Types, CountsInv, HeldInv, OpenInv, [Next]_vars PROVE OpenInv'
  OBVIOUS
<1>0. Class' = Class /\ Files' = Files
  BY SameReader, SameConf
<1> SUFFICES ASSUME Class.size = "open_file_map"
             PROVE  /\ DOMAIN open_file_map' = Files
                    /\ \A f \in Files : open_file_map'[f] \in {None, Bytes(f)}
                    /\ pc' = "get_sample" => open_file_map'[File'] = Bytes(File')
  BY <1>0 DEF OpenInv, Bytes
<1>1. /\ DOMAIN open_file_map = Files
      /\ \A f \in Files : open_file_map[f] \in {None, Bytes(f)}
      /\ pc = "get_sample" => open_file_map[File] = Bytes(File)
  BY DEF OpenInv
<1>2. conf' = conf /\ Reads' = Reads
  BY SameReader, SameConf
<1>3. conf \in Configurations
  BY DEF Types
<1>4. CASE UNCHANGED open_file_map /\ pc' # "get_sample"
  BY <1>1, <1>4
<1>5. CASE Open
  <2>1. pc = "open" /\ image_processed < Len(Reads) /\ UNCHANGED image_processed /\ File' = File
    BY <1>2, <1>5 DEF Open, File
  <2>2. File \in Files /\ File \in Needed
    BY <2>1, NextSample
  <2>3. ~OneShot
    BY <1>3, Classes
  <2>4. CASE open_file_map[File] # None /\ UNCHANGED open_file_map
    BY <1>1, <2>1, <2>2, <2>4
  <2>5. CASE open_file_map' = [open_file_map EXCEPT ![File] = Handle]
    <3>1. Class.open \in {"storage", "local"}
      BY <1>3, Classes
    <3>2. Class.open = "local" => Prefetches = {"local"}
      BY <1>3, Classes
    <3>3. Class.open = "local" => File \in DOMAIN cache["local"]
      BY <2>1, <2>2, <3>2 DEF HeldInv, Reading
    <3>4. Handle = Bytes(File)
      <4>1. CASE Class.open = "storage"
        BY <4>1 DEF Handle
      <4>2. CASE Class.open = "local"
        <5>1. Handle = cache["local"][File]
          BY <3>3, <4>2 DEF Handle, Get
        <5> QED
          BY <3>3, <4>2, <5>1 DEF CountsInv, Kinds
      <4> QED
        BY <3>1, <4>1, <4>2
    <3> QED
      BY <1>1, <2>1, <2>2, <2>5, <3>4
  <2>6. \/ pc' # "get_sample" /\ UNCHANGED open_file_map
        \/ open_file_map[File] # None /\ UNCHANGED open_file_map
        \/ open_file_map' = [open_file_map EXCEPT ![File] = Handle]
    BY <1>5, <2>3 DEF Open
  <2> QED
    BY <1>4, <2>4, <2>5, <2>6
<1>6. CASE Close
  <2>1. open_file_map' = [open_file_map EXCEPT ![JustRead] = None] /\ pc' # "get_sample"
    BY <1>6 DEF Close
  <2> QED
    BY <1>1, <2>1
<1>7. CASE EndEpoch
  <2>1. open_file_map' \in {open_file_map, [f \in Files |-> None]} /\ pc' # "get_sample"
    BY <1>7 DEF EndEpoch, EpochRead
  <2> QED
    BY <1>1, <2>1
<1>8. CASE UNCHANGED vars
  BY <1>1, <1>2, <1>8 DEF vars, File
<1>9. \/ UNCHANGED open_file_map /\ pc' # "get_sample"
      \/ Open \/ Close \/ EndEpoch \/ UNCHANGED vars
  BY DEF Next, Construct, Call, Prefetch, Answer, Install, RequestFails, Prefetched,
     GetSample, GetSampleIndex, Terminated
<1> QED
  BY <1>4, <1>5, <1>6, <1>7, <1>8, <1>9

(* Every sample is reported with the size of its file. *)
LEMMA ReportNext ==
  Types /\ CountsInv /\ HeldInv /\ OpenInv /\ ReportInv /\ [Next]_vars => ReportInv'
<1> SUFFICES ASSUME Types, CountsInv, HeldInv, OpenInv, ReportInv, [Next]_vars
             PROVE  ReportInv'
  OBVIOUS
<1>1. conf' = conf /\ Reads' = Reads /\ Len(Reads)' = Len(Reads)
  BY SameReader, SameConf
<1>2. conf \in Configurations /\ Len(Reads) \in Nat /\ image_processed \in 0 .. Len(Reads)
  BY ConfType DEF Types
<1>3. CASE UNCHANGED <<reported, image_processed>>
  BY <1>1, <1>3 DEF ReportInv, Bytes
<1>4. CASE GetSample \/ GetSampleIndex
  <2>1. /\ pc = "get_sample" /\ reported' = Append(reported, ImageSize)
        /\ image_processed' = image_processed + 1 /\ image_processed < Len(Reads)
    BY <1>4 DEF GetSample, GetSampleIndex, Types
  <2>2. File \in Needed /\ Bytes(File) \in Nat
    BY <2>1, NextSample DEF Bytes
  <2>3. ImageSize = Bytes(File)
    <3>1. CASE Class.size = "object"
      <4>1. "object" \in Prefetches
        BY <1>2, <3>1, Classes
      <4>2. File \in DOMAIN cache["object"]
        BY <2>1, <2>2, <4>1 DEF HeldInv, Reading
      <4>3. ImageSize = cache["object"][File]
        BY <3>1, <4>2 DEF ImageSize, Get
      <4> QED
        BY <4>2, <4>3 DEF CountsInv, Kinds
    <3>2. CASE Class.size = "open_file_map"
      BY <2>1, <3>2 DEF OpenInv, ImageSize
    <3> QED
      BY <1>2, <3>1, <3>2, Classes
  <2>4. reported \in Seq(Nat) /\ Len(reported) = image_processed /\ DOMAIN reported = 1 .. image_processed
    BY <1>2, <2>1, LenProperties DEF ReportInv
  <2>5. /\ reported' \in Seq(Nat) /\ Len(reported') = image_processed + 1
        /\ reported'[image_processed + 1] = Bytes(File)
        /\ \A i \in 1 .. image_processed : reported'[i] = reported[i]
        /\ DOMAIN reported' = 1 .. image_processed + 1
    <3> DEFINE e == ImageSize
    <3>1. e \in Nat /\ reported' = Append(reported, e)
      BY <2>1, <2>2, <2>3
    <3> HIDE DEF e
    <3>2. /\ reported' \in Seq(Nat) /\ Len(reported') = Len(reported) + 1
          /\ reported'[Len(reported) + 1] = e
          /\ \A i \in 1 .. Len(reported) : reported'[i] = reported[i]
      BY <2>4, <3>1, AppendProperties
    <3>3. DOMAIN reported' = 1 .. Len(reported')
      BY <3>2, LenProperties
    <3> QED
      BY <2>3, <2>4, <3>2, <3>3 DEF e
  <2>6. \A i \in 1 .. image_processed + 1 : reported'[i] = Bytes(Reads[i][1])
    <3>1. \A i \in 1 .. image_processed : reported'[i] = Bytes(Reads[i][1])
      BY <2>4, <2>5 DEF ReportInv
    <3>2. reported'[image_processed + 1] = Bytes(Reads[image_processed + 1][1])
      BY <2>5 DEF File
    <3>3. \A i \in 1 .. image_processed + 1 : i \in 1 .. image_processed \/ i = image_processed + 1
      BY <1>2
    <3> QED
      BY <3>1, <3>2, <3>3
  <2> QED
    BY <1>1, <2>1, <2>5, <2>6 DEF ReportInv, Bytes
<1>5. CASE EndEpoch
  <2>1. image_processed = Len(Reads)
        /\ \/ UNCHANGED <<reported, image_processed>>
           \/ reported' = <<>> /\ image_processed' \in {0, image_processed}
    BY <1>5 DEF EndEpoch, EpochRead
  <2>2. <<>> \in Seq(Nat) /\ Len(<<>>) = 0 /\ DOMAIN <<>> = {}
    OBVIOUS
  <2>3. CASE reported' = <<>> /\ image_processed' \in {0, image_processed}
    BY <1>1, <2>1, <2>2, <2>3 DEF ReportInv
  <2> QED
    BY <1>3, <2>1, <2>3
<1>6. \/ UNCHANGED <<reported, image_processed>>
      \/ GetSample \/ GetSampleIndex \/ EndEpoch
  BY DEF Next, vars, Construct, Call, Prefetch, Answer, Install, RequestFails, Prefetched,
     Open, Close, Terminated
<1> QED
  BY <1>3, <1>4, <1>5, <1>6

(* However the requests are answered and whichever reader class is chosen, an epoch
   reports every sample with the byte count of its file (SizesReported): whatever
   fails, and with no condition on the reads unless next drops counts as it goes. *)
THEOREM SizesAreReported == Spec => []SizesReported
<1>1. Types /\ SizesInv /\ [Next]_vars => SizesInv'
  <2> SUFFICES ASSUME Types, SizesInv, [Next]_vars, Ordered'
               PROVE  (CountsInv /\ HeldInv /\ OpenInv /\ ReportInv)'
    BY DEF SizesInv
  <2>1. Ordered
    <3>1. Class' = Class /\ (Indexed' <=> Indexed) /\ (OneShot' <=> OneShot)
          /\ (FileByFile' <=> FileByFile)
      BY SameReader, SameConf
    <3> QED
      BY <3>1 DEF Ordered
  <2> QED
    BY <2>1, CountsNext, HeldNext, OpenNext, ReportNext DEF SizesInv
<1>2. SizesInv => SizesReported
  BY DEF SizesInv, ReportInv, SizesReported, Ordered
<1> QED
  BY <1>1, <1>2, SizesInit, PrefetchTypeCorrect, PTL DEF Spec

-------------------------------------------------------------------------------
(* Requests *)

(* Where a class counts a file's bytes when it asks for them. *)
Source == Class.open

(* The classes whose last prefetch goes to a file system where there are objects:
   those raise before the first sample (see ObjectsPrefetched). *)
Doomed ==
  \/ Class.prefetch = <<"local">> /\ Source = "storage"
  \/ Class.prefetch = <<"object", "local">>

DoomedInv ==
  Doomed =>
    /\ image_processed = 0
    /\ pc \notin {"open", "get_sample", "close"}
    /\ DOMAIN cache["local"] = {}
    /\ pc \in {"call", "prefetch", "fetch"} => ~Refused
    /\ pc = "prefetch" => stages \in {<<"local">>, <<"object", "local">>}
    /\ pc = "fetch" => stages = <<"object", "local">>

(* The others have one prefetch at most, of what open looks up. *)
StagesInv ==
  ~Doomed /\ pc \in {"prefetch", "fetch"} =>
    \/ stages = <<>> /\ pc = "prefetch"
    \/ stages = <<Source>> /\ Source \in Kinds

CachesInv == DOMAIN cache = Kinds

RequestsInv ==
  /\ requests \in [Files -> Nat]
  /\ DOMAIN open_file_map = Files
  /\ CachesInv
  /\ DoomedInv
  /\ StagesInv

(* What the class of a reader says of its prefetches. *)
LEMMA ReaderClasses ==
  ASSUME conf \in Configurations
  PROVE  /\ Source \in {"storage", "local", "object"}
         /\ ~Doomed => Class.prefetch = (IF Source = "storage" THEN <<>> ELSE <<Source>>)
         /\ Doomed /\ ~Refused => NotAFile
         /\ Doomed => Class.prefetch \in {<<"local">>, <<"object", "local">>}
         /\ Class.pops <=> Source = "object"
<1>1. /\ Source \in {"storage", "local", "object"}
      /\ ~Doomed => Class.prefetch = (IF Source = "storage" THEN <<>> ELSE <<Source>>)
      /\ Class.pops <=> Source = "object"
  <2>1. /\ "storage" # "local" /\ "storage" # "object" /\ "local" # "object"
    OBVIOUS
  <2> QED
    BY <2>1, Classes, Tuples DEF Source, Doomed
<1>2. Doomed => Class.prefetch \in {<<"local">>, <<"object", "local">>}
  BY DEF Doomed
<1>3. Doomed /\ ~Refused => NotAFile
  <2> SUFFICES ASSUME Doomed, ~Refused, ~NotAFile PROVE FALSE
    OBVIOUS
  <2>1. conf.format \in Formats /\ conf.odirect \in BOOLEAN
    BY ConfType DEF ConfigurationType
  <2>2. ~OnObjects /\ ~Iterable
    BY DEF NotAFile, Iterable
  <2>3. conf.format # "tfrecord"
    <3>1. conf.format = "tfrecord" => ~conf.odirect
      BY <2>1 DEF Refused
    <3> QED
      BY <2>2, <3>1, ConfigurationsAssumption DEF OnObjects
  <2>4. Class \in {FileReader, LocalReader, IndexedBinaryReader}
    BY <2>1, <2>2, <2>3 DEF Class, Formats, NPYReaderODirect, NPZReaderODIRECT, NPYReader,
       NPZReader, HDF5Reader, ImageReader, CSVReader
  <2>5. \/ Class.prefetch = <<>>
        \/ Class.prefetch = <<"local">> /\ Class.open = "local"
    <3>1. CASE Class \in {FileReader, IndexedBinaryReader}
      BY <3>1 DEF FileReader, IndexedBinaryReader
    <3>2. CASE Class = LocalReader
      BY <3>2 DEF FileReader, LocalReader
    <3> QED
      BY <2>4, <3>1, <3>2
  <2> QED
    BY <2>5, Tuples DEF Doomed, Source
<1> QED
  BY <1>1, <1>2, <1>3

(* The class does not change. *)
LEMMA SameSource ==
  ASSUME [Next]_vars
  PROVE  Source' = Source /\ (Doomed' <=> Doomed)
<1>1. Class' = Class
  BY SameReader, SameConf
<1> QED
  BY <1>1 DEF Source, Doomed

(* A new reader has asked for nothing. *)
LEMMA RequestsInit == Init => RequestsInv
<1> SUFFICES ASSUME Init PROVE RequestsInv
  OBVIOUS
<1>1. /\ conf \in Configurations /\ pc = "construct" /\ image_processed = 0
      /\ cache = [local |-> NoFile, object |-> NoFile] /\ requests = Unread
      /\ open_file_map = [f \in Files |-> None]
  BY DEF Init
<1> QED
  BY <1>1 DEF RequestsInv, Unread, CachesInv, Kinds, DoomedInv, StagesInv, NoFile

(* A prefetch goes through its stages in their order, and one of files where there
   are objects ends the reader. *)
LEMMA RequestsNext == Types /\ RequestsInv /\ [Next]_vars => RequestsInv'
<1> SUFFICES ASSUME Types, RequestsInv, [Next]_vars PROVE RequestsInv'
  OBVIOUS
<1>1. /\ conf' = conf /\ Reads' = Reads /\ Files' = Files /\ Class' = Class
      /\ (Refused' <=> Refused) /\ Source' = Source /\ (Doomed' <=> Doomed)
  BY SameReader, SameConf, SameSource
<1>2. conf \in Configurations /\ Len(Reads) \in Nat /\ image_processed \in 0 .. Len(Reads)
  BY ConfType DEF Types
<1>3. requests' \in [Files' -> Nat]
  <2>1. /\ requests \in [Files -> Nat]
        /\ \A n \in Nat : n + 1 \in Nat
    BY DEF RequestsInv
  <2>2. \/ requests' = requests
        \/ requests' = Unread
        \/ \E f : requests' \in {[requests EXCEPT ![f] = @ + 1], [requests EXCEPT ![f] = @]}
    BY DEF Next, vars, Construct, Call, Prefetch, Answer, Install, RequestFails, Prefetched,
       Open, GetSample, GetSampleIndex, Close, EndEpoch, Terminated
  <2> QED
    BY <1>1, <2>1, <2>2 DEF Unread
<1>4. CachesInv'
  <2>1. \/ DOMAIN cache' = DOMAIN cache
        \/ cache' = [local |-> NoFile, object |-> NoFile]
    BY DEF Next, vars, Construct, Call, Prefetch, Answer, Install, RequestFails, Prefetched,
       Open, GetSample, GetSampleIndex, Close, EndEpoch, Terminated
  <2> QED
    BY <2>1 DEF RequestsInv, CachesInv, Kinds
<1>5. DoomedInv'
  <2> SUFFICES ASSUME Doomed PROVE DoomedInv'
    BY <1>1 DEF DoomedInv
  <2>1. /\ image_processed = 0
        /\ pc \notin {"open", "get_sample", "close"}
        /\ DOMAIN cache["local"] = {}
        /\ pc \in {"call", "prefetch", "fetch"} => ~Refused
        /\ pc = "prefetch" => stages \in {<<"local">>, <<"object", "local">>}
        /\ pc = "fetch" => stages = <<"object", "local">>
        /\ DOMAIN cache = Kinds
    BY DEF DoomedInv, RequestsInv, CachesInv
  <2>2. CASE Construct
    <3>1. /\ UNCHANGED <<image_processed, cache>> /\ pc' \in {"failed", "call"}
          /\ pc' = "call" => ~Refused
      BY <2>2 DEF Construct
    <3> QED
      BY <1>1, <2>1, <3>1 DEF DoomedInv
  <2>3. CASE Call
    <3>1. /\ UNCHANGED <<image_processed, cache>> /\ pc = "call" /\ pc' = "prefetch"
          /\ stages' = Class.prefetch
      BY <2>3 DEF Call
    <3>2. Class.prefetch \in {<<"local">>, <<"object", "local">>}
      BY <1>2, ReaderClasses
    <3> QED
      BY <1>1, <2>1, <3>1, <3>2 DEF DoomedInv
  <2>4. CASE Prefetch
    <3>1. /\ UNCHANGED <<image_processed, cache, stages>> /\ pc = "prefetch"
          /\ pc' \in {"failed", "fetch"}
          /\ Head(stages) = "local" /\ NotAFile /\ Wanted("local") # {} => pc' = "failed"
      BY <2>4 DEF Prefetch
    <3>2. NotAFile
      BY <1>2, <2>1, <3>1, ReaderClasses
    <3>3. Wanted("local") # {}
      <4>1. image_processed < Len(Reads)
        BY <3>1 DEF Types
      <4>2. File \in Files
        BY <4>1, NextSample
      <4> QED
        BY <2>1, <4>2 DEF Wanted
    <3>4. pc' = "fetch" => stages = <<"object", "local">>
      BY <2>1, <3>1, <3>2, <3>3, Tuples
    <3> QED
      BY <1>1, <2>1, <3>1, <3>4 DEF DoomedInv
  <2>5. CASE Install
    <3>1. /\ pc = "fetch" /\ pc' = "prefetch" /\ stages' = Tail(stages)
          /\ cache' = [cache EXCEPT ![Head(stages)] = fetched] /\ UNCHANGED image_processed
      BY <2>5 DEF Install
    <3>2. Head(stages) = "object" /\ Tail(stages) = <<"local">>
      BY <2>1, <3>1, Tuples
    <3>3. DOMAIN cache'["local"] = {}
      BY <2>1, <3>1, <3>2 DEF Kinds
    <3> QED
      BY <1>1, <2>1, <3>1, <3>2, <3>3 DEF DoomedInv
  <2>6. CASE EndEpoch
    <3>1. /\ pc \in {"call", "open"}
          /\ pc' \in {pc, "done", "call"} /\ image_processed' \in {image_processed, 0}
          /\ cache' \in {cache, [local |-> NoFile, object |-> NoFile]}
      BY <2>6 DEF EndEpoch, EpochRead
    <3>2. pc = "call" /\ ~Refused
      BY <2>1, <3>1
    <3> QED
      BY <1>1, <2>1, <3>1, <3>2 DEF DoomedInv, NoFile
  <2>7. CASE Answer \/ RequestFails \/ UNCHANGED vars
    <3>1. /\ UNCHANGED <<image_processed, cache, stages>>
          /\ pc' = pc \/ pc' = "failed"
      BY <2>7 DEF Answer, RequestFails, vars
    <3> QED
      BY <1>1, <2>1, <3>1 DEF DoomedInv
  <2>8. ~Open /\ ~GetSample /\ ~GetSampleIndex /\ ~Close
    BY <2>1 DEF Open, GetSample, GetSampleIndex, Close
  <2>9. ~Prefetched
    BY <2>1, Tuples DEF Prefetched
  <2> QED
    BY <2>2, <2>3, <2>4, <2>5, <2>6, <2>7, <2>8, <2>9 DEF Next, Terminated
<1>6. StagesInv'
  <2> SUFFICES ASSUME ~Doomed PROVE StagesInv'
    BY <1>1 DEF StagesInv
  <2>1. pc \in {"prefetch", "fetch"} =>
          \/ stages = <<>> /\ pc = "prefetch"
          \/ stages = <<Source>> /\ Source \in Kinds
    BY DEF RequestsInv, StagesInv
  <2>2. <<Source>> # <<>> /\ Tail(<<Source>>) = <<>>
    OBVIOUS
  <2>3. CASE Call
    <3>1. pc' = "prefetch" /\ stages' = Class.prefetch
      BY <2>3 DEF Call
    <3>2. /\ Source \in {"storage", "local", "object"}
          /\ Class.prefetch = (IF Source = "storage" THEN <<>> ELSE <<Source>>)
      BY <1>2, ReaderClasses
    <3> QED
      BY <1>1, <3>1, <3>2 DEF StagesInv, Kinds
  <2>4. CASE Prefetch
    <3>1. pc = "prefetch" /\ stages # <<>> /\ UNCHANGED stages
      BY <2>4 DEF Prefetch
    <3> QED
      BY <1>1, <2>1, <3>1 DEF StagesInv
  <2>5. CASE Install
    <3>1. pc = "fetch" /\ pc' = "prefetch" /\ stages' = Tail(stages)
      BY <2>5 DEF Install
    <3>2. stages' = <<>>
      BY <2>1, <2>2, <3>1
    <3> QED
      BY <3>1, <3>2 DEF StagesInv
  <2>6. CASE UNCHANGED <<pc, stages>>
    BY <1>1, <2>1, <2>6 DEF StagesInv
  <2>7. CASE pc' \notin {"prefetch", "fetch"}
    BY <2>7 DEF StagesInv
  <2>8. \/ Call \/ Prefetch \/ Install \/ UNCHANGED <<pc, stages>> \/ pc' \notin {"prefetch", "fetch"}
    BY DEF Next, vars, Construct, Answer, RequestFails, Prefetched,
       Open, Opened, GetSample, GetSampleIndex, Close, EndEpoch, Terminated
  <2> QED
    BY <2>3, <2>4, <2>5, <2>6, <2>7, <2>8
<1>7. DOMAIN open_file_map' = Files'
  <2>1. \/ DOMAIN open_file_map' = DOMAIN open_file_map
        \/ open_file_map' = [f \in Files |-> None]
    BY DEF Next, vars, Construct, Call, Prefetch, Answer, Install, RequestFails, Prefetched,
       Open, GetSample, GetSampleIndex, Close, EndEpoch, Terminated
  <2> QED
    BY <1>1, <2>1 DEF RequestsInv
<1> QED
  BY <1>3, <1>4, <1>5, <1>6, <1>7 DEF RequestsInv

(* Every file read once *)
Once == [f \in Files |-> 1]

(* next that counts bytes in a prefetch: nothing is asked for before, each file once
   while it lasts, and nothing after it. *)
NextAsked ==
  ~Indexed /\ Source # "storage" /\ ~Doomed =>
    /\ OneShot /\ epoch > 1 => image_processed = Len(Reads)
    /\ pc \in {"construct", "call"} => image_processed = 0 /\ requests = Unread
    /\ pc = "prefetch" => requests = IF stages = <<>> THEN Once ELSE Unread
    /\ pc = "fetch" =>
         /\ pending \subseteq Files
         /\ requests = [f \in Files |-> IF f \in pending THEN 0 ELSE 1]
    /\ pc \in {"open", "get_sample", "close"} =>
         requests = IF OneShot /\ epoch > 1 THEN Unread ELSE Once

(* Nothing has been asked for. *)
LEMMA NextAskedInit == Init => NextAsked
<1> SUFFICES ASSUME Init PROVE NextAsked
  OBVIOUS
<1>1. pc = "construct" /\ epoch = 1 /\ image_processed = 0 /\ requests = Unread
  BY DEF Init
<1> QED
  BY <1>1 DEF NextAsked

(* A prefetch asks for all files and is done when all have been answered. *)
LEMMA NextAskedNext == Types /\ RequestsInv /\ NextAsked /\ [Next]_vars => NextAsked'
<1> SUFFICES ASSUME Types, RequestsInv, NextAsked, [Next]_vars PROVE NextAsked'
  OBVIOUS
<1>1. /\ conf' = conf /\ Reads' = Reads /\ Files' = Files /\ Class' = Class
      /\ (Indexed' <=> Indexed) /\ (OneShot' <=> OneShot) /\ Source' = Source
      /\ (Doomed' <=> Doomed) /\ Unread' = Unread /\ Once' = Once /\ Len(Reads)' = Len(Reads)
  BY SameReader, SameConf, SameSource DEF Unread, Once
<1> SUFFICES ASSUME ~Indexed, Source # "storage", ~Doomed PROVE NextAsked'
  BY <1>1 DEF NextAsked
<1>2. conf \in Configurations /\ Len(Reads) \in Nat /\ image_processed \in 0 .. Len(Reads)
      /\ epoch \in Nat
  BY ConfType DEF Types
<1>3. /\ OneShot /\ epoch > 1 => image_processed = Len(Reads)
      /\ pc \in {"construct", "call"} => image_processed = 0 /\ requests = Unread
      /\ pc = "prefetch" => requests = IF stages = <<>> THEN Once ELSE Unread
      /\ pc = "fetch" =>
           /\ pending \subseteq Files
           /\ requests = [f \in Files |-> IF f \in pending THEN 0 ELSE 1]
      /\ pc \in {"open", "get_sample", "close"} =>
           requests = IF OneShot /\ epoch > 1 THEN Unread ELSE Once
  BY DEF NextAsked
<1>4. pc \in {"prefetch", "fetch"} =>
        \/ stages = <<>> /\ pc = "prefetch"
        \/ stages = <<Source>>
  BY DEF RequestsInv, StagesInv
<1>5. <<Source>> # <<>> /\ Tail(<<Source>>) = <<>>
  OBVIOUS
<1>6. CASE Construct \/ RequestFails
  <2>1. /\ UNCHANGED <<epoch, image_processed, requests>>
        /\ pc' = "failed" \/ (pc = "construct" /\ pc' = "call")
    BY <1>6 DEF Construct, RequestFails
  <2> QED
    BY <1>1, <1>3, <2>1 DEF NextAsked
<1>7. CASE Call
  <2>1. /\ UNCHANGED <<epoch, image_processed, requests>> /\ pc = "call" /\ pc' = "prefetch"
        /\ stages' = Class.prefetch
    BY <1>7 DEF Call
  <2>2. Class.prefetch = <<Source>>
    BY <1>2, ReaderClasses
  <2> QED
    BY <1>1, <1>3, <1>5, <2>1, <2>2 DEF NextAsked
<1>8. CASE Prefetch
  <2>1. /\ UNCHANGED <<epoch, image_processed, requests>> /\ pc = "prefetch" /\ stages # <<>>
        /\ pc' \in {"failed", "fetch"}
        /\ pc' = "fetch" => pending' = Files
    BY <1>8 DEF Prefetch, Wanted
  <2>2. Unread = [f \in Files |-> IF f \in Files THEN 0 ELSE 1]
    BY DEF Unread
  <2>3. pc' = "fetch" => requests' = [f \in Files |-> IF f \in pending' THEN 0 ELSE 1]
    BY <1>3, <2>1, <2>2
  <2> QED
    BY <1>1, <1>3, <2>1, <2>3 DEF NextAsked
<1>9. CASE Answer
  <2>1. /\ UNCHANGED <<epoch, image_processed>> /\ pc = "fetch" /\ pc' = "fetch"
    BY <1>9 DEF Answer
  <2>2. PICK file \in pending : /\ pending' = pending \ {file}
                                /\ requests' = [requests EXCEPT ![file] = @ + 1]
    BY <1>9 DEF Answer
  <2>3. /\ pending' \subseteq Files
        /\ requests' = [f \in Files |-> IF f \in pending' THEN 0 ELSE 1]
    <3>1. /\ pending \subseteq Files
          /\ requests = [f \in Files |-> IF f \in pending THEN 0 ELSE 1]
      BY <1>3, <2>1
    <3>2. requests' = [f \in Files |-> IF f = file THEN requests[f] + 1 ELSE requests[f]]
      BY <2>2, <3>1
    <3>3. \A f \in Files : /\ requests[f] = IF f \in pending THEN 0 ELSE 1
                           /\ f \in pending' <=> f \in pending /\ f # file
      BY <2>2, <3>1
    <3>4. \A f \in Files : (IF f = file THEN requests[f] + 1 ELSE requests[f])
                             = IF f \in pending' THEN 0 ELSE 1
      BY <2>2, <3>3
    <3> QED
      BY <2>2, <3>1, <3>2, <3>4
  <2> QED
    BY <1>1, <1>3, <2>1, <2>3 DEF NextAsked
<1>10. CASE Install
  <2>1. /\ UNCHANGED <<epoch, image_processed, requests>> /\ pc = "fetch" /\ pc' = "prefetch"
        /\ stages' = Tail(stages) /\ pending = {}
    BY <1>10 DEF Install
  <2>2. stages' = <<>> /\ requests = Once
    BY <1>3, <1>4, <1>5, <2>1 DEF Once
  <2> QED
    BY <1>1, <1>3, <2>1, <2>2 DEF NextAsked
<1>11. CASE Prefetched
  <2>1. /\ UNCHANGED <<epoch, image_processed, requests>> /\ pc = "prefetch" /\ pc' = "open"
        /\ stages = <<>>
    BY <1>11 DEF Prefetched
  <2>2. image_processed < Len(Reads)
    BY <2>1 DEF Types
  <2>3. ~(OneShot /\ epoch > 1)
    BY <1>2, <1>3, <2>2
  <2> QED
    BY <1>1, <1>3, <2>1, <2>3 DEF NextAsked
<1>12. CASE Open
  <2>1. /\ UNCHANGED <<epoch, image_processed>> /\ pc = "open" /\ pc' \in {"get_sample", "failed"}
        /\ \/ requests' = requests
           \/ requests' = [requests EXCEPT ![File] = @]
    BY <1>12 DEF Open, Opened, Source
  <2>2. requests' = requests
    BY <2>1 DEF RequestsInv
  <2> QED
    BY <1>1, <1>3, <2>1, <2>2 DEF NextAsked
<1>13. CASE GetSample
  <2>1. /\ UNCHANGED <<epoch, requests>> /\ pc = "get_sample" /\ pc' \in {"open", "close"}
    BY <1>13 DEF GetSample
  <2>2. image_processed < Len(Reads)
    BY <2>1 DEF Types
  <2>3. ~(OneShot /\ epoch > 1)
    BY <1>2, <1>3, <2>2
  <2> QED
    BY <1>1, <1>3, <2>1, <2>3 DEF NextAsked
<1>14. CASE Close
  <2>1. /\ UNCHANGED <<epoch, image_processed, requests>> /\ pc = "close" /\ pc' = "open"
    BY <1>14 DEF Close
  <2> QED
    BY <1>1, <1>3, <2>1 DEF NextAsked
<1>15. CASE EndEpoch
  <2>1. pc \in {"call", "open"} /\ image_processed = Len(Reads)
    BY <1>15 DEF EndEpoch, EpochRead
  <2>2. CASE epoch = conf.epochs
    <3>1. pc' = "done" /\ UNCHANGED <<epoch, image_processed>>
      BY <1>15, <2>2 DEF EndEpoch
    <3> QED
      BY <1>1, <1>3, <3>1 DEF NextAsked
  <2>3. CASE epoch # conf.epochs
    <3>1. /\ epoch' = epoch + 1 /\ requests' = Unread
          /\ IF OneShot THEN UNCHANGED <<pc, image_processed>>
                        ELSE pc' = "call" /\ image_processed' = 0
      BY <1>15, <2>3 DEF EndEpoch
    <3>2. epoch' > 1
      BY <3>1 DEF Types
    <3>3. CASE OneShot
      BY <1>1, <1>3, <2>1, <3>1, <3>2, <3>3 DEF NextAsked
    <3>4. CASE ~OneShot
      BY <1>1, <1>3, <2>1, <3>1, <3>2, <3>4 DEF NextAsked
    <3> QED
      BY <3>3, <3>4
  <2> QED
    BY <2>2, <2>3
<1>16. CASE UNCHANGED vars
  BY <1>1, <1>3, <1>16 DEF vars, NextAsked
<1>17. ~GetSampleIndex
  BY DEF GetSampleIndex
<1> QED
  BY <1>6, <1>7, <1>8, <1>9, <1>10, <1>11, <1>12, <1>13, <1>14, <1>15, <1>16, <1>17
     DEF Next, Terminated

(* The files that are open, and those whose samples have been come to in this epoch. *)
OpenFiles == {f \in Files : open_file_map[f] # None}
Reached == IF pc = "get_sample" THEN image_processed + 1 ELSE image_processed
Met == {Reads[i][1] : i \in 1 .. Reached}

(* A file for each sample that has been come to, none twice *)
MetOnce == [f \in Files |-> IF f \in Met THEN 1 ELSE 0]

(* next that reads a file when it opens it: of reads that go file by file one is
   open at most, the one it is in, and it has opened those it has come to, once. *)
OneFileOpen ==
  ~Indexed /\ Source = "storage" /\ ~Doomed /\ FileByFile =>
    /\ pc = "get_sample" => OpenFiles = {File}
    /\ pc = "close" => OpenFiles = {JustRead} /\ image_processed % conf.perFile = 0
    /\ pc \in {"construct", "call", "prefetch", "open"} =>
         OpenFiles = IF image_processed % conf.perFile = 0 THEN {} ELSE {JustRead}
    /\ pc \in {"construct", "call", "prefetch"} => image_processed = 0
    /\ requests = MetOnce

(* Numbers that no multiple separates have the same quotient. *)
LEMMA SameBlock ==
  ASSUME NEW n \in Nat \ {0}, NEW a \in Nat, a % n # 0
  PROVE  (a - 1) \div n = a \div n
<1>1. PICK q \in Nat, r \in 0 .. n - 1 : a = n * q + r /\ q = a \div n /\ r = a % n
  <2>1. a \div n \in Nat /\ a = n * (a \div n) + (a % n) /\ a % n \in 0 .. n - 1
    OBVIOUS
  <2> QED
    BY <2>1
<1>2. r - 1 \in 0 .. n - 1 /\ n * q = q * n /\ n * q \in Nat
  BY <1>1
<1>3. a - 1 = q * n + (r - 1)
  BY <1>1, <1>2
<1>4. (a - 1) \div n = q
  <2> DEFINE b == a - 1
             m == r - 1
  <2>1. b = q * n + m /\ m \in 0 .. n - 1
    BY <1>2, <1>3
  <2> HIDE DEF b, m
  <2>2. b \div n = q
    BY <2>1, QuotientOf
  <2> QED
    BY <2>2 DEF b
<1> QED
  BY <1>1, <1>4

(* A sample and the one before it are of the same file unless a file has been read
   to its end in between; then no earlier sample of the epoch is of its file. *)
LEMMA NextFile ==
  ASSUME Types, FileByFile, image_processed < Len(Reads)
  PROVE  /\ image_processed % conf.perFile # 0 =>
              File = JustRead /\ image_processed \in 1 .. image_processed
         /\ image_processed % conf.perFile = 0 =>
              \A i \in 1 .. image_processed : Reads[i][1] # File
<1>1. /\ conf.perFile \in Nat \ {0} /\ image_processed \in Nat
      /\ Len(Reads) \in Nat /\ DOMAIN Reads = 1 .. Len(Reads)
  BY ConfType DEF Types
<1>2. image_processed + 1 \in DOMAIN Reads /\ (image_processed + 1) - 1 = image_processed
  BY <1>1
<1>3. ASSUME image_processed % conf.perFile # 0
      PROVE  File = JustRead /\ image_processed \in 1 .. image_processed
  <2>1. image_processed # 0
    <3>1. 0 % conf.perFile = 0
      BY <1>1
    <3> QED
      BY <1>3, <3>1
  <2>2. image_processed \in DOMAIN Reads
    BY <1>1, <2>1
  <2>3. (image_processed - 1) \div conf.perFile = image_processed \div conf.perFile
    BY <1>1, <1>3, SameBlock
  <2>4. Reads[image_processed][1] = Reads[image_processed + 1][1]
    BY <1>2, <2>2, <2>3 DEF FileByFile
  <2> QED
    BY <1>1, <2>1, <2>4 DEF File, JustRead
<1>4. ASSUME image_processed % conf.perFile = 0, NEW i \in 1 .. image_processed
      PROVE  Reads[i][1] # File
  <2>1. i \in DOMAIN Reads /\ i - 1 \in Nat /\ i - 1 < image_processed /\ image_processed <= image_processed
    BY <1>1
  <2>2. (i - 1) \div conf.perFile # image_processed \div conf.perFile
    BY <1>1, <1>4, <2>1, Separated
  <2> QED
    BY <1>2, <2>1, <2>2 DEF FileByFile, File
<1> QED
  BY <1>3, <1>4

(* What open returns when it reads the file is not None. *)
LEMMA StorageHandle ==
  ASSUME Types, Source = "storage", image_processed < Len(Reads)
  PROVE  Handle = Bytes(File) /\ Handle # None
<1>1. Handle = Bytes(File)
  BY DEF Handle, Source
<1>2. Bytes(File) \in Nat
  BY NextSample DEF Bytes
<1> QED
  BY <1>1, <1>2, NoneAssumption

(* No file is open. *)
LEMMA OneFileOpenInit == Init => OneFileOpen
<1> SUFFICES ASSUME Init PROVE OneFileOpen
  OBVIOUS
<1>1. /\ pc = "construct" /\ image_processed = 0 /\ requests = Unread
      /\ open_file_map = [f \in Files |-> None] /\ conf.perFile \in Nat \ {0}
  BY ConfType DEF Init
<1>2. 0 % conf.perFile = 0
  BY <1>1
<1>3. OpenFiles = {} /\ Met = {}
  BY <1>1 DEF OpenFiles, Met, Reached
<1> QED
  BY <1>1, <1>2, <1>3 DEF OneFileOpen, Unread, MetOnce

(* A file is opened when the samples come to it, and closed with its last one. *)
LEMMA OneFileOpenNext == Types /\ RequestsInv /\ OneFileOpen /\ [Next]_vars => OneFileOpen'
<1> SUFFICES ASSUME Types, RequestsInv, OneFileOpen, [Next]_vars PROVE OneFileOpen'
  OBVIOUS
<1>1. /\ conf' = conf /\ Reads' = Reads /\ Files' = Files /\ Class' = Class
      /\ (Indexed' <=> Indexed) /\ (Demand' <=> Demand) /\ (OneShot' <=> OneShot)
      /\ Source' = Source /\ (Doomed' <=> Doomed) /\ (FileByFile' <=> FileByFile)
      /\ Unread' = Unread /\ (conf.perFile)' = conf.perFile
  BY SameReader, SameConf, SameSource DEF Unread
<1> SUFFICES ASSUME ~Indexed, Source = "storage", ~Doomed, FileByFile PROVE OneFileOpen'
  BY <1>1 DEF OneFileOpen
<1>2. /\ conf \in Configurations /\ Len(Reads) \in Nat /\ image_processed \in 0 .. Len(Reads)
      /\ conf.perFile \in Nat \ {0}
  BY ConfType DEF Types
<1>3. /\ pc = "get_sample" => OpenFiles = {File}
      /\ pc = "close" => OpenFiles = {JustRead} /\ image_processed % conf.perFile = 0
      /\ pc \in {"construct", "call", "prefetch", "open"} =>
           OpenFiles = IF image_processed % conf.perFile = 0 THEN {} ELSE {JustRead}
      /\ pc \in {"construct", "call", "prefetch"} => image_processed = 0
      /\ requests = MetOnce
  BY DEF OneFileOpen
<1>4. ~OneShot /\ ~Demand
  BY <1>2, Classes DEF Source, Demand
<1>5. pc # "fetch" /\ DOMAIN open_file_map = Files
  BY DEF RequestsInv, StagesInv, Kinds
<1>6. /\ image_processed' = image_processed => File' = File /\ JustRead' = JustRead
      /\ Reached' = Reached => Met' = Met /\ MetOnce' = MetOnce
      /\ open_file_map' = open_file_map => OpenFiles' = OpenFiles
  BY <1>1 DEF File, JustRead, Met, MetOnce, OpenFiles
<1>7. CASE Construct \/ Call \/ Prefetch \/ Prefetched
  <2>1. /\ UNCHANGED <<image_processed, open_file_map, requests>>
        /\ pc \in {"construct", "call", "prefetch"}
        /\ pc' \in {"call", "prefetch", "open", "fetch", "failed"}
    BY <1>7 DEF Construct, Call, Prefetch, Prefetched
  <2>2. Reached' = Reached
    BY <2>1 DEF Reached
  <2> QED
    BY <1>1, <1>3, <1>6, <2>1, <2>2 DEF OneFileOpen
<1>8. CASE Open
  <2>1. /\ pc = "open" /\ pc' \in {"get_sample", "failed"} /\ image_processed' = image_processed
        /\ image_processed < Len(Reads)
    BY <1>8 DEF Open, Opened
  <2>2. File \in Files /\ File' = File
    BY <1>6, <2>1, NextSample
  <2>3. pc' = "get_sample" => Met' = Met \cup {File}
    <3> SUFFICES ASSUME pc' = "get_sample" PROVE Met' = Met \cup {File}
      OBVIOUS
    <3>1. Reached = image_processed /\ Reached' = image_processed + 1
      BY <2>1 DEF Reached
    <3>2. 1 .. image_processed + 1 = (1 .. image_processed) \cup {image_processed + 1}
      BY <1>2
    <3> QED
      BY <1>1, <3>1, <3>2 DEF Met, File
  <2>4. CASE pc' = "failed"
    <3>1. UNCHANGED requests
      BY <1>8, <2>4 DEF Open, Opened
    <3>2. Reached' = Reached
      BY <2>1, <2>4 DEF Reached
    <3> QED
      BY <1>1, <1>3, <1>6, <2>4, <3>1, <3>2 DEF OneFileOpen
  <2>5. CASE pc' = "get_sample" /\ image_processed % conf.perFile # 0
    <3>1. File = JustRead /\ image_processed \in 1 .. image_processed
      BY <2>1, <2>5, NextFile
    <3>2. OpenFiles = {File} /\ File \in Met
      BY <1>3, <2>1, <2>5, <3>1 DEF Met, JustRead, Reached
    <3>3. open_file_map[File] # None
      BY <3>2 DEF OpenFiles
    <3>4. UNCHANGED <<open_file_map, requests>>
      BY <1>4, <1>8, <3>3 DEF Open
    <3>5. Met' = Met /\ MetOnce' = MetOnce
      BY <1>1, <2>3, <2>5, <3>2 DEF MetOnce
    <3> QED
      BY <1>1, <1>3, <1>6, <2>2, <2>5, <3>2, <3>4, <3>5 DEF OneFileOpen
  <2>6. CASE pc' = "get_sample" /\ image_processed % conf.perFile = 0
    <3>1. OpenFiles = {} /\ \A i \in 1 .. image_processed : Reads[i][1] # File
      BY <1>3, <2>1, <2>6, NextFile
    <3>2. File \notin Met /\ open_file_map[File] = None
      BY <2>1, <2>2, <3>1 DEF Met, Reached, OpenFiles
    <3>3. /\ open_file_map' = [open_file_map EXCEPT ![File] = Handle]
          /\ requests' = [requests EXCEPT ![File] = @ + 1]
      BY <1>4, <1>8, <2>6, <3>2 DEF Open, Source
    <3>4. Handle # None
      BY <2>1, StorageHandle
    <3>5. OpenFiles' = {File}
      <4>1. \A f \in Files : open_file_map'[f] # None <=> f = File
        BY <1>5, <2>2, <3>1, <3>3, <3>4 DEF OpenFiles
      <4> QED
        BY <1>1, <2>2, <4>1 DEF OpenFiles
    <3>6. requests' = MetOnce'
      <4>1. \A f \in Files : requests[f] = IF f \in Met THEN 1 ELSE 0
        BY <1>3 DEF MetOnce
      <4>2. requests' = [f \in Files |-> IF f = File THEN requests[f] + 1 ELSE requests[f]]
        BY <2>2, <3>3 DEF RequestsInv
      <4>3. \A f \in Files : (IF f = File THEN requests[f] + 1 ELSE requests[f])
                               = IF f \in Met \cup {File} THEN 1 ELSE 0
        BY <3>2, <4>1
      <4> QED
        BY <1>1, <2>3, <2>6, <4>2, <4>3 DEF MetOnce
    <3> QED
      BY <1>1, <2>2, <2>6, <3>5, <3>6 DEF OneFileOpen
  <2> QED
    BY <2>1, <2>4, <2>5, <2>6
<1>9. CASE GetSample
  <2>1. /\ pc = "get_sample" /\ image_processed' = image_processed + 1
        /\ pc' = (IF FileEnds THEN "close" ELSE "open")
        /\ UNCHANGED <<open_file_map, requests>>
    BY <1>4, <1>9 DEF GetSample
  <2>2. Reached' = Reached
    BY <2>1 DEF Reached
  <2>3. JustRead' = File
    BY <1>1, <2>1 DEF JustRead, File
  <2>4. FileEnds <=> image_processed' % conf.perFile = 0
    BY <2>1 DEF FileEnds
  <2> QED
    BY <1>1, <1>3, <1>6, <2>1, <2>2, <2>3, <2>4 DEF OneFileOpen
<1>10. CASE Close
  <2>1. /\ pc = "close" /\ pc' = "open" /\ UNCHANGED <<image_processed, requests>>
        /\ open_file_map' = [open_file_map EXCEPT ![JustRead] = None]
    BY <1>10 DEF Close
  <2>2. Reached' = Reached
    BY <2>1 DEF Reached
  <2>3. OpenFiles' = {}
    <3>1. \A f \in Files : open_file_map[f] # None <=> f = JustRead
      BY <1>3, <2>1 DEF OpenFiles
    <3>2. \A f \in Files : open_file_map'[f] = None
      BY <1>5, <2>1, <3>1
    <3> QED
      BY <1>1, <3>2 DEF OpenFiles
  <2> QED
    BY <1>1, <1>3, <1>6, <2>1, <2>2, <2>3 DEF OneFileOpen
<1>11. CASE EndEpoch
  <2>1. pc \in {"call", "open"}
    BY <1>11 DEF EndEpoch, EpochRead
  <2>2. CASE epoch = conf.epochs
    <3>1. pc' = "done" /\ UNCHANGED <<image_processed, open_file_map, requests>>
      BY <1>11, <2>2 DEF EndEpoch
    <3>2. Reached' = Reached
      BY <2>1, <3>1 DEF Reached
    <3> QED
      BY <1>1, <1>3, <1>6, <3>1, <3>2 DEF OneFileOpen
  <2>3. CASE epoch # conf.epochs
    <3>1. /\ pc' = "call" /\ image_processed' = 0 /\ requests' = Unread
          /\ open_file_map' = [f \in Files |-> None]
      BY <1>4, <1>11, <2>3 DEF EndEpoch
    <3>2. 0 % conf.perFile = 0
      BY <1>2
    <3>3. OpenFiles' = {} /\ Met' = {}
      BY <1>1, <3>1 DEF OpenFiles, Met, Reached
    <3>4. requests' = MetOnce'
      BY <1>1, <3>1, <3>3 DEF MetOnce, Unread
    <3> QED
      BY <1>1, <3>1, <3>2, <3>3, <3>4 DEF OneFileOpen
  <2> QED
    BY <2>2, <2>3
<1>12. CASE UNCHANGED vars
  <2>1. /\ UNCHANGED <<pc, image_processed, open_file_map, requests>>
    BY <1>12 DEF vars
  <2>2. Reached' = Reached
    BY <2>1 DEF Reached
  <2> QED
    BY <1>1, <1>3, <1>6, <2>1, <2>2 DEF OneFileOpen
<1>13. ~GetSampleIndex /\ ~Answer /\ ~Install /\ ~RequestFails
  BY <1>5 DEF GetSampleIndex, Answer, Install, RequestFails
<1> QED
  BY <1>7, <1>8, <1>9, <1>10, <1>11, <1>12, <1>13 DEF Next, Terminated

(* What a worker has: the files that are open, or whose bytes are counted. *)
Held == IF Source = "storage" THEN OpenFiles ELSE DOMAIN cache[Source]

(* One read in the first epoch for what is held, and for what a prefetch has. *)
HeldOnce == [f \in Files |-> IF epoch = 1 /\ f \in Held THEN 1 ELSE 0]
FetchedOnce == [f \in Files |-> IF epoch = 1 /\ f \in DOMAIN fetched THEN 1 ELSE 0]

(* A worker that keeps what it has: it asks for a file when it comes to it first, and
   has them all after an epoch. *)
KeptOnce ==
  Indexed /\ ~Doomed /\ (Demand => Source = "local") =>
    /\ Held \subseteq Files /\ Met \subseteq Held
    /\ pc = "close" => Demand
    /\ epoch > 1 => Files \subseteq Held
    /\ pc \notin {"fetch", "failed"} => requests = HeldOnce
    /\ pc = "fetch" =>
         /\ pending \subseteq {File} /\ pending \cap DOMAIN fetched = {}
         /\ Held \subseteq DOMAIN fetched
         /\ DOMAIN fetched \cup pending = Held \cup {File}
         /\ requests = FetchedOnce
    /\ Source # "storage" =>
         /\ pc = "prefetch" /\ stages = <<>> => File \in Held
         /\ pc = "open" /\ image_processed < Len(Reads) => File \in Held

(* A new worker has nothing. *)
LEMMA KeptOnceInit == Init => KeptOnce
<1> SUFFICES ASSUME Init PROVE KeptOnce
  OBVIOUS
<1>1. /\ pc = "construct" /\ image_processed = 0 /\ requests = Unread /\ epoch = 1
      /\ open_file_map = [f \in Files |-> None]
      /\ cache = [local |-> NoFile, object |-> NoFile] /\ conf \in Configurations
  BY DEF Init
<1>2. OpenFiles = {} /\ Met = {}
  BY <1>1 DEF OpenFiles, Met, Reached
<1>3. Source \in {"storage", "local", "object"}
  BY <1>1, ReaderClasses
<1>4. Held = {}
  BY <1>1, <1>2, <1>3 DEF Held, NoFile
<1> QED
  BY <1>1, <1>2, <1>4 DEF KeptOnce, HeldOnce, Unread

(* A worker asks for what it lacks, and drops nothing. *)
LEMMA KeptOnceNext == Types /\ RequestsInv /\ KeptOnce /\ [Next]_vars => KeptOnce'
<1> SUFFICES ASSUME Types, RequestsInv, KeptOnce, [Next]_vars PROVE KeptOnce'
  OBVIOUS
<1>1. /\ conf' = conf /\ Reads' = Reads /\ Files' = Files /\ Class' = Class
      /\ (Indexed' <=> Indexed) /\ (Demand' <=> Demand) /\ (OneShot' <=> OneShot)
      /\ Source' = Source /\ (Doomed' <=> Doomed)
      /\ Unread' = Unread /\ Len(Reads)' = Len(Reads)
  BY SameReader, SameConf, SameSource DEF Unread
<1> SUFFICES ASSUME Indexed, ~Doomed, Demand => Source = "local" PROVE KeptOnce'
  BY <1>1 DEF KeptOnce
<1>2. /\ conf \in Configurations /\ Len(Reads) \in Nat /\ image_processed \in 0 .. Len(Reads)
      /\ epoch \in Nat /\ DOMAIN Reads = 1 .. Len(Reads) /\ ~OneShot
      /\ Source \in {"storage", "local", "object"}
  BY ConfType, ReaderClasses DEF Types
<1>3. /\ Held \subseteq Files /\ Met \subseteq Held
      /\ pc = "close" => Demand
      /\ epoch > 1 => Files \subseteq Held
      /\ pc \notin {"fetch", "failed"} => requests = HeldOnce
      /\ pc = "fetch" =>
           /\ pending \subseteq {File} /\ pending \cap DOMAIN fetched = {}
           /\ Held \subseteq DOMAIN fetched
           /\ DOMAIN fetched \cup pending = Held \cup {File}
           /\ requests = FetchedOnce
      /\ Source # "storage" =>
           /\ pc = "prefetch" /\ stages = <<>> => File \in Held
           /\ pc = "open" /\ image_processed < Len(Reads) => File \in Held
  BY DEF KeptOnce
<1>4. /\ requests \in [Files -> Nat] /\ DOMAIN open_file_map = Files /\ DOMAIN cache = Kinds
      /\ pc \in {"prefetch", "fetch"} =>
           \/ stages = <<>> /\ pc = "prefetch"
           \/ stages = <<Source>> /\ Source \in Kinds
  BY DEF RequestsInv, CachesInv, StagesInv
<1>5. /\ image_processed' = image_processed => File' = File
      /\ Reached' = Reached => Met' = Met
      /\ cache' = cache /\ (Source # "storage" \/ open_file_map' = open_file_map) => Held' = Held
      /\ epoch' = epoch /\ Held' = Held => HeldOnce' = HeldOnce
  BY <1>1 DEF File, Met, OpenFiles, Held, HeldOnce
<1>6. <<Source>> # <<>> /\ Tail(<<Source>>) = <<>> /\ Head(<<Source>>) = Source
  OBVIOUS
<1>7. CASE Construct \/ RequestFails
  <2>1. /\ UNCHANGED <<epoch, image_processed, open_file_map, cache, requests>>
        /\ pc' = "failed" \/ (pc = "construct" /\ pc' = "call")
        /\ pc # "get_sample"
    BY <1>7 DEF Construct, RequestFails
  <2>2. Reached' = Reached
    BY <2>1 DEF Reached
  <2> QED
    BY <1>1, <1>3, <1>5, <2>1, <2>2 DEF KeptOnce
<1>8. CASE Call
  <2>1. /\ UNCHANGED <<epoch, image_processed, open_file_map, cache, requests>>
        /\ pc = "call" /\ pc' = "prefetch" /\ stages' = Class.prefetch
    BY <1>8 DEF Call
  <2>2. Reached' = Reached
    BY <2>1 DEF Reached
  <2>3. Source # "storage" => stages' # <<>>
    BY <1>2, <1>6, <2>1, ReaderClasses
  <2> QED
    BY <1>1, <1>3, <1>5, <2>1, <2>2, <2>3 DEF KeptOnce
<1>9. CASE Prefetch
  <2>1. /\ UNCHANGED <<epoch, image_processed, open_file_map, cache, requests>>
        /\ pc = "prefetch" /\ stages # <<>> /\ pc' \in {"failed", "fetch"}
        /\ pc' = "fetch" => pending' = Wanted(Head(stages)) /\ fetched' = cache[Head(stages)]
    BY <1>9 DEF Prefetch
  <2>2. Reached' = Reached
    BY <2>1 DEF Reached
  <2>3. Head(stages) = Source /\ Source \in Kinds /\ Source # "storage"
    BY <1>4, <1>6, <2>1 DEF Kinds
  <2>4. Held = DOMAIN cache[Source]
    BY <2>3 DEF Held
  <2>5. pc' = "fetch" => pending' = {File} \ Held /\ DOMAIN fetched' = Held
    BY <2>1, <2>3, <2>4 DEF Wanted
  <2>6. pc' = "fetch" => FetchedOnce' = HeldOnce
    BY <1>1, <2>1, <2>5 DEF FetchedOnce, HeldOnce
  <2> QED
    BY <1>1, <1>3, <1>5, <2>1, <2>2, <2>5, <2>6 DEF KeptOnce
<1>10. CASE Answer
  <2>1. /\ UNCHANGED <<epoch, image_processed, open_file_map, cache>>
        /\ pc = "fetch" /\ pc' = "fetch"
    BY <1>10 DEF Answer
  <2>2. PICK file \in pending : /\ pending' = pending \ {file}
                                /\ fetched' = Put(fetched, file, Bytes(file))
                                /\ requests' = [requests EXCEPT ![file] = @ + 1]
    BY <1>10 DEF Answer
  <2>3. DOMAIN fetched' = DOMAIN fetched \cup {file}
    BY <2>2 DEF Put
  <2>4. file = File /\ file \notin DOMAIN fetched
    BY <1>3, <2>1, <2>2
  <2>5. file \in Files
    <3>1. image_processed < Len(Reads)
      BY <2>1 DEF Types
    <3> QED
      BY <2>4, <3>1, NextSample
  <2>6. epoch = 1
    <3>1. epoch > 1 => FALSE
      BY <1>3, <2>1, <2>4, <2>5
    <3> QED
      BY <3>1 DEF Types
  <2>7. requests' = FetchedOnce'
    <3>1. requests = FetchedOnce
      BY <1>3, <2>1
    <3>2. \A f \in Files : requests[f] = IF f \in DOMAIN fetched THEN 1 ELSE 0
      BY <2>6, <3>1 DEF FetchedOnce
    <3>3. requests' = [f \in Files |-> IF f = file THEN requests[f] + 1 ELSE requests[f]]
      BY <1>4, <2>2
    <3>4. \A f \in Files : (IF f = file THEN requests[f] + 1 ELSE requests[f])
                             = IF f \in DOMAIN fetched \cup {file} THEN 1 ELSE 0
      BY <2>4, <3>2
    <3> QED
      BY <1>1, <2>1, <2>3, <2>6, <3>3, <3>4 DEF FetchedOnce
  <2>8. Reached' = Reached
    BY <2>1 DEF Reached
  <2>9. /\ pending' \subseteq {File} /\ pending' \cap DOMAIN fetched' = {}
        /\ Held \subseteq DOMAIN fetched'
        /\ DOMAIN fetched' \cup pending' = Held \cup {File}
    <3> DEFINE d == DOMAIN fetched
               e == DOMAIN fetched'
    <3>1. /\ pending \subseteq {File} /\ pending \cap d = {}
          /\ Held \subseteq d /\ d \cup pending = Held \cup {File}
          /\ e = d \cup {file} /\ pending' = pending \ {file}
      BY <1>3, <2>1, <2>2, <2>3
    <3> HIDE DEF d, e
    <3>2. /\ pending' \subseteq {File} /\ pending' \cap e = {}
          /\ Held \subseteq e /\ e \cup pending' = Held \cup {File}
      BY <2>4, <3>1
    <3> QED
      BY <3>2 DEF e
  <2> QED
    BY <1>1, <1>3, <1>5, <2>1, <2>7, <2>8, <2>9 DEF KeptOnce
<1>11. CASE Install
  <2>1. /\ UNCHANGED <<epoch, image_processed, open_file_map, requests>>
        /\ pc = "fetch" /\ pc' = "prefetch" /\ pending = {} /\ stages' = Tail(stages)
        /\ cache' = [cache EXCEPT ![Head(stages)] = fetched]
    BY <1>11 DEF Install
  <2>2. stages = <<Source>> /\ Source \in Kinds /\ Source # "storage"
    BY <1>4, <2>1 DEF Kinds
  <2>3. Held' = DOMAIN fetched
    BY <1>1, <1>4, <1>6, <2>1, <2>2 DEF Held
  <2>4. DOMAIN fetched = Held \cup {File}
    BY <1>3, <2>1
  <2>5. HeldOnce' = FetchedOnce
    BY <1>1, <2>1, <2>3 DEF HeldOnce, FetchedOnce
  <2>6. Reached' = Reached
    BY <2>1 DEF Reached
  <2>7. File \in Files
    <3>1. image_processed < Len(Reads)
      BY <2>1 DEF Types
    <3> QED
      BY <3>1, NextSample
  <2> QED
    BY <1>1, <1>3, <1>5, <2>1, <2>3, <2>4, <2>5, <2>6, <2>7 DEF KeptOnce
<1>12. CASE Prefetched
  <2>1. /\ UNCHANGED <<epoch, image_processed, open_file_map, cache, requests>>
        /\ pc = "prefetch" /\ pc' = "open" /\ stages = <<>>
    BY <1>12 DEF Prefetched
  <2>2. Reached' = Reached
    BY <2>1 DEF Reached
  <2> QED
    BY <1>1, <1>3, <1>5, <2>1, <2>2 DEF KeptOnce
<1>13. CASE Open
  <2>1. /\ pc = "open" /\ pc' \in {"get_sample", "failed"} /\ image_processed < Len(Reads)
        /\ UNCHANGED <<epoch, image_processed, cache>>
    BY <1>13 DEF Open, Opened
  <2>2. File \in Files /\ File' = File
    BY <1>5, <2>1, NextSample
  <2>3. Met' \subseteq Met \cup {File}
    <3>1. 1 .. image_processed + 1 = (1 .. image_processed) \cup {image_processed + 1}
      BY <1>2
    <3> QED
      BY <1>1, <2>1, <3>1 DEF Met, Reached, File
  <2>4. pc' = "failed" => UNCHANGED <<open_file_map, requests>> /\ Reached' = Reached
    BY <1>13, <2>1 DEF Open, Opened, Reached
  <2>5. CASE UNCHANGED requests /\ Held' = Held /\ (pc' = "get_sample" => File \in Held)
    BY <1>1, <1>3, <1>5, <2>1, <2>3, <2>4, <2>5 DEF KeptOnce
  <2>6. CASE Source # "storage"
    <3>1. /\ \/ requests' = requests
             \/ requests' = [requests EXCEPT ![File] = @]
      BY <1>13, <2>6 DEF Open, Source
    <3>2. requests' = requests
      BY <1>4, <3>1
    <3> QED
      BY <1>3, <1>5, <2>1, <2>5, <2>6, <3>2
  <2>7. CASE Source = "storage" /\ open_file_map[File] # None
    <3>1. UNCHANGED <<open_file_map, requests>>
      BY <1>13, <2>7 DEF Open
    <3>2. File \in Held
      BY <2>2, <2>7 DEF Held, OpenFiles
    <3> QED
      BY <1>5, <2>1, <2>5, <3>1, <3>2
  <2>8. CASE pc' = "failed"
    BY <1>1, <1>3, <1>5, <2>1, <2>4, <2>8 DEF KeptOnce
  <2>9. CASE Source = "storage" /\ open_file_map[File] = None /\ pc' = "get_sample"
    <3>1. /\ open_file_map' = [open_file_map EXCEPT ![File] = Handle]
          /\ requests' = [requests EXCEPT ![File] = @ + 1]
      BY <1>2, <1>13, <2>9 DEF Open, Source
    <3>2. Handle # None
      BY <2>1, <2>9, StorageHandle
    <3>3. File \notin Held
      BY <2>9 DEF Held, OpenFiles
    <3>4. epoch = 1
      <4>1. epoch > 1 => FALSE
        BY <1>3, <2>2, <3>3
      <4> QED
        BY <4>1 DEF Types
    <3>5. Held' = Held \cup {File}
      <4>1. \A f \in Files : open_file_map'[f] # None <=> (f = File \/ open_file_map[f] # None)
        BY <1>4, <2>2, <3>1, <3>2
      <4>2. OpenFiles' = OpenFiles \cup {File}
        BY <1>1, <2>2, <4>1 DEF OpenFiles
      <4> QED
        BY <1>1, <2>9, <4>2 DEF Held
    <3>6. requests' = HeldOnce'
      <4>1. requests = HeldOnce
        BY <1>3, <2>1
      <4>2. \A f \in Files : requests[f] = IF f \in Held THEN 1 ELSE 0
        BY <3>4, <4>1 DEF HeldOnce
      <4>3. requests' = [f \in Files |-> IF f = File THEN requests[f] + 1 ELSE requests[f]]
        BY <1>4, <3>1
      <4>4. \A f \in Files : (IF f = File THEN requests[f] + 1 ELSE requests[f])
                               = IF f \in Held \cup {File} THEN 1 ELSE 0
        BY <3>3, <4>2
      <4> QED
        BY <1>1, <2>1, <3>4, <3>5, <4>3, <4>4 DEF HeldOnce
    <3> QED
      BY <1>1, <1>3, <2>1, <2>2, <2>3, <2>9, <3>4, <3>5, <3>6 DEF KeptOnce
  <2> QED
    BY <2>1, <2>6, <2>7, <2>8, <2>9
<1>14. CASE GetSampleIndex
  <2>1. /\ UNCHANGED <<epoch, open_file_map, cache, requests>>
        /\ pc = "get_sample" /\ image_processed' = image_processed + 1
        /\ pc' = IF Demand THEN "close" ELSE IF LastSample THEN "open" ELSE "call"
    BY <1>14 DEF GetSampleIndex
  <2>2. Reached' = Reached
    BY <2>1 DEF Reached
  <2>3. pc' = "open" => ~(image_processed' < Len(Reads))
    <3>1. pc' = "open" => LastSample
      BY <2>1
    <3>2. pc' = "open" => image_processed' = Len(Reads)
      BY <2>1, <3>1 DEF LastSample
    <3> QED
      BY <1>2, <3>2
  <2> QED
    BY <1>1, <1>3, <1>5, <2>1, <2>2, <2>3 DEF KeptOnce
<1>15. CASE Close
  <2>1. /\ UNCHANGED <<epoch, image_processed, requests>> /\ pc = "close"
        /\ pc' = (IF image_processed < Len(Reads) THEN "call" ELSE "open")
        /\ Source = "local"
    BY <1>3, <1>15 DEF Close
  <2>2. cache' = cache
    <3>1. ~Class.pops
      BY <1>2, <2>1, ReaderClasses
    <3> QED
      BY <1>15, <3>1 DEF Close
  <2>3. Reached' = Reached
    BY <2>1 DEF Reached
  <2> QED
    BY <1>1, <1>3, <1>5, <2>1, <2>2, <2>3 DEF KeptOnce
<1>16. CASE EndEpoch
  <2>1. pc \in {"call", "open"} /\ image_processed = Len(Reads) /\ UNCHANGED stages
    BY <1>16 DEF EndEpoch, EpochRead
  <2>2. CASE epoch = conf.epochs
    <3>1. pc' = "done" /\ UNCHANGED <<epoch, image_processed, open_file_map, cache, requests>>
      BY <1>16, <2>2 DEF EndEpoch
    <3>2. Reached' = Reached
      BY <2>1, <3>1 DEF Reached
    <3> QED
      BY <1>1, <1>3, <1>5, <2>1, <3>1, <3>2 DEF KeptOnce
  <2>3. CASE epoch # conf.epochs
    <3>1. /\ pc' = "call" /\ image_processed' = 0 /\ requests' = Unread /\ epoch' = epoch + 1
          /\ UNCHANGED <<open_file_map, cache>>
      BY <1>2, <1>16, <2>3 DEF EndEpoch
    <3>2. Files \subseteq Held
      <4>1. Reached = Len(Reads)
        BY <2>1 DEF Reached
      <4>2. Met = Files
        BY <1>2, <4>1 DEF Met, Files
      <4> QED
        BY <1>3, <4>2
    <3>3. Held' = Held
      BY <1>5, <3>1
    <3>4. Met' = {}
      BY <3>1 DEF Met, Reached
    <3>5. epoch' > 1 /\ epoch' # 1
      BY <3>1 DEF Types
    <3>6. requests' = HeldOnce'
      BY <1>1, <3>1, <3>5 DEF HeldOnce, Unread
    <3> QED
      BY <1>1, <1>3, <3>1, <3>2, <3>3, <3>4, <3>6 DEF KeptOnce
  <2> QED
    BY <2>2, <2>3
<1>17. CASE UNCHANGED vars
  <2>1. UNCHANGED <<pc, epoch, image_processed, open_file_map, cache, requests, fetched,
                    pending, stages>>
    BY <1>17 DEF vars
  <2>2. Reached' = Reached /\ FetchedOnce' = FetchedOnce
    BY <1>1, <2>1 DEF Reached, FetchedOnce
  <2> QED
    BY <1>1, <1>3, <1>5, <2>1, <2>2 DEF KeptOnce
<1>18. ~GetSample
  BY DEF GetSample
<1> QED
  BY <1>7, <1>8, <1>9, <1>10, <1>11, <1>12, <1>13, <1>14, <1>15, <1>16, <1>17, <1>18
     DEF Next, Terminated

(* How many of the samples come to so far are of each file; of the samples of a
   prefetch under way, one more. *)
Asked ==
  IF \/ pc = "get_sample"
     \/ Source = "object" /\ \/ pc = "prefetch" /\ stages = <<>>
                             \/ pc = "fetch" /\ pending = {}
                             \/ pc = "open" /\ image_processed < Len(Reads)
  THEN image_processed + 1
  ELSE image_processed
SamplesAsked == [f \in Files |-> Cardinality({i \in 1 .. Asked : Reads[i][1] = f})]

(* ReadType.ON_DEMAND, where close lets go of the file or the object: it is asked for
   with every sample. *)
AskedEachTime ==
  Demand /\ ~Doomed /\ Source # "local" =>
    /\ pc # "failed" => requests = SamplesAsked
    /\ Source = "object" =>
         /\ pc \in {"construct", "call"} => DOMAIN cache["object"] = {}
         /\ pc = "prefetch" => DOMAIN cache["object"] = IF stages = <<>> THEN {File} ELSE {}
         /\ pc = "fetch" => /\ DOMAIN cache["object"] = {}
                            /\ \/ pending = {File} /\ DOMAIN fetched = {}
                               \/ pending = {} /\ DOMAIN fetched = {File}
         /\ pc = "open" => DOMAIN cache["object"] = IF image_processed < Len(Reads) THEN {File} ELSE {}
         /\ pc = "get_sample" => DOMAIN cache["object"] = {File}
         /\ pc = "close" => DOMAIN cache["object"] = {JustRead}

(* One sample more of its file. *)
LEMMA OneMore ==
  ASSUME Types, image_processed < Len(Reads), NEW f \in Files
  PROVE  /\ Cardinality({i \in 1 .. image_processed : Reads[i][1] = f}) \in Nat
         /\ Cardinality({i \in 1 .. image_processed + 1 : Reads[i][1] = f})
              = Cardinality({i \in 1 .. image_processed : Reads[i][1] = f})
                + IF f = File THEN 1 ELSE 0
<1> DEFINE A == {i \in 1 .. image_processed : Reads[i][1] = f}
           B == {i \in 1 .. image_processed + 1 : Reads[i][1] = f}
<1>1. image_processed \in Nat
  BY ConfType DEF Types
<1>2. IsFiniteSet(A) /\ Cardinality(A) \in Nat
  <2>1. IsFiniteSet(1 .. image_processed)
    BY <1>1, FS_Interval, 1 \in Int, image_processed \in Int
  <2>2. A \subseteq 1 .. image_processed
    OBVIOUS
  <2> HIDE DEF A
  <2> QED
    BY <2>1, <2>2, FS_Subset, FS_CardinalityType
<1>3. image_processed + 1 \notin A
  BY <1>1
<1>4. 1 .. image_processed + 1 = (1 .. image_processed) \cup {image_processed + 1}
  BY <1>1
<1>5. CASE f = File
  <2>1. B = A \cup {image_processed + 1}
    BY <1>4, <1>5 DEF File
  <2> HIDE DEF A, B
  <2>2. Cardinality(B) = Cardinality(A) + 1
    BY <1>2, <1>3, <2>1, FS_AddElement
  <2> QED
    BY <1>2, <1>5, <2>2 DEF A, B
<1>6. CASE f # File
  <2>1. B = A
    BY <1>4, <1>6 DEF File
  <2> HIDE DEF A, B
  <2>2. Cardinality(B) = Cardinality(A) + 0
    BY <1>2, <2>1
  <2> QED
    BY <1>2, <1>6, <2>2 DEF A, B
<1> QED
  BY <1>5, <1>6

(* Before the first sample no file has been asked for. *)
LEMMA NoneAsked ==
  ASSUME Asked = 0
  PROVE  SamplesAsked = Unread
<1>1. ASSUME NEW f \in Files PROVE Cardinality({i \in 1 .. Asked : Reads[i][1] = f}) = 0
  <2>1. {i \in 1 .. Asked : Reads[i][1] = f} = {}
    OBVIOUS
  <2> QED
    BY <2>1, FS_EmptySet
<1> QED
  BY <1>1 DEF SamplesAsked, Unread

(* A new worker has nothing. *)
LEMMA AskedEachTimeInit == Init => AskedEachTime
<1> SUFFICES ASSUME Init PROVE AskedEachTime
  OBVIOUS
<1>1. /\ pc = "construct" /\ image_processed = 0 /\ requests = Unread
      /\ cache = [local |-> NoFile, object |-> NoFile]
  BY DEF Init
<1>2. Asked = 0
  BY <1>1 DEF Asked
<1> QED
  BY <1>1, <1>2, NoneAsked DEF AskedEachTime, NoFile

(* A file is asked for with its sample, and let go of after it. *)
LEMMA AskedEachTimeNext ==
  Types /\ RequestsInv /\ AskedEachTime /\ [Next]_vars => AskedEachTime'
<1> SUFFICES ASSUME Types, RequestsInv, AskedEachTime, [Next]_vars PROVE AskedEachTime'
  OBVIOUS
<1>1. /\ conf' = conf /\ Reads' = Reads /\ Files' = Files /\ Class' = Class
      /\ (Indexed' <=> Indexed) /\ (Demand' <=> Demand) /\ (OneShot' <=> OneShot)
      /\ Source' = Source /\ (Doomed' <=> Doomed)
      /\ Unread' = Unread /\ Len(Reads)' = Len(Reads)
  BY SameReader, SameConf, SameSource DEF Unread
<1> SUFFICES ASSUME Demand, ~Doomed, Source # "local" PROVE AskedEachTime'
  BY <1>1 DEF AskedEachTime
<1>2. /\ conf \in Configurations /\ Len(Reads) \in Nat /\ image_processed \in 0 .. Len(Reads)
      /\ Indexed /\ ~OneShot /\ Source \in {"storage", "object"}
  BY ConfType, ReaderClasses DEF Types, Demand
<1>3. /\ pc # "failed" => requests = SamplesAsked
      /\ Source = "object" =>
           /\ pc \in {"construct", "call"} => DOMAIN cache["object"] = {}
           /\ pc = "prefetch" => DOMAIN cache["object"] = IF stages = <<>> THEN {File} ELSE {}
           /\ pc = "fetch" => /\ DOMAIN cache["object"] = {}
                              /\ \/ pending = {File} /\ DOMAIN fetched = {}
                                 \/ pending = {} /\ DOMAIN fetched = {File}
           /\ pc = "open" => DOMAIN cache["object"] = IF image_processed < Len(Reads) THEN {File} ELSE {}
           /\ pc = "get_sample" => DOMAIN cache["object"] = {File}
           /\ pc = "close" => DOMAIN cache["object"] = {JustRead}
  BY DEF AskedEachTime
<1>4. /\ requests \in [Files -> Nat] /\ DOMAIN cache = Kinds
      /\ pc \in {"prefetch", "fetch"} =>
           \/ stages = <<>> /\ pc = "prefetch"
           \/ stages = <<Source>> /\ Source = "object"
  BY <1>2 DEF RequestsInv, CachesInv, StagesInv, Kinds
<1>5. /\ image_processed' = image_processed => File' = File /\ JustRead' = JustRead
      /\ Asked' = Asked => SamplesAsked' = SamplesAsked
  BY <1>1 DEF File, JustRead, SamplesAsked
<1>6. <<Source>> # <<>> /\ Tail(<<Source>>) = <<>> /\ Head(<<Source>>) = Source
  OBVIOUS
<1>7. ASSUME image_processed < Len(Reads), Asked = image_processed, Asked' = image_processed + 1,
             requests = SamplesAsked, requests' = [requests EXCEPT ![File] = @ + 1]
      PROVE  requests' = SamplesAsked'
  <2>1. \A f \in Files :
          /\ Cardinality({i \in 1 .. image_processed : Reads[i][1] = f}) \in Nat
          /\ Cardinality({i \in 1 .. image_processed + 1 : Reads[i][1] = f})
               = Cardinality({i \in 1 .. image_processed : Reads[i][1] = f})
                 + IF f = File THEN 1 ELSE 0
    BY <1>7, OneMore
  <2>2. \A f \in Files : requests[f] = Cardinality({i \in 1 .. image_processed : Reads[i][1] = f})
    BY <1>7 DEF SamplesAsked
  <2>3. SamplesAsked'
          = [f \in Files |-> Cardinality({i \in 1 .. image_processed + 1 : Reads[i][1] = f})]
    BY <1>1, <1>7 DEF SamplesAsked
  <2>4. requests' = [f \in Files |-> IF f = File THEN requests[f] + 1 ELSE requests[f]]
    BY <1>4, <1>7
  <2>5. \A f \in Files : (IF f = File THEN requests[f] + 1 ELSE requests[f])
                           = Cardinality({i \in 1 .. image_processed + 1 : Reads[i][1] = f})
    <3> SUFFICES ASSUME NEW f \in Files
                 PROVE  (IF f = File THEN requests[f] + 1 ELSE requests[f])
                           = Cardinality({i \in 1 .. image_processed + 1 : Reads[i][1] = f})
      OBVIOUS
    <3> DEFINE a == Cardinality({i \in 1 .. image_processed : Reads[i][1] = f})
               b == Cardinality({i \in 1 .. image_processed + 1 : Reads[i][1] = f})
    <3>1. a \in Nat /\ b = a + (IF f = File THEN 1 ELSE 0) /\ requests[f] = a
      BY <2>1, <2>2
    <3> SUFFICES (IF f = File THEN requests[f] + 1 ELSE requests[f]) = b
      OBVIOUS
    <3> HIDE DEF a, b
    <3> QED
      BY <3>1
  <2> QED
    BY <2>3, <2>4, <2>5
<1>8. CASE Construct \/ RequestFails
  <2>1. /\ UNCHANGED <<image_processed, cache, requests>>
        /\ pc' = "failed" \/ (pc = "construct" /\ pc' = "call")
    BY <1>8 DEF Construct, RequestFails
  <2>2. pc' = "call" => Asked' = Asked
    BY <2>1 DEF Asked
  <2> QED
    BY <1>1, <1>3, <1>5, <2>1, <2>2 DEF AskedEachTime
<1>9. CASE Call
  <2>1. /\ UNCHANGED <<image_processed, cache, requests>>
        /\ pc = "call" /\ pc' = "prefetch" /\ stages' = Class.prefetch
    BY <1>9 DEF Call
  <2>2. Source = "object" => stages' # <<>>
    BY <1>2, <1>6, <2>1, ReaderClasses
  <2>3. Asked' = Asked
    BY <1>1, <2>1, <2>2 DEF Asked
  <2> QED
    BY <1>1, <1>3, <1>5, <2>1, <2>2, <2>3 DEF AskedEachTime
<1>10. CASE Prefetch
  <2>1. /\ UNCHANGED <<image_processed, cache, requests, stages>>
        /\ pc = "prefetch" /\ stages # <<>> /\ pc' \in {"failed", "fetch"}
        /\ pc' = "fetch" => pending' = Wanted(Head(stages)) /\ fetched' = cache[Head(stages)]
    BY <1>2, <1>10 DEF Prefetch
  <2>2. Head(stages) = "object" /\ Source = "object" /\ DOMAIN cache["object"] = {}
    BY <1>3, <1>4, <1>6, <2>1
  <2>3. pc' = "fetch" => pending' = {File} /\ DOMAIN fetched' = {}
    BY <1>2, <2>1, <2>2 DEF Wanted
  <2>4. pc' = "fetch" => Asked' = Asked
    BY <2>1, <2>3 DEF Asked
  <2> QED
    BY <1>1, <1>3, <1>5, <2>1, <2>2, <2>3, <2>4 DEF AskedEachTime
<1>11. CASE Answer
  <2>1. /\ UNCHANGED <<image_processed, cache>>
        /\ pc = "fetch" /\ pc' = "fetch" /\ Source = "object"
    BY <1>4, <1>11 DEF Answer
  <2>2. PICK file \in pending : /\ pending' = pending \ {file}
                                /\ fetched' = Put(fetched, file, Bytes(file))
                                /\ requests' = [requests EXCEPT ![file] = @ + 1]
    BY <1>11 DEF Answer
  <2>3. DOMAIN fetched' = DOMAIN fetched \cup {file}
    BY <2>2 DEF Put
  <2>4. pending = {File} /\ DOMAIN fetched = {} /\ file = File
    BY <1>3, <2>1, <2>2
  <2>5. pending' = {} /\ DOMAIN fetched' = {File}
    BY <2>2, <2>3, <2>4
  <2>6. Asked = image_processed /\ Asked' = image_processed + 1
    BY <1>1, <2>1, <2>4, <2>5 DEF Asked
  <2>7. image_processed < Len(Reads)
    BY <2>1 DEF Types
  <2>8. requests' = SamplesAsked'
    BY <1>3, <1>7, <2>1, <2>2, <2>4, <2>6, <2>7
  <2> QED
    BY <1>1, <1>3, <1>5, <2>1, <2>5, <2>8 DEF AskedEachTime
<1>12. CASE Install
  <2>1. /\ UNCHANGED <<image_processed, requests>>
        /\ pc = "fetch" /\ pc' = "prefetch" /\ pending = {} /\ stages' = Tail(stages)
        /\ cache' = [cache EXCEPT ![Head(stages)] = fetched]
    BY <1>12 DEF Install
  <2>2. Source = "object" /\ Head(stages) = "object" /\ stages' = <<>>
    BY <1>4, <1>6, <2>1
  <2>3. DOMAIN cache'["object"] = {File}
    BY <1>3, <1>4, <2>1, <2>2 DEF Kinds
  <2>4. Asked' = Asked
    BY <1>1, <2>1, <2>2 DEF Asked
  <2> QED
    BY <1>1, <1>3, <1>5, <2>1, <2>2, <2>3, <2>4 DEF AskedEachTime
<1>13. CASE Prefetched
  <2>1. /\ UNCHANGED <<image_processed, cache, requests>>
        /\ pc = "prefetch" /\ pc' = "open" /\ stages = <<>>
    BY <1>13 DEF Prefetched
  <2>2. image_processed < Len(Reads)
    BY <2>1 DEF Types
  <2>3. Asked' = Asked
    BY <1>1, <2>1, <2>2 DEF Asked
  <2> QED
    BY <1>1, <1>3, <1>5, <2>1, <2>2, <2>3 DEF AskedEachTime
<1>14. CASE Open
  <2>1. /\ pc = "open" /\ pc' \in {"get_sample", "failed"} /\ image_processed < Len(Reads)
        /\ UNCHANGED <<image_processed, cache>>
    BY <1>14 DEF Open, Opened
  <2>2. CASE pc' = "failed"
    BY <1>1, <2>1, <2>2 DEF AskedEachTime
  <2>3. CASE pc' = "get_sample" /\ Source = "storage"
    <3>1. requests' = [requests EXCEPT ![File] = @ + 1]
      BY <1>2, <1>14, <2>3 DEF Open, Source
    <3>2. Asked = image_processed /\ Asked' = image_processed + 1
      BY <1>1, <2>1, <2>3 DEF Asked
    <3>3. requests' = SamplesAsked'
      BY <1>3, <1>7, <2>1, <3>1, <3>2
    <3> QED
      BY <1>1, <2>3, <3>3 DEF AskedEachTime
  <2>4. CASE pc' = "get_sample" /\ Source = "object"
    <3>1. requests' \in {requests, [requests EXCEPT ![File] = @]}
      BY <1>14, <2>4 DEF Open, Source
    <3>2. requests' = requests
      BY <1>4, <3>1
    <3>3. Asked' = Asked
      BY <1>1, <2>1, <2>4 DEF Asked
    <3> QED
      BY <1>1, <1>3, <1>5, <2>1, <2>4, <3>2, <3>3 DEF AskedEachTime
  <2> QED
    BY <1>2, <2>1, <2>2, <2>3, <2>4
<1>15. CASE GetSampleIndex
  <2>1. /\ UNCHANGED <<cache, requests>>
        /\ pc = "get_sample" /\ image_processed' = image_processed + 1 /\ pc' = "close"
    BY <1>15 DEF GetSampleIndex
  <2>2. Asked' = Asked
    BY <1>1, <2>1 DEF Asked
  <2>3. JustRead' = File
    BY <1>1, <2>1 DEF JustRead, File
  <2> QED
    BY <1>1, <1>3, <1>5, <2>1, <2>2, <2>3 DEF AskedEachTime
<1>16. CASE Close
  <2>1. /\ UNCHANGED <<image_processed, requests>> /\ pc = "close"
        /\ pc' = (IF image_processed < Len(Reads) THEN "call" ELSE "open")
    BY <1>2, <1>16 DEF Close
  <2>2. Asked' = Asked
    BY <1>1, <2>1 DEF Asked
  <2>3. Source = "object" => DOMAIN cache'["object"] = {}
    <3> SUFFICES ASSUME Source = "object" PROVE DOMAIN cache'["object"] = {}
      OBVIOUS
    <3>1. cache' = [cache EXCEPT !["object"] = Restrict(@, DOMAIN @ \ {JustRead})]
      BY <1>2, <1>16, ReaderClasses DEF Close
    <3>2. cache'["object"] = Restrict(cache["object"], DOMAIN cache["object"] \ {JustRead})
      BY <1>4, <3>1 DEF Kinds
    <3> QED
      BY <1>3, <2>1, <3>2 DEF Restrict
  <2> QED
    BY <1>1, <1>3, <1>5, <2>1, <2>2, <2>3 DEF AskedEachTime
<1>17. CASE EndEpoch
  <2>1. pc \in {"call", "open"} /\ image_processed = Len(Reads)
    BY <1>17 DEF EndEpoch, EpochRead
  <2>2. CASE epoch = conf.epochs
    <3>1. pc' = "done" /\ UNCHANGED <<image_processed, requests>>
      BY <1>17, <2>2 DEF EndEpoch
    <3>2. Asked' = Asked
      BY <1>2, <2>1, <3>1 DEF Asked
    <3> QED
      BY <1>1, <1>3, <1>5, <2>1, <3>1, <3>2 DEF AskedEachTime
  <2>3. CASE epoch # conf.epochs
    <3>1. /\ pc' = "call" /\ image_processed' = 0 /\ requests' = Unread /\ UNCHANGED cache
      BY <1>2, <1>17, <2>3 DEF EndEpoch
    <3>2. Asked' = 0
      BY <3>1 DEF Asked
    <3>3. (Asked = 0 => SamplesAsked = Unread)'
      BY NoneAsked, PTL
    <3>4. requests' = SamplesAsked'
      BY <1>1, <3>1, <3>2, <3>3
    <3>5. Source = "object" => DOMAIN cache["object"] = {}
      BY <1>2, <1>3, <2>1
    <3> QED
      BY <1>1, <3>1, <3>4, <3>5 DEF AskedEachTime
  <2> QED
    BY <2>2, <2>3
<1>18. CASE UNCHANGED vars
  <2>1. UNCHANGED <<pc, image_processed, cache, requests, fetched, pending, stages>>
    BY <1>18 DEF vars
  <2>2. Asked' = Asked
    BY <1>1, <2>1 DEF Asked
  <2> QED
    BY <1>1, <1>3, <1>5, <2>1, <2>2 DEF AskedEachTime
<1>19. ~GetSample
  BY <1>2 DEF GetSample
<1> QED
  BY <1>8, <1>9, <1>10, <1>11, <1>12, <1>13, <1>14, <1>15, <1>16, <1>17, <1>18, <1>19
     DEF Next, Terminated

FilesInv == NextAsked /\ OneFileOpen /\ KeptOnce /\ AskedEachTime

(* At the end of an epoch every sample has been come to. *)
LEMMA FilesInvRead == Types /\ RequestsInv /\ FilesInv => FilesRead
<1> SUFFICES ASSUME Types, RequestsInv, FilesInv, EpochRead, NEW file \in Files
             PROVE  requests[file] =
                      IF Demand /\ Class.open # "local" THEN SamplesOf(file)
                      ELSE IF Indexed \/ OneShot THEN IF epoch = 1 THEN 1 ELSE 0
                      ELSE IF Class.open # "storage" \/ FileByFile THEN 1 ELSE requests[file]
  BY DEF FilesRead
<1>1. /\ conf \in Configurations /\ Len(Reads) \in Nat /\ DOMAIN Reads = 1 .. Len(Reads)
      /\ image_processed = Len(Reads) /\ pc \in {"call", "open"}
      /\ OneShot => ~Indexed /\ Source = "object"
  BY ConfType, Classes DEF Types, EpochRead, Source
<1>2. ~Doomed
  <2>1. image_processed # 0
    BY <1>1 DEF Files
  <2> QED
    BY <2>1 DEF RequestsInv, DoomedInv
<1>3. Reached = Len(Reads) /\ Asked = Len(Reads)
  <2>1. ~(image_processed < Len(Reads)) /\ pc # "get_sample" /\ pc # "prefetch" /\ pc # "fetch"
    BY <1>1
  <2>2. Reached = image_processed /\ Asked = image_processed
    BY <2>1 DEF Reached, Asked
  <2> QED
    BY <1>1, <2>2
<1>4. Met = Files
  BY <1>1, <1>3 DEF Met, Files
<1>5. Source = Class.open
  BY DEF Source
<1>6. CASE Demand /\ Source # "local"
  <2>1. requests = SamplesAsked
    BY <1>1, <1>2, <1>6 DEF FilesInv, AskedEachTime
  <2>2. SamplesAsked[file] = SamplesOf(file)
    BY <1>1, <1>3 DEF SamplesAsked, SamplesOf
  <2> QED
    BY <1>5, <1>6, <2>1, <2>2
<1>7. CASE Indexed /\ (Demand => Source = "local")
  <2>1. requests = HeldOnce /\ Met \subseteq Held
    BY <1>1, <1>2, <1>7 DEF FilesInv, KeptOnce
  <2>2. requests[file] = IF epoch = 1 THEN 1 ELSE 0
    BY <1>4, <2>1 DEF HeldOnce
  <2> QED
    BY <1>5, <1>7, <2>2
<1>8. CASE ~Indexed /\ Source # "storage"
  <2>1. image_processed # 0
    BY <1>1 DEF Files
  <2>2. requests = IF OneShot /\ epoch > 1 THEN Unread ELSE Once
    BY <1>1, <1>2, <1>8, <2>1 DEF FilesInv, NextAsked
  <2>3. epoch = 1 \/ epoch > 1
    BY ConfType DEF Types
  <2>4. Unread[file] = 0 /\ Once[file] = 1
    BY DEF Unread, Once
  <2>5. ~Demand
    BY <1>8 DEF Demand
  <2> QED
    BY <1>5, <1>8, <2>2, <2>3, <2>4, <2>5
<1>9. CASE ~Indexed /\ Source = "storage"
  <2>1. ~OneShot /\ ~Demand
    BY <1>1, <1>9 DEF Demand
  <2>2. FileByFile => requests[file] = 1
    BY <1>2, <1>4, <1>9 DEF FilesInv, OneFileOpen, MetOnce
  <2> QED
    BY <1>5, <1>9, <2>1, <2>2
<1> QED
  BY <1>6, <1>7, <1>8, <1>9

(* What an epoch measures (FilesRead): in which order ever the requests of a prefetch
   are answered, next reads every file once; a worker reads each in its first epoch
   alone, or with every sample if it lets go of them. *)
THEOREM EachFileRead == Spec => []FilesRead
<1>1. Spec => []RequestsInv
  BY PrefetchTypeCorrect, RequestsInit, RequestsNext, PTL DEF Spec
<1>2. Init => FilesInv
  BY NextAskedInit, OneFileOpenInit, KeptOnceInit, AskedEachTimeInit DEF FilesInv
<1>3. Types /\ RequestsInv /\ FilesInv /\ [Next]_vars => FilesInv'
  BY NextAskedNext, OneFileOpenNext, KeptOnceNext, AskedEachTimeNext DEF FilesInv
<1> QED
  BY <1>1, <1>2, <1>3, PrefetchTypeCorrect, FilesInvRead, PTL DEF Spec
===============================================================================
