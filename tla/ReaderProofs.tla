------------------------------ MODULE ReaderProofs ------------------------------
(***************************************************************************)
(* What holds of a reader for every sequence of reads, every file and every *)
(* cache size: it implements Delivery; the row-group cache and the list of  *)
(* its keys stay in step, within their bound, and no cached group outlives  *)
(* its open file; files are opened and groups fetched once.                 *)
(*                                                                         *)
(* The arguments.                                                           *)
(*  - CacheInv is inductive: to the three properties it adds that the group *)
(*    being stored is not in the cache yet (Missed), without which its key  *)
(*    could enter the list twice, and that the cache is finite.  The        *)
(*    operations on the list are AppendKey, WithoutKey and TailOfKeys.      *)
(*  - BatchInv: the batches yielded and the one being filled hold what has  *)
(*    been read.  With it every step maps to one of Delivery or a stutter.  *)
(*  - OpenInv: which files are open at each place of the code, and that     *)
(*    none has been opened that the samples have not come to.  The reads    *)
(*    change the file exactly where next closes one (NextFile).             *)
(*  - FetchInv: which groups are still held, for a worker that of the last  *)
(*    sample, for next those of the open file (which then fit: FileFits).   *)
(***************************************************************************)
EXTENDS Reader, SequenceTheorems, FiniteSetTheorems, TLAPS

(* What the list of keys must be for the lemmas: a sequence without duplicates. *)
KeyList(s, S) ==
  /\ s \in Seq(S)
  /\ \A i, j \in DOMAIN s : i # j => s[i] # s[j]

KeysOf(s) == {s[i] : i \in DOMAIN s}

(* A new key is appended (get_sample, on a miss and after remove on a hit). *)
LEMMA AppendKey ==
  ASSUME NEW S, NEW s, NEW k \in S, KeyList(s, S), k \notin KeysOf(s)
  PROVE  KeyList(Append(s, k), S) /\ KeysOf(Append(s, k)) = KeysOf(s) \cup {k}
<1> DEFINE t == Append(s, k)
<1>1. /\ t \in Seq(S) /\ Len(t) = Len(s) + 1 /\ Len(s) \in Nat
      /\ DOMAIN t = 1 .. Len(s) + 1 /\ DOMAIN s = 1 .. Len(s)
      /\ \A i \in 1 .. Len(s) : t[i] = s[i]
      /\ t[Len(s) + 1] = k
  BY AppendProperties, LenProperties DEF KeyList
<1>2. KeyList(t, S)
  BY <1>1 DEF KeyList, KeysOf
<1>3. KeysOf(t) = KeysOf(s) \cup {k}
  BY <1>1 DEF KeysOf
<1> QED
  BY <1>2, <1>3

(* The oldest key is popped (_evict_lru). *)
LEMMA TailOfKeys ==
  ASSUME NEW S, NEW s, KeyList(s, S), s # <<>>
  PROVE  KeyList(Tail(s), S) /\ KeysOf(Tail(s)) = KeysOf(s) \ {Head(s)}
<1> DEFINE t == Tail(s)
<1>1. /\ t \in Seq(S) /\ Len(t) = Len(s) - 1 /\ Len(s) \in Nat \ {0}
      /\ DOMAIN t = 1 .. Len(s) - 1 /\ DOMAIN s = 1 .. Len(s)
      /\ \A i \in 1 .. Len(s) - 1 : t[i] = s[i + 1]
      /\ Head(s) = s[1]
  BY HeadTailProperties, LenProperties, EmptySeq DEF KeyList
<1>2. KeyList(t, S)
  BY <1>1 DEF KeyList
<1>3. \A k \in KeysOf(t) : k \in KeysOf(s) \ {Head(s)}
  BY <1>1 DEF KeyList, KeysOf
<1>4. ASSUME NEW k \in KeysOf(s) \ {Head(s)} PROVE k \in KeysOf(t)
  <2>1. PICK i \in 2 .. Len(s) : s[i] = k
    BY <1>1 DEF KeysOf
  <2>2. i - 1 \in DOMAIN t /\ t[i - 1] = k
    BY <1>1, <2>1
  <2> QED
    BY <2>2 DEF KeysOf
<1> QED
  BY <1>2, <1>3, <1>4

(* What is left of a list without a key is a list of the same elements. *)
LEMMA WithoutType ==
  ASSUME NEW S, NEW s \in Seq(S), NEW k
  PROVE  Without(s, k) \in Seq(S)
<1>1. CASE ~\E i \in DOMAIN s : s[i] = k
  BY <1>1 DEF Without
<1>2. CASE \E i \in DOMAIN s : s[i] = k
  <2> DEFINE n == CHOOSE i \in DOMAIN s : s[i] = k
  <2>1. n \in 1 .. Len(s) /\ Without(s, k) = SubSeq(s, 1, n - 1) \o SubSeq(s, n + 1, Len(s))
    BY <1>2, LenProperties DEF Without, RemoveAt
  <2> HIDE DEF n
  <2>2. Len(s) \in Nat /\ \A i \in 1 .. Len(s) : s[i] \in S
    BY LenProperties, ElementOfSeq
  <2>3. SubSeq(s, 1, n - 1) \in Seq(S) /\ SubSeq(s, n + 1, Len(s)) \in Seq(S)
    BY <2>1, <2>2, SubSeqProperties
  <2> QED
    BY <2>1, <2>3, ConcatProperties
<1> QED
  BY <1>1, <1>2

(* A key is removed from its place (get_sample on a hit, close), if it is there. *)
LEMMA WithoutKey ==
  ASSUME NEW S, NEW s, NEW k, KeyList(s, S)
  PROVE  KeyList(Without(s, k), S) /\ KeysOf(Without(s, k)) = KeysOf(s) \ {k}
<1>1. CASE k \notin KeysOf(s)
  BY <1>1 DEF Without, KeysOf
<1>2. CASE k \in KeysOf(s)
  <2> DEFINE n == CHOOSE i \in DOMAIN s : s[i] = k
             t == RemoveAt(s, n)
  <2>1. n \in DOMAIN s /\ s[n] = k /\ Without(s, k) = t
    BY <1>2 DEF Without, KeysOf
  <2> HIDE DEF n
  <2>2. Len(s) \in Nat /\ DOMAIN s = 1 .. Len(s) /\ s \in Seq(S)
        /\ \A i \in 1 .. Len(s) : s[i] \in S
    BY LenProperties, ElementOfSeq DEF KeyList
  <2> DEFINE a == SubSeq(s, 1, n - 1)
             b == SubSeq(s, n + 1, Len(s))
  <2>3. a \in Seq(S) /\ Len(a) = n - 1 /\ \A i \in 1 .. n - 1 : a[i] = s[i]
    BY <2>1, <2>2, SubSeqProperties
  <2>4. b \in Seq(S) /\ Len(b) = Len(s) - n /\ \A i \in 1 .. Len(s) - n : b[i] = s[n + i]
    BY <2>1, <2>2, SubSeqProperties
  <2>5. t = a \o b
    BY DEF RemoveAt
  <2> HIDE DEF a, b, t
  <2>6. n \in 1 .. Len(s)
    BY <2>1, <2>2
  <2>7. /\ t \in Seq(S) /\ Len(t) = Len(a) + Len(b)
         /\ \A i \in 1 .. Len(a) + Len(b) : t[i] = IF i <= Len(a) THEN a[i] ELSE b[i - Len(a)]
    BY <2>3, <2>4, <2>5, ConcatProperties
  <2>8. t \in Seq(S) /\ Len(t) = Len(s) - 1
    BY <2>2, <2>3, <2>4, <2>6, <2>7
  <2>9. ASSUME NEW i \in 1 .. Len(s) - 1
        PROVE  t[i] = IF i < n THEN s[i] ELSE s[i + 1]
    <3>1. i \in 1 .. Len(a) + Len(b)
      BY <2>2, <2>3, <2>4, <2>6
    <3>2. CASE i < n
      BY <2>2, <2>3, <2>6, <2>7, <3>1, <3>2
    <3>3. CASE i >= n
      <4>1. i - Len(a) \in 1 .. Len(s) - n /\ n + (i - Len(a)) = i + 1 /\ ~(i <= Len(a))
        BY <2>2, <2>3, <2>6, <3>3
      <4>2. t[i] = b[i - Len(a)]
        BY <2>7, <3>1, <4>1
      <4>3. b[i - Len(a)] = s[n + (i - Len(a))]
        BY <2>4, <4>1
      <4> QED
        BY <3>3, <4>1, <4>2, <4>3, <2>6
    <3> QED
      BY <2>2, <2>6, <3>2, <3>3
  <2>10. DOMAIN t = 1 .. Len(s) - 1
    BY <2>8, LenProperties
  <2>11. KeyList(t, S)
    BY <2>1, <2>2, <2>8, <2>9, <2>10 DEF KeyList
  <2>12. \A x \in KeysOf(t) : x \in KeysOf(s) \ {k}
    BY <2>1, <2>2, <2>9, <2>10 DEF KeyList, KeysOf
  <2>13. ASSUME NEW x \in KeysOf(s) \ {k} PROVE x \in KeysOf(t)
    <3>1. PICK i \in 1 .. Len(s) : s[i] = x /\ i # n
      BY <2>1, <2>2 DEF KeysOf
    <3>2. CASE i < n
      BY <2>1, <2>2, <2>9, <2>10, <3>1, <3>2 DEF KeysOf
    <3>3. CASE i > n
      <4>1. i - 1 \in DOMAIN t /\ t[i - 1] = x
        BY <2>1, <2>2, <2>9, <2>10, <3>1, <3>3
      <4> QED
        BY <4>1 DEF KeysOf
    <3> QED
      BY <2>1, <2>2, <3>1, <3>2, <3>3
  <2> QED
    BY <2>1, <2>11, <2>12, <2>13
<1> QED
  BY <1>1, <1>2

-------------------------------------------------------------------------------
(* Types *)

(* The program starts within its types. *)
LEMMA TypeInit == Init => TypeOK
  BY ConfigurationsAssumption, EmptySeq
  DEF Init, TypeOK, Places, ConfigurationType, Reads

(* No step of a reader leaves them: the loop stays within its reads (a file is
   closed after a sample of it, next by the count, read_index by read_type), a
   batch is emptied when it is full. *)
LEMMA TypeNext == TypeOK /\ [Next]_vars => TypeOK'
<1> SUFFICES ASSUME TypeOK, [Next]_vars PROVE TypeOK'
  OBVIOUS
<1>1. conf' = conf /\ Reads' = Reads /\ Files' = Files /\ Keys' = Keys
      /\ Indexed' = Indexed /\ Demand' = Demand
  BY DEF Next, vars, Open, Hit, Miss, Evict, Store, DeliverIterate, DeliverIndex,
     CloseGroup, CloseFile, EndEpoch, Terminated, Reads, Files, Keys, GroupOf,
     Indexed, Demand
<1>2. /\ conf.reads \in Seq(Nat \X Nat) /\ conf.perFile \in Nat \ {0}
      /\ conf.batch \in Nat \ {0} /\ conf.epochs \in Nat \ {0}
      /\ Len(Reads) \in Nat /\ DOMAIN Reads = 1 .. Len(Reads)
  BY LenProperties DEF TypeOK, ConfigurationType, Reads
<1>3. ASSUME image_processed < Len(Reads) PROVE File \in Files /\ Key \in Keys
  <2>1. image_processed + 1 \in DOMAIN Reads
    BY <1>2, <1>3 DEF TypeOK
  <2> QED
    BY <2>1 DEF File, Key, Files, Keys
<1>4. CASE Open
  BY <1>1, <1>2, <1>3, <1>4 DEF TypeOK, Places, Open
<1>5. CASE Hit
  <2>1. pc = "get_sample" /\ Key \in Keys
    BY <1>3, <1>5 DEF TypeOK, Hit
  <2>2. rg_lru' \in Seq(Keys)
    BY <1>5, <2>1, AppendProperties, WithoutType DEF TypeOK, Hit
  <2> QED
    BY <1>1, <1>2, <1>5, <2>1, <2>2 DEF TypeOK, Places, Hit
<1>6. CASE Miss
  BY <1>1, <1>2, <1>3, <1>6 DEF TypeOK, Places, Miss
<1>7. CASE Evict
  <2>1. rg_lru' \in Seq(Keys)
    <3>1. CASE rg_lru = <<>>
      BY <1>7, <3>1 DEF TypeOK, Evict
    <3>2. CASE rg_lru # <<>>
      <4>1. rg_lru' = Tail(rg_lru) /\ rg_lru \in Seq(Keys)
        BY <1>7, <3>2 DEF TypeOK, Evict
      <4> QED
        BY <3>2, <4>1, HeadTailProperties
    <3> QED
      BY <3>1, <3>2
  <2> QED
    BY <1>1, <1>2, <1>7, <2>1 DEF TypeOK, Places, Evict
<1>8. CASE Store
  <2>1. pc = "evict" /\ Key \in Keys
    BY <1>3, <1>8 DEF TypeOK, Store
  <2>2. rg_lru' \in Seq(Keys)
    BY <1>8, <2>1, AppendProperties DEF TypeOK, Store
  <2> QED
    BY <1>1, <1>2, <1>8, <2>1, <2>2 DEF TypeOK, Places, Store
<1>9. CASE DeliverIterate
  <2>1. image_processed' \in 1 .. Len(Reads)
    BY <1>2, <1>9 DEF TypeOK, DeliverIterate
  <2>2. batch' \in 0 .. conf.batch - 1 /\ step' \in Nat \ {0}
    <3>1. batch \in 0 .. conf.batch - 1 /\ step \in Nat \ {0}
      BY DEF TypeOK
    <3>2. CASE batch + 1 = conf.batch
      <4>1. batch' = 0 /\ step' = step + 1
        BY <1>9, <3>2 DEF DeliverIterate
      <4> QED
        BY <1>2, <3>1, <4>1
    <3>3. CASE batch + 1 # conf.batch
      <4>1. batch' = batch + 1 /\ step' = step
        BY <1>9, <3>3 DEF DeliverIterate
      <4> QED
        BY <1>2, <3>1, <3>3, <4>1
    <3> QED
      BY <3>2, <3>3
  <2>3. pc' \in {"close", "open"}
    BY <1>9 DEF DeliverIterate
  <2> QED
    BY <1>1, <1>9, <2>1, <2>2, <2>3 DEF TypeOK, Places, DeliverIterate
<1>10. CASE DeliverIndex
  BY <1>1, <1>2, <1>10 DEF TypeOK, Places, DeliverIndex
<1>11. CASE CloseGroup
  <2>1. rg_lru' \in Seq(Keys)
    BY <1>11, WithoutType DEF TypeOK, CloseGroup
  <2> QED
    BY <1>1, <1>2, <1>11, <2>1 DEF TypeOK, Places, CloseGroup
<1>12. CASE CloseFile
  BY <1>1, <1>2, <1>12 DEF TypeOK, Places, CloseFile
<1>13. CASE EndEpoch
  <2>1. rg_lru' \in Seq(Keys)
    BY <1>13, EmptySeq DEF TypeOK, EndEpoch
  <2> QED
    BY <1>1, <1>2, <1>13, <2>1 DEF TypeOK, Places, EndEpoch
<1>14. CASE UNCHANGED vars
  BY <1>1, <1>14 DEF TypeOK, vars
<1>15. QED
  BY <1>4, <1>5, <1>6, <1>7, <1>8, <1>9, <1>10, <1>11, <1>12, <1>13, <1>14
  DEF Next, Terminated

(* The reader keeps to its types for every sequence of reads: it never reads past
   the samples it was given and never closes before it has read (TypeOK). *)
THEOREM ReaderTypeCorrect == Spec => []TypeOK
  BY TypeInit, TypeNext, PTL DEF Spec
-------------------------------------------------------------------------------
(* The cache *)

(* A group that has been fetched and not stored is not in the cache. *)
Missed == pc = "evict" => Key \notin rg_cache

CacheInv ==
  /\ CacheMatchesLRU
  /\ CacheBounded
  /\ CachedFilesAreOpen
  /\ Missed
  /\ IsFiniteSet(rg_cache)

(* A new reader has an empty cache. *)
LEMMA CacheInit == Init => CacheInv
<1> SUFFICES ASSUME Init PROVE CacheInv
  OBVIOUS
<1>1. rg_cache = {} /\ rg_lru = <<>> /\ pc = "open" /\ conf.cacheSize \in Nat
  BY ConfigurationsAssumption DEF Init, ConfigurationType
<1>2. DOMAIN rg_lru = {}
  BY <1>1
<1> QED
  BY <1>1, <1>2, FS_EmptySet
  DEF CacheInv, CacheMatchesLRU, CacheBounded, CachedFilesAreOpen, Missed

(* No step of get_sample, _evict_lru or close disturbs it. *)
LEMMA CacheNext == TypeOK /\ CacheInv /\ [Next]_vars => CacheInv'
<1> SUFFICES ASSUME TypeOK, CacheInv, [Next]_vars PROVE CacheInv'
  OBVIOUS
<1>1. /\ KeyList(rg_lru, Keys) /\ rg_cache = KeysOf(rg_lru) /\ IsFiniteSet(rg_cache)
      /\ Cardinality(rg_cache) \in Nat /\ conf.cacheSize \in Nat
      /\ Cardinality(rg_cache) <= conf.cacheSize
  BY FS_CardinalityType
  DEF TypeOK, ConfigurationType, CacheInv, CacheMatchesLRU, CacheBounded, KeyList, KeysOf
<1>2. conf' = conf /\ Reads' = Reads
  BY DEF Next, vars, Open, Hit, Miss, Evict, Store, DeliverIterate, DeliverIndex,
     CloseGroup, CloseFile, EndEpoch, Terminated, Reads
<1>3. ASSUME image_processed' = image_processed
      PROVE  File' = File /\ Key' = Key /\ JustRead' = JustRead
  BY <1>2, <1>3 DEF File, Key, JustRead, GroupOf
<1>4. ASSUME image_processed < Len(Reads) PROVE Key \in Keys /\ Key[1] = File
  <2>1. image_processed + 1 \in DOMAIN Reads
    BY <1>4, LenProperties DEF TypeOK, ConfigurationType, Reads
  <2> QED
    BY <2>1 DEF File, Key, Keys
(* What is left to show of a step, once it is known what it does to the list. *)
<1> DEFINE Kept == CacheMatchesLRU' /\ CacheBounded' /\ IsFiniteSet(rg_cache')
           Shrunk == rg_cache' \subseteq rg_cache
           Grown  == rg_cache' = rg_cache \cup {Key} /\ ~Full
<1>5. KeyList(rg_lru', Keys) /\ KeysOf(rg_lru') = rg_cache' /\ (Shrunk \/ Grown) => Kept
  <2> SUFFICES ASSUME KeyList(rg_lru', Keys), KeysOf(rg_lru') = rg_cache', Shrunk \/ Grown
               PROVE  Kept
    OBVIOUS
  <2>1. CacheMatchesLRU'
    BY DEF CacheMatchesLRU, KeyList, KeysOf
  <2>2. CASE Shrunk
    <3>1. /\ IsFiniteSet(rg_cache') /\ Cardinality(rg_cache') \in Nat
          /\ Cardinality(rg_cache') <= Cardinality(rg_cache)
      BY <1>1, <2>2, FS_Subset, FS_CardinalityType
    <3> QED
      BY <1>1, <1>2, <2>1, <3>1 DEF CacheBounded
  <2>3. CASE Grown
    <3>1. /\ IsFiniteSet(rg_cache') /\ Cardinality(rg_cache') \in Nat
          /\ Cardinality(rg_cache') <= Cardinality(rg_cache) + 1
      <4>1. /\ IsFiniteSet(rg_cache \cup {Key})
            /\ Cardinality(rg_cache \cup {Key}) \in Nat
            /\ Cardinality(rg_cache \cup {Key})
                 = IF Key \in rg_cache THEN Cardinality(rg_cache) ELSE Cardinality(rg_cache) + 1
        BY <1>1, FS_AddElement, FS_CardinalityType
      <4>2. rg_cache' = rg_cache \cup {Key}
        BY <2>3
      <4> QED
        BY <1>1, <4>1, <4>2
    <3>2. Cardinality(rg_cache) < conf.cacheSize
      BY <1>1, <2>3 DEF Full
    <3> QED
      BY <1>1, <1>2, <2>1, <3>1, <3>2 DEF CacheBounded
  <2> QED
    BY <2>2, <2>3
<1>6. UNCHANGED <<rg_cache, rg_lru>> => Kept
  <2> SUFFICES ASSUME UNCHANGED <<rg_cache, rg_lru>> PROVE Kept
    OBVIOUS
  <2>1. KeyList(rg_lru', Keys) /\ KeysOf(rg_lru') = rg_cache' /\ Shrunk
    BY <1>1
  <2> QED
    BY <1>5, <2>1
<1> SUFFICES Kept /\ CachedFilesAreOpen' /\ Missed'
  BY DEF CacheInv
<1> HIDE DEF Kept
<1> USE DEF CacheInv
<1>7. CASE Open
  <2>1. CachedFilesAreOpen' /\ Missed'
    BY <1>3, <1>7 DEF Open, CachedFilesAreOpen, Missed
  <2> QED
    BY <1>6, <1>7, <2>1 DEF Open
<1>8. CASE Hit
  <2>1. pc = "get_sample" /\ Key \in Keys /\ Key \in rg_cache
    BY <1>4, <1>8 DEF TypeOK, Hit
  <2>2. KeyList(Without(rg_lru, Key), Keys)
        /\ KeysOf(Without(rg_lru, Key)) = rg_cache \ {Key}
    BY <1>1, WithoutKey
  <2>3. KeyList(rg_lru', Keys) /\ KeysOf(rg_lru') = rg_cache' /\ Shrunk
    <3> DEFINE rest == Without(rg_lru, Key)
    <3>1. Key \notin KeysOf(rest) /\ KeyList(rest, Keys)
      BY <2>2
    <3>2. KeyList(Append(rest, Key), Keys) /\ KeysOf(Append(rest, Key)) = KeysOf(rest) \cup {Key}
      BY <2>1, <3>1, AppendKey
    <3> QED
      BY <1>8, <2>1, <2>2, <3>2 DEF Hit
  <2>4. CachedFilesAreOpen' /\ Missed'
    BY <1>3, <1>8 DEF Hit, CachedFilesAreOpen, Missed
  <2> QED
    BY <1>5, <2>3, <2>4
<1>9. CASE Miss
  <2>1. CachedFilesAreOpen' /\ Missed'
    BY <1>3, <1>9 DEF Miss, CachedFilesAreOpen, Missed
  <2> QED
    BY <1>6, <1>9, <2>1 DEF Miss
<1>10. CASE Evict
  <2>1. CASE rg_lru = <<>>
    <3>1. CachedFilesAreOpen' /\ Missed'
      BY <1>3, <1>10, <2>1 DEF Evict, CachedFilesAreOpen, Missed
    <3> QED
      BY <1>6, <1>10, <2>1, <3>1 DEF Evict
  <2>2. CASE rg_lru # <<>>
    <3>1. rg_lru' = Tail(rg_lru) /\ rg_cache' = rg_cache \ {Head(rg_lru)}
      BY <1>10, <2>2 DEF Evict
    <3>2. KeyList(rg_lru', Keys) /\ KeysOf(rg_lru') = rg_cache' /\ Shrunk
      BY <1>1, <2>2, <3>1, TailOfKeys
    <3>3. CachedFilesAreOpen' /\ Missed'
      BY <1>3, <1>10, <3>1 DEF Evict, CachedFilesAreOpen, Missed
    <3> QED
      BY <1>5, <3>2, <3>3
  <2> QED
    BY <2>1, <2>2
<1>11. CASE Store
  <2>1. /\ pc = "evict" /\ Key \in Keys /\ Key[1] = File /\ Key \notin rg_cache
        /\ File \in open_file_map
    BY <1>4, <1>11 DEF TypeOK, Store, Missed, CachedFilesAreOpen
  <2>2. KeyList(rg_lru', Keys) /\ KeysOf(rg_lru') = rg_cache' /\ Grown
    BY <1>1, <1>11, <2>1, AppendKey DEF Store
  <2>3. CachedFilesAreOpen' /\ Missed'
    BY <1>3, <1>11, <2>1 DEF Store, CachedFilesAreOpen, Missed
  <2> QED
    BY <1>5, <2>2, <2>3
<1>12. CASE DeliverIterate
  <2>1. CachedFilesAreOpen' /\ Missed'
    BY <1>12 DEF DeliverIterate, CachedFilesAreOpen, Missed
  <2> QED
    BY <1>6, <1>12, <2>1 DEF DeliverIterate
<1>13. CASE DeliverIndex
  <2>1. CachedFilesAreOpen' /\ Missed'
    BY <1>13 DEF DeliverIndex, CachedFilesAreOpen, Missed
  <2> QED
    BY <1>6, <1>13, <2>1 DEF DeliverIndex
<1>14. CASE CloseGroup
  <2>1. PICK key \in rg_cache : rg_cache' = rg_cache \ {key} /\ rg_lru' = Without(rg_lru, key)
    BY <1>14 DEF CloseGroup
  <2>2. KeyList(rg_lru', Keys) /\ KeysOf(rg_lru') = rg_cache' /\ Shrunk
    BY <1>1, <2>1, WithoutKey
  <2>3. CachedFilesAreOpen' /\ Missed'
    BY <1>14, <2>1 DEF CloseGroup, CachedFilesAreOpen, Missed
  <2> QED
    BY <1>5, <2>2, <2>3
<1>15. CASE CloseFile
  <2>1. CachedFilesAreOpen' /\ Missed'
    BY <1>15 DEF CloseFile, CachedFilesAreOpen, Missed
  <2> QED
    BY <1>6, <1>15, <2>1 DEF CloseFile
<1>16. CASE EndEpoch
  <2>1. CASE UNCHANGED <<open_file_map, rg_cache, rg_lru>>
    <3>1. CachedFilesAreOpen' /\ Missed'
      BY <1>16, <2>1 DEF EndEpoch, CachedFilesAreOpen, Missed
    <3> QED
      BY <1>6, <2>1, <3>1
  <2>2. CASE rg_cache' = {} /\ rg_lru' = <<>>
    <3>1. KeyList(rg_lru', Keys) /\ KeysOf(rg_lru') = rg_cache' /\ Shrunk
      BY <2>2, EmptySeq DEF KeyList, KeysOf
    <3>2. CachedFilesAreOpen' /\ Missed'
      BY <1>16, <2>2 DEF EndEpoch, CachedFilesAreOpen, Missed
    <3> QED
      BY <1>5, <3>1, <3>2
  <2> QED
    BY <1>16, <2>1, <2>2 DEF EndEpoch
<1>17. CASE UNCHANGED vars
  <2>1. CachedFilesAreOpen' /\ Missed'
    BY <1>3, <1>17 DEF vars, CachedFilesAreOpen, Missed
  <2> QED
    BY <1>6, <1>17, <2>1 DEF vars
<1>18. QED
  BY <1>7, <1>8, <1>9, <1>10, <1>11, <1>12, <1>13, <1>14, <1>15, <1>16, <1>17
  DEF Next, Terminated

(* CacheInv holds throughout. *)
LEMMA CacheInvariant == Spec => []CacheInv
  BY ReaderTypeCorrect, CacheInit, CacheNext, PTL DEF Spec

(* The row groups and the list of their keys never drift apart (CacheMatchesLRU),
   however hits, evictions and closes alternate. *)
THEOREM CacheInSync == Spec => []CacheMatchesLRU
  BY CacheInvariant, PTL DEF CacheInv

(* row_group_cache_size is never exceeded (CacheBounded). *)
THEOREM CacheStaysBounded == Spec => []CacheBounded
  BY CacheInvariant, PTL DEF CacheInv

(* close() leaves no row group behind, and no file is closed while a sample of it
   is being read (CachedFilesAreOpen). *)
THEOREM CacheOfOpenFiles == Spec => []CachedFilesAreOpen
  BY CacheInvariant, PTL DEF CacheInv
-------------------------------------------------------------------------------
(* Delivery *)

(* A number between a multiple and the next has that quotient. *)
LEMMA QuotientOf ==
  ASSUME NEW n \in Nat \ {0}, NEW k \in Nat, NEW m \in 0 .. n - 1, NEW a, a = k * n + m
  PROVE  a \in Nat /\ a \div n = k
<1>1. k * n \in Nat /\ a \in Nat
  OBVIOUS
<1>2. PICK q \in Nat, s \in 0 .. n - 1 : a = n * q + s /\ a \div n = q
  <2>1. a \div n \in Nat /\ a = n * (a \div n) + (a % n) /\ a % n \in 0 .. n - 1
    BY <1>1
  <2> QED
    BY <2>1
<1>3. n * q \in Nat /\ n * q = q * n
  OBVIOUS
<1>4. CASE q >= k + 1
  <2>1. PICK d \in Nat : q = k + 1 + d
    BY <1>4, q - k - 1 \in Nat
  <2>2. d * n \in Nat /\ q * n = k * n + n + d * n
    BY <2>1
  <2> QED
    BY <1>1, <1>2, <1>3, <2>2
<1>5. CASE k >= q + 1
  <2>1. PICK d \in Nat : k = q + 1 + d
    BY <1>5, k - q - 1 \in Nat
  <2>2. d * n \in Nat /\ k * n = q * n + n + d * n
    BY <2>1
  <2> QED
    BY <1>1, <1>2, <1>3, <2>2
<1> QED
  BY <1>1, <1>2, <1>4, <1>5

(* Nothing read is no whole batch or group. *)
LEMMA QuotientOfZero ==
  ASSUME NEW n \in Nat \ {0}
  PROVE  0 \div n = 0
<1>1. 0 = 0 * n + 0 /\ 0 \in 0 .. n - 1 /\ 0 \in Nat
  OBVIOUS
<1> QED
  BY <1>1, QuotientOf

(* The batches a thread has yielded and the one it fills hold what it has read. *)
BatchInv == ~Indexed => image_processed = (step - 1) * conf.batch + batch

(* The batches of Delivery. *)
Batches == IF Indexed THEN image_processed \div conf.batch ELSE step - 1

(* A new reader has read nothing. *)
LEMMA BatchInit == Init => BatchInv
<1> SUFFICES ASSUME Init PROVE BatchInv
  OBVIOUS
<1>1. conf.batch \in Nat /\ image_processed = 0 /\ step = 1 /\ batch = 0
  BY ConfigurationsAssumption DEF Init, ConfigurationType
<1> QED
  BY <1>1 DEF BatchInv

(* A sample goes into the batch, a full batch is counted by step, and both start
   anew with the epoch. *)
LEMMA BatchNext == TypeOK /\ BatchInv /\ [Next]_vars => BatchInv'
<1> SUFFICES ASSUME TypeOK, BatchInv, [Next]_vars PROVE BatchInv'
  OBVIOUS
<1>1. conf' = conf /\ Indexed' = Indexed
  BY DEF Next, vars, Open, Hit, Miss, Evict, Store, DeliverIterate, DeliverIndex,
     CloseGroup, CloseFile, EndEpoch, Terminated, Indexed
<1>2. /\ conf.batch \in Nat \ {0} /\ step \in Nat \ {0}
      /\ batch \in 0 .. conf.batch - 1 /\ image_processed \in Nat
  BY LenProperties DEF TypeOK, ConfigurationType, Reads
<1>3. CASE UNCHANGED <<image_processed, batch, step>>
  BY <1>1, <1>3 DEF BatchInv
<1>4. CASE DeliverIterate
  <2>1. ~Indexed /\ image_processed' = image_processed + 1
        /\ image_processed = (step - 1) * conf.batch + batch
    BY <1>4 DEF DeliverIterate, BatchInv
  <2>2. PICK k \in Nat : step = k + 1
    BY <1>2, step - 1 \in Nat
  <2>3. (k + 1) * conf.batch = k * conf.batch + conf.batch /\ k * conf.batch \in Nat
    BY <1>2
  <2>4. CASE batch + 1 = conf.batch
    <3>1. batch' = 0 /\ step' = k + 2
      BY <1>4, <2>2, <2>4 DEF DeliverIterate
    <3>2. step' - 1 = k + 1 /\ step - 1 = k
      BY <2>2, <3>1
    <3>3. image_processed' = (step' - 1) * conf.batch + batch'
      BY <1>2, <2>1, <2>3, <2>4, <3>1, <3>2
    <3> QED
      BY <1>1, <3>3 DEF BatchInv
  <2>5. CASE batch + 1 # conf.batch
    <3>1. batch' = batch + 1 /\ step' = step
      BY <1>4, <2>5 DEF DeliverIterate
    <3>2. image_processed' = (step' - 1) * conf.batch + batch'
      BY <1>2, <2>1, <2>2, <2>3, <3>1
    <3> QED
      BY <1>1, <3>2 DEF BatchInv
  <2> QED
    BY <2>4, <2>5
<1>5. CASE DeliverIndex
  BY <1>1, <1>5 DEF DeliverIndex, BatchInv
<1>6. CASE image_processed' = 0 /\ batch' = 0 /\ step' = 1
  BY <1>1, <1>2, <1>6 DEF BatchInv
<1>7. \/ UNCHANGED <<image_processed, batch, step>> \/ DeliverIterate \/ DeliverIndex
      \/ image_processed' = 0 /\ batch' = 0 /\ step' = 1
  BY DEF Next, vars, Open, Hit, Miss, Evict, Store, CloseGroup, CloseFile, EndEpoch,
     Terminated
<1> QED
  BY <1>3, <1>4, <1>5, <1>6, <1>7

(* In both modes a batch is there exactly when its last sample is. *)
LEMMA BatchesCounted == TypeOK /\ BatchInv => Batches = image_processed \div conf.batch
<1> SUFFICES ASSUME TypeOK, BatchInv, ~Indexed
             PROVE  step - 1 = image_processed \div conf.batch
  BY DEF Batches
<1>1. conf.batch \in Nat \ {0} /\ step - 1 \in Nat /\ batch \in 0 .. conf.batch - 1
      /\ image_processed = (step - 1) * conf.batch + batch
  BY DEF TypeOK, ConfigurationType, BatchInv
<1> QED
  BY <1>1, QuotientOf

(* The initial states of a reader are initial states of Delivery. *)
LEMMA DeliveryInit == Init => D!Init
<1> SUFFICES ASSUME Init PROVE D!Init
  OBVIOUS
<1>1. /\ conf \in ConfigurationType /\ epoch = 1 /\ image_processed = 0 /\ step = 1
  BY ConfigurationsAssumption DEF Init
<1>2. Len(Reads) \in Nat /\ conf.batch \in Nat \ {0} /\ conf.epochs \in Nat \ {0}
  BY <1>1, LenProperties DEF ConfigurationType, Reads
<1>3. Batches = 0
  <2>2. 0 \div conf.batch = 0
    BY <1>2, QuotientOfZero
  <2> QED
    BY <1>1, <2>2 DEF Batches
<1> QED
  BY <1>1, <1>2, <1>3 DEF D!Init, Batches

(* A step that delivers a sample is a Deliver, the end of an epoch that is followed
   by another a NextEpoch, and every other step a stutter: an open, a hit, a miss,
   an eviction or a close is nothing a loader sees. *)
LEMMA DeliveryStep ==
  TypeOK /\ BatchInv /\ BatchInv' /\ TypeOK' /\ [Next]_vars => [D!Next]_(D!vars)
<1> SUFFICES ASSUME TypeOK, BatchInv, TypeOK', BatchInv', [Next]_vars
             PROVE  [D!Next]_(D!vars)
  OBVIOUS
<1>1. conf' = conf /\ Reads' = Reads /\ Indexed' = Indexed
  BY DEF Next, vars, Open, Hit, Miss, Evict, Store, DeliverIterate, DeliverIndex,
     CloseGroup, CloseFile, EndEpoch, Terminated, Reads, Indexed
<1>2. /\ Len(Reads)' = Len(Reads) /\ (conf.batch)' = conf.batch
      /\ (conf.epochs)' = conf.epochs
  BY <1>1
<1>3. Batches = image_processed \div conf.batch
      /\ Batches' = image_processed' \div conf.batch
  <2>1. (TypeOK /\ BatchInv => Batches = image_processed \div conf.batch)'
    BY BatchesCounted, PTL
  <2> QED
    BY <1>1, <2>1, BatchesCounted
<1>4. CASE UNCHANGED <<image_processed, epoch>>
  BY <1>2, <1>3, <1>4 DEF D!vars, Batches
<1>5. CASE DeliverIterate \/ DeliverIndex
  <2>1. /\ image_processed < Len(Reads) /\ image_processed' = image_processed + 1
        /\ epoch' = epoch
    BY <1>5 DEF TypeOK, DeliverIterate, DeliverIndex
  <2> QED
    BY <1>2, <1>3, <2>1 DEF D!Next, D!Deliver, Batches
<1>6. CASE EndEpoch /\ epoch' = epoch + 1
  <2>1. /\ image_processed = Len(Reads) /\ epoch < conf.epochs
        /\ image_processed' = 0 /\ step' = 1
    BY <1>6 DEF EndEpoch, TypeOK
  <2>2. Batches' = 0
    <3>1. conf.batch \in Nat \ {0}
      BY DEF TypeOK, ConfigurationType
    <3> QED
      BY <1>3, <2>1, <3>1, QuotientOfZero
  <2> QED
    BY <1>2, <1>6, <2>1, <2>2 DEF D!Next, D!NextEpoch, Batches
<1>7. \/ UNCHANGED <<image_processed, epoch>>
      \/ DeliverIterate \/ DeliverIndex
      \/ EndEpoch /\ epoch' = epoch + 1
  BY DEF Next, vars, Open, Hit, Miss, Evict, Store, CloseGroup, CloseFile, EndEpoch,
     Terminated
<1> QED
  BY <1>4, <1>5, <1>6, <1>7

(* A reader implements Delivery (Delivers): the samples of an epoch one after the
   other, a batch when its last sample is there, every epoch anew, whatever has to
   be fetched, evicted or closed on the way. *)
THEOREM ReaderDelivers == Spec => Delivers
<1>1. Spec => []BatchInv
  BY ReaderTypeCorrect, BatchInit, BatchNext, PTL DEF Spec
<1>2. Spec => D!Init
  BY DeliveryInit, PTL DEF Spec
<1>3. Spec => [][D!Next]_(D!vars)
  BY <1>1, ReaderTypeCorrect, DeliveryStep, PTL DEF Spec
<1> QED
  BY <1>2, <1>3, PTL DEF Delivers, D!Spec
-------------------------------------------------------------------------------
(* Opens and fetches *)

(* Numbers that a multiple separates have different quotients, numbers that none
   separates the same. *)
LEMMA SameBlock ==
  ASSUME NEW n \in Nat \ {0}, NEW a \in Nat, a % n # 0
  PROVE  (a - 1) \div n = a \div n
<1>1. PICK q \in Nat, r \in 0 .. n - 1 : a = n * q + r /\ q = a \div n /\ r = a % n
  <2>1. a \div n \in Nat /\ a = n * (a \div n) + (a % n) /\ a % n \in 0 .. n - 1
    OBVIOUS
  <2> QED
    BY <2>1
<1>2. r - 1 \in 0 .. n - 1 /\ n * q = q * n /\ n * q \in Nat
  BY <1>1
<1>3. a - 1 = q * n + (r - 1)
  BY <1>1, <1>2
<1>4. (a - 1) \div n = q
  <2> DEFINE b == a - 1
             m == r - 1
  <2>1. b = q * n + m /\ m \in 0 .. n - 1
    BY <1>2, <1>3
  <2> HIDE DEF b, m
  <2>2. b \div n = q
    BY <2>1, QuotientOf
  <2> QED
    BY <2>2 DEF b
<1> QED
  BY <1>1, <1>4

(* A multiple of n begins a block of n: no smaller number is in it. *)
LEMMA NewBlock ==
  ASSUME NEW n \in Nat \ {0}, NEW a \in Nat, a % n = 0, NEW b \in Nat, b < a
  PROVE  b \div n # a \div n
<1>1. /\ a \div n \in Nat /\ a = n * (a \div n) + (a % n)
      /\ b \div n \in Nat /\ b = n * (b \div n) + (b % n) /\ b % n \in 0 .. n - 1
  OBVIOUS
<1>2. n * (a \div n) \in Nat
  BY <1>1
<1> QED
  BY <1>1, <1>2

(* The sample that is read next exists. *)
LEMMA NextSample ==
  ASSUME TypeOK, image_processed < Len(Reads)
  PROVE  image_processed + 1 \in DOMAIN Reads /\ File \in Files /\ Key \in Keys /\ Key[1] = File
<1>1. Len(Reads) \in Nat /\ DOMAIN Reads = 1 .. Len(Reads)
  BY LenProperties DEF TypeOK, ConfigurationType, Reads
<1>2. image_processed + 1 \in DOMAIN Reads
  BY <1>1 DEF TypeOK
<1> QED
  BY <1>2 DEF File, Key, Files, Keys

(* What get_sample and the loop around it work on. *)
Reading == pc \in {"get_sample", "evict", "deliver"}

(* The files of the samples that have been reached in this epoch. *)
FilesMet ==
  {Reads[i][1] : i \in 1 .. (IF Reading THEN image_processed + 1 ELSE image_processed)}

(* If the reads go file by file, next has one file open at most: the one it is
   in, or none between two.  It has opened no file that it has not come to. *)
OneFileOpen ==
  /\ Reading => open_file_map = {File}
  /\ pc = "close" => open_file_map = {JustRead} /\ image_processed % conf.perFile = 0
  /\ pc \in {"open", "done"} =>
       open_file_map = IF image_processed % conf.perFile = 0 THEN {} ELSE {JustRead}
  /\ \A f \in Files : opened[f] <= 1 /\ (opened[f] > 0 => f \in FilesMet)

(* A worker keeps what it has opened, *)
FilesKeptOpen ==
  /\ pc # "close"
  /\ \A f \in Files : opened[f] <= 1 /\ (opened[f] > 0 => f \in open_file_map)

(* or, with read_type on demand, has the file of the sample open and no other. *)
OnDemandOpen ==
  /\ Reading => open_file_map = {File}
  /\ pc = "close" => open_file_map = {JustRead}
  /\ pc \in {"open", "done"} => open_file_map = {}

OpenInv ==
  /\ ~Indexed /\ FileByFile => OneFileOpen
  /\ Indexed /\ ~Demand => FilesKeptOpen
  /\ Demand => OnDemandOpen

KeyAt(i) == <<Reads[i][1], GroupOf(Reads[i][2])>>

(* The reads come to each row group once in an epoch, and leave it for good. *)
GroupByGroup ==
  \A i, j, k \in DOMAIN Reads :
    i <= j /\ j <= k /\ KeyAt(i) = KeyAt(k) => KeyAt(j) = KeyAt(i)

(* The row groups that have been asked for in this epoch. *)
GroupsMet ==
  {KeyAt(i) : i \in 1 .. (IF pc \in {"evict", "deliver"} THEN image_processed + 1
                                                         ELSE image_processed)}

(* A worker that goes group by group holds the group it has read from last: it
   fetches none of the groups that it has been to in this epoch. *)
LastGroupHeld ==
  /\ pc \in {"open", "get_sample"} /\ image_processed > 0 => KeyAt(image_processed) \in rg_cache
  /\ pc = "deliver" => Key \in rg_cache
  /\ \A k \in Keys : fetched[k] <= epoch /\ (k \notin GroupsMet => fetched[k] < epoch)

(* next, with a cache for all groups of a file, holds every group that it has
   fetched of the file it is in. *)
FileGroupsHeld ==
  /\ \A k \in Keys : fetched[k] <= 1 /\ (fetched[k] > 0 => k[1] \in FilesMet)
  /\ pc # "close" =>
       \A k \in Keys : fetched[k] > 0 /\ k[1] \in open_file_map
                         => k \in rg_cache \/ (pc = "evict" /\ k = Key)

FetchInv ==
  /\ Indexed /\ ~Demand /\ GroupByGroup => LastGroupHeld
  /\ ~Indexed /\ FileByFile /\ conf.cacheSize >= conf.groups => FileGroupsHeld

(* A sample and the one before it are of the same file unless a file has been read
   to its end in between; then no earlier sample of the epoch is of its file. *)
LEMMA NextFile ==
  ASSUME TypeOK, FileByFile, image_processed < Len(Reads)
  PROVE  /\ image_processed % conf.perFile # 0 => File = JustRead
         /\ image_processed % conf.perFile = 0 =>
              \A i \in 1 .. image_processed : Reads[i][1] # File
<1>1. /\ conf.perFile \in Nat \ {0} /\ image_processed \in Nat
      /\ Len(Reads) \in Nat /\ DOMAIN Reads = 1 .. Len(Reads)
  BY LenProperties DEF TypeOK, ConfigurationType, Reads
<1>2. image_processed + 1 \in DOMAIN Reads /\ (image_processed + 1) - 1 = image_processed
  BY <1>1
<1>3. ASSUME image_processed % conf.perFile # 0 PROVE File = JustRead
  <2>1. image_processed # 0
    <3>1. 0 % conf.perFile = 0
      BY <1>1
    <3> QED
      BY <1>3, <3>1
  <2>2. image_processed \in DOMAIN Reads
    BY <1>1, <2>1
  <2>3. (image_processed - 1) \div conf.perFile = image_processed \div conf.perFile
    BY <1>1, <1>3, SameBlock
  <2> QED
    BY <1>2, <2>2, <2>3 DEF FileByFile, File, JustRead
<1>4. ASSUME image_processed % conf.perFile = 0, NEW i \in 1 .. image_processed
      PROVE  Reads[i][1] # File
  <2>1. i \in DOMAIN Reads /\ i - 1 \in Nat /\ i - 1 < image_processed
    BY <1>1
  <2>2. (i - 1) \div conf.perFile # image_processed \div conf.perFile
    BY <1>1, <1>4, <2>1, NewBlock
  <2> QED
    BY <1>2, <2>1, <2>2 DEF FileByFile, File
<1> QED
  BY <1>3, <1>4

(* A new reader has nothing open and has fetched nothing. *)
LEMMA OpenInit == Init => OpenInv /\ FetchInv
<1> SUFFICES ASSUME Init PROVE OpenInv /\ FetchInv
  OBVIOUS
<1>1. /\ conf.perFile \in Nat \ {0} /\ pc = "open" /\ image_processed = 0 /\ epoch = 1
      /\ open_file_map = {}
      /\ \A f \in Files : opened[f] = 0
      /\ \A k \in Keys : fetched[k] = 0
  BY ConfigurationsAssumption DEF Init, ConfigurationType
<1>2. 0 % conf.perFile = 0
  BY <1>1
<1>3. OpenInv
  BY <1>1, <1>2 DEF OpenInv, OneFileOpen, FilesKeptOpen, OnDemandOpen, Reading
<1>4. FetchInv
  BY <1>1 DEF FetchInv, LastGroupHeld, FileGroupsHeld
<1> QED
  BY <1>3, <1>4

(* What conf determines does not change. *)
LEMMA ConfConstant ==
  [Next]_vars =>
    /\ conf' = conf /\ Reads' = Reads /\ Files' = Files /\ Keys' = Keys
    /\ Indexed' = Indexed /\ Demand' = Demand /\ FileByFile' = FileByFile
    /\ GroupByGroup' = GroupByGroup
<1> SUFFICES ASSUME [Next]_vars
             PROVE  /\ conf' = conf /\ Reads' = Reads /\ Files' = Files /\ Keys' = Keys
                    /\ Indexed' = Indexed /\ Demand' = Demand /\ FileByFile' = FileByFile
                    /\ GroupByGroup' = GroupByGroup
  OBVIOUS
<1>1. conf' = conf
  BY DEF Next, vars, Open, Hit, Miss, Evict, Store, DeliverIterate, DeliverIndex,
     CloseGroup, CloseFile, EndEpoch, Terminated
<1> QED
  BY <1>1 DEF Reads, Files, Keys, Indexed, Demand, FileByFile, GroupByGroup, KeyAt, GroupOf

(* next: a file is opened when the samples come to it, and closed with its last one. *)
LEMMA OneFileOpenNext ==
  ASSUME TypeOK, [Next]_vars, TypeOK', ~Indexed, FileByFile, OneFileOpen
  PROVE  OneFileOpen'
<1>1. /\ conf' = conf /\ Reads' = Reads /\ Files' = Files /\ ~Indexed' /\ ~Demand
  BY ConfConstant DEF Indexed, Demand
<1>2. /\ image_processed \in Nat /\ conf.perFile \in Nat \ {0}
      /\ opened \in [Files -> Nat] /\ Len(Reads) \in Nat
      /\ pc \in Places
  BY LenProperties DEF TypeOK, ConfigurationType, Reads
<1>3. CASE Open
  <2>1. /\ pc = "open" /\ pc' = "get_sample" /\ image_processed' = image_processed
        /\ image_processed < Len(Reads) /\ File' = File
        /\ image_processed + 1 \in DOMAIN Reads /\ File \in Files
    BY <1>1, <1>3, NextSample DEF Open, File
  <2>2. FilesMet' = FilesMet \cup {File}
    BY <1>1, <1>2, <2>1 DEF FilesMet, Reading, File
  <2>3. CASE image_processed % conf.perFile = 0
    <3>1. open_file_map = {} /\ \A i \in 1 .. image_processed : Reads[i][1] # File
      BY <2>1, <2>3, NextFile DEF OneFileOpen
    <3>2. File \notin FilesMet
      BY <2>1, <3>1 DEF FilesMet, Reading
    <3>3. opened[File] = 0
      BY <1>2, <2>1, <3>2 DEF OneFileOpen
    <3>4. open_file_map' = {File} /\ opened' = [opened EXCEPT ![File] = 1]
      BY <1>2, <1>3, <2>1, <3>1, <3>3 DEF Open
    <3>5. \A f \in Files : opened'[f] <= 1 /\ (opened'[f] > 0 => f \in FilesMet')
      BY <1>2, <2>1, <2>2, <3>4 DEF OneFileOpen
    <3> QED
      BY <1>1, <2>1, <3>4, <3>5 DEF OneFileOpen, Reading
  <2>4. CASE image_processed % conf.perFile # 0
    <3>1. open_file_map = {File}
      BY <2>1, <2>4, NextFile DEF OneFileOpen
    <3>2. open_file_map' = {File} /\ opened' = opened
      BY <1>1, <1>3, <3>1 DEF Open
    <3> QED
      BY <1>1, <2>1, <2>2, <3>2 DEF OneFileOpen, Reading
  <2> QED
    BY <2>3, <2>4
<1>4. CASE Hit \/ Miss \/ Evict \/ Store
  <2>1. /\ Reading /\ Reading' /\ File' = File /\ FilesMet' = FilesMet
        /\ pc \notin {"open", "close", "done"} /\ pc' \notin {"open", "close", "done"}
        /\ UNCHANGED <<open_file_map, opened>>
    BY <1>1, <1>4 DEF Hit, Miss, Evict, Store, Reading, File, FilesMet
  <2> QED
    BY <1>1, <2>1 DEF OneFileOpen
<1>5. CASE DeliverIterate
  <2>1. /\ pc = "deliver" /\ image_processed' = image_processed + 1
        /\ UNCHANGED <<open_file_map, opened>>
        /\ pc' = IF image_processed' % conf.perFile = 0 THEN "close" ELSE "open"
    BY <1>5 DEF DeliverIterate
  <2>2. JustRead' = File /\ FilesMet' = FilesMet
    BY <1>1, <2>1 DEF JustRead, File, FilesMet, Reading
  <2>3. open_file_map' = {JustRead'} /\ pc' \in {"open", "close"}
        /\ (pc' = "close" <=> image_processed' % conf.perFile = 0)
    BY <2>1, <2>2 DEF OneFileOpen, Reading
  <2> QED
    BY <1>1, <2>1, <2>2, <2>3 DEF OneFileOpen, Reading
<1>6. CASE CloseGroup
  <2>1. UNCHANGED <<pc, image_processed, open_file_map, opened>>
    BY <1>6 DEF CloseGroup
  <2> QED
    BY <1>1, <2>1 DEF OneFileOpen, Reading, File, JustRead, FilesMet
<1>7. CASE CloseFile
  <2>1. /\ pc = "close" /\ pc' = "open" /\ UNCHANGED <<image_processed, opened>>
        /\ open_file_map' = open_file_map \ {JustRead}
    BY <1>7 DEF CloseFile
  <2>2. FilesMet' = FilesMet /\ open_file_map' = {} /\ image_processed' % conf.perFile = 0
    BY <1>1, <2>1 DEF FilesMet, Reading, OneFileOpen
  <2> QED
    BY <1>1, <2>1, <2>2 DEF OneFileOpen, Reading
<1>8. CASE EndEpoch
  <2>1. CASE epoch < conf.epochs
    <3>1. /\ pc' = "open" /\ image_processed' = 0 /\ open_file_map' = {}
          /\ opened' = [f \in Files |-> 0]
      BY <1>8, <2>1, <1>1 DEF EndEpoch, Indexed
    <3>2. image_processed' % conf.perFile = 0
      BY <1>2, <3>1
    <3> QED
      BY <1>1, <3>1, <3>2 DEF OneFileOpen, Reading
  <2>2. CASE ~(epoch < conf.epochs)
    <3>1. /\ pc = "open" /\ pc' = "done" /\ UNCHANGED <<image_processed, open_file_map, opened>>
      BY <1>8, <2>2 DEF EndEpoch
    <3> QED
      BY <1>1, <3>1 DEF OneFileOpen, Reading, JustRead, FilesMet
  <2> QED
    BY <2>1, <2>2
<1>9. CASE UNCHANGED vars
  BY <1>1, <1>9 DEF vars, OneFileOpen, Reading, File, JustRead, FilesMet
<1>10. ~DeliverIndex
  BY DEF DeliverIndex
<1> QED
  BY <1>3, <1>4, <1>5, <1>6, <1>7, <1>8, <1>9, <1>10 DEF Next, Terminated

(* read_index: a file is opened when it is not open, and stays open, or is closed
   after its sample. *)
LEMMA IndexOpenNext ==
  ASSUME TypeOK, [Next]_vars, Indexed, OpenInv
  PROVE  /\ ~Demand => FilesKeptOpen'
         /\ Demand => OnDemandOpen'
<1>1. /\ conf' = conf /\ Reads' = Reads /\ Files' = Files /\ Indexed' /\ Demand' = Demand
  BY ConfConstant
<1>2. /\ image_processed \in Nat /\ opened \in [Files -> Nat] /\ pc \in Places
  BY LenProperties DEF TypeOK, ConfigurationType, Reads
<1>3. (~Demand => FilesKeptOpen) /\ (Demand => OnDemandOpen)
  BY DEF OpenInv
<1>4. CASE Open
  <2>1. /\ pc = "open" /\ pc' = "get_sample" /\ File' = File /\ File \in Files
    BY <1>1, <1>4, NextSample DEF Open, File
  <2>2. ASSUME ~Demand PROVE FilesKeptOpen'
    BY <1>1, <1>2, <1>3, <1>4, <2>1, <2>2 DEF Open, FilesKeptOpen
  <2>3. ASSUME Demand PROVE OnDemandOpen'
    BY <1>3, <1>4, <2>1, <2>3 DEF Open, OnDemandOpen, Reading
  <2> QED
    BY <2>2, <2>3
<1>5. CASE Hit \/ Miss \/ Evict \/ Store
  <2>1. /\ Reading /\ Reading' /\ File' = File
        /\ pc' \notin {"open", "close", "done"}
        /\ UNCHANGED <<open_file_map, opened>>
    BY <1>1, <1>5 DEF Hit, Miss, Evict, Store, Reading, File
  <2> QED
    BY <1>1, <1>3, <2>1 DEF FilesKeptOpen, OnDemandOpen
<1>6. CASE DeliverIndex
  <2>1. /\ pc = "deliver" /\ image_processed' = image_processed + 1
        /\ UNCHANGED <<open_file_map, opened>> /\ JustRead' = File
        /\ pc' = IF Demand THEN "close" ELSE "open"
    BY <1>1, <1>6 DEF DeliverIndex, JustRead, File
  <2> QED
    BY <1>1, <1>3, <2>1 DEF FilesKeptOpen, OnDemandOpen, Reading
<1>7. CASE CloseGroup
  <2>1. UNCHANGED <<pc, image_processed, open_file_map, opened>>
    BY <1>7 DEF CloseGroup
  <2> QED
    BY <1>1, <1>3, <2>1 DEF FilesKeptOpen, OnDemandOpen, Reading, File, JustRead
<1>8. CASE CloseFile
  <2>1. /\ pc = "close" /\ pc' = "open" /\ UNCHANGED <<image_processed, opened>>
        /\ open_file_map' = open_file_map \ {JustRead}
    BY <1>8 DEF CloseFile
  <2> QED
    BY <1>1, <1>3, <2>1 DEF FilesKeptOpen, OnDemandOpen, Reading
<1>9. CASE EndEpoch
  <2>1. /\ pc = "open" /\ pc' \in {"open", "done"} /\ UNCHANGED <<open_file_map, opened>>
    BY <1>9 DEF EndEpoch
  <2> QED
    BY <1>1, <1>3, <2>1 DEF FilesKeptOpen, OnDemandOpen, Reading
<1>10. CASE UNCHANGED vars
  BY <1>1, <1>3, <1>10 DEF vars, FilesKeptOpen, OnDemandOpen, Reading, File, JustRead
<1>11. ~DeliverIterate
  BY DEF DeliverIterate
<1> QED
  BY <1>4, <1>5, <1>6, <1>7, <1>8, <1>9, <1>10, <1>11 DEF Next, Terminated

(* No step of a reader disturbs what is said of the open files. *)
LEMMA OpenNext == TypeOK /\ TypeOK' /\ OpenInv /\ [Next]_vars => OpenInv'
<1> SUFFICES ASSUME TypeOK, TypeOK', OpenInv, [Next]_vars PROVE OpenInv'
  OBVIOUS
<1>1. Indexed' = Indexed /\ Demand' = Demand /\ FileByFile' = FileByFile
      /\ (Demand => Indexed)
  BY ConfConstant DEF Demand
<1>2. ~Indexed /\ FileByFile => OneFileOpen'
  BY OneFileOpenNext DEF OpenInv
<1>3. Indexed => (~Demand => FilesKeptOpen') /\ (Demand => OnDemandOpen')
  BY IndexOpenNext
<1> QED
  BY <1>1, <1>2, <1>3 DEF OpenInv

(* OpenInv says what FilesOpenedOnce asks. *)
LEMMA OpenedOnce == TypeOK /\ CacheInv /\ OpenInv => FilesOpenedOnce
<1> SUFFICES ASSUME TypeOK, CacheInv, OpenInv PROVE FilesOpenedOnce
  OBVIOUS
<1>1. ASSUME ~Indexed, FileByFile
      PROVE  /\ \A f \in Files : opened[f] <= 1
             /\ EpochRead /\ Reads # <<>> =>
                  open_file_map = IF Len(Reads) % conf.perFile = 0 THEN {}
                                  ELSE {Reads[Len(Reads)][1]}
  BY <1>1 DEF OpenInv, OneFileOpen, EpochRead, JustRead
<1>2. Indexed /\ ~Demand => \A f \in Files : opened[f] <= 1
  BY DEF OpenInv, FilesKeptOpen
<1>3. Demand /\ pc = "open" => open_file_map = {} /\ rg_cache = {}
  BY DEF OpenInv, OnDemandOpen, CacheInv, CachedFilesAreOpen
<1> QED
  BY <1>1, <1>2, <1>3 DEF FilesOpenedOnce

(* OpenInv holds throughout. *)
LEMMA OpenInvariant == Spec => []OpenInv
<1>1. Init => OpenInv
  BY OpenInit
<1> QED
  BY <1>1, ReaderTypeCorrect, OpenNext, PTL DEF Spec

(* Files are opened once, and closed in time (FilesOpenedOnce of ReadOnce): by next
   if the reads go file by file, by a worker in every order of the reads. *)
THEOREM ReaderOpensOnce == Spec => []FilesOpenedOnce
  BY ReaderTypeCorrect, CacheInvariant, OpenInvariant, OpenedOnce, PTL

(* A worker that goes group by group fetches a group only when it comes to it. *)
LEMMA IndexFetchNext ==
  ASSUME TypeOK, TypeOK', [Next]_vars, Indexed, ~Demand, GroupByGroup, LastGroupHeld,
         pc # "close"
  PROVE  LastGroupHeld'
<1>1. /\ conf' = conf /\ Reads' = Reads /\ Keys' = Keys /\ Indexed' /\ ~Demand'
  BY ConfConstant DEF Indexed, Demand
<1>2. /\ image_processed \in Nat /\ epoch \in Nat \ {0}
      /\ fetched \in [Keys -> Nat]
      /\ Len(Reads) \in Nat /\ DOMAIN Reads = 1 .. Len(Reads)
  <2>1. Len(Reads) \in Nat /\ DOMAIN Reads = 1 .. Len(Reads) /\ conf.epochs \in Nat
    BY LenProperties DEF TypeOK, ConfigurationType, Reads
  <2> QED
    BY <2>1 DEF TypeOK
<1> DEFINE Come(p, n) ==
      {KeyAt(i) : i \in 1 .. (IF p \in {"evict", "deliver"} THEN n + 1 ELSE n)}
<1>2a. GroupsMet = Come(pc, image_processed) /\ GroupsMet' = Come(pc', image_processed')
  BY <1>1 DEF GroupsMet, KeyAt, GroupOf
<1>3. Key = KeyAt(image_processed + 1)
  BY DEF Key, File, KeyAt
<1>4. image_processed' = image_processed =>
        Key' = Key /\ KeyAt(image_processed)' = KeyAt(image_processed)
  BY <1>1 DEF Key, File, KeyAt, GroupOf
<1>5. CASE Open
  <2>1. /\ pc = "open" /\ pc' = "get_sample" /\ UNCHANGED <<image_processed, rg_cache, fetched, epoch>>
    BY <1>5 DEF Open
  <2>2. GroupsMet' = GroupsMet
    BY <1>1, <1>2a, <2>1
  <2> QED
    BY <1>1, <1>2a, <1>4, <2>1, <2>2 DEF LastGroupHeld
<1>6. CASE Hit
  <2>1. /\ pc = "get_sample" /\ pc' = "deliver" /\ Key \in rg_cache
        /\ UNCHANGED <<image_processed, rg_cache, fetched, epoch>>
    BY <1>6 DEF Hit
  <2>2. GroupsMet \subseteq GroupsMet'
    BY <1>1, <1>2a, <1>2, <2>1
  <2> QED
    BY <1>1, <1>2a, <1>4, <2>1, <2>2 DEF LastGroupHeld
<1>7. CASE Miss
  <2>1. /\ pc = "get_sample" /\ pc' = "evict" /\ Key \notin rg_cache
        /\ UNCHANGED <<image_processed, rg_cache, epoch>>
        /\ fetched' = [fetched EXCEPT ![Key] = @ + 1]
        /\ image_processed < Len(Reads)
    BY <1>7 DEF Miss, TypeOK
  <2>2. Key \in Keys /\ image_processed + 1 \in DOMAIN Reads
    BY <2>1, NextSample
  <2>3. Key \notin GroupsMet
    <3>1. SUFFICES ASSUME NEW i \in 1 .. image_processed, KeyAt(i) = Key PROVE FALSE
      BY <1>2a, <2>1
    <3>2. i \in DOMAIN Reads /\ image_processed \in DOMAIN Reads
          /\ i <= image_processed /\ image_processed <= image_processed + 1
      BY <1>2, <2>1
    <3>3. KeyAt(image_processed) = Key
      BY <1>3, <2>2, <3>1, <3>2 DEF GroupByGroup
    <3> QED
      BY <1>2, <2>1, <3>1, <3>3 DEF LastGroupHeld
  <2>4. GroupsMet' = GroupsMet \cup {Key}
    BY <1>1, <1>2a, <1>2, <1>3, <2>1
  <2>5. fetched[Key] < epoch
    BY <2>2, <2>3 DEF LastGroupHeld
  <2>6. ASSUME NEW k \in Keys
        PROVE  fetched'[k] <= epoch /\ (k \notin GroupsMet' => fetched'[k] < epoch)
    <3>1. CASE k = Key
      BY <1>2, <2>1, <2>2, <2>4, <2>5, <3>1
    <3>2. CASE k # Key
      <4>1. fetched'[k] = fetched[k]
        BY <1>2, <2>1, <3>2
      <4> QED
        BY <2>4, <4>1 DEF LastGroupHeld
    <3> QED
      BY <3>1, <3>2
  <2> QED
    BY <1>1, <1>2a, <2>1, <2>6 DEF LastGroupHeld
<1>8. CASE Evict
  <2>1. /\ pc = "evict" /\ pc' = "evict" /\ UNCHANGED <<image_processed, fetched, epoch>>
    BY <1>8 DEF Evict
  <2> QED
    BY <1>1, <1>2a, <2>1 DEF LastGroupHeld
<1>9. CASE Store
  <2>1. /\ pc = "evict" /\ pc' = "deliver" /\ UNCHANGED <<image_processed, fetched, epoch>>
        /\ rg_cache' = rg_cache \cup {Key}
    BY <1>9 DEF Store
  <2>2. GroupsMet' = GroupsMet /\ Key' \in rg_cache'
    BY <1>1, <1>2a, <1>4, <2>1
  <2> QED
    BY <1>1, <1>2a, <2>1, <2>2 DEF LastGroupHeld
<1>10. CASE DeliverIndex
  <2>1. /\ pc = "deliver" /\ pc' = "open" /\ image_processed' = image_processed + 1
        /\ UNCHANGED <<rg_cache, fetched, epoch>>
    BY <1>10 DEF DeliverIndex
  <2>2. GroupsMet' = GroupsMet
    BY <1>1, <1>2a, <2>1
  <2>3. KeyAt(image_processed') \in rg_cache
    BY <1>3, <2>1 DEF LastGroupHeld
  <2>4. KeyAt(image_processed)' \in rg_cache'
    <3>1. KeyAt(image_processed)' = KeyAt(image_processed')
      BY <1>1 DEF KeyAt, GroupOf
    <3> QED
      BY <2>1, <2>3, <3>1
  <2> QED
    BY <1>1, <1>2a, <2>1, <2>2, <2>4 DEF LastGroupHeld
<1>11. CASE EndEpoch
  <2>1. CASE epoch < conf.epochs
    <3>1. /\ image_processed' = 0 /\ epoch' = epoch + 1 /\ fetched' = fetched
          /\ pc' = "open"
      BY <1>11, <2>1 DEF EndEpoch
    <3>2. \A k \in Keys : fetched[k] \in Nat /\ fetched[k] < epoch'
      BY <1>2, <3>1 DEF LastGroupHeld
    <3>3. \A k \in Keys : fetched[k] <= epoch'
      BY <1>2, <3>1, <3>2
    <3> QED
      BY <1>1, <1>2a, <3>1, <3>2, <3>3 DEF LastGroupHeld
  <2>2. CASE ~(epoch < conf.epochs)
    <3>1. /\ pc = "open" /\ pc' = "done"
          /\ UNCHANGED <<image_processed, epoch, fetched, rg_cache>>
      BY <1>11, <2>2 DEF EndEpoch
    <3> QED
      BY <1>1, <1>2a, <3>1 DEF LastGroupHeld
  <2> QED
    BY <2>1, <2>2
<1>12. CASE UNCHANGED vars
  <2>1. UNCHANGED <<pc, image_processed, epoch, fetched, rg_cache>> /\ GroupsMet' = GroupsMet
        /\ Key' = Key /\ KeyAt(image_processed)' = KeyAt(image_processed)
    BY <1>1, <1>2a, <1>4, <1>12 DEF vars, KeyAt, GroupOf
  <2> QED
    BY <1>1, <1>2a, <2>1 DEF LastGroupHeld
<1>13. ~DeliverIterate /\ ~CloseGroup /\ ~CloseFile
  BY DEF DeliverIterate, CloseGroup, CloseFile
<1> QED
  BY <1>5, <1>6, <1>7, <1>8, <1>9, <1>10, <1>11, <1>12, <1>13 DEF Next, Terminated

(* The groups that are cached and the one being stored are different groups of
   the open file, and there are conf.groups of these: nothing has to make room. *)
LEMMA FileFits ==
  ASSUME TypeOK, CacheInv, OneFileOpen, pc = "evict", conf.cacheSize >= conf.groups
  PROVE  ~Full
<1>1. /\ conf.groups \in Nat \ {0} /\ conf.rows \in Nat \ {0} /\ conf.cacheSize \in Nat
      /\ conf.reads \in Seq(Nat \X Nat) /\ image_processed < Len(Reads)
  BY DEF TypeOK, ConfigurationType
<1>2. \A i \in DOMAIN Reads : Reads[i][2] \in Nat
  BY <1>1, ElementOfSeq, LenProperties DEF Reads
<1>3. \A n \in Nat : GroupOf(n) \in 0 .. conf.groups - 1
  <2> TAKE n \in Nat
  <2>1. n \div conf.rows \in Nat
    <3>1. \A m \in Nat \ {0} : n \div m \in Nat
      OBVIOUS
    <3> QED
      BY <1>1, <3>1
  <2> QED
    BY <1>1, <2>1 DEF GroupOf
<1>4. Key \in Keys /\ Key[1] = File /\ Key \notin rg_cache /\ IsFiniteSet(rg_cache)
  BY <1>1, NextSample DEF CacheInv, Missed
<1> DEFINE K == rg_cache \cup {Key}
<1>5. \A k \in K : k = <<File, k[2]>> /\ k[2] \in 0 .. conf.groups - 1
  <2> TAKE k \in K
  <2>1. k \in Keys /\ k[1] = File
    BY <1>4 DEF TypeOK, CacheInv, CachedFilesAreOpen, OneFileOpen, Reading
  <2>2. PICK i \in DOMAIN Reads : k = <<Reads[i][1], GroupOf(Reads[i][2])>>
    BY <2>1 DEF Keys
  <2> QED
    BY <1>2, <1>3, <2>1, <2>2
<1>6. IsFiniteSet(K) /\ Cardinality(K) = Cardinality(rg_cache) + 1
      /\ Cardinality(rg_cache) \in Nat
  BY <1>4, FS_AddElement, FS_CardinalityType
<1> DEFINE f == [k \in K |-> k[2]]
<1>7. f \in Injection(K, 0 .. conf.groups - 1)
  BY <1>5 DEF Injection, IsInjective
<1>8. Cardinality(K) <= Cardinality(0 .. conf.groups - 1)
      /\ Cardinality(0 .. conf.groups - 1) = conf.groups
  <2>1. 0 \in Int /\ conf.groups - 1 \in Int /\ ~(0 > conf.groups - 1)
        /\ (conf.groups - 1) - 0 + 1 = conf.groups
    BY <1>1
  <2>2. IsFiniteSet(0 .. conf.groups - 1) /\ Cardinality(0 .. conf.groups - 1) = conf.groups
    BY <2>1, FS_Interval
  <2> HIDE DEF f, K
  <2> QED
    BY <1>7, <2>2, FS_Injection
<1> QED
  BY <1>1, <1>6, <1>8 DEF Full

(* next, with room for the groups of a file, fetches a group only if it has not. *)
LEMMA FileFetchNext ==
  ASSUME TypeOK, TypeOK', CacheInv, [Next]_vars, ~Indexed, FileByFile, OneFileOpen,
         conf.cacheSize >= conf.groups, FileGroupsHeld
  PROVE  FileGroupsHeld'
<1>1. /\ conf' = conf /\ Reads' = Reads /\ Keys' = Keys /\ ~Indexed' /\ ~Demand
  BY ConfConstant DEF Indexed, Demand
<1>2. /\ image_processed \in Nat /\ pc \in Places
      /\ fetched \in [Keys -> Nat]
  BY LenProperties DEF TypeOK, ConfigurationType, Reads
<1>3. image_processed' = image_processed => File' = File /\ Key' = Key /\ JustRead' = JustRead
  BY <1>1 DEF Key, File, JustRead, GroupOf
<1>4. CASE Open
  <2>1. /\ pc = "open" /\ pc' = "get_sample" /\ image_processed < Len(Reads)
        /\ UNCHANGED <<image_processed, rg_cache, fetched>>
    BY <1>4 DEF Open
  <2>2. FilesMet \subseteq FilesMet'
    BY <1>1, <1>2, <2>1 DEF FilesMet, Reading
  <2>3. ASSUME NEW k \in Keys, fetched[k] > 0, k[1] \in open_file_map'
        PROVE  k \in rg_cache
    <3>1. CASE k[1] \in open_file_map
      BY <2>1, <2>3, <3>1 DEF FileGroupsHeld
    <3>2. CASE k[1] \notin open_file_map
      <4>1. k[1] = File /\ File \notin open_file_map
        BY <1>1, <1>4, <2>3, <3>2 DEF Open
      <4>2. image_processed % conf.perFile = 0
        <5>1. image_processed % conf.perFile # 0 => JustRead \in open_file_map
          BY <2>1 DEF OneFileOpen
        <5> QED
          BY <2>1, <4>1, <5>1, NextFile
      <4>3. File \notin FilesMet
        BY <2>1, <4>2, NextFile DEF FilesMet, Reading
      <4> QED
        BY <2>3, <4>1, <4>3 DEF FileGroupsHeld
    <3> QED
      BY <3>1, <3>2
  <2> QED
    BY <1>1, <2>1, <2>2, <2>3 DEF FileGroupsHeld
<1>5. CASE Hit
  <2>1. /\ pc = "get_sample" /\ pc' = "deliver"
        /\ UNCHANGED <<image_processed, rg_cache, fetched, open_file_map>>
    BY <1>5 DEF Hit
  <2>2. FilesMet' = FilesMet
    BY <1>1, <2>1 DEF FilesMet, Reading
  <2> QED
    BY <1>1, <2>1, <2>2 DEF FileGroupsHeld
<1>6. CASE Miss
  <2>1. /\ pc = "get_sample" /\ pc' = "evict" /\ image_processed < Len(Reads)
        /\ Key \notin rg_cache /\ fetched' = [fetched EXCEPT ![Key] = @ + 1]
        /\ UNCHANGED <<image_processed, rg_cache, open_file_map>>
    BY <1>6 DEF Miss, TypeOK
  <2>2. Key \in Keys /\ Key[1] = File /\ File \in FilesMet /\ FilesMet' = FilesMet
    <3>1. File \in FilesMet
      BY <1>2, <2>1 DEF FilesMet, Reading, File
    <3> QED
      BY <1>1, <2>1, <3>1, NextSample DEF FilesMet, Reading
  <2>3. fetched[Key] = 0
    <3>1. File \in open_file_map
      BY <2>1 DEF OneFileOpen, Reading
    <3>2. ~(fetched[Key] > 0)
      BY <2>1, <2>2, <3>1 DEF FileGroupsHeld
    <3> QED
      BY <1>2, <2>2, <3>2
  <2>4. fetched'[Key] = 1 /\ \A k \in Keys : k # Key => fetched'[k] = fetched[k]
    BY <1>2, <2>1, <2>2, <2>3
  <2> QED
    BY <1>1, <1>3, <2>1, <2>2, <2>4 DEF FileGroupsHeld
<1>7. ASSUME Evict PROVE FALSE
  BY <1>7, FileFits DEF Evict
<1>8. CASE Store
  <2>1. /\ pc = "evict" /\ pc' = "deliver" /\ rg_cache' = rg_cache \cup {Key}
        /\ UNCHANGED <<image_processed, fetched, open_file_map>>
    BY <1>8 DEF Store
  <2>2. FilesMet' = FilesMet
    BY <1>1, <2>1 DEF FilesMet, Reading
  <2> QED
    BY <1>1, <2>1, <2>2 DEF FileGroupsHeld
<1>9. CASE DeliverIterate
  <2>1. /\ pc = "deliver" /\ image_processed' = image_processed + 1
        /\ pc' \in {"open", "close"}
        /\ UNCHANGED <<rg_cache, fetched, open_file_map>>
    BY <1>9 DEF DeliverIterate
  <2>2. FilesMet' = FilesMet
    BY <1>1, <2>1 DEF FilesMet, Reading
  <2> QED
    BY <1>1, <2>1, <2>2 DEF FileGroupsHeld
<1>10. CASE CloseGroup
  <2>1. pc = "close" /\ pc' = "close" /\ UNCHANGED <<image_processed, fetched>>
    BY <1>10 DEF CloseGroup
  <2>2. FilesMet' = FilesMet
    BY <1>1, <2>1 DEF FilesMet, Reading
  <2> QED
    BY <1>1, <2>1, <2>2 DEF FileGroupsHeld
<1>11. CASE CloseFile
  <2>1. /\ pc = "close" /\ pc' = "open" /\ UNCHANGED <<image_processed, fetched>>
        /\ open_file_map' = open_file_map \ {JustRead}
    BY <1>11 DEF CloseFile
  <2>2. FilesMet' = FilesMet /\ open_file_map' = {}
    BY <1>1, <2>1 DEF FilesMet, Reading, OneFileOpen
  <2> QED
    BY <1>1, <2>1, <2>2 DEF FileGroupsHeld
<1>12. CASE EndEpoch
  <2>1. CASE epoch < conf.epochs
    <3>1. open_file_map' = {} /\ fetched' = [k \in Keys |-> 0]
      BY <1>12, <2>1 DEF EndEpoch
    <3>2. \A k \in Keys : fetched'[k] = 0
      BY <3>1
    <3> QED
      BY <1>1, <3>1, <3>2 DEF FileGroupsHeld
  <2>2. CASE ~(epoch < conf.epochs)
    <3>1. /\ pc = "open" /\ pc' = "done"
          /\ UNCHANGED <<image_processed, fetched, rg_cache, open_file_map>>
      BY <1>12, <2>2 DEF EndEpoch
    <3>2. FilesMet' = FilesMet
      BY <1>1, <3>1 DEF FilesMet, Reading
    <3> QED
      BY <1>1, <3>1, <3>2 DEF FileGroupsHeld
  <2> QED
    BY <2>1, <2>2
<1>13. CASE UNCHANGED vars
  <2>1. UNCHANGED <<pc, image_processed, fetched, rg_cache, open_file_map>>
        /\ FilesMet' = FilesMet /\ Key' = Key
    BY <1>1, <1>3, <1>13 DEF vars, FilesMet, Reading
  <2> QED
    BY <1>1, <2>1 DEF FileGroupsHeld
<1>14. ~DeliverIndex
  BY DEF DeliverIndex
<1> QED
  BY <1>4, <1>5, <1>6, <1>7, <1>8, <1>9, <1>10, <1>11, <1>12, <1>13, <1>14
  DEF Next, Terminated

(* No step of a reader disturbs what is said of the fetched groups. *)
LEMMA FetchNext ==
  TypeOK /\ TypeOK' /\ CacheInv /\ OpenInv /\ FetchInv /\ [Next]_vars => FetchInv'
<1> SUFFICES ASSUME TypeOK, TypeOK', CacheInv, OpenInv, FetchInv, [Next]_vars PROVE FetchInv'
  OBVIOUS
<1>1. /\ Indexed' = Indexed /\ Demand' = Demand /\ FileByFile' = FileByFile
      /\ GroupByGroup' = GroupByGroup /\ conf' = conf
  BY ConfConstant
<1>2. Indexed /\ ~Demand /\ GroupByGroup => LastGroupHeld'
  BY IndexFetchNext DEF FetchInv, OpenInv, FilesKeptOpen
<1>3. ~Indexed /\ FileByFile /\ conf.cacheSize >= conf.groups => FileGroupsHeld'
  BY FileFetchNext DEF FetchInv, OpenInv
<1> QED
  BY <1>1, <1>2, <1>3 DEF FetchInv

(* FetchInv says what GroupsFetchedOnce asks. *)
LEMMA FetchedOnce == FetchInv /\ (Indexed /\ ~Demand => GroupByGroup) => GroupsFetchedOnce
  BY DEF FetchInv, GroupsFetchedOnce, LastGroupHeld, FileGroupsHeld

(* FetchInv holds throughout. *)
LEMMA FetchInvariant == Spec => []FetchInv
<1>1. Init => FetchInv
  BY OpenInit
<1> QED
  BY <1>1, ReaderTypeCorrect, CacheInvariant, OpenInvariant, FetchNext, PTL DEF Spec

(* ReadOnce, with the row groups (get_sample, _evict_lru): a worker fetches each
   group once in an epoch if its reads go group by group, as those of the sequential
   sampler do; if they went back and forth between more groups than the cache holds
   it would fetch them again. *)
THEOREM ReaderReadsOnce == Spec => []((Indexed /\ ~Demand => GroupByGroup) => ReadOnce)
<1>1. FilesOpenedOnce /\ FetchInv => ((Indexed /\ ~Demand => GroupByGroup) => ReadOnce)
  BY FetchedOnce DEF ReadOnce
<1> QED
  BY <1>1, ReaderOpensOnce, FetchInvariant, PTL
===============================================================================
