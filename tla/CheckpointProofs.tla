---------------------------- MODULE CheckpointProofs ----------------------------
(***************************************************************************)
(* What holds of a checkpoint for every number of ranks, every parallelism  *)
(* and every sequence of jobs.                                              *)
(***************************************************************************)
EXTENDS CheckpointStore, SequenceTheorems, FiniteSetTheorems, WellFoundedInduction, TLAPS

(* A rank's place in the grid is its own: the number of the replica and the one in
   it are the quotient and the rest of one division. *)
LEMMA PlaceOfRank ==
  ASSUME NEW m \in Nat \ {0}, NEW r \in Nat, NEW q \in Nat,
         r \div m = q \div m, r % m = q % m
  PROVE  r = q
<1>1. r = m * (r \div m) + (r % m)
  OBVIOUS
<1>2. q = m * (q \div m) + (q % m)
  OBVIOUS
<1> QED
  BY <1>1, <1>2

(* The names of the files of a rank *)
LEMMA FilesOfRank ==
  ASSUME NEW c, NEW r, NEW w \in Saved(c, r)
  PROVE  \/ w.file = <<"model_states", r>>
         \/ DataRank(c, r) = 0 /\ \E l : w.file = <<"layer", l, ModelRank(c, r)>>
         \/ DataRank(c, r) = 0 /\ w.file = <<"model", ModelRank(c, r)>>
         \/ w.file = <<"zero_model", DataRank(c, r), ModelRank(c, r)>>
         \/ w.file = <<"zero_optim", DataRank(c, r), ModelRank(c, r)>>
  BY DEF Saved, SavedModelState, SavedModel, SavedOptimizer

(* Ranks that write a file of the same name are one rank. *)
LEMMA DistinctFiles ==
  ASSUME NEW c \in ConfigurationType, NEW r \in Nat, NEW q \in Nat,
         NEW w \in Saved(c, r), NEW v \in Saved(c, q), w.file = v.file
  PROVE  r = q
<1> DEFINE m == ModelParallelism(c)
<1>1. m \in Nat \ {0}
  BY DEF ConfigurationType, ModelParallelism
<1>2. DataRank(c, r) = r \div m /\ DataRank(c, q) = q \div m
      /\ ModelRank(c, r) = r % m /\ ModelRank(c, q) = q % m
  BY DEF DataRank, ModelRank
<1>3. r = q \/ (DataRank(c, r) = DataRank(c, q) /\ ModelRank(c, r) = ModelRank(c, q))
  BY FilesOfRank
<1> QED
  BY <1>1, <1>2, <1>3, PlaceOfRank

(* Within a job its layout stays, and a job begins with one that is simulated. *)
LEMMA LayoutOfStep == [Next]_vars => layout' \in Simulated \/ UNCHANGED layout
<1>1. StartJob => layout' \in Simulated
  BY DEF StartJob
<1> QED
  BY <1>1 DEF Next, vars, FinishJob, Kill, CountCheckpoints, NextCheckpoint,
     StartCheckpoint, EndCheckpoint, OpenFile, WriteChunk, SaveWhole, LoadPart

(* The layout is one of the configured ones throughout. *)
LEMMA LayoutStays == Spec => [](layout \in Layouts)
<1>1. Init => layout \in Layouts
  BY DEF Init
<1>2. layout \in Layouts /\ [Next]_vars => (layout \in Layouts)'
  BY LayoutOfStep, StoreAssumption
<1> QED
  BY <1>1, <1>2, PTL DEF Spec

(* No two ranks write the same file, whatever the number of ranks and the
   parallelism (base_checkpointing.py 47-68, 385-418). *)
THEOREM RanksWriteApart == Spec => []FilesDistinct
<1>1. layout \in Layouts => FilesDistinct
  <2> SUFFICES ASSUME layout \in Layouts, NEW r \in Rank, NEW q \in Rank,
                      NEW w \in Saved(layout, r), NEW v \in Saved(layout, q), w.file = v.file
               PROVE  r = q
    BY DEF FilesDistinct
  <2>1. layout \in ConfigurationType /\ r \in Nat /\ q \in Nat
    BY StoreAssumption DEF Rank, Ranks, ConfigurationType
  <2> QED
    BY <2>1, DistinctFiles
<1> QED
  BY <1>1, LayoutStays, PTL

-------------------------------------------------------------------------------
(* The parts of the model over the grid *)

(* Division, by its two inequalities *)
LEMMA Quotient ==
  ASSUME NEW a \in Nat, NEW b \in Nat \ {0}
  PROVE  a \div b \in Nat /\ b * (a \div b) <= a /\ a < b * (a \div b) + b
  OBVIOUS

(* A number, its quotient and its rest *)
LEMMA Rest ==
  ASSUME NEW a \in Nat, NEW n \in Nat \ {0}
  PROVE  a % n \in 0 .. n - 1 /\ a = n * (a \div n) + (a % n)
  OBVIOUS

(* Multiples are in the order of what is multiplied. *)
LEMMA MultiplesOrdered ==
  ASSUME NEW n \in Nat, NEW x \in Nat, NEW y \in Nat, x <= y
  PROVE  x * n \in Nat /\ y * n \in Nat /\ x * n <= y * n
<1>1. PICK d \in Nat : y = x + d
  BY y - x \in Nat
<1>2. d * n \in Nat /\ y * n = x * n + d * n
  BY <1>1
<1> QED
  BY <1>2

(* A number below a multiple has a smaller quotient. *)
LEMMA QuotientBelow ==
  ASSUME NEW n \in Nat \ {0}, NEW k \in Nat, NEW a \in Nat, a < k * n
  PROVE  a \div n \in Nat /\ a \div n < k
<1>1. PICK q \in Nat : q = a \div n /\ n * q <= a
  BY Quotient
<1>2. ASSUME q >= k PROVE FALSE
  <2>1. k * n <= q * n
    BY <1>2, MultiplesOrdered
  <2> QED
    BY <1>1, <2>1
<1> QED
  BY <1>1, <1>2

(* The quotient and the rest of a number are known from its place in a block. *)
LEMMA Coordinates ==
  ASSUME NEW n \in Nat \ {0}, NEW f \in Nat, NEW i \in 0 .. n - 1
  PROVE  (n * f + i) \div n = f /\ (n * f + i) % n = i
<1>1. PICK a \in Nat : a = n * f + i
  OBVIOUS
<1>2. PICK q \in Nat : q = a \div n /\ n * q <= a /\ a < n * q + n
  BY <1>1, Quotient
<1>3. f + 1 \in Nat /\ a < (f + 1) * n /\ a < (q + 1) * n
  BY <1>1, <1>2
<1>4. q < f + 1
  BY <1>2, <1>3, QuotientBelow
<1>5. f < q + 1
  <2>1. ASSUME q + 1 <= f PROVE FALSE
    <3>1. (q + 1) * n <= f * n
      BY <2>1, MultiplesOrdered
    <3> QED
      BY <1>1, <1>3, <3>1
  <2> QED
    BY <2>1
<1>6. q = f
  BY <1>4, <1>5
<1>7. a = n * (a \div n) + (a % n) /\ a % n \in 0 .. n - 1
  BY <1>1, Rest
<1> QED
  BY <1>1, <1>2, <1>6, <1>7

(* The first layer of stage p, of layers in pp stages of g layers each, the first
   rest of them one longer *)
FirstLayer(g, rest, p) == p * g + (IF p < rest THEN p ELSE rest) + 1

(* The stages follow one another. *)
LEMMA StagesOrdered ==
  ASSUME NEW g \in Nat, NEW rest \in Nat, NEW p \in Nat, NEW q \in Nat, p <= q
  PROVE  /\ FirstLayer(g, rest, p) \in Nat /\ FirstLayer(g, rest, q) \in Nat
         /\ FirstLayer(g, rest, p) <= FirstLayer(g, rest, q)
<1>1. p * g \in Nat /\ q * g \in Nat /\ p * g <= q * g
  BY MultiplesOrdered
<1>2. PICK a \in Nat, b \in Nat : a = p * g /\ b = q * g /\ a <= b
  BY <1>1
<1> QED
  BY <1>2 DEF FirstLayer

(* A layer is in the run of one stage. *)
LEMMA StageOfLayer ==
  ASSUME NEW g \in Nat \ {0}, NEW pp \in Nat \ {0}, NEW rest \in 0 .. pp - 1,
         NEW l \in 1 .. pp * g + rest
  PROVE  \E p \in 0 .. pp - 1 :
           FirstLayer(g, rest, p) <= l /\ l < FirstLayer(g, rest, p + 1)
<1>1. rest * (g + 1) \in Nat /\ pp * g \in Nat
  OBVIOUS
<1>2. CASE l <= rest * (g + 1)
  <2>1. l - 1 \in Nat /\ g + 1 \in Nat \ {0} /\ l - 1 < rest * (g + 1)
    BY <1>1, <1>2
  <2>2. PICK p \in Nat : p = (l - 1) \div (g + 1) /\ p < rest
    BY <2>1, QuotientBelow
  <2>3. (g + 1) * p <= l - 1 /\ l - 1 < (g + 1) * p + (g + 1)
    BY <2>1, <2>2, Quotient
  <2>4. PICK m \in Nat : m = p * g
    OBVIOUS
  <2>5. (g + 1) * p = m + p /\ (p + 1) * g = m + g
    BY <2>4
  <2>6. FirstLayer(g, rest, p) = m + p + 1
    BY <2>2, <2>4 DEF FirstLayer
  <2>7. FirstLayer(g, rest, p + 1) = m + g + p + 2
    BY <2>2, <2>5 DEF FirstLayer
  <2>8. p \in 0 .. pp - 1
    BY <2>2
  <2> QED
    BY <2>1, <2>3, <2>5, <2>6, <2>7, <2>8
<1>3. CASE l > rest * (g + 1)
  <2>1. PICK m \in Nat : m = l - 1 - rest * (g + 1)
    BY <1>1, <1>3
  <2>2. PICK c \in Nat : pp = rest + c
    BY pp - rest \in Nat
  <2>3. PICK x \in Nat, y \in Nat : x = rest * g /\ y = c * g
    BY <2>2
  <2>4. rest * (g + 1) = x + rest /\ pp * g = x + y
    BY <2>2, <2>3
  <2>5. m < c * g
    BY <2>1, <2>3, <2>4
  <2>6. PICK d \in Nat : d = m \div g /\ d < c
    BY <2>5, QuotientBelow
  <2>7. g * d <= m /\ m < g * d + g
    BY <2>6, Quotient
  <2>8. PICK z \in Nat : z = g * d
    OBVIOUS
  <2>9. (rest + d) * g = x + z /\ (rest + d + 1) * g = x + z + g
    BY <2>3, <2>8
  <2>10. FirstLayer(g, rest, rest + d) = x + z + rest + 1
    BY <2>9 DEF FirstLayer
  <2>11. FirstLayer(g, rest, rest + d + 1) = x + z + g + rest + 1
    BY <2>9 DEF FirstLayer
  <2>12. rest + d \in 0 .. pp - 1
    BY <2>2, <2>6
  <2> QED
    BY <2>1, <2>4, <2>7, <2>8, <2>10, <2>11, <2>12
<1> QED
  BY <1>1, <1>2, <1>3

(* get_layer_index, without its cases *)
LEMMA StageIs ==
  ASSUME NEW c \in ConfigurationType, c.layers > 0, NEW r, NEW p \in 0 .. c.pp - 1,
         PipelineRank(c, r) = p
  PROVE  LET first == FirstLayer(c.layers \div c.pp, c.layers % c.pp, p)
             next  == FirstLayer(c.layers \div c.pp, c.layers % c.pp, p + 1)
         IN  LayerIndex(c, r) =
               IF c.predefined THEN first .. next - 1
               ELSE (IF p = 0 THEN 0 ELSE first) .. (IF p = c.pp - 1 THEN c.layers + 2 ELSE next - 1)
<1>1. c.layers \in Nat /\ c.pp \in Nat \ {0} /\ p \in Nat
  BY DEF ConfigurationType
<1>2. PICK g \in Nat : g = c.layers \div c.pp
  BY <1>1, Quotient
<1>3. PICK rest \in Nat : rest = c.layers % c.pp
  BY <1>1, Rest
<1> DEFINE start == IF p < rest THEN p * (g + 1) + 1
                                ELSE rest * (g + 1) + (p - rest) * g + 1
           end   == IF p < rest THEN start + g ELSE start + g - 1
<1>4. LayerIndex(c, r) =
        IF c.predefined THEN start .. end
        ELSE (IF p = 0 THEN 0 ELSE start) .. (IF p = c.pp - 1 THEN c.layers + 2 ELSE end)
  BY <1>2, <1>3 DEF LayerIndex
<1>5. start = FirstLayer(g, rest, p) /\ end = FirstLayer(g, rest, p + 1) - 1
  <2>1. CASE p < rest
    <3>1. PICK m \in Nat : m = p * g
      BY <1>1
    <3>2. p * (g + 1) = m + p /\ (p + 1) * g = m + g
      BY <1>1, <3>1
    <3>3. FirstLayer(g, rest, p) = m + p + 1 /\ FirstLayer(g, rest, p + 1) = m + g + p + 2
      BY <1>1, <2>1, <3>1, <3>2 DEF FirstLayer
    <3>4. start = m + p + 1 /\ end = m + g + p + 1
      BY <1>1, <2>1, <3>2
    <3> QED
      BY <1>1, <3>3, <3>4
  <2>2. CASE ~(p < rest)
    <3>1. PICK d \in Nat : p = rest + d
      BY <1>1, <2>2, p - rest \in Nat
    <3>2. PICK x \in Nat, z \in Nat : x = rest * g /\ z = d * g
      OBVIOUS
    <3>3. /\ rest * (g + 1) = x + rest /\ (p - rest) * g = z
          /\ p * g = x + z /\ (p + 1) * g = x + z + g
      BY <3>1, <3>2
    <3>4. /\ FirstLayer(g, rest, p) = x + z + rest + 1
          /\ FirstLayer(g, rest, p + 1) = x + z + g + rest + 1
      BY <1>1, <2>2, <3>1, <3>3 DEF FirstLayer
    <3>5. start = x + z + rest + 1 /\ end = x + z + g + rest
      BY <2>2, <3>3
    <3> QED
      BY <3>4, <3>5
  <2> QED
    BY <2>1, <2>2
<1> HIDE DEF start, end
<1> QED
  BY <1>2, <1>3, <1>4, <1>5

(* Every layer of the model is on exactly one stage. *)
LEMMA OneStage ==
  ASSUME NEW c \in ConfigurationType, c.layers > 0, c.layers >= c.pp,
         NEW l \in (IF c.predefined THEN 1 .. c.layers ELSE 0 .. c.layers + 2)
  PROVE  \E p \in 0 .. c.pp - 1 :
           \A r : PipelineRank(c, r) \in 0 .. c.pp - 1 =>
                    (l \in LayerIndex(c, r) <=> PipelineRank(c, r) = p)
<1>1. c.layers \in Nat \ {0} /\ c.pp \in Nat \ {0} /\ l \in Nat /\ c.predefined \in BOOLEAN
  BY DEF ConfigurationType
<1>2. PICK g \in Nat : g = c.layers \div c.pp
  BY <1>1, Quotient
<1>3. PICK rest \in 0 .. c.pp - 1 : rest = c.layers % c.pp /\ c.layers = c.pp * g + rest
  BY <1>1, <1>2, Rest
<1>4. g # 0
  BY <1>1, <1>2, <1>3
<1> DEFINE first(p) == FirstLayer(g, rest, p)
<1>5. first(0) = 1 /\ first(c.pp) = c.layers + 1
  <2>1. 0 * g = 0 /\ c.pp * g \in Nat
    BY <1>1
  <2> QED
    BY <1>1, <1>3, <2>1 DEF FirstLayer
<1>6. \A p, q \in Nat : p <= q => first(p) \in Nat /\ first(q) \in Nat /\ first(p) <= first(q)
  <2>1. g \in Nat /\ rest \in Nat
    BY <1>3
  <2> QED
    BY <2>1, StagesOrdered
<1>7. ASSUME NEW r, NEW q \in 0 .. c.pp - 1, PipelineRank(c, r) = q
      PROVE  LayerIndex(c, r) =
               IF c.predefined THEN first(q) .. first(q + 1) - 1
               ELSE (IF q = 0 THEN 0 ELSE first(q))
                      .. (IF q = c.pp - 1 THEN c.layers + 2 ELSE first(q + 1) - 1)
  BY <1>2, <1>3, <1>7, StageIs
<1> HIDE DEF first
<1>8. ASSUME NEW p \in 0 .. c.pp - 1,
             \A q \in 0 .. c.pp - 1 :
               l \in (IF c.predefined THEN first(q) .. first(q + 1) - 1
                      ELSE (IF q = 0 THEN 0 ELSE first(q))
                             .. (IF q = c.pp - 1 THEN c.layers + 2 ELSE first(q + 1) - 1))
                 <=> q = p
      PROVE  \A r : PipelineRank(c, r) \in 0 .. c.pp - 1 =>
                      (l \in LayerIndex(c, r) <=> PipelineRank(c, r) = p)
  <2> SUFFICES ASSUME NEW r, NEW q \in 0 .. c.pp - 1, PipelineRank(c, r) = q
               PROVE  l \in LayerIndex(c, r) <=> q = p
    OBVIOUS
  <2> QED
    BY <1>7, <1>8
<1>9. \A q \in 0 .. c.pp - 1 :
        /\ q \in Nat /\ q + 1 \in Nat /\ first(q) \in Nat /\ first(q + 1) \in Nat
        /\ 1 <= first(q) /\ first(q) <= first(q + 1) /\ first(q + 1) <= c.layers + 1
  BY <1>1, <1>5, <1>6
<1>10. CASE l \in 1 .. c.layers
  <2>1. PICK p \in 0 .. c.pp - 1 : first(p) <= l /\ l < first(p + 1)
    BY <1>1, <1>3, <1>4, <1>10, StageOfLayer DEF first
  <2>2. ASSUME NEW q \in 0 .. c.pp - 1
        PROVE  first(q) <= l /\ l < first(q + 1) <=> q = p
    <3>1. ~(q < p /\ l < first(q + 1))
      <4>1. q < p => first(q + 1) <= first(p)
        BY <1>6, <1>9
      <4> QED
        BY <1>1, <1>9, <2>1, <4>1
    <3>2. ~(p < q /\ first(q) <= l)
      <4>1. p < q => first(p + 1) <= first(q)
        BY <1>6, <1>9
      <4> QED
        BY <1>1, <1>9, <2>1, <4>1
    <3> QED
      BY <1>9, <2>1, <3>1, <3>2
  <2>3. ASSUME NEW q \in 0 .. c.pp - 1
        PROVE  l \in (IF c.predefined THEN first(q) .. first(q + 1) - 1
                      ELSE (IF q = 0 THEN 0 ELSE first(q))
                             .. (IF q = c.pp - 1 THEN c.layers + 2 ELSE first(q + 1) - 1))
                 <=> first(q) <= l /\ l < first(q + 1)
    <3>1. q = 0 => first(q) <= l
      BY <1>5, <1>10
    <3>2. q = c.pp - 1 => l < first(q + 1)
      <4>1. q = c.pp - 1 => q + 1 = c.pp
        BY <1>1
      <4> QED
        BY <1>1, <1>5, <1>10, <4>1
    <3> QED
      BY <1>1, <1>9, <1>10, <3>1, <3>2
  <2> QED
    BY <1>8, <2>2, <2>3
<1>11. CASE l = 0
  <2>1. ASSUME NEW q \in 0 .. c.pp - 1
        PROVE  l \in (IF c.predefined THEN first(q) .. first(q + 1) - 1
                      ELSE (IF q = 0 THEN 0 ELSE first(q))
                             .. (IF q = c.pp - 1 THEN c.layers + 2 ELSE first(q + 1) - 1))
                 <=> q = 0
    BY <1>1, <1>9, <1>11
  <2>2. 0 \in 0 .. c.pp - 1
    BY <1>1
  <2> QED
    BY <1>8, <2>1, <2>2
<1>12. CASE l > c.layers
  <2>1. c.pp - 1 \in 0 .. c.pp - 1
    BY <1>1
  <2>2. ASSUME NEW q \in 0 .. c.pp - 1
        PROVE  l \in (IF c.predefined THEN first(q) .. first(q + 1) - 1
                      ELSE (IF q = 0 THEN 0 ELSE first(q))
                             .. (IF q = c.pp - 1 THEN c.layers + 2 ELSE first(q + 1) - 1))
                 <=> q = c.pp - 1
    <3>1. l \in 0 .. c.layers + 2 /\ ~c.predefined
      BY <1>1, <1>12
    <3> QED
      BY <1>1, <1>9, <1>12, <3>1
  <2> QED
    BY <1>8, <2>1, <2>2
<1> QED
  BY <1>1, <1>10, <1>11, <1>12

(* The ranks that write a layer *)
LEMMA SavesLayer ==
  ASSUME NEW c \in ConfigurationType, c.layers > 0, NEW r, NEW l
  PROVE  (\E w \in SavedModel(c, r) : l \in w.layers) <=>
           /\ l \in LayerIndex(c, r) /\ Saves(c, r)
           /\ c.zero \in {1, 2} => DataRank(c, r) = 0
<1>1. l \in LayerState(c, r) /\ (c.zero \in {1, 2} => DataRank(c, r) = 0) =>
        \E w \in SavedModel(c, r) : l \in w.layers
  <2> SUFFICES ASSUME l \in LayerState(c, r), c.zero \in {1, 2} => DataRank(c, r) = 0
               PROVE  \E w \in SavedModel(c, r) : l \in w.layers
    OBVIOUS
  <2>1. CASE c.zero \in {1, 2} /\ c.pp > 1
    <3>1. [file |-> <<"layer", l, ModelRank(c, r)>>, layers |-> {l}] \in SavedModel(c, r)
      BY <2>1 DEF SavedModel
    <3> QED
      BY <3>1
  <2>2. CASE ~(c.zero \in {1, 2} /\ c.pp > 1)
    BY <2>2 DEF SavedModel
  <2> QED
    BY <2>1, <2>2
<1>2. ASSUME NEW w \in SavedModel(c, r), l \in w.layers
      PROVE  l \in LayerState(c, r) /\ (c.zero \in {1, 2} => DataRank(c, r) = 0)
  BY <1>2 DEF SavedModel
<1>3. l \in LayerState(c, r) /\ (c.zero \in {1, 2} => DataRank(c, r) = 0) <=>
        /\ l \in LayerIndex(c, r) /\ Saves(c, r)
        /\ c.zero \in {1, 2} => DataRank(c, r) = 0
  BY DEF LayerState
<1> QED
  BY <1>1, <1>2, <1>3

(* The first replica of the grid: its ranks, its stages and its tensor shards *)
LEMMA FirstReplica ==
  ASSUME NEW c \in ConfigurationType, NEW r \in Nat
  PROVE  /\ ModelParallelism(c) \in Nat \ {0} /\ c.tp \in Nat \ {0} /\ c.pp \in Nat \ {0}
         /\ DataRank(c, r) \in Nat /\ (DataRank(c, r) = 0 <=> r < ModelParallelism(c))
         /\ PipelineRank(c, r) \in 0 .. c.pp - 1 /\ TensorRank(c, r) \in 0 .. c.tp - 1
         /\ r < ModelParallelism(c) => r = c.tp * PipelineRank(c, r) + TensorRank(c, r)
<1>1. c.tp \in Nat \ {0} /\ c.pp \in Nat \ {0}
  BY DEF ConfigurationType
<1>2. PICK m \in Nat \ {0} : m = ModelParallelism(c) /\ m = c.pp * c.tp
  <2>1. ASSUME NEW a \in Nat \ {0}, NEW b \in Nat \ {0} PROVE a * b \in Nat \ {0}
    <3>1. PICK d \in Nat : a = d + 1
      BY a - 1 \in Nat
    <3>2. d * b \in Nat /\ a * b = d * b + b
      BY <3>1
    <3> QED
      BY <3>2
  <2> QED
    BY <1>1, <2>1 DEF ModelParallelism
<1>3. PICK d \in Nat : d = r \div m /\ m * d <= r /\ r < m * d + m
  BY Quotient
<1>4. d = 0 <=> r < m
  <2>1. CASE d = 0
    BY <1>3, <2>1
  <2>2. CASE d # 0
    <3>1. PICK e \in Nat : d = e + 1
      BY <2>2, d - 1 \in Nat
    <3>2. m * e \in Nat /\ m * d = m * e + m
      BY <3>1
    <3> QED
      BY <1>3, <2>2, <3>2
  <2> QED
    BY <2>1, <2>2
<1>5. PICK q \in Nat : q = r \div c.tp
  BY <1>1, Quotient
<1>6. PICK t \in 0 .. c.tp - 1 : t = r % c.tp /\ r = c.tp * q + t
  BY <1>1, <1>5, Rest
<1>7. q % c.pp \in 0 .. c.pp - 1
  BY <1>1, Rest
<1>8. r < m => q < c.pp
  BY <1>1, <1>2, <1>5, <1>6, QuotientBelow
<1>9. q < c.pp => q % c.pp = q
  BY <1>1
<1>10. PipelineRank(c, r) = q % c.pp /\ TensorRank(c, r) = t /\ DataRank(c, r) = d
  BY <1>2, <1>3, <1>5, <1>6 DEF PipelineRank, TensorRank, DataRank
<1> QED
  BY <1>1, <1>2, <1>4, <1>5, <1>6, <1>7, <1>8, <1>9, <1>10

(* Ranks numbered from 0 are as many as their bound. *)
LEMMA CountBelow ==
  ASSUME NEW n \in Nat
  PROVE  IsFiniteSet(0 .. n - 1) /\ Cardinality(0 .. n - 1) = n
<1>1. 0 \in Int /\ n - 1 \in Int /\ (n - 1) - 0 + 1 = n /\ (0 > n - 1 => n = 0)
  OBVIOUS
<1>2. /\ IsFiniteSet(0 .. n - 1)
      /\ Cardinality(0 .. n - 1) = IF 0 > n - 1 THEN 0 ELSE (n - 1) - 0 + 1
  BY <1>1, FS_Interval
<1> QED
  BY <1>1, <1>2

(* A full checkpoint is of replicas of the grid, one or more. *)
LEMMA FullGrid ==
  ASSUME NEW c \in ConfigurationType, Valid(c), ~c.subset, c.dp # 0
  PROVE  /\ DataParallelism(c) \in Nat
         /\ c.size = ModelParallelism(c) * DataParallelism(c)
         /\ ModelParallelism(c) \in Nat /\ ModelParallelism(c) <= c.size
<1>1. ModelParallelism(c) \in Nat \ {0}
  <2>1. 0 \in Nat
    OBVIOUS
  <2> QED
    BY <2>1, FirstReplica
<1>2. PICK m \in Nat \ {0} : m = ModelParallelism(c)
  BY <1>1
<1>3. c.size \in Nat \ {0} /\ c.dp < 0 /\ c.size % m = 0
  BY <1>2 DEF Valid, ConfigurationType, ModelParallelism
<1>4. PICK d \in Nat : d = c.size \div m
  BY <1>3, Quotient
<1>5. c.size = m * d
  <2>1. c.size = m * (c.size \div m) + (c.size % m)
    BY <1>3, Rest
  <2>2. m * d \in Nat
    OBVIOUS
  <2> QED
    BY <1>3, <1>4, <2>1, <2>2
<1>6. d # 0
  BY <1>3, <1>5
<1>7. PICK e \in Nat : d = e + 1
  BY <1>6, d - 1 \in Nat
<1>8. m * e \in Nat /\ m * d = m * e + m
  BY <1>7
<1>9. DataParallelism(c) = d
  BY <1>2, <1>3, <1>4 DEF DataParallelism
<1> QED
  BY <1>2, <1>5, <1>8, <1>9

(* The replicas of a rank, if each is one stage *)
LEMMA CountReplicas ==
  ASSUME NEW tp \in Nat \ {0}, NEW n \in Nat, NEW t \in 0 .. tp - 1
  PROVE  Cardinality({r \in 0 .. tp * n - 1 : r % tp = t}) = n
<1> DEFINE S == {r \in 0 .. tp * n - 1 : r % tp = t}
           f == [i \in 0 .. n - 1 |-> tp * i + t]
<1>1. ASSUME NEW i \in 0 .. n - 1 PROVE f[i] \in S
  <2>1. PICK d \in Nat : n = i + 1 + d
    BY n - i - 1 \in Nat
  <2>2. PICK a \in Nat, b \in Nat : a = tp * i /\ b = tp * d
    BY <2>1
  <2>3. tp * n = a + tp + b
    BY <2>1, <2>2
  <2>4. (tp * i + t) % tp = t
    BY Coordinates
  <2>5. tp * i + t \in 0 .. tp * n - 1
    BY <2>2, <2>3
  <2> QED
    BY <2>4, <2>5
<1>2. ASSUME NEW i \in 0 .. n - 1, NEW j \in 0 .. n - 1, f[i] = f[j] PROVE i = j
  <2>1. (tp * i + t) \div tp = i /\ (tp * j + t) \div tp = j
    BY Coordinates
  <2> QED
    BY <1>2, <2>1
<1>3. ASSUME NEW r \in S PROVE \E i \in 0 .. n - 1 : f[i] = r
  <2>1. r \in Nat /\ r < n * tp /\ r % tp = t
    OBVIOUS
  <2>2. PICK i \in Nat : i = r \div tp /\ i < n
    BY <2>1, QuotientBelow
  <2>3. r = tp * i + t
    BY <2>1, <2>2, Rest
  <2>4. i \in 0 .. n - 1
    BY <2>2
  <2>5. f[i] = tp * i + t
    BY <2>4
  <2> HIDE DEF f
  <2> QED
    BY <2>3, <2>4, <2>5
<1>4. f \in Bijection(0 .. n - 1, S)
  <2>1. f \in [0 .. n - 1 -> S]
    BY <1>1
  <2>2. f \in Injection(0 .. n - 1, S)
    BY <1>2, <2>1 DEF Injection, IsInjective
  <2>3. f \in Surjection(0 .. n - 1, S)
    BY <1>3, <2>1 DEF Surjection
  <2> QED
    BY <2>2, <2>3 DEF Bijection
<1>5. Cardinality(S) = Cardinality(0 .. n - 1)
  BY <1>4, CountBelow, FS_Bijection DEF ExistsBijection
<1> QED
  BY <1>5, CountBelow

(* A layer is written by one rank of the first replica for each tensor shard, and
   under ZeRO 3 by one rank of every replica. *)
LEMMA LayerSavers ==
  ASSUME NEW c \in ConfigurationType, Valid(c), ~c.subset, c.dp # 0, c.layers > 0,
         NEW l \in (IF c.predefined THEN 1 .. c.layers ELSE 0 .. c.layers + 2),
         NEW t \in 0 .. c.tp - 1
  PROVE  Cardinality({r \in 0 .. c.size - 1 : /\ TensorRank(c, r) = t
                                              /\ \E w \in SavedModel(c, r) : l \in w.layers})
           = IF c.zero = 3 THEN DataParallelism(c) ELSE 1
<1> DEFINE S == {r \in 0 .. c.size - 1 : /\ TensorRank(c, r) = t
                                          /\ \E w \in SavedModel(c, r) : l \in w.layers}
           m == ModelParallelism(c)
<1>1. /\ c.size \in Nat /\ c.tp \in Nat \ {0} /\ c.pp \in Nat \ {0} /\ c.zero \in 0 .. 3
      /\ c.layers >= c.pp /\ (c.zero = 3 => c.pp = 1)
  BY DEF ConfigurationType, Valid
<1>2. /\ m \in Nat /\ m <= c.size /\ DataParallelism(c) \in Nat
      /\ c.size = m * DataParallelism(c)
  BY FullGrid
<1>3. PICK p \in 0 .. c.pp - 1 :
        \A r : PipelineRank(c, r) \in 0 .. c.pp - 1 =>
                 (l \in LayerIndex(c, r) <=> PipelineRank(c, r) = p)
  BY <1>1, OneStage
<1>4. \A r \in 0 .. c.size - 1 :
        r \in S <=> /\ TensorRank(c, r) = t /\ PipelineRank(c, r) = p /\ Saves(c, r)
                    /\ c.zero \in {1, 2} => DataRank(c, r) = 0
  <2> SUFFICES ASSUME NEW r \in 0 .. c.size - 1
               PROVE  r \in S <=> /\ TensorRank(c, r) = t /\ PipelineRank(c, r) = p /\ Saves(c, r)
                                  /\ c.zero \in {1, 2} => DataRank(c, r) = 0
    OBVIOUS
  <2>1. r \in Nat
    BY <1>1
  <2>2. PipelineRank(c, r) \in 0 .. c.pp - 1
    BY <2>1, FirstReplica
  <2>3. l \in LayerIndex(c, r) <=> PipelineRank(c, r) = p
    BY <1>3, <2>2
  <2>4. (\E w \in SavedModel(c, r) : l \in w.layers) <=>
           /\ l \in LayerIndex(c, r) /\ Saves(c, r)
           /\ c.zero \in {1, 2} => DataRank(c, r) = 0
    BY SavesLayer
  <2> QED
    BY <2>3, <2>4
<1>5. CASE c.zero = 3
  <2>1. \A r \in 0 .. c.size - 1 : r \in S <=> r % c.tp = t
    <3> SUFFICES ASSUME NEW r \in 0 .. c.size - 1 PROVE r \in S <=> r % c.tp = t
      OBVIOUS
    <3>1. r \in Nat
      BY <1>1
    <3>2. PipelineRank(c, r) \in 0 .. c.pp - 1
      BY <3>1, FirstReplica
    <3>3. PipelineRank(c, r) = p
      BY <1>1, <1>5, <3>2
    <3>4. Saves(c, r)
      BY <1>5 DEF Saves
    <3> QED
      BY <1>4, <1>5, <3>3, <3>4 DEF TensorRank
  <2>2. m = c.tp
    BY <1>1, <1>5 DEF ModelParallelism
  <2>3. S = {r \in 0 .. c.tp * DataParallelism(c) - 1 : r % c.tp = t}
    <3>1. S \subseteq 0 .. c.size - 1
      OBVIOUS
    <3>2. 0 .. c.size - 1 = 0 .. c.tp * DataParallelism(c) - 1
      BY <1>2, <2>2
    <3> HIDE DEF S
    <3> QED
      BY <2>1, <3>1, <3>2
  <2>4. Cardinality(S) = DataParallelism(c)
    <3> HIDE DEF S
    <3> QED
      BY <1>1, <1>2, <2>3, CountReplicas
  <2> QED
    BY <1>5, <2>4
<1>6. CASE c.zero # 3
  <2>1. \A r \in 0 .. c.size - 1 :
          r \in S <=> /\ TensorRank(c, r) = t /\ PipelineRank(c, r) = p /\ r < m
    <3> SUFFICES ASSUME NEW r \in 0 .. c.size - 1
                 PROVE  r \in S <=> /\ TensorRank(c, r) = t /\ PipelineRank(c, r) = p /\ r < m
      OBVIOUS
    <3>1. r \in Nat
      BY <1>1
    <3>2. m \in Nat \ {0} /\ (DataRank(c, r) = 0 <=> r < m)
      BY <3>1, FirstReplica
    <3>3. (Saves(c, r) /\ (c.zero \in {1, 2} => DataRank(c, r) = 0)) <=> r < m
      <4>1. CASE c.zero = 0
        <5>1. Saves(c, r) <=> (r >= m => r = 0)
          BY <4>1 DEF Saves
        <5> HIDE DEF m
        <5> QED
          BY <3>1, <3>2, <4>1, <5>1
      <4>2. CASE c.zero # 0
        <5>1. c.zero \in {1, 2}
          BY <1>1, <1>6, <4>2
        <5> QED
          BY <3>2, <4>2, <5>1 DEF Saves
      <4> QED
        BY <4>1, <4>2
    <3> HIDE DEF S, m
    <3> QED
      BY <1>4, <3>3
  <2>2. PICK s \in Nat : s = c.tp * p + t /\ s \div c.tp = p /\ s % c.tp = t
    <3>1. p \in Nat /\ c.tp * p + t \in Nat
      BY <1>1
    <3>2. (c.tp * p + t) \div c.tp = p /\ (c.tp * p + t) % c.tp = t
      BY <1>1, <3>1, Coordinates
    <3> QED
      BY <3>1, <3>2
  <2>3. s < m
    <3>1. p + 1 \in Nat /\ p + 1 <= c.pp /\ c.pp \in Nat /\ c.tp \in Nat
      BY <1>1
    <3>2. (p + 1) * c.tp <= c.pp * c.tp
      BY <3>1, MultiplesOrdered
    <3>3. PICK a \in Nat : a = c.tp * p
      BY <1>1
    <3>4. (p + 1) * c.tp = a + c.tp
      BY <3>1, <3>3
    <3>5. m = c.pp * c.tp
      BY DEF ModelParallelism
    <3> HIDE DEF m
    <3>6. a + c.tp <= m
      BY <3>2, <3>4, <3>5
    <3> QED
      BY <1>1, <1>2, <2>2, <3>3, <3>6
  <2>4. s \in 0 .. c.size - 1 /\ TensorRank(c, s) = t /\ PipelineRank(c, s) = p
    <3>1. p % c.pp = p
      BY <1>1
    <3>2. s \in 0 .. c.size - 1
      BY <1>1, <1>2, <2>3
    <3> QED
      BY <2>2, <3>1, <3>2 DEF TensorRank, PipelineRank
  <2>5. \A r \in S : r = s
    <3> SUFFICES ASSUME NEW r \in S PROVE r = s
      OBVIOUS
    <3>1. r \in 0 .. c.size - 1 /\ r \in Nat
      BY <1>1
    <3>2. TensorRank(c, r) = t /\ PipelineRank(c, r) = p /\ r < m
      BY <2>1, <3>1
    <3>3. r = c.tp * PipelineRank(c, r) + TensorRank(c, r)
      BY <3>1, <3>2, FirstReplica
    <3> QED
      BY <2>2, <3>2, <3>3
  <2>6. S = {s}
    <3>1. s \in S
      BY <2>1, <2>3, <2>4
    <3> HIDE DEF S
    <3> QED
      BY <2>5, <3>1
  <2>7. Cardinality(S) = 1
    <3> HIDE DEF S
    <3> QED
      BY <2>6, FS_Singleton
  <2> QED
    BY <1>6, <2>7
<1> QED
  BY <1>5, <1>6

(* The ranks that write the optimizer state, of which each has a part, or all of it
   if its groups are predefined *)
LEMMA OptimizerSavers ==
  ASSUME NEW c \in ConfigurationType, Valid(c), ~c.subset, c.dp # 0, c.layers > 0
  PROVE  LET savers == IF c.zero > 0 THEN c.size ELSE ModelParallelism(c)
             copies == IF c.predefined THEN savers ELSE 1
         IN  Cardinality({r \in 0 .. c.size - 1 : SavedOptimizer(c, r) # {}})
               = copies * OptimizerShards(c)
<1> DEFINE S == {r \in 0 .. c.size - 1 : SavedOptimizer(c, r) # {}}
           m == ModelParallelism(c)
<1>1. c.size \in Nat /\ c.zero \in 0 .. 3
  BY DEF ConfigurationType
<1>2. /\ m \in Nat /\ m <= c.size /\ DataParallelism(c) \in Nat
      /\ c.size = m * DataParallelism(c)
  BY FullGrid
<1>3. \A r \in 0 .. c.size - 1 : r \in S <=> Saves(c, r)
  BY DEF SavedOptimizer, HasOptimizerState
<1>4. S \subseteq 0 .. c.size - 1
  OBVIOUS
<1>5. CASE c.zero = 0
  <2>1. \A r \in 0 .. c.size - 1 : r \in S <=> r < m
    <3> SUFFICES ASSUME NEW r \in 0 .. c.size - 1 PROVE r \in S <=> r < m
      OBVIOUS
    <3>1. r \in Nat
      BY <1>1
    <3>2. m \in Nat \ {0}
      BY <3>1, FirstReplica
    <3>3. Saves(c, r) <=> (r >= m => r = 0)
      BY <1>5 DEF Saves
    <3> HIDE DEF S, m
    <3> QED
      BY <1>3, <3>1, <3>2, <3>3
  <2> HIDE DEF S, m
  <2>2. S = 0 .. m - 1
    <3>1. \A r \in 0 .. m - 1 : r \in 0 .. c.size - 1 /\ r < m
      BY <1>1, <1>2
    <3>2. \A r \in 0 .. c.size - 1 : r < m => r \in 0 .. m - 1
      BY <1>1, <1>2
    <3> QED
      BY <1>4, <2>1, <3>1, <3>2
  <2>3. Cardinality(S) = m
    BY <1>2, <2>2, CountBelow
  <2>4. OptimizerShards(c) = IF c.predefined THEN 1 ELSE m
    BY <1>5 DEF OptimizerShards, m
  <2>5. m * 1 = m /\ 1 * m = m
    BY <1>2
  <2> QED
    BY <1>5, <2>3, <2>4, <2>5 DEF S, m
<1>6. CASE c.zero # 0
  <2>1. \A r : Saves(c, r)
    BY <1>6 DEF Saves
  <2>2. S = 0 .. c.size - 1
    <3> HIDE DEF S
    <3> QED
      BY <1>3, <1>4, <2>1
  <2>3. Cardinality(S) = c.size
    <3> HIDE DEF S
    <3> QED
      BY <1>1, <2>2, CountBelow
  <2>4. OptimizerShards(c) = IF c.predefined THEN 1 ELSE c.size
    BY <1>1, <1>2, <1>6 DEF OptimizerShards
  <2>5. c.size * 1 = c.size /\ 1 * c.size = c.size /\ c.zero > 0
    BY <1>1, <1>6
  <2> QED
    BY <2>3, <2>4, <2>5
<1> QED
  BY <1>5, <1>6

(* A full checkpoint, of whatever grid validate lets through, holds every layer and
   every part of the optimizer state once; predefined optimizer groups, which are not
   divided, each rank that saves any holds whole (base_checkpointing.py 340-382,
   394-418). *)
THEOREM WholeModelSaved == Spec => []ModelSavedOnce
<1>1. layout \in Layouts => ModelSavedOnce
  <2> SUFFICES ASSUME layout \in Layouts, ~layout.subset, layout.dp # 0
               PROVE  LayersSavedOnce /\ OptimizerSavedOnce
    BY DEF ModelSavedOnce
  <2>1. layout \in ConfigurationType /\ Valid(layout)
    BY StoreAssumption
  <2>2. ASSUME NEW l \in AllLayers
        PROVE  /\ layout.layers > 0
               /\ l \in (IF layout.predefined THEN 1 .. layout.layers ELSE 0 .. layout.layers + 2)
    BY <2>1 DEF AllLayers, ConfigurationType
  <2>3. LayersSavedOnce
    BY <2>1, <2>2, LayerSavers DEF LayersSavedOnce, Rank, Ranks
  <2>4. OptimizerSavedOnce
    BY <2>1, <2>2, OptimizerSavers DEF OptimizerSavedOnce, Rank, Ranks
  <2> QED
    BY <2>3, <2>4
<1> QED
  BY <1>1, LayoutStays, PTL

(* Of the parts of a finite set that are bad, if any are, one has no bad part with
   one element less: induction over finite sets. *)
LEMMA SmallestPart ==
  ASSUME NEW S, IsFiniteSet(S), NEW Bad \in SUBSET SUBSET S, Bad # {}
  PROVE  \E s \in Bad : \A x \in s : s \ {x} \notin Bad
<1>1. IsWellFoundedOn(StrictSubsetOrdering(S), SUBSET S)
  BY FS_StrictSubsetOrderingWellFounded, FS_FiniteSubsetsOfFinite
<1>2. PICK s \in Bad : \A t \in Bad : ~(<<t, s>> \in StrictSubsetOrdering(S))
  BY <1>1, WFMin
<1>3. ASSUME NEW x \in s, s \ {x} \in Bad PROVE FALSE
  <2>1. <<s \ {x}, s>> \in StrictSubsetOrdering(S)
    BY DEF StrictSubsetOrdering
  <2> QED
    BY <1>2, <1>3, <2>1
<1> QED
  BY <1>3

Picked(s) == CHOOSE x \in s : TRUE

IsSum(f, m, S) ==
  f = [s \in SUBSET S |-> IF s = {} THEN 0
                          ELSE LayerParameters(m, Picked(s)) + f[s \ {Picked(s)}]]

(* A sum of the community modules is a fold with a choice of elements. *)
LEMMA SumIs ==
  ASSUME NEW m, NEW S
  PROVE  LayerSum(m, S) = (CHOOSE f : IsSum(f, m, S))[S]
  BY DEF LayerSum, MapThenSumSet, MapThenFoldSet, Picked, IsSum

(* What some of the layers 0 .. n + 2 of a model have, where the embedding and lm_head
   have a parameters each, the last layer b and the others c *)
PartSum(a, b, c, n, s) ==
  a * Cardinality(s \cap {0, n + 1}) + b * Cardinality(s \cap {n + 2})
    + c * Cardinality(s \cap (1 .. n))

(* What one of them has *)
OneLayer(a, b, c, n, l) == IF l \in {0, n + 1} THEN a ELSE IF l = n + 2 THEN b ELSE c

(* Taking away a member leaves one less, taking away another element as many. *)
LEMMA Without ==
  ASSUME NEW s, IsFiniteSet(s), NEW t, NEW x \in s
  PROVE  /\ Cardinality(s \cap t) \in Nat /\ Cardinality((s \ {x}) \cap t) \in Nat
         /\ x \in t => Cardinality(s \cap t) = Cardinality((s \ {x}) \cap t) + 1
         /\ x \notin t => Cardinality(s \cap t) = Cardinality((s \ {x}) \cap t)
<1>1. IsFiniteSet(s \cap t)
  BY FS_Subset
<1>2. IsFiniteSet((s \ {x}) \cap t)
  BY FS_Subset
<1>3. Cardinality(s \cap t) \in Nat /\ Cardinality((s \ {x}) \cap t) \in Nat
  BY <1>1, <1>2, FS_CardinalityType
<1>4. ASSUME x \in t PROVE Cardinality(s \cap t) = Cardinality((s \ {x}) \cap t) + 1
  <2>1. (s \ {x}) \cap t = (s \cap t) \ {x}
    OBVIOUS
  <2>2. Cardinality((s \cap t) \ {x}) = Cardinality(s \cap t) - 1
    BY <1>1, <1>4, FS_RemoveElement
  <2> QED
    BY <1>3, <2>1, <2>2
<1>5. ASSUME x \notin t PROVE Cardinality(s \cap t) = Cardinality((s \ {x}) \cap t)
  <2>1. (s \ {x}) \cap t = s \cap t
    BY <1>5
  <2> QED
    BY <2>1
<1> QED
  BY <1>3, <1>4, <1>5

PartsAdd(a, b, c, n) ==
  \A s \in SUBSET (0 .. n + 2) : \A x \in s :
    PartSum(a, b, c, n, s) = OneLayer(a, b, c, n, x) + PartSum(a, b, c, n, s \ {x})

(* Each layer adds what it has. *)
LEMMA PartAdds ==
  ASSUME NEW a \in Nat, NEW b \in Nat, NEW c \in Nat, NEW n \in Nat
  PROVE  PartsAdd(a, b, c, n)
<1> SUFFICES ASSUME NEW s \in SUBSET (0 .. n + 2), NEW x \in s
             PROVE  PartSum(a, b, c, n, s)
                      = OneLayer(a, b, c, n, x) + PartSum(a, b, c, n, s \ {x})
  BY DEF PartsAdd
<1>1. IsFiniteSet(s)
  <2>1. IsFiniteSet(0 .. n + 2)
    BY FS_Interval
  <2> QED
    BY <2>1, FS_Subset
<1> DEFINE p(t) == Cardinality(t \cap {0, n + 1})
           q(t) == Cardinality(t \cap {n + 2})
           r(t) == Cardinality(t \cap (1 .. n))
<1>2. /\ p(s) \in Nat /\ p(s \ {x}) \in Nat /\ q(s) \in Nat /\ q(s \ {x}) \in Nat
      /\ r(s) \in Nat /\ r(s \ {x}) \in Nat
  BY <1>1, Without
<1>3. /\ x \in {0, n + 1} => p(s) = p(s \ {x}) + 1
      /\ x \notin {0, n + 1} => p(s) = p(s \ {x})
  BY <1>1, Without
<1>4. /\ x \in {n + 2} => q(s) = q(s \ {x}) + 1
      /\ x \notin {n + 2} => q(s) = q(s \ {x})
  BY <1>1, Without
<1>5. /\ x \in 1 .. n => r(s) = r(s \ {x}) + 1
      /\ x \notin 1 .. n => r(s) = r(s \ {x})
  <2>1. PICK t : t = 1 .. n
    OBVIOUS
  <2>2. /\ x \in t => Cardinality(s \cap t) = Cardinality((s \ {x}) \cap t) + 1
        /\ x \notin t => Cardinality(s \cap t) = Cardinality((s \ {x}) \cap t)
    BY <1>1, Without
  <2> QED
    BY <2>1, <2>2
<1>6. /\ PartSum(a, b, c, n, s) = a * p(s) + b * q(s) + c * r(s)
      /\ PartSum(a, b, c, n, s \ {x}) = a * p(s \ {x}) + b * q(s \ {x}) + c * r(s \ {x})
  BY DEF PartSum
<1>7. PICK P \in Nat, Q \in Nat, R \in Nat :
        P = p(s \ {x}) /\ Q = q(s \ {x}) /\ R = r(s \ {x})
  BY <1>2
<1>8. /\ a * (P + 1) = a * P + a /\ b * (Q + 1) = b * Q + b /\ c * (R + 1) = c * R + c
      /\ a * P \in Nat /\ b * Q \in Nat /\ c * R \in Nat
  BY <1>7
<1> HIDE DEF p, q, r
<1>9. CASE x \in {0, n + 1}
  <2>1. p(s) = P + 1 /\ q(s) = Q /\ r(s) = R
    BY <1>3, <1>4, <1>5, <1>7, <1>9
  <2> QED
    BY <1>6, <1>7, <1>8, <1>9, <2>1 DEF OneLayer
<1>10. CASE x = n + 2
  <2>1. p(s) = P /\ q(s) = Q + 1 /\ r(s) = R
    BY <1>3, <1>4, <1>5, <1>7, <1>10
  <2> QED
    BY <1>6, <1>7, <1>8, <1>10, <2>1 DEF OneLayer
<1>11. CASE x \in 1 .. n
  <2>1. p(s) = P /\ q(s) = Q /\ r(s) = R + 1
    BY <1>3, <1>4, <1>5, <1>7, <1>11
  <2> QED
    BY <1>6, <1>7, <1>8, <1>11, <2>1 DEF OneLayer
<1>12. x \in 0 .. n + 2
  OBVIOUS
<1> QED
  BY <1>9, <1>10, <1>11, <1>12

(* A sum over layers, each of which has what it should, is what they have. *)
LEMMA SumOfParts ==
  ASSUME NEW m, NEW a \in Nat, NEW b \in Nat, NEW c \in Nat, NEW n \in Nat,
         \A l : LayerParameters(m, l) = OneLayer(a, b, c, n, l)
  PROVE  LayerSum(m, 0 .. n + 2) = PartSum(a, b, c, n, 0 .. n + 2)
<1> DEFINE S == 0 .. n + 2
           g == [s \in SUBSET S |-> PartSum(a, b, c, n, s)]
<1>1. \A s \in SUBSET S : \A x \in s :
        PartSum(a, b, c, n, s) = OneLayer(a, b, c, n, x) + PartSum(a, b, c, n, s \ {x})
  <2>1. PartsAdd(a, b, c, n)
    BY PartAdds
  <2> QED
    BY <2>1 DEF PartsAdd
<1>2. PartSum(a, b, c, n, {}) = 0
  <2>1. /\ {} \cap {0, n + 1} = {} /\ {} \cap {n + 2} = {} /\ {} \cap (1 .. n) = {}
    OBVIOUS
  <2>2. Cardinality({}) = 0
    BY FS_EmptySet
  <2> QED
    BY <2>1, <2>2 DEF PartSum
<1>3. \A s \in SUBSET S :
        g[s] = IF s = {} THEN 0 ELSE LayerParameters(m, Picked(s)) + g[s \ {Picked(s)}]
  <2> SUFFICES ASSUME NEW s \in SUBSET S
               PROVE  g[s] = IF s = {} THEN 0
                             ELSE LayerParameters(m, Picked(s)) + g[s \ {Picked(s)}]
    OBVIOUS
  <2> HIDE DEF S
  <2>1. CASE s = {}
    BY <1>2, <2>1
  <2>2. CASE s # {}
    <3>1. Picked(s) \in s
      BY <2>2 DEF Picked
    <3>2. PICK x \in s : x = Picked(s)
      BY <3>1
    <3>3. PartSum(a, b, c, n, s) = OneLayer(a, b, c, n, x) + PartSum(a, b, c, n, s \ {x})
      BY <1>1
    <3>4. LayerParameters(m, x) = OneLayer(a, b, c, n, x)
      OBVIOUS
    <3>5. g[s] = PartSum(a, b, c, n, s) /\ g[s \ {x}] = PartSum(a, b, c, n, s \ {x})
      OBVIOUS
    <3> QED
      BY <2>2, <3>2, <3>3, <3>4, <3>5
  <2> QED
    BY <2>1, <2>2
<1>4. IsSum(g, m, S)
  <2>1. g = [s \in SUBSET S |-> g[s]]
    OBVIOUS
  <2> HIDE DEF g, S
  <2> QED
    BY <1>3, <2>1 DEF IsSum
<1>5. PICK f : IsSum(f, m, S) /\ LayerSum(m, S) = f[S]
  BY <1>4, SumIs
<1>6. IsFiniteSet(S)
  BY FS_Interval
<1>7. g[S] = PartSum(a, b, c, n, S)
  OBVIOUS
<1> DEFINE Bad == {s \in SUBSET S : f[s] # g[s]}
<1>8. ASSUME Bad # {} PROVE FALSE
  <2> HIDE DEF S, g
  <2>1. PICK s \in Bad : \A x \in s : s \ {x} \notin Bad
    BY <1>6, <1>8, SmallestPart
  <2>2. /\ f[s] = IF s = {} THEN 0 ELSE LayerParameters(m, Picked(s)) + f[s \ {Picked(s)}]
        /\ g[s] = IF s = {} THEN 0 ELSE LayerParameters(m, Picked(s)) + g[s \ {Picked(s)}]
    BY <1>4, <1>5 DEF IsSum
  <2>3. s # {}
    BY <2>2
  <2>4. Picked(s) \in s
    BY <2>3 DEF Picked
  <2>5. f[s \ {Picked(s)}] = g[s \ {Picked(s)}]
    BY <2>1, <2>4
  <2> QED
    BY <2>2, <2>3, <2>5
<1> QED
  BY <1>5, <1>7, <1>8

(* All the layers have twice a, b and n times c. *)
LEMMA AllLayersSum ==
  ASSUME NEW a \in Nat, NEW b \in Nat, NEW c \in Nat, NEW n \in Nat
  PROVE  PartSum(a, b, c, n, 0 .. n + 2) = a + a + b + n * c
<1> DEFINE S == 0 .. n + 2
<1>1. S \cap {0, n + 1} = {0, n + 1} /\ S \cap {n + 2} = {n + 2} /\ S \cap (1 .. n) = 1 .. n
  OBVIOUS
<1>2. Cardinality({n + 2}) = 1
  BY FS_Singleton
<1>3. Cardinality(1 .. n) = n
  BY FS_Interval
<1>4. Cardinality({0, n + 1}) = 2
  <2>1. IsFiniteSet({n + 1}) /\ Cardinality({n + 1}) = 1
    BY FS_Singleton
  <2>2. {0, n + 1} = {n + 1} \cup {0} /\ 0 \notin {n + 1}
    OBVIOUS
  <2>3. Cardinality({n + 1} \cup {0}) = Cardinality({n + 1}) + 1
    BY <2>1, <2>2, FS_AddElement
  <2> QED
    BY <2>1, <2>2, <2>3
<1>5. PartSum(a, b, c, n, S) = a * 2 + b * 1 + c * n
  BY <1>1, <1>2, <1>3, <1>4 DEF PartSum
<1>6. c * n = n * c /\ c * n \in Nat
  OBVIOUS
<1> QED
  BY <1>5, <1>6

(* The parameters of the layers of a model add up to those of the model. *)
LEMMA LayersAddUp ==
  ASSUME NEW m \in [hidden: Nat, heads: Nat \ {0}, kvHeads: Nat, vocab: Nat, ffn: Nat,
                    layers: Nat]
  PROVE  LayerSum(m, 0 .. m.layers + 2) = NumParameters(m)
<1>1. PICK kv \in Nat : kv = DimKV(m)
  BY DEF DimKV
<1>2. PICK a \in Nat, b \in Nat, c \in Nat :
        /\ a = m.hidden * m.vocab /\ b = m.hidden
        /\ c = 2 * m.hidden + m.hidden * (m.hidden + 2 * kv) + m.hidden * m.hidden
                 + 3 * m.hidden * m.ffn
  <2>1. m.hidden * m.vocab \in Nat /\ m.hidden \in Nat
    OBVIOUS
  <2>2. 2 * m.hidden + m.hidden * (m.hidden + 2 * kv) + m.hidden * m.hidden
          + 3 * m.hidden * m.ffn \in Nat
    BY <1>1
  <2> QED
    BY <2>1, <2>2
<1>3. PICK n \in Nat : n = m.layers
  OBVIOUS
<1>4. \A l : LayerParameters(m, l) = OneLayer(a, b, c, n, l)
  BY <1>1, <1>2, <1>3 DEF LayerParameters, OneLayer
<1>5. NumParameters(m) = a + a + b + n * c
  <2>1. 2 * m.ffn * m.hidden + m.ffn * m.hidden = 3 * m.hidden * m.ffn
    <3>1. PICK h \in Nat, f \in Nat : h = m.hidden /\ f = m.ffn
      OBVIOUS
    <3>2. 2 * f * h + f * h = 3 * h * f
      BY <3>1
    <3> QED
      BY <3>1, <3>2
  <2>2. 2 * m.hidden + m.hidden * (m.hidden + 2 * kv) + m.hidden * m.hidden
          + 2 * m.ffn * m.hidden + m.ffn * m.hidden = c
    <3>1. PICK h \in Nat, f \in Nat : h = m.hidden /\ f = m.ffn
      OBVIOUS
    <3> QED
      BY <1>1, <1>2, <2>1, <3>1
  <2>3. 2 * m.vocab * m.hidden = a + a
    <3>1. PICK h \in Nat, v \in Nat : h = m.hidden /\ v = m.vocab
      OBVIOUS
    <3> QED
      BY <1>2, <3>1
  <2> QED
    BY <1>1, <1>2, <1>3, <2>2, <2>3 DEF NumParameters
<1>6. LayerSum(m, 0 .. n + 2) = PartSum(a, b, c, n, 0 .. n + 2)
  BY <1>4, SumOfParts
<1> QED
  BY <1>3, <1>5, <1>6, AllLayersSum

(* A full checkpoint holds the whole model once, and the optimizer state: each part
   once, or predefined groups whole in the file of every rank that saves; and its
   layers have as many parameters as the model that the optimizer state and the report
   are computed from (base_checkpointing.py 284-329, 340-382, 394-418). *)
THEOREM ModelSavedWhole == Spec => [](WholeModel /\ SavedOnce)
<1>1. ASSUME layout \in Layouts, layout.layers > 0, ~layout.predefined
      PROVE  ParametersAddUp
  <2>1. layout.layers \in Nat
    BY <1>1, StoreAssumption DEF ConfigurationType
  <2>2. AllLayers = 0 .. layout.layers + 2
    BY <1>1 DEF AllLayers
  <2>3. ASSUME NEW sizes \in Models,
               NEW m,
               m = [hidden |-> sizes.hidden, heads |-> sizes.heads,
                    kvHeads |-> sizes.kvHeads, vocab |-> sizes.vocab, ffn |-> sizes.ffn,
                    layers |-> layout.layers]
        PROVE  LayerSum(m, AllLayers) = NumParameters(m)
    <3>1. m \in [hidden: Nat, heads: Nat \ {0}, kvHeads: Nat, vocab: Nat, ffn: Nat,
                 layers: Nat]
      BY <2>1, <2>3, StoreAssumption
    <3>2. m.layers = layout.layers
      BY <2>3
    <3>3. LayerSum(m, 0 .. m.layers + 2) = NumParameters(m)
      BY <3>1, LayersAddUp
    <3> QED
      BY <2>2, <3>2, <3>3
  <2> QED
    BY <2>3 DEF ParametersAddUp
<1>2. ModelSavedOnce /\ layout \in Layouts => WholeModel /\ SavedOnce
  BY <1>1 DEF WholeModel, SavedOnce
<1> QED
  BY <1>2, WholeModelSaved, LayoutStays, PTL

-------------------------------------------------------------------------------
(* The inductive invariant *)

(* Where a rank can be, by its number of checkpoints; all ranks are on or off. *)
PlacesAgree ==
  \A r \in Rank :
    /\ pc[r] = "off" => at[r] = 0 /\ \A q \in Rank : pc[q] = "off"
    /\ pc[r] \in {"save", "stream"} => at[r] \in 1 .. Writes
    /\ pc[r] = "barrier" => at[r] >= 1
    /\ pc[r] \in {"few", "missed", "counted"} => at[r] = Writes
    /\ pc[r] = "ended" => at[r] = Writes + Reads
    /\ pc[r] \in {"load", "failed"} =>
         at[r] > Writes /\ \A q \in Rank : at[q] >= at[r]

Finished(r, n) == at[r] > n \/ (at[r] = n /\ pc[r] \notin {"barrier", "save", "stream"})

Stored(id, part) ==
  NameOf(id, part) \in DOMAIN store /\ store[NameOf(id, part)] = Written(Chunks)

(* Rank r has written its part p of checkpoint n. *)
Through(r, n, p) ==
  Finished(r, n) \/ (at[r] = n /\ pc[r] \in {"save", "stream"} /\ p \notin todo[r])

(* What a rank has written is there and whole, and is this job's. *)
WrittenThere ==
  \A r \in Rank : \A n \in 1 .. Writes : \A p \in Saved(layout, r) :
    Through(r, n, p) => Stored(Id(n), p)

Begun(id) == \E n \in 1 .. Writes : Id(n) = id /\ \E r \in Rank : at[r] >= n

Full(id) == \E k \in 1 .. jobs : CheckpointOf(k, id)

(* Two files of one checkpoint, of one extension, by jobs of one layout *)
Alike(a, b) ==
  /\ a[1] = b[1] /\ a[3] = b[3]
  /\ ran[store[a].job].layout = ran[store[b].job].layout

(* What this job has not begun to write is as earlier jobs have left it, and so is
   what it has not yet replaced of what it has begun. *)
OthersSettled ==
  ~killed =>
    /\ \A a, b \in DOMAIN store :
         /\ Alike(a, b)
         /\ ~Begun(a[1]) \/ (store[a].job # jobs /\ store[b].job # jobs)
         => store[a].job = store[b].job
    /\ \A id \in nodes \ phantom : ~Begun(id) => Full(id)

StoreInv == TypeOK /\ PlacesAgree /\ WrittenThere /\ OthersSettled

-------------------------------------------------------------------------------
(* The workload *)

(* The numbers of checkpoints and of writes of a workload *)
LEMMA WorkFacts ==
  ASSUME work \in WorkloadType
  PROVE  Writes \in Nat /\ Reads \in Nat /\ Chunks \in Nat \ {0}
<1>1. work.train \in Seq(Nat \X Nat) /\ work.writes \in Nat /\ work.reads \in Nat
      /\ work.scale \in Nat \ {0}
  BY DEF WorkloadType
<1>2. Len(work.train) \in Nat
  BY <1>1, LenProperties
<1> QED
  BY <1>1, <1>2 DEF Writes, Reads, Chunks

(* No two writes of a job have the same name. *)
LEMMA IdInjective ==
  ASSUME work \in WorkloadType, NEW n \in 1 .. Writes, NEW m \in 1 .. Writes, Id(n) = Id(m)
  PROVE  n = m
<1>1. CASE Training
  <2>1. work.train \in Seq(Nat \X Nat)
        /\ \A i, j \in DOMAIN work.train : work.train[i] = work.train[j] => i = j
    BY DEF WorkloadType
  <2>2. n \in DOMAIN work.train /\ m \in DOMAIN work.train
    BY <1>1, <2>1, LenProperties DEF Writes
  <2> QED
    BY <1>1, <2>1, <2>2 DEF Id
<1>2. CASE ~Training
  BY <1>2, WorkFacts DEF Id
<1> QED
  BY <1>1, <1>2

(* Only a checkpoint-only job reads, and the n-th checkpoint it has written. *)
LEMMA IdOfRead ==
  ASSUME work \in WorkloadType, NEW n \in Nat, n > Writes, n <= Writes + Reads
  PROVE  ~Training /\ n - Writes \in 1 .. Reads /\ Id(n) = <<1, n - Writes>>
<1>1. ~Training
  BY WorkFacts DEF Reads
<1> QED
  BY <1>1, WorkFacts DEF Id

(* What a step within a job leaves alone *)
LEMMA SameJob ==
  ASSUME UNCHANGED <<layout, job>>
  PROVE  /\ Rank' = Rank /\ Writes' = Writes /\ Reads' = Reads /\ Chunks' = Chunks
         /\ Training' = Training
         /\ \A n : Id(n)' = Id(n)
         /\ \A c : Written(c)' = Written(c)
         /\ jobs' = jobs /\ ran' = ran /\ work' = work
         /\ \A id, p : NameOf(id, p)' = NameOf(id, p)
  BY DEF Rank, Ranks, Writes, Reads, Chunks, Training, Id, Written, job, jobs, NameOf

(* The parts of a checkpoint and their files are in step. *)
LEMMA SameFile ==
  ASSUME layout \in Layouts, NEW r \in Rank, NEW q \in Rank,
         NEW w \in Saved(layout, r), NEW v \in Saved(layout, q), w.file = v.file
  PROVE  r = q /\ w = v
<1>1. layout \in ConfigurationType /\ r \in Nat /\ q \in Nat
  BY StoreAssumption DEF Rank, Ranks, ConfigurationType
<1>2. r = q
  BY <1>1, DistinctFiles
<1>3. w = v
  BY <1>2 DEF Saved, SavedModelState, SavedModel, SavedOptimizer
<1> QED
  BY <1>2, <1>3

-------------------------------------------------------------------------------
(* Every step keeps the invariant *)

AllParts == UNION {Saved(layout, r) : r \in Rank}

(* The files are of ranks of the jobs that have written them. *)
FilesOfJobs ==
  \A name \in DOMAIN store :
    LET k == store[name].job
    IN  /\ k \in 1 .. jobs
        /\ \E r \in Ranks(ran[k].layout) : \E p \in Saved(ran[k].layout, r) :
             name = <<name[1], p.file, Ext(ran[k].tf)>>

(* A job that has begun is the last of those that have. *)
JobsAgree ==
  /\ ran \in Seq([layout: Layouts, scale: Nat \ {0}, tf: BOOLEAN])
  /\ jobs > 0 => ran[jobs] = [layout |-> layout, scale |-> work.scale, tf |-> work.tf]

(* The part of TypeOK about the ranks *)
RanksTyped ==
  /\ layout \in Layouts /\ storage \in Storages /\ work \in WorkloadType
  /\ pc \in [Rank -> Places]
  /\ at \in [Rank -> Nat]
  /\ todo \in [Rank -> SUBSET UNION {Saved(layout, r) : r \in Rank}]
  /\ \A r \in Rank : /\ at[r] <= Writes + Reads /\ todo[r] \subseteq Saved(layout, r)
                     /\ pc[r] # "off" => jobs > 0
  /\ phantom \subseteq nodes

(* The types, in parts *)
LEMMA TypeParts == TypeOK <=> RanksTyped /\ JobsAgree /\ FilesOfJobs
  BY DEF TypeOK, RanksTyped, JobsAgree, FilesOfJobs

(* The types hold at the start. *)
LEMMA TypeInit == Init => TypeOK
<1> SUFFICES ASSUME Init PROVE TypeOK
  OBVIOUS
<1>1. work \in WorkloadType
  BY StoreAssumption DEF Init
<1>2. Writes \in Nat /\ Reads \in Nat
  BY <1>1, WorkFacts
<1>3. ran \in Seq([layout: Layouts, scale: Nat \ {0}, tf: BOOLEAN]) /\ jobs = 0
  BY EmptySeq DEF Init, jobs
<1>4. JobsAgree
  BY <1>3 DEF JobsAgree
<1>5. FilesOfJobs
  BY DEF Init, FilesOfJobs
<1>6. RanksTyped
  BY <1>1, <1>2 DEF Init, RanksTyped, Places
<1> QED
  BY <1>4, <1>5, <1>6, TypeParts

(* The types after a step, in parts *)
LEMMA TypePartsNext ==
  ASSUME RanksTyped', JobsAgree', FilesOfJobs' PROVE TypeOK'
  BY DEF TypeOK, RanksTyped, JobsAgree, FilesOfJobs

(* What the last job writes, and the names it writes to *)
LEMMA LastJob ==
  ASSUME TypeOK, jobs > 0
  PROVE  /\ jobs \in Nat /\ jobs \in 1 .. jobs
         /\ ran[jobs].layout = layout /\ ran[jobs].scale = Chunks /\ ran[jobs].tf = work.tf
<1>1. jobs \in Nat
  BY LenProperties DEF TypeOK, jobs
<1>2. ran[jobs] = [layout |-> layout, scale |-> work.scale, tf |-> work.tf]
  BY DEF TypeOK
<1> QED
  BY <1>1, <1>2 DEF Chunks

(* A file that a rank writes is one of its parts. *)
LEMMA PutTyped ==
  ASSUME TypeOK, NEW r \in Rank, NEW part \in Saved(layout, r), NEW c, pc[r] # "off",
         store' = Put(store, Name(r, part), Written(c)), UNCHANGED <<layout, job>>
  PROVE  JobsAgree' /\ FilesOfJobs'
<1>1. DOMAIN store' = DOMAIN store \cup {Name(r, part)}
      /\ store'[Name(r, part)] = Written(c)
      /\ \A x \in DOMAIN store : x # Name(r, part) => store'[x] = store[x]
  BY DEF Put
<1>2. jobs' = jobs /\ ran' = ran /\ work' = work
  BY SameJob
<1>3. jobs > 0
  BY DEF TypeOK
<1>4. JobsAgree'
  BY <1>2 DEF TypeOK, JobsAgree
<1>5. ASSUME NEW name \in DOMAIN store', NEW k, k = store'[name].job
      PROVE  /\ k \in 1 .. jobs
             /\ \E q \in Ranks(ran[k].layout) : \E p \in Saved(ran[k].layout, q) :
                  name = <<name[1], p.file, Ext(ran[k].tf)>>
  <2>1. CASE name = Name(r, part)
    <3>1. k = jobs
      BY <1>1, <1>5, <2>1 DEF Written
    <3>2. k \in 1 .. jobs /\ ran[k].layout = layout /\ ran[k].tf = work.tf
      BY <1>3, <3>1, LastJob
    <3>3. name = <<name[1], part.file, Ext(work.tf)>>
      BY <2>1 DEF Name, NameOf
    <3>4. r \in Ranks(layout)
      BY DEF Rank
    <3> QED
      BY <3>2, <3>3, <3>4
  <2>2. CASE name # Name(r, part)
    <3>1. name \in DOMAIN store /\ k = store[name].job
      BY <1>1, <1>5, <2>2
    <3> QED
      BY <3>1 DEF TypeOK
  <2> QED
    BY <2>1, <2>2
<1>6. FilesOfJobs'
  BY <1>2, <1>5 DEF FilesOfJobs
<1> QED
  BY <1>4, <1>6

(* A step that writes nothing and begins no job leaves the files typed. *)
LEMMA FilesKept ==
  ASSUME TypeOK, UNCHANGED <<layout, job, store>>
  PROVE  JobsAgree' /\ FilesOfJobs'
<1>1. jobs' = jobs /\ ran' = ran /\ work' = work
  BY SameJob
<1> QED
  BY <1>1 DEF TypeOK, JobsAgree, FilesOfJobs

(* Every step keeps the types. *)
LEMMA TypeNext == TypeOK /\ PlacesAgree /\ [Next]_vars => TypeOK'
<1> SUFFICES ASSUME TypeOK, PlacesAgree, [Next]_vars PROVE TypeOK'
  OBVIOUS
<1>1. Writes \in Nat /\ Reads \in Nat
  BY WorkFacts DEF TypeOK
<1>0. RanksTyped
  BY TypeParts
<1>2. CASE StartJob
  <2>1. PICK c \in Simulated, w \in Workloads :
          /\ layout' = c /\ work' = w
          /\ ran' = Append(ran, [layout |-> c, scale |-> w.scale, tf |-> w.tf])
          /\ pc' = [r \in Ranks(c) |-> "next"]
          /\ at' = [r \in Ranks(c) |-> 0]
          /\ todo' = [r \in Ranks(c) |-> {}]
    BY <1>2 DEF StartJob
  <2>2. w \in WorkloadType /\ c \in Layouts /\ Rank' = Ranks(c)
    BY <2>1, StoreAssumption DEF Rank
  <2>3. Writes' \in Nat /\ Reads' \in Nat
    <3>1. w.train \in Seq(Nat \X Nat) /\ w.writes \in Nat /\ w.reads \in Nat
      BY <2>2 DEF WorkloadType
    <3>2. Len(w.train) \in Nat
      BY <3>1, LenProperties
    <3> QED
      BY <2>1, <3>1, <3>2 DEF Writes, Reads, Training
  <2>4. PICK e : e = [layout |-> c, scale |-> w.scale, tf |-> w.tf]
    OBVIOUS
  <2>5. e \in [layout: Layouts, scale: Nat \ {0}, tf: BOOLEAN]
    BY <2>2, <2>4 DEF WorkloadType
  <2>6. ran \in Seq([layout: Layouts, scale: Nat \ {0}, tf: BOOLEAN]) /\ jobs \in Nat
    BY LenProperties DEF TypeOK, jobs
  <2>7. /\ ran' \in Seq([layout: Layouts, scale: Nat \ {0}, tf: BOOLEAN])
        /\ jobs' = jobs + 1 /\ ran'[jobs + 1] = e
        /\ \A k \in 1 .. jobs : ran'[k] = ran[k]
    BY <2>1, <2>4, <2>5, <2>6, AppendProperties DEF jobs
  <2>8. JobsAgree'
    BY <2>1, <2>4, <2>7 DEF JobsAgree
  <2>9. FilesOfJobs'
    <3>1. store' = store
      BY <1>2 DEF StartJob
    <3>2. ASSUME NEW name \in DOMAIN store, NEW k, k = store[name].job
          PROVE  /\ k \in 1 .. jobs' /\ ran'[k] = ran[k]
                 /\ \E r \in Ranks(ran[k].layout) : \E p \in Saved(ran[k].layout, r) :
                      name = <<name[1], p.file, Ext(ran[k].tf)>>
      <4>1. /\ k \in 1 .. jobs
            /\ \E r \in Ranks(ran[k].layout) : \E p \in Saved(ran[k].layout, r) :
                 name = <<name[1], p.file, Ext(ran[k].tf)>>
        BY <3>2 DEF TypeOK
      <4> QED
        BY <2>6, <2>7, <4>1
    <3> QED
      BY <3>1, <3>2 DEF FilesOfJobs
  <2>10. RanksTyped'
    <3>1. UNCHANGED <<storage, nodes, phantom>>
      BY <1>2 DEF StartJob
    <3>2. jobs' > 0
      BY <2>6, <2>7
    <3> QED
      BY <1>0, <2>1, <2>2, <2>3, <3>1, <3>2 DEF RanksTyped, Places
  <2> QED
    BY <2>8, <2>9, <2>10, TypePartsNext
<1>3. ASSUME NEW r \in Rank, CountCheckpoints(r) PROVE TypeOK'
  <2>1. RanksTyped'
    BY <1>0, <1>3, SameJob DEF CountCheckpoints, Goto, RanksTyped, Places, job
  <2> QED
    BY <1>3, <2>1, FilesKept, TypePartsNext DEF CountCheckpoints, job
<1>4. ASSUME NEW r \in Rank, NextCheckpoint(r) PROVE TypeOK'
  <2>1. RanksTyped'
    BY <1>0, <1>1, <1>4, SameJob DEF NextCheckpoint, Goto, RanksTyped, Places, job
  <2> QED
    BY <1>4, <2>1, FilesKept, TypePartsNext DEF NextCheckpoint, job
<1>5. ASSUME NEW r \in Rank, StartCheckpoint(r) PROVE TypeOK'
  <2>1. RanksTyped'
    BY <1>0, <1>5, SameJob DEF StartCheckpoint, Goto, RanksTyped, Places, job
  <2> QED
    BY <1>5, <2>1, FilesKept, TypePartsNext DEF StartCheckpoint, job
<1>6. ASSUME NEW r \in Rank, EndCheckpoint(r) PROVE TypeOK'
  <2>1. RanksTyped'
    BY <1>0, <1>6, SameJob DEF EndCheckpoint, Goto, RanksTyped, Places, job
  <2> QED
    BY <1>6, <2>1, FilesKept, TypePartsNext DEF EndCheckpoint, job
<1>7. ASSUME NEW r \in Rank, OpenFile(r) PROVE TypeOK'
  <2>1. PICK part \in todo[r] : store' = Put(store, Name(r, part), Written(0))
    BY <1>7 DEF OpenFile, FirstOf
  <2>2. part \in Saved(layout, r) /\ pc[r] # "off" /\ UNCHANGED <<layout, job>>
    BY <1>7, <2>1 DEF TypeOK, OpenFile, job
  <2>3. RanksTyped'
    BY <1>0, <1>7, SameJob DEF OpenFile, Goto, RanksTyped, Places, job
  <2> QED
    BY <2>1, <2>2, <2>3, PutTyped, TypePartsNext
<1>8. ASSUME NEW r \in Rank, WriteChunk(r) PROVE TypeOK'
  <2>1. PICK part \in todo[r] :
          LET chunks == store[Name(r, part)].chunks + 1
          IN  /\ store' = Put(store, Name(r, part), Written(chunks))
              /\ \/ todo' = [todo EXCEPT ![r] = @ \ {part}] /\ Goto(r, "save")
                 \/ UNCHANGED <<todo, pc>>
    BY <1>8 DEF WriteChunk, FirstOf
  <2>2. part \in Saved(layout, r) /\ pc[r] # "off" /\ UNCHANGED <<layout, job>>
    BY <1>8, <2>1 DEF TypeOK, WriteChunk, job
  <2>3. RanksTyped'
    BY <1>0, <1>8, <2>1, SameJob DEF WriteChunk, Goto, RanksTyped, Places, job
  <2> QED
    BY <2>1, <2>2, <2>3, PutTyped, TypePartsNext
<1>9. ASSUME NEW r \in Rank, SaveWhole(r) PROVE TypeOK'
  <2>1. PICK part \in todo[r] :
          /\ store' = Put(store, Name(r, part), Written(Chunks))
          /\ todo' = [todo EXCEPT ![r] = @ \ {part}]
    BY <1>9 DEF SaveWhole, FirstOf
  <2>2. part \in Saved(layout, r) /\ pc[r] # "off" /\ UNCHANGED <<layout, job>>
    BY <1>9, <2>1 DEF TypeOK, SaveWhole, job
  <2>3. RanksTyped'
    BY <1>0, <1>9, <2>1, SameJob DEF SaveWhole, RanksTyped, Places, job
  <2> QED
    BY <2>1, <2>2, <2>3, PutTyped, TypePartsNext
<1>10. ASSUME NEW r \in Rank, LoadPart(r) PROVE TypeOK'
  <2>1. \/ \E part \in todo[r] : todo' = [todo EXCEPT ![r] = @ \ {part}] /\ UNCHANGED pc
        \/ Goto(r, "failed") /\ UNCHANGED todo
    BY <1>10 DEF LoadPart, FirstOf
  <2>2. RanksTyped'
    BY <1>0, <1>10, <2>1, SameJob DEF LoadPart, Goto, RanksTyped, Places, job
  <2> QED
    BY <1>10, <2>2, FilesKept, TypePartsNext DEF LoadPart, job
<1>11. CASE FinishJob
  <2>1. RanksTyped'
    BY <1>0, <1>1, <1>11, SameJob DEF FinishJob, RanksTyped, Places, job
  <2> QED
    BY <1>11, <2>1, FilesKept, TypePartsNext DEF FinishJob, job
<1>12. CASE Kill
  <2>1. RanksTyped'
    BY <1>0, <1>1, <1>12, SameJob DEF Kill, RanksTyped, Places, job
  <2> QED
    BY <1>12, <2>1, FilesKept, TypePartsNext DEF Kill, job
<1>13. CASE UNCHANGED vars
  <2>1. RanksTyped'
    BY <1>0, <1>13, SameJob DEF vars, RanksTyped, Places, job
  <2> QED
    BY <1>13, <2>1, FilesKept, TypePartsNext DEF vars, job
<1> QED
  BY <1>2, <1>3, <1>4, <1>5, <1>6, <1>7, <1>8, <1>9, <1>10, <1>11, <1>12, <1>13 DEF Next

(* No job runs at the start. *)
LEMMA PlacesInit == Init => PlacesAgree
  BY DEF Init, PlacesAgree

(* A step of one rank, to a place that PlacesAgree allows at its n-th checkpoint *)
Moves(r, p, n) ==
  /\ pc[r] # "off" /\ p \in Places \ {"off"} /\ n \in Nat /\ n >= at[r]
  /\ UNCHANGED <<layout, job>>
  /\ pc' = [pc EXCEPT ![r] = p] /\ at' = [at EXCEPT ![r] = n]
  /\ p \in {"save", "stream"} => n \in 1 .. Writes
  /\ p = "barrier" => n >= 1
  /\ p \in {"few", "missed", "counted"} => n = Writes
  /\ p = "ended" => n = Writes + Reads
  /\ p \in {"load", "failed"} => n > Writes /\ \A q \in Rank : at[q] >= n

(* One rank's step to such a place keeps all ranks at allowed places. *)
LEMMA PlaceOfOne ==
  ASSUME TypeOK, PlacesAgree, NEW r \in Rank, NEW p, NEW n, Moves(r, p, n)
  PROVE  PlacesAgree'
<1>1. Rank' = Rank /\ Writes' = Writes /\ Reads' = Reads /\ Writes \in Nat /\ Reads \in Nat
  BY SameJob, WorkFacts DEF TypeOK, Moves
<1>2. \A q \in Rank : pc[q] # "off"
  BY DEF PlacesAgree, Moves
<1>3. \A q \in Rank : at[q] \in Nat /\ at'[q] \in Nat /\ at'[q] >= at[q]
                       /\ at'[q] = IF q = r THEN n ELSE at[q]
  BY DEF TypeOK, Moves
<1>4. \A q \in Rank : pc'[q] = IF q = r THEN p ELSE pc[q]
  BY DEF TypeOK, Moves
<1> SUFFICES ASSUME NEW q \in Rank
             PROVE  /\ pc'[q] # "off"
                    /\ pc'[q] \in {"save", "stream"} => at'[q] \in 1 .. Writes
                    /\ pc'[q] = "barrier" => at'[q] >= 1
                    /\ pc'[q] \in {"few", "missed", "counted"} => at'[q] = Writes
                    /\ pc'[q] = "ended" => at'[q] = Writes + Reads
                    /\ pc'[q] \in {"load", "failed"} =>
                         at'[q] > Writes /\ \A s \in Rank : at'[s] >= at'[q]
  BY <1>1 DEF PlacesAgree
<1>5. CASE q = r
  <2>1. p \in {"load", "failed"} => n > Writes /\ \A s \in Rank : at'[s] >= n
    BY <1>1, <1>3 DEF Moves
  <2> QED
    BY <1>1, <1>3, <1>4, <1>5, <2>1 DEF Moves
<1>6. CASE q # r
  <2>1. pc[q] \in {"load", "failed"} => at[q] > Writes /\ \A s \in Rank : at'[s] >= at[q]
    BY <1>1, <1>3 DEF PlacesAgree
  <2>2. pc'[q] = pc[q] /\ at'[q] = at[q]
    BY <1>3, <1>4, <1>6
  <2> QED
    BY <1>1, <1>2, <2>1, <2>2 DEF PlacesAgree
<1> QED
  BY <1>5, <1>6

(* Every step keeps the ranks at the places their checkpoints allow. *)
LEMMA PlacesNext == TypeOK /\ PlacesAgree /\ [Next]_vars => PlacesAgree'
<1> SUFFICES ASSUME TypeOK, PlacesAgree, [Next]_vars PROVE PlacesAgree'
  OBVIOUS
<1>1. Writes \in Nat /\ Reads \in Nat
  BY WorkFacts DEF TypeOK
<1>2. \A r \in Rank : /\ at[r] \in Nat /\ at = [at EXCEPT ![r] = at[r]]
                       /\ at[r] <= Writes + Reads
  BY DEF TypeOK
<1>3. CASE StartJob
  <2>1. PICK c \in Simulated :
          layout' = c /\ pc' = [r \in Ranks(c) |-> "next"] /\ at' = [r \in Ranks(c) |-> 0]
    BY <1>3 DEF StartJob
  <2>2. Rank' = Ranks(c)
    BY <2>1 DEF Rank
  <2> QED
    BY <2>1, <2>2 DEF PlacesAgree
<1>4. CASE FinishJob \/ Kill
  <2>1. Rank' = Rank
    BY <1>4 DEF FinishJob, Kill, Rank
  <2> QED
    BY <1>4, <2>1 DEF FinishJob, Kill, PlacesAgree
<1>5. ASSUME NEW r \in Rank, CountCheckpoints(r) PROVE PlacesAgree'
  <2>1. PICK p \in {"few", "missed", "counted"} : pc' = [pc EXCEPT ![r] = p]
    BY <1>5 DEF CountCheckpoints, Goto
  <2>2. Moves(r, p, at[r])
    BY <1>2, <1>5, <2>1 DEF CountCheckpoints, Moves, Places, job
  <2> QED
    BY <2>2, PlaceOfOne
<1>6. ASSUME NEW r \in Rank, NextCheckpoint(r) PROVE PlacesAgree'
  <2>1. CASE at[r] = Writes + Reads
    <3>1. Moves(r, "ended", at[r])
      BY <1>2, <1>6, <2>1 DEF NextCheckpoint, Goto, Moves, Places, job
    <3> QED
      BY <3>1, PlaceOfOne
  <2>2. CASE at[r] # Writes + Reads
    <3>1. Moves(r, "barrier", at[r] + 1)
      BY <1>2, <1>6, <2>2 DEF NextCheckpoint, Goto, Moves, Places, job
    <3> QED
      BY <3>1, PlaceOfOne
  <2> QED
    BY <2>1, <2>2
<1>7. ASSUME NEW r \in Rank, StartCheckpoint(r) PROVE PlacesAgree'
  <2>1. at[r] >= 1 /\ \A q \in Rank : at[q] >= at[r]
    BY <1>7 DEF StartCheckpoint, PlacesAgree, Met
  <2>2. CASE Saving(r)
    <3>1. Moves(r, "save", at[r])
      BY <1>1, <1>2, <1>7, <2>1, <2>2 DEF StartCheckpoint, Goto, Saving, Moves, Places, job
    <3> QED
      BY <3>1, PlaceOfOne
  <2>3. CASE ~Saving(r)
    <3>1. Moves(r, "load", at[r])
      BY <1>1, <1>2, <1>7, <2>1, <2>3 DEF StartCheckpoint, Goto, Saving, Moves, Places, job
    <3> QED
      BY <3>1, PlaceOfOne
  <2> QED
    BY <2>2, <2>3
<1>8. ASSUME NEW r \in Rank, EndCheckpoint(r) PROVE PlacesAgree'
  <2>1. PICK p \in {"saved", "next"} : pc' = [pc EXCEPT ![r] = p]
    BY <1>8 DEF EndCheckpoint, Goto
  <2>2. Moves(r, p, at[r])
    BY <1>2, <1>8, <2>1 DEF EndCheckpoint, Moves, Places, job
  <2> QED
    BY <2>2, PlaceOfOne
<1>9. ASSUME NEW r \in Rank, OpenFile(r) PROVE PlacesAgree'
  <2>1. Moves(r, "stream", at[r])
    BY <1>2, <1>9 DEF OpenFile, Goto, PlacesAgree, Moves, Places, job
  <2> QED
    BY <2>1, PlaceOfOne
<1>10. ASSUME NEW r \in Rank, WriteChunk(r) PROVE PlacesAgree'
  <2>1. pc' = [pc EXCEPT ![r] = "save"] \/ UNCHANGED pc
    BY <1>10 DEF WriteChunk, Goto
  <2>2. CASE pc' = [pc EXCEPT ![r] = "save"]
    <3>1. Moves(r, "save", at[r])
      BY <1>2, <1>10, <2>2 DEF WriteChunk, PlacesAgree, Moves, Places, job
    <3> QED
      BY <3>1, PlaceOfOne
  <2>3. CASE UNCHANGED pc
    BY <1>10, <2>3, SameJob DEF WriteChunk, PlacesAgree, job
  <2> QED
    BY <2>1, <2>2, <2>3
<1>11. ASSUME NEW r \in Rank, SaveWhole(r) PROVE PlacesAgree'
  BY <1>11, SameJob DEF SaveWhole, PlacesAgree, job
<1>12. ASSUME NEW r \in Rank, LoadPart(r) PROVE PlacesAgree'
  <2>1. pc' = [pc EXCEPT ![r] = "failed"] \/ UNCHANGED pc
    BY <1>12 DEF LoadPart, Goto
  <2>2. CASE pc' = [pc EXCEPT ![r] = "failed"]
    <3>1. Moves(r, "failed", at[r])
      BY <1>2, <1>12, <2>2 DEF LoadPart, PlacesAgree, Moves, Places, job
    <3> QED
      BY <3>1, PlaceOfOne
  <2>3. CASE UNCHANGED pc
    BY <1>12, <2>3, SameJob DEF LoadPart, PlacesAgree, job
  <2> QED
    BY <2>1, <2>2, <2>3
<1>13. CASE UNCHANGED vars
  BY <1>13, SameJob DEF vars, PlacesAgree, job
<1> QED
  BY <1>3, <1>4, <1>5, <1>6, <1>7, <1>8, <1>9, <1>10, <1>11, <1>12, <1>13 DEF Next

-------------------------------------------------------------------------------
(* What has been written stays. *)

(* A step that writes nothing keeps what is stored. *)
LEMMA StoredStays ==
  ASSUME UNCHANGED <<layout, job, store>>, NEW n, NEW p, Stored(Id(n), p)
  PROVE  Stored(Id(n), p)'
<1>1. Id(n)' = Id(n) /\ Written(Chunks)' = Written(Chunks) /\ NameOf(Id(n), p)' = NameOf(Id(n), p)
  BY SameJob DEF Written, NameOf
<1> QED
  BY <1>1 DEF Stored

(* Writing a part that is left does not touch one that is written. *)
LEMMA StoredBeside ==
  ASSUME TypeOK, WrittenThere, NEW r \in Rank, NEW part \in todo[r], NEW v,
         at[r] \in 1 .. Writes, pc[r] \in {"save", "stream"},
         store' = Put(store, Name(r, part), v), UNCHANGED <<layout, job>>,
         NEW q \in Rank, NEW n \in 1 .. Writes, NEW p \in Saved(layout, q), Through(q, n, p)
  PROVE  Stored(Id(n), p)'
<1>1. Stored(Id(n), p)
  BY DEF WrittenThere
<1>2. part \in Saved(layout, r) /\ work \in WorkloadType /\ layout \in Layouts
      /\ at[r] \in Nat /\ Writes \in Nat
  BY WorkFacts DEF TypeOK
<1>3. NameOf(Id(n), p) # Name(r, part)
  <2>1. SUFFICES ASSUME Id(n) = Id(at[r]), p.file = part.file PROVE FALSE
    BY DEF Name, NameOf
  <2>2. n = at[r]
    BY <1>2, <2>1, IdInjective
  <2>3. q = r /\ p = part
    BY <1>2, <2>1, SameFile
  <2> QED
    BY <2>2, <2>3 DEF Through, Finished
<1>4. NameOf(Id(n), p) \in DOMAIN store' /\ store'[NameOf(Id(n), p)] = Written(Chunks)
  <2>1. DOMAIN store' = DOMAIN store \cup {Name(r, part)}
    BY DEF Put
  <2>2. \A x \in DOMAIN store : x # Name(r, part) => store'[x] = store[x]
    BY DEF Put
  <2> QED
    BY <1>1, <1>3, <2>1, <2>2 DEF Stored
<1>5. Id(n)' = Id(n) /\ Written(Chunks)' = Written(Chunks) /\ NameOf(Id(n), p)' = NameOf(Id(n), p)
  BY SameJob DEF Written, NameOf
<1> QED
  BY <1>4, <1>5 DEF Stored

(* The part that has been written whole *)
LEMMA StoredNow ==
  ASSUME NEW r, NEW part, NEW n, n = at[r],
         store' = Put(store, Name(r, part), Written(Chunks)), UNCHANGED <<layout, job>>
  PROVE  Stored(Id(n), part)'
<1>1. NameOf(Id(n), part) \in DOMAIN store' /\ store'[NameOf(Id(n), part)] = Written(Chunks)
  <2>1. DOMAIN store' = DOMAIN store \cup {Name(r, part)} /\ store'[Name(r, part)] = Written(Chunks)
    BY DEF Put
  <2> QED
    BY <2>1 DEF Name
<1>2. Id(n)' = Id(n) /\ Written(Chunks)' = Written(Chunks)
      /\ NameOf(Id(n), part)' = NameOf(Id(n), part)
  BY SameJob DEF Written, NameOf
<1> QED
  BY <1>1, <1>2 DEF Stored

(* To keep WrittenThere, a step has to store the parts that it gets through. *)
LEMMA WrittenStep ==
  ASSUME UNCHANGED <<layout, job>>,
         \A q \in Rank : \A n \in 1 .. Writes : \A p \in Saved(layout, q) :
           Through(q, n, p)' => Stored(Id(n), p)'
  PROVE  WrittenThere'
<1>1. Rank' = Rank /\ Writes' = Writes
  BY SameJob
<1> QED
  BY <1>1 DEF WrittenThere

(* A step that leaves the store alone gets no rank through a part. *)
LEMMA WrittenKept ==
  ASSUME WrittenThere, UNCHANGED <<layout, job, store>>,
         \A q \in Rank : \A n \in 1 .. Writes : \A p \in Saved(layout, q) :
           Through(q, n, p)' => Through(q, n, p)
  PROVE  WrittenThere'
<1>1. ASSUME NEW q \in Rank, NEW n \in 1 .. Writes, NEW p \in Saved(layout, q), Through(q, n, p)'
      PROVE  Stored(Id(n), p)'
  BY <1>1, StoredStays DEF WrittenThere
<1> QED
  BY <1>1, WrittenStep

(* Nothing is to be there at the start. *)
LEMMA WrittenInit == Init => WrittenThere
  BY DEF Init, WrittenThere, Through, Finished

(* What a rank has written is there after every step. *)
LEMMA WrittenNext == TypeOK /\ PlacesAgree /\ WrittenThere /\ [Next]_vars => WrittenThere'
<1> SUFFICES ASSUME TypeOK, PlacesAgree, WrittenThere, [Next]_vars PROVE WrittenThere'
  OBVIOUS
<1>1. Writes \in Nat /\ Reads \in Nat
  BY WorkFacts DEF TypeOK
<1>2. /\ pc \in [Rank -> Places] /\ at \in [Rank -> Nat]
      /\ \A r \in Rank : at[r] \in Nat
  BY DEF TypeOK
<1>3. CASE StartJob \/ FinishJob \/ Kill
  <2>1. \A r \in Rank' : at'[r] = 0
    BY <1>3 DEF StartJob, FinishJob, Kill, Rank
  <2> QED
    BY <2>1 DEF WrittenThere, Through, Finished
<1>4. ASSUME NEW r \in Rank, CountCheckpoints(r) PROVE WrittenThere'
  BY <1>2, <1>4, WrittenKept DEF CountCheckpoints, Goto, Through, Finished, job
<1>5. ASSUME NEW r \in Rank, NextCheckpoint(r) PROVE WrittenThere'
  BY <1>2, <1>5, WrittenKept DEF NextCheckpoint, Goto, Through, Finished, job
<1>6. ASSUME NEW r \in Rank, StartCheckpoint(r) PROVE WrittenThere'
  BY <1>1, <1>2, <1>6, WrittenKept DEF StartCheckpoint, Saving, Goto, TypeOK, Through, Finished, job
<1>7. ASSUME NEW r \in Rank, EndCheckpoint(r) PROVE WrittenThere'
  BY <1>1, <1>2, <1>7, WrittenKept DEF EndCheckpoint, Goto, TypeOK, PlacesAgree, Through, Finished, job
<1>8. ASSUME NEW r \in Rank, LoadPart(r) PROVE WrittenThere'
  BY <1>1, <1>2, <1>8, WrittenKept DEF LoadPart, Goto, TypeOK, PlacesAgree, Through, Finished, job
<1>9. ASSUME NEW r \in Rank, OpenFile(r) PROVE WrittenThere'
  <2>1. PICK part \in todo[r] : store' = Put(store, Name(r, part), Written(0))
    BY <1>9 DEF OpenFile, FirstOf
  <2>2. at[r] \in 1 .. Writes /\ pc[r] \in {"save", "stream"} /\ UNCHANGED <<layout, job>>
    BY <1>9 DEF OpenFile, PlacesAgree, job
  <2>3. ASSUME NEW q \in Rank, NEW n \in 1 .. Writes, NEW p \in Saved(layout, q), Through(q, n, p)'
        PROVE  Stored(Id(n), p)'
    <3>1. Through(q, n, p)
      BY <1>2, <1>9, <2>3 DEF OpenFile, Goto, TypeOK, Through, Finished
    <3> QED
      BY <2>1, <2>2, <3>1, StoredBeside
  <2> QED
    BY <2>2, <2>3, WrittenStep
<1>10. ASSUME NEW r \in Rank, WriteChunk(r) PROVE WrittenThere'
  <2>1. PICK part \in todo[r] :
          LET chunks == store[Name(r, part)].chunks + 1
          IN  /\ store' = Put(store, Name(r, part), Written(chunks))
              /\ \/ /\ chunks = Chunks
                    /\ todo' = [todo EXCEPT ![r] = @ \ {part}] /\ Goto(r, "save")
                 \/ UNCHANGED <<todo, pc>>
    BY <1>10 DEF WriteChunk, FirstOf
  <2>2. at[r] \in 1 .. Writes /\ pc[r] \in {"save", "stream"} /\ UNCHANGED <<layout, job, at>>
    BY <1>10 DEF WriteChunk, PlacesAgree, job
  <2>3. ASSUME NEW q \in Rank, NEW n \in 1 .. Writes, NEW p \in Saved(layout, q), Through(q, n, p)'
        PROVE  Stored(Id(n), p)'
    <3>1. CASE Through(q, n, p)
      BY <2>1, <2>2, <3>1, StoredBeside
    <3>2. CASE ~Through(q, n, p)
      <4>1. q = r /\ n = at[r] /\ p = part /\ UNCHANGED at
            /\ store' = Put(store, Name(r, part), Written(Chunks))
        BY <1>2, <1>10, <2>1, <2>2, <2>3, <3>2 DEF WriteChunk, Goto, TypeOK, Through, Finished
      <4> QED
        BY <2>2, <4>1, StoredNow
    <3> QED
      BY <3>1, <3>2
  <2> QED
    BY <2>2, <2>3, WrittenStep
<1>11. ASSUME NEW r \in Rank, SaveWhole(r) PROVE WrittenThere'
  <2>1. PICK part \in todo[r] :
          /\ store' = Put(store, Name(r, part), Written(Chunks))
          /\ todo' = [todo EXCEPT ![r] = @ \ {part}]
    BY <1>11 DEF SaveWhole, FirstOf
  <2>2. at[r] \in 1 .. Writes /\ pc[r] \in {"save", "stream"} /\ UNCHANGED <<layout, job, at, pc>>
    BY <1>11 DEF SaveWhole, PlacesAgree, job
  <2>3. ASSUME NEW q \in Rank, NEW n \in 1 .. Writes, NEW p \in Saved(layout, q), Through(q, n, p)'
        PROVE  Stored(Id(n), p)'
    <3>1. CASE Through(q, n, p)
      BY <2>1, <2>2, <3>1, StoredBeside
    <3>2. CASE ~Through(q, n, p)
      <4>1. q = r /\ n = at[r] /\ p = part
        BY <1>2, <2>1, <2>2, <2>3, <3>2 DEF TypeOK, Through, Finished
      <4> QED
        BY <2>1, <2>2, <4>1, StoredNow
    <3> QED
      BY <3>1, <3>2
  <2> QED
    BY <2>2, <2>3, WrittenStep
<1>12. CASE UNCHANGED vars
  BY <1>12, WrittenKept DEF vars, Through, Finished, job
<1> QED
  BY <1>3, <1>4, <1>5, <1>6, <1>7, <1>8, <1>9, <1>10, <1>11, <1>12 DEF Next

-------------------------------------------------------------------------------
(* What earlier jobs have left *)

(* Once all ranks have written everything, the files of a checkpoint that differ in
   their job differ in its layout or its extension, and each checkpoint is whole. *)
AllWritten == \A r \in Rank : \A n \in 1 .. Writes : Finished(r, n)

Settled ==
  /\ \A a, b \in DOMAIN store : Alike(a, b) => store[a].job = store[b].job
  /\ \A id \in nodes \ phantom : Full(id)

(* When every rank has written its files, the checkpoints are whole. *)
LEMMA WrittenSettles ==
  ASSUME TypeOK, PlacesAgree, WrittenThere, OthersSettled, ~killed, AllWritten
  PROVE  Settled
<1>1. ASSUME NEW id, Begun(id), NEW r \in Rank, NEW p \in Saved(layout, r)
      PROVE  NameOf(id, p) \in DOMAIN store /\ store[NameOf(id, p)] = Written(Chunks)
  <2>1. PICK n \in 1 .. Writes : Id(n) = id
    BY <1>1 DEF Begun
  <2>2. Stored(Id(n), p)
    BY <1>1 DEF AllWritten, WrittenThere, Through
  <2> QED
    BY <2>1, <2>2 DEF Stored
<1>2. ASSUME NEW a \in DOMAIN store, NEW b \in DOMAIN store, Begun(b[1]),
             Alike(a, b), store[a].job = jobs
      PROVE  store[b].job = jobs
  <2>1. PICK k : k = store[b].job
    OBVIOUS
  <2>2. store[a].job \in 1 .. jobs
    BY DEF TypeOK
  <2>3. jobs \in Nat /\ jobs > 0
    BY <2>2, LenProperties DEF TypeOK, jobs
  <2>4. ran[jobs].layout = layout /\ ran[jobs].tf = work.tf
    BY <2>3, LastJob
  <2>5. ran[k].layout = layout
    BY <1>2, <2>1, <2>4 DEF Alike
  <2>6. PICK r \in Ranks(ran[k].layout) : \E p \in Saved(ran[k].layout, r) :
               b = <<b[1], p.file, Ext(ran[k].tf)>>
    BY <2>1 DEF TypeOK
  <2>7. PICK p \in Saved(layout, r) : b = <<b[1], p.file, Ext(ran[k].tf)>>
    BY <2>5, <2>6
  <2>8. a[3] = Ext(work.tf)
    <3>1. \E q, d : a = <<a[1], d.file, Ext(ran[jobs].tf)>>
      BY <1>2 DEF TypeOK
    <3> QED
      BY <2>4, <3>1
  <2>9. b[3] = Ext(work.tf)
    BY <1>2, <2>8 DEF Alike
  <2>10. b = NameOf(b[1], p)
    BY <2>7, <2>9 DEF NameOf
  <2>11. r \in Rank
    BY <2>5, <2>6 DEF Rank
  <2>12. store[b] = Written(Chunks)
    BY <1>1, <1>2, <2>10, <2>11
  <2> QED
    BY <2>12 DEF Written
<1>3. ASSUME NEW a \in DOMAIN store, NEW b \in DOMAIN store, Alike(a, b)
      PROVE  store[a].job = store[b].job
  <2>1. a[1] = b[1] /\ Alike(b, a)
    BY <1>3 DEF Alike
  <2>2. CASE ~Begun(a[1]) \/ (store[a].job # jobs /\ store[b].job # jobs)
    BY <1>3, <2>2 DEF OthersSettled
  <2>3. CASE Begun(a[1]) /\ store[a].job = jobs
    BY <1>2, <1>3, <2>1, <2>3
  <2>4. CASE Begun(a[1]) /\ store[b].job = jobs
    BY <1>2, <1>3, <2>1, <2>4
  <2> QED
    BY <2>2, <2>3, <2>4
<1>4. ASSUME NEW id \in nodes \ phantom PROVE Full(id)
  <2>1. CASE Begun(id)
    <3>1. PICK n \in 1 .. Writes, q \in Rank : at[q] >= n
      BY <2>1 DEF Begun
    <3>2. at[q] # 0
      BY <3>1 DEF TypeOK
    <3>3. jobs > 0
      BY <3>2 DEF TypeOK, PlacesAgree
    <3>4. jobs \in 1 .. jobs /\ ran[jobs].layout = layout /\ ran[jobs].scale = Chunks
          /\ ran[jobs].tf = work.tf
      BY <3>3, LastJob
    <3>5. ASSUME NEW r \in Rank, NEW p \in Saved(layout, r),
                 NEW name, name = <<id, p.file, Ext(work.tf)>>
          PROVE  name \in DOMAIN store /\ store[name] = [chunks |-> Chunks, job |-> jobs]
      <4>1. name = NameOf(id, p)
        BY <3>5 DEF NameOf
      <4> QED
        BY <1>1, <2>1, <3>5, <4>1 DEF Written
    <3>6. CheckpointOf(jobs, id)
      BY <3>4, <3>5 DEF CheckpointOf, Rank
    <3> QED
      BY <3>4, <3>6 DEF Full
  <2>2. CASE ~Begun(id)
    BY <1>4, <2>2 DEF OthersSettled
  <2> QED
    BY <2>1, <2>2
<1> QED
  BY <1>3, <1>4 DEF Settled

(* The store as it is, and as many checkpoints begun as before *)
LEMMA SettledKept ==
  ASSUME OthersSettled, UNCHANGED <<ran, store, killed>>,
         \A id : Begun(id) => Begun(id)',
         \A id \in nodes' \ phantom' : id \in nodes \ phantom \/ Begun(id)'
  PROVE  OthersSettled'
<1>1. jobs' = jobs /\ \A id : Full(id)' = Full(id)
  BY DEF Full, CheckpointOf, jobs
<1>2. \A a, b : Alike(a, b)' = Alike(a, b)
  BY DEF Alike
<1> SUFFICES ASSUME ~killed
             PROVE  /\ \A a, b \in DOMAIN store :
                         /\ Alike(a, b)
                         /\ ~Begun(a[1])' \/ (store[a].job # jobs /\ store[b].job # jobs)
                         => store[a].job = store[b].job
                    /\ \A id \in nodes' \ phantom' : ~Begun(id)' => Full(id)
  BY <1>1, <1>2 DEF OthersSettled
<1> QED
  BY <1>1 DEF OthersSettled

(* What an earlier job has left is there when another begins. *)
LEMMA FullLater ==
  ASSUME UNCHANGED store, jobs \in Nat, jobs' \in Nat, jobs' >= jobs,
         \A k \in 1 .. jobs : ran'[k] = ran[k],
         NEW id, Full(id)
  PROVE  Full(id)'
<1>1. PICK k \in 1 .. jobs : CheckpointOf(k, id)
  BY DEF Full
<1>2. k \in 1 .. jobs' /\ ran'[k] = ran[k]
  BY <1>1
<1>3. CheckpointOf(k, id)'
  BY <1>1, <1>2 DEF CheckpointOf
<1> QED
  BY <1>2, <1>3 DEF Full

(* A job begins or ends. *)
LEMMA SettledBetween ==
  ASSUME killed' \/ Settled, UNCHANGED <<store, nodes, phantom>>, TypeOK,
         jobs' \in Nat, jobs' >= jobs, \A k \in 1 .. jobs : ran'[k] = ran[k]
  PROVE  OthersSettled'
<1>1. jobs \in Nat /\ \A a \in DOMAIN store : store[a].job \in 1 .. jobs
  BY LenProperties DEF TypeOK, jobs
<1> SUFFICES ASSUME Settled
             PROVE  /\ \A a, b \in DOMAIN store : Alike(a, b)' => store[a].job = store[b].job
                    /\ \A id \in nodes \ phantom : Full(id)'
  BY DEF OthersSettled
<1>2. \A a, b \in DOMAIN store : Alike(a, b)' => Alike(a, b)
  BY <1>1 DEF Alike
<1> QED
  BY <1>1, <1>2, FullLater DEF Settled

(* A part of a checkpoint that is begun is written. *)
LEMMA SettledBeside ==
  ASSUME OthersSettled, NEW r \in Rank, at[r] \in 1 .. Writes, NEW part, NEW c,
         store' = Put(store, Name(r, part), Written(c)),
         UNCHANGED <<layout, job, at, nodes, killed, phantom>>
  PROVE  OthersSettled'
<1> DEFINE x == Name(r, part)
<1>1. jobs' = jobs /\ ran' = ran /\ \A id : Begun(id)' = Begun(id)
  <2>1. Rank' = Rank /\ Writes' = Writes /\ \A n : Id(n)' = Id(n)
    BY SameJob
  <2> QED
    BY <2>1, SameJob DEF Begun
<1>2. Begun(x[1])
  <2>1. at[r] >= at[r]
    OBVIOUS
  <2> QED
    BY <2>1 DEF Begun, Name, NameOf
<1>3. DOMAIN store' = DOMAIN store \cup {x} /\ store'[x].job = jobs
      /\ \A y \in DOMAIN store : y # x => store'[y] = store[y]
  BY DEF Put, Written
<1> HIDE DEF x
<1> SUFFICES ASSUME ~killed
             PROVE  /\ \A a, b \in DOMAIN store' :
                         /\ Alike(a, b)'
                         /\ ~Begun(a[1]) \/ (store'[a].job # jobs /\ store'[b].job # jobs)
                         => store'[a].job = store'[b].job
                    /\ \A id \in nodes \ phantom : ~Begun(id) => Full(id)'
  BY <1>1 DEF OthersSettled
<1>4. ASSUME NEW a \in DOMAIN store', NEW b \in DOMAIN store', Alike(a, b)',
             ~Begun(a[1]) \/ (store'[a].job # jobs /\ store'[b].job # jobs)
      PROVE  store'[a].job = store'[b].job
  <2>1. a[1] = b[1]
    BY <1>4 DEF Alike
  <2>2. a # x /\ b # x
    BY <1>2, <1>3, <1>4, <2>1
  <2>3. /\ a \in DOMAIN store /\ store'[a] = store[a]
        /\ b \in DOMAIN store /\ store'[b] = store[b]
    BY <1>3, <2>2
  <2>4. Alike(a, b)
    BY <1>1, <1>4, <2>3 DEF Alike
  <2> QED
    BY <1>4, <2>3, <2>4 DEF OthersSettled
<1>5. ASSUME NEW id \in nodes \ phantom, ~Begun(id) PROVE Full(id)'
  <2>1. PICK k \in 1 .. jobs : CheckpointOf(k, id)
    BY <1>5 DEF OthersSettled, Full
  <2>2. ASSUME NEW q \in Ranks(ran[k].layout), NEW p \in Saved(ran[k].layout, q),
               NEW name, name = <<id, p.file, Ext(ran[k].tf)>>
        PROVE  name \in DOMAIN store' /\ store'[name] = [chunks |-> ran[k].scale, job |-> k]
    <3>1. name \in DOMAIN store /\ store[name] = [chunks |-> ran[k].scale, job |-> k]
      BY <2>1, <2>2 DEF CheckpointOf
    <3>2. name[1] = id
      BY <2>2
    <3>3. name # x
      BY <1>2, <1>5, <3>2
    <3> QED
      BY <1>3, <3>1, <3>3
  <2>3. CheckpointOf(k, id)'
    BY <1>1, <2>2 DEF CheckpointOf
  <2> QED
    BY <1>1, <2>3 DEF Full
<1> QED
  BY <1>4, <1>5

(* There are no earlier checkpoints at the start. *)
LEMMA SettledInit == Init => OthersSettled
  BY DEF Init, OthersSettled

(* The checkpoints of other jobs stay as they are. *)
LEMMA SettledNext == StoreInv /\ [Next]_vars => OthersSettled'
<1> SUFFICES ASSUME StoreInv, [Next]_vars PROVE OthersSettled'
  OBVIOUS
<1> USE DEF StoreInv
<1>1. Writes \in Nat /\ Reads \in Nat /\ \A r \in Rank : at[r] \in Nat
  BY WorkFacts DEF TypeOK
<1>0. jobs \in Nat
  BY LenProperties DEF TypeOK, jobs
<1>2. CASE StartJob
  <2>1. \A id : ~Begun(id)
    BY <1>2 DEF StartJob, Off, PlacesAgree, Begun
  <2>2. killed \/ Settled
    BY <2>1 DEF OthersSettled, Settled
  <2>3. PICK e \in [layout: Layouts, scale: Nat \ {0}, tf: BOOLEAN] : ran' = Append(ran, e)
    <3>1. PICK c \in Simulated, w \in Workloads :
            ran' = Append(ran, [layout |-> c, scale |-> w.scale, tf |-> w.tf])
      BY <1>2 DEF StartJob
    <3> QED
      BY <3>1, StoreAssumption DEF WorkloadType
  <2>4. ran \in Seq([layout: Layouts, scale: Nat \ {0}, tf: BOOLEAN])
    BY DEF TypeOK
  <2>5. jobs' = jobs + 1 /\ \A k \in 1 .. jobs : ran'[k] = ran[k]
    BY <2>3, <2>4, AppendProperties DEF jobs
  <2>6. jobs' \in Nat /\ jobs' >= jobs
    BY <1>0, <2>5
  <2>7. UNCHANGED <<store, nodes, killed, phantom>>
    BY <1>2 DEF StartJob
  <2> QED
    BY <2>2, <2>5, <2>6, <2>7, SettledBetween
<1>3. CASE FinishJob
  <2>1. AllWritten
    BY <1>1, <1>3 DEF FinishJob, PlacesAgree, AllWritten, Finished
  <2>2. UNCHANGED <<store, nodes, killed, phantom, ran>> /\ jobs' = jobs
    BY <1>3 DEF FinishJob, job, jobs
  <2> QED
    BY <1>0, <2>1, <2>2, WrittenSettles, SettledBetween
<1>4. CASE Kill
  <2>1. ~killed' =>
          /\ ~killed
          /\ \A r \in Rank : /\ ~(at[r] < Writes)
                             /\ ~(at[r] <= Writes /\ pc[r] \in {"barrier", "save", "stream"})
    BY <1>4, Zenon DEF Kill, Saving
  <2>2. ~killed' => ~killed /\ AllWritten
    BY <1>1, <2>1 DEF AllWritten, Finished
  <2>3. UNCHANGED <<store, nodes, phantom, ran>> /\ jobs' = jobs
    BY <1>4 DEF Kill, job, jobs
  <2> QED
    BY <1>0, <2>2, <2>3, WrittenSettles, SettledBetween
<1>5. ASSUME NEW r \in Rank,
             \/ CountCheckpoints(r) \/ NextCheckpoint(r) \/ EndCheckpoint(r) \/ LoadPart(r)
      PROVE  OthersSettled'
  <2>1. /\ UNCHANGED <<layout, job, store, nodes, killed, phantom>>
        /\ \A q \in Rank : at'[q] \in Nat /\ at'[q] >= at[q]
    <3>1. at \in [Rank -> Nat]
      BY DEF TypeOK
    <3> QED
      BY <1>1, <1>5, <3>1 DEF CountCheckpoints, NextCheckpoint, EndCheckpoint, LoadPart, job
  <2>2. \A id : Begun(id) => Begun(id)'
    BY <1>1, <2>1, SameJob DEF Begun
  <2> QED
    BY <2>1, <2>2, SettledKept DEF job
<1>6. ASSUME NEW r \in Rank, StartCheckpoint(r) PROVE OthersSettled'
  <2>1. UNCHANGED <<layout, job, store, at, killed>>
    BY <1>6 DEF StartCheckpoint, job
  <2>2. \A id : Begun(id)' = Begun(id)
    BY <2>1, SameJob DEF Begun
  <2>3. CASE Saving(r)
    <3>1. Begun(Id(at[r]))
      BY <1>1, <1>6, <2>3 DEF StartCheckpoint, PlacesAgree, Saving, Begun
    <3>2. \A id \in nodes' \ phantom' : id \in nodes \ phantom \/ Begun(id)
      BY <1>6, <2>3, <3>1 DEF StartCheckpoint
    <3> QED
      BY <2>1, <2>2, <3>2, SettledKept DEF job
  <2>4. CASE ~Saving(r)
    <3>1. nodes' \ phantom' \subseteq nodes \ phantom
      BY <1>6, <2>4 DEF StartCheckpoint
    <3> QED
      BY <2>1, <2>2, <3>1, SettledKept DEF job
  <2> QED
    BY <2>3, <2>4
<1>7. ASSUME NEW r \in Rank, OpenFile(r) \/ WriteChunk(r) \/ SaveWhole(r)
      PROVE  OthersSettled'
  <2>1. at[r] \in 1 .. Writes /\ UNCHANGED <<layout, job, at, nodes, killed, phantom>>
    BY <1>7 DEF OpenFile, WriteChunk, SaveWhole, PlacesAgree, job
  <2>2. \E part, c : store' = Put(store, Name(r, part), Written(c))
    BY <1>7 DEF OpenFile, WriteChunk, SaveWhole, FirstOf
  <2> QED
    BY <2>1, <2>2, SettledBeside
<1>8. CASE UNCHANGED vars
  <2>1. UNCHANGED <<layout, job, store, at, nodes, killed, phantom>>
    BY <1>8 DEF vars, job
  <2>2. \A id : Begun(id)' = Begun(id)
    BY <2>1, SameJob DEF Begun
  <2> QED
    BY <2>1, <2>2, SettledKept DEF job
<1> QED
  BY <1>2, <1>3, <1>4, <1>5, <1>6, <1>7, <1>8 DEF Next

-------------------------------------------------------------------------------
(* What follows for the program *)

(* The inductive invariant holds in every reachable state. *)
LEMMA StoreInvariant == Spec => []StoreInv
<1>1. Init => StoreInv
  BY TypeInit, PlacesInit, WrittenInit, SettledInit DEF StoreInv
<1>2. StoreInv /\ [Next]_vars => StoreInv'
  BY TypeNext, PlacesNext, WrittenNext, SettledNext DEF StoreInv
<1> QED
  BY <1>1, <1>2, PTL DEF Spec

(* Where a rank reads, all have written: its checkpoints, and whole. *)
LEMMA ReadersFindAll ==
  ASSUME StoreInv, NEW r \in Rank, pc[r] \in {"load", "failed"} PROVE AllWritten
<1>1. \A q \in Rank : at[q] > Writes
  BY WorkFacts DEF StoreInv, PlacesAgree, TypeOK
<1> QED
  BY <1>1, WorkFacts DEF StoreInv, TypeOK, AllWritten, Finished

(* What the ranks load of a checkpoint they have themselves written is of their job;
   and of any checkpoint that is loaded the files of two jobs of one layout are not
   both there, unless a job was killed before it had written everything: for every
   sequence of jobs, whatever the layout of each (main.py 296-350,
   base_checkpointing.py 385-460). *)
THEOREM LoadedIsOneJobs == Spec => []CheckpointOfOneJob
<1>1. StoreInv => CheckpointOfOneJob
  <2> SUFFICES ASSUME StoreInv, NEW r \in Rank, pc[r] = "load",
                      NEW n \in Under(Id(at[r])), NEW m \in Under(Id(at[r])),
                      store[n].job # store[m].job
               PROVE  /\ killed \/ ran[store[n].job].layout # ran[store[m].job].layout
                      /\ {n, m} \subseteq Own(Id(at[r])) => at[r] - Writes > Writes
    BY DEF CheckpointOfOneJob
  <2>1. n \in DOMAIN store /\ m \in DOMAIN store /\ n[1] = m[1] /\ n[3] = m[3]
    BY DEF Under
  <2>2. AllWritten
    BY ReadersFindAll
  <2>3. killed \/ ran[store[n].job].layout # ran[store[m].job].layout
    <3>1. ~killed => Settled
      BY <2>2, WrittenSettles DEF StoreInv
    <3> QED
      BY <2>1, <3>1 DEF Settled, Alike
  <2>4. ASSUME {n, m} \subseteq Own(Id(at[r])), ~(at[r] - Writes > Writes) PROVE FALSE
    <3>1. /\ work \in WorkloadType /\ at[r] \in Nat /\ at[r] > Writes /\ at[r] <= Writes + Reads
          /\ Writes \in Nat /\ Reads \in Nat
      BY WorkFacts DEF StoreInv, TypeOK, PlacesAgree
    <3>2. PICK k : k = at[r] - Writes
      OBVIOUS
    <3>3. ~Training /\ Id(at[r]) = <<1, k>>
      BY <3>1, <3>2, IdOfRead
    <3>4. k \in 1 .. Writes
      BY <2>4, <3>1, <3>2
    <3>5. Id(k) = Id(at[r])
      BY <3>3, <3>4 DEF Id
    <3>6. ASSUME NEW x \in Own(Id(at[r])) PROVE store[x].job = jobs
      <4>1. PICK q \in Rank : \E p \in Saved(layout, q) : x = NameOf(Id(k), p)
        BY <3>5, <3>6 DEF Own
      <4>3. PICK p \in Saved(layout, q) : x = NameOf(Id(k), p)
        BY <4>1
      <4>2. Stored(Id(k), p)
        BY <2>2, <3>4 DEF StoreInv, WrittenThere, AllWritten, Through
      <4> QED
        BY <4>2, <4>3 DEF Stored, Written
    <3> QED
      BY <2>4, <3>6
  <2> QED
    BY <2>3, <2>4
<1> QED
  BY <1>1, StoreInvariant, PTL

(* A folder that a later job counts holds all the files of one job, whole, unless a
   job was killed while it wrote or the folder was made by a load: for every sequence
   of jobs, whatever the layout of each (base_checkpointing.py 385-460). *)
THEOREM CountedIsWritten == Spec => []FoldersAreCheckpoints
<1>1. StoreInv => FoldersAreCheckpoints
  <2> SUFFICES ASSUME StoreInv, Off, ~killed, NEW id \in nodes \ phantom PROVE Full(id)
    BY DEF FoldersAreCheckpoints, Full
  <2>1. \A r \in Rank : at[r] = 0
    BY DEF StoreInv, PlacesAgree, Off
  <2>2. ~Begun(id)
    BY <2>1 DEF Begun
  <2> QED
    BY <2>2 DEF StoreInv, OthersSettled
<1> QED
  BY <1>1, StoreInvariant, PTL

(* A part that does not load, of a checkpoint that should *)
LEMMA LoadFails ==
  ASSUME StoreInv, NEW r \in Rank, pc[r] = "load", NEW part \in todo[r],
         ~Loads(Name(r, part), part),
         Writes >= Reads \/ (\A n \in 1 .. Reads : Complete(<<1, n>>) /\ ~work.tf)
  PROVE  work.tf /\ Nested(part)
<1>1. /\ work \in WorkloadType /\ part \in Saved(layout, r)
      /\ at[r] \in Nat /\ at[r] > Writes /\ at[r] <= Writes + Reads
      /\ Writes \in Nat /\ Reads \in Nat /\ Chunks \in Nat
  BY WorkFacts DEF StoreInv, TypeOK, PlacesAgree
<1>2. PICK n : n = at[r] - Writes
  OBVIOUS
<1>3. n \in 1 .. Reads /\ Id(at[r]) = <<1, n>>
  BY <1>1, <1>2, IdOfRead
<1>4. PICK x : x = Name(r, part)
  OBVIOUS
<1>5. CASE Writes >= Reads
  <2>1. n \in 1 .. Writes
    BY <1>1, <1>3, <1>5
  <2>2. ~Training
    BY <1>1, IdOfRead
  <2>3. Id(n) = <<1, n>>
    BY <2>1, <2>2 DEF Id
  <2>4. Stored(Id(n), part)
    BY <1>1, <2>1, ReadersFindAll DEF StoreInv, WrittenThere, AllWritten, Through
  <2>5. x \in DOMAIN store /\ store[x].chunks = Chunks
    BY <1>3, <1>4, <2>3, <2>4 DEF Stored, Name, NameOf, Written
  <2> QED
    BY <1>1, <1>4, <2>5 DEF Loads, TFLoads, StreamLoads
<1>6. CASE \A k \in 1 .. Reads : Complete(<<1, k>>) /\ ~work.tf
  <2>1. x \in DOMAIN store /\ store[x].chunks >= Chunks /\ ~work.tf
    BY <1>1, <1>3, <1>4, <1>6 DEF Complete, Name, NameOf
  <2> QED
    BY <1>4, <2>1 DEF Loads, StreamLoads
<1> QED
  BY <1>5, <1>6

(* After a load has failed nothing is written. *)
LEMMA FailedStays ==
  ASSUME StoreInv, [Next]_vars, NEW r \in Rank, pc[r] = "failed", pc'[r] = "failed"
  PROVE  UNCHANGED <<layout, job, store>>
<1>1. \A q \in Rank : at[q] > Writes /\ at[q] \in Nat /\ Writes \in Nat
  BY WorkFacts DEF StoreInv, PlacesAgree, TypeOK
<1>2. ASSUME NEW q \in Rank, OpenFile(q) \/ WriteChunk(q) \/ SaveWhole(q) PROVE FALSE
  BY <1>1, <1>2 DEF OpenFile, WriteChunk, SaveWhole, StoreInv, PlacesAgree
<1>3. ASSUME NEW q \in Rank,
             \/ CountCheckpoints(q) \/ NextCheckpoint(q) \/ StartCheckpoint(q)
             \/ EndCheckpoint(q) \/ LoadPart(q)
      PROVE  UNCHANGED <<layout, job, store>>
  BY <1>3 DEF CountCheckpoints, NextCheckpoint, StartCheckpoint, EndCheckpoint, LoadPart, job
<1>4. CASE StartJob \/ FinishJob \/ Kill
  BY <1>4 DEF StartJob, FinishJob, Kill, Off
<1>5. CASE UNCHANGED vars
  BY <1>5 DEF vars, job
<1> QED
  BY <1>2, <1>3, <1>4, <1>5 DEF Next

(* The step by which a load fails *)
LEMMA FailsNow ==
  ASSUME StoreInv, [Next]_vars, NEW r \in Rank', ~(r \in Rank /\ pc[r] = "failed"),
         pc'[r] = "failed"
  PROVE  r \in Rank /\ LoadPart(r)
<1>1. pc \in [Rank -> Places]
  BY DEF StoreInv, TypeOK
<1>2. ASSUME NEW q \in Rank,
             \/ CountCheckpoints(q) \/ NextCheckpoint(q) \/ StartCheckpoint(q) \/ EndCheckpoint(q)
             \/ OpenFile(q) \/ WriteChunk(q) \/ SaveWhole(q)
      PROVE  FALSE
  <2>1. r \in Rank
    BY <1>2 DEF CountCheckpoints, NextCheckpoint, StartCheckpoint, EndCheckpoint,
       OpenFile, WriteChunk, SaveWhole, Rank
  <2> QED
    BY <1>1, <1>2, <2>1 DEF CountCheckpoints, NextCheckpoint, StartCheckpoint, EndCheckpoint,
       OpenFile, WriteChunk, SaveWhole, Goto
<1>3. ASSUME NEW q \in Rank, LoadPart(q) PROVE q = r
  <2>1. r \in Rank
    BY <1>3 DEF LoadPart, Rank
  <2> QED
    BY <1>1, <1>3, <2>1 DEF LoadPart, Goto
<1>4. CASE StartJob \/ FinishJob \/ Kill
  BY <1>4 DEF StartJob, FinishJob, Kill, Rank
<1>5. CASE UNCHANGED vars
  BY <1>5 DEF vars, Rank
<1> QED
  BY <1>2, <1>3, <1>4, <1>5 DEF Next

Loadable == Writes >= Reads \/ (\A n \in 1 .. Reads : Complete(<<1, n>>) /\ ~work.tf)

(* No step makes a rank fail to load what its own job has written. *)
LEMMA LoadedNext == StoreInv /\ WrittenIsLoaded /\ [Next]_vars => WrittenIsLoaded'
<1> SUFFICES ASSUME StoreInv, WrittenIsLoaded, [Next]_vars,
                    NEW r \in Rank', pc'[r] = "failed", Loadable'
             PROVE  Unloadable(r)'
  BY DEF WrittenIsLoaded, Loadable
<1>2. UNCHANGED <<layout, job, store>> => (Loadable' <=> Loadable) /\ (Unloadable(r)' <=> Unloadable(r))
  BY SameJob DEF Loadable, Complete, Unloadable, Nested, NameOf, job
<1>3. CASE r \in Rank /\ pc[r] = "failed"
  <2>1. UNCHANGED <<layout, job, store>>
    BY <1>3, FailedStays
  <2> QED
    BY <1>2, <1>3, <2>1 DEF WrittenIsLoaded, Loadable
<1>4. CASE ~(r \in Rank /\ pc[r] = "failed")
  <2>1. r \in Rank /\ LoadPart(r)
    BY <1>4, FailsNow
  <2>2. UNCHANGED <<layout, job, store>> /\ pc[r] = "load"
    BY <2>1 DEF LoadPart, job
  <2>3. Loadable
    BY <1>2, <2>2
  <2>7. pc \in [Rank -> Places] /\ pc[r] # "failed"
    BY <2>2 DEF StoreInv, TypeOK
  <2>4. PICK part \in todo[r] :
          \/ part.file[1] = "zero_model" /\ ~LoadAsserts(layout, r)
          \/ ~Loads(Name(r, part), part)
    BY <2>1, <2>7 DEF LoadPart, FirstOf
  <2>5. part \in Saved(layout, r)
    BY <2>1 DEF StoreInv, TypeOK
  <2>6. Unloadable(r)
    <3>1. CASE ~LoadAsserts(layout, r)
      BY <3>1 DEF Unloadable
    <3>2. CASE ~Loads(Name(r, part), part)
      BY <2>1, <2>2, <2>3, <2>5, <3>2, LoadFails DEF Loadable, Unloadable
    <3> QED
      BY <2>4, <3>1, <3>2
  <2> QED
    BY <1>2, <2>2, <2>6
<1> QED
  BY <1>3, <1>4

(* A job that reads the checkpoints it has itself written never finds one missing or
   short, whatever killed jobs have left under the same names: its loads fail by the
   assertion on the pipeline or in the TensorFlow back end on nested states only
   (main.py 296-350, base_checkpointing.py 385-460). *)
THEOREM OwnCheckpointsLoad == Spec => []WrittenIsLoaded
<1>1. Init => WrittenIsLoaded
  BY DEF Init, WrittenIsLoaded
<1> QED
  BY <1>1, StoreInvariant, LoadedNext, PTL DEF Spec

-------------------------------------------------------------------------------
(* How many checkpoints a job counts *)

Halted == {"next", "counted", "few", "missed", "ended"}

(* The rank is through the barrier of its n-th checkpoint. *)
Entered(r, n) == at[r] > n \/ (at[r] = n /\ pc[r] # "barrier")

(* The folders of the checkpoints that a rank has entered, on a file system *)
FoldersMade ==
  Local => \A r \in Rank : \A n \in 1 .. Writes : Entered(r, n) => Id(n) \in nodes

(* No rank is more than the barrier ahead of another. *)
RanksMeet ==
  \A r, q \in Rank : at[q] >= at[r] \/ (pc[r] = "barrier" /\ at[q] >= at[r] - 1)

(* With rank_sync the ranks leave a checkpoint together. *)
RanksSync ==
  work.sync /\ ~Training => \A r, q \in Rank :
    pc[r] \in Halted => at[q] > at[r] \/ (at[q] = at[r] /\ pc[q] \in Halted \cup {"saved"})

CountInv ==
  /\ IsFiniteSet(nodes) /\ IsFiniteSet(DOMAIN store)
  /\ FoldersMade /\ RanksMeet /\ RanksSync

(* A step of rank r to the place p at its n-th checkpoint *)
Hop(r, p, n) ==
  /\ UNCHANGED <<layout, storage, job>>
  /\ pc' = [pc EXCEPT ![r] = p] /\ at' = [at EXCEPT ![r] = n]
  /\ nodes \subseteq nodes'
  /\ \/ p = pc[r] /\ n = at[r] /\ p # "barrier"
     \/ pc[r] \in {"next", "counted"} /\ p = "barrier" /\ n = at[r] + 1
     \/ pc[r] \in {"next", "counted"} /\ p \in Halted /\ n = at[r]
     \/ pc[r] = "barrier" /\ p \in {"save", "load"} /\ n = at[r]
        /\ (\A q \in Rank : at[q] >= n) /\ (Local => Id(n) \in nodes')
     \/ pc[r] \in {"save", "stream", "load"} /\ p \in {"save", "stream", "saved", "failed"}
        /\ n = at[r]
     \/ pc[r] = "saved" /\ p = "next" /\ n = at[r] /\ Synced(r)

(* The steps of a rank *)
RankStep(r) ==
  \/ CountCheckpoints(r) \/ NextCheckpoint(r) \/ StartCheckpoint(r) \/ EndCheckpoint(r)
  \/ OpenFile(r) \/ WriteChunk(r) \/ SaveWhole(r) \/ LoadPart(r)

(* Every step of a rank is a hop. *)
LEMMA RankHops ==
  ASSUME TypeOK, NEW r \in Rank, RankStep(r)
  PROVE  \E p \in Places \ {"off"}, n \in Nat : Hop(r, p, n)
<1>1. pc \in [Rank -> Places] /\ at \in [Rank -> Nat]
  BY DEF TypeOK
<1>2. pc = [pc EXCEPT ![r] = pc[r]] /\ at = [at EXCEPT ![r] = at[r]]
  BY <1>1
<1>3. CASE CountCheckpoints(r)
  <2>1. PICK p \in {"few", "missed", "counted"} : Goto(r, p)
    BY <1>3 DEF CountCheckpoints
  <2>2. Hop(r, p, at[r])
    BY <1>1, <1>2, <1>3, <2>1 DEF CountCheckpoints, Hop, Goto, Halted, job
  <2> QED
    BY <1>1, <2>1, <2>2 DEF Places
<1>4. CASE NextCheckpoint(r)
  <2>1. CASE at[r] = Writes + Reads
    <3>1. Hop(r, "ended", at[r])
      BY <1>1, <1>2, <1>4, <2>1 DEF NextCheckpoint, Hop, Goto, Halted, job
    <3> QED
      BY <1>1, <3>1 DEF Places
  <2>2. CASE at[r] # Writes + Reads
    <3>1. at[r] + 1 \in Nat /\ Hop(r, "barrier", at[r] + 1)
      BY <1>1, <1>4, <2>2 DEF NextCheckpoint, Hop, Goto, Halted, job
    <3> QED
      BY <1>1, <3>1 DEF Places
  <2> QED
    BY <2>1, <2>2
<1>5. CASE StartCheckpoint(r)
  <2>1. PICK p \in {"save", "load"} : Goto(r, p)
    BY <1>5 DEF StartCheckpoint
  <2>2. Hop(r, p, at[r])
    BY <1>1, <1>2, <1>5, <2>1 DEF StartCheckpoint, Met, Hop, Goto, job
  <2> QED
    BY <1>1, <2>1, <2>2 DEF Places
<1>6. CASE EndCheckpoint(r)
  <2>1. CASE pc[r] \in {"save", "load"} /\ Goto(r, "saved")
    <3>1. Hop(r, "saved", at[r])
      BY <1>1, <1>2, <1>6, <2>1 DEF EndCheckpoint, Hop, Goto, job
    <3> QED
      BY <1>1, <3>1 DEF Places
  <2>2. CASE pc[r] = "saved" /\ Synced(r) /\ Goto(r, "next")
    <3>1. Hop(r, "next", at[r])
      BY <1>1, <1>2, <1>6, <2>2 DEF EndCheckpoint, Hop, Goto, job
    <3> QED
      BY <1>1, <3>1 DEF Places
  <2> QED
    BY <1>6, <2>1, <2>2 DEF EndCheckpoint
<1>7. CASE OpenFile(r)
  <2>1. Hop(r, "stream", at[r])
    BY <1>1, <1>2, <1>7 DEF OpenFile, Hop, Goto, job
  <2> QED
    BY <1>1, <2>1 DEF Places
<1>8. CASE WriteChunk(r)
  <2>1. Goto(r, "save") \/ UNCHANGED pc
    BY <1>8 DEF WriteChunk
  <2>2. Hop(r, "save", at[r]) \/ Hop(r, "stream", at[r])
    BY <1>1, <1>2, <1>8, <2>1 DEF WriteChunk, Hop, Goto, job
  <2> QED
    BY <1>1, <2>2 DEF Places
<1>9. CASE SaveWhole(r)
  <2>1. Hop(r, "save", at[r])
    BY <1>1, <1>2, <1>9 DEF SaveWhole, Hop, Goto, job
  <2> QED
    BY <1>1, <2>1 DEF Places
<1>10. CASE LoadPart(r)
  <2>1. Goto(r, "failed") \/ UNCHANGED pc
    BY <1>10 DEF LoadPart
  <2>2. Hop(r, "failed", at[r]) \/ Hop(r, "load", at[r])
    BY <1>1, <1>2, <1>10, <2>1 DEF LoadPart, Hop, Goto, job
  <2> QED
    BY <1>1, <2>2 DEF Places
<1> QED
  BY <1>3, <1>4, <1>5, <1>6, <1>7, <1>8, <1>9, <1>10 DEF RankStep

(* A folder or an object more leaves finitely many. *)
LEMMA FiniteNext ==
  ASSUME IsFiniteSet(nodes), IsFiniteSet(DOMAIN store), [Next]_vars
  PROVE  IsFiniteSet(nodes') /\ IsFiniteSet(DOMAIN store')
<1>1. ASSUME NEW name, NEW v, store' = Put(store, name, v) PROVE IsFiniteSet(DOMAIN store')
  <2>1. DOMAIN store' = DOMAIN store \cup {name}
    BY <1>1 DEF Put
  <2> QED
    BY <2>1, FS_AddElement
<1>2. UNCHANGED nodes \/ \E id : nodes' = nodes \cup {id}
  BY DEF Next, vars, StartJob, FinishJob, Kill, CountCheckpoints, NextCheckpoint,
     StartCheckpoint, EndCheckpoint, OpenFile, WriteChunk, SaveWhole, LoadPart
<1>3. UNCHANGED store \/ \E name, v : store' = Put(store, name, v)
  BY DEF Next, vars, StartJob, FinishJob, Kill, CountCheckpoints, NextCheckpoint,
     StartCheckpoint, EndCheckpoint, OpenFile, WriteChunk, SaveWhole, LoadPart
<1>4. IsFiniteSet(nodes')
  BY <1>2, FS_AddElement
<1> QED
  BY <1>1, <1>3, <1>4

(* A hop keeps the folders, and the ranks together. *)
LEMMA HopCounts ==
  ASSUME TypeOK, FoldersMade, RanksMeet, RanksSync,
         NEW r \in Rank, NEW p \in Places \ {"off"}, NEW n \in Nat, Hop(r, p, n)
  PROVE  FoldersMade' /\ RanksMeet' /\ RanksSync'
<1>1. Rank' = Rank /\ Writes' = Writes /\ (Training' <=> Training) /\ \A k : Id(k)' = Id(k)
  BY SameJob DEF Hop
<1>2. work' = work /\ (Local' <=> Local)
  BY DEF Hop, job, Local
<1>3. \A q \in Rank : /\ at[q] \in Nat /\ at'[q] = IF q = r THEN n ELSE at[q]
                      /\ pc'[q] = IF q = r THEN p ELSE pc[q]
  BY DEF TypeOK, Hop
<1>4. Writes \in Nat
  BY WorkFacts DEF TypeOK
<1>5. FoldersMade'
  <2> SUFFICES ASSUME Local, NEW q \in Rank, NEW k \in 1 .. Writes, Entered(q, k)'
               PROVE  Id(k) \in nodes'
    BY <1>1, <1>2 DEF FoldersMade
  <2>1. nodes \subseteq nodes'
    BY DEF Hop
  <2>2. CASE Entered(q, k)
    BY <2>1, <2>2 DEF FoldersMade
  <2>3. CASE ~Entered(q, k)
    <3>1. q = r /\ k = n /\ Id(n) \in nodes'
      BY <1>3, <1>4, <2>3 DEF Entered, Hop
    <3> QED
      BY <3>1
  <2> QED
    BY <2>2, <2>3
<1>6. RanksMeet'
  <2> SUFFICES ASSUME NEW q \in Rank, NEW s \in Rank
               PROVE  at'[s] >= at'[q] \/ (pc'[q] = "barrier" /\ at'[s] >= at'[q] - 1)
    BY <1>1 DEF RanksMeet
  <2>1. at[s] >= at[q] \/ (pc[q] = "barrier" /\ at[s] >= at[q] - 1)
    BY DEF RanksMeet
  <2>2. n >= at[r]
    BY <1>3 DEF Hop
  <2>3. CASE q # r
    BY <1>3, <2>1, <2>2, <2>3
  <2>4. CASE q = r /\ s = r
    BY <1>3, <2>4
  <2>5. CASE q = r /\ s # r
    BY <1>3, <2>1, <2>5 DEF Hop
  <2> QED
    BY <2>3, <2>4, <2>5
<1>7. RanksSync'
  <2> SUFFICES ASSUME work.sync, ~Training, NEW q \in Rank, NEW s \in Rank, pc'[q] \in Halted
               PROVE  at'[s] > at'[q] \/ (at'[s] = at'[q] /\ pc'[s] \in Halted \cup {"saved"})
    BY <1>1, <1>2 DEF RanksSync
  <2>1. pc[q] \in Halted => at[s] > at[q] \/ (at[s] = at[q] /\ pc[s] \in Halted \cup {"saved"})
    BY DEF RanksSync
  <2>2. pc[q] \notin Halted =>
          q = r /\ n = at[r] /\ (at[s] > at[q] \/ (at[s] = at[q] /\ pc[s] \in Halted \cup {"saved"}))
    BY <1>3 DEF Hop, Halted, Synced
  <2>3. at[s] > at[q] \/ (at[s] = at[q] /\ pc[s] \in Halted \cup {"saved"})
    BY <2>1, <2>2
  <2>4. at'[q] = at[q]
    BY <1>3 DEF Hop, Halted
  <2>5. at[s] > at[q] => at'[s] > at[q]
    BY <1>3 DEF Hop
  <2>6. at[s] = at[q] /\ pc[s] \in Halted \cup {"saved"} =>
          at'[s] > at[q] \/ (at'[s] = at[q] /\ pc'[s] \in Halted \cup {"saved"})
    BY <1>3 DEF Hop, Halted
  <2> QED
    BY <2>3, <2>4, <2>5, <2>6
<1> QED
  BY <1>5, <1>6, <1>7

(* The invariant of the counts *)
LEMMA CountInvariant == Spec => []CountInv
<1>1. Init => CountInv
  <2> SUFFICES ASSUME Init PROVE CountInv
    OBVIOUS
  <2>1. IsFiniteSet(nodes) /\ IsFiniteSet(DOMAIN store)
    BY FS_EmptySet DEF Init
  <2>2. FoldersMade
    BY DEF Init, FoldersMade, Entered
  <2>3. RanksMeet /\ RanksSync
    BY DEF Init, RanksMeet, RanksSync, Halted
  <2> QED
    BY <2>1, <2>2, <2>3 DEF CountInv
<1>2. StoreInv /\ CountInv /\ [Next]_vars => CountInv'
  <2> SUFFICES ASSUME StoreInv, CountInv, [Next]_vars PROVE CountInv'
    OBVIOUS
  <2>1. TypeOK /\ PlacesAgree /\ FoldersMade /\ RanksMeet /\ RanksSync
    BY DEF StoreInv, CountInv
  <2>2. IsFiniteSet(nodes') /\ IsFiniteSet(DOMAIN store')
    BY FiniteNext DEF CountInv
  <2>3. ASSUME NEW r \in Rank, RankStep(r) PROVE FoldersMade' /\ RanksMeet' /\ RanksSync'
    <3>1. PICK p \in Places \ {"off"}, n \in Nat : Hop(r, p, n)
      BY <2>1, <2>3, RankHops
    <3> QED
      BY <2>1, <3>1, HopCounts
  <2>4. ASSUME StartJob \/ FinishJob \/ Kill
        PROVE  FoldersMade' /\ RanksMeet' /\ RanksSync'
    <3>2. \A r \in Rank' : at'[r] = 0
      BY <2>4 DEF StartJob, FinishJob, Kill, Rank
    <3>3. (\A r \in Rank' : pc'[r] = "next") \/ (\A r \in Rank' : pc'[r] = "off")
      BY <2>4 DEF StartJob, FinishJob, Kill, Rank
    <3>4. FoldersMade'
      BY <3>2 DEF FoldersMade, Entered
    <3>5. RanksMeet'
      BY <3>2 DEF RanksMeet
    <3>6. RanksSync'
      BY <3>2, <3>3 DEF RanksSync, Halted
    <3> QED
      BY <3>4, <3>5, <3>6
  <2>5. ASSUME UNCHANGED vars PROVE FoldersMade' /\ RanksMeet' /\ RanksSync'
    <3>1. Rank' = Rank /\ Writes' = Writes /\ (Training' <=> Training) /\ \A k : Id(k)' = Id(k)
      BY <2>5, SameJob DEF vars, job
    <3> QED
      BY <2>1, <2>5, <3>1
         DEF vars, job, FoldersMade, RanksMeet, RanksSync, Entered, Local
  <2>6. FoldersMade' /\ RanksMeet' /\ RanksSync'
    BY <2>3, <2>4, <2>5 DEF Next, RankStep
  <2> QED
    BY <2>2, <2>6 DEF CountInv
<1> QED
  BY <1>1, <1>2, StoreInvariant, PTL DEF Spec

(* As many things as they are numbered with *)
LEMMA AtLeast ==
  ASSUME NEW S, IsFiniteSet(S), NEW k \in Nat, NEW f \in Injection(1 .. k, S)
  PROVE  Cardinality(S) \in Nat /\ Cardinality(S) >= k
<1>1. 1 \in Int /\ k \in Int /\ k - 1 + 1 = k /\ (1 > k => k = 0)
  OBVIOUS
<1>2. Cardinality(1 .. k) = IF 1 > k THEN 0 ELSE k - 1 + 1
  BY <1>1, FS_Interval
<1>3. Cardinality(1 .. k) = k
  BY <1>1, <1>2
<1>4. Cardinality(1 .. k) <= Cardinality(S)
  BY FS_Injection
<1>5. Cardinality(S) \in Nat
  BY FS_CardinalityType
<1> QED
  BY <1>3, <1>4, <1>5

(* As many objects as checkpoints of which a rank has written its part *)
LEMMA ObjectsCount ==
  ASSUME StoreInv, CountInv, ~Training, NEW k \in Nat, k <= Writes,
         NEW q \in Rank, NEW part \in Saved(layout, q), \A n \in 1 .. k : Finished(q, n)
  PROVE  Cardinality(DOMAIN store) \in Nat /\ Cardinality(DOMAIN store) >= k
<1> DEFINE f == [n \in 1 .. k |-> <<<<1, n>>, part.file, Ext(work.tf)>>]
<1>1. Writes \in Nat
  BY WorkFacts DEF StoreInv, TypeOK
<1>2. ASSUME NEW n \in 1 .. k PROVE f[n] \in DOMAIN store
  <2>1. n \in 1 .. Writes
    BY <1>1
  <2>2. Id(n) = <<1, n>>
    BY <2>1 DEF Id
  <2>3. Stored(Id(n), part)
    BY <1>2, <2>1 DEF StoreInv, WrittenThere, Through
  <2> QED
    BY <2>2, <2>3 DEF Stored, NameOf
<1>3. f \in Injection(1 .. k, DOMAIN store)
  <2>1. f \in [1 .. k -> DOMAIN store]
    BY <1>2
  <2>2. \A a, b \in 1 .. k : f[a] = f[b] => a = b
    OBVIOUS
  <2> QED
    BY <2>1, <2>2 DEF Injection, IsInjective
<1> QED
  BY <1>3, AtLeast DEF CountInv

(* As many folders as checkpoints that a rank has entered *)
LEMMA FoldersCount ==
  ASSUME StoreInv, CountInv, ~Training, Local, NEW q \in Rank,
         \A n \in 1 .. Writes : Entered(q, n)
  PROVE  Cardinality(nodes) \in Nat /\ Cardinality(nodes) >= Writes
<1> DEFINE f == [n \in 1 .. Writes |-> <<1, n>>]
<1>1. Writes \in Nat
  BY WorkFacts DEF StoreInv, TypeOK
<1>2. \A n \in 1 .. Writes : Id(n) = <<1, n>>
  BY DEF Id
<1>3. f \in [1 .. Writes -> nodes]
  BY <1>2 DEF CountInv, FoldersMade
<1>4. \A a, b \in 1 .. Writes : f[a] = f[b] => a = b
  OBVIOUS
<1>5. f \in Injection(1 .. Writes, nodes)
  BY <1>3, <1>4 DEF Injection, IsInjective
<1> QED
  BY <1>1, <1>5, AtLeast DEF CountInv

(* What a rank of a job that writes finds when it counts too few *)
LEMMA CountsTooFew ==
  ASSUME StoreInv, CountInv, NEW r \in Rank,
         pc[r] = "next", at[r] = Writes, ~Training, storage # "rooted",
         Existing < Reads, Writes >= Reads
  PROVE  /\ storage = "object" /\ Saved(layout, r) = {}
         /\ \/ \A q \in Rank : Saved(layout, q) = {}
            \/ ~work.sync /\ Reads = Writes
<1>1. Writes \in Nat /\ Reads \in Nat /\ \A q \in Rank : at[q] \in Nat
  BY WorkFacts DEF StoreInv, TypeOK
<1>2. ~Local
  <2>1. SUFFICES ASSUME Local PROVE FALSE
    OBVIOUS
  <2>2. \A n \in 1 .. Writes : Entered(r, n)
    BY <1>1 DEF Entered
  <2>3. Cardinality(nodes) \in Nat /\ Cardinality(nodes) >= Writes
    BY <2>1, <2>2, FoldersCount
  <2> QED
    BY <1>1, <2>1, <2>3 DEF Existing
<1>3. storage = "object"
  BY <1>2 DEF Local
<1>4. Existing = Cardinality(DOMAIN store)
  BY <1>2 DEF Existing
<1>5. ASSUME NEW q \in Rank, Saved(layout, q) # {}, \A n \in 1 .. Writes : Finished(q, n)
      PROVE  FALSE
  <2>1. PICK part : part \in Saved(layout, q)
    BY <1>5
  <2>2. Writes <= Writes
    BY <1>1
  <2>3. Cardinality(DOMAIN store) \in Nat /\ Cardinality(DOMAIN store) >= Writes
    BY <1>1, <1>5, <2>1, <2>2, ObjectsCount
  <2> QED
    BY <1>1, <1>4, <2>3
<1>6. Saved(layout, r) = {}
  <2>1. \A n \in 1 .. Writes : Finished(r, n)
    BY <1>1 DEF Finished
  <2> QED
    BY <1>5, <2>1
<1>7. ASSUME NEW q \in Rank, Saved(layout, q) # {} PROVE ~work.sync /\ Reads = Writes
  <2>1. Writes # 0
    <3>1. Cardinality(DOMAIN store) \in Nat
      BY FS_CardinalityType DEF CountInv
    <3> QED
      BY <1>1, <1>4, <3>1
  <2>2. PICK part : part \in Saved(layout, q)
    BY <1>7
  <2>3. at[q] >= Writes
    BY DEF CountInv, RanksMeet
  <2>4. Writes - 1 \in Nat /\ Writes - 1 <= Writes
    BY <1>1, <2>1
  <2>5. \A n \in 1 .. Writes - 1 : Finished(q, n)
    BY <1>1, <2>3 DEF Finished
  <2>6. Cardinality(DOMAIN store) \in Nat /\ Cardinality(DOMAIN store) >= Writes - 1
    BY <2>2, <2>4, <2>5, ObjectsCount
  <2>7. Reads = Writes
    BY <1>1, <1>4, <2>6
  <2>8. ASSUME work.sync PROVE FALSE
    <3>1. at[q] > at[r] \/ (at[q] = at[r] /\ pc[q] \in Halted \cup {"saved"})
      BY <2>8 DEF CountInv, RanksSync, Halted
    <3>2. \A n \in 1 .. Writes : Finished(q, n)
      BY <1>1, <3>1 DEF Finished, Halted
    <3> QED
      BY <1>5, <1>7, <3>2
  <2> QED
    BY <2>7, <2>8
<1> QED
  BY <1>3, <1>6, <1>7

(* The count of a rank finds too few, or misses them. *)
TooFew(r) ==
  /\ pc[r] = "next" /\ at[r] = Writes /\ ~Training
  /\ storage # "rooted" /\ Existing < Reads

(* The step by which a rank counts too few, and what stays when it has *)
LEMMA FewStep ==
  ASSUME TypeOK, PlacesAgree, [Next]_vars, NEW r \in Rank', pc'[r] \in {"few", "missed"}
  PROVE  /\ UNCHANGED <<layout, storage, job>> /\ r \in Rank
         /\ \/ pc[r] = pc'[r]
            \/ pc'[r] = "few" /\ TooFew(r)
            \/ pc'[r] = "missed" /\ Misses
<1>1. pc \in [Rank -> Places]
  BY DEF TypeOK
<1>2. CASE StartJob \/ FinishJob \/ Kill
  BY <1>2 DEF StartJob, FinishJob, Kill, Rank
<1>3. ASSUME NEW q \in Rank, CountCheckpoints(q)
      PROVE  /\ UNCHANGED <<layout, storage, job>> /\ r \in Rank
             /\ \/ pc[r] = pc'[r]
                \/ pc'[r] = "few" /\ TooFew(r)
                \/ pc'[r] = "missed" /\ Misses
  <2>1. UNCHANGED <<layout, storage, job>> /\ r \in Rank
    BY <1>3 DEF CountCheckpoints, Rank
  <2>2. CASE q # r
    BY <1>1, <1>3, <2>1, <2>2 DEF CountCheckpoints, Goto
  <2>3. CASE q = r
    BY <1>1, <1>3, <2>1, <2>3 DEF CountCheckpoints, Goto, TooFew
  <2> QED
    BY <2>1, <2>2, <2>3
<1>4. ASSUME NEW q \in Rank,
             \/ NextCheckpoint(q) \/ StartCheckpoint(q) \/ EndCheckpoint(q)
             \/ OpenFile(q) \/ WriteChunk(q) \/ SaveWhole(q) \/ LoadPart(q)
      PROVE  UNCHANGED <<layout, storage, job>> /\ r \in Rank /\ pc[r] = pc'[r]
  <2>1. UNCHANGED <<layout, storage, job>> /\ r \in Rank
    BY <1>4 DEF NextCheckpoint, StartCheckpoint, EndCheckpoint, OpenFile, WriteChunk,
       SaveWhole, LoadPart, Rank
  <2> QED
    BY <1>1, <1>4, <2>1 DEF NextCheckpoint, StartCheckpoint, EndCheckpoint, OpenFile, WriteChunk,
       SaveWhole, LoadPart, Goto
<1>5. CASE UNCHANGED vars
  BY <1>5 DEF vars, Rank
<1> QED
  BY <1>2, <1>3, <1>4, <1>5 DEF Next

(* A rank of a job that writes its checkpoints counts enough of them on a file system
   whose checkpoint folder the count names.  On an object store whose listing has not
   failed it counts too few only if it saves nothing itself, and unless no rank does,
   only without rank_sync and when as many are to be read as were written: for every
   number of ranks, of checkpoints and of jobs before it (main.py 296-305). *)
THEOREM WritersCountAll == Spec => []WritersCountEnough
<1>1. Init => WritersCountEnough
  BY DEF Init, WritersCountEnough
<1>2. StoreInv /\ CountInv /\ WritersCountEnough /\ [Next]_vars => WritersCountEnough'
  <2> SUFFICES ASSUME StoreInv, CountInv, WritersCountEnough, [Next]_vars,
                      NEW r \in Rank', pc'[r] \in {"few", "missed"}, Writes' >= Reads'
               PROVE  /\ storage' # "file"
                      /\ pc'[r] = "few" =>
                           /\ storage' = "object" /\ Saved(layout', r) = {}
                           /\ \/ \A q \in Rank' : Saved(layout', q) = {}
                              \/ ~work'.sync /\ Reads' = Writes'
    BY DEF WritersCountEnough
  <2>1. /\ UNCHANGED <<layout, storage, job>> /\ r \in Rank
        /\ \/ pc[r] = pc'[r]
           \/ pc'[r] = "few" /\ TooFew(r)
           \/ pc'[r] = "missed" /\ Misses
    BY FewStep DEF StoreInv
  <2>2. Rank' = Rank /\ Writes' = Writes /\ Reads' = Reads /\ work' = work
    BY <2>1, SameJob DEF job
  <2>3. /\ storage # "file"
        /\ pc'[r] = "few" =>
             /\ storage = "object" /\ Saved(layout, r) = {}
             /\ \/ \A q \in Rank : Saved(layout, q) = {}
                \/ ~work.sync /\ Reads = Writes
    <3>1. CASE pc[r] = pc'[r]
      BY <2>1, <2>2, <3>1 DEF WritersCountEnough
    <3>2. CASE pc'[r] = "few" /\ TooFew(r)
      BY <2>1, <2>2, <3>2, CountsTooFew DEF TooFew
    <3>3. CASE pc'[r] = "missed" /\ Misses
      BY <3>3 DEF Misses
    <3> QED
      BY <2>1, <3>1, <3>2, <3>3
  <2> QED
    BY <2>1, <2>2, <2>3
<1> QED
  BY <1>1, <1>2, StoreInvariant, CountInvariant, PTL DEF Spec
================================================================================
