-------------------------------- MODULE EpochProofs --------------------------------
(***************************************************************************)
(* What holds of an epoch: of the shares and the loaders, for every dataset *)
(* and number of ranks (the bounds of MCSharding are any), and of what is   *)
(* measured of it, for every number of steps and batches, every checkpoint  *)
(* interval and however long anything takes.  Both need sums.              *)
(*                                                                         *)
(* The argument for the measurements.  In the course of a block the lengths *)
(* of its three lists follow from pc and block_step (OpenBlock), only the   *)
(* last block is open and only while the loop runs (LastOpen), and the      *)
(* distance to the next checkpoint is what the block lacks (Distance), so   *)
(* that the block that a checkpoint ends has steps_between_checkpoints      *)
(* steps.  CheckpointInv does the same for the times.  Then the steps of    *)
(* the blocks add up to those of the epoch (CountInv, LimitInv), and the    *)
(* steps of a block follow one another in its time (Timed).                *)
(***************************************************************************)
EXTENDS MCSharding, Stats, FiniteSetTheorems, SequenceTheorems, WellFoundedInduction, TLAPS

-------------------------------------------------------------------------------
(* Sums *)

(* A non-empty set of naturals has a least element. *)
LEMMA LeastElement ==
  ASSUME NEW T \in SUBSET Nat, T # {}
  PROVE  \E x \in T : \A y \in T : x <= y
<1>1. PICK x \in T : \A y \in T : ~(<<y, x>> \in OpToRel(<, Nat))
  BY NatLessThanWellFounded, WFMin
<1>2. \A y \in T : ~(y < x)
  BY <1>1 DEF OpToRel
<1> QED
  BY <1>2

(* Of the parts of a finite set that are bad, if any are, one has no bad part with
   one element less: induction over finite sets. *)
LEMMA SmallestPart ==
  ASSUME NEW S, IsFiniteSet(S), NEW Bad \in SUBSET SUBSET S, Bad # {}
  PROVE  \E s \in Bad : \A x \in s : s \ {x} \notin Bad
<1> DEFINE Sizes == {k \in Nat : \E s \in Bad : Cardinality(s) = k}
<1>1. \A s \in SUBSET S : IsFiniteSet(s) /\ Cardinality(s) \in Nat
  BY FS_Subset, FS_CardinalityType
<1>2. Sizes # {}
  BY <1>1
<1>3. PICK k \in Sizes : \A y \in Sizes : k <= y
  <2> HIDE DEF Sizes
  <2>1. Sizes \in SUBSET Nat
    BY DEF Sizes
  <2> QED
    BY <1>2, <2>1, LeastElement
<1>4. PICK s \in Bad : Cardinality(s) = k
  OBVIOUS
<1>5. ASSUME NEW x \in s, s \ {x} \in Bad PROVE FALSE
  <2>1. Cardinality(s \ {x}) = Cardinality(s) - 1
    BY <1>1, FS_RemoveElement
  <2>2. Cardinality(s \ {x}) \in Sizes
    BY <1>1, <1>5
  <2>3. k \in Nat
    OBVIOUS
  <2> HIDE DEF Sizes
  <2> QED
    BY <1>3, <1>4, <2>1, <2>2, <2>3
<1> QED
  BY <1>4, <1>5

(* The recursion of SumFunctionOnSet *)
Picked(s) == CHOOSE x \in s : TRUE

IsSum(f, F, S) ==
  f = [s \in SUBSET S |-> IF s = {} THEN 0 ELSE F[Picked(s)] + f[s \ {Picked(s)}]]

(* A sum of the community modules is a fold with a choice of elements. *)
LEMMA SumIs ==
  ASSUME NEW F, NEW S
  PROVE  SumFunctionOnSet(F, S) = (CHOOSE f : IsSum(f, F, S))[S]
  BY DEF SumFunctionOnSet, FoldFunctionOnSet, MapThenFoldSet, IsSum, Picked

(* There is a function by that recursion on the parts of a finite set. *)
LEMMA SumExists ==
  ASSUME NEW F, NEW S, IsFiniteSet(S)
  PROVE  \E f : IsSum(f, F, S)
<1> DEFINE Value(g, s) == IF s = {} THEN 0 ELSE F[Picked(s)] + g[s \ {Picked(s)}]
           Good == {k \in Nat : \E g : \A s \in SUBSET S : Cardinality(s) <= k => g[s] = Value(g, s)}
<1>1. \A s \in SUBSET S : /\ IsFiniteSet(s) /\ Cardinality(s) \in Nat
                          /\ Cardinality(s) <= Cardinality(S)
                          /\ Cardinality(s) = 0 <=> s = {}
  BY FS_Subset, FS_CardinalityType, FS_EmptySet
<1>2. \A s \in SUBSET S : s # {} => /\ Picked(s) \in s /\ s \ {Picked(s)} \in SUBSET S
                                    /\ Cardinality(s \ {Picked(s)}) = Cardinality(s) - 1
  <2> SUFFICES ASSUME NEW s \in SUBSET S, s # {}
               PROVE  /\ Picked(s) \in s /\ s \ {Picked(s)} \in SUBSET S
                      /\ Cardinality(s \ {Picked(s)}) = Cardinality(s) - 1
    OBVIOUS
  <2>1. Picked(s) \in s
    BY DEF Picked
  <2>2. Cardinality(s \ {Picked(s)}) = Cardinality(s) - 1
    BY <1>1, <2>1, FS_RemoveElement
  <2> QED
    BY <2>1, <2>2
<1>3. 0 \in Good
  <2> DEFINE g == [s \in SUBSET S |-> 0]
  <2>1. \A s \in SUBSET S : Cardinality(s) <= 0 => g[s] = Value(g, s)
    BY <1>1
  <2> QED
    BY <2>1
<1>4. ASSUME NEW k \in Good PROVE k + 1 \in Good
  <2>1. PICK g : \A s \in SUBSET S : Cardinality(s) <= k => g[s] = Value(g, s)
    OBVIOUS
  <2> DEFINE h == [s \in SUBSET S |-> Value(g, s)]
  <2>2. ASSUME NEW s \in SUBSET S, Cardinality(s) <= k + 1 PROVE h[s] = Value(h, s)
    <3>1. CASE s = {}
      BY <3>1
    <3>2. CASE s # {}
      <4>1. s \ {Picked(s)} \in SUBSET S /\ Cardinality(s \ {Picked(s)}) <= k
        BY <1>1, <1>2, <2>2, <3>2
      <4>2. g[s \ {Picked(s)}] = h[s \ {Picked(s)}]
        BY <2>1, <4>1
      <4> QED
        BY <3>2, <4>2
    <3> QED
      BY <3>1, <3>2
  <2>3. k + 1 \in Nat
    OBVIOUS
  <2> HIDE DEF h, Value
  <2> QED
    BY <2>2, <2>3
<1> HIDE DEF Good
<1>5. \A k \in Nat : k \in Good
  <2> DEFINE Bad == Nat \ Good
  <2>1. ASSUME Bad # {} PROVE FALSE
    <3>1. PICK k \in Bad : \A y \in Bad : k <= y
      BY <2>1, LeastElement
    <3>2. k # 0
      BY <1>3
    <3>3. k - 1 \in Nat /\ k - 1 \notin Bad
      BY <3>1, <3>2
    <3>4. k - 1 \in Good
      BY <3>3
    <3>5. (k - 1) + 1 = k
      BY <3>1
    <3> QED
      BY <1>4, <3>1, <3>4, <3>5
  <2> QED
    BY <2>1
<1>6. PICK g : \A s \in SUBSET S : Cardinality(s) <= Cardinality(S) => g[s] = Value(g, s)
  <2>1. Cardinality(S) \in Nat
    BY <1>1
  <2> QED
    BY <1>5, <2>1 DEF Good
<1> DEFINE f == [s \in SUBSET S |-> g[s]]
<1>7. \A s \in SUBSET S : f[s] = Value(f, s)
  <2> SUFFICES ASSUME NEW s \in SUBSET S PROVE f[s] = Value(f, s)
    OBVIOUS
  <2>1. f[s] = Value(g, s)
    BY <1>1, <1>6
  <2>2. s # {} => s \ {Picked(s)} \in SUBSET S
    BY <1>2
  <2> QED
    BY <2>1, <2>2
<1>8. f = [s \in SUBSET S |-> Value(f, s)]
  <2>1. f = [s \in SUBSET S |-> f[s]]
    OBVIOUS
  <2> HIDE DEF f, Value
  <2> QED
    BY <1>7, <2>1
<1> HIDE DEF f
<1> QED
  BY <1>8 DEF IsSum

(* The element that comes first makes no difference. *)
LEMMA SumByAny ==
  ASSUME NEW F, NEW S, IsFiniteSet(S), \A x \in S : F[x] \in Int, NEW f, IsSum(f, F, S)
  PROVE  /\ f[{}] = 0
         /\ \A s \in SUBSET S : f[s] \in Int
         /\ \A s \in SUBSET S : \A x \in s : f[s] = F[x] + f[s \ {x}]
<1>1. \A s \in SUBSET S : f[s] = IF s = {} THEN 0 ELSE F[Picked(s)] + f[s \ {Picked(s)}]
  BY DEF IsSum
<1>2. \A s \in SUBSET S : s # {} => Picked(s) \in s
  BY DEF Picked
<1>3. f[{}] = 0
  BY <1>1
<1>4. \A s \in SUBSET S : f[s] \in Int
  <2> DEFINE Bad == {s \in SUBSET S : f[s] \notin Int}
  <2>1. ASSUME Bad # {} PROVE FALSE
    <3>1. PICK s \in Bad : \A x \in s : s \ {x} \notin Bad
      BY <2>1, SmallestPart
    <3>2. s # {}
      BY <1>3
    <3>3. Picked(s) \in s /\ s \ {Picked(s)} \in SUBSET S /\ F[Picked(s)] \in Int
      BY <1>2, <3>2
    <3>4. f[s \ {Picked(s)}] \in Int
      BY <3>1, <3>3
    <3> QED
      BY <1>1, <3>2, <3>3, <3>4
  <2> QED
    BY <2>1
<1>5. \A s \in SUBSET S : \A x \in s : f[s] = F[x] + f[s \ {x}]
  <2> DEFINE Bad == {s \in SUBSET S : \E x \in s : f[s] # F[x] + f[s \ {x}]}
  <2>1. ASSUME Bad # {} PROVE FALSE
    <3>1. PICK s \in Bad : \A x \in s : s \ {x} \notin Bad
      BY <2>1, SmallestPart
    <3>2. PICK x \in s : f[s] # F[x] + f[s \ {x}]
      OBVIOUS
    <3>3. PICK p \in s : p = Picked(s) /\ f[s] = F[p] + f[s \ {p}]
      BY <1>1, <1>2, <3>2
    <3>4. x # p
      BY <3>2, <3>3
    <3>5. f[s \ {p}] = F[x] + f[(s \ {p}) \ {x}]
      BY <3>1, <3>4
    <3>6. f[s \ {x}] = F[p] + f[(s \ {x}) \ {p}]
      BY <3>1, <3>4
    <3>7. (s \ {p}) \ {x} = (s \ {x}) \ {p}
      OBVIOUS
    <3>8. PICK a \in Int, b \in Int, c \in Int : a = F[p] /\ b = F[x] /\ c = f[(s \ {x}) \ {p}]
      BY <1>4
    <3>9. f[s \ {p}] = b + c /\ f[s \ {x}] = a + c
      BY <3>5, <3>6, <3>7, <3>8
    <3>10. f[s] = a + (b + c) /\ f[s] # b + (a + c)
      BY <3>2, <3>3, <3>8, <3>9
    <3> QED
      BY <3>8, <3>10
  <2> QED
    BY <2>1
<1> QED
  BY <1>3, <1>4, <1>5

(* Of nothing, zero *)
LEMMA SumOfEmpty ==
  ASSUME NEW F
  PROVE  SumFunctionOnSet(F, {}) = 0
<1>1. IsFiniteSet({})
  BY FS_EmptySet
<1>2. IsSum(CHOOSE f : IsSum(f, F, {}), F, {})
  BY <1>1, SumExists
<1> QED
  BY <1>1, <1>2, SumIs, SumByAny

(* A sum is one element and the sum of the others. *)
LEMMA SumAdd ==
  ASSUME NEW F, NEW S, IsFiniteSet(S), \A x \in S : F[x] \in Int, NEW x \in S
  PROVE  SumFunctionOnSet(F, S) = F[x] + SumFunctionOnSet(F, S \ {x})
<1> DEFINE T == S \ {x}
<1>1. IsFiniteSet(T) /\ \A y \in T : F[y] \in Int
  BY FS_Subset
<1>2. PICK f : IsSum(f, F, S) /\ SumFunctionOnSet(F, S) = f[S]
  BY SumExists, SumIs
<1>3. PICK g : IsSum(g, F, T) /\ SumFunctionOnSet(F, T) = g[T]
  BY <1>1, SumExists, SumIs
<1>4. /\ f[{}] = 0 /\ \A s \in SUBSET S : \A y \in s : f[s] = F[y] + f[s \ {y}]
  BY <1>2, SumByAny
<1>5. /\ g[{}] = 0 /\ \A s \in SUBSET T : \A y \in s : g[s] = F[y] + g[s \ {y}]
  <2> HIDE DEF T
  <2> QED
    BY <1>1, <1>3, SumByAny
<1>6. \A s \in SUBSET T : f[s] = g[s]
  <2> DEFINE Bad == {s \in SUBSET T : f[s] # g[s]}
  <2>1. ASSUME Bad # {} PROVE FALSE
    <3>1. PICK s \in Bad : \A y \in s : s \ {y} \notin Bad
      <4> HIDE DEF T
      <4> QED
        BY <1>1, <2>1, SmallestPart
    <3>2. PICK y \in s : TRUE
      BY <1>4, <1>5
    <3>3. s \in SUBSET S /\ s \ {y} \in SUBSET T
      BY <3>1
    <3>4. f[s \ {y}] = g[s \ {y}]
      BY <3>1, <3>2, <3>3
    <3>5. f[s] = F[y] + f[s \ {y}] /\ g[s] = F[y] + g[s \ {y}]
      BY <1>4, <1>5, <3>2, <3>3
    <3> QED
      BY <3>4, <3>5
  <2> QED
    BY <2>1
<1>7. f[S] = F[x] + f[T] /\ f[T] = g[T]
  BY <1>4, <1>6
<1> QED
  BY <1>2, <1>3, <1>7

(* A sum of integers is one. *)
LEMMA SumTyped ==
  ASSUME NEW F, NEW S, IsFiniteSet(S), \A x \in S : F[x] \in Int
  PROVE  SumFunctionOnSet(F, S) \in Int
<1>1. PICK f : IsSum(f, F, S) /\ SumFunctionOnSet(F, S) = f[S]
  BY SumExists, SumIs
<1> QED
  BY <1>1, SumByAny

(* Sums of the same numbers *)
LEMMA SumSame ==
  ASSUME NEW F, NEW G, NEW S, IsFiniteSet(S), \A x \in S : F[x] \in Int /\ G[x] = F[x]
  PROVE  SumFunctionOnSet(G, S) = SumFunctionOnSet(F, S)
<1> DEFINE Bad == {s \in SUBSET S : SumFunctionOnSet(G, s) # SumFunctionOnSet(F, s)}
<1>1. ASSUME Bad # {} PROVE FALSE
  <2>1. PICK s \in Bad : \A x \in s : s \ {x} \notin Bad
    BY <1>1, SmallestPart
  <2>2. s # {}
    BY SumOfEmpty
  <2>3. PICK x \in s : TRUE
    BY <2>2
  <2>4. IsFiniteSet(s) /\ \A y \in s : F[y] \in Int /\ G[y] \in Int
    BY FS_Subset
  <2>5. /\ SumFunctionOnSet(F, s) = F[x] + SumFunctionOnSet(F, s \ {x})
        /\ SumFunctionOnSet(G, s) = G[x] + SumFunctionOnSet(G, s \ {x})
    BY <2>3, <2>4, SumAdd
  <2>6. SumFunctionOnSet(G, s \ {x}) = SumFunctionOnSet(F, s \ {x})
    BY <2>1, <2>3
  <2>7. G[x] = F[x]
    BY <2>3
  <2> QED
    BY <2>5, <2>6, <2>7
<1> QED
  BY <1>1

(* Of numbers no less, a sum no less *)
LEMMA SumAtMost ==
  ASSUME NEW F, NEW G, NEW S, IsFiniteSet(S),
         \A x \in S : F[x] \in Int /\ G[x] \in Int /\ F[x] <= G[x]
  PROVE  SumFunctionOnSet(F, S) <= SumFunctionOnSet(G, S)
<1> DEFINE Bad == {s \in SUBSET S : ~(SumFunctionOnSet(F, s) <= SumFunctionOnSet(G, s))}
<1>1. ASSUME Bad # {} PROVE FALSE
  <2>1. PICK s \in Bad : \A x \in s : s \ {x} \notin Bad
    BY <1>1, SmallestPart
  <2>2. s # {}
    BY SumOfEmpty
  <2>3. PICK x \in s : TRUE
    BY <2>2
  <2>4. IsFiniteSet(s) /\ IsFiniteSet(s \ {x}) /\ \A y \in s : F[y] \in Int /\ G[y] \in Int
    BY FS_Subset
  <2>5. /\ SumFunctionOnSet(F, s) = F[x] + SumFunctionOnSet(F, s \ {x})
        /\ SumFunctionOnSet(G, s) = G[x] + SumFunctionOnSet(G, s \ {x})
    BY <2>3, <2>4, SumAdd
  <2>6. SumFunctionOnSet(F, s \ {x}) <= SumFunctionOnSet(G, s \ {x})
    BY <2>1, <2>3
  <2>7. SumFunctionOnSet(F, s \ {x}) \in Int /\ SumFunctionOnSet(G, s \ {x}) \in Int
    BY <2>4, SumTyped
  <2>8. F[x] \in Int /\ G[x] \in Int /\ F[x] <= G[x]
    BY <2>3
  <2>9. SumFunctionOnSet(F, s) <= SumFunctionOnSet(G, s)
    BY <2>5, <2>6, <2>7, <2>8
  <2> QED
    BY <2>9
<1> QED
  BY <1>1

(* The sum of one number, as often as there are elements *)
LEMMA SumOfSame ==
  ASSUME NEW F, NEW S, IsFiniteSet(S), NEW c \in Int, \A x \in S : F[x] = c
  PROVE  SumFunctionOnSet(F, S) = Cardinality(S) * c
<1> DEFINE Bad == {s \in SUBSET S : SumFunctionOnSet(F, s) # Cardinality(s) * c}
<1>1. ASSUME Bad # {} PROVE FALSE
  <2>1. PICK s \in Bad : \A x \in s : s \ {x} \notin Bad
    BY <1>1, SmallestPart
  <2>2. s # {}
    <3>1. SumFunctionOnSet(F, {}) = 0 /\ Cardinality({}) = 0
      BY SumOfEmpty, FS_EmptySet
    <3> QED
      BY <3>1
  <2>3. PICK x \in s : TRUE
    BY <2>2
  <2>4. IsFiniteSet(s) /\ \A y \in s : F[y] \in Int
    BY FS_Subset
  <2>5. SumFunctionOnSet(F, s) = F[x] + SumFunctionOnSet(F, s \ {x})
    BY <2>3, <2>4, SumAdd
  <2>6. SumFunctionOnSet(F, s \ {x}) = Cardinality(s \ {x}) * c
    BY <2>1, <2>3
  <2>7. Cardinality(s \ {x}) = Cardinality(s) - 1 /\ Cardinality(s) \in Nat
    BY <2>3, <2>4, FS_RemoveElement, FS_CardinalityType
  <2>8. PICK n \in Nat : n = Cardinality(s)
    BY <2>7
  <2>9. (n - 1) * c = n * c - c /\ n * c \in Int
    OBVIOUS
  <2>10. SumFunctionOnSet(F, s) = n * c
    BY <2>3, <2>5, <2>6, <2>7, <2>8, <2>9
  <2> QED
    BY <2>8, <2>10
<1> QED
  BY <1>1

(* Sums over two sets without a common element *)
LEMMA SumOfBoth ==
  ASSUME NEW F, NEW S, NEW T, IsFiniteSet(S), IsFiniteSet(T), S \cap T = {},
         \A x \in S \cup T : F[x] \in Int
  PROVE  SumFunctionOnSet(F, S \cup T) = SumFunctionOnSet(F, S) + SumFunctionOnSet(F, T)
<1> DEFINE Bad == {s \in SUBSET S : SumFunctionOnSet(F, s \cup T)
                                     # SumFunctionOnSet(F, s) + SumFunctionOnSet(F, T)}
<1>1. SumFunctionOnSet(F, T) \in Int
  BY SumTyped
<1>2. ASSUME Bad # {} PROVE FALSE
  <2>1. PICK s \in Bad : \A x \in s : s \ {x} \notin Bad
    BY <1>2, SmallestPart
  <2>2. s # {}
    <3>1. SumFunctionOnSet(F, {}) = 0 /\ {} \cup T = T
      BY SumOfEmpty
    <3> QED
      BY <1>1, <3>1
  <2>3. PICK x \in s : TRUE
    BY <2>2
  <2>4. /\ IsFiniteSet(s) /\ IsFiniteSet(s \cup T) /\ IsFiniteSet(s \ {x})
        /\ \A y \in s \cup T : F[y] \in Int
    BY FS_Subset, FS_Union
  <2>5. SumFunctionOnSet(F, s) = F[x] + SumFunctionOnSet(F, s \ {x})
    BY <2>3, <2>4, SumAdd
  <2>6. SumFunctionOnSet(F, s \cup T) = F[x] + SumFunctionOnSet(F, (s \cup T) \ {x})
    BY <2>3, <2>4, SumAdd
  <2>7. (s \cup T) \ {x} = (s \ {x}) \cup T
    BY <2>3
  <2>8. SumFunctionOnSet(F, (s \ {x}) \cup T)
          = SumFunctionOnSet(F, s \ {x}) + SumFunctionOnSet(F, T)
    BY <2>1, <2>3
  <2>9. SumFunctionOnSet(F, s \ {x}) \in Int /\ F[x] \in Int
    BY <2>3, <2>4, SumTyped
  <2>10. PICK a \in Int, b \in Int, c \in Int :
           a = F[x] /\ b = SumFunctionOnSet(F, s \ {x}) /\ c = SumFunctionOnSet(F, T)
    BY <1>1, <2>9
  <2>11. SumFunctionOnSet(F, s \cup T) = a + (b + c)
    BY <2>6, <2>7, <2>8, <2>10
  <2>12. SumFunctionOnSet(F, s) = a + b
    BY <2>5, <2>10
  <2>13. (a + b) + c = a + (b + c)
    OBVIOUS
  <2>14. SumFunctionOnSet(F, s \cup T) = SumFunctionOnSet(F, s) + SumFunctionOnSet(F, T)
    BY <2>10, <2>11, <2>12, <2>13
  <2> QED
    BY <2>14
<1> QED
  BY <1>2

(* A part of natural numbers has no greater sum. *)
LEMMA SumOfPart ==
  ASSUME NEW F, NEW S, NEW T, IsFiniteSet(S), T \subseteq S, \A x \in S : F[x] \in Nat
  PROVE  /\ SumFunctionOnSet(F, T) \in Nat /\ SumFunctionOnSet(F, S) \in Nat
         /\ SumFunctionOnSet(F, T) <= SumFunctionOnSet(F, S)
<1> DEFINE zero == [x \in S |-> 0]
<1>1. ASSUME NEW s \in SUBSET S PROVE SumFunctionOnSet(F, s) \in Nat
  <2>1. IsFiniteSet(s) /\ Cardinality(s) \in Nat
    BY FS_Subset, FS_CardinalityType
  <2>2. SumFunctionOnSet(zero, s) = Cardinality(s) * 0
    BY <2>1, SumOfSame
  <2>3. SumFunctionOnSet(zero, s) = 0
    BY <2>1, <2>2
  <2>4. \A x \in s : zero[x] \in Int /\ F[x] \in Int /\ zero[x] <= F[x]
    OBVIOUS
  <2> HIDE DEF zero
  <2>5. SumFunctionOnSet(zero, s) <= SumFunctionOnSet(F, s)
    BY <2>1, <2>4, SumAtMost
  <2>6. SumFunctionOnSet(F, s) \in Int
    BY <2>1, <2>4, SumTyped
  <2> QED
    BY <2>3, <2>5, <2>6
<1>2. SumFunctionOnSet(F, T \cup (S \ T))
        = SumFunctionOnSet(F, T) + SumFunctionOnSet(F, S \ T)
  <2>1. IsFiniteSet(T) /\ IsFiniteSet(S \ T)
    BY FS_Subset
  <2>2. T \cap (S \ T) = {} /\ \A x \in T \cup (S \ T) : F[x] \in Int
    OBVIOUS
  <2> QED
    BY <2>1, <2>2, SumOfBoth
<1>3. T \cup (S \ T) = S
  OBVIOUS
<1>4. /\ SumFunctionOnSet(F, T) \in Nat /\ SumFunctionOnSet(F, S \ T) \in Nat
      /\ SumFunctionOnSet(F, S) \in Nat
  BY <1>1
<1> QED
  BY <1>2, <1>3, <1>4

-------------------------------------------------------------------------------
(* Shares *)

(* Division, by its two inequalities *)
LEMMA Quotient ==
  ASSUME NEW a \in Nat, NEW b \in Nat \ {0}
  PROVE  a \div b \in Nat /\ b * (a \div b) <= a /\ a < b * (a \div b) + b
  OBVIOUS

(* ceil(a / b) times b covers a. *)
LEMMA CeilCovers ==
  ASSUME NEW a \in Nat, NEW b \in Nat \ {0}
  PROVE  CeilDiv(a, b) \in Nat /\ b * CeilDiv(a, b) >= a
<1>1. a + b - 1 \in Nat
  OBVIOUS
<1> QED
  BY <1>1, Quotient DEF CeilDiv

(* A number is between two multiples that follow each other in one way. *)
LEMMA OneMultiple ==
  ASSUME NEW n \in Nat, NEW r \in Nat, NEW q \in Nat, NEW s \in Nat,
         r * n <= s, s < (r + 1) * n, q * n <= s, s < (q + 1) * n
  PROVE  r = q
<1>1. ASSUME NEW x \in Nat, NEW y \in Nat, x < y PROVE (x + 1) * n <= y * n
  <2>1. PICK d \in Nat : y = x + 1 + d
    BY <1>1, y - x - 1 \in Nat
  <2>2. d * n \in Nat /\ y * n = (x + 1) * n + d * n
    BY <2>1
  <2> QED
    BY <2>2
<1>2. \A x \in Nat : x * n \in Nat /\ (x + 1) * n \in Nat
  OBVIOUS
<1>3. ~(r < q)
  BY <1>1, <1>2
<1>4. ~(q < r)
  BY <1>1, <1>2
<1> QED
  BY <1>3, <1>4

(* A share, without its two cases *)
LEMMA ShareIs ==
  ASSUME NEW size \in Nat \ {0}, NEW total \in Nat, NEW r \in Nat, NEW s \in 0 .. total - 1
  PROVE  s \in Share(r, size, total) <=>
           r * SamplesPerProc(total, size) <= s /\ s < (r + 1) * SamplesPerProc(total, size)
<1>1. PICK n \in Nat : n = SamplesPerProc(total, size)
  BY CeilCovers DEF SamplesPerProc
<1>2. r * n \in Nat /\ (r + 1) * n \in Nat
  OBVIOUS
<1> QED
  BY <1>1, <1>2 DEF Share

(* The share of a sample is that of its quotient by the size of a share. *)
LEMMA ShareOfSample ==
  ASSUME NEW size \in Nat \ {0}, NEW total \in Nat, NEW s \in 0 .. total - 1
  PROVE  \E r \in 0 .. size - 1 :
           \A q \in 0 .. size - 1 : s \in Share(q, size, total) <=> q = r
<1>1. PICK n \in Nat : n = SamplesPerProc(total, size) /\ size * n >= total
  BY CeilCovers DEF SamplesPerProc
<1>2. n # 0
  BY <1>1
<1>3. PICK r \in Nat : r = s \div n /\ n * r <= s /\ s < n * r + n
  BY <1>2, Quotient
<1>4. r * n <= s /\ s < (r + 1) * n
  BY <1>3
<1>5. r < size
  <2>1. ASSUME r >= size PROVE FALSE
    <3>1. PICK d \in Nat : r = size + d
      BY <2>1, r - size \in Nat
    <3>2. d * n \in Nat /\ r * n = size * n + d * n
      BY <3>1
    <3> QED
      BY <1>1, <1>4, <3>2
  <2> QED
    BY <2>1
<1>6. ASSUME NEW q \in 0 .. size - 1
      PROVE  s \in Share(q, size, total) <=> q = r
  <2>1. s \in Share(q, size, total) <=> q * n <= s /\ s < (q + 1) * n
    BY <1>1, ShareIs
  <2>2. q * n <= s /\ s < (q + 1) * n => q = r
    BY <1>4, OneMultiple
  <2> QED
    BY <1>4, <2>1, <2>2
<1> QED
  BY <1>5, <1>6

(* The dataset is one of the configured ones throughout. *)
LEMMA ShapeStays == ShapeSpec => [](shape \in Shapes)
<1>1. ShapeInit => shape \in Shapes
  BY DEF ShapeInit
<1>2. shape \in Shapes /\ [ShapeNext]_shape => (shape \in Shapes)'
  BY DEF ShapeNext
<1> QED
  BY <1>1, <1>2, PTL DEF ShapeSpec

(* The numbers of a dataset *)
LEMMA ShapeFacts ==
  ASSUME shape \in Shapes
  PROVE  /\ shape.size \in Nat \ {0} /\ shape.batch \in Nat \ {0}
         /\ shape.files \in Nat \ {0} /\ shape.perFile \in Nat \ {0}
         /\ shape.threads \in Nat \ {0} /\ Total \in Nat
<1>1. /\ shape.size \in Nat \ {0} /\ shape.batch \in Nat \ {0}
      /\ shape.files \in Nat \ {0} /\ shape.perFile \in Nat \ {0}
      /\ shape.threads \in Nat \ {0}
  BY ShardingAssumption DEF Shapes
<1> QED
  BY <1>1 DEF Total

(* Every sample is in the share of exactly one rank, for every dataset and number of
   ranks (config.py 795-800). *)
THEOREM SharesPartition == ShapeSpec => []SamplesPartitioned
<1>1. shape \in Shapes => SamplesPartitioned
  <2> SUFFICES ASSUME shape \in Shapes, NEW s \in 0 .. Total - 1
               PROVE  Cardinality({r \in Ranks : s \in Share(r, shape.size, Total)}) = 1
    BY DEF SamplesPartitioned
  <2>1. PICK r \in Ranks : \A q \in Ranks : s \in Share(q, shape.size, Total) <=> q = r
    BY ShapeFacts, ShareOfSample DEF Ranks
  <2>2. {q \in Ranks : s \in Share(q, shape.size, Total)} = {r}
    BY <2>1
  <2> QED
    BY <2>2, FS_Singleton
<1> QED
  BY <1>1, ShapeStays, PTL

-------------------------------------------------------------------------------
(* The loaders that index *)

(* A quotient is the largest multiple that fits. *)
LEMMA QuotientIsMost ==
  ASSUME NEW a \in Nat, NEW b \in Nat \ {0}, NEW k \in Nat, k * b <= a
  PROVE  k <= a \div b
<1>1. PICK d \in Nat : d = a \div b /\ a < b * d + b
  BY Quotient
<1>2. ASSUME k > d PROVE FALSE
  <2>1. PICK e \in Nat : k = d + 1 + e
    BY <1>2, k - d - 1 \in Nat
  <2>2. e * b \in Nat /\ k * b = d * b + b + e * b
    BY <2>1
  <2> QED
    BY <1>1, <2>2
<1> QED
  BY <1>1, <1>2

(* A rank with a whole share has a batch for each step that it may take. *)
LEMMA WholeShareKeepsUp ==
  ASSUME NEW size \in Nat \ {0}, NEW total \in Nat, NEW batch \in Nat \ {0}, NEW k \in Nat,
         k >= SamplesPerProc(total, size)
  PROVE  MaxStepsOf(size, total, batch) <= k \div batch
         /\ MaxStepsOf(size, total, batch) <= total \div batch
<1>1. PICK m \in Nat : m = total \div batch /\ batch * m <= total
  BY Quotient
<1>2. PICK st \in Nat : st = m \div size /\ size * st <= m
  BY Quotient
<1>3. MaxStepsOf(size, total, batch) = st
  BY <1>1, <1>2 DEF MaxStepsOf
<1>4. PICK n \in Nat : n = SamplesPerProc(total, size) /\ size * n >= total /\ k >= n
  BY CeilCovers DEF SamplesPerProc
<1>5. st * batch <= n
  <2>1. ASSUME st * batch > n PROVE FALSE
    <3>1. PICK d \in Nat : st * batch = n + 1 + d
      BY <2>1, st * batch - n - 1 \in Nat
    <3>2. size * d \in Nat /\ size * (st * batch) = size * n + size + size * d
      BY <3>1
    <3>3. PICK f \in Nat : m = size * st + f
      <4>1. size * st \in Nat
        OBVIOUS
      <4> QED
        BY <1>2, <4>1, m - size * st \in Nat
    <3>4. batch * f \in Nat /\ batch * m = batch * (size * st) + batch * f
      BY <3>3
    <3>5. batch * (size * st) = size * (st * batch)
      OBVIOUS
    <3> QED
      BY <1>1, <1>4, <3>2, <3>4, <3>5
  <2> QED
    BY <2>1
<1>6. st <= m
  <2>1. PICK d \in Nat : size = d + 1
    BY size - 1 \in Nat
  <2>2. d * st \in Nat /\ size * st = st + d * st
    BY <2>1
  <2> QED
    BY <1>2, <2>2
<1> QED
  BY <1>1, <1>3, <1>4, <1>5, <1>6, QuotientIsMost

(* The loaders that index have a batch for every step on every rank with a whole
   share, so that it leaves the loop of _train with the others, for every dataset,
   batch size and number of ranks (main.py 360, torch_data_loader.py 106-152). *)
THEOREM WholeSharesKeepUp ==
  ShapeSpec => [](\A r \in Ranks :
               ShareSize(r, shape.size, Total) = SamplesPerProc(Total, shape.size) =>
                 LET steps == MaxStepsOf(shape.size, Total, shape.batch)
                 IN  /\ TorchBatches(r, shape.size, Total, shape.batch) >= steps
                     /\ DaliBatches(r, shape.size, Total, shape.batch) >= steps)
<1>1. shape \in Shapes =>
        \A r \in Ranks :
          ShareSize(r, shape.size, Total) = SamplesPerProc(Total, shape.size) =>
            LET steps == MaxStepsOf(shape.size, Total, shape.batch)
            IN  /\ TorchBatches(r, shape.size, Total, shape.batch) >= steps
                /\ DaliBatches(r, shape.size, Total, shape.batch) >= steps
  <2> SUFFICES ASSUME shape \in Shapes, NEW r \in Ranks,
                      ShareSize(r, shape.size, Total) = SamplesPerProc(Total, shape.size)
               PROVE  LET steps == MaxStepsOf(shape.size, Total, shape.batch)
                      IN  /\ TorchBatches(r, shape.size, Total, shape.batch) >= steps
                          /\ DaliBatches(r, shape.size, Total, shape.batch) >= steps
    OBVIOUS
  <2>1. PICK k \in Nat : k = SamplesPerProc(Total, shape.size)
    BY ShapeFacts, CeilCovers DEF SamplesPerProc
  <2>2. MaxStepsOf(shape.size, Total, shape.batch) <= k \div shape.batch
        /\ MaxStepsOf(shape.size, Total, shape.batch) <= Total \div shape.batch
    <3>1. k >= SamplesPerProc(Total, shape.size)
      BY <2>1
    <3> QED
      BY <3>1, ShapeFacts, WholeShareKeepsUp
  <2>3. k \div shape.batch \in Nat /\ Total \div shape.batch \in Nat
        /\ MaxStepsOf(shape.size, Total, shape.batch) \in Nat
    BY ShapeFacts, Quotient DEF MaxStepsOf
  <2> QED
    BY <2>1, <2>2, <2>3 DEF TorchBatches, DaliBatches
<1> QED
  BY <1>1, ShapeStays, PTL

(* The synthetic loader's last step is missing, which a second rank's share makes up
   for. *)
LEMMA HalfOrLess ==
  ASSUME NEW m \in Nat \ {0}, NEW size \in Nat, size > 1
  PROVE  m \div size \in Nat /\ m \div size <= m - 1
<1>1. PICK q \in Nat : q = m \div size /\ size * q <= m
  BY Quotient
<1>2. PICK d \in Nat : size = d + 2
  BY size - 2 \in Nat
<1>3. d * q \in Nat /\ size * q = 2 * q + d * q
  BY <1>2
<1> QED
  BY <1>1, <1>3

-------------------------------------------------------------------------------
(* Datasets that the ranks divide *)

(* The quotient and the rest of a number are known from its place in a block. *)
LEMMA Coordinates ==
  ASSUME NEW n \in Nat \ {0}, NEW f \in Nat, NEW i \in 0 .. n - 1
  PROVE  (n * f + i) \div n = f /\ (n * f + i) % n = i
<1> DEFINE a == n * f + i
<1>1. a \in Nat
  OBVIOUS
<1>2. PICK q \in Nat : q = a \div n /\ n * q <= a /\ a < n * q + n
  BY <1>1, Quotient
<1>3. q = f
  BY <1>1, <1>2, OneMultiple
<1>4. a = n * (a \div n) + (a % n)
  BY <1>1
<1> QED
  BY <1>2, <1>3, <1>4

(* A number, its quotient and its rest *)
LEMMA Rest ==
  ASSUME NEW a \in Nat, NEW n \in Nat \ {0}
  PROVE  a % n \in 0 .. n - 1 /\ a = n * (a \div n) + (a % n)
  OBVIOUS

(* A number below a multiple has a smaller quotient. *)
LEMMA QuotientBelow ==
  ASSUME NEW n \in Nat \ {0}, NEW k \in Nat, NEW a \in Nat, a < k * n
  PROVE  a \div n \in Nat /\ a \div n < k
<1>1. PICK q \in Nat : q = a \div n /\ n * q <= a
  BY Quotient
<1>2. ASSUME q >= k PROVE FALSE
  <2>1. PICK d \in Nat : q = k + d
    BY <1>2, q - k \in Nat
  <2>2. d * n \in Nat /\ n * q = k * n + d * n
    BY <2>1
  <2> QED
    BY <1>1, <2>2
<1> QED
  BY <1>1, <1>2

(* A block and the next end within as many blocks as there are. *)
LEMMA BlockWithin ==
  ASSUME NEW size \in Nat \ {0}, NEW n \in Nat, NEW r \in 0 .. size - 1
  PROVE  r * n \in Nat /\ size * n \in Nat /\ r * n + n <= size * n
<1>1. PICK d \in Nat : size = r + 1 + d
  BY size - r - 1 \in Nat
<1>2. d * n \in Nat /\ size * n = r * n + n + d * n
  BY <1>1
<1> QED
  BY <1>2

(* Where the ranks divide the samples all shares are whole. *)
LEMMA EvenShare ==
  ASSUME NEW size \in Nat \ {0}, NEW n \in Nat, NEW r \in 0 .. size - 1
  PROVE  /\ SamplesPerProc(size * n, size) = n
         /\ Share(r, size, size * n) = r * n .. r * n + n - 1
         /\ ShareSize(r, size, size * n) = n
<1>1. SamplesPerProc(size * n, size) = n
  <2>1. size - 1 \in 0 .. size - 1 /\ size * n + size - 1 = size * n + (size - 1)
    OBVIOUS
  <2>2. (size * n + (size - 1)) \div size = n
    BY <2>1, Coordinates
  <2> QED
    BY <2>1, <2>2 DEF SamplesPerProc, CeilDiv
<1>2. r * n \in Nat /\ size * n \in Nat /\ r * n + n <= size * n
  BY BlockWithin
<1>3. Share(r, size, size * n) = r * n .. r * n + n - 1
  <2>1. (r + 1) * n = r * n + n
    OBVIOUS
  <2> QED
    BY <1>1, <1>2, <2>1 DEF Share
<1>4. ShareSize(r, size, size * n) = n
  <2>1. PICK a \in Nat : a = r * n
    BY <1>2
  <2>2. a \in Int /\ a + n - 1 \in Int /\ (a + n - 1) - a + 1 = n /\ (a > a + n - 1 => n = 0)
    BY <2>1
  <2>3. Cardinality(a .. a + n - 1) = IF a > a + n - 1 THEN 0 ELSE (a + n - 1) - a + 1
    BY <2>2, FS_Interval
  <2> QED
    BY <1>3, <2>1, <2>2, <2>3 DEF ShareSize
<1> QED
  BY <1>1, <1>3, <1>4

(* The loaders that index have a batch for every step on every rank with a whole
   share, and on all if the ranks divide the samples; the synthetic one in every
   job of more than one rank: for every dataset, batch size and number of ranks
   (main.py 360, torch_data_loader.py 106-152). *)
THEOREM IndexLoaders == ShapeSpec => []IndexLoadersKeepUp
<1>1. ASSUME shape \in Shapes PROVE IndexLoadersKeepUp
  <2> DEFINE steps == MaxStepsOf(shape.size, Total, shape.batch)
             whole == SamplesPerProc(Total, shape.size)
  <2>1. /\ shape.size \in Nat \ {0} /\ shape.batch \in Nat \ {0} /\ Total \in Nat
    BY <1>1, ShapeFacts
  <2>2. PICK k \in Nat : k = whole
    BY <2>1, CeilCovers DEF SamplesPerProc
  <2>3. /\ steps <= k \div shape.batch /\ steps <= Total \div shape.batch
        /\ k \div shape.batch \in Nat /\ Total \div shape.batch \in Nat /\ steps \in Nat
    <3>1. k >= SamplesPerProc(Total, shape.size)
      BY <2>2
    <3> QED
      BY <2>1, <3>1, WholeShareKeepsUp, Quotient DEF MaxStepsOf
  <2>4. ASSUME NEW r \in Ranks, Divides(shape.size, Total)
        PROVE  ShareSize(r, shape.size, Total) = whole
    <3>1. PICK n \in Nat : n = Total \div shape.size
      BY <2>1, Quotient
    <3>2. Total = shape.size * n
      <4>1. Total = shape.size * (Total \div shape.size) + (Total % shape.size)
        BY <2>1
      <4> QED
        BY <2>1, <2>4, <3>1, <4>1 DEF Divides
    <3>3. r \in 0 .. shape.size - 1
      BY DEF Ranks
    <3>4. /\ SamplesPerProc(shape.size * n, shape.size) = n
          /\ ShareSize(r, shape.size, shape.size * n) = n
      BY <2>1, <3>3, EvenShare
    <3> QED
      BY <3>2, <3>4
  <2>5. ASSUME NEW r \in Ranks,
               ShareSize(r, shape.size, Total) = whole \/ Divides(shape.size, Total)
        PROVE  /\ TorchBatches(r, shape.size, Total, shape.batch) >= steps
               /\ DaliBatches(r, shape.size, Total, shape.batch) >= steps
    <3>1. ShareSize(r, shape.size, Total) = k
      BY <2>2, <2>4, <2>5
    <3> QED
      BY <2>3, <3>1 DEF TorchBatches, DaliBatches
  <2>6. ASSUME shape.size > 1 PROVE SyntheticBatches(Total, shape.batch) >= steps
    <3>1. PICK m \in Nat : m = Total \div shape.batch
      BY <2>3
    <3>2. steps = m \div shape.size
      BY <3>1 DEF MaxStepsOf
    <3>3. CASE m = 0
      <4>1. PICK q \in Nat : q = m \div shape.size /\ shape.size * q <= m
        BY <2>1, Quotient
      <4>2. q = 0
        BY <2>1, <3>3, <4>1
      <4> QED
        BY <3>1, <3>2, <3>3, <4>1, <4>2 DEF SyntheticBatches
    <3>4. CASE m # 0
      <4>1. m \div shape.size \in Nat /\ m \div shape.size <= m - 1
        BY <2>1, <2>6, <3>4, HalfOrLess
      <4> QED
        BY <3>1, <3>2, <3>4, <4>1 DEF SyntheticBatches
    <3> QED
      BY <3>3, <3>4
  <2> QED
    BY <2>5, <2>6 DEF IndexLoadersKeepUp
<1> QED
  BY <1>1, ShapeStays, PTL

-------------------------------------------------------------------------------
(* Building the maps *)

(* A rank divides by zero only if a rank's samples are fewer than its threads, and a
   rank that does not has no sample. *)
LEMMA RaisesFor ==
  ASSUME NEW size \in Nat \ {0}, NEW total \in Nat, NEW threads \in Nat \ {0},
         NEW r \in Nat, NEW q \in Nat,
         BuildRaises(r, size, total, threads), ~BuildRaises(q, size, total, threads)
  PROVE  /\ SamplesPerProc(total, size) < threads
         /\ q * SamplesPerProc(total, size) >= total
<1>1. PICK n \in Nat : n = SamplesPerProc(total, size)
  BY CeilCovers DEF SamplesPerProc
<1>2. n \div threads = 0
  BY <1>1 DEF BuildRaises, SamplesPerThread
<1>3. n < threads
  <2>1. n < threads * (n \div threads) + threads
    BY Quotient
  <2> QED
    BY <1>2, <2>1
<1>4. ~(ShareSize(q, size, total) > 0)
  BY <1>1, <1>2 DEF BuildRaises, SamplesPerThread
<1>5. PICK a \in Nat : a = q * n
  OBVIOUS
<1>6. PICK b \in Int : b = (IF (q + 1) * n - 1 > total - 1 THEN total - 1 ELSE (q + 1) * n - 1)
  OBVIOUS
<1>7. Share(q, size, total) = a .. b
  BY <1>1, <1>5, <1>6 DEF Share
<1>8. Cardinality(a .. b) = IF a > b THEN 0 ELSE b - a + 1
  BY FS_Interval
<1>9. a > b
  BY <1>4, <1>7, <1>8 DEF ShareSize
<1>10. n # 0
  <2>1. ASSUME n = 0 PROVE FALSE
    <3>1. PICK c \in Nat : c = r * n
      OBVIOUS
    <3>2. PICK d \in Int : d = (IF (r + 1) * n - 1 > total - 1 THEN total - 1 ELSE (r + 1) * n - 1)
      OBVIOUS
    <3>3. Share(r, size, total) = c .. d
      BY <1>1, <3>1, <3>2 DEF Share
    <3>4. c > d
      BY <2>1, <3>1, <3>2
    <3>5. Cardinality(c .. d) = IF c > d THEN 0 ELSE d - c + 1
      BY FS_Interval
    <3> QED
      BY <3>3, <3>4, <3>5 DEF BuildRaises, ShareSize
  <2> QED
    BY <2>1
<1>11. (q + 1) * n = a + n
  BY <1>5
<1>12. a >= total
  BY <1>5, <1>6, <1>9, <1>10, <1>11
<1> QED
  BY <1>1, <1>3, <1>5, <1>12

(* If one rank raises while it builds its map, so do all that have a sample
   (config.py 803, 817, 886), for every dataset and number of ranks and threads. *)
THEOREM MapsTogether == ShapeSpec => []MapsBuiltTogether
<1>1. ASSUME shape \in Shapes PROVE MapsBuiltTogether
  <2>1. \A r \in Ranks : r \in Nat
    BY <1>1, ShapeFacts DEF Ranks
  <2> QED
    BY <1>1, <2>1, ShapeFacts, RaisesFor DEF MapsBuiltTogether
<1> QED
  BY <1>1, ShapeStays, PTL

-------------------------------------------------------------------------------
(* The reading threads *)

(* The only number that is k in one place and j in no other *)
LEMMA Exactly ==
  ASSUME NEW a \in Nat \ {0}, NEW k \in Nat
  PROVE  a * k \in Nat /\ (a * k) \div a = k
<1>1. 0 \in 0 .. a - 1
  OBVIOUS
<1>2. a * k + 0 = a * k /\ a * k \in Nat
  OBVIOUS
<1> QED
  BY <1>1, <1>2, Coordinates

(* If the threads divide a share, each reads as many samples as the others. *)
LEMMA ThreadShare ==
  ASSUME NEW size \in Nat \ {0}, NEW threads \in Nat \ {0}, NEW q \in Nat,
         NEW r \in 0 .. size - 1, NEW t \in 0 .. threads - 1
  PROVE  Cardinality(ThreadSamples(r, size, size * (threads * q), threads, t)) = q
<1>1. PICK n \in Nat : n = threads * q
  OBVIOUS
<1>2. SamplesPerProc(size * n, size) = n /\ ShareSize(r, size, size * n) = n
  BY EvenShare
<1>3. SamplesPerThread(size, size * n, threads) = q
  BY <1>1, <1>2, Exactly DEF SamplesPerThread
<1>4. ThreadSamples(r, size, size * n, threads, t) = {i \in 0 .. n - 1 : (i \div q) % threads = t}
  BY <1>2, <1>3 DEF ThreadSamples, ThreadOf
<1>5. PICK a \in Nat : a = q * t
  OBVIOUS
<1>6. a + q <= n
  <2>1. PICK d \in Nat : threads = t + 1 + d
    BY threads - t - 1 \in Nat
  <2>2. q * d \in Nat /\ threads * q = q * t + q + q * d
    BY <2>1
  <2> QED
    BY <1>1, <1>5, <2>2
<1>7. {i \in 0 .. n - 1 : (i \div q) % threads = t} = a .. a + q - 1
  <2>1. CASE q = 0
    <3>1. n = 0 /\ a = 0
      BY <1>1, <1>5, <2>1
    <3> QED
      BY <2>1, <3>1
  <2>2. CASE q # 0
    <3>1. ASSUME NEW i \in 0 .. n - 1, (i \div q) % threads = t PROVE i \in a .. a + q - 1
      <4>1. i \in Nat /\ i < threads * q /\ q \in Nat \ {0} /\ threads \in Nat
        BY <1>1, <2>2
      <4>2. PICK k \in Nat : k = i \div q /\ k < threads
        BY <4>1, QuotientBelow
      <4>3. k = t
        <5>1. k % threads = k
          BY <4>1, <4>2
        <5> QED
          BY <3>1, <4>2, <5>1
      <4>4. q * t <= i /\ i < q * t + q
        BY <4>1, <4>2, <4>3, Quotient
      <4> QED
        BY <1>5, <4>1, <4>4
    <3>2. ASSUME NEW i \in a .. a + q - 1 PROVE i \in 0 .. n - 1 /\ (i \div q) % threads = t
      <4>1. i - a \in 0 .. q - 1 /\ i = a + (i - a) /\ q \in Nat \ {0} /\ t \in Nat
        BY <2>2
      <4>2. (q * t + (i - a)) \div q = t
        BY <4>1, Coordinates
      <4>3. i \div q = t
        BY <1>5, <4>1, <4>2
      <4> QED
        BY <1>6, <4>3
    <3> QED
      BY <3>1, <3>2
  <2> QED
    BY <2>1, <2>2
<1>8. Cardinality(a .. a + q - 1) = q
  <2>1. a \in Int /\ a + q - 1 \in Int /\ (a + q - 1) - a + 1 = q /\ (a > a + q - 1 => q = 0)
    OBVIOUS
  <2>2. Cardinality(a .. a + q - 1) = IF a > a + q - 1 THEN 0 ELSE (a + q - 1) - a + 1
    BY <2>1, FS_Interval
  <2> QED
    BY <2>1, <2>2
<1> QED
  BY <1>1, <1>4, <1>7, <1>8

(* The TensorFlow loader of every rank has a batch for each step, if the batches
   divide what its threads read (reader_handler.py 72-102, config.py 817). *)
LEMMA ThreadedLoader == shape \in Shapes => ThreadedLoaderKeepsUp
<1> SUFFICES ASSUME shape \in Shapes, Divides(shape.size * shape.batch * shape.threads, Total),
                    NEW r \in Ranks
             PROVE  TFBatches(r, shape.size, Total, shape.batch, shape.threads)
                      >= MaxStepsOf(shape.size, Total, shape.batch)
  BY DEF ThreadedLoaderKeepsUp
<1>1. PICK size \in Nat \ {0}, batch \in Nat \ {0}, threads \in Nat \ {0} :
        size = shape.size /\ batch = shape.batch /\ threads = shape.threads
  BY ShapeFacts
<1>2. PICK m \in Nat \ {0} : m = size * batch * threads
  <2>1. ASSUME NEW a \in Nat \ {0}, NEW b \in Nat \ {0} PROVE a * b \in Nat \ {0}
    <3>1. PICK d \in Nat : a = d + 1
      BY a - 1 \in Nat
    <3>2. d * b \in Nat /\ a * b = d * b + b
      BY <3>1
    <3> QED
      BY <3>2
  <2>2. size * batch \in Nat \ {0}
    BY <2>1
  <2> QED
    BY <2>1, <2>2
<1>3. Total \in Nat /\ Total % m = 0
  BY <1>1, <1>2, ShapeFacts DEF Divides
<1>4. PICK d \in Nat : d = Total \div m /\ Total = m * d
  <2>1. Total \div m \in Nat /\ Total = m * (Total \div m) + (Total % m)
    BY <1>3, Quotient, Rest
  <2>2. PICK d \in Nat : d = Total \div m
    BY <2>1
  <2>3. m * d \in Nat /\ Total = m * d + 0
    BY <1>3, <2>1, <2>2
  <2> QED
    BY <2>2, <2>3
<1>5. Total = size * (threads * (batch * d))
  BY <1>2, <1>4
<1>6. threads * d \in Nat
  OBVIOUS
<1>7. r \in 0 .. size - 1
  BY <1>1 DEF Ranks
<1>8. PICK total \in Nat : total = Total
  BY <1>3
<1>9. /\ TFBatches(r, size, total, batch, threads) = threads * d
      /\ MaxStepsOf(size, total, batch) = threads * d
  <2>1. PICK q \in Nat : q = batch * d /\ q \div batch = d
    BY Exactly
  <2>2. total = size * (threads * q)
    BY <1>5, <1>8, <2>1
  <2> DEFINE F == [t \in 0 .. threads - 1 |->
                     Cardinality(ThreadSamples(r, size, total, threads, t)) \div batch]
  <2>3. TFBatches(r, size, total, batch, threads) = SumFunctionOnSet(F, 0 .. threads - 1)
    BY DEF TFBatches, SumFunction
  <2>4. \A t \in 0 .. threads - 1 : F[t] = d
    <3> SUFFICES ASSUME NEW t \in 0 .. threads - 1 PROVE F[t] = d
      OBVIOUS
    <3>1. Cardinality(ThreadSamples(r, size, size * (threads * q), threads, t)) = q
      BY <1>7, ThreadShare
    <3>2. Cardinality(ThreadSamples(r, size, total, threads, t)) = q
      BY <2>2, <3>1
    <3> QED
      BY <2>1, <3>2
  <2>5. IsFiniteSet(0 .. threads - 1) /\ Cardinality(0 .. threads - 1) = threads
    <3>1. 0 \in Int /\ threads - 1 \in Int /\ ~(0 > threads - 1) /\ (threads - 1) - 0 + 1 = threads
      OBVIOUS
    <3>2. /\ IsFiniteSet(0 .. threads - 1)
          /\ Cardinality(0 .. threads - 1)
               = IF 0 > threads - 1 THEN 0 ELSE (threads - 1) - 0 + 1
      BY <3>1, FS_Interval
    <3> QED
      BY <3>1, <3>2
  <2>6. SumFunctionOnSet(F, 0 .. threads - 1) = threads * d
    <3> HIDE DEF F
    <3>1. d \in Int
      OBVIOUS
    <3> QED
      BY <2>4, <2>5, <3>1, SumOfSame
  <2>7. MaxStepsOf(size, total, batch) = threads * d
    <3>1. PICK k \in Nat : k = threads * d
      OBVIOUS
    <3>2. PICK n \in Nat : n = size * k /\ n \div size = k
      BY Exactly
    <3>3. total = batch * n
      <4>1. threads * (batch * d) = batch * (threads * d)
        OBVIOUS
      <4>2. size * (batch * k) = batch * (size * k)
        OBVIOUS
      <4> QED
        BY <2>1, <2>2, <3>1, <3>2, <4>1, <4>2
    <3>4. total \div batch = n
      BY <3>3, Exactly
    <3> QED
      BY <3>1, <3>2, <3>4 DEF MaxStepsOf
  <2> QED
    BY <2>1, <2>2, <2>3, <2>6, <2>7
<1>10. /\ TFBatches(r, shape.size, Total, shape.batch, shape.threads) = threads * d
      /\ MaxStepsOf(shape.size, Total, shape.batch) = threads * d
  BY <1>1, <1>8, <1>9
<1> QED
  BY <1>6, <1>10

-------------------------------------------------------------------------------
(* The sum check *)

(* The first k numbers of a function of naturals *)
LEMMA SumBelow ==
  ASSUME NEW F, NEW k \in Nat, \A i \in 0 .. k : F[i] \in Int
  PROVE  SumFunctionOnSet(F, 0 .. (k + 1) - 1) = F[k] + SumFunctionOnSet(F, 0 .. k - 1)
<1>1. 0 .. (k + 1) - 1 = 0 .. k /\ (0 .. k) \ {k} = 0 .. k - 1 /\ k \in 0 .. k
  OBVIOUS
<1>2. IsFiniteSet(0 .. k)
  BY FS_Interval
<1>3. SumFunctionOnSet(F, 0 .. k) = F[k] + SumFunctionOnSet(F, (0 .. k) \ {k})
  BY <1>1, <1>2, SumAdd
<1> QED
  BY <1>1, <1>3

(* The sum of the first naturals *)
LEMMA SumOfFirst ==
  ASSUME NEW F, NEW n \in Nat, \A i \in 0 .. n - 1 : F[i] = i
  PROVE  2 * SumFunctionOnSet(F, 0 .. n - 1) = n * (n - 1)
<1> DEFINE Bad == {k \in 0 .. n : 2 * SumFunctionOnSet(F, 0 .. k - 1) # k * (k - 1)}
<1>1. ASSUME Bad # {} PROVE FALSE
  <2>1. Bad \in SUBSET Nat
    OBVIOUS
  <2>2. PICK k \in Bad : \A j \in Bad : k <= j
    <3> HIDE DEF Bad
    <3> QED
      BY <1>1, <2>1, LeastElement
  <2>3. k # 0
    <3>1. 0 .. 0 - 1 = {}
      OBVIOUS
    <3>2. 2 * SumFunctionOnSet(F, 0 .. 0 - 1) = 0 * (0 - 1)
      BY <3>1, SumOfEmpty
    <3> QED
      BY <3>2
  <2>4. PICK j \in Nat : k = j + 1
    BY <2>1, <2>3, k - 1 \in Nat
  <2>5. j \in 0 .. n /\ j \notin Bad
    BY <2>2, <2>4
  <2>6. 2 * SumFunctionOnSet(F, 0 .. j - 1) = j * (j - 1)
    BY <2>5
  <2>7. SumFunctionOnSet(F, 0 .. (j + 1) - 1) = F[j] + SumFunctionOnSet(F, 0 .. j - 1)
    <3>1. \A i \in 0 .. j : F[i] \in Int
      BY <2>4
    <3> QED
      BY <3>1, SumBelow
  <2>8. F[j] = j
    BY <2>4
  <2>9. SumFunctionOnSet(F, 0 .. j - 1) \in Int
    <3>1. \A i \in 0 .. j - 1 : F[i] \in Int
      BY <2>4
    <3>2. IsFiniteSet(0 .. j - 1)
      BY FS_Interval
    <3> QED
      BY <3>1, <3>2, SumTyped
  <2>10. PICK s \in Int : s = SumFunctionOnSet(F, 0 .. j - 1) /\ 2 * s = j * (j - 1)
    BY <2>6, <2>9
  <2>11. 2 * (j + s) = (j + 1) * ((j + 1) - 1)
    <3>1. j * (j - 1) = j * j - j /\ (j + 1) * ((j + 1) - 1) = j * j + j
      OBVIOUS
    <3>2. j * j \in Int
      OBVIOUS
    <3> QED
      BY <2>10, <3>1, <3>2
  <2>12. 2 * SumFunctionOnSet(F, 0 .. k - 1) = k * (k - 1)
    BY <2>4, <2>7, <2>8, <2>10, <2>11
  <2> QED
    BY <2>12
<1>2. n \notin Bad
  BY <1>1
<1> QED
  BY <1>2

(* Where the first r shares end *)
EndOf(r, n, total) == IF r * n > total THEN total ELSE r * n

(* A share is from the end of the shares before it to its own. *)
LEMMA SharesFollow ==
  ASSUME NEW size \in Nat \ {0}, NEW total \in Nat, NEW r \in Nat
  PROVE  LET n == SamplesPerProc(total, size)
         IN  /\ EndOf(r, n, total) \in Nat /\ EndOf(r + 1, n, total) \in Nat
             /\ EndOf(r, n, total) <= EndOf(r + 1, n, total) /\ EndOf(r + 1, n, total) <= total
             /\ Share(r, size, total) = EndOf(r, n, total) .. EndOf(r + 1, n, total) - 1
<1>1. PICK n \in Nat : n = SamplesPerProc(total, size)
  BY CeilCovers DEF SamplesPerProc
<1>2. PICK a \in Nat : a = r * n /\ (r + 1) * n = a + n
  OBVIOUS
<1>3. Share(r, size, total) = a .. (IF a + n - 1 > total - 1 THEN total - 1 ELSE a + n - 1)
  <2>1. PICK b \in Int : b = (IF (r + 1) * n - 1 > total - 1 THEN total - 1 ELSE (r + 1) * n - 1)
    BY <1>2
  <2>2. Share(r, size, total) = a .. b
    BY <1>1, <1>2, <2>1 DEF Share
  <2>3. b = (IF a + n - 1 > total - 1 THEN total - 1 ELSE a + n - 1)
    BY <1>2, <2>1
  <2> QED
    BY <2>2, <2>3
<1>4. /\ EndOf(r, n, total) = IF a > total THEN total ELSE a
      /\ EndOf(r + 1, n, total) = IF a + n > total THEN total ELSE a + n
  BY <1>2 DEF EndOf
<1>5. Share(r, size, total) = EndOf(r, n, total) .. EndOf(r + 1, n, total) - 1
  <2>1. CASE a > total
    BY <1>3, <1>4, <2>1
  <2>2. CASE ~(a > total) /\ a + n > total
    BY <1>3, <1>4, <2>2
  <2>3. CASE ~(a > total) /\ ~(a + n > total)
    BY <1>3, <1>4, <2>3
  <2> QED
    BY <2>1, <2>2, <2>3
<1> QED
  BY <1>1, <1>4, <1>5

(* The sum over the shares is that of all samples. *)
LEMMA SumOfShares ==
  ASSUME NEW size \in Nat \ {0}, NEW total \in Nat
  PROVE  SharesSum(size, total) = ExpectedIndexSum(total)
<1> DEFINE All == [s \in 0 .. total - 1 |-> s]
           F == [r \in 0 .. size - 1 |-> SumFunction([s \in Share(r, size, total) |-> s])]
           n == SamplesPerProc(total, size)
<1>1. SharesSum(size, total) = SumFunctionOnSet(F, 0 .. size - 1)
  BY DEF SharesSum, SumFunction
<1>2. \A s \in 0 .. total - 1 : All[s] = s /\ All[s] \in Int
  OBVIOUS
<1>3. ASSUME NEW r \in 0 .. size - 1
      PROVE  /\ F[r] = SumFunctionOnSet(All, Share(r, size, total))
             /\ F[r] \in Int
  <2> DEFINE own == [s \in Share(r, size, total) |-> s]
  <2>1. IsFiniteSet(Share(r, size, total)) /\ Share(r, size, total) \subseteq 0 .. total - 1
    <3>1. r \in Nat
      OBVIOUS
    <3>2. PICK a \in Nat, b \in Nat : Share(r, size, total) = a .. b - 1 /\ b <= total
      BY <3>1, SharesFollow
    <3>3. a \in Int /\ b - 1 \in Int /\ a .. b - 1 \subseteq 0 .. total - 1
      BY <3>2
    <3> QED
      BY <3>2, <3>3, FS_Interval
  <2>2. \A s \in Share(r, size, total) : All[s] \in Int /\ own[s] = All[s]
    BY <2>1
  <2>3. SumFunction(own) = SumFunctionOnSet(own, Share(r, size, total))
    BY DEF SumFunction
  <2>4. F[r] = SumFunction(own)
    OBVIOUS
  <2> HIDE DEF own, All, F
  <2> QED
    BY <2>1, <2>2, <2>3, <2>4, SumSame, SumTyped
<1> DEFINE Bad == {k \in 0 .. size : SumFunctionOnSet(F, 0 .. k - 1)
                                        # SumFunctionOnSet(All, 0 .. EndOf(k, n, total) - 1)}
<1> HIDE DEF All, F
<1>4. n \in Nat /\ size * n >= total
  BY CeilCovers DEF SamplesPerProc
<1> HIDE DEF n
<1>5. ASSUME Bad # {} PROVE FALSE
  <2>1. Bad \in SUBSET Nat
    OBVIOUS
  <2>2. PICK k \in Bad : \A j \in Bad : k <= j
    <3> HIDE DEF Bad
    <3> QED
      BY <1>5, <2>1, LeastElement
  <2>3. k # 0
    <3>1. EndOf(0, n, total) = 0
      BY <1>4 DEF EndOf
    <3>2. 0 .. 0 - 1 = {}
      OBVIOUS
    <3>3. SumFunctionOnSet(F, 0 .. 0 - 1) = SumFunctionOnSet(All, 0 .. EndOf(0, n, total) - 1)
      BY <3>1, <3>2, SumOfEmpty
    <3> QED
      BY <3>3
  <2>4. PICK j \in Nat : k = j + 1
    BY <2>1, <2>3, k - 1 \in Nat
  <2>5. j \in 0 .. size - 1 /\ j \in 0 .. size /\ j \notin Bad
    BY <2>2, <2>4
  <2>6. SumFunctionOnSet(F, 0 .. j - 1) = SumFunctionOnSet(All, 0 .. EndOf(j, n, total) - 1)
    BY <2>5
  <2>7. SumFunctionOnSet(F, 0 .. (j + 1) - 1) = F[j] + SumFunctionOnSet(F, 0 .. j - 1)
    <3>1. \A i \in 0 .. j : F[i] \in Int
      BY <1>3, <2>5
    <3> QED
      BY <3>1, SumBelow
  <2>8. PICK a \in Nat, b \in Nat :
          /\ a = EndOf(j, n, total) /\ b = EndOf(j + 1, n, total) /\ a <= b /\ b <= total
          /\ Share(j, size, total) = a .. b - 1
    <3>1. /\ EndOf(j, n, total) \in Nat /\ EndOf(j + 1, n, total) \in Nat
          /\ EndOf(j, n, total) <= EndOf(j + 1, n, total) /\ EndOf(j + 1, n, total) <= total
          /\ Share(j, size, total) = EndOf(j, n, total) .. EndOf(j + 1, n, total) - 1
      BY SharesFollow DEF n
    <3> QED
      BY <3>1
  <2>9. SumFunctionOnSet(All, (0 .. a - 1) \cup (a .. b - 1))
          = SumFunctionOnSet(All, 0 .. a - 1) + SumFunctionOnSet(All, a .. b - 1)
    <3>1. /\ a \in Int /\ b - 1 \in Int /\ a - 1 \in Int /\ 0 \in Int
      OBVIOUS
    <3>2. IsFiniteSet(0 .. a - 1) /\ IsFiniteSet(a .. b - 1)
      BY <3>1, FS_Interval
    <3>3. (0 .. a - 1) \cap (a .. b - 1) = {}
      OBVIOUS
    <3>4. \A s \in (0 .. a - 1) \cup (a .. b - 1) : All[s] \in Int
      BY <1>2, <2>8
    <3> QED
      BY <3>2, <3>3, <3>4, SumOfBoth
  <2>10. (0 .. a - 1) \cup (a .. b - 1) = 0 .. b - 1
    BY <2>8
  <2>11. F[j] = SumFunctionOnSet(All, a .. b - 1) /\ F[j] \in Int
    BY <1>3, <2>5, <2>8
  <2>12. SumFunctionOnSet(F, 0 .. j - 1) = SumFunctionOnSet(All, 0 .. a - 1)
    BY <2>6, <2>8
  <2>13. SumFunctionOnSet(All, 0 .. a - 1) \in Int
    <3>1. IsFiniteSet(0 .. a - 1)
      BY FS_Interval
    <3>2. \A s \in 0 .. a - 1 : All[s] \in Int
      BY <1>2, <2>8
    <3> QED
      BY <3>1, <3>2, SumTyped
  <2>14. SumFunctionOnSet(F, 0 .. (j + 1) - 1) = SumFunctionOnSet(All, 0 .. b - 1)
    <3>1. PICK x \in Int, y \in Int :
            x = SumFunctionOnSet(All, 0 .. a - 1) /\ y = F[j]
      BY <2>11, <2>13
    <3>2. SumFunctionOnSet(F, 0 .. (j + 1) - 1) = y + x
      BY <2>7, <2>12, <3>1
    <3>3. SumFunctionOnSet(All, 0 .. b - 1) = x + y
      BY <2>9, <2>10, <2>11, <3>1
    <3>4. x + y = y + x
      OBVIOUS
    <3> QED
      BY <3>2, <3>3, <3>4
  <2>15. SumFunctionOnSet(F, 0 .. k - 1) = SumFunctionOnSet(All, 0 .. EndOf(k, n, total) - 1)
    BY <2>4, <2>8, <2>14
  <2> QED
    BY <2>15
<1>6. SumFunctionOnSet(F, 0 .. size - 1) = SumFunctionOnSet(All, 0 .. total - 1)
  <2>1. size \in 0 .. size /\ size \notin Bad
    BY <1>5
  <2>2. EndOf(size, n, total) = total
    <3>1. size * n \in Nat
      BY <1>4
    <3> QED
      BY <1>4, <3>1 DEF EndOf
  <2> QED
    BY <2>1, <2>2
<1>7. 2 * SumFunctionOnSet(All, 0 .. total - 1) = total * (total - 1)
  BY <1>2, SumOfFirst
<1>8. SumFunctionOnSet(All, 0 .. total - 1) \in Int
  <2>1. IsFiniteSet(0 .. total - 1)
    BY FS_Interval
  <2> QED
    BY <1>2, <2>1, SumTyped
<1>9. PICK s \in Int : s = SumFunctionOnSet(All, 0 .. total - 1) /\ total * (total - 1) = 2 * s
  BY <1>7, <1>8
<1>10. (2 * s) \div 2 = s
  BY <1>9
<1> QED
  BY <1>1, <1>6, <1>9, <1>10 DEF ExpectedIndexSum

(* The sum of the indices is that of no sample exactly if there is at most one. *)
LEMMA NothingToSum ==
  ASSUME NEW total \in Nat
  PROVE  ExpectedIndexSum(total) = 0 <=> total <= 1
<1>1. CASE total = 0
  <2>1. total * (total - 1) = 0 /\ 0 \div 2 = 0
    BY <1>1
  <2> QED
    BY <2>1, <1>1 DEF ExpectedIndexSum
<1>2. CASE total # 0
  <2>1. PICK d \in Nat : total = d + 1
    BY <1>2, total - 1 \in Nat
  <2>2. PICK e \in Nat : e = d * d
    BY <2>1
  <2>3. total * (total - 1) = e + d
    BY <2>1, <2>2
  <2>4. d = 0 <=> total <= 1
    BY <2>1
  <2>5. (e + d) \div 2 = 0 <=> d = 0
    <3>1. d >= 1 => e >= 1
      BY <2>1, <2>2
    <3>2. d = 0 => e = 0
      BY <2>2
    <3> QED
      BY <3>1, <3>2
  <2> QED
    BY <2>3, <2>4, <2>5 DEF ExpectedIndexSum
<1> QED
  BY <1>1, <1>2

(* The sums agree with a sampler, and without one if there is nothing to sum. *)
LEMMA SumsAgree == shape \in Shapes => SumCheckPasses
<1> SUFFICES ASSUME shape \in Shapes PROVE SumCheckPasses
  OBVIOUS
<1>1. Total \in Nat /\ shape.size \in Nat \ {0}
  BY ShapeFacts
<1>2. SharesSum(shape.size, Total) = ExpectedIndexSum(Total)
  BY <1>1, SumOfShares
<1>3. ExpectedIndexSum(Total) = 0 <=> Total <= 1
  BY <1>1, NothingToSum
<1> QED
  BY <1>2, <1>3 DEF SumCheckPasses, IndexSum

(* No loader falls behind; no rank is left alone by another that fails to build its map;
   and the sum check of reconfigure is raised exactly for a job of more than one sample
   whose loader has no sampler: for every dataset, batch size and number of ranks and
   threads, and every sampler (main.py 360, config.py 659-663, 803, 817, 875-894). *)
THEOREM LoadersInStep == ShapeSpec => []LoadersKeepUp
<1>1. shape \in Shapes => ThreadedLoaderKeepsUp /\ SumCheckPasses
  BY ThreadedLoader, SumsAgree
<1>2. IndexLoadersKeepUp /\ MapsBuiltTogether /\ ThreadedLoaderKeepsUp /\ SumCheckPasses
        => LoadersKeepUp
  BY DEF LoadersKeepUp
<1> QED
  BY <1>1, <1>2, ShapeStays, IndexLoaders, MapsTogether, PTL

-------------------------------------------------------------------------------
(* What an epoch reads *)

(* Quotient and rest by the samples of a file are a sample's place in the dataset,
   and every place is that of one sample. *)
LEMMA PlaceOfSample ==
  ASSUME NEW files \in Nat \ {0}, NEW n \in Nat \ {0}
  PROVE  /\ \A s \in 0 .. files * n - 1 : s \div n \in 0 .. files - 1 /\ s % n \in 0 .. n - 1
         /\ \A f \in 0 .. files - 1, i \in 0 .. n - 1 :
              n * f + i \in 0 .. files * n - 1
<1>1. ASSUME NEW s \in 0 .. files * n - 1
      PROVE  s \div n \in 0 .. files - 1 /\ s % n \in 0 .. n - 1
  <2>1. s \in Nat /\ s < files * n
    OBVIOUS
  <2>2. s \div n \in Nat /\ s \div n < files
    BY <2>1, QuotientBelow
  <2> QED
    BY <2>1, <2>2
<1>2. ASSUME NEW f \in 0 .. files - 1, NEW i \in 0 .. n - 1
      PROVE  n * f + i \in 0 .. files * n - 1
  <2>1. f * n \in Nat /\ files * n \in Nat /\ f * n + n <= files * n
    BY BlockWithin
  <2>2. n * f = f * n
    OBVIOUS
  <2> QED
    BY <2>1, <2>2
<1> QED
  BY <1>1, <1>2

(* VirtualIndexMap reads the dataset. *)
LEMMA VirtualReadsAll ==
  ASSUME shape \in Shapes
  PROVE  {VirtualIndex(s, shape.perFile) : s \in 0 .. Total - 1} = Dataset
<1> DEFINE files == shape.files
           n     == shape.perFile
<1>1. files \in Nat \ {0} /\ n \in Nat \ {0} /\ Total = files * n
  BY ShapeFacts DEF Total
<1>2. ASSUME NEW s \in 0 .. Total - 1 PROVE VirtualIndex(s, n) \in Dataset
  BY <1>1, PlaceOfSample DEF VirtualIndex, Dataset
<1>3. ASSUME NEW f \in 0 .. files - 1, NEW i \in 0 .. n - 1
      PROVE  \E s \in 0 .. Total - 1 : VirtualIndex(s, n) = <<f, i>>
  <2>1. n * f + i \in 0 .. Total - 1
    BY <1>1, PlaceOfSample
  <2>2. (n * f + i) \div n = f /\ (n * f + i) % n = i
    <3>1. n \in Nat \ {0} /\ f \in Nat /\ i \in 0 .. n - 1
      BY <1>1
    <3> HIDE DEF n
    <3> QED
      BY <3>1, Coordinates
  <2> QED
    BY <2>1, <2>2 DEF VirtualIndex
<1> QED
  BY <1>2, <1>3 DEF Dataset

(* The files of a rank, if the ranks divide them *)
Own == shape.files \div shape.size

(* The numbers of a rank's samples within its share *)
Positions == 0 .. Own * shape.perFile - 1

(* The i-th read of rank r in file order *)
ReadOf(r, i) == <<r * Own + i \div shape.perFile, i % shape.perFile>>

(* A divided dataset *)
LEMMA Divided ==
  ASSUME shape \in Shapes, Divides(shape.size, shape.files)
  PROVE  /\ Own \in Nat \ {0} /\ shape.files = shape.size * Own
         /\ Own * shape.perFile \in Nat \ {0}
         /\ Total = shape.size * (Own * shape.perFile)
<1>1. shape.files \in Nat \ {0} /\ shape.size \in Nat \ {0} /\ shape.perFile \in Nat \ {0}
  BY ShapeFacts
<1>2. Own \in Nat
  BY <1>1, Quotient DEF Own
<1>3. shape.files = shape.size * Own
  <2>1. shape.files = shape.size * (shape.files \div shape.size) + (shape.files % shape.size)
    BY <1>1, Rest
  <2>2. shape.files % shape.size = 0
    BY DEF Divides
  <2>3. PICK k \in Nat : k = Own
    BY <1>2
  <2>4. shape.files = shape.size * k + 0
    BY <2>1, <2>2, <2>3 DEF Own
  <2> QED
    BY <1>1, <2>3, <2>4
<1>4. Own # 0
  BY <1>1, <1>3
<1>5. Total = (shape.size * Own) * shape.perFile
  BY <1>3 DEF Total
<1>6. (shape.size * Own) * shape.perFile = shape.size * (Own * shape.perFile)
  BY <1>1, <1>2
<1>7. Own * shape.perFile \in Nat \ {0}
  <2>1. ASSUME NEW a \in Nat \ {0}, NEW b \in Nat \ {0} PROVE a * b \in Nat \ {0}
    <3>1. PICK c \in Nat : a = c + 1
      BY a - 1 \in Nat
    <3>2. c * b \in Nat /\ a * b = c * b + b
      BY <3>1
    <3> QED
      BY <3>2
  <2> QED
    BY <1>1, <1>2, <1>4, <2>1
<1> QED
  BY <1>2, <1>3, <1>4, <1>5, <1>6, <1>7

(* A place of the share is in one of the rank's files. *)
LEMMA PositionFacts ==
  ASSUME shape \in Shapes, Divides(shape.size, shape.files), NEW r \in Ranks, NEW i \in Positions
  PROVE  /\ r \in Nat /\ i \in Nat /\ r * Own \in Nat
         /\ i \div shape.perFile \in 0 .. Own - 1 /\ i % shape.perFile \in 0 .. shape.perFile - 1
         /\ i = shape.perFile * (i \div shape.perFile) + (i % shape.perFile)
         /\ r * Own + i \div shape.perFile \in 0 .. shape.files - 1
<1>1. /\ shape.size \in Nat \ {0} /\ shape.perFile \in Nat \ {0} /\ Own \in Nat \ {0}
      /\ shape.files = shape.size * Own
  BY ShapeFacts, Divided
<1>2. i \in Nat /\ i < Own * shape.perFile
  BY <1>1 DEF Positions
<1>3. i \div shape.perFile \in Nat /\ i \div shape.perFile < Own
  BY <1>1, <1>2, QuotientBelow
<1>4. i % shape.perFile \in 0 .. shape.perFile - 1
      /\ i = shape.perFile * (i \div shape.perFile) + (i % shape.perFile)
  BY <1>1, <1>2, Rest
<1>5. r \in 0 .. shape.size - 1 /\ r \in Nat
  BY <1>1 DEF Ranks
<1>6. r * Own \in Nat /\ shape.size * Own \in Nat /\ r * Own + Own <= shape.size * Own
  BY <1>1, <1>5, BlockWithin
<1>7. PICK c \in Nat : c = r * Own /\ c + Own <= shape.files
  BY <1>1, <1>6
<1>8. PICK x \in 0 .. Own - 1 : x = i \div shape.perFile
  BY <1>1, <1>3
<1>9. c + x \in 0 .. shape.files - 1
  BY <1>1, <1>7, <1>8
<1> QED
  BY <1>2, <1>4, <1>5, <1>7, <1>8, <1>9

(* The iterative map reads in the file of the position, at the index of the number. *)
LEMMA ReadAt ==
  ASSUME shape \in Shapes, Divides(shape.size, shape.files), NEW r \in Ranks,
         NEW i \in Positions, NEW order
  PROVE  ShuffledIndex(r, shape.size, shape.files, shape.perFile, order, i)
           = <<r * Own + i \div shape.perFile, order[i] % shape.perFile>>
<1>1. /\ shape.size \in Nat \ {0} /\ shape.files \in Nat \ {0} /\ Own \in Nat \ {0}
      /\ shape.files = shape.size * Own
  BY ShapeFacts, Divided
<1>2. r * FilesPerRank(shape.size, shape.files) = r * Own
  <2>1. CASE shape.size = 1
    <3>1. r = 0
      BY <2>1 DEF Ranks
    <3>2. FilesPerRank(shape.size, shape.files) \in Int /\ Own \in Int
      BY <1>1 DEF FilesPerRank
    <3> QED
      BY <3>1, <3>2
  <2>2. CASE shape.size # 1
    <3>1. Own < shape.files
      <4>1. PICK d \in Nat : shape.size = d + 2
        BY <1>1, <2>2, shape.size - 2 \in Nat
      <4>2. d * Own \in Nat /\ shape.size * Own = 2 * Own + d * Own
        BY <1>1, <4>1
      <4> QED
        BY <1>1, <4>2
    <3>2. Own % shape.files = Own
      BY <1>1, <3>1
    <3> QED
      BY <3>2 DEF FilesPerRank, Own
  <2> QED
    BY <2>1, <2>2
<1>3. PICK f : f = r * Own + i \div shape.perFile
  OBVIOUS
<1>4. f \in 0 .. shape.files - 1
  BY <1>3, PositionFacts
<1>5. f % shape.files = f
  BY <1>1, <1>4
<1> QED
  BY <1>2, <1>3, <1>5 DEF ShuffledIndex

(* The share of a rank in file order *)
LEMMA InFileOrder ==
  ASSUME shape \in Shapes, Divides(shape.size, shape.files), NEW r \in Ranks
  PROVE  /\ DOMAIN Unshuffled(r) = Positions
         /\ \A i \in Positions : Unshuffled(r)[i] % shape.perFile = i % shape.perFile
<1> DEFINE n == Own * shape.perFile
<1>1. /\ shape.size \in Nat \ {0} /\ shape.perFile \in Nat \ {0} /\ Own \in Nat \ {0}
      /\ n \in Nat /\ Total = shape.size * n
  BY ShapeFacts, Divided
<1>2. r \in 0 .. shape.size - 1
  BY DEF Ranks
<1>3. ShareSize(r, shape.size, Total) = n /\ SamplesPerProc(Total, shape.size) = n
  <2> HIDE DEF n
  <2> QED
    BY <1>1, <1>2, EvenShare
<1>4. Unshuffled(r) = [i \in Positions |-> r * n + i]
  BY <1>3 DEF Unshuffled, FileOrder, Positions
<1>5. ASSUME NEW i \in Positions
      PROVE  (r * n + i) % shape.perFile = i % shape.perFile
  <2>1. PICK p \in Nat \ {0}, q \in Nat, x \in Nat :
          /\ p = shape.perFile /\ q = i \div p /\ x = i % p
          /\ x \in 0 .. p - 1 /\ i = p * q + x
    <3>1. /\ shape.perFile \in Nat \ {0} /\ i \div shape.perFile \in Nat
          /\ i % shape.perFile \in 0 .. shape.perFile - 1
          /\ i = shape.perFile * (i \div shape.perFile) + (i % shape.perFile)
      BY <1>1, PositionFacts
    <3> QED
      BY <3>1
  <2>2. PICK b \in Nat : b = r * Own
    BY PositionFacts
  <2>3. r * n = p * b
    <3>1. r \in Nat
      BY <1>1, <1>2
    <3>2. r * (Own * p) = p * (r * Own)
      BY <1>1, <3>1
    <3> QED
      BY <2>1, <2>2, <3>2
  <2>4. p * b + (p * q + x) = p * (b + q) + x
    OBVIOUS
  <2>5. (p * (b + q) + x) % p = x
    <3>1. b + q \in Nat
      OBVIOUS
    <3>2. x \in 0 .. p - 1
      BY <2>1
    <3> QED
      BY <3>1, <3>2, Coordinates
  <2> QED
    BY <2>1, <2>3, <2>4, <2>5
<1> QED
  BY <1>4, <1>5

(* What a rank reads in file order *)
LEMMA RankReads ==
  ASSUME shape \in Shapes, Divides(shape.size, shape.files), NEW r \in Ranks
  PROVE  IterReads(r, Unshuffled(r)) = {ReadOf(r, i) : i \in Positions}
<1>1. \A i \in Positions :
        ShuffledIndex(r, shape.size, shape.files, shape.perFile, Unshuffled(r), i) = ReadOf(r, i)
  BY ReadAt, InFileOrder DEF ReadOf
<1> QED
  BY <1>1, InFileOrder DEF IterReads

(* Together the ranks read the dataset. *)
LEMMA RanksReadAll ==
  ASSUME shape \in Shapes, Divides(shape.size, shape.files)
  PROVE  UNION {IterReads(r, Unshuffled(r)) : r \in Ranks} = Dataset
<1>1. /\ shape.size \in Nat \ {0} /\ shape.perFile \in Nat \ {0} /\ Own \in Nat \ {0}
      /\ shape.files = shape.size * Own
  BY ShapeFacts, Divided
<1>2. ASSUME NEW r \in Ranks, NEW i \in Positions PROVE ReadOf(r, i) \in Dataset
  BY PositionFacts DEF ReadOf, Dataset
<1>3. ASSUME NEW f \in 0 .. shape.files - 1, NEW j \in 0 .. shape.perFile - 1
      PROVE  \E r \in Ranks : \E i \in Positions : ReadOf(r, i) = <<f, j>>
  <2>1. f \in Nat /\ f < shape.size * Own
    BY <1>1
  <2>2. PICK r \in Nat : r = f \div Own /\ r < shape.size
    BY <1>1, <2>1, QuotientBelow
  <2>3. PICK x \in 0 .. Own - 1 : x = f % Own /\ f = r * Own + x
    <3>1. f = Own * (f \div Own) + (f % Own) /\ f % Own \in 0 .. Own - 1
      BY <1>1, <2>1
    <3>2. Own * (f \div Own) = r * Own
      BY <1>1, <2>2
    <3> QED
      BY <3>1, <3>2
  <2>4. PICK i : i = shape.perFile * x + j
    OBVIOUS
  <2>5. i \in Positions
    BY <1>1, <2>4, PlaceOfSample DEF Positions
  <2>6. i \div shape.perFile = x /\ i % shape.perFile = j
    <3>1. x \in Nat
      BY <1>1
    <3> QED
      BY <1>1, <2>4, <3>1, Coordinates
  <2>7. ReadOf(r, i) = <<f, j>>
    BY <2>3, <2>6 DEF ReadOf
  <2>8. r \in Ranks
    BY <1>1, <2>2 DEF Ranks
  <2> QED
    BY <2>5, <2>7, <2>8
<1> DEFINE reads == [r \in Ranks |-> IterReads(r, Unshuffled(r))]
<1>4. \A r \in Ranks : reads[r] = {ReadOf(r, i) : i \in Positions}
  BY RankReads
<1>5. UNION {reads[r] : r \in Ranks} = Dataset
  <2> HIDE DEF reads
  <2>1. ASSUME NEW read \in Dataset PROVE \E r \in Ranks : read \in reads[r]
    <3>1. PICK f \in 0 .. shape.files - 1, j \in 0 .. shape.perFile - 1 : read = <<f, j>>
      BY DEF Dataset
    <3>2. PICK r \in Ranks : \E i \in Positions : ReadOf(r, i) = <<f, j>>
      BY <1>3
    <3> QED
      BY <1>4, <3>1, <3>2
  <2>2. ASSUME NEW r \in Ranks, NEW read \in reads[r] PROVE read \in Dataset
    BY <1>2, <1>4, <2>2
  <2> QED
    BY <2>1, <2>2
<1> QED
  BY <1>5

(* No two ranks read a sample. *)
LEMMA RanksReadApart ==
  ASSUME shape \in Shapes, Divides(shape.size, shape.files),
         NEW r \in Ranks, NEW q \in Ranks, r # q
  PROVE  IterReads(r, Unshuffled(r)) \cap IterReads(q, Unshuffled(q)) = {}
<1>1. Own \in Nat
  BY Divided
<1>2. ASSUME NEW i \in Positions, NEW j \in Positions, ReadOf(r, i) = ReadOf(q, j) PROVE FALSE
  <2>1. PICK x \in 0 .. Own - 1 : x = i \div shape.perFile
    BY PositionFacts
  <2>2. PICK y \in 0 .. Own - 1 : y = j \div shape.perFile
    BY PositionFacts
  <2>3. r \in Nat /\ q \in Nat /\ r * Own \in Nat /\ q * Own \in Nat
    BY PositionFacts
  <2>4. r * Own + x = q * Own + y
    BY <1>2, <2>1, <2>2 DEF ReadOf
  <2>5. PICK s \in Nat : s = r * Own + x
    BY <2>1, <2>3
  <2>6. (r + 1) * Own = r * Own + Own /\ (q + 1) * Own = q * Own + Own
    BY <1>1, <2>3
  <2>7. r * Own <= s /\ s < (r + 1) * Own /\ q * Own <= s /\ s < (q + 1) * Own
    BY <1>1, <2>3, <2>4, <2>5, <2>6
  <2> QED
    BY <1>1, <2>3, <2>7, OneMultiple
<1>3. IterReads(r, Unshuffled(r)) = {ReadOf(r, i) : i \in Positions}
      /\ IterReads(q, Unshuffled(q)) = {ReadOf(q, i) : i \in Positions}
  BY RankReads
<1> QED
  BY <1>2, <1>3

(* Pairs, and the same after two have exchanged their second parts *)
Pairs(S, F, M) == {<<F[m], M[m]>> : m \in S}

Exchanged(S, F, M, i, j) ==
  {<<F[m], M[IF m = j THEN i ELSE IF m = i THEN j ELSE m]>> : m \in S}

(* If no two pairs are the same, the exchange leaves the set as it is if and only if
   the two agree in one part. *)
LEMMA Exchange ==
  ASSUME NEW S, NEW F, NEW M, NEW i \in S, NEW j \in S,
         \A a, b \in S : F[a] = F[b] /\ M[a] = M[b] => a = b
  PROVE  Exchanged(S, F, M, i, j) = Pairs(S, F, M) <=> F[i] = F[j] \/ M[i] = M[j]
<1> DEFINE other(m) == IF m = j THEN i ELSE IF m = i THEN j ELSE m
           before == {<<F[m], M[m]>> : m \in S}
           after  == {<<F[m], M[other(m)]>> : m \in S}
<1>0. before = Pairs(S, F, M) /\ after = Exchanged(S, F, M, i, j)
  BY DEF Pairs, Exchanged
<1>1. CASE F[i] = F[j]
  <2>1. ASSUME NEW m \in S PROVE other(m) \in S /\ F[other(m)] = F[m] /\ other(other(m)) = m
    BY <1>1
  <2>2. ASSUME NEW m \in S PROVE <<F[m], M[other(m)]>> \in before
    BY <2>1
  <2>3. ASSUME NEW m \in S PROVE <<F[m], M[m]>> \in after
    <3>1. <<F[other(m)], M[other(other(m))]>> \in after
      BY <2>1
    <3> QED
      BY <2>1, <3>1
  <2>4. after = before
    <3>1. \A y \in after : y \in before
      BY <2>2
    <3>2. \A y \in before : y \in after
      BY <2>3
    <3> QED
      BY <3>1, <3>2
  <2> QED
    BY <1>0, <1>1, <2>4
<1>2. CASE M[i] = M[j]
  <2>1. \A m \in S : M[other(m)] = M[m]
    BY <1>2
  <2>2. after = before
    BY <2>1
  <2> QED
    BY <1>0, <1>2, <2>2
<1>3. CASE F[i] # F[j] /\ M[i] # M[j]
  <2>1. <<F[i], M[i]>> \in before
    OBVIOUS
  <2>2. ASSUME NEW m \in S, <<F[m], M[other(m)]>> = <<F[i], M[i]>> PROVE FALSE
    <3>1. other(m) \in S /\ F[m] = F[i] /\ M[other(m)] = M[i]
      BY <2>2
    <3>2. CASE m = i
      BY <1>3, <3>1, <3>2
    <3>3. CASE m = j
      BY <1>3, <3>1, <3>3
    <3>4. CASE m # i /\ m # j
      BY <3>1, <3>4
    <3> QED
      BY <3>2, <3>3, <3>4
  <2> QED
    BY <1>0, <1>3, <2>1, <2>2
<1> QED
  BY <1>1, <1>2, <1>3

(* Shuffled, a rank reads each of its samples once only in the orders that move no
   sample to another file, or only to its own index of another. *)
LEMMA ShufflesMove ==
  ASSUME shape \in Shapes, Divides(shape.size, shape.files), NEW r \in Ranks
  PROVE  ShufflesApart(r)
<1> DEFINE p == shape.perFile
           F == [m \in Positions |-> r * Own + m \div p]
           M == [m \in Positions |-> m % p]
           order == Unshuffled(r)
<1>1. DOMAIN order = Positions /\ \A m \in Positions : order[m] % p = m % p
  BY InFileOrder
<1>2. ASSUME NEW i \in Positions, NEW j \in Positions
      PROVE  IterReads(r, Swapped(order, i, j)) = IterReads(r, order)
               <=> i \div p = j \div p \/ i % p = j % p
  <2> DEFINE swapped == Swapped(order, i, j)
             other(m) == IF m = j THEN i ELSE IF m = i THEN j ELSE m
  <2>1. DOMAIN swapped = Positions
    BY <1>1 DEF Swapped
  <2>2. ASSUME NEW m \in Positions PROVE swapped[m] = order[other(m)]
    BY <1>1 DEF Swapped
  <2>3. ASSUME NEW m \in Positions
        PROVE  ShuffledIndex(r, shape.size, shape.files, p, swapped, m) = <<F[m], M[other(m)]>>
    <3>1. ShuffledIndex(r, shape.size, shape.files, p, swapped, m)
            = <<r * Own + m \div p, swapped[m] % p>>
      BY ReadAt
    <3>2. other(m) \in Positions
      OBVIOUS
    <3>3. swapped[m] % p = other(m) % p
      BY <1>1, <2>2, <3>2
    <3> QED
      BY <3>1, <3>2, <3>3
  <2>4. ASSUME NEW m \in Positions
        PROVE  ShuffledIndex(r, shape.size, shape.files, p, order, m) = <<F[m], M[m]>>
    BY <1>1, ReadAt
  <2>5. IterReads(r, swapped) = Exchanged(Positions, F, M, i, j)
    <3>1. IterReads(r, swapped) = {<<F[m], M[other(m)]>> : m \in Positions}
      <4> HIDE DEF swapped, other, F, M
      <4> QED
        BY <2>1, <2>3 DEF IterReads
    <3> HIDE DEF swapped, F, M
    <3> QED
      BY <3>1 DEF Exchanged
  <2>6. IterReads(r, order) = Pairs(Positions, F, M)
    <3> HIDE DEF order, F, M
    <3> QED
      BY <1>1, <2>4 DEF IterReads, Pairs
  <2>7. ASSUME NEW a \in Positions, NEW b \in Positions
        PROVE  F[a] = F[b] <=> a \div p = b \div p
    <3>1. r * Own \in Nat /\ a \div p \in Nat /\ b \div p \in Nat
      BY PositionFacts
    <3> QED
      BY <3>1
  <2>8. ASSUME NEW a \in Positions, NEW b \in Positions, F[a] = F[b], M[a] = M[b]
        PROVE  a = b
    <3>1. a = p * (a \div p) + (a % p) /\ b = p * (b \div p) + (b % p)
      BY PositionFacts
    <3> QED
      BY <2>7, <2>8, <3>1
  <2>9. Exchanged(Positions, F, M, i, j) = Pairs(Positions, F, M)
          <=> F[i] = F[j] \/ M[i] = M[j]
    <3>1. \A a, b \in Positions : F[a] = F[b] /\ M[a] = M[b] => a = b
      BY <2>8
    <3> HIDE DEF F, M
    <3> QED
      BY <3>1, Exchange
  <2>10. IterReads(r, swapped) = IterReads(r, order) <=> F[i] = F[j] \/ M[i] = M[j]
    <3> HIDE DEF F, M, swapped, order
    <3> QED
      BY <2>5, <2>6, <2>9
  <2> QED
    BY <2>7, <2>10
<1> QED
  BY <1>1, <1>2 DEF ShufflesApart

(* An epoch over the shares reads every sample of every file once: through
   VirtualIndexMap for every dataset, through the iterative map if the ranks divide
   the files and the samples are in file order; two samples that change places are
   then not read as before unless they are of one file or at one index
   (config.py 41-105, 810-829). *)
THEOREM ReadsDataset == ShapeSpec => []DatasetReadOnce
<1>1. shape \in Shapes => DatasetReadOnce
  BY VirtualReadsAll, RanksReadAll, RanksReadApart, ShufflesMove DEF DatasetReadOnce
<1> QED
  BY <1>1, ShapeStays, PTL

-------------------------------------------------------------------------------
(* A record of output whose times are not later than t. *)
Shape(r, t) ==
  r \in [load: Seq(Nat), proc: Seq(Nat), compute: Seq(Nat), au: {r.au},
         throughput: {r.throughput}, start: 0 .. t, end: (0 .. t) \cup {Unset}, taken: Nat]

(* The records of two moments agree but for their metrics. *)
SameTimes(q, r) ==
  /\ q.load = r.load /\ q.proc = r.proc /\ q.compute = r.compute
  /\ q.start = r.start /\ q.end = r.end /\ q.taken = r.taken

(* What has happened by t has happened by any later time. *)
LEMMA ShapeLater ==
  ASSUME NEW t \in Nat, NEW u \in Nat, t <= u, NEW r, Shape(r, t)
  PROVE  Shape(r, u)
BY DEF Shape, Unset

(* compute_metrics_train and compute_metrics_eval only set metrics. *)
LEMMA MetricsOnly ==
  ASSUME NEW t \in Nat, NEW r, Shape(r, t), NEW e
  PROVE  /\ Shape(TrainMetrics(r, e), t) /\ SameTimes(TrainMetrics(r, e), r)
         /\ Shape(EvalMetrics(r, e), t) /\ SameTimes(EvalMetrics(r, e), r)
<1>1. ASSUME NEW a, NEW h
      PROVE  /\ Shape([r EXCEPT !.au = a, !.throughput = h], t)
             /\ SameTimes([r EXCEPT !.au = a, !.throughput = h], r)
  BY DEF Shape, SameTimes
<1> QED
  BY <1>1 DEF TrainMetrics, EvalMetrics

-------------------------------------------------------------------------------
Loop == {"fetch", "compute", "barrier"}     \* places where a block is open

ClockInv ==
  /\ conf \in ConfigurationType
  /\ now \in Nat
  /\ block \in Nat \ {0}
  /\ block_step \in Nat \ {0}
  /\ overall_step \in Nat \ {0}
  /\ next_checkpoint_step \in Int
  /\ start_time_loading \in 0 .. now
  /\ pc \in {"compute", "compute_eval"} => start_time_compute \in 0 .. now

Records(out, t) ==
  /\ out = [b \in DOMAIN out |-> out[b]]
  /\ \A b \in DOMAIN out : Shape(out[b], t)

OutputInv ==
  /\ Blocks \subseteq DOMAIN output
  /\ Records(output, now)
  /\ pc \in {"eval", "compute_eval"} => EvalKey \in DOMAIN output

TypeInv == ClockInv /\ OutputInv

(* The types hold at the start. *)
LEMMA TypeInvInit == Init => TypeInv
<1> SUFFICES ASSUME Init PROVE TypeInv
  OBVIOUS
<1>1. ClockInv
  BY StatsAssumption DEF Init, ClockInv, ConfigurationType
<1>2. DOMAIN output = {1} /\ output[1] = New(0)
  BY DEF Init, Put
<1>3. Shape(New(0), 0)
  BY EmptySeq DEF Shape, New, Unset
<1>4. output = [b \in DOMAIN output |-> output[b]]
  BY <1>2 DEF Init, Put
<1> QED
  BY <1>1, <1>2, <1>3, <1>4 DEF Init, TypeInv, OutputInv, Records, Blocks, EvalKey

(* Time never goes back. *)
LEMMA TimePasses ==
  ASSUME ClockInv, [Next]_vars
  PROVE  now' \in Nat /\ now <= now'
<1>1. \A T \in {LoadTimes, ComputeTimes, BarrierTimes, SaveTimes} :
        Took(T) => now' \in Nat /\ now <= now'
  BY StatsAssumption DEF Took, ClockInv
<1> QED
  BY <1>1 DEF ClockInv, Next, vars, Fetch, Compute, NextStep, EndOfBlock, EndSave,
     EndOfLoop, EndOfEpoch, EndEpochSave, EndTrain, FetchEval, ComputeEval, EndEval,
     Terminated

(* Time goes on, and the starting times lie behind. *)
LEMMA ClockInvNext == TypeInv /\ [Next]_vars => ClockInv'
<1> SUFFICES ASSUME TypeInv, [Next]_vars PROVE ClockInv'
  OBVIOUS
<1>1. now' \in Nat /\ now <= now'
  BY TimePasses DEF TypeInv
<1> USE <1>1 DEF TypeInv, ClockInv, counters
<1>2. conf' = conf /\ conf.between \in Int
  BY DEF Next, vars, Fetch, Compute, NextStep, EndOfBlock, EndSave, EndOfLoop,
     EndOfEpoch, EndEpochSave, EndTrain, FetchEval, ComputeEval, EndEval, Terminated,
     ConfigurationType
<1>3. CASE Fetch \/ Compute \/ NextStep
  BY <1>2, <1>3 DEF Fetch, Compute, NextStep
<1>4. CASE EndOfBlock \/ EndOfLoop \/ EndOfEpoch \/ EndEpochSave
  BY <1>2, <1>4 DEF EndOfBlock, EndOfLoop, EndOfEpoch, EndEpochSave
<1>5. CASE EndSave
  BY <1>2, <1>5 DEF EndSave
<1>6. CASE EndTrain
  BY <1>2, <1>6 DEF EndTrain
<1>7. CASE FetchEval \/ ComputeEval \/ EndEval
  BY <1>2, <1>7 DEF FetchEval, ComputeEval, EndEval
<1>8. CASE UNCHANGED vars
  BY <1>8 DEF vars
<1> QED
  BY <1>3, <1>4, <1>5, <1>6, <1>7, <1>8 DEF Next, Terminated

-------------------------------------------------------------------------------
(* What each call of StatsCounter does to a record *)

(* batch_loaded appends the time since start_loading to one list. *)
LEMMA LoadedRecord ==
  ASSUME NEW t \in Nat, NEW r, Shape(r, t), NEW d \in Nat
  PROVE  /\ Shape(Loaded(r, d), t)
         /\ Len(Loaded(r, d).load) = Len(r.load) + 1
         /\ Loaded(r, d).proc = r.proc /\ Loaded(r, d).compute = r.compute
         /\ Loaded(r, d).start = r.start /\ Loaded(r, d).end = r.end
<1>1. Append(r.load, d) \in Seq(Nat) /\ Len(Append(r.load, d)) = Len(r.load) + 1
  BY AppendProperties DEF Shape
<1> QED
  BY <1>1 DEF Shape, Loaded

(* batch_processed appends to the two others. *)
LEMMA ProcessedRecord ==
  ASSUME NEW t \in Nat, NEW r, Shape(r, t), NEW d \in Nat, NEW c \in Nat
  PROVE  /\ Shape(Processed(r, d, c), t)
         /\ Len(Processed(r, d, c).proc) = Len(r.proc) + 1
         /\ Len(Processed(r, d, c).compute) = Len(r.compute) + 1
         /\ Processed(r, d, c).load = r.load
         /\ Processed(r, d, c).start = r.start /\ Processed(r, d, c).end = r.end
<1>1. /\ Append(r.proc, d) \in Seq(Nat) /\ Len(Append(r.proc, d)) = Len(r.proc) + 1
      /\ Append(r.compute, c) \in Seq(Nat) /\ Len(Append(r.compute, c)) = Len(r.compute) + 1
  BY AppendProperties DEF Shape
<1> QED
  BY <1>1 DEF Shape, Processed

(* end_block and end_eval record the time and the number of steps. *)
LEMMA ClosedRecord ==
  ASSUME NEW t \in Nat, NEW m, Shape(m, t), NEW n \in Nat
  PROVE  /\ Shape(Closed(m, t, n), t)
         /\ Closed(m, t, n).load = m.load /\ Closed(m, t, n).proc = m.proc
         /\ Closed(m, t, n).compute = m.compute /\ Closed(m, t, n).start = m.start
         /\ Closed(m, t, n).end = t /\ Closed(m, t, n).taken = n
<1> DEFINE E == (0 .. t) \cup {Unset}
           q == Closed(m, t, n)
<1>1. t \in E
  OBVIOUS
<1>2. m \in [load: Seq(Nat), proc: Seq(Nat), compute: Seq(Nat), au: {m.au},
             throughput: {m.throughput}, start: 0 .. t, end: E, taken: Nat]
  BY DEF Shape
<1> HIDE DEF E
<1>3. /\ q \in [load: Seq(Nat), proc: Seq(Nat), compute: Seq(Nat), au: {q.au},
                 throughput: {q.throughput}, start: 0 .. t, end: E, taken: Nat]
      /\ q.load = m.load /\ q.proc = m.proc /\ q.compute = m.compute
      /\ q.start = m.start /\ q.end = t /\ q.taken = n
  BY <1>1, <1>2 DEF Closed
<1> QED
  BY <1>3 DEF Shape, E

(* The lists of an open block that end_block ends stay. *)
LEMMA EndedRecord ==
  ASSUME NEW t \in Nat, NEW r, Shape(r, t), NEW n \in Nat, NEW e, r.end = Unset
  PROVE  LET q == EndedBlock(r, e, t, n)
         IN  /\ Shape(q, t) /\ q.load = r.load /\ q.proc = r.proc /\ q.compute = r.compute
             /\ q.start = r.start /\ q.end = t /\ q.taken = n
<1>1. Shape(TrainMetrics(r, e), t) /\ SameTimes(TrainMetrics(r, e), r)
  BY MetricsOnly
<1>2. EndedBlock(r, e, t, n) = Closed(TrainMetrics(r, e), t, n)
  BY DEF EndedBlock
<1> QED
  BY <1>1, <1>2, ClosedRecord DEF SameTimes

(* start_block and start_eval make an empty record. *)
LEMMA NewRecord ==
  ASSUME NEW t \in Nat, NEW u \in 0 .. t
  PROVE  /\ Shape(New(u), t) /\ New(u).end = Unset /\ New(u).start = u
         /\ Len(New(u).load) = 0 /\ Len(New(u).proc) = 0 /\ Len(New(u).compute) = 0
BY EmptySeq DEF Shape, New, Unset

-------------------------------------------------------------------------------
(* What the actions do to output: the record of key k becomes q, and the others
   stay. *)
Changed(k, q) == output' = Put(output, k, q) /\ Shape(q, now')

(* Time spent is not negative. *)
LEMMA Duration ==
  ASSUME NEW since \in Nat, NEW before \in Nat, NEW after \in Nat,
         since <= before, before <= after
  PROVE  after - since \in Nat
OBVIOUS

(* Nor is the time since loading or computing began. *)
LEMMA Durations ==
  ASSUME ClockInv, now' \in Nat, now <= now'
  PROVE  /\ now' - start_time_loading \in Nat
         /\ pc \in {"compute", "compute_eval"} => now' - start_time_compute \in Nat
<1>1. /\ now \in Nat /\ start_time_loading \in Nat /\ start_time_loading <= now
      /\ pc \in {"compute", "compute_eval"} =>
           start_time_compute \in Nat /\ start_time_compute <= now
  BY DEF ClockInv
<1> QED
  BY <1>1, Duration

(* batch_loaded adds a loading time to the block. *)
LEMMA FetchOutput ==
  ASSUME TypeInv, Fetch
  PROVE  \E q : /\ Changed(block, q) /\ Len(q.load) = Len(output[block].load) + 1
                /\ q.proc = output[block].proc /\ q.compute = output[block].compute
                /\ q.start = output[block].start /\ q.end = output[block].end
<1>1. now' \in Nat /\ now <= now'
  BY TimePasses DEF TypeInv, Next
<1>2. /\ block \in DOMAIN output /\ Shape(output[block], now) /\ now \in Nat
      /\ now' - start_time_loading \in Nat
  BY <1>1 DEF TypeInv, ClockInv, OutputInv, Records, Blocks
<1>3. Shape(output[block], now')
  BY <1>1, <1>2, ShapeLater
<1> QED
  BY <1>1, <1>2, <1>3, LoadedRecord DEF Changed, Fetch, BatchLoaded

(* batch_processed adds the two others. *)
LEMMA ComputeOutput ==
  ASSUME TypeInv, Compute
  PROVE  \E q : /\ Changed(block, q) /\ q.load = output[block].load
                /\ Len(q.proc) = Len(output[block].proc) + 1
                /\ Len(q.compute) = Len(output[block].compute) + 1
                /\ q.start = output[block].start /\ q.end = output[block].end
<1>1. now' \in Nat /\ now <= now'
  BY TimePasses DEF TypeInv, Next
<1>2. /\ block \in DOMAIN output /\ Shape(output[block], now) /\ now \in Nat
      /\ now' - start_time_loading \in Nat /\ now' - start_time_compute \in Nat
  BY <1>1 DEF TypeInv, ClockInv, OutputInv, Records, Blocks, Compute
<1>3. Shape(output[block], now')
  BY <1>1, <1>2, ShapeLater
<1> QED
  BY <1>1, <1>2, <1>3, ProcessedRecord DEF Changed, Compute, BatchProcessed

(* end_block leaves the times alone. *)
LEMMA EndBlockOutput ==
  ASSUME TypeInv, [Next]_vars, NEW n \in Nat, EndBlock(block, n), output[block].end = Unset
  PROVE  \E q : /\ Changed(block, q) /\ q.load = output[block].load
                /\ q.proc = output[block].proc /\ q.compute = output[block].compute
                /\ q.start = output[block].start /\ q.end = now' /\ q.taken = n
<1>1. now' \in Nat /\ now <= now'
  BY TimePasses DEF TypeInv
<1>2. block \in DOMAIN output /\ Shape(output[block], now) /\ now \in Nat
  BY DEF TypeInv, ClockInv, OutputInv, Records, Blocks
<1>3. Shape(output[block], now')
  BY <1>1, <1>2, ShapeLater
<1> QED
  BY <1>1, <1>3, EndedRecord DEF Changed, EndBlock

(* The calls of _eval change the record of the evaluation. *)
LEMMA EvalOutput ==
  ASSUME TypeInv, FetchEval \/ ComputeEval \/ EndEval
  PROVE  \E q : Changed(EvalKey, q)
<1>1. now' \in Nat /\ now <= now'
  BY TimePasses DEF TypeInv, Next
<1>2. EvalKey \in DOMAIN output /\ Shape(output[EvalKey], now) /\ now \in Nat
  BY DEF TypeInv, ClockInv, OutputInv, Records, FetchEval, ComputeEval, EndEval
<1>3. Shape(output[EvalKey], now')
  BY <1>1, <1>2, ShapeLater
<1>4. CASE FetchEval
  <2>1. now' - start_time_loading \in Nat
    BY <1>1, Durations DEF TypeInv
  <2> QED
    BY <1>1, <1>3, <1>4, <2>1, LoadedRecord DEF Changed, FetchEval, BatchLoaded
<1>5. CASE ComputeEval
  <2>1. now' - start_time_loading \in Nat /\ now' - start_time_compute \in Nat
    BY <1>1, <1>5, Durations DEF TypeInv, ComputeEval
  <2> QED
    BY <1>1, <1>3, <1>5, <2>1, ProcessedRecord DEF Changed, ComputeEval, BatchProcessed
<1>6. CASE EndEval
  <2> DEFINE m == EvalMetrics(output[EvalKey], now' - start_timestamp)
  <2>1. Shape(m, now') /\ conf.steps_eval \in Nat
    BY <1>1, <1>3, MetricsOnly DEF TypeInv, ClockInv, ConfigurationType
  <2>2. output' = Put(output, EvalKey, Closed(m, now', conf.steps_eval))
    BY <1>6 DEF EndEval, EndedEval
  <2> HIDE DEF m
  <2> QED
    BY <1>1, <2>1, <2>2, ClosedRecord DEF Changed
<1> QED
  BY <1>4, <1>5, <1>6

(* One record changes or is added, and the others stay. *)
LEMMA OneRecord ==
  ASSUME NEW t \in Nat, NEW u \in Nat, t <= u, NEW out, Records(out, t),
         NEW k, NEW q, Shape(q, u)
  PROVE  Records(Put(out, k, q), u)
BY ShapeLater DEF Put, Records

(* Records stay well-formed as time goes on. *)
LEMMA RecordsLater ==
  ASSUME NEW t \in Nat, NEW u \in Nat, t <= u, NEW out, Records(out, t)
  PROVE  Records(out, u)
BY ShapeLater DEF Records

(* Every step keeps the records well-formed. *)
LEMMA OutputInvNext == TypeInv /\ [Next]_vars => OutputInv'
<1> SUFFICES ASSUME TypeInv, [Next]_vars PROVE OutputInv'
  OBVIOUS
<1>1. now \in Nat /\ now' \in Nat /\ now <= now' /\ block \in Nat \ {0}
  BY TimePasses DEF TypeInv, ClockInv
<1>2. Blocks \subseteq DOMAIN output /\ Records(output, now) /\ Blocks = 1 .. block
  BY DEF TypeInv, OutputInv, Blocks
(* A record changes: the key is there, or is that of the next block or 'eval'. *)
<1> DEFINE Kept == Blocks' \subseteq DOMAIN output' /\ Records(output', now')
<1>3. ASSUME NEW k, NEW q, Changed(k, q)
      PROVE  Records(output', now') /\ DOMAIN output' = DOMAIN output \cup {k}
  <2>1. output' = Put(output, k, q) /\ Shape(q, now')
    BY <1>3 DEF Changed
  <2>2. Records(Put(output, k, q), now')
    BY <1>1, <1>2, <2>1, OneRecord
  <2>3. DOMAIN output' = DOMAIN output \cup {k}
    BY <2>1 DEF Put
  <2> QED
    BY <2>1, <2>2, <2>3
<1>3a. ASSUME NEW k, NEW q, Changed(k, q), block' = block
       PROVE  Kept
  <2>1. Records(output', now') /\ DOMAIN output' = DOMAIN output \cup {k}
    BY <1>3, <1>3a
  <2> QED
    BY <1>2, <1>3a, <2>1 DEF Blocks
<1>4. ASSUME UNCHANGED <<output, block>>
      PROVE  Kept /\ DOMAIN output' = DOMAIN output
  BY <1>1, <1>2, <1>4, RecordsLater DEF Blocks
<1>5. CASE Fetch
  <2>1. PICK q : Changed(block, q)
    BY <1>5, FetchOutput
  <2> QED
    BY <1>3a, <1>5, <2>1 DEF OutputInv, Fetch, counters
<1>6. CASE Compute
  <2>1. PICK q : Changed(block, q)
    BY <1>6, ComputeOutput
  <2> QED
    BY <1>3a, <1>6, <2>1 DEF OutputInv, Compute, counters
<1>7. CASE NextStep
  BY <1>4, <1>7 DEF OutputInv, NextStep
<1>8. CASE EndOfBlock \/ EndOfLoop
  <2>1. PICK n \in {block_step, block_step - 1} : EndBlock(block, n)
    BY <1>8 DEF EndOfBlock, EndOfLoop
  <2> DEFINE e == now' - start_timestamp
             q == EndedBlock(output[block], e, now', n)
  <2>2. Shape(output[block], now') /\ n \in Nat
    BY <1>1, <1>2, ShapeLater DEF Records, TypeInv, ClockInv
  <2>3. Shape(q, now')
    <3> HIDE DEF e
    <3>1. CASE output[block].end = Unset
      BY <1>1, <2>2, <3>1, EndedRecord
    <3>2. CASE output[block].end # Unset
      BY <1>1, <2>2, <3>2, MetricsOnly DEF EndedBlock
    <3> QED
      BY <3>1, <3>2
  <2>4. Changed(block, q)
    BY <2>1, <2>3 DEF Changed, EndBlock
  <2> HIDE DEF q
  <2>5. block' = block /\ pc' \notin {"eval", "compute_eval"}
    BY <1>8 DEF EndOfBlock, EndOfLoop, counters
  <2> QED
    BY <1>3a, <2>4, <2>5 DEF OutputInv
<1>9. CASE EndSave
  <2>1. Changed(block', New(now'))
    BY <1>1, <1>9, NewRecord DEF Changed, EndSave
  <2>2. Records(output', now') /\ DOMAIN output' = DOMAIN output \cup {block'}
    BY <1>3, <2>1
  <2>3. Kept
    BY <1>1, <1>2, <1>9, <2>2 DEF EndSave, Blocks
  <2> QED
    BY <1>9, <2>3 DEF OutputInv, EndSave
<1>10. CASE EndOfEpoch \/ EndEpochSave
  BY <1>4, <1>10 DEF OutputInv, EndOfEpoch, EndEpochSave, counters
<1>11. CASE EndTrain
  <2>1. CASE conf.do_eval
    <3>1. Changed(EvalKey, New(now))
      BY <1>1, <1>11, <2>1, NewRecord DEF Changed, EndTrain
    <3>2. block' = block
      BY <1>11 DEF EndTrain, counters
    <3>3. Kept
      BY <1>3a, <3>1, <3>2
    <3>4. EvalKey \in DOMAIN output'
      BY <3>1 DEF Changed, Put
    <3> QED
      BY <3>3, <3>4 DEF OutputInv
  <2>2. CASE ~conf.do_eval
    BY <1>4, <1>11, <2>2 DEF OutputInv, EndTrain, counters
  <2> QED
    BY <2>1, <2>2
<1>12. CASE FetchEval \/ ComputeEval \/ EndEval
  <2>1. PICK q : Changed(EvalKey, q)
    BY <1>12, EvalOutput
  <2>2. block' = block
    BY <1>12 DEF FetchEval, ComputeEval, EndEval, counters
  <2>3. Kept
    BY <1>3a, <2>1, <2>2
  <2>4. EvalKey \in DOMAIN output'
    BY <2>1 DEF Changed, Put
  <2> QED
    BY <2>3, <2>4 DEF OutputInv
<1>13. CASE UNCHANGED vars
  BY <1>4, <1>13 DEF vars, TypeInv, OutputInv
<1> QED
  BY <1>5, <1>6, <1>7, <1>8, <1>9, <1>10, <1>11, <1>12, <1>13 DEF Next, Terminated

(* The types hold in every reachable state. *)
LEMMA TypeInvariant == Spec => []TypeInv
<1>1. TypeInv /\ [Next]_vars => TypeInv'
  BY ClockInvNext, OutputInvNext DEF TypeInv
<1> QED
  BY TypeInvInit, <1>1, PTL DEF Spec

-------------------------------------------------------------------------------
(* The blocks *)

(* The last block is open while the loop runs, and no other ever is. *)
LastOpen ==
  \A b \in Blocks : output[b].end = Unset <=> b = block /\ pc \in Loop

(* How far the lists of the open block are. *)
OpenBlock ==
  /\ pc \in Loop => Len(output[block].load) = IF pc = "fetch" THEN block_step - 1 ELSE block_step
  /\ pc \in Loop => Len(output[block].proc) = IF pc = "barrier" THEN block_step ELSE block_step - 1
  /\ pc \in Loop => Len(output[block].compute) = IF pc = "barrier" THEN block_step ELSE block_step - 1

(* The next checkpoint is as many steps away as the block has left; a checkpoint
   is written after the last of them. *)
Distance ==
  /\ next_checkpoint_step - overall_step = conf.between - block_step
  /\ pc = "save" => block_step = conf.between /\ output[block].taken = conf.between

BlockInv == LastOpen /\ OpenBlock /\ Distance /\ StepsInBlocks

(* The first block has no step yet. *)
LEMMA BlockInit == Init => BlockInv
<1> SUFFICES ASSUME Init PROVE BlockInv
  OBVIOUS
<1>1. /\ Blocks = {1} /\ output[1] = New(0) /\ pc = "fetch" /\ block_step = 1 /\ block = 1
      /\ overall_step = 1 /\ next_checkpoint_step = conf.between /\ conf.between \in Int
  BY StatsAssumption DEF Init, Blocks, Put, ConfigurationType
<1>2. /\ New(0).end = Unset
      /\ Len(New(0).load) = 0 /\ Len(New(0).proc) = 0 /\ Len(New(0).compute) = 0
  BY NewRecord
<1> QED
  BY <1>1, <1>2 DEF BlockInv, LastOpen, OpenBlock, Distance, StepsInBlocks, Ended, Loop

(* The records of the blocks, but for the one that changes *)
LEMMA OtherBlocks ==
  ASSUME TypeInv, NEW k, NEW q, Changed(k, q)
  PROVE  /\ output'[k] = q
         /\ \A b \in Blocks : b # k => output'[b] = output[b]
         /\ DOMAIN output' = DOMAIN output \cup {k}
BY DEF TypeInv, OutputInv, Changed, Put

(* What is left of BlockInv when no block is open and no block changes *)
LEMMA BlockKept ==
  ASSUME TypeInv, BlockInv, pc \notin Loop, pc' \notin Loop \cup {"save"},
         UNCHANGED <<conf, block, block_step, overall_step, next_checkpoint_step>>,
         Blocks \subseteq DOMAIN output', \A b \in Blocks : output'[b] = output[b]
  PROVE  BlockInv'
<1>1. Blocks' = Blocks /\ block \in Blocks /\ Blocks \subseteq DOMAIN output
  BY DEF Blocks, TypeInv, ClockInv, OutputInv
<1>2. LastOpen'
  BY <1>1 DEF BlockInv, LastOpen
<1>3. OpenBlock' /\ Distance'
  BY DEF OpenBlock, BlockInv, Distance
<1>4. StepsInBlocks'
  BY <1>1 DEF BlockInv, StepsInBlocks, Ended
<1> QED
  BY <1>2, <1>3, <1>4 DEF BlockInv

(* Every step keeps the times of a block those of its steps. *)
LEMMA BlockNext == TypeInv /\ BlockInv /\ [Next]_vars => BlockInv'
<1> SUFFICES ASSUME TypeInv, BlockInv, [Next]_vars PROVE BlockInv'
  OBVIOUS
<1>1. /\ block \in Nat \ {0} /\ block \in Blocks /\ block_step \in Nat \ {0}
      /\ overall_step \in Nat /\ next_checkpoint_step \in Int /\ conf.between \in Int
      /\ EvalKey \notin Blocks /\ Blocks \subseteq DOMAIN output
  BY DEF TypeInv, ClockInv, OutputInv, Blocks, EvalKey, ConfigurationType
<1>2. now \in Nat /\ now' \in Nat /\ now <= now' /\ now' # Unset
  BY TimePasses DEF TypeInv, ClockInv, Unset
<1>3. CASE Fetch
  <2>1. PICK q : /\ Changed(block, q) /\ Len(q.load) = Len(output[block].load) + 1
                 /\ q.proc = output[block].proc /\ q.compute = output[block].compute
                 /\ q.start = output[block].start /\ q.end = output[block].end
    BY <1>3, FetchOutput
  <2>2. output'[block] = q /\ (\A b \in Blocks : b # block => output'[b] = output[b])
    BY <2>1, OtherBlocks
  <2>3. /\ pc = "fetch" /\ pc' = "compute" /\ Blocks' = Blocks /\ DOMAIN output' = DOMAIN output
        /\ UNCHANGED <<conf, block, block_step, overall_step, next_checkpoint_step>>
    BY <1>1, <1>3, <2>1, OtherBlocks DEF Fetch, counters, Blocks
  <2>4. LastOpen'
    BY <2>1, <2>2, <2>3 DEF BlockInv, LastOpen, Loop
  <2>5. OpenBlock' /\ Distance'
    <3>1. Len(q.load) = block_step /\ Len(q.proc) = block_step - 1
          /\ Len(q.compute) = block_step - 1
      BY <1>1, <2>1, <2>3 DEF BlockInv, OpenBlock, Loop
    <3> QED
      BY <2>2, <2>3, <3>1 DEF BlockInv, OpenBlock, Distance
  <2>6. StepsInBlocks'
    BY <2>2, <2>3, <2>4 DEF BlockInv, LastOpen, StepsInBlocks, Ended, Loop
  <2> QED
    BY <2>4, <2>5, <2>6 DEF BlockInv
<1>4. CASE Compute
  <2>1. PICK q : /\ Changed(block, q) /\ q.load = output[block].load
                 /\ Len(q.proc) = Len(output[block].proc) + 1
                 /\ Len(q.compute) = Len(output[block].compute) + 1
                 /\ q.start = output[block].start /\ q.end = output[block].end
    BY <1>4, ComputeOutput
  <2>2. output'[block] = q /\ (\A b \in Blocks : b # block => output'[b] = output[b])
    BY <2>1, OtherBlocks
  <2>3. /\ pc = "compute" /\ pc' = "barrier" /\ Blocks' = Blocks /\ DOMAIN output' = DOMAIN output
        /\ UNCHANGED <<conf, block, block_step, overall_step, next_checkpoint_step>>
    BY <1>1, <1>4, <2>1, OtherBlocks DEF Compute, counters, Blocks
  <2>4. LastOpen'
    BY <2>1, <2>2, <2>3 DEF BlockInv, LastOpen, Loop
  <2>5. OpenBlock' /\ Distance'
    BY <1>1, <2>1, <2>2, <2>3 DEF BlockInv, OpenBlock, Distance, Loop
  <2>6. StepsInBlocks'
    BY <2>2, <2>3, <2>4 DEF BlockInv, LastOpen, StepsInBlocks, Ended, Loop
  <2> QED
    BY <2>4, <2>5, <2>6 DEF BlockInv
<1>5. CASE NextStep
  <2>1. /\ pc = "barrier" /\ pc' = "fetch" /\ UNCHANGED <<conf, block, next_checkpoint_step, output>>
        /\ block_step' = block_step + 1 /\ overall_step' = overall_step + 1 /\ Blocks' = Blocks
    BY <1>5 DEF NextStep, Blocks
  <2>2. LastOpen' /\ OpenBlock' /\ Distance'
    BY <1>1, <2>1 DEF BlockInv, LastOpen, OpenBlock, Distance, Loop
  <2>3. StepsInBlocks'
    BY <2>1 DEF BlockInv, StepsInBlocks, Ended
  <2> QED
    BY <2>2, <2>3 DEF BlockInv
<1>6. CASE EndOfBlock
  <2>1. pc = "barrier" /\ output[block].end = Unset /\ EndBlock(block, block_step)
    BY <1>1, <1>6 DEF EndOfBlock, BlockInv, LastOpen, Loop
  <2>2. PICK q : /\ Changed(block, q) /\ q.load = output[block].load
                 /\ q.proc = output[block].proc /\ q.compute = output[block].compute
                 /\ q.start = output[block].start /\ q.end = now' /\ q.taken = block_step
    BY <1>1, <2>1, EndBlockOutput
  <2>3. output'[block] = q /\ (\A b \in Blocks : b # block => output'[b] = output[b])
    BY <2>2, OtherBlocks
  <2>4. /\ pc' = "save" /\ Blocks' = Blocks /\ DOMAIN output' = DOMAIN output
        /\ UNCHANGED <<conf, block, block_step, overall_step, next_checkpoint_step>>
        /\ overall_step = next_checkpoint_step
    BY <1>1, <1>6, <2>2, OtherBlocks DEF EndOfBlock, CheckpointDue, counters, Blocks
  <2>5. LastOpen'
    BY <1>2, <2>2, <2>3, <2>4 DEF BlockInv, LastOpen, Loop
  <2>6. OpenBlock' /\ Distance'
    BY <1>1, <2>2, <2>3, <2>4 DEF BlockInv, OpenBlock, Distance, Loop
  <2>7. /\ Len(q.load) = block_step /\ Len(q.proc) = block_step /\ Len(q.compute) = block_step
    BY <2>1, <2>2 DEF BlockInv, OpenBlock, Loop
  <2>8. StepsInBlocks'
    <3>1. ASSUME NEW b \in Blocks' \cap Ended', b # block
          PROVE  b \in Blocks \cap Ended /\ output'[b] = output[b]
      BY <2>3, <2>4, <3>1 DEF Ended
    <3>2. \A b \in Blocks' \cap Ended' : b # block =>
            /\ output'[b].taken = Len(output'[b].load)
            /\ output'[b].taken = Len(output'[b].proc)
            /\ output'[b].taken = Len(output'[b].compute)
            /\ b < block' => output'[b].taken = conf'.between
      BY <2>4, <3>1 DEF BlockInv, StepsInBlocks
    <3>3. /\ output'[block].taken = Len(output'[block].load)
          /\ output'[block].taken = Len(output'[block].proc)
          /\ output'[block].taken = Len(output'[block].compute)
      BY <2>2, <2>3, <2>7
    <3>4. ~(block < block')
      BY <1>1, <2>4
    <3> QED
      BY <3>2, <3>3, <3>4 DEF StepsInBlocks
  <2> QED
    BY <2>5, <2>6, <2>8 DEF BlockInv
<1>7. CASE EndSave
  <2>1. /\ pc = "save" /\ pc' = "fetch" /\ UNCHANGED conf /\ block' = block + 1 /\ block_step' = 1
        /\ overall_step' = overall_step + 1
        /\ next_checkpoint_step' = next_checkpoint_step + conf.between
        /\ output' = Put(output, block', New(now'))
    BY <1>7 DEF EndSave
  <2>2. Changed(block', New(now'))
    BY <1>2, <2>1, NewRecord DEF Changed
  <2>3. Blocks' = Blocks \cup {block'} /\ block' \notin Blocks
    BY <1>1, <2>1 DEF Blocks
  <2>4. /\ output'[block'] = New(now') /\ (\A b \in Blocks : output'[b] = output[b])
        /\ DOMAIN output' = DOMAIN output \cup {block'}
    BY <2>2, <2>3, OtherBlocks
  <2>5. /\ New(now').end = Unset
        /\ Len(New(now').load) = 0 /\ Len(New(now').proc) = 0 /\ Len(New(now').compute) = 0
    BY <1>2, NewRecord
  <2>6. \A b \in Blocks : output[b].end # Unset
    BY <2>1 DEF BlockInv, LastOpen, Loop
  <2>7. LastOpen'
    BY <2>1, <2>3, <2>4, <2>5, <2>6 DEF LastOpen, Loop
  <2>8. OpenBlock' /\ Distance'
    BY <1>1, <2>1, <2>4, <2>5 DEF BlockInv, OpenBlock, Distance, Loop
  <2>9. StepsInBlocks'
    <3>1. ASSUME NEW b \in Blocks
          PROVE  /\ output[b].taken = Len(output[b].load)
                 /\ output[b].taken = Len(output[b].proc)
                 /\ output[b].taken = Len(output[b].compute)
                 /\ output[b].taken = conf.between
      BY <1>1, <2>1, <2>6 DEF BlockInv, StepsInBlocks, Distance, Ended, Blocks
    <3> QED
      BY <2>1, <2>3, <2>4, <2>5, <3>1 DEF StepsInBlocks, Ended
  <2> QED
    BY <2>7, <2>8, <2>9 DEF BlockInv
<1>8. CASE EndOfLoop
  <2>1. pc = "fetch" /\ output[block].end = Unset /\ EndBlock(block, block_step - 1)
        /\ block_step - 1 \in Nat
    BY <1>1, <1>8 DEF EndOfLoop, BlockInv, LastOpen, Loop
  <2>2. PICK q : /\ Changed(block, q) /\ q.load = output[block].load
                 /\ q.proc = output[block].proc /\ q.compute = output[block].compute
                 /\ q.start = output[block].start /\ q.end = now' /\ q.taken = block_step - 1
    BY <2>1, EndBlockOutput
  <2>3. output'[block] = q /\ (\A b \in Blocks : b # block => output'[b] = output[b])
    BY <2>2, OtherBlocks
  <2>4. /\ pc' = "end_train" /\ Blocks' = Blocks /\ DOMAIN output' = DOMAIN output
        /\ UNCHANGED <<conf, block, block_step, overall_step, next_checkpoint_step>>
    BY <1>1, <1>8, <2>2, OtherBlocks DEF EndOfLoop, counters, Blocks
  <2>5. LastOpen'
    BY <1>2, <2>2, <2>3, <2>4 DEF BlockInv, LastOpen, Loop
  <2>6. OpenBlock' /\ Distance'
    BY <1>1, <2>2, <2>3, <2>4 DEF BlockInv, OpenBlock, Distance, Loop
  <2>7. Len(q.load) = q.taken /\ Len(q.proc) = q.taken /\ Len(q.compute) = q.taken
    BY <2>1, <2>2 DEF BlockInv, OpenBlock, Loop
  <2>8. StepsInBlocks'
    <3>1. ASSUME NEW b \in Blocks' \cap Ended', b # block
          PROVE  b \in Blocks \cap Ended /\ output'[b] = output[b]
      BY <2>3, <2>4, <3>1 DEF Ended
    <3>2. \A b \in Blocks' \cap Ended' : b # block =>
            /\ output'[b].taken = Len(output'[b].load)
            /\ output'[b].taken = Len(output'[b].proc)
            /\ output'[b].taken = Len(output'[b].compute)
            /\ b < block' => output'[b].taken = conf'.between
      BY <2>4, <3>1 DEF BlockInv, StepsInBlocks
    <3>3. /\ output'[block].taken = Len(output'[block].load)
          /\ output'[block].taken = Len(output'[block].proc)
          /\ output'[block].taken = Len(output'[block].compute)
      BY <2>3, <2>7
    <3>4. ~(block < block')
      BY <1>1, <2>4
    <3> QED
      BY <3>2, <3>3, <3>4 DEF StepsInBlocks
  <2> QED
    BY <2>5, <2>6, <2>8 DEF BlockInv
<1>9. CASE EndOfEpoch \/ EndEpochSave
  BY <1>1, <1>9, BlockKept DEF EndOfEpoch, EndEpochSave, Loop, counters
<1>10. CASE EndTrain
  <2>1. /\ pc = "average" /\ pc' \in {"eval", "done"}
        /\ UNCHANGED <<conf, block, block_step, overall_step, next_checkpoint_step>>
        /\ UNCHANGED output \/ output' = Put(output, EvalKey, New(now))
    BY <1>10 DEF EndTrain, counters
  <2>2. ASSUME output' = Put(output, EvalKey, New(now))
        PROVE  Blocks \subseteq DOMAIN output' /\ \A b \in Blocks : output'[b] = output[b]
    BY <1>1, <2>2 DEF Put
  <2> QED
    BY <1>1, <2>1, <2>2, BlockKept DEF Loop
<1>11. CASE FetchEval \/ ComputeEval \/ EndEval
  <2>1. PICK q : Changed(EvalKey, q)
    BY <1>11, EvalOutput
  <2>2. Blocks \subseteq DOMAIN output' /\ \A b \in Blocks : output'[b] = output[b]
    BY <1>1, <2>1, OtherBlocks
  <2> QED
    BY <1>11, <2>2, BlockKept DEF FetchEval, ComputeEval, EndEval, Loop, counters
<1>12. CASE UNCHANGED vars
  BY <1>12 DEF vars, BlockInv, LastOpen, OpenBlock, Distance, StepsInBlocks, Blocks, Ended
<1> QED
  BY <1>3, <1>4, <1>5, <1>6, <1>7, <1>8, <1>9, <1>10, <1>11, <1>12 DEF Next, Terminated

(* Whatever the limits, the loader and the checkpoints are: the steps that end_block
   reports are those of each list of the block, and a block that a checkpoint ended
   has steps_between_checkpoints of them. *)
THEOREM BlocksCountTheirSteps == Spec => []StepsInBlocks
<1>1. TypeInv /\ BlockInv /\ [Next]_vars => (TypeInv /\ BlockInv)'
  BY ClockInvNext, OutputInvNext, BlockNext DEF TypeInv
<1>2. BlockInv => StepsInBlocks
  BY DEF BlockInv
<1> QED
  BY TypeInvInit, BlockInit, <1>1, <1>2, PTL DEF Spec

-------------------------------------------------------------------------------
(* The checkpoints *)

(* Checkpoints begun and ended by t *)
Saves(s, t) ==
  /\ s = [b \in DOMAIN s |-> s[b]]
  /\ \A b \in DOMAIN s : s[b] \in [start: 0 .. t, end: (0 .. t) \cup {Unset}]

(* The checkpoint of an ended block is written or being written; the block of the
   loop has none. *)
SavesInv ==
  /\ Saves(save_ckpt, now)
  /\ DOMAIN save_ckpt \subseteq Blocks
  /\ pc \in Loop => block \notin DOMAIN save_ckpt
  /\ pc \in {"save", "save_epoch"} => block \in DOMAIN save_ckpt

(* start_save_ckpt and end_save_ckpt set one entry. *)
LEMMA SavesStarted ==
  ASSUME NEW t \in Nat, NEW u \in Nat, t <= u, NEW s, NEW k \in Nat, Saves(s, t)
  PROVE  /\ Saves(StartSave(s, k, u), u)
         /\ StartSave(s, k, u)[k].start = u /\ StartSave(s, k, u)[k].end = Unset
         /\ \A b \in DOMAIN s : b # k => StartSave(s, k, u)[b] = s[b]
BY DEF Put, Saves, Unset, StartSave

(* start_ckpt begins a checkpoint now. *)
LEMMA CheckpointStarts ==
  ASSUME TypeInv, SavesInv, [Next]_vars, save_ckpt' = StartSave(save_ckpt, block, now')
  PROVE  /\ Saves(save_ckpt', now') /\ DOMAIN save_ckpt' = DOMAIN save_ckpt \cup {block}
         /\ save_ckpt'[block].start = now' /\ save_ckpt'[block].end = Unset
         /\ \A b \in DOMAIN save_ckpt : b # block => save_ckpt'[b] = save_ckpt[b]
<1>1. now \in Nat /\ now' \in Nat /\ now <= now' /\ block \in Nat /\ Saves(save_ckpt, now)
  BY TimePasses DEF TypeInv, ClockInv, SavesInv
<1>2. DOMAIN save_ckpt' = DOMAIN save_ckpt \cup {block}
  BY DEF StartSave, Put
<1>3. Saves(save_ckpt', now')
  BY <1>1, SavesStarted
<1>4. /\ save_ckpt'[block].start = now' /\ save_ckpt'[block].end = Unset
      /\ \A b \in DOMAIN save_ckpt : b # block => save_ckpt'[b] = save_ckpt[b]
  BY <1>1, SavesStarted
<1> QED
  BY <1>2, <1>3, <1>4

(* end_ckpt ends the one that was begun. *)
LEMMA SavesEnded ==
  ASSUME NEW t \in Nat, NEW u \in Nat, t <= u, NEW s, NEW k \in DOMAIN s, Saves(s, t)
  PROVE  /\ Saves(StopSave(s, k, u), u)
         /\ DOMAIN StopSave(s, k, u) = DOMAIN s
         /\ StopSave(s, k, u)[k].start = s[k].start /\ StopSave(s, k, u)[k].end = u
         /\ \A b \in DOMAIN s : b # k => StopSave(s, k, u)[b] = s[b]
BY DEF Saves, Unset, StopSave

CheckpointInv == SavesInv /\ CheckpointsOutsideBlocks

(* There is no checkpoint at the start. *)
LEMMA CheckpointInit == Init => CheckpointInv
<1> SUFFICES ASSUME Init PROVE CheckpointInv
  OBVIOUS
<1>1. /\ Blocks = {1} /\ output[1] = New(0) /\ save_ckpt = <<>> /\ pc = "fetch" /\ block = 1
  BY DEF Init, Blocks, Put
<1>2. New(0).end = Unset
  BY NewRecord
<1> QED
  BY <1>1, <1>2 DEF CheckpointInv, SavesInv, Saves, CheckpointsOutsideBlocks, Ended

(* A step that begins no checkpoint, ends none, and begins or ends no block *)
LEMMA CheckpointKept ==
  ASSUME TypeInv, CheckpointInv, now' \in Nat, now <= now', UNCHANGED <<block, save_ckpt>>,
         Blocks \subseteq DOMAIN output',
         \A b \in Blocks : output'[b].start = output[b].start /\ output'[b].end = output[b].end,
         pc' \in Loop => pc \in Loop, pc' \notin {"save", "save_epoch"}
  PROVE  CheckpointInv'
<1>1. Blocks' = Blocks /\ Blocks \subseteq DOMAIN output /\ block \in Nat \ {0} /\ now \in Nat
  BY DEF Blocks, TypeInv, ClockInv, OutputInv
<1>2. SavesInv'
  BY <1>1 DEF CheckpointInv, SavesInv, Saves, Unset
<1>3. \A b \in Blocks : b \in Ended' <=> b \in Ended
  BY <1>1 DEF Ended
<1>4. \A b \in 1 .. block - 1 : b \in Blocks /\ b + 1 \in Blocks
  BY <1>1 DEF Blocks
<1>5. CheckpointsOutsideBlocks'
  BY <1>1, <1>3, <1>4 DEF CheckpointInv, SavesInv, CheckpointsOutsideBlocks
<1> QED
  BY <1>2, <1>5 DEF CheckpointInv

(* Every step keeps the blocks and the checkpoints apart. *)
LEMMA CheckpointNext == TypeInv /\ LastOpen /\ CheckpointInv /\ [Next]_vars => CheckpointInv'
<1> SUFFICES ASSUME TypeInv, LastOpen, CheckpointInv, [Next]_vars PROVE CheckpointInv'
  OBVIOUS
<1>1. /\ block \in Nat \ {0} /\ block \in Blocks /\ Blocks \subseteq DOMAIN output
      /\ EvalKey \notin Blocks /\ block_step \in Nat \ {0}
      /\ \A b \in 1 .. block - 1 : b \in Blocks /\ b + 1 \in Blocks /\ b # block
      /\ \A b \in Blocks : b # block => b \in 1 .. block - 1
  BY DEF TypeInv, ClockInv, OutputInv, Blocks, EvalKey
<1>2. now \in Nat /\ now' \in Nat /\ now <= now' /\ now' # Unset
  BY TimePasses DEF TypeInv, ClockInv, Unset
<1>3. \A b \in Blocks : /\ output[b].start \in 0 .. now
                        /\ output[b].end \in (0 .. now) \cup {Unset}
  BY <1>1 DEF TypeInv, OutputInv, Records, Shape
<1>4. CASE Fetch \/ Compute
  <2>1. PICK q : /\ Changed(block, q)
                 /\ q.start = output[block].start /\ q.end = output[block].end
    BY <1>4, FetchOutput, ComputeOutput
  <2>2. /\ Blocks \subseteq DOMAIN output'
        /\ \A b \in Blocks : output'[b].start = output[b].start /\ output'[b].end = output[b].end
    BY <1>1, <2>1, OtherBlocks
  <2>3. UNCHANGED <<block, save_ckpt>> /\ pc \in Loop /\ pc' \in Loop
    BY <1>4 DEF Fetch, Compute, counters, Loop
  <2> QED
    BY <1>2, <2>2, <2>3, CheckpointKept DEF Loop
<1>5. CASE NextStep
  BY <1>1, <1>2, <1>5, CheckpointKept DEF NextStep, Loop
<1>6. CASE EndOfBlock \/ EndOfLoop
  <2>1. pc \in Loop /\ UNCHANGED block /\ \E n \in Nat : EndBlock(block, n)
    BY <1>1, <1>6 DEF EndOfBlock, EndOfLoop, Loop, counters
  <2>2. PICK q : Changed(block, q) /\ q.start = output[block].start /\ q.end = now'
    BY <1>1, <2>1, EndBlockOutput DEF LastOpen
  <2>3. /\ output'[block] = q /\ (\A b \in Blocks : b # block => output'[b] = output[b])
        /\ Blocks' = Blocks /\ DOMAIN output' = DOMAIN output
    BY <1>1, <2>1, <2>2, OtherBlocks DEF Blocks
  <2>4. \/ save_ckpt' = StartSave(save_ckpt, block, now') /\ pc' = "save"
        \/ save_ckpt' = save_ckpt /\ pc' = "end_train"
    BY <1>6 DEF EndOfBlock, EndOfLoop
  <2>5. block \notin DOMAIN save_ckpt
    BY <2>1 DEF CheckpointInv, SavesInv
  <2>6. /\ SavesInv' /\ (\A b \in DOMAIN save_ckpt : save_ckpt'[b] = save_ckpt[b])
        /\ DOMAIN save_ckpt' \subseteq DOMAIN save_ckpt \cup {block}
        /\ DOMAIN save_ckpt \subseteq DOMAIN save_ckpt'
        /\ block \in DOMAIN save_ckpt' => save_ckpt'[block].start = now' /\ save_ckpt'[block].end = Unset
    <3>1. CASE pc' = "save"
      <4>1. /\ Saves(save_ckpt', now') /\ DOMAIN save_ckpt' = DOMAIN save_ckpt \cup {block}
            /\ save_ckpt'[block].start = now' /\ save_ckpt'[block].end = Unset
            /\ \A b \in DOMAIN save_ckpt : b # block => save_ckpt'[b] = save_ckpt[b]
        BY <2>4, <3>1, CheckpointStarts DEF CheckpointInv
      <4>2. SavesInv'
        BY <1>1, <2>1, <2>3, <3>1, <4>1 DEF CheckpointInv, SavesInv, Loop
      <4> QED
        BY <2>5, <4>1, <4>2
    <3>2. CASE pc' = "end_train"
      BY <1>1, <1>2, <2>1, <2>3, <2>4, <2>5, <3>2 DEF CheckpointInv, SavesInv, Saves, Loop
    <3> QED
      BY <2>4, <3>1, <3>2
  <2>7. CheckpointsOutsideBlocks'
    <3>1. /\ block \in Ended' /\ (\A b \in Blocks : b # block => (b \in Ended' <=> b \in Ended))
          /\ output'[block].start <= output'[block].end
      BY <1>1, <1>2, <1>3, <2>2, <2>3 DEF Ended
    <3>2. \A b \in Blocks' \cap Ended' : output'[b].start <= output'[b].end
      BY <2>3, <3>1 DEF CheckpointInv, CheckpointsOutsideBlocks
    <3>3. \A b \in DOMAIN save_ckpt' :
            /\ b \in Ended'
            /\ output'[b].end <= save_ckpt'[b].start
            /\ save_ckpt'[b].end # Unset => save_ckpt'[b].start <= save_ckpt'[b].end
      <4>2. ASSUME NEW b \in DOMAIN save_ckpt, b # block
            PROVE  /\ b \in Ended'
                   /\ output'[b].end <= save_ckpt'[b].start
                   /\ save_ckpt'[b].end # Unset => save_ckpt'[b].start <= save_ckpt'[b].end
        BY <2>3, <2>6, <3>1, <4>2 DEF CheckpointInv, SavesInv, CheckpointsOutsideBlocks
      <4>3. ASSUME block \in DOMAIN save_ckpt'
            PROVE  /\ block \in Ended'
                   /\ output'[block].end <= save_ckpt'[block].start
                   /\ save_ckpt'[block].end # Unset
                        => save_ckpt'[block].start <= save_ckpt'[block].end
        BY <1>2, <2>2, <2>3, <2>6, <3>1, <4>3
      <4> QED
        BY <2>5, <2>6, <4>2, <4>3
    <3>4. \A b \in 1 .. block - 1 :
            /\ b \in DOMAIN save_ckpt' /\ save_ckpt'[b].end # Unset
            /\ save_ckpt'[b].end <= output'[b + 1].start
      BY <1>1, <2>2, <2>3, <2>6 DEF CheckpointInv, CheckpointsOutsideBlocks
    <3> QED
      BY <2>1, <3>2, <3>3, <3>4 DEF CheckpointsOutsideBlocks
  <2> QED
    BY <2>6, <2>7 DEF CheckpointInv
<1>7. CASE EndSave
  <2>1. /\ pc = "save" /\ pc' = "fetch" /\ block' = block + 1
        /\ save_ckpt' = StopSave(save_ckpt, block, now')
        /\ output' = Put(output, block', New(now'))
    BY <1>7 DEF EndSave
  <2>2. Changed(block', New(now')) /\ New(now').start = now' /\ New(now').end = Unset
    BY <1>2, <2>1, NewRecord DEF Changed
  <2>3. Blocks' = Blocks \cup {block'} /\ block' \notin Blocks /\ 1 .. block' - 1 = Blocks
    BY <1>1, <2>1 DEF Blocks
  <2>4. /\ output'[block'] = New(now') /\ (\A b \in Blocks : output'[b] = output[b])
        /\ DOMAIN output' = DOMAIN output \cup {block'}
    BY <2>2, <2>3, OtherBlocks
  <2>5. block \in DOMAIN save_ckpt
    BY <2>1 DEF CheckpointInv, SavesInv
  <2>6. /\ Saves(save_ckpt', now') /\ DOMAIN save_ckpt' = DOMAIN save_ckpt
        /\ save_ckpt'[block].start = save_ckpt[block].start /\ save_ckpt'[block].end = now'
        /\ \A b \in DOMAIN save_ckpt : b # block => save_ckpt'[b] = save_ckpt[b]
    BY <1>2, <2>1, <2>5, SavesEnded DEF CheckpointInv, SavesInv
  <2>7. SavesInv'
    <3>1. DOMAIN save_ckpt' \subseteq Blocks' /\ block' \notin DOMAIN save_ckpt'
      BY <2>3, <2>6 DEF CheckpointInv, SavesInv
    <3> QED
      BY <2>1, <2>6, <3>1 DEF SavesInv, Loop
  <2>8. CheckpointsOutsideBlocks'
    <3>1. save_ckpt[block].start \in 0 .. now
      BY <2>5 DEF CheckpointInv, SavesInv, Saves
    <3>2. \A b \in Blocks : b \in Ended' <=> b \in Ended
      BY <1>1, <2>4 DEF Ended
    <3>3. block' \notin Ended'
      BY <2>2, <2>4 DEF Ended
    <3>4. \A b \in Blocks' \cap Ended' : output'[b].start <= output'[b].end
      BY <2>3, <2>4, <3>2, <3>3 DEF CheckpointInv, CheckpointsOutsideBlocks
    <3>5. \A b \in DOMAIN save_ckpt' :
            /\ b \in Ended'
            /\ output'[b].end <= save_ckpt'[b].start
            /\ save_ckpt'[b].end # Unset => save_ckpt'[b].start <= save_ckpt'[b].end
      BY <1>2, <2>4, <2>6, <3>1, <3>2 DEF CheckpointInv, SavesInv, CheckpointsOutsideBlocks
    <3>6. \A b \in Blocks :
            /\ b \in DOMAIN save_ckpt' /\ save_ckpt'[b].end # Unset
            /\ save_ckpt'[b].end <= output'[b + 1].start
      <4>1. ASSUME NEW b \in Blocks, b # block
            PROVE  /\ b \in DOMAIN save_ckpt' /\ save_ckpt'[b].end # Unset
                   /\ save_ckpt'[b].end <= output'[b + 1].start
        BY <1>1, <2>4, <2>6, <4>1 DEF CheckpointInv, CheckpointsOutsideBlocks
      <4>2. /\ block \in DOMAIN save_ckpt' /\ save_ckpt'[block].end # Unset
            /\ save_ckpt'[block].end <= output'[block + 1].start
        BY <1>2, <2>1, <2>2, <2>4, <2>5, <2>6
      <4> QED
        BY <4>1, <4>2
    <3> QED
      BY <2>3, <3>4, <3>5, <3>6 DEF CheckpointsOutsideBlocks
  <2> QED
    BY <2>7, <2>8 DEF CheckpointInv
<1>8. CASE EndOfEpoch \/ EndEpochSave
  <2>1. /\ pc \notin Loop /\ pc' \notin Loop /\ pc' # "save" /\ UNCHANGED <<block, output>>
        /\ Blocks' = Blocks /\ Ended' = Ended
    BY <1>8 DEF EndOfEpoch, EndEpochSave, Loop, counters, Blocks, Ended
  <2>2. block \in Ended
    BY <1>1, <2>1 DEF LastOpen, Ended
  <2>3. \/ save_ckpt' = StartSave(save_ckpt, block, now')
        \/ pc = "save_epoch" /\ pc' = "average"
             /\ save_ckpt' = StopSave(save_ckpt, block, now')
        \/ pc' = "average" /\ UNCHANGED save_ckpt
    BY <1>8 DEF EndOfEpoch, EndEpochSave
  <2>4. CASE pc' = "average" /\ UNCHANGED save_ckpt
    BY <1>1, <1>2, <2>1, <2>4, CheckpointKept
  <2>5. CASE save_ckpt' = StartSave(save_ckpt, block, now')
    <3>1. /\ Saves(save_ckpt', now') /\ DOMAIN save_ckpt' = DOMAIN save_ckpt \cup {block}
          /\ save_ckpt'[block].start = now' /\ save_ckpt'[block].end = Unset
          /\ \A b \in DOMAIN save_ckpt : b # block => save_ckpt'[b] = save_ckpt[b]
      BY <2>5, CheckpointStarts DEF CheckpointInv
    <3>2. SavesInv'
      BY <1>1, <2>1, <3>1 DEF CheckpointInv, SavesInv
    <3>3. output[block].end <= now'
      BY <1>1, <1>2, <1>3, <2>2 DEF Ended
    <3>4. CheckpointsOutsideBlocks'
      BY <1>1, <2>1, <2>2, <3>1, <3>3 DEF CheckpointInv, CheckpointsOutsideBlocks
    <3> QED
      BY <3>2, <3>4 DEF CheckpointInv
  <2>6. CASE pc = "save_epoch" /\ pc' = "average"
               /\ save_ckpt' = StopSave(save_ckpt, block, now')
    <3>1. block \in DOMAIN save_ckpt /\ save_ckpt[block].start \in 0 .. now
      BY <2>6 DEF CheckpointInv, SavesInv, Saves
    <3>2. /\ Saves(save_ckpt', now') /\ DOMAIN save_ckpt' = DOMAIN save_ckpt
          /\ save_ckpt'[block].start = save_ckpt[block].start /\ save_ckpt'[block].end = now'
          /\ \A b \in DOMAIN save_ckpt : b # block => save_ckpt'[b] = save_ckpt[b]
      BY <1>2, <2>6, <3>1, SavesEnded DEF CheckpointInv, SavesInv
    <3>3. SavesInv'
      BY <2>1, <2>6, <3>2 DEF CheckpointInv, SavesInv
    <3>4. CheckpointsOutsideBlocks'
      BY <1>1, <1>2, <2>1, <2>2, <3>1, <3>2 DEF CheckpointInv, CheckpointsOutsideBlocks
    <3> QED
      BY <3>3, <3>4 DEF CheckpointInv
  <2> QED
    BY <2>3, <2>4, <2>5, <2>6
<1>9. CASE EndTrain
  <2>1. /\ pc' \in {"eval", "done"} /\ UNCHANGED <<block, save_ckpt>>
        /\ UNCHANGED output \/ output' = Put(output, EvalKey, New(now))
    BY <1>9 DEF EndTrain, counters
  <2>2. ASSUME output' = Put(output, EvalKey, New(now))
        PROVE  Blocks \subseteq DOMAIN output' /\ \A b \in Blocks : output'[b] = output[b]
    BY <1>1, <2>2 DEF Put
  <2> QED
    BY <1>1, <1>2, <2>1, <2>2, CheckpointKept DEF Loop
<1>10. CASE FetchEval \/ ComputeEval \/ EndEval
  <2>1. PICK q : Changed(EvalKey, q)
    BY <1>10, EvalOutput
  <2>2. Blocks \subseteq DOMAIN output' /\ \A b \in Blocks : output'[b] = output[b]
    BY <1>1, <2>1, OtherBlocks
  <2> QED
    BY <1>2, <1>10, <2>2, CheckpointKept DEF FetchEval, ComputeEval, EndEval, Loop, counters
<1>11. CASE UNCHANGED vars
  BY <1>11 DEF vars, CheckpointInv, SavesInv, CheckpointsOutsideBlocks, Blocks, Ended
<1> QED
  BY <1>4, <1>5, <1>6, <1>7, <1>8, <1>9, <1>10, <1>11 DEF Next, Terminated

(* However long a batch, a step, a barrier or a checkpoint takes: the blocks and the
   checkpoints of an epoch are disjoint in time. *)
THEOREM CheckpointsAreNotTraining == Spec => []CheckpointsOutsideBlocks
<1>1. /\ TypeInv /\ BlockInv /\ CheckpointInv /\ [Next]_vars
      => (TypeInv /\ BlockInv /\ CheckpointInv)'
  BY ClockInvNext, OutputInvNext, BlockNext, CheckpointNext DEF TypeInv, BlockInv
<1>2. CheckpointInv => CheckpointsOutsideBlocks
  BY DEF CheckpointInv
<1> QED
  BY TypeInvInit, BlockInit, CheckpointInit, <1>1, <1>2, PTL DEF Spec

-------------------------------------------------------------------------------
(* The average *)

(* The steps of the epoch are those of the blocks that a checkpoint ended and of the
   last one; the loader and the limit allow them. *)
CountInv ==
  /\ overall_step = (block - 1) * conf.between + block_step
  /\ pc \notin Loop \cup {"save"} => Len(output[block].proc) = block_step - 1

LimitInv ==
  /\ conf.total <= conf.steps
  /\ pc \in {"compute", "barrier", "save"} => overall_step <= conf.batches /\ overall_step <= Steps
  /\ pc = "fetch" => overall_step - 1 <= conf.batches /\ overall_step - 1 <= Steps
  /\ pc \notin Loop \cup {"save"} =>
       overall_step - 1 = IF conf.batches < Steps THEN conf.batches ELSE Steps

(* The keys of output, and what end_train has weighed *)
Evaluated == {"eval", "compute_eval", "done"}

KeysInv ==
  /\ DOMAIN output \subseteq Blocks \cup {EvalKey}
  /\ EvalKey \in DOMAIN output => pc \in Evaluated
  /\ pc \in Evaluated => DOMAIN weights = Blocks
  /\ pc \in Evaluated => \A b \in Blocks : weights[b] = Len(output[b].proc)

AverageInv == CountInv /\ LimitInv /\ KeysInv


(* The loop goes on within the limit only, and ends beyond it. *)
LEMMA Limits ==
  ASSUME TypeInv, conf.total <= conf.steps
  PROVE  /\ Steps \in Nat
         /\ LimitReached <=> overall_step > Steps
BY DEF TypeInv, ClockInv, ConfigurationType, Steps, LimitReached

(* The configuration is constant. *)
LEMMA SameConf ==
  ASSUME [Next]_vars
  PROVE  conf' = conf /\ Steps' = Steps
<1>1. conf' = conf
  BY DEF Next, vars, Fetch, Compute, NextStep, EndOfBlock, EndSave, EndOfLoop, EndOfEpoch,
     EndEpochSave, EndTrain, FetchEval, ComputeEval, EndEval, Terminated
<1> QED
  BY <1>1 DEF Steps

(* Nothing has been counted at the start. *)
LEMMA AverageInit == Init => AverageInv
<1> SUFFICES ASSUME Init PROVE AverageInv
  OBVIOUS
<1>1. /\ Blocks = {1} /\ DOMAIN output = {1} /\ pc = "fetch" /\ block_step = 1 /\ block = 1
      /\ overall_step = 1 /\ conf \in ConfigurationType /\ conf.total <= conf.steps
  BY StatsAssumption DEF Init, Blocks, Put
<1>2. CountInv
  BY <1>1 DEF CountInv, Loop, ConfigurationType
<1>3. LimitInv
  BY <1>1 DEF LimitInv, Loop, ConfigurationType, Steps
<1>4. KeysInv
  BY <1>1 DEF KeysInv, EvalKey, Evaluated
<1> QED
  BY <1>2, <1>3, <1>4 DEF AverageInv

(* Every step of the loop is counted once, in a block. *)
LEMMA AverageNext == TypeInv /\ BlockInv /\ AverageInv /\ [Next]_vars => AverageInv'
<1> SUFFICES ASSUME TypeInv, BlockInv, AverageInv, [Next]_vars PROVE AverageInv'
  OBVIOUS
<1>1. /\ block \in Nat \ {0} /\ block \in Blocks /\ block_step \in Nat \ {0}
      /\ overall_step \in Nat \ {0} /\ conf.between \in Int /\ conf.batches \in Nat
      /\ EvalKey \notin Blocks /\ Blocks \subseteq DOMAIN output
  BY DEF TypeInv, ClockInv, OutputInv, Blocks, EvalKey, ConfigurationType
<1>2. conf' = conf /\ Steps' = Steps /\ Steps \in Nat /\ (LimitReached <=> overall_step > Steps)
  BY Limits, SameConf DEF AverageInv, LimitInv
<1>3. now \in Nat /\ now' \in Nat /\ now <= now'
  BY TimePasses DEF TypeInv, ClockInv
<1>4. /\ overall_step = (block - 1) * conf.between + block_step
      /\ conf.total <= conf.steps
      /\ DOMAIN output \subseteq Blocks \cup {EvalKey}
      /\ EvalKey \in DOMAIN output => pc \in Evaluated
  BY DEF AverageInv, CountInv, LimitInv, KeysInv
<1>5. ASSUME NEW q, Changed(block, q), block' = block, pc \notin Evaluated, pc' \notin Evaluated
      PROVE  KeysInv'
  <2>1. DOMAIN output' = DOMAIN output /\ Blocks' = Blocks
    BY <1>1, <1>5, OtherBlocks DEF Blocks
  <2> QED
    BY <1>4, <1>5, <2>1 DEF KeysInv
<1>6. ASSUME UNCHANGED <<output, weights, block>>, pc' \in Evaluated <=> pc \in Evaluated
      PROVE  KeysInv'
  <2>1. Blocks' = Blocks
    BY <1>6 DEF Blocks
  <2> QED
    BY <1>6, <2>1 DEF AverageInv, KeysInv
<1>7. CASE Fetch \/ Compute
  <2>1. PICK q : Changed(block, q)
    BY <1>7, FetchOutput, ComputeOutput
  <2>2. /\ UNCHANGED <<block, block_step, overall_step>> /\ pc \in Loop
        /\ pc' \in {"compute", "barrier"}
        /\ pc = "fetch" => ~Exhausted /\ ~LimitReached
        /\ pc # "fetch" => pc = "compute"
    BY <1>7 DEF Fetch, Compute, counters, Loop
  <2>3. CountInv'
    BY <1>2, <1>4, <2>2 DEF CountInv, Loop
  <2>4. LimitInv'
    BY <1>1, <1>2, <1>4, <2>2 DEF AverageInv, LimitInv, Exhausted, Loop
  <2>5. KeysInv'
    BY <1>5, <2>1, <2>2 DEF Evaluated, Loop
  <2> QED
    BY <2>3, <2>4, <2>5 DEF AverageInv
<1>8. CASE NextStep
  <2>1. /\ pc = "barrier" /\ pc' = "fetch" /\ UNCHANGED <<block, output, weights>>
        /\ block_step' = block_step + 1 /\ overall_step' = overall_step + 1
    BY <1>8 DEF NextStep
  <2>2. CountInv'
    <3>1. PICK k \in Int : k = (block - 1) * conf.between
      BY <1>1
    <3> QED
      BY <1>1, <1>2, <1>4, <2>1, <3>1 DEF CountInv, Loop
  <2>3. LimitInv'
    BY <1>1, <1>2, <1>4, <2>1 DEF AverageInv, LimitInv, Loop
  <2>4. KeysInv'
    BY <1>6, <2>1 DEF Evaluated
  <2> QED
    BY <2>2, <2>3, <2>4 DEF AverageInv
<1>9. CASE EndOfBlock
  <2>1. /\ pc = "barrier" /\ pc' = "save" /\ UNCHANGED <<block, block_step, overall_step>>
        /\ EndBlock(block, block_step) /\ output[block].end = Unset
    BY <1>1, <1>9 DEF EndOfBlock, counters, BlockInv, LastOpen, Loop
  <2>2. PICK q : Changed(block, q)
    BY <1>1, <2>1, EndBlockOutput
  <2>3. CountInv'
    BY <1>2, <1>4, <2>1 DEF CountInv, Loop
  <2>4. LimitInv'
    BY <1>1, <1>2, <1>4, <2>1 DEF AverageInv, LimitInv, Loop
  <2>5. KeysInv'
    BY <1>5, <2>1, <2>2 DEF Evaluated
  <2> QED
    BY <2>3, <2>4, <2>5 DEF AverageInv
<1>10. CASE EndSave
  <2>1. /\ pc = "save" /\ pc' = "fetch" /\ block' = block + 1 /\ block_step' = 1
        /\ overall_step' = overall_step + 1 /\ output' = Put(output, block', New(now'))
        /\ block_step = conf.between
    BY <1>10 DEF EndSave, BlockInv, Distance
  <2>2. CountInv'
    <3>1. PICK k \in Int : k = (block - 1) * conf.between
      BY <1>1
    <3>2. (block' - 1) * conf.between = k + conf.between
      BY <1>1, <2>1, <3>1
    <3> QED
      BY <1>1, <1>2, <1>4, <2>1, <3>1, <3>2 DEF CountInv, Loop
  <2>3. LimitInv'
    BY <1>1, <1>2, <1>4, <2>1 DEF AverageInv, LimitInv, Loop
  <2>4. KeysInv'
    <3>1. DOMAIN output' = DOMAIN output \cup {block'} /\ Blocks' = Blocks \cup {block'}
          /\ block' # EvalKey
      BY <1>1, <2>1 DEF Put, Blocks, EvalKey
    <3> QED
      BY <1>4, <2>1, <3>1 DEF KeysInv, Evaluated
  <2> QED
    BY <2>2, <2>3, <2>4 DEF AverageInv
<1>11. CASE EndOfLoop
  <2>1. /\ pc = "fetch" /\ pc' = "end_train" /\ UNCHANGED <<block, block_step, overall_step>>
        /\ EndBlock(block, block_step - 1) /\ output[block].end = Unset
        /\ Exhausted \/ LimitReached
    BY <1>1, <1>11 DEF EndOfLoop, counters, BlockInv, LastOpen, Loop
  <2>2. PICK q : Changed(block, q) /\ q.proc = output[block].proc
    BY <1>1, <2>1, block_step - 1 \in Nat, EndBlockOutput
  <2>3. CountInv'
    <3>1. output'[block] = q
      BY <2>2, OtherBlocks
    <3>2. Len(output[block].proc) = block_step - 1
      BY <2>1 DEF BlockInv, OpenBlock, Loop
    <3> QED
      BY <1>2, <1>4, <2>1, <2>2, <3>1, <3>2 DEF CountInv, Loop
  <2>4. LimitInv'
    <3>1. /\ overall_step - 1 <= conf.batches /\ overall_step - 1 <= Steps
          /\ overall_step > conf.batches \/ overall_step > Steps
      BY <1>2, <2>1 DEF AverageInv, LimitInv, Exhausted
    <3>2. overall_step - 1 = IF conf.batches < Steps THEN conf.batches ELSE Steps
      BY <1>1, <1>2, <3>1
    <3> QED
      BY <1>2, <1>4, <2>1, <3>2 DEF LimitInv, Loop
  <2>5. KeysInv'
    BY <1>5, <2>1, <2>2 DEF Evaluated
  <2> QED
    BY <2>3, <2>4, <2>5 DEF AverageInv
<1>12. ASSUME UNCHANGED <<block, block_step, overall_step>>,
              pc \notin Loop \cup {"save"}, pc' \notin Loop \cup {"save"},
              output'[block] = output[block]
       PROVE  CountInv' /\ LimitInv'
  <2>1. CountInv'
    BY <1>2, <1>12 DEF AverageInv, CountInv
  <2>2. LimitInv'
    BY <1>2, <1>12 DEF AverageInv, LimitInv, Loop
  <2> QED
    BY <2>1, <2>2
<1>13. CASE EndOfEpoch \/ EndEpochSave
  <2>1. /\ UNCHANGED <<block, block_step, overall_step, output, weights>>
        /\ pc \in {"end_train", "save_epoch"} /\ pc' \in {"save_epoch", "average"}
    BY <1>13 DEF EndOfEpoch, EndEpochSave, counters
  <2>2. KeysInv'
    BY <1>6, <2>1 DEF Evaluated
  <2> QED
    BY <1>12, <2>1, <2>2 DEF AverageInv, Loop
<1>14. CASE EndTrain
  <2>1. /\ pc = "average" /\ pc' \in {"eval", "done"}
        /\ UNCHANGED <<block, block_step, overall_step>>
        /\ weights' = [b \in DOMAIN output |-> Len(output[b].proc)]
        /\ UNCHANGED output \/ output' = Put(output, EvalKey, New(now))
    BY <1>14 DEF EndTrain, counters
  <2>2. /\ \A b \in Blocks : output'[b] = output[b]
        /\ DOMAIN output' \subseteq DOMAIN output \cup {EvalKey}
    BY <1>1, <2>1 DEF Put
  <2>3. DOMAIN output = Blocks /\ Blocks' = Blocks
    BY <1>1, <1>4, <2>1 DEF Evaluated, Blocks
  <2>4. KeysInv'
    BY <2>1, <2>2, <2>3 DEF KeysInv, Evaluated
  <2> QED
    BY <1>1, <1>12, <2>1, <2>2, <2>4 DEF AverageInv, Loop
<1>15. CASE FetchEval \/ ComputeEval \/ EndEval
  <2>1. PICK q : Changed(EvalKey, q)
    BY <1>15, EvalOutput
  <2>2. /\ \A b \in Blocks : output'[b] = output[b]
        /\ DOMAIN output' = DOMAIN output \cup {EvalKey}
    BY <1>1, <2>1, OtherBlocks
  <2>3. /\ UNCHANGED <<block, block_step, overall_step, weights>> /\ Blocks' = Blocks
        /\ pc \in Evaluated /\ pc' \in Evaluated
    BY <1>15 DEF FetchEval, ComputeEval, EndEval, counters, Evaluated, Blocks
  <2>4. KeysInv'
    BY <1>4, <2>2, <2>3 DEF AverageInv, KeysInv
  <2>5. pc \notin Loop \cup {"save"} /\ pc' \notin Loop \cup {"save"}
    BY <2>3 DEF Evaluated, Loop
  <2> QED
    BY <1>1, <1>12, <2>2, <2>3, <2>4, <2>5 DEF AverageInv
<1>16. CASE UNCHANGED vars
  BY <1>2, <1>16 DEF vars, AverageInv, CountInv, LimitInv, KeysInv, Blocks
<1> QED
  BY <1>7, <1>8, <1>9, <1>10, <1>11, <1>13, <1>14, <1>15, <1>16 DEF Next, Terminated

(* What the invariants say of the average *)
LEMMA AverageCovers ==
  ASSUME TypeInv, BlockInv, AverageInv
  PROVE  AverageCoversSteps
<1> SUFFICES ASSUME pc \in Evaluated
             PROVE  /\ DOMAIN weights = Blocks /\ Blocks \subseteq Ended
                    /\ SumFunction(weights) = overall_step - 1
                    /\ overall_step - 1 = IF conf.batches < Steps THEN conf.batches ELSE Steps
  BY DEF AverageCoversSteps, Evaluated
<1>1. /\ block \in Nat \ {0} /\ block \in Blocks /\ Blocks = 1 .. block
      /\ Blocks \subseteq DOMAIN output /\ conf.between \in Int /\ block_step \in Nat
      /\ pc \notin Loop \cup {"save"}
  BY DEF TypeInv, ClockInv, OutputInv, Blocks, Evaluated, Loop, ConfigurationType
<1>2. DOMAIN weights = Blocks /\ \A b \in Blocks : weights[b] = Len(output[b].proc)
  BY DEF AverageInv, KeysInv
<1>3. Blocks \subseteq Ended
  BY <1>1 DEF BlockInv, LastOpen, Ended
<1>4. \A b \in 1 .. block - 1 : weights[b] = conf.between
  BY <1>1, <1>2, <1>3 DEF BlockInv, StepsInBlocks
<1>5. weights[block] = block_step - 1
  BY <1>1, <1>2 DEF AverageInv, CountInv
<1>6. /\ IsFiniteSet(1 .. block) /\ IsFiniteSet(1 .. block - 1)
      /\ Cardinality(1 .. block - 1) = block - 1
  <2>1. 1 \in Int /\ block \in Int /\ block - 1 \in Int
        /\ (IF 1 > block - 1 THEN 0 ELSE (block - 1) - 1 + 1) = block - 1
    BY <1>1
  <2> QED
    BY <2>1, FS_Interval
<1>7. SumFunctionOnSet(weights, 1 .. block - 1) = (block - 1) * conf.between
  BY <1>1, <1>4, <1>6, SumOfSame
<1>8. (1 .. block) \ {block} = 1 .. block - 1 /\ block \in 1 .. block
      /\ \A b \in 1 .. block : b = block \/ b \in 1 .. block - 1
  BY <1>1
<1>9. \A b \in 1 .. block : weights[b] \in Int
  <2>1. block_step - 1 \in Int
    BY <1>1
  <2> QED
    BY <1>1, <1>4, <1>5, <1>8, <2>1
<1>10. SumFunctionOnSet(weights, 1 .. block)
         = weights[block] + SumFunctionOnSet(weights, (1 .. block) \ {block})
  BY <1>6, <1>8, <1>9, SumAdd
<1>11. SumFunction(weights) = SumFunctionOnSet(weights, 1 .. block)
  BY <1>1, <1>2 DEF SumFunction
<1>12. SumFunction(weights) = overall_step - 1
  <2>1. PICK k \in Int : k = (block - 1) * conf.between
    BY <1>1
  <2>2. overall_step = k + block_step
    BY <2>1 DEF AverageInv, CountInv
  <2>3. SumFunction(weights) = (block_step - 1) + k
    BY <1>5, <1>7, <1>8, <1>10, <1>11, <2>1
  <2> QED
    BY <1>1, <2>2, <2>3
<1> QED
  BY <1>1, <1>2, <1>3, <1>12 DEF AverageInv, LimitInv

-------------------------------------------------------------------------------
(* The utilisation *)

(* The times of the steps of r, which follow one another from its start until u *)
Timed(r, u) ==
  /\ Len(r.compute) = Len(r.proc)
  /\ \A i \in 1 .. Len(r.proc) : r.compute[i] <= r.proc[i]
  /\ SumFunctionOnSet(r.proc, 1 .. Len(r.proc)) <= u - r.start

(* The utilisation of an ended record: steps of which so many are excluded *)
Utilisation(r, steps, from, off) ==
  <<SumFunctionOnSet(r.compute, Slice(Len(r.compute), from, steps - off)),
    (r.end - r.start)
      - (SumFunctionOnSet(r.proc, Slice(Len(r.proc), 0, from))
           + SumFunctionOnSet(r.proc, Slice(Len(r.proc), steps - off, Len(r.proc))))>>

Evaluating == {"eval", "compute_eval"}

(* What is being measured, and since when *)
OpenInv ==
  /\ pc \in Loop => start_timestamp = output[block].start
  /\ pc \in Loop => Timed(output[block], IF pc = "barrier" THEN now ELSE start_time_loading)
  /\ pc \in Evaluating => start_timestamp = output[EvalKey].start
  /\ pc \in Evaluating => Timed(output[EvalKey], start_time_loading)
  /\ pc \in Evaluating => output[EvalKey].end = Unset
  /\ pc \in {"compute", "compute_eval"} => start_time_loading <= start_time_compute

(* What has been measured *)
EndedInv ==
  \A b \in Ended :
    /\ Timed(output[b], output[b].end)
    /\ output[b].au = Utilisation(output[b], IF b = EvalKey THEN conf.steps_eval ELSE Steps,
                                  conf.exclude_start, conf.exclude_end)

MetricsInv == OpenInv /\ EndedInv

(* The slices of a list before, in and after the included steps *)
LEMMA Slices ==
  ASSUME NEW n \in Nat, NEW from \in Nat, NEW x \in Int
  PROVE  \E p \in 0 .. n, q \in 0 .. n :
           /\ Slice(n, 0, from) = 1 .. p
           /\ Slice(n, from, x) = p + 1 .. q
           /\ Slice(n, x, n) = q + 1 .. n
           /\ from <= n => p = from
           /\ x \in 0 .. n => q = x
<1>1. /\ Bounded(0, n) = 0 /\ Bounded(n, n) = n
      /\ Bounded(from, n) \in 0 .. n /\ Bounded(x, n) \in 0 .. n
      /\ from <= n => Bounded(from, n) = from
      /\ x \in 0 .. n => Bounded(x, n) = x
  BY DEF Bounded
<1>2. PICK p \in 0 .. n, q \in 0 .. n : p = Bounded(from, n) /\ q = Bounded(x, n)
  BY <1>1
<1>3. /\ Slice(n, 0, from) = 1 .. p
      /\ Slice(n, from, x) = p + 1 .. q
      /\ Slice(n, x, n) = q + 1 .. n
  BY <1>1, <1>2 DEF Slice
<1> QED
  BY <1>1, <1>2, <1>3

(* The numbers of a list *)
LEMMA ListSums ==
  ASSUME NEW s \in Seq(Nat)
  PROVE  /\ Len(s) \in Nat /\ DOMAIN s = 1 .. Len(s) /\ IsFiniteSet(1 .. Len(s))
         /\ \A i \in 1 .. Len(s) : s[i] \in Nat
         /\ \A T \in SUBSET (1 .. Len(s)) : SumFunctionOnSet(s, T) \in Nat
<1>1. Len(s) \in Nat /\ DOMAIN s = 1 .. Len(s) /\ \A i \in 1 .. Len(s) : s[i] \in Nat
  OBVIOUS
<1>2. IsFiniteSet(1 .. Len(s))
  BY <1>1, FS_Interval
<1>3. \A T \in SUBSET (1 .. Len(s)) : SumFunctionOnSet(s, T) \in Nat
  BY <1>1, <1>2, SumOfPart
<1> QED
  BY <1>1, <1>2, <1>3

(* The computing time of the included steps fits in the time of all steps but the
   excluded ones; if the excluded ones overlap, none is included. *)
LEMMA ComputeFits ==
  ASSUME NEW C \in Seq(Nat), NEW P \in Seq(Nat), Len(C) = Len(P),
         \A i \in 1 .. Len(P) : C[i] <= P[i],
         NEW p \in 0 .. Len(P), NEW q \in 0 .. Len(P),
         SumFunctionOnSet(C, p + 1 .. q) > 0
  PROVE  SumFunctionOnSet(C, p + 1 .. q)
           + (SumFunctionOnSet(P, 1 .. p) + SumFunctionOnSet(P, q + 1 .. Len(P)))
             <= SumFunctionOnSet(P, 1 .. Len(P))
<1>1. PICK n \in Nat : n = Len(P)
  OBVIOUS
<1>2. p < q
  <2>1. CASE ~(p < q)
    <3>1. p + 1 .. q = {}
      BY <1>1, <2>1
    <3> QED
      BY <3>1, SumOfEmpty
  <2> QED
    BY <1>1, <2>1
<1> DEFINE A == 1 .. p
           I == p + 1 .. q
           Z == q + 1 .. n
<1>3. /\ A \cup I \cup Z = 1 .. n /\ A \cap I = {} /\ (A \cup I) \cap Z = {}
      /\ A \subseteq 1 .. n /\ I \subseteq 1 .. n /\ Z \subseteq 1 .. n
  BY <1>1, <1>2
<1>4. /\ IsFiniteSet(1 .. n) /\ \A i \in 1 .. n : P[i] \in Nat /\ C[i] \in Nat /\ C[i] <= P[i]
  BY <1>1, ListSums
<1> HIDE DEF A, I, Z
<1>5. IsFiniteSet(A) /\ IsFiniteSet(I) /\ IsFiniteSet(Z) /\ IsFiniteSet(A \cup I)
  <2>1. A \cup I \subseteq 1 .. n
    BY <1>3
  <2> QED
    BY <1>3, <1>4, <2>1, FS_Subset
<1>6. SumFunctionOnSet(P, A \cup I) = SumFunctionOnSet(P, A) + SumFunctionOnSet(P, I)
  <2>1. \A i \in A \cup I : P[i] \in Int
    BY <1>3, <1>4
  <2> QED
    BY <1>3, <1>5, <2>1, SumOfBoth
<1>7. SumFunctionOnSet(P, (A \cup I) \cup Z)
        = SumFunctionOnSet(P, A \cup I) + SumFunctionOnSet(P, Z)
  <2>1. \A i \in (A \cup I) \cup Z : P[i] \in Int
    BY <1>3, <1>4
  <2> QED
    BY <1>3, <1>5, <2>1, SumOfBoth
<1>8. SumFunctionOnSet(C, I) <= SumFunctionOnSet(P, I)
  <2>1. \A i \in I : C[i] \in Int /\ P[i] \in Int /\ C[i] <= P[i]
    BY <1>3, <1>4
  <2> QED
    BY <1>5, <2>1, SumAtMost
<1>9. /\ SumFunctionOnSet(C, I) \in Nat /\ SumFunctionOnSet(P, I) \in Nat
      /\ SumFunctionOnSet(P, A) \in Nat /\ SumFunctionOnSet(P, Z) \in Nat
  BY <1>1, <1>3, ListSums
<1>10. SumFunctionOnSet(P, 1 .. n)
         = (SumFunctionOnSet(P, A) + SumFunctionOnSet(P, I)) + SumFunctionOnSet(P, Z)
  BY <1>3, <1>6, <1>7
<1>11. SumFunctionOnSet(C, I) + (SumFunctionOnSet(P, A) + SumFunctionOnSet(P, Z))
         <= SumFunctionOnSet(P, 1 .. n)
  BY <1>8, <1>9, <1>10
<1> QED
  BY <1>1, <1>11 DEF A, I, Z

(* Of all steps, some are excluded: the utilisation is that of the others. *)
OfIncluded(r, steps, from, off) ==
  Len(r.compute) = steps /\ from + off <= steps =>
    r.au = <<SumFunctionOnSet(r.compute, from + 1 .. Len(r.compute) - off),
             (r.end - r.start)
               - SumFunctionOnSet(r.proc, DOMAIN r.proc \ (from + 1 .. Len(r.compute) - off))>>

(* The utilisation of an ended record *)
LEMMA Utilised ==
  ASSUME NEW t \in Nat, NEW r, Shape(r, t), r.end # Unset, Timed(r, r.end),
         NEW steps \in Nat, NEW from \in Nat, NEW off \in Nat,
         r.au = Utilisation(r, steps, from, off)
  PROVE  /\ r.au[1] > 0 => r.au[1] <= r.au[2]
         /\ r.au[2] <= r.end - r.start
         /\ OfIncluded(r, steps, from, off)
<1>1. PICK C \in Seq(Nat), P \in Seq(Nat) : C = r.compute /\ P = r.proc
  BY DEF Shape
<1>2. r.end \in Nat /\ r.start \in Nat
  BY DEF Shape
<1>3. /\ Len(C) = Len(P) /\ \A i \in 1 .. Len(P) : C[i] <= P[i]
      /\ SumFunctionOnSet(P, 1 .. Len(P)) <= r.end - r.start
  BY <1>1 DEF Timed
<1>4. PICK n \in Nat : n = Len(P) /\ n = Len(C)
  BY <1>3
<1>5. PICK x \in Int : x = steps - off
  OBVIOUS
<1>6. PICK p \in 0 .. n, q \in 0 .. n :
        /\ Slice(n, 0, from) = 1 .. p
        /\ Slice(n, from, x) = p + 1 .. q
        /\ Slice(n, x, n) = q + 1 .. n
        /\ from <= n => p = from
        /\ x \in 0 .. n => q = x
  BY Slices
<1>7. r.au = <<SumFunctionOnSet(C, p + 1 .. q),
               (r.end - r.start)
                 - (SumFunctionOnSet(P, 1 .. p) + SumFunctionOnSet(P, q + 1 .. n))>>
  BY <1>1, <1>4, <1>5, <1>6 DEF Utilisation
<1>8. PICK c \in Nat, a \in Nat, z \in Nat, all \in Nat :
        /\ c = SumFunctionOnSet(C, p + 1 .. q)
        /\ a = SumFunctionOnSet(P, 1 .. p)
        /\ z = SumFunctionOnSet(P, q + 1 .. n)
        /\ all = SumFunctionOnSet(P, 1 .. n)
  <2>1. /\ (p + 1 .. q) \in SUBSET (1 .. Len(C)) /\ (1 .. p) \in SUBSET (1 .. Len(P))
        /\ (q + 1 .. n) \in SUBSET (1 .. Len(P)) /\ (1 .. n) \in SUBSET (1 .. Len(P))
    BY <1>4
  <2> QED
    BY <2>1, ListSums
<1>9. r.au = <<c, (r.end - r.start) - (a + z)>>
  BY <1>7, <1>8
<1>10. r.au[1] > 0 => r.au[1] <= r.au[2]
  <2>1. c > 0 => c + (a + z) <= all
    <3> SUFFICES ASSUME c > 0 PROVE c + (a + z) <= all
      OBVIOUS
    <3>1. p \in 0 .. Len(P) /\ q \in 0 .. Len(P) /\ SumFunctionOnSet(C, p + 1 .. q) > 0
      BY <1>4, <1>8
    <3>2. SumFunctionOnSet(C, p + 1 .. q)
            + (SumFunctionOnSet(P, 1 .. p) + SumFunctionOnSet(P, q + 1 .. Len(P)))
              <= SumFunctionOnSet(P, 1 .. Len(P))
      BY <1>3, <3>1, ComputeFits
    <3> QED
      BY <1>4, <1>8, <3>2
  <2>2. all <= r.end - r.start
    BY <1>3, <1>4, <1>8
  <2> QED
    BY <1>2, <1>9, <2>1, <2>2
<1>11. r.au[2] <= r.end - r.start
  BY <1>2, <1>9
<1>12. ASSUME Len(r.compute) = steps, from + off <= steps
       PROVE  r.au = <<SumFunctionOnSet(r.compute, from + 1 .. Len(r.compute) - off),
                       (r.end - r.start)
                         - SumFunctionOnSet(r.proc,
                             DOMAIN r.proc \ (from + 1 .. Len(r.compute) - off))>>
  <2>1. p = from /\ q = x /\ x = n - off /\ p <= q
    BY <1>1, <1>4, <1>5, <1>6, <1>12
  <2>2. DOMAIN P \ (from + 1 .. n - off) = (1 .. p) \cup (q + 1 .. n)
    <3>1. DOMAIN P = 1 .. n
      BY <1>4, ListSums
    <3>2. from + 1 .. n - off = p + 1 .. q
      BY <2>1
    <3>3. (1 .. n) \ (p + 1 .. q) = (1 .. p) \cup (q + 1 .. n)
      BY <2>1
    <3> QED
      BY <3>1, <3>2, <3>3
  <2>3. SumFunctionOnSet(P, (1 .. p) \cup (q + 1 .. n)) = a + z
    <3>1. (1 .. p) \cap (q + 1 .. n) = {}
      BY <2>1
    <3>2. IsFiniteSet(1 .. p) /\ IsFiniteSet(q + 1 .. n)
      BY FS_Interval
    <3>3. \A i \in (1 .. p) \cup (q + 1 .. n) : P[i] \in Int
      <4>1. \A i \in (1 .. p) \cup (q + 1 .. n) : i \in 1 .. n
        OBVIOUS
      <4>2. \A i \in 1 .. n : P[i] \in Nat
        BY <1>4, ListSums
      <4> QED
        BY <4>1, <4>2
    <3> QED
      BY <1>8, <3>1, <3>2, <3>3, SumOfBoth
  <2> QED
    BY <1>1, <1>4, <1>8, <1>9, <2>1, <2>2, <2>3
<1> QED
  BY <1>10, <1>11, <1>12 DEF OfIncluded

(* A new record has no steps. *)
LEMMA NewTimed ==
  ASSUME NEW t \in Nat, NEW u \in 0 .. t
  PROVE  Timed(New(u), t)
<1>1. New(u).proc = <<>> /\ New(u).compute = <<>> /\ New(u).start = u
  BY DEF New
<1>2. Len(<<>>) = 0 /\ 1 .. 0 = {}
  OBVIOUS
<1>3. SumFunctionOnSet(<<>>, {}) = 0
  BY SumOfEmpty
<1> QED
  BY <1>1, <1>2, <1>3 DEF Timed

(* What fits in the time until u fits in the time until any later moment. *)
LEMMA TimedLater ==
  ASSUME NEW t \in Nat, NEW r, Shape(r, t), NEW u \in Nat, NEW v \in Nat, u <= v, Timed(r, u)
  PROVE  Timed(r, v)
<1>1. r.proc \in Seq(Nat) /\ r.start \in Nat
  BY DEF Shape
<1>2. PICK s \in Nat : s = SumFunctionOnSet(r.proc, 1 .. Len(r.proc))
  BY <1>1, ListSums
<1>3. s <= v - r.start
  BY <1>1, <1>2 DEF Timed
<1> QED
  BY <1>2, <1>3 DEF Timed

(* Only the lists and the start matter. *)
LEMMA TimedSame ==
  ASSUME NEW r, NEW q, NEW u, Timed(r, u),
         q.proc = r.proc, q.compute = r.compute, q.start = r.start
  PROVE  Timed(q, u)
BY DEF Timed

(* A step that begins when the last one has ended adds its time. *)
LEMMA ProcessedTimed ==
  ASSUME NEW t \in Nat, NEW r, Shape(r, t), NEW s \in Nat, Timed(r, s),
         NEW d \in Nat, NEW c \in Nat, c <= d
  PROVE  Timed(Processed(r, d, c), s + d)
<1>1. PICK P \in Seq(Nat), C \in Seq(Nat) : P = r.proc /\ C = r.compute
  BY DEF Shape
<1>2. PICK n \in Nat : n = Len(P)
  OBVIOUS
<1>3. r.start \in Nat /\ Len(C) = n /\ \A i \in 1 .. n : C[i] <= P[i]
  BY <1>1, <1>2 DEF Shape, Timed
<1> DEFINE Q == Append(P, d)
           D == Append(C, c)
<1>4. /\ Q \in Seq(Nat) /\ Len(Q) = n + 1 /\ Q[n + 1] = d /\ \A i \in 1 .. n : Q[i] = P[i]
      /\ D \in Seq(Nat) /\ Len(D) = n + 1 /\ D[n + 1] = c /\ \A i \in 1 .. n : D[i] = C[i]
  BY <1>2, <1>3, AppendProperties
<1>5. Processed(r, d, c).proc = Q /\ Processed(r, d, c).compute = D
      /\ Processed(r, d, c).start = r.start
  BY <1>1 DEF Shape, Processed
<1> HIDE DEF Q, D
<1>6. \A i \in 1 .. n + 1 : D[i] <= Q[i]
  BY <1>3, <1>4
<1>7. SumFunctionOnSet(Q, 1 .. n + 1) = d + SumFunctionOnSet(P, 1 .. n)
  <2>1. /\ IsFiniteSet(1 .. n + 1) /\ IsFiniteSet(1 .. n) /\ n + 1 \in 1 .. n + 1
        /\ (1 .. n + 1) \ {n + 1} = 1 .. n
    BY FS_Interval
  <2>2. \A i \in 1 .. n + 1 : Q[i] \in Int
    BY <1>4, ListSums
  <2>3. SumFunctionOnSet(Q, 1 .. n + 1) = Q[n + 1] + SumFunctionOnSet(Q, (1 .. n + 1) \ {n + 1})
    <3>1. PICK S, x : S = 1 .. n + 1 /\ x = n + 1 /\ x \in S
      BY <2>1
    <3>2. SumFunctionOnSet(Q, S) = Q[x] + SumFunctionOnSet(Q, S \ {x})
      BY <2>1, <2>2, <3>1, SumAdd
    <3> QED
      BY <3>1, <3>2
  <2>4. \A i \in 1 .. n : P[i] \in Int /\ Q[i] = P[i]
    BY <1>2, <1>4, ListSums
  <2>5. SumFunctionOnSet(Q, 1 .. n) = SumFunctionOnSet(P, 1 .. n)
    BY <2>1, <2>4, SumSame
  <2> QED
    BY <1>4, <2>1, <2>3, <2>5
<1>8. PICK k \in Nat : k = SumFunctionOnSet(P, 1 .. n) /\ k <= s - r.start
  <2>1. SumFunctionOnSet(P, 1 .. n) \in Nat
    BY <1>2, ListSums
  <2> QED
    BY <1>1, <1>2, <2>1 DEF Timed
<1>9. d + k <= (s + d) - r.start
  BY <1>3, <1>8
<1> QED
  BY <1>4, <1>5, <1>6, <1>7, <1>8, <1>9 DEF Timed

(* compute_metrics_train and compute_metrics_eval, and the end of the record *)
LEMMA EndedUtilisation ==
  ASSUME NEW t \in Nat, NEW r, Shape(r, t), NEW n \in Nat, Timed(r, t), r.end = Unset
  PROVE  LET q == EndedBlock(r, t - r.start, t, n)
             e == EndedEval(r, t - r.start, t)
         IN  /\ Timed(q, t)
             /\ q.au = Utilisation(q, Steps, conf.exclude_start, conf.exclude_end)
             /\ conf.steps_eval \in Nat =>
                  /\ Timed(e, t) /\ Shape(e, t) /\ e.end = t /\ e.start = r.start
                  /\ e.au = Utilisation(e, conf.steps_eval, conf.exclude_start, conf.exclude_end)
<1> DEFINE With(a, h) == [r EXCEPT !.au = a, !.throughput = h]
<1>1. ASSUME NEW a, NEW h, NEW m \in Nat
      PROVE  LET q == Closed(With(a, h), t, m)
             IN  /\ q.au = a /\ q.proc = r.proc /\ q.compute = r.compute
                 /\ q.start = r.start /\ q.end = t /\ Shape(q, t)
  <2>1. Shape(With(a, h), t) /\ SameTimes(With(a, h), r) /\ With(a, h).au = a
    BY DEF Shape, SameTimes
  <2>2. PICK w : w = With(a, h)
    OBVIOUS
  <2> HIDE DEF With
  <2>3. /\ Shape(Closed(w, t, m), t)
        /\ Closed(w, t, m).proc = w.proc
        /\ Closed(w, t, m).compute = w.compute /\ Closed(w, t, m).start = w.start
        /\ Closed(w, t, m).end = t
    BY <2>1, <2>2, ClosedRecord
  <2>4. Closed(w, t, m).au = w.au
    BY <2>1, <2>2 DEF Closed, Shape
  <2> QED
    BY <2>1, <2>2, <2>3, <2>4 DEF SameTimes
<1>2. ASSUME NEW steps, NEW h, NEW m \in Nat
      PROVE  LET q == Closed(With(<<SumFunctionOnSet(r.compute, Included(Len(r.compute), steps)),
                                    (t - r.start) - ExcludedTime(r.proc, steps)>>, h), t, m)
             IN  /\ Timed(q, t) /\ Shape(q, t) /\ q.end = t /\ q.start = r.start
                 /\ q.au = Utilisation(q, steps, conf.exclude_start, conf.exclude_end)
  <2> DEFINE a == <<SumFunctionOnSet(r.compute, Included(Len(r.compute), steps)),
                    (t - r.start) - ExcludedTime(r.proc, steps)>>
  <2>1. PICK q : q = Closed(With(a, h), t, m)
    OBVIOUS
  <2>2. /\ q.au = a /\ q.proc = r.proc /\ q.compute = r.compute
        /\ q.start = r.start /\ q.end = t /\ Shape(q, t)
    <3> HIDE DEF a, With
    <3> QED
      BY <1>1, <2>1
  <2>3. q.au = Utilisation(q, steps, conf.exclude_start, conf.exclude_end)
    BY <2>2 DEF Utilisation, Included, ExcludedTime, EndIndex
  <2>4. Timed(q, t)
    BY <2>2, TimedSame
  <2> QED
    BY <2>1, <2>2, <2>3, <2>4
<1>3. EndedBlock(r, t - r.start, t, n)
        = Closed(With(<<SumFunctionOnSet(r.compute, Included(Len(r.compute), Steps)),
                        (t - r.start) - ExcludedTime(r.proc, Steps)>>,
                      <<Len(r.compute) - 2, (t - r.start) - ExcludedTime(r.proc, Steps)>>), t, n)
  BY DEF EndedBlock, TrainMetrics
<1>4. EndedEval(r, t - r.start, t)
        = Closed(With(<<SumFunctionOnSet(r.compute, Included(Len(r.compute), conf.steps_eval)),
                        (t - r.start) - ExcludedTime(r.proc, conf.steps_eval)>>,
                      <<Len(r.compute), t - r.start>>), t, conf.steps_eval)
  BY DEF EndedEval, EvalMetrics
<1> HIDE DEF With
<1> QED
  BY <1>2, <1>3, <1>4

-------------------------------------------------------------------------------
(* What the actions do to the times *)

(* batch_loaded and eval_batch_loaded leave the steps alone. *)
LEMMA LoadedStays ==
  ASSUME TypeInv, [Next]_vars, NEW k \in DOMAIN output, BatchLoaded(k), output[k].end = Unset,
         Timed(output[k], start_time_loading)
  PROVE  \E q : /\ Changed(k, q) /\ q.start = output[k].start /\ q.end = Unset
                /\ Timed(q, start_time_loading)
<1>1. /\ now \in Nat /\ now' \in Nat /\ now <= now' /\ now' - start_time_loading \in Nat
  BY TimePasses, Durations DEF TypeInv, ClockInv
<1>2. Shape(output[k], now')
  BY <1>1, ShapeLater DEF TypeInv, OutputInv, Records
<1>3. PICK q : q = Loaded(output[k], now' - start_time_loading)
  OBVIOUS
<1>4. /\ Shape(q, now') /\ q.proc = output[k].proc /\ q.compute = output[k].compute
      /\ q.start = output[k].start /\ q.end = Unset
  BY <1>1, <1>2, <1>3, LoadedRecord
<1>5. Timed(q, start_time_loading)
  BY <1>4, TimedSame
<1>6. Changed(k, q)
  BY <1>3, <1>4 DEF Changed, BatchLoaded
<1> QED
  BY <1>4, <1>5, <1>6

(* A step computes for a part of its time. *)
LEMMA PartOfStep ==
  ASSUME NEW a \in Nat, NEW b \in Nat, NEW t \in Nat, a <= b, b <= t
  PROVE  \E d \in Nat, c \in Nat : d = t - a /\ c = t - b /\ c <= d /\ a + d = t
<1>1. t - a \in Nat /\ t - b \in Nat /\ t - b <= t - a /\ a + (t - a) = t
  OBVIOUS
<1> QED
  BY <1>1

(* batch_processed and eval_batch_processed add a step that began when its batch
   did, and computed for a part of it. *)
LEMMA ProcessedAdds ==
  ASSUME TypeInv, [Next]_vars, NEW k \in DOMAIN output, BatchProcessed(k), output[k].end = Unset,
         Timed(output[k], start_time_loading), start_time_compute \in 0 .. now,
         start_time_loading <= start_time_compute
  PROVE  \E q : /\ Changed(k, q) /\ q.start = output[k].start /\ q.end = Unset
                /\ Timed(q, now')
<1>1. /\ now \in Nat /\ now' \in Nat /\ now <= now' /\ start_time_loading \in Nat
  BY TimePasses DEF TypeInv, ClockInv
<1>2. Shape(output[k], now')
  BY <1>1, ShapeLater DEF TypeInv, OutputInv, Records
<1>3. PICK d \in Nat, c \in Nat :
        /\ d = now' - start_time_loading /\ c = now' - start_time_compute /\ c <= d
        /\ start_time_loading + d = now'
  <2>1. start_time_compute \in Nat /\ start_time_compute <= now'
    BY <1>1
  <2> QED
    BY <1>1, <2>1, PartOfStep
<1>4. PICK q : q = Processed(output[k], d, c)
  OBVIOUS
<1>5. /\ Shape(q, now') /\ q.start = output[k].start /\ q.end = Unset
  BY <1>1, <1>2, <1>4, ProcessedRecord
<1>6. Timed(q, now')
  BY <1>1, <1>2, <1>3, <1>4, ProcessedTimed
<1>7. Changed(k, q)
  BY <1>3, <1>4, <1>5 DEF Changed, BatchProcessed
<1> QED
  BY <1>5, <1>6, <1>7

(* end_block sets the utilisation of the block. *)
LEMMA EndBlockMetrics ==
  ASSUME TypeInv, [Next]_vars, NEW n \in Nat, EndBlock(block, n), output[block].end = Unset,
         start_timestamp' = start_timestamp, start_timestamp = output[block].start,
         Timed(output[block], now')
  PROVE  \E q : /\ Changed(block, q) /\ q.end = now' /\ Timed(q, q.end)
                /\ q.au = Utilisation(q, Steps, conf.exclude_start, conf.exclude_end)
<1>1. now' \in Nat /\ now <= now' /\ now \in Nat /\ block \in DOMAIN output
  BY TimePasses DEF TypeInv, ClockInv, OutputInv, Blocks
<1>2. Shape(output[block], now')
  BY <1>1, ShapeLater DEF TypeInv, OutputInv, Records
<1>3. PICK q : q = EndedBlock(output[block], now' - output[block].start, now', n)
  OBVIOUS
<1>4. /\ Timed(q, now')
      /\ q.au = Utilisation(q, Steps, conf.exclude_start, conf.exclude_end)
  BY <1>1, <1>2, <1>3, EndedUtilisation
<1>5. Shape(q, now') /\ q.end = now'
  <2>1. PICK r, e : r = output[block] /\ e = now' - output[block].start
    OBVIOUS
  <2>2. Shape(EndedBlock(r, e, now', n), now') /\ EndedBlock(r, e, now', n).end = now'
    BY <1>1, <1>2, <2>1, EndedRecord
  <2> QED
    BY <1>3, <2>1, <2>2
<1>6. Changed(block, q)
  BY <1>3, <1>5 DEF Changed, EndBlock
<1> QED
  BY <1>4, <1>5, <1>6

(* So does end_eval that of the evaluation. *)
LEMMA EndEvalMetrics ==
  ASSUME TypeInv, OpenInv, EndEval
  PROVE  \E q : /\ Changed(EvalKey, q) /\ q.end = now' /\ Timed(q, q.end)
                /\ q.au = Utilisation(q, conf.steps_eval, conf.exclude_start, conf.exclude_end)
<1>1. /\ now' \in Nat /\ now <= now' /\ now \in Nat /\ EvalKey \in DOMAIN output
      /\ start_time_loading \in 0 .. now /\ conf.steps_eval \in Nat
  BY TimePasses DEF TypeInv, ClockInv, OutputInv, EndEval, Next, ConfigurationType
<1>2. Shape(output[EvalKey], now')
  BY <1>1, ShapeLater DEF TypeInv, OutputInv, Records
<1>3. /\ Timed(output[EvalKey], start_time_loading) /\ output[EvalKey].end = Unset
      /\ start_timestamp = output[EvalKey].start
  BY DEF OpenInv, EndEval, Evaluating
<1>4. Timed(output[EvalKey], now')
  BY <1>1, <1>2, <1>3, TimedLater
<1>5. PICK q : q = EndedEval(output[EvalKey], now' - output[EvalKey].start, now')
  OBVIOUS
<1>6. /\ Timed(q, now') /\ Shape(q, now') /\ q.end = now'
      /\ q.au = Utilisation(q, conf.steps_eval, conf.exclude_start, conf.exclude_end)
  <2>1. 0 \in Nat
    OBVIOUS
  <2> QED
    BY <1>1, <1>2, <1>3, <1>4, <1>5, <2>1, EndedUtilisation
<1>7. output' = Put(output, EvalKey, q)
  BY <1>3, <1>5 DEF EndEval
<1> QED
  BY <1>6, <1>7 DEF Changed

(* Nothing has been measured at the start. *)
LEMMA MetricsInit == Init => MetricsInv
<1> SUFFICES ASSUME Init PROVE MetricsInv
  OBVIOUS
<1>1. /\ DOMAIN output = {1} /\ output[1] = New(0) /\ pc = "fetch" /\ block = 1
      /\ start_timestamp = 0 /\ start_time_loading = 0
  BY DEF Init, Put
<1>2. New(0).end = Unset /\ New(0).start = 0 /\ Timed(New(0), 0)
  BY NewRecord, NewTimed
<1> QED
  BY <1>1, <1>2 DEF MetricsInv, OpenInv, EndedInv, Ended, Loop, Evaluating

(* Every step keeps the times and the utilisation. *)
LEMMA MetricsNext == TypeInv /\ LastOpen /\ KeysInv /\ MetricsInv /\ [Next]_vars => MetricsInv'
<1> SUFFICES ASSUME TypeInv, LastOpen, KeysInv, MetricsInv, [Next]_vars PROVE MetricsInv'
  OBVIOUS
<1>1. /\ block \in Nat \ {0} /\ block \in Blocks /\ block \in DOMAIN output
      /\ EvalKey # block /\ EvalKey # block + 1 /\ block + 1 \notin Blocks
      /\ Blocks \subseteq DOMAIN output /\ DOMAIN output \subseteq Blocks \cup {EvalKey}
      /\ block_step \in Nat \ {0} /\ start_time_loading \in 0 .. now
      /\ pc \in Evaluating => EvalKey \in DOMAIN output
      /\ pc \in {"compute", "compute_eval"} => start_time_compute \in 0 .. now
  BY DEF TypeInv, ClockInv, OutputInv, Blocks, EvalKey, KeysInv, Evaluating
<1>2. now \in Nat /\ now' \in Nat /\ now <= now'
  BY TimePasses DEF TypeInv, ClockInv
<1>3. conf' = conf /\ Steps' = Steps
  BY SameConf
<1>4. OpenInv /\ EndedInv
  BY DEF MetricsInv
<1>5. \A b \in DOMAIN output : Shape(output[b], now) /\ Shape(output[b], now')
  BY <1>2, ShapeLater DEF TypeInv, OutputInv, Records
(* Of the records one changes: if it has ended, as it should. *)
<1>6. ASSUME NEW k, NEW q, Changed(k, q),
             q.end # Unset =>
               /\ Timed(q, q.end)
               /\ q.au = Utilisation(q, IF k = EvalKey THEN conf.steps_eval ELSE Steps,
                                     conf.exclude_start, conf.exclude_end)
      PROVE  EndedInv' /\ output'[k] = q /\ (\A b \in DOMAIN output : b # k => output'[b] = output[b])
  <2>1. /\ output'[k] = q /\ (\A b \in DOMAIN output : b # k => output'[b] = output[b])
        /\ DOMAIN output' = DOMAIN output \cup {k}
    BY <1>6 DEF Changed, Put
  <2>2. ASSUME NEW b \in Ended', b # k
        PROVE  /\ Timed(output'[b], output'[b].end)
               /\ output'[b].au
                    = Utilisation(output'[b], IF b = EvalKey THEN conf.steps_eval ELSE Steps,
                                  conf.exclude_start, conf.exclude_end)
    <3>1. b \in Ended /\ output'[b] = output[b]
      BY <2>1, <2>2 DEF Ended
    <3> QED
      BY <1>4, <3>1 DEF EndedInv
  <2>3. ASSUME k \in Ended'
        PROVE  /\ Timed(output'[k], output'[k].end)
               /\ output'[k].au
                    = Utilisation(output'[k], IF k = EvalKey THEN conf.steps_eval ELSE Steps,
                                  conf.exclude_start, conf.exclude_end)
    BY <1>6, <2>1, <2>3 DEF Ended
  <2>4. \A b \in Ended' :
          /\ Timed(output'[b], output'[b].end)
          /\ output'[b].au
               = Utilisation(output'[b], IF b = EvalKey THEN conf.steps_eval ELSE Steps,
                             conf.exclude_start, conf.exclude_end)
    BY <2>2, <2>3
  <2>5. EndedInv'
    BY <1>3, <2>4 DEF EndedInv
  <2> QED
    BY <2>1, <2>5
<1>7. ASSUME UNCHANGED output PROVE EndedInv'
  BY <1>3, <1>4, <1>7 DEF EndedInv, Ended
<1>8. CASE Fetch
  <2>1. /\ pc = "fetch" /\ pc' = "compute" /\ BatchLoaded(block) /\ start_time_compute' = now'
        /\ UNCHANGED <<block, start_timestamp, start_time_loading>>
    BY <1>8 DEF Fetch, counters
  <2>2. /\ output[block].end = Unset /\ start_timestamp = output[block].start
        /\ Timed(output[block], start_time_loading)
    BY <1>1, <1>4, <2>1 DEF LastOpen, OpenInv, Loop
  <2>3. PICK q : /\ Changed(block, q) /\ q.start = output[block].start /\ q.end = Unset
                 /\ Timed(q, start_time_loading)
    BY <1>1, <2>1, <2>2, LoadedStays
  <2>4. EndedInv' /\ output'[block] = q
    BY <1>6, <2>3
  <2>5. OpenInv'
    BY <1>1, <1>2, <2>1, <2>2, <2>3, <2>4 DEF OpenInv, Loop, Evaluating
  <2> QED
    BY <2>4, <2>5 DEF MetricsInv
<1>9. CASE Compute
  <2>1. /\ pc = "compute" /\ pc' = "barrier" /\ BatchProcessed(block)
        /\ UNCHANGED <<block, start_timestamp>>
    BY <1>9 DEF Compute, counters
  <2>2. /\ output[block].end = Unset /\ start_timestamp = output[block].start
        /\ Timed(output[block], start_time_loading) /\ start_time_loading <= start_time_compute
        /\ start_time_compute \in 0 .. now
    BY <1>1, <1>4, <2>1 DEF LastOpen, OpenInv, Loop
  <2>3. PICK q : /\ Changed(block, q) /\ q.start = output[block].start /\ q.end = Unset
                 /\ Timed(q, now')
    BY <1>1, <2>1, <2>2, ProcessedAdds
  <2>4. EndedInv' /\ output'[block] = q
    BY <1>6, <2>3
  <2>5. OpenInv'
    BY <2>1, <2>2, <2>3, <2>4 DEF OpenInv, Loop, Evaluating
  <2> QED
    BY <2>4, <2>5 DEF MetricsInv
<1>10. CASE NextStep
  <2>1. /\ pc = "barrier" /\ pc' = "fetch" /\ start_time_loading' = now'
        /\ UNCHANGED <<block, start_timestamp, output>>
    BY <1>10 DEF NextStep
  <2>2. start_timestamp = output[block].start /\ Timed(output[block], now)
    BY <1>4, <2>1 DEF OpenInv, Loop
  <2>3. Timed(output[block], now')
    BY <1>1, <1>2, <1>5, <2>2, TimedLater
  <2>4. OpenInv'
    BY <2>1, <2>2, <2>3 DEF OpenInv, Loop, Evaluating
  <2> QED
    BY <1>7, <2>1, <2>4 DEF MetricsInv
<1>11. CASE EndOfBlock \/ EndOfLoop
  <2>1. PICK n \in Nat : EndBlock(block, n)
    BY <1>1, <1>11 DEF EndOfBlock, EndOfLoop
  <2>2. /\ pc \in {"fetch", "barrier"} /\ pc' \in {"save", "end_train"}
        /\ UNCHANGED <<block, start_timestamp>>
    BY <1>11 DEF EndOfBlock, EndOfLoop, counters
  <2>3. output[block].end = Unset /\ start_timestamp = output[block].start
    BY <1>1, <1>4, <2>2 DEF LastOpen, OpenInv, Loop
  <2>4. Timed(output[block], now')
    <3>1. PICK u \in 0 .. now : Timed(output[block], u)
      BY <1>1, <1>2, <1>4, <2>2 DEF OpenInv, Loop
    <3> QED
      BY <1>1, <1>2, <1>5, <3>1, TimedLater
  <2>5. PICK q : /\ Changed(block, q) /\ Timed(q, q.end)
                 /\ q.au = Utilisation(q, Steps, conf.exclude_start, conf.exclude_end)
    BY <2>1, <2>2, <2>3, <2>4, EndBlockMetrics
  <2>6. EndedInv'
    BY <1>1, <1>6, <2>5
  <2>7. OpenInv'
    BY <2>2 DEF OpenInv, Loop, Evaluating
  <2> QED
    BY <2>6, <2>7 DEF MetricsInv
<1>12. CASE EndSave
  <2>1. /\ pc' = "fetch" /\ block' = block + 1 /\ output' = Put(output, block', New(now'))
        /\ start_timestamp' = now' /\ start_time_loading' = now'
    BY <1>12 DEF EndSave
  <2>2. /\ Shape(New(now'), now') /\ New(now').end = Unset /\ New(now').start = now'
        /\ Timed(New(now'), now')
    BY <1>2, NewRecord, NewTimed
  <2>3. Changed(block', New(now'))
    BY <2>1, <2>2 DEF Changed
  <2>4. EndedInv' /\ output'[block'] = New(now')
    BY <1>6, <2>2, <2>3
  <2>5. OpenInv'
    BY <2>1, <2>2, <2>4 DEF OpenInv, Loop, Evaluating
  <2> QED
    BY <2>4, <2>5 DEF MetricsInv
<1>13. CASE EndOfEpoch \/ EndEpochSave
  <2>1. pc' \in {"save_epoch", "average"} /\ UNCHANGED output
    BY <1>13 DEF EndOfEpoch, EndEpochSave
  <2>2. OpenInv'
    BY <2>1 DEF OpenInv, Loop, Evaluating
  <2> QED
    BY <1>7, <2>1, <2>2 DEF MetricsInv
<1>14. CASE EndTrain
  <2>1. CASE conf.do_eval
    <3>1. /\ pc' = "eval" /\ output' = Put(output, EvalKey, New(now))
          /\ start_timestamp' = now /\ start_time_loading' = now /\ now' = now
      BY <1>14, <2>1 DEF EndTrain
    <3>2. /\ Shape(New(now), now) /\ New(now).end = Unset /\ New(now).start = now
          /\ Timed(New(now), now)
      BY <1>2, NewRecord, NewTimed
    <3>3. Changed(EvalKey, New(now))
      BY <3>1, <3>2 DEF Changed
    <3>4. EndedInv' /\ output'[EvalKey] = New(now)
      BY <1>6, <3>2, <3>3
    <3>5. OpenInv'
      BY <3>1, <3>2, <3>4 DEF OpenInv, Loop, Evaluating
    <3> QED
      BY <3>4, <3>5 DEF MetricsInv
  <2>2. CASE ~conf.do_eval
    <3>1. pc' = "done" /\ UNCHANGED output
      BY <1>14, <2>2 DEF EndTrain
    <3>2. OpenInv'
      BY <3>1 DEF OpenInv, Loop, Evaluating
    <3> QED
      BY <1>7, <3>1, <3>2 DEF MetricsInv
  <2> QED
    BY <2>1, <2>2
<1>15. CASE FetchEval
  <2>1. /\ pc = "eval" /\ pc' = "compute_eval" /\ BatchLoaded(EvalKey)
        /\ start_time_compute' = now' /\ UNCHANGED <<start_timestamp, start_time_loading>>
    BY <1>15 DEF FetchEval
  <2>2. /\ output[EvalKey].end = Unset /\ start_timestamp = output[EvalKey].start
        /\ Timed(output[EvalKey], start_time_loading) /\ EvalKey \in DOMAIN output
    BY <1>1, <1>4, <2>1 DEF OpenInv, Evaluating
  <2>3. PICK q : /\ Changed(EvalKey, q) /\ q.start = output[EvalKey].start /\ q.end = Unset
                 /\ Timed(q, start_time_loading)
    BY <2>1, <2>2, LoadedStays
  <2>4. EndedInv' /\ output'[EvalKey] = q
    BY <1>6, <2>3
  <2>5. OpenInv'
    BY <1>1, <1>2, <2>1, <2>2, <2>3, <2>4 DEF OpenInv, Loop, Evaluating
  <2> QED
    BY <2>4, <2>5 DEF MetricsInv
<1>16. CASE ComputeEval
  <2>1. /\ pc = "compute_eval" /\ pc' = "eval" /\ BatchProcessed(EvalKey)
        /\ start_time_loading' = now' /\ UNCHANGED start_timestamp
    BY <1>16 DEF ComputeEval
  <2>2. /\ output[EvalKey].end = Unset /\ start_timestamp = output[EvalKey].start
        /\ Timed(output[EvalKey], start_time_loading) /\ EvalKey \in DOMAIN output
        /\ start_time_loading <= start_time_compute /\ start_time_compute \in 0 .. now
    BY <1>1, <1>4, <2>1 DEF OpenInv, Evaluating
  <2>3. PICK q : /\ Changed(EvalKey, q) /\ q.start = output[EvalKey].start /\ q.end = Unset
                 /\ Timed(q, now')
    BY <2>1, <2>2, ProcessedAdds
  <2>4. EndedInv' /\ output'[EvalKey] = q
    BY <1>6, <2>3
  <2>5. OpenInv'
    BY <2>1, <2>2, <2>3, <2>4 DEF OpenInv, Loop, Evaluating
  <2> QED
    BY <2>4, <2>5 DEF MetricsInv
<1>17. CASE EndEval
  <2>1. pc' = "done"
    BY <1>17 DEF EndEval
  <2>2. PICK q : /\ Changed(EvalKey, q) /\ Timed(q, q.end)
                 /\ q.au = Utilisation(q, conf.steps_eval, conf.exclude_start, conf.exclude_end)
    BY <1>4, <1>17, EndEvalMetrics
  <2>3. EndedInv'
    BY <1>6, <2>2
  <2>4. OpenInv'
    BY <2>1 DEF OpenInv, Loop, Evaluating
  <2> QED
    BY <2>3, <2>4 DEF MetricsInv
<1>18. CASE UNCHANGED vars
  BY <1>4, <1>18 DEF vars, MetricsInv, OpenInv, EndedInv, Ended, Steps
<1> QED
  BY <1>8, <1>9, <1>10, <1>11, <1>12, <1>13, <1>14, <1>15, <1>16, <1>17, <1>18
     DEF Next, Terminated

(* Each step is weighed once in the average of the epoch, whatever ends it; no
   utilisation is above 100%, whatever is excluded; and where an epoch is one block, or of an
   evaluation, it is that of the steps not excluded. *)
THEOREM StepsAreMeasured == Spec => []MetricsOfSteps
<1> DEFINE All == TypeInv /\ BlockInv /\ AverageInv /\ MetricsInv
<1>1. Init => All
  BY TypeInvInit, BlockInit, AverageInit, MetricsInit
<1>2. All /\ [Next]_vars => All'
  <2>1. TypeInv /\ [Next]_vars => TypeInv'
    BY ClockInvNext, OutputInvNext DEF TypeInv
  <2> QED
    BY <2>1, BlockNext, AverageNext, MetricsNext DEF BlockInv, AverageInv
<1>3. All => MetricsOfSteps
  <2> SUFFICES ASSUME All PROVE MetricsOfSteps
    OBVIOUS
  <2>1. /\ now \in Nat /\ Steps \in Nat /\ conf.steps_eval \in Nat
        /\ conf.exclude_start \in Nat /\ conf.exclude_end \in Nat
    BY Limits DEF TypeInv, ClockInv, ConfigurationType, AverageInv, LimitInv
  <2>2. ASSUME NEW b \in Ended
        PROVE  LET r == output[b]
                   steps == IF b = EvalKey THEN conf.steps_eval ELSE Steps
                   included == conf.exclude_start + 1 .. Len(r.compute) - conf.exclude_end
               IN  /\ r.au[1] > 0 => r.au[1] <= r.au[2]
                   /\ r.au[2] <= r.end - r.start
                   /\ Len(r.compute) = steps /\ conf.exclude_start + conf.exclude_end <= steps
                      => r.au = <<SumFunctionOnSet(r.compute, included),
                                  (r.end - r.start)
                                    - SumFunctionOnSet(r.proc, DOMAIN r.proc \ included)>>
    <3> PICK r : r = output[b]
      OBVIOUS
    <3> PICK steps \in Nat : steps = IF b = EvalKey THEN conf.steps_eval ELSE Steps
      BY <2>1
    <3> PICK from \in Nat, off \in Nat : from = conf.exclude_start /\ off = conf.exclude_end
      BY <2>1
    <3>2. /\ Shape(r, now) /\ r.end # Unset /\ Timed(r, r.end)
          /\ r.au = Utilisation(r, steps, from, off)
      BY DEF TypeInv, OutputInv, Records, Ended, MetricsInv, EndedInv
    <3>3. /\ r.au[1] > 0 => r.au[1] <= r.au[2]
          /\ r.au[2] <= r.end - r.start
          /\ OfIncluded(r, steps, from, off)
      BY <2>1, <3>2, Utilised
    <3> QED
      BY <3>3 DEF OfIncluded
  <2>3. AverageCoversSteps
    BY AverageCovers
  <2>4. AUWithinBounds
    BY <2>2 DEF AUWithinBounds
  <2>5. UtilizationOfIncludedSteps
    BY <2>2 DEF UtilizationOfIncludedSteps
  <2> QED
    BY <2>3, <2>4, <2>5 DEF MetricsOfSteps
<1> QED
  BY <1>1, <1>2, <1>3, PTL DEF Spec
===============================================================================
