-------------------------------- MODULE JobProofs --------------------------------
(***************************************************************************)
(* What holds of a job for every number of ranks, files and checkpoints    *)
(* and every workload.                                                     *)
(*                                                                         *)
(* The argument is that of TrainLoopProofs: a rank's place, the round it   *)
(* is in and the workload fix how many collectives it has called and which *)
(* checkpoints it has saved and timed (AtPlace); a rank outside a          *)
(* collective is not ahead of any other, and no rank by more than one call *)
(* (Waiting).  What has become of the dataset is told by the calls of      *)
(* rank 0, which makes its folders and deletes it (DatasetInv).            *)
(***************************************************************************)
EXTENDS Job, FiniteSetTheorems, TLAPS

-------------------------------------------------------------------------------
(* The collectives a rank of workload c has called *)

ListCalls(c) == 2 + (IF c.generate THEN (IF c.settle /\ c.object THEN 3 ELSE 2) ELSE 0)
InitCalls(c) == ListCalls(c) + (IF c.checkpoint THEN 3 ELSE 1)
Rounds(c, n) == IF c.rankSync THEN 2 * n ELSE n
SaveCalls(c, n) == InitCalls(c) + Rounds(c, n)
LoadCalls(c, n) == SaveCalls(c, c.writes) + Rounds(c, n)
FinalCalls(c)   == LoadCalls(c, c.reads) + (IF c.train \/ c.checkpoint THEN 2 ELSE 1)

Alone(c)  == c.checkpoint /\ ~c.train
Stays(c)  == c.keep \/ (c.generate /\ ~c.train /\ ~c.checkpoint)
Own(c, n) == (1 .. n) \cup (1 .. c.earlier)

LastBlock(c) == IF c.reads > 0 THEN c.reads ELSE 1

(* Where a rank is before the workload, in _checkpoint_write, and after *)
Preparing(c, p, n) ==
  \/ p = "init" /\ n = 0
  \/ p = "begin" /\ n = 1
  \/ /\ c.generate
     /\ \/ p = "make_folders" /\ n = 1
        \/ p \in {"folders_made", "write", "failed"} /\ n = 2
        \/ p = "generated" /\ n = 3
        \/ c.settle /\ c.object /\ p = "sleep" /\ n = 3
        \/ c.settle /\ c.object /\ p = "settled" /\ n = 4
  \/ p \in {"listing", "list", "failed"} /\ n = ListCalls(c)
  \/ c.checkpoint /\ p = "model_size" /\ n = ListCalls(c) + 1
  \/ c.checkpoint /\ p = "optimizer_size" /\ n = ListCalls(c) + 2
  \/ p = "initialized" /\ n = InitCalls(c)
  \/ c.train /\ p \in {"train", "failed"} /\ n = InitCalls(c)

Writing(c, p, n, b, sv) ==
  /\ Alone(c) /\ b \in 1 .. c.writes
  /\ \/ p \in {"before_save", "save"} /\ n = SaveCalls(c, b - 1) + 1 /\ sv = Own(c, b - 1)
     \/ ~c.rankSync /\ p = "saved" /\ n = SaveCalls(c, b - 1) + 1 /\ sv = Own(c, b)
     \/ c.rankSync /\ p = "after_save" /\ n = SaveCalls(c, b - 1) + 2 /\ sv = Own(c, b)

Reading(c, p, n, b) ==
  /\ Alone(c)
  /\ \/ p \in {"count", "failed"} /\ n = SaveCalls(c, c.writes) /\ b = 1
     \/ /\ b \in 1 .. c.reads /\ 1 .. c.reads \subseteq Own(c, c.writes)
        /\ \/ p \in {"before_load", "load", "failed"} /\ n = LoadCalls(c, b - 1) + 1
           \/ ~c.rankSync /\ p = "loaded" /\ n = LoadCalls(c, b - 1) + 1
           \/ c.rankSync /\ p = "after_load" /\ n = LoadCalls(c, b - 1) + 2

Ending(c, p, n) ==
  \/ (c.train \/ c.checkpoint) /\ p = "metrics" /\ n = FinalCalls(c) - 1
  \/ p = "finalize" /\ n = FinalCalls(c)
  \/ ~Stays(c) /\ p \in {"delete", "deleting"} /\ n = FinalCalls(c) + 1
  \/ ~Stays(c) /\ p \in {"exit", "done"} /\ n = FinalCalls(c) + 2
  \/ Stays(c) /\ p \in {"exit", "done"} /\ n = FinalCalls(c) + 1

AtPlace(c, p, n, b, sv, tm) ==
  \/ Preparing(c, p, n) /\ b = 1 /\ sv = 1 .. c.earlier /\ tm = {}
  \/ Writing(c, p, n, b, sv) /\ tm = 1 .. b - 1
  \/ Reading(c, p, n, b) /\ sv = Own(c, c.writes) /\ tm = 1 .. c.writes
  \/ Ending(c, p, n) /\ b = LastBlock(c) /\ sv = Own(c, c.writes) /\ tm = 1 .. c.writes

At(r) == AtPlace(conf, pc[r], calls[r], block[r], saved[r], timed[r])

InOrder == \A r \in Rank : At(r)

Waiting ==
  \A r, q \in Rank :
    /\ calls[r] <= calls[q] + 1
    /\ pc[r] \notin Sites => calls[r] <= calls[q]

(* The types, but for what the program order says more exactly *)
Shape ==
  /\ conf \in Configurations
  /\ pc \in [Rank -> Places]
  /\ calls \in [Rank -> Nat]
  /\ folders \in BOOLEAN
  /\ files \subseteq Files
  /\ visible \subseteq files
  /\ listed \in [Rank -> SUBSET Files]
  /\ block \in [Rank -> Nat \ {0}]
  /\ saved \in [Rank -> SUBSET Nat]
  /\ timed \in [Rank -> SUBSET Nat]

JobInv == Shape /\ InOrder /\ Waiting

-------------------------------------------------------------------------------
(* Types *)

(* What the workloads have in common *)
LEMMA ConfigurationFacts ==
  ASSUME NEW c \in Configurations
  PROVE  /\ c.generate \in BOOLEAN /\ c.train \in BOOLEAN /\ c.checkpoint \in BOOLEAN
         /\ c.object \in BOOLEAN /\ c.settle \in BOOLEAN /\ c.keep \in BOOLEAN
         /\ c.rankSync \in BOOLEAN /\ c.found \in BOOLEAN
         /\ c.writes \in Nat /\ c.reads \in Nat /\ c.earlier \in Nat
         /\ c.writes <= MaxCheckpoints /\ c.reads <= MaxCheckpoints
         /\ c.earlier <= MaxCheckpoints
         /\ c.writes > 0 => c.reads <= c.writes /\ c.earlier = 0
         /\ c.generate => ~c.found
         /\ ~Alone(c) => ~c.rankSync /\ c.writes = 0 /\ c.reads = 0 /\ c.earlier = 0
         /\ c.generate \/ c.train \/ c.checkpoint
  BY JobAssumption DEF Configurations, Alone

(* How many calls there are before each part *)
LEMMA CallFacts ==
  ASSUME NEW c \in Configurations
  PROVE  /\ ListCalls(c) \in 2 .. 5 /\ (c.generate => ListCalls(c) >= 4)
         /\ InitCalls(c) \in Nat /\ InitCalls(c) >= ListCalls(c) + 1
         /\ \A n \in Nat : /\ SaveCalls(c, n) \in Nat /\ SaveCalls(c, n) >= InitCalls(c)
                           /\ LoadCalls(c, n) \in Nat
                           /\ LoadCalls(c, n) >= SaveCalls(c, c.writes)
         /\ FinalCalls(c) \in Nat /\ FinalCalls(c) >= InitCalls(c) + 1
  BY ConfigurationFacts DEF ListCalls, InitCalls, SaveCalls, LoadCalls, FinalCalls, Rounds

(* Every rank starts at its first place. *)
LEMMA ShapeInit == Init => Shape
  BY JobAssumption, ConfigurationFacts DEF Init, Shape, Files, Places, Sites, Barriers, Allreduces

(* Every step keeps the types. *)
LEMMA ShapeNext == Shape /\ [Next]_vars => Shape'
<1> SUFFICES ASSUME Shape, [Next]_vars PROVE Shape'
  OBVIOUS
<1> USE DEF Shape, Places, Sites, Barriers, Allreduces, Enter, Goto, Released, EndRun, dataset,
     checkpoints
<1>1. ASSUME NEW r \in Rank, RankStep(r) PROVE Shape'
  <2>1. CASE Begin(r) \/ EndBegin(r) \/ StartWriting(r) \/ EndWriting(r)
    BY <2>1 DEF Begin, EndBegin, StartWriting, EndWriting
  <2>2. CASE MakeFolders(r)
    BY <2>2 DEF MakeFolders
  <2>3. CASE WriteFile(r)
    BY <2>3 DEF WriteFile, OwnFiles
  <2>4. CASE SettleGuard(r) \/ WakeUp(r) \/ Settled(r) \/ StartListing(r)
    BY <2>4 DEF SettleGuard, WakeUp, Settled, StartListing
  <2>5. CASE ListFiles(r)
    BY <2>5 DEF ListFiles
  <2>6. CASE BuildMechanism(r)
    BY <2>6 DEF BuildMechanism
  <2>7. CASE Run(r)
    BY <2>7 DEF Run
  <2>8. CASE Train(r) \/ StartSave(r) \/ StartLoad(r) \/ Load(r)
    BY <2>8 DEF Train, StartSave, StartLoad, Load
  <2>9. CASE Save(r)
    BY <2>9 DEF Save
  <2>10. CASE EndSave(r)
    BY <2>10 DEF EndSave
  <2>11. CASE CountCheckpoints(r)
    BY <2>11 DEF CountCheckpoints
  <2>12. CASE EndLoad(r)
    BY <2>12 DEF EndLoad
  <2>13. CASE ReduceMetrics(r) \/ Finalize(r) \/ StartDelete(r) \/ Exit(r)
    BY <2>13 DEF ReduceMetrics, Finalize, StartDelete, Exit
  <2>14. CASE Delete(r)
    <3>1. /\ folders' \in BOOLEAN /\ files' \subseteq Files /\ visible' \subseteq files'
          /\ pc' \in [Rank -> Places] /\ calls' \in [Rank -> Nat]
      <4>1. conf.object \in BOOLEAN
        BY ConfigurationFacts
      <4> QED
        BY <2>14, <4>1 DEF Delete
    <3> QED
      BY <2>14, <3>1 DEF Delete
  <2> QED
    BY <1>1, <2>1, <2>2, <2>3, <2>4, <2>5, <2>6, <2>7, <2>8, <2>9, <2>10, <2>11, <2>12, <2>13,
       <2>14 DEF RankStep
<1>2. CASE Propagate
  BY <1>2 DEF Propagate
<1>3. CASE UNCHANGED vars
  BY <1>3 DEF vars
<1> QED
  BY <1>1, <1>2, <1>3 DEF Next, Stopped

-------------------------------------------------------------------------------
(* The program order *)

(* No rank has called a collective at the start. *)
LEMMA OrderInit == Init => InOrder /\ Waiting
<1> SUFFICES ASSUME Init PROVE InOrder /\ Waiting
  OBVIOUS
<1>1. ASSUME NEW r \in Rank PROVE At(r)
  BY DEF Init, At, AtPlace, Preparing
<1>2. Waiting
  BY DEF Init, Waiting
<1> QED
  BY <1>1, <1>2 DEF InOrder

(* A step of one rank leaves the places of the others. *)
LEMMA OthersStay ==
  ASSUME Shape, NEW r \in Rank, RankStep(r)
  PROVE  /\ conf' = conf
         /\ \A q \in Rank : q # r =>
              /\ pc'[q] = pc[q] /\ calls'[q] = calls[q] /\ block'[q] = block[q]
              /\ saved'[q] = saved[q] /\ timed'[q] = timed[q]
  BY DEF Shape, RankStep, Begin, EndBegin, MakeFolders, StartWriting, WriteFile, EndWriting,
     SettleGuard, WakeUp, Settled, StartListing, ListFiles, BuildMechanism, Run, Train, StartSave,
     Save, EndSave, CountCheckpoints, StartLoad, Load, EndLoad, ReduceMetrics, Finalize,
     StartDelete, Delete, Exit, EndRun, Enter, Goto, checkpoints

(* The rounds of _checkpoint_write and _checkpoint_read *)
LEMMA RoundFacts ==
  ASSUME NEW c \in Configurations, NEW b \in Nat \ {0}
  PROVE  /\ SaveCalls(c, b) = SaveCalls(c, b - 1) + (IF c.rankSync THEN 2 ELSE 1)
         /\ LoadCalls(c, b) = LoadCalls(c, b - 1) + (IF c.rankSync THEN 2 ELSE 1)
         /\ SaveCalls(c, 0) = InitCalls(c) /\ LoadCalls(c, 0) = SaveCalls(c, c.writes)
         /\ SaveCalls(c, b - 1) \in Nat /\ LoadCalls(c, b - 1) \in Nat
<1>1. b - 1 \in Nat /\ c.writes \in Nat /\ c.rankSync \in BOOLEAN
  BY ConfigurationFacts
<1>2. SaveCalls(c, b - 1) \in Nat /\ LoadCalls(c, b - 1) \in Nat /\ InitCalls(c) \in Nat
      /\ SaveCalls(c, c.writes) \in Nat
  BY <1>1, CallFacts
<1>3. Rounds(c, b) = Rounds(c, b - 1) + (IF c.rankSync THEN 2 ELSE 1) /\ Rounds(c, 0) = 0
      /\ Rounds(c, b - 1) \in Nat
  BY <1>1 DEF Rounds
<1> QED
  BY <1>1, <1>2, <1>3 DEF SaveCalls, LoadCalls

(* A rank that steps from place p at n calls to another *)
LEMMA StepInOrder ==
  ASSUME JobInv, NEW r \in Rank, RankStep(r), At(r)' PROVE InOrder'
<1>1. \A q \in Rank : q # r => At(q)'
  BY OthersStay DEF JobInv, InOrder, At
<1> QED
  BY <1>1 DEF InOrder

Before(r) == pc[r] \in {"init", "begin", "make_folders", "folders_made", "write", "generated",
                        "sleep", "settled", "listing", "list", "model_size", "optimizer_size",
                        "initialized", "train"}

(* A rank before the workload has saved and timed nothing of its own. *)
LEMMA Prepared ==
  ASSUME JobInv, NEW r \in Rank, Before(r)
  PROVE  Preparing(conf, pc[r], calls[r]) /\ block[r] = 1 /\ saved[r] = 1 .. conf.earlier
         /\ timed[r] = {}
<1>1. At(r)
  BY DEF JobInv, InOrder
<1> QED
  BY <1>1 DEF Before, At, AtPlace, Writing, Reading, Ending

(* A step before the workload *)
LEMMA PreparedStep ==
  ASSUME JobInv, NEW r \in Rank, Before(r), RankStep(r), UNCHANGED checkpoints,
         Preparing(conf, pc'[r], calls'[r])
  PROVE  At(r)'
  BY Prepared, OthersStay DEF JobInv, At, AtPlace, checkpoints

(* The steps from the begin of the job to the workload keep the program order. *)
LEMMA PreparingNext ==
  ASSUME JobInv, NEW r \in Rank, RankStep(r),
         \/ Begin(r) \/ EndBegin(r) \/ MakeFolders(r) \/ StartWriting(r) \/ WriteFile(r)
         \/ EndWriting(r) \/ SettleGuard(r) \/ WakeUp(r) \/ Settled(r) \/ StartListing(r)
         \/ ListFiles(r) \/ BuildMechanism(r)
  PROVE  At(r)'
<1>1. conf \in Configurations /\ calls \in [Rank -> Nat] /\ pc \in [Rank -> Places]
  BY DEF JobInv, Shape
<1>2. Before(r) /\ UNCHANGED checkpoints
  BY DEF Before, Begin, EndBegin, MakeFolders, StartWriting, WriteFile, EndWriting,
     SettleGuard, WakeUp, Settled, StartListing, ListFiles, BuildMechanism, Released
<1>3. Preparing(conf, pc[r], calls[r])
  BY <1>2, Prepared
<1>4. Preparing(conf, pc'[r], calls'[r])
  <2>1. CASE Begin(r) \/ EndBegin(r)
    BY <1>1, <1>3, <2>1 DEF Begin, EndBegin, Preparing, Released, Enter, Goto, ListCalls, InitCalls
  <2>2. CASE MakeFolders(r) \/ StartWriting(r)
    BY <1>1, <1>3, <2>2 DEF MakeFolders, StartWriting, Preparing, Released, Enter, Goto
  <2>3. CASE WriteFile(r) \/ EndWriting(r)
    BY <1>1, <1>3, <2>3 DEF WriteFile, EndWriting, Preparing, Released, Enter, Goto
  <2>4. CASE SettleGuard(r)
    <3>1. conf.generate /\ calls[r] = 3
      BY <1>3, <2>4 DEF SettleGuard, Preparing, Released
    <3>2. CASE conf.settle /\ conf.object
      <4>1. \/ pc'[r] = "sleep" /\ calls'[r] = 3
            \/ pc'[r] = "settled" /\ calls'[r] = 4
        BY <1>1, <2>4, <3>1, <3>2 DEF SettleGuard, Enter, Goto
      <4> QED
        BY <3>1, <3>2, <4>1 DEF Preparing
    <3>3. CASE ~(conf.settle /\ conf.object)
      <4>1. pc'[r] = "listing" /\ calls'[r] = 4 /\ ListCalls(conf) = 4
        BY <1>1, <2>4, <3>1, <3>3 DEF SettleGuard, Enter, Goto, ListCalls
      <4> QED
        BY <4>1 DEF Preparing
    <3> QED
      BY <3>2, <3>3
  <2>5. CASE WakeUp(r) \/ Settled(r)
    BY <1>1, <1>3, <2>5 DEF WakeUp, Settled, Preparing, Released, Enter, Goto, ListCalls
  <2>6. CASE StartListing(r)
    BY <1>1, <1>3, <2>6 DEF StartListing, Preparing, Released, Goto
  <2>7. CASE ListFiles(r)
    <3>1. calls[r] = ListCalls(conf) /\ ListCalls(conf) \in Nat
      BY <1>1, <1>3, <2>7, CallFacts DEF ListFiles, Preparing
    <3>2. \/ pc'[r] = "failed" /\ calls'[r] = ListCalls(conf)
          \/ conf.checkpoint /\ pc'[r] = "model_size" /\ calls'[r] = ListCalls(conf) + 1
          \/ ~conf.checkpoint /\ pc'[r] = "initialized" /\ calls'[r] = ListCalls(conf) + 1
      BY <1>1, <2>7, <3>1 DEF ListFiles, Enter, Goto
    <3> QED
      BY <3>1, <3>2 DEF Preparing, InitCalls
  <2>8. CASE BuildMechanism(r)
    BY <1>1, <1>3, <2>8, CallFacts DEF BuildMechanism, Preparing, Released, Enter, Goto, InitCalls
  <2> QED
    BY <2>1, <2>2, <2>3, <2>4, <2>5, <2>6, <2>7, <2>8
<1> QED
  BY <1>2, <1>4, PreparedStep

(* The calls of the workload's end *)
LEMMA EndFacts ==
  ASSUME NEW c \in Configurations
  PROVE  /\ ~Alone(c) => LoadCalls(c, c.reads) = InitCalls(c)
         /\ Alone(c) => FinalCalls(c) = LoadCalls(c, c.reads) + 2
         /\ c.train => FinalCalls(c) = InitCalls(c) + 2
         /\ ~c.train /\ ~c.checkpoint => FinalCalls(c) = InitCalls(c) + 1
         /\ InitCalls(c) \in Nat /\ LoadCalls(c, c.reads) \in Nat
<1>1. /\ c.writes \in Nat /\ c.reads \in Nat /\ InitCalls(c) \in Nat
      /\ LoadCalls(c, c.reads) \in Nat
      /\ ~Alone(c) => ~c.rankSync /\ c.writes = 0 /\ c.reads = 0
  BY ConfigurationFacts, CallFacts
<1>2. ~Alone(c) => LoadCalls(c, c.reads) = InitCalls(c)
  BY <1>1 DEF LoadCalls, SaveCalls, Rounds
<1> QED
  BY <1>1, <1>2 DEF FinalCalls, Alone

(* The first collective after the workload *)
LEMMA EndInOrder ==
  ASSUME NEW c \in Configurations, NEW p, NEW n \in Nat, NEW b, NEW sv, NEW tm,
         n = LoadCalls(c, c.reads) + 1,
         p = (IF c.generate /\ ~c.train /\ ~c.checkpoint THEN "finalize" ELSE "metrics"),
         b = LastBlock(c), sv = Own(c, c.writes), tm = 1 .. c.writes
  PROVE  AtPlace(c, p, n, b, sv, tm)
<1>1. c.generate \/ c.train \/ c.checkpoint
  BY ConfigurationFacts
<1>2. CASE c.train \/ c.checkpoint
  <2>1. p = "metrics" /\ FinalCalls(c) = LoadCalls(c, c.reads) + 2 /\ LoadCalls(c, c.reads) \in Nat
    BY <1>2, EndFacts DEF Alone
  <2> QED
    BY <1>2, <2>1 DEF AtPlace, Ending
<1>3. CASE ~(c.train \/ c.checkpoint)
  <2>1. p = "finalize" /\ FinalCalls(c) = LoadCalls(c, c.reads) + 1
    BY <1>1, <1>3, EndFacts DEF Alone
  <2> QED
    BY <2>1 DEF AtPlace, Ending
<1> QED
  BY <1>2, <1>3

(* The choice of the workload, and training, keep the program order. *)
LEMMA RunNext ==
  ASSUME JobInv, NEW r \in Rank, RankStep(r), Run(r) \/ Train(r) PROVE At(r)'
<1>1. conf \in Configurations /\ calls \in [Rank -> Nat] /\ pc \in [Rank -> Places]
      /\ UNCHANGED <<conf, block, saved, timed>>
  BY DEF JobInv, Shape, Run, Train, checkpoints
<1>2. Before(r)
  BY DEF Before, Run, Train, Released
<1>3. /\ calls[r] = InitCalls(conf) /\ InitCalls(conf) \in Nat
      /\ block[r] = 1 /\ saved[r] = 1 .. conf.earlier /\ timed[r] = {}
  BY <1>1, <1>2, Prepared, CallFacts DEF Run, Train, Released, Preparing
<1>4. CASE pc'[r] \in {"train", "failed"}
  <2>1. conf.train /\ calls'[r] = InitCalls(conf)
    BY <1>1, <1>2, <1>3, <1>4, Prepared
       DEF Run, Train, Released, EndRun, Enter, Goto, Preparing, GenerateOnly, CheckpointOnly
  <2> QED
    BY <1>1, <1>3, <1>4, <2>1 DEF At, AtPlace, Preparing
<1>5. CASE EndRun(r)
  <2>1. ~Alone(conf)
    BY <1>1, <1>2, <1>5, Prepared DEF Run, Train, Released, EndRun, Enter, Goto, Alone, Preparing,
       GenerateOnly, CheckpointOnly
  <2>2. /\ conf.writes = 0 /\ conf.reads = 0 /\ conf.earlier = 0
        /\ LoadCalls(conf, conf.reads) = InitCalls(conf)
    BY <1>1, <2>1, ConfigurationFacts, EndFacts
  <2>3. /\ calls'[r] = LoadCalls(conf, conf.reads) + 1 /\ calls'[r] \in Nat
        /\ pc'[r] = (IF GenerateOnly THEN "finalize" ELSE "metrics")
        /\ block'[r] = LastBlock(conf) /\ timed'[r] = 1 .. conf.writes
        /\ saved'[r] = Own(conf, conf.writes)
    BY <1>1, <1>3, <1>5, <2>2 DEF EndRun, Enter, Goto, LastBlock, Own
  <2> QED
    BY <1>1, <2>3, EndInOrder DEF At, GenerateOnly
<1>6. CASE Run(r) /\ CheckpointOnly /\ conf.writes > 0 /\ Enter(r, "before_save")
  <2>1. Alone(conf) /\ 1 \in 1 .. conf.writes /\ SaveCalls(conf, 0) = InitCalls(conf)
    BY <1>1, <1>6, ConfigurationFacts, RoundFacts DEF CheckpointOnly, Alone
  <2>2. pc'[r] = "before_save" /\ calls'[r] = SaveCalls(conf, 1 - 1) + 1
    BY <1>1, <1>3, <1>6, <2>1 DEF Enter, Goto
  <2>3. saved'[r] = Own(conf, 1 - 1) /\ timed'[r] = 1 .. 1 - 1 /\ block'[r] = 1
    BY <1>1, <1>3 DEF Own
  <2> QED
    BY <1>1, <2>1, <2>2, <2>3 DEF At, AtPlace, Writing
<1>7. CASE Run(r) /\ CheckpointOnly /\ conf.writes = 0 /\ Goto(r, "count") /\ UNCHANGED calls
  <2>1. Alone(conf) /\ SaveCalls(conf, conf.writes) = InitCalls(conf)
    BY <1>1, <1>7, RoundFacts DEF CheckpointOnly, Alone
  <2>2. pc'[r] = "count" /\ calls'[r] = SaveCalls(conf, conf.writes)
    BY <1>1, <1>3, <1>7, <2>1 DEF Goto
  <2>3. saved'[r] = Own(conf, conf.writes) /\ timed'[r] = 1 .. conf.writes /\ block'[r] = 1
    BY <1>1, <1>3, <1>7 DEF Own
  <2> QED
    BY <1>1, <2>1, <2>2, <2>3 DEF At, AtPlace, Reading
<1>8. \/ pc'[r] \in {"train", "failed"} \/ EndRun(r)
      \/ Run(r) /\ CheckpointOnly /\ conf.writes > 0 /\ Enter(r, "before_save")
      \/ Run(r) /\ CheckpointOnly /\ conf.writes = 0 /\ Goto(r, "count") /\ UNCHANGED calls
  BY <1>1 DEF Run, Train, Goto
<1> QED
  BY <1>4, <1>5, <1>6, <1>7, <1>8

(* _checkpoint_write *)
LEMMA SavingAt ==
  ASSUME JobInv, NEW r \in Rank, pc[r] \in {"before_save", "save", "saved", "after_save"}
  PROVE  Writing(conf, pc[r], calls[r], block[r], saved[r]) /\ timed[r] = 1 .. block[r] - 1
<1>1. At(r)
  BY DEF JobInv, InOrder
<1> QED
  BY <1>1 DEF At, AtPlace, Preparing, Reading, Ending

(* One more checkpoint is saved, or loaded, in a round. *)
LEMMA OwnGrows ==
  ASSUME NEW c \in Configurations, NEW b \in Nat \ {0}
  PROVE  Own(c, b - 1) \cup {b} = Own(c, b) /\ (1 .. b - 1) \cup {b} = 1 .. b
  BY ConfigurationFacts DEF Own

(* The rounds of _checkpoint_write keep the program order. *)
LEMMA WritingNext ==
  ASSUME JobInv, NEW r \in Rank, RankStep(r), StartSave(r) \/ Save(r) \/ EndSave(r)
  PROVE  At(r)'
<1>1. /\ conf \in Configurations /\ conf' = conf
      /\ calls \in [Rank -> Nat] /\ pc \in [Rank -> Places]
      /\ block \in [Rank -> Nat \ {0}] /\ saved \in [Rank -> SUBSET Nat]
      /\ timed \in [Rank -> SUBSET Nat]
  BY OthersStay DEF JobInv, Shape
<1>2. /\ Writing(conf, pc[r], calls[r], block[r], saved[r])
      /\ timed[r] = 1 .. block[r] - 1
  BY SavingAt DEF StartSave, Save, EndSave, Released
<1>3. Alone(conf) /\ block[r] \in 1 .. conf.writes /\ conf.writes \in Nat
  BY <1>1, <1>2, ConfigurationFacts DEF Writing
<1>4. /\ SaveCalls(conf, block[r]) = SaveCalls(conf, block[r] - 1) + (IF conf.rankSync THEN 2 ELSE 1)
      /\ SaveCalls(conf, block[r] - 1) \in Nat
  BY <1>1, RoundFacts
<1>5. CASE StartSave(r)
  <2>1. pc'[r] = "save" /\ UNCHANGED <<calls, block, saved, timed>> /\ pc[r] = "before_save"
    BY <1>1, <1>5 DEF StartSave, Goto, Released, checkpoints
  <2> QED
    BY <1>1, <1>2, <2>1 DEF At, AtPlace, Writing
<1>6. CASE Save(r)
  <2>1. /\ UNCHANGED <<block, timed>> /\ pc[r] = "save"
        /\ saved'[r] = saved[r] \cup {block[r]}
        /\ \/ conf.rankSync /\ pc'[r] = "after_save" /\ calls'[r] = calls[r] + 1
           \/ ~conf.rankSync /\ pc'[r] = "saved" /\ calls'[r] = calls[r]
    BY <1>1, <1>6 DEF Save, Enter, Goto
  <2>2. saved[r] = Own(conf, block[r] - 1) /\ calls[r] = SaveCalls(conf, block[r] - 1) + 1
    BY <1>2, <2>1 DEF Writing
  <2>3. saved'[r] = Own(conf, block[r])
    BY <1>1, <2>1, <2>2, OwnGrows
  <2>4. Writing(conf, pc'[r], calls'[r], block[r], saved'[r])
    BY <1>3, <1>4, <2>1, <2>2, <2>3 DEF Writing
  <2> QED
    BY <1>1, <1>2, <2>1, <2>4 DEF At, AtPlace
<1>7. CASE EndSave(r)
  <2>1. /\ saved' = saved /\ timed'[r] = timed[r] \cup {block[r]}
        /\ pc[r] \in {"saved", "after_save"}
        /\ \/ /\ block[r] < conf.writes
              /\ pc'[r] = "before_save" /\ calls'[r] = calls[r] + 1 /\ block'[r] = block[r] + 1
           \/ /\ block[r] >= conf.writes
              /\ pc'[r] = "count" /\ calls'[r] = calls[r] /\ block'[r] = 1
    BY <1>1, <1>3, <1>7 DEF EndSave, Enter, Goto, Released
  <2>2. saved[r] = Own(conf, block[r]) /\ calls[r] = SaveCalls(conf, block[r])
    BY <1>2, <1>4, <2>1 DEF Writing
  <2>3. timed'[r] = 1 .. block[r]
    BY <1>1, <1>2, <2>1, OwnGrows
  <2>4. CASE block[r] < conf.writes
    <3>1. block'[r] - 1 = block[r] /\ block'[r] \in 1 .. conf.writes
      BY <1>3, <2>1, <2>4
    <3>2. Writing(conf, pc'[r], calls'[r], block'[r], saved'[r])
      BY <1>3, <2>1, <2>2, <2>4, <3>1 DEF Writing
    <3>3. timed'[r] = 1 .. block'[r] - 1
      BY <2>3, <3>1
    <3> QED
      BY <1>1, <3>2, <3>3 DEF At, AtPlace
  <2>5. CASE block[r] >= conf.writes
    <3>1. block[r] = conf.writes /\ pc'[r] = "count" /\ calls'[r] = calls[r] /\ block'[r] = 1
      BY <1>3, <2>1, <2>5
    <3>2. Reading(conf, pc'[r], calls'[r], block'[r])
      BY <1>3, <2>2, <3>1 DEF Reading
    <3> QED
      BY <1>1, <2>1, <2>2, <2>3, <3>1, <3>2 DEF At, AtPlace
  <2> QED
    BY <1>3, <2>4, <2>5
<1> QED
  BY <1>5, <1>6, <1>7

(* The end of the job *)
LEMMA EndingNext ==
  ASSUME JobInv, NEW r \in Rank, RankStep(r),
         ReduceMetrics(r) \/ Finalize(r) \/ StartDelete(r) \/ Delete(r) \/ Exit(r)
  PROVE  At(r)'
<1>1. /\ conf \in Configurations /\ conf' = conf /\ UNCHANGED <<block, saved, timed>>
      /\ calls \in [Rank -> Nat] /\ pc \in [Rank -> Places] /\ FinalCalls(conf) \in Nat
  BY OthersStay, CallFacts
     DEF JobInv, Shape, ReduceMetrics, Finalize, StartDelete, Delete, Exit, checkpoints
<1>2. At(r)
  BY DEF JobInv, InOrder
<1>3. /\ Ending(conf, pc[r], calls[r]) /\ block[r] = LastBlock(conf)
      /\ saved[r] = Own(conf, conf.writes) /\ timed[r] = 1 .. conf.writes
  BY <1>2 DEF At, AtPlace, Preparing, Writing, Reading, ReduceMetrics, Finalize, StartDelete,
     Delete, Exit, Released
<1>4. Stays(conf) <=> conf.keep \/ GenerateOnly
  BY DEF Stays, GenerateOnly
<1>5. Ending(conf, pc'[r], calls'[r])
  <2>1. CASE ReduceMetrics(r)
    BY <1>1, <1>3, <2>1 DEF ReduceMetrics, Released, Enter, Goto, Ending
  <2>2. CASE Finalize(r)
    BY <1>1, <1>3, <1>4, <2>2 DEF Finalize, Released, Enter, Goto, Ending
  <2>3. CASE StartDelete(r) \/ Delete(r) \/ Exit(r)
    BY <1>1, <1>3, <2>3 DEF StartDelete, Delete, Exit, Released, Enter, Goto, Ending
  <2> QED
    BY <2>1, <2>2, <2>3
<1> QED
  BY <1>1, <1>3, <1>5 DEF At, AtPlace

(* _checkpoint_read *)
LEMMA ReadingAt ==
  ASSUME JobInv, NEW r \in Rank, pc[r] \in {"count", "before_load", "load", "loaded", "after_load"}
  PROVE  /\ Reading(conf, pc[r], calls[r], block[r])
         /\ saved[r] = Own(conf, conf.writes) /\ timed[r] = 1 .. conf.writes
<1>1. At(r)
  BY DEF JobInv, InOrder
<1> QED
  BY <1>1 DEF At, AtPlace, Preparing, Writing, Ending

(* The checkpoints a rank counts are there: its own job has written them, or an
   earlier one has, for no rank has begun to load. *)
LEMMA EarlierOnly ==
  ASSUME JobInv, NEW r \in Rank, pc[r] = "count", conf.writes = 0
  PROVE  CheckpointFolders \subseteq 1 .. conf.earlier
<1>1. conf \in Configurations /\ calls \in [Rank -> Nat]
  BY DEF JobInv, Shape
<1>2. /\ calls[r] = SaveCalls(conf, conf.writes) /\ SaveCalls(conf, conf.writes) \in Nat
      /\ conf.earlier \in Nat
  <2>1. Reading(conf, pc[r], calls[r], block[r]) /\ conf.writes \in Nat
    BY <1>1, ReadingAt, ConfigurationFacts
  <2> QED
    BY <1>1, <2>1, CallFacts, ConfigurationFacts DEF Reading
<1>3. ASSUME NEW q \in Rank PROVE saved[q] = 1 .. conf.earlier /\ pc[q] \notin {"save", "load"}
  <2>1. At(q) /\ calls[r] <= calls[q] /\ (pc[q] \notin Sites => calls[q] <= calls[r])
    BY DEF JobInv, InOrder, Waiting, Sites, Barriers, Allreduces
  <2>2. saved[q] = 1 .. conf.earlier
    BY <1>2, <2>1 DEF At, AtPlace, Writing, Own
  <2>3. pc[q] # "save"
    BY <2>1 DEF At, AtPlace, Preparing, Writing, Reading, Ending
  <2>4. ASSUME pc[q] = "load" PROVE FALSE
    <3>1. block[q] \in 1 .. conf.reads /\ calls[q] = LoadCalls(conf, block[q] - 1) + 1
      BY <2>4, ReadingAt DEF Reading
    <3>2. LoadCalls(conf, block[q] - 1) \in Nat
          /\ LoadCalls(conf, block[q] - 1) >= SaveCalls(conf, conf.writes)
      BY <1>1, <3>1, CallFacts, ConfigurationFacts
    <3>3. calls[q] <= calls[r]
      BY <2>1, <2>4 DEF Sites, Barriers, Allreduces
    <3> QED
      BY <1>2, <3>1, <3>2, <3>3
  <2> QED
    BY <2>2, <2>3, <2>4
<1> QED
  BY <1>3 DEF CheckpointFolders

(* A rank that counts enough checkpoints finds all those it is to load. *)
LEMMA CountedAreThere ==
  ASSUME JobInv, NEW r \in Rank, pc[r] = "count", ~(Cardinality(CheckpointFolders) < conf.reads)
  PROVE  1 .. conf.reads \subseteq Own(conf, conf.writes)
<1>1. /\ conf \in Configurations /\ conf.writes \in Nat /\ conf.reads \in Nat
      /\ conf.earlier \in Nat /\ (conf.writes > 0 => conf.reads <= conf.writes)
  BY ConfigurationFacts DEF JobInv, Shape
<1>2. CASE conf.writes > 0
  BY <1>1, <1>2 DEF Own
<1>3. CASE conf.writes = 0
  <2>1. CheckpointFolders \subseteq 1 .. conf.earlier
    BY <1>3, EarlierOnly
  <2>2. IsFiniteSet(1 .. conf.earlier) /\ Cardinality(1 .. conf.earlier) = conf.earlier
    <3>1. 1 \in Int /\ conf.earlier \in Int
      BY <1>1
    <3>2. /\ IsFiniteSet(1 .. conf.earlier)
          /\ Cardinality(1 .. conf.earlier) = IF 1 > conf.earlier THEN 0 ELSE conf.earlier - 1 + 1
      BY <3>1, FS_Interval, Zenon
    <3> QED
      BY <1>1, <3>2
  <2>3. IsFiniteSet(CheckpointFolders) /\ Cardinality(CheckpointFolders) <= conf.earlier
    BY <2>1, <2>2, FS_Subset
  <2>4. Cardinality(CheckpointFolders) \in Nat
    BY <2>3, FS_CardinalityType
  <2>5. conf.reads <= conf.earlier
    BY <1>1, <2>3, <2>4
  <2> QED
    BY <1>1, <2>5 DEF Own
<1> QED
  BY <1>1, <1>2, <1>3

(* The rounds of _checkpoint_read keep the program order. *)
LEMMA ReadingNext ==
  ASSUME JobInv, NEW r \in Rank, RankStep(r),
         CountCheckpoints(r) \/ StartLoad(r) \/ Load(r) \/ EndLoad(r)
  PROVE  At(r)'
<1>1. /\ conf \in Configurations /\ conf' = conf
      /\ calls \in [Rank -> Nat] /\ pc \in [Rank -> Places]
      /\ block \in [Rank -> Nat \ {0}] /\ conf.reads \in Nat
      /\ UNCHANGED <<saved, timed>>
  BY OthersStay, ConfigurationFacts
     DEF JobInv, Shape, CountCheckpoints, StartLoad, Load, EndLoad, checkpoints
<1>2. /\ Reading(conf, pc[r], calls[r], block[r])
      /\ saved[r] = Own(conf, conf.writes) /\ timed[r] = 1 .. conf.writes
  BY ReadingAt DEF CountCheckpoints, StartLoad, Load, EndLoad, Released
<1>3. Alone(conf) /\ ~GenerateOnly
  BY <1>2 DEF Reading, Alone, GenerateOnly
<1>4. /\ LoadCalls(conf, block[r]) = LoadCalls(conf, block[r] - 1) + (IF conf.rankSync THEN 2 ELSE 1)
      /\ LoadCalls(conf, block[r] - 1) \in Nat
      /\ LoadCalls(conf, 0) = SaveCalls(conf, conf.writes)
      /\ SaveCalls(conf, conf.writes) \in Nat
  BY <1>1, RoundFacts, CallFacts, ConfigurationFacts
<1>5. ASSUME Reading(conf, pc'[r], calls'[r], block'[r]) PROVE At(r)'
  BY <1>1, <1>2, <1>5 DEF At, AtPlace
<1>6. ASSUME EndRun(r), calls[r] = LoadCalls(conf, conf.reads), block'[r] = LastBlock(conf)
      PROVE  At(r)'
  <2>1. /\ pc'[r] = (IF conf.generate /\ ~conf.train /\ ~conf.checkpoint THEN "finalize" ELSE "metrics")
        /\ calls'[r] = LoadCalls(conf, conf.reads) + 1 /\ calls'[r] \in Nat
    BY <1>1, <1>6 DEF EndRun, Enter, Goto, GenerateOnly
  <2> QED
    BY <1>1, <1>2, <1>6, <2>1, EndInOrder DEF At
<1>7. CASE CountCheckpoints(r)
  <2>1. /\ pc[r] = "count" /\ UNCHANGED block
        /\ block[r] = 1 /\ calls[r] = LoadCalls(conf, 0)
    BY <1>2, <1>4, <1>7 DEF CountCheckpoints, Reading, checkpoints
  <2>2. CASE pc'[r] = "failed" /\ UNCHANGED calls
    BY <1>3, <1>4, <1>5, <2>1, <2>2 DEF Reading
  <2>3. CASE ~(Cardinality(CheckpointFolders) < conf.reads) /\ conf.reads > 0
             /\ Enter(r, "before_load")
    <3>1. pc'[r] = "before_load" /\ calls'[r] = LoadCalls(conf, block'[r] - 1) + 1
      BY <1>1, <2>1, <2>3 DEF Enter, Goto
    <3>2. block'[r] \in 1 .. conf.reads /\ 1 .. conf.reads \subseteq Own(conf, conf.writes)
      BY <1>1, <2>1, <2>3, CountedAreThere
    <3> QED
      BY <1>3, <1>5, <3>1, <3>2 DEF Reading
  <2>4. CASE conf.reads = 0 /\ EndRun(r)
    BY <1>6, <2>1, <2>4 DEF LastBlock
  <2> QED
    BY <1>1, <1>7, <2>2, <2>3, <2>4 DEF CountCheckpoints, Goto
<1>8. CASE StartLoad(r) \/ Load(r)
  <2>1. UNCHANGED block
    BY <1>8 DEF StartLoad, Load, checkpoints
  <2>2. /\ block[r] \in 1 .. conf.reads /\ 1 .. conf.reads \subseteq Own(conf, conf.writes)
        /\ calls[r] = LoadCalls(conf, block[r] - 1) + 1
    BY <1>2, <1>8 DEF Reading, StartLoad, Load, Released
  <2>3. \/ pc'[r] \in {"load", "failed"} /\ calls'[r] = calls[r]
        \/ conf.rankSync /\ pc'[r] = "after_load" /\ calls'[r] = calls[r] + 1
        \/ ~conf.rankSync /\ pc'[r] = "loaded" /\ calls'[r] = calls[r]
    BY <1>1, <1>8 DEF StartLoad, Load, Enter, Goto
  <2> QED
    BY <1>3, <1>4, <1>5, <2>1, <2>2, <2>3 DEF Reading
<1>9. CASE EndLoad(r)
  <2>1. /\ block[r] \in 1 .. conf.reads /\ 1 .. conf.reads \subseteq Own(conf, conf.writes)
        /\ calls[r] = LoadCalls(conf, block[r])
    BY <1>2, <1>4, <1>9 DEF Reading, EndLoad, Released
  <2>2. CASE block[r] < conf.reads
    <3>1. /\ pc'[r] = "before_load" /\ calls'[r] = LoadCalls(conf, block'[r] - 1) + 1
          /\ block'[r] \in 1 .. conf.reads
      BY <1>1, <1>9, <2>1, <2>2 DEF EndLoad, Enter, Goto
    <3> QED
      BY <1>3, <1>5, <2>1, <3>1 DEF Reading
  <2>3. CASE block[r] = conf.reads
    <3>1. EndRun(r) /\ block'[r] = LastBlock(conf)
      BY <1>1, <1>9, <2>1, <2>3 DEF EndLoad, LastBlock
    <3> QED
      BY <1>6, <2>1, <2>3, <3>1
  <2> QED
    BY <1>1, <2>1, <2>2, <2>3
<1> QED
  BY <1>7, <1>8, <1>9

(* The steps keep the ranks within one collective of each other. *)
LEMMA StepCalls ==
  ASSUME JobInv, NEW r \in Rank, RankStep(r)
  PROVE  /\ \A q \in Rank : calls[r] <= calls[q]
         /\ \/ calls'[r] = calls[r]
            \/ calls'[r] = calls[r] + 1 /\ pc'[r] \in Sites
<1>1. calls \in [Rank -> Nat] /\ pc \in [Rank -> Places]
  BY DEF JobInv, Shape
<1>2. ASSUME NEW site, Released(r, site) PROVE \A q \in Rank : calls[r] <= calls[q]
  BY <1>1, <1>2 DEF Released
<1>3. ASSUME pc[r] \notin Sites PROVE \A q \in Rank : calls[r] <= calls[q]
  BY <1>3 DEF JobInv, Waiting
<1>4. \A q \in Rank : calls[r] <= calls[q]
  <2>1. \/ \E site \in Sites : Released(r, site)
        \/ pc[r] \notin Sites
    BY DEF RankStep, Begin, EndBegin, MakeFolders, StartWriting, WriteFile, EndWriting,
       SettleGuard, WakeUp, Settled, StartListing, ListFiles, BuildMechanism, Run, Train,
       StartSave, Save, EndSave, CountCheckpoints, StartLoad, Load, EndLoad, ReduceMetrics,
       Finalize, StartDelete, Delete, Exit, Sites, Barriers, Allreduces
  <2> QED
    BY <1>2, <1>3, <2>1
<1>5. \/ UNCHANGED calls
      \/ \E site \in Sites : Enter(r, site)
  BY DEF RankStep, Begin, EndBegin, MakeFolders, StartWriting, WriteFile, EndWriting,
     SettleGuard, WakeUp, Settled, StartListing, ListFiles, BuildMechanism, Run, Train,
     StartSave, Save, EndSave, CountCheckpoints, StartLoad, Load, EndLoad, ReduceMetrics,
     Finalize, StartDelete, Delete, Exit, EndRun, Sites, Barriers, Allreduces
<1>6. \/ calls'[r] = calls[r]
      \/ calls'[r] = calls[r] + 1 /\ pc'[r] \in Sites
  BY <1>1, <1>5 DEF Enter, Goto
<1> QED
  BY <1>4, <1>6

(* A rank leaves a collective only when every rank has called it. *)
LEMMA LeftSites ==
  ASSUME JobInv, NEW r \in Rank, RankStep(r) PROVE Waiting'
<1>1. /\ calls \in [Rank -> Nat] /\ calls' \in [Rank -> Nat]
  BY ShapeNext DEF JobInv, Shape, Next
<1>2. \A q \in Rank : q # r => pc'[q] = pc[q] /\ calls'[q] = calls[q]
  BY OthersStay DEF JobInv
<1>3. /\ \A q \in Rank : calls[r] <= calls[q]
      /\ \/ calls'[r] = calls[r]
         \/ calls'[r] = calls[r] + 1 /\ pc'[r] \in Sites
  BY StepCalls
<1>4. ASSUME NEW p \in Rank, NEW q \in Rank
      PROVE  calls'[p] <= calls'[q] + 1 /\ (pc'[p] \notin Sites => calls'[p] <= calls'[q])
  <2>1. calls[p] <= calls[q] + 1 /\ (pc[p] \notin Sites => calls[p] <= calls[q])
    BY DEF JobInv, Waiting
  <2> QED
    BY <1>1, <1>2, <1>3, <2>1
<1>5. Sites' = Sites
  BY DEF Sites, Barriers, Allreduces
<1> QED
  BY <1>4, <1>5 DEF Waiting

(* Every step of the job preserves the program order. *)
LEMMA JobInvNext == JobInv /\ [Next]_vars => JobInv'
<1> SUFFICES ASSUME JobInv, [Next]_vars PROVE JobInv'
  OBVIOUS
<1>1. Shape'
  BY ShapeNext DEF JobInv
<1>2. ASSUME NEW r \in Rank, RankStep(r) PROVE InOrder' /\ Waiting'
  <2>1. At(r)'
    BY <1>2, PreparingNext, RunNext, WritingNext, ReadingNext, EndingNext DEF RankStep
  <2> QED
    BY <1>2, <2>1, StepInOrder, LeftSites
<1>3. CASE Propagate
  BY <1>1, <1>3 DEF Propagate, JobInv, InOrder, Waiting, At, checkpoints
<1>4. CASE UNCHANGED vars
  BY <1>1, <1>4 DEF vars, JobInv, InOrder, Waiting, At
<1> QED
  BY <1>1, <1>2, <1>3, <1>4 DEF JobInv, Next, Stopped

(* Every rank is where its calls and the workload say, and no rank is ahead of
   another by more than the collective it waits in, in every reachable state. *)
THEOREM JobInvariant == Spec => []JobInv
<1>1. Init => JobInv
  BY ShapeInit, OrderInit DEF JobInv
<1> QED
  BY <1>1, JobInvNext, PTL DEF Spec

(* The program order implies the type invariant. *)
LEMMA TypesOfJob == JobInv => TypeOK
<1> SUFFICES ASSUME JobInv PROVE TypeOK
  OBVIOUS
<1>1. /\ conf \in Configurations /\ MaxCheckpoints \in Nat
      /\ conf.writes \in 0 .. MaxCheckpoints /\ conf.reads \in 0 .. MaxCheckpoints
      /\ conf.earlier \in 0 .. MaxCheckpoints
  BY JobAssumption, ConfigurationFacts DEF JobInv, Shape
<1>2. ASSUME NEW n \in 0 .. MaxCheckpoints
      PROVE  Own(conf, n) \subseteq 1 .. MaxCheckpoints /\ 1 .. n \subseteq 1 .. MaxCheckpoints
  BY <1>1 DEF Own
<1>3. ASSUME NEW r \in Rank
      PROVE  /\ block[r] \in 1 .. MaxCheckpoints \cup {1}
             /\ saved[r] \subseteq 1 .. MaxCheckpoints /\ timed[r] \subseteq 1 .. MaxCheckpoints
  <2>1. At(r)
    BY DEF JobInv, InOrder
  <2>2. CASE block[r] = 1 /\ saved[r] = 1 .. conf.earlier /\ timed[r] = {}
    BY <1>1, <1>2, <2>2
  <2>3. CASE Writing(conf, pc[r], calls[r], block[r], saved[r]) /\ timed[r] = 1 .. block[r] - 1
    <3>1. block[r] \in 1 .. conf.writes /\ block[r] \in 0 .. MaxCheckpoints
          /\ block[r] - 1 \in 0 .. MaxCheckpoints
      BY <1>1, <2>3 DEF Writing
    <3>2. saved[r] = Own(conf, block[r] - 1) \/ saved[r] = Own(conf, block[r])
      BY <2>3 DEF Writing
    <3> QED
      BY <1>1, <1>2, <2>3, <3>1, <3>2
  <2>4. CASE Reading(conf, pc[r], calls[r], block[r]) /\ saved[r] = Own(conf, conf.writes)
             /\ timed[r] = 1 .. conf.writes
    BY <1>1, <1>2, <2>4 DEF Reading
  <2>5. CASE block[r] = LastBlock(conf) /\ saved[r] = Own(conf, conf.writes)
             /\ timed[r] = 1 .. conf.writes
    BY <1>1, <1>2, <2>5 DEF LastBlock
  <2> QED
    BY <2>1, <2>2, <2>3, <2>4, <2>5 DEF At, AtPlace
<1> QED
  BY <1>3 DEF JobInv, Shape, TypeOK

(* TypeOK of Job holds in every reachable state. *)
THEOREM TypeInvariant == Spec => []TypeOK
  BY TypesOfJob, JobInvariant, PTL

-------------------------------------------------------------------------------
(* Checkpoints *)

(* A part of the job lies between two numbers of calls. *)
LEMMA PartsOfCalls ==
  ASSUME NEW c \in Configurations, NEW p, NEW n \in Nat, NEW b, NEW sv
  PROVE  /\ Preparing(c, p, n) => n <= InitCalls(c)
         /\ Writing(c, p, n, b, sv) => n > InitCalls(c) /\ n <= SaveCalls(c, b)
                                       /\ n <= SaveCalls(c, c.writes)
         /\ Reading(c, p, n, b) => n >= SaveCalls(c, c.writes) /\ n <= LoadCalls(c, c.reads)
         /\ Ending(c, p, n) => n > LoadCalls(c, c.reads)
<1>1. /\ c.writes \in Nat /\ c.reads \in Nat /\ c.rankSync \in BOOLEAN
      /\ ListCalls(c) \in 2 .. 5 /\ (c.generate => ListCalls(c) >= 4)
      /\ InitCalls(c) \in Nat /\ InitCalls(c) >= ListCalls(c) + 1
      /\ LoadCalls(c, c.reads) \in Nat /\ SaveCalls(c, c.writes) \in Nat
      /\ LoadCalls(c, c.reads) >= SaveCalls(c, c.writes)
      /\ FinalCalls(c) \in Nat
  BY ConfigurationFacts, CallFacts
<1>2. Preparing(c, p, n) => n <= InitCalls(c)
  BY <1>1 DEF Preparing, InitCalls
<1>3. Writing(c, p, n, b, sv) => n > InitCalls(c) /\ n <= SaveCalls(c, b)
                                 /\ n <= SaveCalls(c, c.writes)
  BY <1>1 DEF Writing, SaveCalls, Rounds
<1>4. Reading(c, p, n, b) => n >= SaveCalls(c, c.writes) /\ n <= LoadCalls(c, c.reads)
  BY <1>1 DEF Reading, LoadCalls, Rounds
<1>5. Ending(c, p, n) => n > LoadCalls(c, c.reads)
  BY <1>1 DEF Ending, FinalCalls
<1> QED
  BY <1>2, <1>3, <1>4, <1>5

(* What a rank has called tells what it has saved. *)
LEMMA SavedByCalls ==
  ASSUME JobInv, NEW q \in Rank, NEW b \in 0 .. conf.writes,
         calls[q] > SaveCalls(conf, b) \/ (conf.rankSync /\ calls[q] >= SaveCalls(conf, b))
  PROVE  1 .. b \subseteq saved[q]
<1>1. /\ conf \in Configurations /\ calls[q] \in Nat /\ conf.writes \in Nat
      /\ conf.rankSync \in BOOLEAN /\ InitCalls(conf) \in Nat
  BY ConfigurationFacts, CallFacts DEF JobInv, Shape
<1>2. At(q)
  BY DEF JobInv, InOrder
<1>3. ASSUME saved[q] = Own(conf, conf.writes) PROVE 1 .. b \subseteq saved[q]
  BY <1>1, <1>3 DEF Own
<1>4. CASE Preparing(conf, pc[q], calls[q])
  <2>1. calls[q] <= InitCalls(conf)
    BY <1>1, <1>4, PartsOfCalls
  <2>2. b = 0
    BY <1>1, <2>1 DEF SaveCalls, Rounds
  <2> QED
    BY <2>2
<1>5. CASE Writing(conf, pc[q], calls[q], block[q], saved[q])
  <2>1. block[q] \in 1 .. conf.writes /\ calls[q] <= SaveCalls(conf, block[q])
    BY <1>1, <1>5, PartsOfCalls DEF Writing
  <2>2. CASE b < block[q]
    <3>1. saved[q] = Own(conf, block[q] - 1) \/ saved[q] = Own(conf, block[q])
      BY <1>5 DEF Writing
    <3> QED
      BY <1>1, <2>1, <2>2, <3>1 DEF Own
  <2>3. CASE b >= block[q]
    <3>1. b = block[q] /\ conf.rankSync /\ calls[q] = SaveCalls(conf, b)
      BY <1>1, <2>1, <2>3 DEF SaveCalls, Rounds
    <3>2. SaveCalls(conf, b) = SaveCalls(conf, b - 1) + 2 /\ SaveCalls(conf, b - 1) \in Nat
      BY <1>1, <2>1, <3>1, RoundFacts
    <3>3. saved[q] = Own(conf, b)
      BY <1>1, <1>5, <3>1, <3>2 DEF Writing
    <3> QED
      BY <3>3 DEF Own
  <2> QED
    BY <1>1, <2>1, <2>2, <2>3
<1> QED
  BY <1>2, <1>3, <1>4, <1>5 DEF At, AtPlace

(* A checkpoint is saved or loaded only when every rank has its part of those
   before; with rank_sync a recorded time covers the saving of every rank. *)
THEOREM CheckpointOrder == Spec => []CheckpointsInOrder
<1>1. JobInv => CheckpointsInOrder
  <2> SUFFICES ASSUME JobInv, NEW r \in Rank, NEW q \in Rank
               PROVE  /\ pc[r] = "save" => 1 .. block[r] - 1 \subseteq saved[q]
                      /\ pc[r] = "load" => 1 .. block[r] \subseteq saved[q]
                      /\ conf.rankSync => timed[r] \subseteq saved[q]
    BY DEF CheckpointsInOrder
  <2>1. /\ conf \in Configurations /\ calls[q] \in Nat /\ calls[r] \in Nat
        /\ conf.writes \in Nat /\ conf.reads \in Nat /\ conf.earlier \in Nat
        /\ SaveCalls(conf, conf.writes) \in Nat
        /\ LoadCalls(conf, conf.reads) >= SaveCalls(conf, conf.writes)
        /\ LoadCalls(conf, conf.reads) \in Nat
    BY ConfigurationFacts, CallFacts DEF JobInv, Shape
  <2>2. calls[r] <= calls[q] + 1 /\ (pc[r] \notin Sites => calls[r] <= calls[q])
    BY DEF JobInv, Waiting
  <2>3. ASSUME pc[r] = "save" PROVE 1 .. block[r] - 1 \subseteq saved[q]
    <3>1. block[r] \in 1 .. conf.writes /\ calls[r] = SaveCalls(conf, block[r] - 1) + 1
      BY <2>3, SavingAt DEF Writing
    <3>2. calls[r] <= calls[q]
      BY <2>2, <2>3 DEF Sites, Barriers, Allreduces
    <3>3. block[r] - 1 \in 0 .. conf.writes /\ SaveCalls(conf, block[r] - 1) \in Nat
      BY <2>1, <3>1, RoundFacts
    <3>4. calls[q] > SaveCalls(conf, block[r] - 1)
      BY <2>1, <3>1, <3>2, <3>3
    <3> QED
      BY <3>3, <3>4, SavedByCalls
  <2>4. ASSUME pc[r] = "load" PROVE 1 .. block[r] \subseteq saved[q]
    <3>1. /\ block[r] \in 1 .. conf.reads /\ 1 .. conf.reads \subseteq Own(conf, conf.writes)
          /\ calls[r] = LoadCalls(conf, block[r] - 1) + 1
      BY <2>4, ReadingAt DEF Reading
    <3>2. calls[r] <= calls[q]
      BY <2>2, <2>4 DEF Sites, Barriers, Allreduces
    <3>3. LoadCalls(conf, block[r] - 1) \in Nat
          /\ LoadCalls(conf, block[r] - 1) >= SaveCalls(conf, conf.writes)
      BY <2>1, <3>1, CallFacts
    <3>4. calls[q] > SaveCalls(conf, conf.writes)
      BY <2>1, <3>1, <3>2, <3>3
    <3>5. At(q) /\ ~Preparing(conf, pc[q], calls[q])
          /\ ~Writing(conf, pc[q], calls[q], block[q], saved[q])
      <4>1. SaveCalls(conf, conf.writes) >= InitCalls(conf) /\ InitCalls(conf) \in Nat
        BY <2>1, CallFacts
      <4>2. At(q)
        BY DEF JobInv, InOrder
      <4>3. ~Preparing(conf, pc[q], calls[q])
        BY <2>1, <3>4, <4>1, PartsOfCalls
      <4>4. ~Writing(conf, pc[q], calls[q], block[q], saved[q])
        <5>1. Writing(conf, pc[q], calls[q], block[q], saved[q])
              => calls[q] <= SaveCalls(conf, conf.writes)
          BY <2>1, PartsOfCalls, Zenon
        <5> QED
          BY <2>1, <3>4, <5>1
      <4> QED
        BY <4>2, <4>3, <4>4
    <3>6. saved[q] = Own(conf, conf.writes)
      BY <3>5 DEF At, AtPlace
    <3> QED
      BY <2>1, <3>1, <3>6
  <2>5. ASSUME conf.rankSync PROVE timed[r] \subseteq saved[q]
    <3>1. At(r)
      BY DEF JobInv, InOrder
    <3>2. CASE Writing(conf, pc[r], calls[r], block[r], saved[r]) /\ timed[r] = 1 .. block[r] - 1
      <4>1. /\ block[r] \in 1 .. conf.writes /\ block[r] \in Nat \ {0}
            /\ calls[r] = SaveCalls(conf, block[r] - 1) + 1
                 \/ calls[r] = SaveCalls(conf, block[r] - 1) + 2
        BY <2>1, <3>2 DEF Writing
      <4>2. block[r] - 1 \in 0 .. conf.writes /\ SaveCalls(conf, block[r] - 1) \in Nat
        BY <2>1, <4>1, RoundFacts
      <4>3. calls[q] >= SaveCalls(conf, block[r] - 1)
        BY <2>1, <2>2, <4>1, <4>2
      <4> QED
        BY <2>5, <3>2, <4>2, <4>3, SavedByCalls
    <3>3. CASE timed[r] = 1 .. conf.writes
               /\ (Reading(conf, pc[r], calls[r], block[r]) \/ Ending(conf, pc[r], calls[r]))
      <4>1. calls[q] >= SaveCalls(conf, conf.writes)
        <5>1. CASE calls[r] > SaveCalls(conf, conf.writes)
          BY <2>1, <2>2, <5>1
        <5>2. CASE calls[r] = SaveCalls(conf, conf.writes)
          <6>1. pc[r] \notin Sites
            <7>1. ~Ending(conf, pc[r], calls[r])
              BY <2>1, <5>2, PartsOfCalls
            <7>2. ASSUME block[r] \in 1 .. conf.reads
                  PROVE  /\ LoadCalls(conf, block[r] - 1) >= SaveCalls(conf, conf.writes)
                         /\ LoadCalls(conf, block[r] - 1) \in Nat
              <8>1. block[r] - 1 \in Nat
                BY <2>1, <7>2
              <8> QED
                BY <2>1, <8>1, CallFacts
            <7> QED
              BY <2>1, <3>3, <5>2, <7>1, <7>2 DEF Reading, Sites, Barriers, Allreduces
          <6> QED
            BY <2>1, <2>2, <5>2, <6>1
        <5>3. calls[r] >= SaveCalls(conf, conf.writes)
          <6>1. /\ Reading(conf, pc[r], calls[r], block[r]) => calls[r] >= SaveCalls(conf, conf.writes)
                /\ Ending(conf, pc[r], calls[r]) => calls[r] > LoadCalls(conf, conf.reads)
            BY <2>1, PartsOfCalls, Zenon
          <6> QED
            BY <2>1, <3>3, <6>1
        <5> QED
          BY <2>1, <5>1, <5>2, <5>3
      <4>2. conf.writes \in 0 .. conf.writes
        BY <2>1
      <4> QED
        BY <2>5, <3>3, <4>1, <4>2, SavedByCalls
    <3> QED
      BY <3>1, <3>2, <3>3 DEF At, AtPlace
  <2> QED
    BY <2>3, <2>4, <2>5
<1> QED
  BY <1>1, JobInvariant, PTL

(* The places of one part that call a collective are told apart by their calls. *)
LEMMA PreparingAgree ==
  ASSUME NEW c \in Configurations, NEW n \in Nat, NEW p \in Sites, NEW s \in Sites,
         Preparing(c, p, n), Preparing(c, s, n)
  PROVE  p = s
<1>1. ListCalls(c) \in Nat /\ ListCalls(c) >= 2
  BY CallFacts
<1>2. p \notin {"init", "make_folders", "write", "sleep", "list", "failed", "train"}
      /\ s \notin {"init", "make_folders", "write", "sleep", "list", "failed", "train"}
  BY DEF Sites, Barriers, Allreduces
<1>3. InitCalls(c) = ListCalls(c) + (IF c.checkpoint THEN 3 ELSE 1)
  BY DEF InitCalls
<1>4. ListCalls(c) = 2 + (IF c.generate THEN (IF c.settle /\ c.object THEN 3 ELSE 2) ELSE 0)
  BY DEF ListCalls
<1> QED
  BY <1>1, <1>2, <1>3, <1>4, SMTT(60) DEF Preparing

(* The places of _checkpoint_write, and their rounds, are told apart so too. *)
LEMMA WritingAgree ==
  ASSUME NEW c \in Configurations, NEW n \in Nat, NEW p \in Sites, NEW s \in Sites,
         NEW b, NEW d, NEW sv, NEW sw, Writing(c, p, n, b, sv), Writing(c, s, n, d, sw)
  PROVE  p = s /\ b = d
<1>1. /\ c.writes \in Nat /\ b \in 1 .. c.writes /\ d \in 1 .. c.writes
      /\ InitCalls(c) \in Nat
  BY ConfigurationFacts, CallFacts DEF Writing
<1>2. p \notin {"save", "saved"} /\ s \notin {"save", "saved"}
  BY DEF Sites, Barriers, Allreduces
<1>3. /\ \/ p = "before_save" /\ n = SaveCalls(c, b - 1) + 1
         \/ c.rankSync /\ p = "after_save" /\ n = SaveCalls(c, b - 1) + 2
      /\ \/ s = "before_save" /\ n = SaveCalls(c, d - 1) + 1
         \/ c.rankSync /\ s = "after_save" /\ n = SaveCalls(c, d - 1) + 2
  BY <1>2 DEF Writing
<1> QED
  BY <1>1, <1>3 DEF SaveCalls, Rounds

(* So are those of _checkpoint_read, *)
LEMMA ReadingAgree ==
  ASSUME NEW c \in Configurations, NEW n \in Nat, NEW p \in Sites, NEW s \in Sites,
         NEW b, NEW d, Reading(c, p, n, b), Reading(c, s, n, d)
  PROVE  p = s /\ b = d
<1>1. p \notin {"count", "failed", "load", "loaded"} /\ s \notin {"count", "failed", "load", "loaded"}
  BY DEF Sites, Barriers, Allreduces
<1>2. /\ c.reads \in Nat /\ b \in 1 .. c.reads /\ d \in 1 .. c.reads
      /\ SaveCalls(c, c.writes) \in Nat
  BY <1>1, ConfigurationFacts, CallFacts DEF Reading
<1>3. /\ \/ p = "before_load" /\ n = LoadCalls(c, b - 1) + 1
         \/ c.rankSync /\ p = "after_load" /\ n = LoadCalls(c, b - 1) + 2
      /\ \/ s = "before_load" /\ n = LoadCalls(c, d - 1) + 1
         \/ c.rankSync /\ s = "after_load" /\ n = LoadCalls(c, d - 1) + 2
  BY <1>1 DEF Reading
<1> QED
  BY <1>2, <1>3 DEF LoadCalls, Rounds

(* and those of the end of the job. *)
LEMMA EndingAgree ==
  ASSUME NEW c \in Configurations, NEW n \in Nat, NEW p \in Sites, NEW s \in Sites,
         Ending(c, p, n), Ending(c, s, n)
  PROVE  p = s
<1>1. FinalCalls(c) \in Nat
  BY CallFacts
<1>2. p \notin {"deleting", "done"} /\ s \notin {"deleting", "done"}
  BY DEF Sites, Barriers, Allreduces
<1> QED
  BY <1>1, <1>2 DEF Ending

(* Ranks that wait in one collective are at the same line and round. *)
LEMMA SitesAgree == JobInv => CollectivesAgree
<1> SUFFICES ASSUME JobInv, NEW r \in Rank, NEW q \in Rank, pc[r] \in Sites, pc[q] \in Sites,
                    calls[r] = calls[q]
             PROVE  pc[r] = pc[q] /\ block[r] = block[q]
  BY DEF CollectivesAgree
<1>1. /\ conf \in Configurations /\ calls[r] \in Nat /\ conf.writes \in Nat
      /\ conf.reads \in Nat /\ InitCalls(conf) \in Nat
      /\ SaveCalls(conf, conf.writes) \in Nat /\ LoadCalls(conf, conf.reads) \in Nat
      /\ SaveCalls(conf, conf.writes) >= InitCalls(conf)
      /\ LoadCalls(conf, conf.reads) >= SaveCalls(conf, conf.writes)
  BY ConfigurationFacts, CallFacts DEF JobInv, Shape
<1> DEFINE n == calls[r]
           First(x)  == Preparing(conf, pc[x], n) /\ block[x] = 1
           Second(x) == Writing(conf, pc[x], n, block[x], saved[x])
           Third(x)  == Reading(conf, pc[x], n, block[x])
           Fourth(x) == Ending(conf, pc[x], n) /\ block[x] = LastBlock(conf)
<1>2. ASSUME NEW x \in {r, q} PROVE First(x) \/ Second(x) \/ Third(x) \/ Fourth(x)
  <2>1. At(x) /\ calls[x] = n
    BY DEF JobInv, InOrder
  <2> QED
    BY <2>1 DEF At, AtPlace
<1>3. ASSUME NEW x \in {r, q}
      PROVE  /\ First(x) => n <= InitCalls(conf)
             /\ Second(x) => n > InitCalls(conf) /\ n <= SaveCalls(conf, conf.writes)
             /\ Third(x) => n > SaveCalls(conf, conf.writes) /\ n <= LoadCalls(conf, conf.reads)
             /\ Fourth(x) => n > LoadCalls(conf, conf.reads)
  <2>1. First(x) => n <= InitCalls(conf)
    BY <1>1, PartsOfCalls, Zenon
  <2>2. Second(x) => n > InitCalls(conf) /\ n <= SaveCalls(conf, conf.writes)
    BY <1>1, PartsOfCalls, Zenon
  <2>3. Third(x) => n > SaveCalls(conf, conf.writes)
    <3>1. ASSUME Third(x) PROVE n > SaveCalls(conf, conf.writes)
      <4>1. block[x] \in 1 .. conf.reads /\ n > LoadCalls(conf, block[x] - 1)
            /\ LoadCalls(conf, block[x] - 1) \in Nat
            /\ LoadCalls(conf, block[x] - 1) >= SaveCalls(conf, conf.writes)
        <5>1. pc[x] \notin {"count", "failed", "load", "loaded"}
          BY DEF Sites, Barriers, Allreduces
        <5>2. block[x] \in 1 .. conf.reads
          BY <3>1, <5>1 DEF Reading
        <5>3. /\ LoadCalls(conf, block[x] - 1) \in Nat
              /\ LoadCalls(conf, block[x] - 1) >= SaveCalls(conf, conf.writes)
          <6>1. block[x] - 1 \in Nat
            BY <1>1, <5>2
          <6> QED
            BY <1>1, <6>1, CallFacts
        <5> QED
          BY <3>1, <5>1, <5>2, <5>3 DEF Reading
      <4> QED
        BY <1>1, <4>1
    <3> QED
      BY <3>1
  <2>4. Third(x) => n <= LoadCalls(conf, conf.reads)
    BY <1>1, PartsOfCalls, Zenon
  <2>5. Fourth(x) => n > LoadCalls(conf, conf.reads)
    BY <1>1, PartsOfCalls, Zenon
  <2> QED
    BY <2>1, <2>2, <2>3, <2>4, <2>5
<1>4. \/ First(r) /\ First(q)
      \/ Second(r) /\ Second(q)
      \/ Third(r) /\ Third(q)
      \/ Fourth(r) /\ Fourth(q)
  <2> HIDE DEF First, Second, Third, Fourth
  <2> QED
    BY <1>1, <1>2, <1>3
<1>5. CASE First(r) /\ First(q)
  BY <1>1, <1>5, PreparingAgree
<1>6. CASE Second(r) /\ Second(q)
  BY <1>1, <1>6, WritingAgree
<1>7. CASE Third(r) /\ Third(q)
  BY <1>1, <1>7, ReadingAgree
<1>8. CASE Fourth(r) /\ Fourth(q)
  BY <1>1, <1>8, EndingAgree
<1> QED
  BY <1>4, <1>5, <1>6, <1>7, <1>8

-------------------------------------------------------------------------------
(* The dataset *)

(* Rank 0 has not deleted it. *)
Kept == conf.object \/ calls[0] <= FinalCalls(conf) + 1

DatasetInv ==
  /\ \A r \in Rank : pc[r] \in {"sleep", "deleting"} => r = 0
  /\ Kept /\ conf.generate /\ calls[0] >= 2 => folders
  /\ Kept /\ conf.generate => \A r \in Rank : calls[r] >= 3 => OwnFiles(r) \subseteq files
  /\ Kept /\ conf.found => files = Files
  /\ ~Kept => files = {}
  /\ ~conf.generate /\ ~conf.found => files = {}
  /\ ~conf.object \/ ~conf.generate => visible = files
  /\ conf.generate /\ conf.settle /\ conf.object /\ calls[0] >= 4 => visible = Files

(* There is a rank 0. *)
LEMMA RankZero == 0 \in Rank
  BY JobAssumption DEF Rank

(* The dataset is as the workload says at the start. *)
LEMMA DatasetInit == Init => DatasetInv
<1> SUFFICES ASSUME Init PROVE DatasetInv
  OBVIOUS
<1>1. conf \in Configurations /\ FinalCalls(conf) \in Nat /\ calls[0] = 0
  BY RankZero, CallFacts DEF Init
<1>2. /\ \A r \in Rank : pc[r] = "init" /\ calls[r] = 0
      /\ files = (IF conf.found THEN Files ELSE {}) /\ visible = files
  BY DEF Init
<1> QED
  BY <1>1, <1>2 DEF DatasetInv, Kept

(* The numbers of calls by which the dataset changes, and who makes them *)
LEMMA Milestones ==
  ASSUME JobInv, DatasetInv, NEW r \in Rank, RankStep(r), calls'[r] = calls[r] + 1
  PROVE  /\ conf.generate /\ calls[r] = 1 => MakeFolders(r)
         /\ conf.generate /\ calls[r] = 2 => EndWriting(r)
         /\ conf.generate /\ conf.settle /\ conf.object /\ calls[r] = 3 /\ r = 0 => WakeUp(r)
         /\ calls[r] = FinalCalls(conf) + 1 => Delete(r) \/ r # 0
<1>1. /\ conf \in Configurations /\ calls \in [Rank -> Nat] /\ pc \in [Rank -> Places]
      /\ InitCalls(conf) \in Nat /\ FinalCalls(conf) \in Nat /\ ListCalls(conf) \in 2 .. 5
      /\ conf.generate => ListCalls(conf) >= 4
      /\ InitCalls(conf) >= ListCalls(conf) + 1 /\ FinalCalls(conf) >= InitCalls(conf) + 1
      /\ SaveCalls(conf, conf.writes) >= InitCalls(conf)
      /\ SaveCalls(conf, conf.writes) \in Nat /\ LoadCalls(conf, conf.reads) \in Nat
      /\ FinalCalls(conf) >= LoadCalls(conf, conf.reads) + 1
      /\ LoadCalls(conf, conf.reads) >= SaveCalls(conf, conf.writes)
  BY ConfigurationFacts, CallFacts DEF JobInv, Shape, FinalCalls
<1>2. At(r)
  BY DEF JobInv, InOrder
<1>3. /\ Preparing(conf, pc[r], calls[r]) => calls[r] <= InitCalls(conf)
      /\ Writing(conf, pc[r], calls[r], block[r], saved[r])
            => calls[r] > InitCalls(conf) /\ calls[r] <= SaveCalls(conf, conf.writes)
      /\ Reading(conf, pc[r], calls[r], block[r])
            => calls[r] >= SaveCalls(conf, conf.writes) /\ calls[r] <= LoadCalls(conf, conf.reads)
      /\ Ending(conf, pc[r], calls[r]) => calls[r] > LoadCalls(conf, conf.reads)
  BY <1>1, PartsOfCalls, Zenon
<1>4. \/ Preparing(conf, pc[r], calls[r])
      \/ Writing(conf, pc[r], calls[r], block[r], saved[r])
      \/ Reading(conf, pc[r], calls[r], block[r])
      \/ Ending(conf, pc[r], calls[r])
  BY <1>2 DEF At, AtPlace
<1>5. UNCHANGED calls => FALSE
  BY <1>1
<1>6. ASSUME conf.generate, calls[r] <= 3
      PROVE  \/ calls[r] = 0
             \/ calls[r] = 1 /\ pc[r] \in {"begin", "make_folders"}
             \/ calls[r] = 2 /\ pc[r] \in {"folders_made", "write", "failed"}
             \/ calls[r] = 3 /\ pc[r] \in {"generated", "sleep"}
  <2>1. Preparing(conf, pc[r], calls[r])
    BY <1>1, <1>3, <1>4, <1>6
  <2> QED
    BY <1>1, <1>6, <2>1 DEF Preparing
<1>7. ASSUME conf.generate, calls[r] = 1 PROVE MakeFolders(r)
  <2>1. pc[r] \in {"begin", "make_folders"}
    BY <1>6, <1>7
  <2>2. MakeFolders(r) \/ EndBegin(r)
    BY <2>1 DEF RankStep, Begin, MakeFolders, StartWriting, WriteFile, EndWriting,
       SettleGuard, WakeUp, Settled, StartListing, ListFiles, BuildMechanism, Run, Train,
       StartSave, Save, EndSave, CountCheckpoints, StartLoad, Load, EndLoad, ReduceMetrics,
       Finalize, StartDelete, Delete, Exit, Released
  <2> QED
    BY <1>5, <1>7, <2>2 DEF EndBegin
<1>8. ASSUME conf.generate, calls[r] = 2 PROVE EndWriting(r)
  <2>1. pc[r] \in {"folders_made", "write", "failed"}
    BY <1>6, <1>8
  <2>2. EndWriting(r) \/ StartWriting(r) \/ WriteFile(r)
    BY <2>1 DEF RankStep, Begin, EndBegin, MakeFolders,
       SettleGuard, WakeUp, Settled, StartListing, ListFiles, BuildMechanism, Run, Train,
       StartSave, Save, EndSave, CountCheckpoints, StartLoad, Load, EndLoad, ReduceMetrics,
       Finalize, StartDelete, Delete, Exit, Released
  <2> QED
    BY <1>5, <2>2 DEF StartWriting, WriteFile
<1>9. ASSUME conf.generate, conf.settle, conf.object, calls[r] = 3, r = 0 PROVE WakeUp(r)
  <2>1. pc[r] \in {"generated", "sleep"}
    BY <1>6, <1>9
  <2>2. WakeUp(r) \/ SettleGuard(r)
    BY <2>1 DEF RankStep, Begin, EndBegin, MakeFolders, StartWriting, WriteFile, EndWriting,
       Settled, StartListing, ListFiles, BuildMechanism, Run, Train,
       StartSave, Save, EndSave, CountCheckpoints, StartLoad, Load, EndLoad, ReduceMetrics,
       Finalize, StartDelete, Delete, Exit, Released
  <2> QED
    BY <1>5, <1>9, <2>2 DEF SettleGuard
<1>10. ASSUME calls[r] = FinalCalls(conf) + 1, r = 0 PROVE Delete(r)
  <2>1. Ending(conf, pc[r], calls[r])
    BY <1>1, <1>3, <1>4, <1>10
  <2>2. pc[r] \in {"delete", "deleting", "exit", "done"}
    BY <1>1, <1>10, <2>1 DEF Ending
  <2>3. Delete(r) \/ StartDelete(r) \/ Exit(r)
    BY <2>2 DEF RankStep, Begin, EndBegin, MakeFolders, StartWriting, WriteFile, EndWriting,
       SettleGuard, WakeUp, Settled, StartListing, ListFiles, BuildMechanism, Run, Train,
       StartSave, Save, EndSave, CountCheckpoints, StartLoad, Load, EndLoad, ReduceMetrics,
       Finalize, Released
  <2> QED
    BY <1>5, <1>10, <2>3 DEF StartDelete, Exit
<1> QED
  BY <1>7, <1>8, <1>9, <1>10

(* The whole dataset is there when every rank has written its share. *)
LEMMA AllGenerated ==
  ASSUME JobInv, DatasetInv, Kept, conf.generate, \A q \in Rank : calls[q] >= 3
  PROVE  files = Files
<1>1. \A q \in Rank : OwnFiles(q) \subseteq files
  BY DEF DatasetInv
<1>2. ASSUME NEW f \in Files PROVE f \in files
  <2>1. f % CommSize \in Rank /\ f \in OwnFiles(f % CommSize)
    BY JobAssumption DEF Files, Rank, OwnFiles
  <2> QED
    BY <1>1, <2>1
<1> QED
  BY <1>2 DEF JobInv, Shape

(* Only rank 0 sleeps and deletes. *)
LEMMA RankZeroAlone ==
  ASSUME JobInv, DatasetInv, NEW r \in Rank, RankStep(r)
  PROVE  \A q \in Rank : pc'[q] \in {"sleep", "deleting"} => q = 0
<1>1. pc \in [Rank -> Places] /\ (\A q \in Rank : pc[q] \in {"sleep", "deleting"} => q = 0)
  BY DEF JobInv, Shape, DatasetInv
<1>2. \A q \in Rank : q # r => pc'[q] = pc[q]
  BY OthersStay DEF JobInv
<1>3. ASSUME pc'[r] \in {"sleep", "deleting"} PROVE r = 0
  <2>1. CASE SettleGuard(r) \/ StartDelete(r)
    BY <1>1, <1>3, <2>1 DEF SettleGuard, StartDelete, Enter, Goto
  <2>2. CASE Begin(r) \/ EndBegin(r) \/ MakeFolders(r) \/ StartWriting(r) \/ EndWriting(r)
             \/ WakeUp(r) \/ Settled(r) \/ StartListing(r)
    BY <1>1, <1>3, <2>2 DEF Begin, EndBegin, MakeFolders, StartWriting, EndWriting, WakeUp, Settled,
       StartListing, Enter, Goto
  <2>3. CASE WriteFile(r) \/ ListFiles(r) \/ BuildMechanism(r) \/ Run(r) \/ Train(r)
    BY <1>1, <1>3, <2>3 DEF WriteFile, ListFiles, BuildMechanism, Run, Train, EndRun, Enter, Goto
  <2>4. CASE StartSave(r) \/ Save(r) \/ EndSave(r) \/ CountCheckpoints(r) \/ StartLoad(r)
             \/ Load(r) \/ EndLoad(r)
    BY <1>1, <1>3, <2>4 DEF StartSave, Save, EndSave, CountCheckpoints, StartLoad, Load, EndLoad,
       EndRun, Enter, Goto
  <2>5. CASE ReduceMetrics(r) \/ Finalize(r) \/ Delete(r) \/ Exit(r)
    BY <1>1, <1>3, <2>5 DEF ReduceMetrics, Finalize, Delete, Exit, Enter, Goto
  <2> QED
    BY <2>1, <2>2, <2>3, <2>4, <2>5 DEF RankStep
<1> QED
  BY <1>2, <1>3, <1>1

(* A rank that writes its files: rank 0 is not at the deletion. *)
LEMMA WritingPlace ==
  ASSUME JobInv, NEW r \in Rank, pc[r] = "write"
  PROVE  conf.generate /\ calls[r] = 2 /\ calls[0] \in {2, 3} /\ Kept
<1>1. conf \in Configurations /\ calls[0] \in Nat /\ FinalCalls(conf) \in Nat
      /\ ListCalls(conf) \in 2 .. 5 /\ InitCalls(conf) \in Nat
      /\ InitCalls(conf) >= ListCalls(conf) + 1 /\ FinalCalls(conf) >= InitCalls(conf) + 1
  BY RankZero, CallFacts DEF JobInv, Shape
<1>2. conf.generate /\ calls[r] = 2
  BY Prepared DEF Before, Preparing
<1>3. calls[r] <= calls[0] /\ calls[0] <= calls[r] + 1
  BY RankZero DEF JobInv, Waiting, Sites, Barriers, Allreduces
<1> QED
  BY <1>1, <1>2, <1>3 DEF Kept

(* Every step keeps the dataset as the calls of rank 0 say. *)
LEMMA DatasetNext == JobInv /\ DatasetInv /\ [Next]_vars => DatasetInv'
<1> SUFFICES ASSUME JobInv, DatasetInv, [Next]_vars PROVE DatasetInv'
  OBVIOUS
<1>1. /\ conf \in Configurations /\ calls \in [Rank -> Nat] /\ pc \in [Rank -> Places]
      /\ files \subseteq Files /\ visible \subseteq files /\ 0 \in Rank
      /\ InitCalls(conf) \in Nat /\ FinalCalls(conf) \in Nat /\ ListCalls(conf) \in 2 .. 5
      /\ InitCalls(conf) >= ListCalls(conf) + 1 /\ FinalCalls(conf) >= InitCalls(conf) + 1
  BY RankZero, CallFacts DEF JobInv, Shape
<1>2. ASSUME NEW r \in Rank, RankStep(r) PROVE DatasetInv'
  <2>1. /\ conf' = conf
        /\ \A q \in Rank : q # r => calls'[q] = calls[q]
        /\ calls'[r] = calls[r] \/ calls'[r] = calls[r] + 1
    BY <1>2, OthersStay, StepCalls DEF JobInv
  <2>2. \A q \in Rank : pc'[q] \in {"sleep", "deleting"} => q = 0
    BY <1>2, RankZeroAlone
  <2>3. /\ calls'[0] = calls[0] \/ (calls'[0] = calls[0] + 1 /\ r = 0)
        /\ calls[0] \in Nat /\ calls'[0] \in Nat
    BY <1>1, <2>1
  <2>4. Kept' => Kept
    BY <1>1, <2>1, <2>3 DEF Kept
  <2>5. ASSUME Kept, ~Kept' PROVE Delete(r) /\ r = 0 /\ ~conf.object
    <3>1. ~conf.object /\ calls[0] = FinalCalls(conf) + 1 /\ calls'[0] = calls[0] + 1 /\ r = 0
      BY <1>1, <2>1, <2>3, <2>5 DEF Kept
    <3> QED
      BY <1>2, <3>1, Milestones
  <2>6. ASSUME conf.generate, calls'[0] >= 2 PROVE calls[0] >= 2 \/ MakeFolders(0)
    <3>1. CASE calls[0] = 1 /\ calls'[0] = calls[0] + 1 /\ r = 0
      BY <1>2, <2>6, <3>1, Milestones
    <3> QED
      BY <2>3, <2>6, <3>1
  <2>7. ASSUME conf.generate, NEW q \in Rank, calls'[q] >= 3
        PROVE  calls[q] >= 3 \/ (EndWriting(r) /\ q = r)
    <3>1. CASE calls[q] = 2 /\ calls'[r] = calls[r] + 1 /\ q = r
      BY <1>2, <2>7, <3>1, Milestones
    <3> QED
      BY <1>1, <2>1, <2>7, <3>1
  <2>8. ASSUME conf.generate, conf.settle, conf.object, calls'[0] >= 4
        PROVE  calls[0] >= 4 \/ (WakeUp(r) /\ r = 0 /\ calls[0] = 3)
    <3>1. CASE calls[0] = 3 /\ calls'[0] = calls[0] + 1 /\ r = 0
      BY <1>2, <2>8, <3>1, Milestones
    <3> QED
      BY <2>3, <2>8, <3>1
  <2>9. CASE Delete(r)
    <3>1. /\ pc[r] = "deleting" /\ calls'[r] = calls[r] + 1
          /\ folders' = conf.object
          /\ conf.object => files' = files /\ visible' = visible
          /\ ~conf.object => files' = {} /\ visible' = {}
      BY <1>1, <2>9 DEF Delete, Enter, Goto
    <3>2. r = 0 /\ ~EndWriting(r) /\ ~WakeUp(r)
      BY <1>1, <3>1 DEF DatasetInv, EndWriting, WakeUp
    <3>3. Ending(conf, pc[r], calls[r])
      <4>1. At(r)
        BY DEF JobInv, InOrder
      <4> QED
        BY <3>1, <4>1 DEF At, AtPlace, Preparing, Writing, Reading
    <3>4. calls[0] = FinalCalls(conf) + 1 /\ calls'[0] = FinalCalls(conf) + 2
      BY <1>1, <3>1, <3>2, <3>3 DEF Ending
    <3>5. CASE conf.object
      <4>1. Kept /\ Kept'
        BY <2>1, <3>5 DEF Kept
      <4>2. /\ folders' /\ files' = files /\ visible' = visible
        BY <3>1, <3>5
      <4> QED
        BY <2>1, <2>2, <2>7, <2>8, <3>2, <4>1, <4>2 DEF DatasetInv, OwnFiles
    <3>6. CASE ~conf.object
      <4>1. ~Kept'
        BY <1>1, <2>1, <3>4, <3>6 DEF Kept
      <4> QED
        BY <2>1, <2>2, <3>1, <3>6, <4>1 DEF DatasetInv
    <3> QED
      BY <3>5, <3>6
  <2>10. CASE WriteFile(r)
    <3>1. /\ conf.generate /\ ~conf.found /\ Kept /\ Kept'
          /\ calls' = calls /\ folders' = folders /\ calls[0] \in {2, 3}
      <4>1. pc[r] = "write" /\ calls' = calls /\ folders' = folders
        BY <2>10 DEF WriteFile
      <4> QED
        BY <1>1, <2>1, <4>1, WritingPlace, ConfigurationFacts DEF Kept
    <3>2. /\ files \subseteq files'
          /\ ~conf.object /\ visible = files => visible' = files'
      BY <2>10 DEF WriteFile
    <3> QED
      BY <2>1, <2>2, <3>1, <3>2 DEF DatasetInv, OwnFiles
  <2>11. CASE MakeFolders(r)
    <3>1. /\ folders' = (folders \/ r = 0) /\ files' = files /\ visible' = visible
          /\ ~Delete(r) /\ ~EndWriting(r) /\ ~WakeUp(r)
      BY <2>11 DEF MakeFolders, Delete, EndWriting, WakeUp
    <3>2. Kept' = Kept
      BY <2>4, <2>5, <3>1 DEF Kept
    <3>3. Kept' /\ conf.generate /\ calls'[0] >= 2 => folders'
      <4>1. ASSUME Kept, conf.generate, calls'[0] >= 2 PROVE folders'
        <5>1. calls[0] >= 2 \/ r = 0
          BY <2>3, <4>1
        <5> QED
          BY <3>1, <4>1, <5>1 DEF DatasetInv
      <4> QED
        BY <3>2, <4>1
    <3> QED
      BY <2>1, <2>2, <2>7, <2>8, <3>1, <3>2, <3>3 DEF DatasetInv, OwnFiles
  <2>12. CASE ~Delete(r) /\ ~WriteFile(r) /\ ~MakeFolders(r)
    <3>1. UNCHANGED <<folders, files, visible>>
      BY <1>2, <2>12 DEF RankStep, Begin, EndBegin, StartWriting, EndWriting,
         SettleGuard, WakeUp, Settled, StartListing, ListFiles, BuildMechanism, Run, Train,
         StartSave, Save, EndSave, CountCheckpoints, StartLoad, Load, EndLoad, ReduceMetrics,
         Finalize, StartDelete, Exit, dataset
    <3>2. (Kept' => Kept) /\ (Kept => Kept')
      BY <2>4, <2>5, <2>12
    <3>3. conf.generate /\ calls'[0] >= 2 => calls[0] >= 2
      <4>1. CASE r = 0
        BY <2>6, <2>12, <4>1
      <4>2. CASE r # 0
        BY <2>3, <4>2
      <4> QED
        BY <4>1, <4>2
    <3>4. Kept' /\ conf.generate => \A q \in Rank : calls'[q] >= 3 => OwnFiles(q) \subseteq files
      BY <2>7, <3>2 DEF DatasetInv, EndWriting
    <3>5. conf.generate /\ conf.settle /\ conf.object /\ calls'[0] >= 4 => visible = Files
      <4>1. ASSUME conf.generate, conf.settle, conf.object, calls[0] = 3, WakeUp(r), r = 0
            PROVE  visible = Files
        <5>1. visible = files /\ pc[0] = "sleep"
          BY <4>1 DEF WakeUp
        <5>2. \A q \in Rank : calls[q] >= 3
          <6>1. \A q \in Rank : calls[0] <= calls[q]
            BY <1>1, <5>1 DEF JobInv, Waiting, Sites, Barriers, Allreduces
          <6> QED
            BY <1>1, <4>1, <6>1
        <5>3. Kept
          BY <4>1 DEF Kept
        <5> QED
          BY <4>1, <5>1, <5>2, <5>3, AllGenerated
      <4> QED
        BY <2>8, <4>1 DEF DatasetInv
    <3> QED
      BY <2>1, <2>2, <3>1, <3>2, <3>3, <3>4, <3>5 DEF DatasetInv, OwnFiles
  <2> QED
    BY <2>9, <2>10, <2>11, <2>12
<1>3. CASE Propagate
  <2>1. UNCHANGED <<conf, pc, calls, folders, files>>
    BY <1>3 DEF Propagate
  <2>2. PICK f \in files \ visible : visible' = visible \cup {f}
    BY <1>3 DEF Propagate
  <2>3. visible # files /\ visible # Files
    BY <1>1, <2>2
  <2> QED
    BY <2>1, <2>3 DEF DatasetInv, Kept, OwnFiles
<1>4. CASE UNCHANGED vars
  BY <1>4 DEF vars, DatasetInv, Kept, OwnFiles
<1> QED
  BY <1>2, <1>3, <1>4 DEF Next, Stopped

(* A rank that lists or reads the dataset finds it whole. *)
LEMMA WholeDataset ==
  ASSUME JobInv, DatasetInv, InputsPresent, ~ListingMayLag, conf.train,
         NEW r \in Rank, pc[r] \in {"list", "train"}
  PROVE  files = Files /\ (pc[r] = "list" => visible = Files)
<1>1. /\ conf \in Configurations /\ calls \in [Rank -> Nat] /\ 0 \in Rank
      /\ InitCalls(conf) \in Nat /\ FinalCalls(conf) \in Nat /\ ListCalls(conf) \in 2 .. 5
      /\ (conf.generate => ListCalls(conf) >= 4)
      /\ InitCalls(conf) >= ListCalls(conf) + 1 /\ FinalCalls(conf) >= InitCalls(conf) + 1
  BY RankZero, CallFacts DEF JobInv, Shape
<1>2. \A q \in Rank : calls[r] <= calls[q] /\ calls[q] <= calls[r] + 1
  BY DEF JobInv, Waiting, Sites, Barriers, Allreduces
<1>3. calls[r] = ListCalls(conf) \/ calls[r] = InitCalls(conf)
  BY Prepared DEF Before, Preparing
<1>4. Kept
  BY <1>1, <1>2, <1>3 DEF Kept
<1>5. CASE conf.found
  <2>1. files = Files /\ ~conf.generate
    BY <1>1, <1>4, <1>5, ConfigurationFacts DEF DatasetInv
  <2> QED
    BY <2>1 DEF DatasetInv
<1>6. CASE ~conf.found
  <2>1. conf.generate
    BY <1>6 DEF InputsPresent
  <2>2. \A q \in Rank : calls[q] >= 4
    BY <1>1, <1>2, <1>3, <2>1
  <2>3. files = Files
    <3>1. \A q \in Rank : calls[q] >= 3
      BY <1>1, <2>2
    <3> QED
      BY <1>4, <2>1, <3>1, AllGenerated
  <2>4. CASE ~conf.object
    BY <2>3, <2>4 DEF DatasetInv
  <2>5. CASE conf.object
    <3>1. conf.settle
      BY <2>1, <2>5 DEF ListingMayLag
    <3> QED
      BY <1>1, <2>1, <2>2, <2>3, <2>5, <3>1 DEF DatasetInv
  <2> QED
    BY <2>4, <2>5
<1> QED
  BY <1>5, <1>6

(* The checkpoints to be read are counted. *)
LEMMA EnoughCheckpoints ==
  ASSUME JobInv, InputsPresent, NEW r \in Rank, pc[r] = "count"
  PROVE  ~(Cardinality(CheckpointFolders) < conf.reads)
<1>1. /\ conf \in Configurations /\ conf.writes \in Nat /\ conf.reads \in Nat
      /\ conf.earlier \in Nat /\ (conf.writes > 0 => conf.reads <= conf.writes)
      /\ pc \in [Rank -> Places] /\ saved \in [Rank -> SUBSET Nat]
  BY ConfigurationFacts DEF JobInv, Shape
<1>2. saved[r] = Own(conf, conf.writes) /\ Alone(conf)
  BY ReadingAt DEF Reading
<1>3. conf.writes = 0 => conf.reads <= conf.earlier
  BY <1>2 DEF InputsPresent, CheckpointOnly, Alone
<1>4. 1 .. conf.reads \subseteq saved[r]
  <2>1. conf.writes = 0 \/ conf.writes > 0
    BY <1>1
  <2> QED
    BY <1>1, <1>2, <1>3, <2>1 DEF Own
<1>5. 1 .. conf.reads \subseteq CheckpointFolders
  BY <1>4 DEF CheckpointFolders
<1>6. IsFiniteSet(CheckpointFolders)
  <2> DEFINE Most == MaxCheckpoints + 1
  <2>1. Most \in Nat /\ IsFiniteSet(1 .. Most)
    <3>1. Most \in Nat /\ Most \in Int /\ 1 \in Int
      BY JobAssumption
    <3>2. IsFiniteSet(1 .. Most)
      BY <3>1, FS_Interval
    <3> QED
      BY <3>1, <3>2
  <2>2. ASSUME NEW q \in Rank
        PROVE  saved[q] \subseteq 1 .. Most /\ (pc[q] \in {"save", "load"} => block[q] \in 1 .. Most)
    <3>1. TypeOK
      BY TypesOfJob
    <3>2. block[q] \in 1 .. MaxCheckpoints \cup {1} /\ saved[q] \subseteq 1 .. MaxCheckpoints
      BY <3>1 DEF TypeOK
    <3> QED
      BY <3>2, JobAssumption
  <2>3. CheckpointFolders \subseteq 1 .. Most
    BY <2>2 DEF CheckpointFolders
  <2> QED
    BY <2>1, <2>3, FS_Subset
<1>7. Cardinality(1 .. conf.reads) = conf.reads
  <2>1. 1 \in Int /\ conf.reads \in Int
    BY <1>1
  <2>2. Cardinality(1 .. conf.reads) = IF 1 > conf.reads THEN 0 ELSE conf.reads - 1 + 1
    BY <2>1, FS_Interval, Zenon
  <2> QED
    BY <1>1, <2>2
<1>8. Cardinality(1 .. conf.reads) <= Cardinality(CheckpointFolders)
  BY <1>5, <1>6, FS_Subset
<1>9. Cardinality(CheckpointFolders) \in Nat
  BY <1>6, FS_CardinalityType
<1> QED
  BY <1>1, <1>7, <1>8, <1>9

(* The configured number of files is that of the dataset. *)
LEMMA FilesCounted == Cardinality(Files) = NumFiles
<1>1. 0 \in Int /\ NumFiles - 1 \in Int /\ NumFiles \in Nat \ {0}
  BY JobAssumption
<1>2. Cardinality(0 .. NumFiles - 1) = IF 0 > NumFiles - 1 THEN 0 ELSE NumFiles - 1 - 0 + 1
  BY <1>1, FS_Interval, Zenon
<1> QED
  BY <1>1, <1>2 DEF Files

(* Until now no rank has failed that had its inputs and no lagging listing. *)
Unhurt == InputsPresent /\ ~ListingMayLag => ~Failed

(* With its inputs there and no lagging listing, no step makes a rank fail. *)
LEMMA UnhurtNext == JobInv /\ DatasetInv /\ Unhurt /\ [Next]_vars => Unhurt'
<1> SUFFICES ASSUME JobInv, DatasetInv, Unhurt, [Next]_vars, InputsPresent', ~ListingMayLag'
             PROVE  ~Failed'
  BY DEF Unhurt
<1>1. pc \in [Rank -> Places] /\ block \in [Rank -> Nat \ {0}]
      /\ listed \in [Rank -> SUBSET Files]
  BY DEF JobInv, Shape
<1>2. ASSUME NEW r \in Rank, RankStep(r) PROVE ~Failed'
  <2>1. conf' = conf /\ \A q \in Rank : q # r => pc'[q] = pc[q]
    BY <1>2, OthersStay DEF JobInv
  <2>2. InputsPresent /\ ~ListingMayLag
    BY <2>1 DEF InputsPresent, ListingMayLag, CheckpointOnly
  <2>3. \A q \in Rank : pc[q] # "failed"
    BY <2>2 DEF Unhurt, Failed
  <2>4. ASSUME pc'[r] = "failed" PROVE FALSE
    <3>1. CASE WriteFile(r)
      <4>1. ~folders /\ pc[r] = "write"
        BY <1>1, <2>3, <2>4, <3>1 DEF WriteFile
      <4> QED
        BY <4>1, WritingPlace DEF DatasetInv
    <3>2. CASE ListFiles(r)
      <4>1. conf.train /\ Cardinality(visible) < NumFiles /\ pc[r] = "list"
        BY <1>1, <2>4, <3>2 DEF ListFiles, Enter, Goto
      <4>2. visible = Files
        BY <2>2, <4>1, WholeDataset
      <4> QED
        BY <4>1, <4>2, FilesCounted, JobAssumption
    <3>3. CASE Train(r)
      <4>1. ~(listed[r] \subseteq files) /\ pc[r] = "train"
        BY <1>1, <2>4, <3>3 DEF Train, EndRun, Enter, Goto
      <4>2. conf.train
        BY <4>1, Prepared DEF Before, Preparing
      <4> QED
        BY <1>1, <2>2, <4>1, <4>2, WholeDataset
    <3>4. CASE CountCheckpoints(r)
      <4>1. pc[r] = "count" /\ Cardinality(CheckpointFolders) < conf.reads
        BY <1>1, <2>4, <3>4 DEF CountCheckpoints, EndRun, Enter, Goto
      <4> QED
        BY <2>2, <4>1, EnoughCheckpoints
    <3>5. CASE Load(r)
      <4>1. pc[r] = "load" /\ block[r] \notin saved[r]
        BY <1>1, <2>4, <3>5 DEF Load, Enter, Goto
      <4>2. saved[r] = Own(conf, conf.writes) /\ block[r] \in 1 .. conf.reads
            /\ 1 .. conf.reads \subseteq Own(conf, conf.writes)
        BY <4>1, ReadingAt DEF Reading
      <4> QED
        BY <4>1, <4>2
    <3>6. CASE Begin(r) \/ EndBegin(r) \/ MakeFolders(r) \/ StartWriting(r) \/ EndWriting(r)
               \/ SettleGuard(r) \/ WakeUp(r) \/ Settled(r) \/ StartListing(r)
      BY <1>1, <2>4, <3>6 DEF Begin, EndBegin, MakeFolders, StartWriting, EndWriting, SettleGuard,
         WakeUp, Settled, StartListing, Enter, Goto
    <3>7. CASE BuildMechanism(r) \/ Run(r) \/ StartSave(r) \/ Save(r) \/ EndSave(r)
               \/ StartLoad(r) \/ EndLoad(r)
      BY <1>1, <2>4, <3>7 DEF BuildMechanism, Run, StartSave, Save, EndSave, StartLoad, EndLoad,
         EndRun, Enter, Goto
    <3>8. CASE ReduceMetrics(r) \/ Finalize(r) \/ StartDelete(r) \/ Delete(r) \/ Exit(r)
      BY <1>1, <2>4, <3>8 DEF ReduceMetrics, Finalize, StartDelete, Delete, Exit, Enter, Goto
    <3> QED
      BY <1>2, <3>1, <3>2, <3>3, <3>4, <3>5, <3>6, <3>7, <3>8 DEF RankStep
  <2> QED
    BY <2>1, <2>3, <2>4 DEF Failed
<1>3. CASE Propagate \/ UNCHANGED vars
  BY <1>3 DEF Propagate, vars, Unhurt, Failed, InputsPresent, ListingMayLag, CheckpointOnly
<1> QED
  BY <1>2, <1>3 DEF Next, Stopped

(* The dataset is as the calls of rank 0 say in every reachable state. *)
LEMMA DatasetInvariant == Spec => [](JobInv /\ DatasetInv /\ Unhurt)
<1>1. Init => JobInv /\ DatasetInv /\ Unhurt
  <2>1. Init => Unhurt
    BY DEF Init, Unhurt, Failed
  <2> QED
    BY <2>1, ShapeInit, OrderInit, DatasetInit DEF JobInv
<1>2. (JobInv /\ DatasetInv /\ Unhurt) /\ [Next]_vars => (JobInv /\ DatasetInv /\ Unhurt)'
  BY JobInvNext, DatasetNext, UnhurtNext
<1> QED
  BY <1>1, <1>2, PTL DEF Spec

(* No rank meets another's collective in its own, and none raises, if the inputs
   are there and the listings do not lag. *)
THEOREM RanksDoNotFail == Spec => []NoRankFails
<1>1. JobInv /\ Unhurt => NoRankFails
  BY SitesAgree DEF NoRankFails, Unhurt
<1> QED
  BY <1>1, DatasetInvariant, PTL

(* A rank that leaves the program leaves the dataset whole if it is kept or lies on
   an object store, whatever keep_files says there, and gone from a file system if
   it is not kept. *)
THEOREM DatasetLeft == Spec => []DatasetAtExit
<1>1. JobInv /\ DatasetInv => DatasetAtExit
  <2> SUFFICES ASSUME JobInv, DatasetInv, NEW r \in Rank, pc[r] = "done"
               PROVE  files = IF conf.keep \/ conf.object \/ GenerateOnly
                                THEN (IF conf.generate \/ conf.found THEN Files ELSE {})
                                ELSE {}
    BY DEF DatasetAtExit
  <2>1. /\ conf \in Configurations /\ calls \in [Rank -> Nat] /\ 0 \in Rank
        /\ InitCalls(conf) \in Nat /\ FinalCalls(conf) \in Nat /\ ListCalls(conf) \in 2 .. 5
        /\ InitCalls(conf) >= ListCalls(conf) + 1 /\ FinalCalls(conf) >= InitCalls(conf) + 1
        /\ LoadCalls(conf, conf.reads) + 1 <= FinalCalls(conf)
        /\ LoadCalls(conf, conf.reads) \in Nat
        /\ SaveCalls(conf, conf.writes) \in Nat
        /\ SaveCalls(conf, conf.writes) >= InitCalls(conf)
        /\ LoadCalls(conf, conf.reads) >= SaveCalls(conf, conf.writes)
    BY RankZero, CallFacts, ConfigurationFacts DEF JobInv, Shape, FinalCalls
  <2>2. \A q \in Rank : calls[r] <= calls[q]
    BY DEF JobInv, Waiting, Sites, Barriers, Allreduces
  <2>3. /\ Stays(conf) => calls[r] = FinalCalls(conf) + 1
        /\ ~Stays(conf) => calls[r] = FinalCalls(conf) + 2
    <3>1. At(r)
      BY DEF JobInv, InOrder
    <3> QED
      BY <3>1 DEF At, AtPlace, Preparing, Writing, Reading, Ending
  <2>4. Stays(conf) <=> conf.keep \/ GenerateOnly
    BY DEF Stays, GenerateOnly
  <2>5. Stays(conf) => calls[0] <= FinalCalls(conf) + 1
    <3>1. At(0)
      BY <2>1 DEF JobInv, InOrder
    <3>2. Ending(conf, pc[0], calls[0]) /\ Stays(conf) => calls[0] <= FinalCalls(conf) + 1
      BY <2>1 DEF Ending
    <3>3. /\ Preparing(conf, pc[0], calls[0]) => calls[0] <= InitCalls(conf)
          /\ Writing(conf, pc[0], calls[0], block[0], saved[0])
                => calls[0] <= SaveCalls(conf, conf.writes)
          /\ Reading(conf, pc[0], calls[0], block[0]) => calls[0] <= LoadCalls(conf, conf.reads)
      BY <2>1, PartsOfCalls, Zenon
    <3> QED
      BY <2>1, <3>1, <3>2, <3>3 DEF At, AtPlace
  <2>6. CASE conf.object \/ Stays(conf)
    <3>1. Kept
      BY <2>5, <2>6 DEF Kept
    <3>2. \A q \in Rank : calls[q] >= 3
      BY <2>1, <2>2, <2>3
    <3>3. conf.generate \/ conf.found => files = Files
      BY <3>1, <3>2, AllGenerated DEF DatasetInv
    <3>4. ~(conf.generate \/ conf.found) => files = {}
      BY DEF DatasetInv
    <3> QED
      BY <2>4, <2>6, <3>3, <3>4
  <2>7. CASE ~conf.object /\ ~Stays(conf)
    <3>1. ~Kept
      BY <2>1, <2>2, <2>3, <2>7 DEF Kept
    <3> QED
      BY <2>4, <2>7, <3>1 DEF DatasetInv
  <2> QED
    BY <2>6, <2>7
<1> QED
  BY <1>1, DatasetInvariant, PTL
================================================================================
