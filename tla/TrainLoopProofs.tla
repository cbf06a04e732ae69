---------------------------- MODULE TrainLoopProofs ----------------------------
(***************************************************************************)
(* What holds of the training loop for every number of ranks, epochs and   *)
(* steps and every checkpoint and evaluation schedule.                     *)
(*                                                                         *)
(* The collectives.  A rank's place in its program (pc, epoch, step) fixes *)
(* how many collectives it has called and how many batches it has computed *)
(* (AtPlace), provided its loader does not run dry.  A rank outside a      *)
(* collective has called no more of them than any other (Waiting), since   *)
(* the last one it left released it only when everybody had called it.     *)
(* Both are inductive; the rest is arithmetic on the places.               *)
(*                                                                         *)
(* The schedule.  Each counter of _train is the next point due: the next   *)
(* multiple of steps_between_checkpoints (StepsInv), the next epoch of the *)
(* checkpoints (EpochsInv) or of the evaluations (EvalsInv) after those    *)
(* decided on.  A rank has therefore saved the due checkpoints whose points *)
(* it has passed (SavedInv), all of them at the end.  And since its place  *)
(* fixes its collectives, a rank past a checkpoint's point has called more *)
(* of them than one before it: the calls keep any two ranks within one     *)
(* checkpoint of each other.                                               *)
(***************************************************************************)
EXTENDS TrainLoop, FiniteSetTheorems, TLAPS

S == StepsPerEpoch
K == S + 3                          \* collectives called in one epoch
Base(e) == 3 + (e - 1) * K          \* collectives called before epoch e
Done(e) == e * S                    \* batches computed in the first e epochs

-------------------------------------------------------------------------------
(* Types *)

(* The bounds of epoch and step at each place, which TypeOK alone forgets. *)
Bounds ==
  \A r \in Rank :
    /\ pc[r] \in {"init", "start"} => epoch[r] = 0
    /\ pc[r] \in {"reconf_train", "reconf_eval"} => epoch[r] \in 0 .. Epochs
    /\ pc[r] \in {"fetch", "step", "save", "end_train", "save_epoch", "evaluate"}
         => epoch[r] \in 1 .. Epochs
    /\ pc[r] = "epoch" => epoch[r] \in 1 .. Epochs + 1
    /\ pc[r] \in {"step", "save"} => step[r] <= MaxSteps

TypeInv == TypeOK /\ Bounds

(* The program starts within the bounds. *)
LEMMA TypeInit == Init => TypeInv
  BY TrainLoopAssumption DEF Init, TypeInv, TypeOK, Bounds, Places, Sites,
     Barriers, Allreduces, Rank

(* No step of run() or _train takes a counter out of its bounds: the guard of the
   epoch loop bounds epoch, the limits of _train (main.py 366-373) bound step. *)
LEMMA TypeNext == TypeInv /\ [Next]_vars => TypeInv'
<1> SUFFICES ASSUME TypeInv, [Next]_vars PROVE TypeInv'
  OBVIOUS
<1> USE TrainLoopAssumption DEF TypeInv, TypeOK, Bounds, Places, Sites, Barriers,
     Allreduces, Enter, Goto, Released, schedule, history
<1>1. ASSUME NEW r \in Rank, Configure(r) PROVE TypeInv'
  BY <1>1 DEF Configure
<1>2. ASSUME NEW r \in Rank, ReduceTrainSum(r) PROVE TypeInv'
  BY <1>2 DEF ReduceTrainSum
<1>3. ASSUME NEW r \in Rank, ReduceEvalSum(r) PROVE TypeInv'
  BY <1>3 DEF ReduceEvalSum
<1>4. ASSUME NEW r \in Rank, StartLoop(r) PROVE TypeInv'
  BY <1>4 DEF StartLoop
<1>5. ASSUME NEW r \in Rank, StartEpoch(r) PROVE TypeInv'
  BY <1>5 DEF StartEpoch
<1>6. ASSUME NEW r \in Rank, TrainStep(r) PROVE TypeInv'
  BY <1>6 DEF TrainStep, LimitReached
<1>7. ASSUME NEW r \in Rank, StopTraining(r) PROVE TypeInv'
  BY <1>7 DEF StopTraining
<1>8. ASSUME NEW r \in Rank, EndStep(r) PROVE TypeInv'
  BY <1>8 DEF EndStep
<1>9. ASSUME NEW r \in Rank, SaveStepCheckpoint(r) PROVE TypeInv'
  BY <1>9 DEF SaveStepCheckpoint
<1>10. ASSUME NEW r \in Rank, EndTrain(r) PROVE TypeInv'
  BY <1>10 DEF EndTrain
<1>11. ASSUME NEW r \in Rank, SaveEpochCheckpoint(r) PROVE TypeInv'
  BY <1>11 DEF SaveEpochCheckpoint
<1>12. ASSUME NEW r \in Rank, Evaluate(r) PROVE TypeInv'
  BY <1>12 DEF Evaluate
<1>13. ASSUME NEW r \in Rank, EndRun(r) PROVE TypeInv'
  BY <1>13 DEF EndRun
<1>14. ASSUME NEW r \in Rank, ReduceMetrics(r) PROVE TypeInv'
  BY <1>14 DEF ReduceMetrics, ReduceMetric, ReduceLastMetric
<1>15. CASE UNCHANGED vars
  BY <1>15 DEF vars
<1>16. QED
  BY <1>1, <1>2, <1>3, <1>4, <1>5, <1>6, <1>7, <1>8, <1>9, <1>10, <1>11, <1>12,
     <1>13, <1>14, <1>15 DEF Next, Terminated, RankStep

(* The counters of run() and _train stay within their loops' bounds, whatever
   the loaders yield. *)
THEOREM TypeCorrect == Spec => []TypeOK
<1>1. TypeInv => TypeOK
  BY DEF TypeInv
<1>2. QED
  BY TypeInit, TypeNext, <1>1, PTL DEF Spec

-------------------------------------------------------------------------------
(* Arithmetic of the program order *)

(* The break of _train (main.py 366-373) comes after min(max_steps,
   total_training_steps) steps. *)
LEMMA StepsPerEpochType ==
  /\ S \in Nat
  /\ S <= MaxSteps
  /\ \A s \in Nat : LimitReached(s) <=> s > S
BY TrainLoopAssumption DEF S, StepsPerEpoch, LimitReached

(* Each epoch has a barrier per step, the one after the loop and two allreduces. *)
LEMMA KType == K \in Nat /\ K = S + 3
BY StepsPerEpochType DEF K

(* The collectives before an epoch: three before the loop, K in each epoch. *)
LEMMA BaseFacts ==
  /\ Base(1) = 3
  /\ \A e \in Nat \ {0} : Base(e) \in Nat /\ Base(e) >= 3 /\ Base(e + 1) = Base(e) + K
BY KType DEF Base

(* A later epoch starts at least K collectives further on. *)
LEMMA BaseMonotone ==
  ASSUME NEW e \in Nat \ {0}, NEW f \in Nat, e < f
  PROVE  Base(e) + K <= Base(f)
<1>1. PICK d \in Nat : f = e + 1 + d
  BY f - e - 1 \in Nat
<1>2. d * K \in Nat
  BY KType
<1>3. (f - 1) * K = (e - 1) * K + K + d * K
  BY <1>1, KType
<1>4. QED
  BY <1>2, <1>3, KType DEF Base

(* Each epoch adds S batches. *)
LEMMA DoneFacts ==
  /\ Done(0) = 0
  /\ \A e \in Nat : Done(e) \in Nat /\ Done(e + 1) = Done(e) + S
BY StepsPerEpochType DEF Done

(* The batches of the epochs so far do not decrease. *)
LEMMA DoneMonotone ==
  ASSUME NEW e \in Nat, NEW f \in Nat, e <= f
  PROVE  Done(e) <= Done(f)
<1>1. PICK d \in Nat : f = e + d
  BY f - e \in Nat
<1>2. d * S \in Nat /\ f * S = e * S + d * S
  BY <1>1, StepsPerEpochType
<1>3. QED
  BY <1>2, StepsPerEpochType DEF Done

-------------------------------------------------------------------------------
(* The program order: what the place of a rank says of its calls and batches *)

(* The step counter after the loop of _train; its initial value before *)
LastStep(e) == IF e <= 1 THEN 1 ELSE S + 1

Closing == {"end_train", "save_epoch", "evaluate"}

AtPlace(p, e, s, c, n) ==
  \/ /\ e = 0 /\ s = 1 /\ n = 0
     /\ \/ p = "init"         /\ c = 0
        \/ p = "reconf_train" /\ c = 1
        \/ p = "reconf_eval"  /\ c = 2
        \/ p = "start"        /\ c = 3
  \/ /\ p = "epoch" /\ e \in 1 .. Epochs + 1 /\ s = LastStep(e)
     /\ c = Base(e) /\ n = Done(e - 1)
  \/ /\ p = "fetch" /\ e \in 1 .. Epochs /\ s \in 1 .. S + 1
     /\ c = Base(e) + s - 1 /\ n = Done(e - 1) + s - 1
  \/ /\ p \in {"step", "save"} /\ e \in 1 .. Epochs /\ s \in 1 .. S
     /\ c = Base(e) + s /\ n = Done(e - 1) + s
  \/ /\ e \in 1 .. Epochs /\ s = S + 1 /\ n = Done(e)
     /\ \/ p \in Closing      /\ c = Base(e) + S + 1
        \/ p = "reconf_train" /\ c = Base(e) + S + 2
        \/ p = "reconf_eval"  /\ c = Base(e) + S + 3
  \/ /\ e = Epochs + 1 /\ s = LastStep(e) /\ n = Done(Epochs)
     /\ \/ p = "au"              /\ c = Base(e) + 1
        \/ p = "throughput"      /\ c = Base(e) + 2
        \/ p = "eval_au"         /\ c = Base(e) + 3
        \/ p = "eval_throughput" /\ c = Base(e) + 4
        \/ p = "done"            /\ c = Base(e) + (IF DoEval THEN 4 ELSE 2)

InOrder == \A r \in Rank : AtPlace(pc[r], epoch[r], step[r], calls[r], processed[r])

(* A rank outside a collective is not ahead of any rank. *)
Waiting == \A r \in Rank : pc[r] \notin Sites => \A q \in Rank : calls[q] >= calls[r]

LockInv == TypeInv /\ InOrder /\ Waiting

(* The ranks start at the first place of the order, no one ahead. *)
LEMMA LockInit == Init => LockInv
<1> SUFFICES ASSUME Init PROVE LockInv
  OBVIOUS
<1>1. TypeInv
  BY TypeInit
<1>2. InOrder
  BY DEF Init, InOrder, AtPlace
<1>3. Waiting
  BY DEF Init, Waiting
<1>4. QED
  BY <1>1, <1>2, <1>3 DEF LockInv

(* One step of the program takes a rank from one place of the order to the next. *)
LEMMA InOrderNext ==
  ASSUME EnoughBatches, LockInv, NEW r \in Rank, RankStep(r)
  PROVE  InOrder'
<1> USE TrainLoopAssumption DEF Enter, Goto, Released, schedule, history
<1> DEFINE P(q) == AtPlace(pc[q], epoch[q], step[q], calls[q], processed[q])
<1>0. P(r) /\ TypeOK
  BY DEF LockInv, InOrder, TypeInv
<1>a. /\ S \in Nat /\ K = S + 3
      /\ \A s \in Nat : LimitReached(s) <=> s > S
      /\ Batches[r] >= S
  BY StepsPerEpochType, KType DEF EnoughBatches, S
<1>b. /\ epoch[r] \in Nat /\ step[r] \in Nat /\ calls[r] \in Nat /\ processed[r] \in Nat
      /\ Batches[r] \in Nat
  BY <1>0 DEF TypeOK
<1> HIDE DEF P
<1>z. SUFFICES P(r)'
  <2>1. ASSUME NEW q \in Rank, q # r PROVE P(q)'
    <3>1. /\ pc'[q] = pc[q] /\ epoch'[q] = epoch[q] /\ step'[q] = step[q]
          /\ calls'[q] = calls[q] /\ processed'[q] = processed[q]
      BY <1>0, <2>1 DEF TypeOK, RankStep, Configure, ReduceTrainSum, ReduceEvalSum,
         StartLoop, StartEpoch, TrainStep, StopTraining, EndStep, SaveStepCheckpoint,
         EndTrain, SaveEpochCheckpoint, Evaluate, EndRun, ReduceMetrics,
         ReduceMetric, ReduceLastMetric
    <3>2. P(q)
      BY DEF LockInv, InOrder, P
    <3>3. QED
      BY <3>1, <3>2 DEF P
  <2>2. QED
    BY <2>1 DEF InOrder, P
<1>1. CASE Configure(r)
  BY <1>0, <1>1 DEF Configure, P, AtPlace, TypeOK, Closing
<1>2. CASE ReduceTrainSum(r)
  BY <1>0, <1>a, <1>b, <1>2, BaseFacts DEF ReduceTrainSum, P, AtPlace, TypeOK, Closing
<1>3. CASE ReduceEvalSum(r)
  <2>1. CASE epoch[r] = 0
    BY <1>0, <1>a, <1>b, <1>3, <2>1 DEF ReduceEvalSum, P, AtPlace, TypeOK, Closing
  <2>2. CASE epoch[r] # 0
    <3>1. /\ epoch[r] \in 1 .. Epochs /\ step[r] = S + 1
          /\ calls[r] = Base(epoch[r]) + K /\ processed[r] = Done(epoch[r])
      BY <1>0, <1>a, <1>b, <1>3, <2>2, BaseFacts DEF ReduceEvalSum, P, AtPlace, Closing
    <3>2. /\ pc'[r] = "epoch" /\ epoch'[r] = epoch[r] + 1 /\ step'[r] = step[r]
          /\ calls'[r] = calls[r] /\ processed'[r] = processed[r]
      BY <1>0, <1>3, <2>2 DEF ReduceEvalSum, TypeOK
    <3>3. Base(epoch[r] + 1) = Base(epoch[r]) + K /\ LastStep(epoch[r] + 1) = S + 1
      BY <3>1, BaseFacts DEF LastStep
    <3>4. (epoch[r] + 1) - 1 = epoch[r] /\ epoch[r] + 1 \in 1 .. Epochs + 1
      BY <3>1
    <3>5. QED
      BY <3>1, <3>2, <3>3, <3>4 DEF P, AtPlace
  <2>3. QED
    BY <2>1, <2>2
<1>4. CASE StartLoop(r)
  BY <1>0, <1>a, <1>b, <1>4, BaseFacts, DoneFacts DEF StartLoop, P, AtPlace, TypeOK, Closing, LastStep
<1>5. CASE StartEpoch(r)
  BY <1>0, <1>a, <1>b, <1>5, BaseFacts DEF StartEpoch, P, AtPlace, TypeOK, Closing
<1>6. CASE TrainStep(r)
  BY <1>0, <1>a, <1>b, <1>6, BaseFacts, DoneFacts DEF TrainStep, P, AtPlace, TypeOK, Closing
<1>7. CASE StopTraining(r)
  <2>1. /\ epoch[r] \in 1 .. Epochs /\ step[r] = S + 1
        /\ calls[r] = Base(epoch[r]) + S /\ processed[r] = Done(epoch[r] - 1) + S
    BY <1>0, <1>a, <1>b, <1>7, BaseFacts, DoneFacts DEF StopTraining, P, AtPlace, Closing
  <2>2. Done(epoch[r]) = Done(epoch[r] - 1) + S /\ Base(epoch[r]) \in Nat
    <3>1. epoch[r] - 1 \in Nat /\ (epoch[r] - 1) + 1 = epoch[r]
      BY <2>1
    <3>2. QED
      BY <2>1, <3>1, DoneFacts, BaseFacts
  <2>3. QED
    BY <1>0, <1>a, <1>b, <1>7, <2>1, <2>2 DEF StopTraining, P, AtPlace, TypeOK, Closing
<1>8. CASE EndStep(r)
  BY <1>0, <1>a, <1>b, <1>8, BaseFacts, DoneFacts DEF EndStep, P, AtPlace, TypeOK, Closing
<1>9. CASE SaveStepCheckpoint(r)
  BY <1>0, <1>a, <1>b, <1>9, BaseFacts, DoneFacts DEF SaveStepCheckpoint, P, AtPlace, TypeOK, Closing
<1>10. CASE EndTrain(r)
  BY <1>0, <1>a, <1>b, <1>10, BaseFacts DEF EndTrain, P, AtPlace, TypeOK, Closing
<1>11. CASE SaveEpochCheckpoint(r)
  BY <1>0, <1>a, <1>b, <1>11, BaseFacts DEF SaveEpochCheckpoint, P, AtPlace, TypeOK, Closing
<1>12. CASE Evaluate(r)
  BY <1>0, <1>a, <1>b, <1>12, BaseFacts DEF Evaluate, P, AtPlace, TypeOK, Closing
<1>13. CASE EndRun(r)
  <2>1. /\ epoch[r] = Epochs + 1 /\ step[r] = LastStep(epoch[r])
        /\ calls[r] = Base(epoch[r]) /\ processed[r] = Done(epoch[r] - 1)
    BY <1>0, <1>b, <1>13 DEF EndRun, P, AtPlace, Closing
  <2>2. (Epochs + 1) - 1 = Epochs
    OBVIOUS
  <2>3. QED
    BY <1>0, <1>b, <1>13, <2>1, <2>2 DEF EndRun, P, AtPlace, TypeOK
<1>14. CASE ReduceMetrics(r)
  BY <1>0, <1>a, <1>b, <1>14, BaseFacts DEF ReduceMetrics, ReduceMetric,
     ReduceLastMetric, P, AtPlace, TypeOK, Closing
<1>15. QED
  BY <1>1, <1>2, <1>3, <1>4, <1>5, <1>6, <1>7, <1>8, <1>9, <1>10, <1>11, <1>12,
     <1>13, <1>14 DEF RankStep

(* The collectives keep a rank outside them from being ahead: it leaves one only
   when every rank has called as many. *)
LEMMA WaitingNext ==
  ASSUME LockInv, NEW r \in Rank, RankStep(r)
  PROVE  Waiting'
<1> USE DEF Enter, Goto, Sites, Barriers, Allreduces
<1>1. TypeOK /\ Waiting
  BY DEF LockInv, TypeInv
<1>2. \A q \in Rank : calls'[q] \in Nat /\ calls'[q] >= calls[q]
  BY <1>1 DEF TypeOK, RankStep, Configure, ReduceTrainSum, ReduceEvalSum,
     StartLoop, StartEpoch, TrainStep, StopTraining, EndStep, SaveStepCheckpoint,
     EndTrain, SaveEpochCheckpoint, Evaluate, EndRun, ReduceMetrics,
     ReduceMetric, ReduceLastMetric
<1>3. \A q \in Rank : q # r => pc'[q] = pc[q] /\ calls'[q] = calls[q]
  BY <1>1 DEF TypeOK, RankStep, Configure, ReduceTrainSum, ReduceEvalSum,
     StartLoop, StartEpoch, TrainStep, StopTraining, EndStep, SaveStepCheckpoint,
     EndTrain, SaveEpochCheckpoint, Evaluate, EndRun, ReduceMetrics,
     ReduceMetric, ReduceLastMetric
(* r ends outside a collective only if it was outside or has been released. *)
<1>4. pc'[r] \notin Sites =>
        calls'[r] = calls[r] /\ \A q \in Rank : calls[q] >= calls[r]
  BY <1>1 DEF TypeOK, Waiting, RankStep, Configure, ReduceTrainSum, ReduceEvalSum,
     StartLoop, StartEpoch, TrainStep, StopTraining, EndStep, SaveStepCheckpoint,
     EndTrain, SaveEpochCheckpoint, Evaluate, EndRun, ReduceMetrics,
     ReduceMetric, ReduceLastMetric, Released
<1>5. SUFFICES ASSUME NEW p \in Rank, pc'[p] \notin Sites, NEW q \in Rank
               PROVE  calls'[q] >= calls'[p]
  BY DEF Waiting
<1>6. calls[q] >= calls[p] /\ calls'[p] = calls[p]
  BY <1>1, <1>3, <1>4, <1>5 DEF Waiting
<1>7. calls[q] \in Nat /\ calls[p] \in Nat
  BY <1>1 DEF TypeOK
<1>8. QED
  BY <1>2, <1>6, <1>7

(* The program order and the waiting are kept by every step. *)
LEMMA LockNext == ASSUME EnoughBatches PROVE LockInv /\ [Next]_vars => LockInv'
<1> SUFFICES ASSUME LockInv, [Next]_vars PROVE LockInv'
  OBVIOUS
<1>1. TypeInv'
  BY TypeNext DEF LockInv
<1>2. ASSUME NEW r \in Rank, RankStep(r) PROVE InOrder' /\ Waiting'
  BY <1>2, InOrderNext, WaitingNext
<1>3. CASE UNCHANGED vars
  BY <1>1, <1>3 DEF LockInv, InOrder, Waiting, vars
<1>4. CASE Next
  BY <1>1, <1>2, <1>3, <1>4 DEF LockInv, Next, Terminated
<1>5. QED
  BY <1>1, <1>3, <1>4 DEF LockInv

-------------------------------------------------------------------------------
(* What the program order implies *)

(* The number of collectives a rank has called tells which one it waits in, and
   in which epoch and step. *)
LEMMA SitesApart ==
  ASSUME NEW p1 \in Sites, NEW e1, NEW s1, NEW c, NEW n1,
         NEW p2 \in Sites, NEW e2, NEW s2, NEW n2,
         AtPlace(p1, e1, s1, c, n1), AtPlace(p2, e2, s2, c, n2)
  PROVE  p1 = p2 /\ e1 = e2 /\ s1 = s2
<1> USE TrainLoopAssumption, StepsPerEpochType, KType DEF Sites, Barriers, Allreduces, Closing
<1>1. e1 \in 0 .. Epochs + 1 /\ e2 \in 0 .. Epochs + 1
  BY DEF AtPlace
<1>2. /\ e1 = 0 => c \in 1 .. 3
      /\ e2 = 0 => c \in 1 .. 3
  BY DEF AtPlace
<1>3. ASSUME NEW p \in Sites, NEW e \in 0 .. Epochs + 1, NEW s, NEW n,
             e # 0, AtPlace(p, e, s, c, n)
      PROVE  c > Base(e) /\ c \in Nat /\ (e <= Epochs => c <= Base(e) + K)
  <2>1. Base(e) \in Nat
    BY <1>3, BaseFacts
  <2>2. QED
    BY <1>3, <2>1 DEF AtPlace
<1>4. e1 = e2
  <2>a. /\ e1 # 0 => c > Base(e1) /\ c \in Nat /\ (e1 <= Epochs => c <= Base(e1) + K)
        /\ e2 # 0 => c > Base(e2) /\ c \in Nat /\ (e2 <= Epochs => c <= Base(e2) + K)
    BY <1>1, <1>3
  <2>b. /\ e1 # 0 => Base(e1) \in Nat /\ Base(e1) >= 3
        /\ e2 # 0 => Base(e2) \in Nat /\ Base(e2) >= 3
    BY <1>1, BaseFacts
  <2>1. ASSUME e1 < e2, e1 # 0 PROVE FALSE
    <3>1. Base(e1) + K <= Base(e2)
      BY <1>1, <2>1, BaseMonotone
    <3>2. QED
      BY <1>1, <2>1, <2>a, <2>b, <3>1
  <2>2. ASSUME e2 < e1, e2 # 0 PROVE FALSE
    <3>1. Base(e2) + K <= Base(e1)
      BY <1>1, <2>2, BaseMonotone
    <3>2. QED
      BY <1>1, <2>2, <2>a, <2>b, <3>1
  <2>3. ASSUME e1 = 0, e2 # 0 PROVE FALSE
    BY <1>2, <2>3, <2>a, <2>b
  <2>4. ASSUME e2 = 0, e1 # 0 PROVE FALSE
    BY <1>2, <2>4, <2>a, <2>b
  <2>5. QED
    BY <1>1, <2>1, <2>2, <2>3, <2>4
<1>5. Base(e1) \in Nat \/ e1 = 0
  BY <1>1, BaseFacts
<1>6. QED
  BY <1>1, <1>4, <1>5 DEF AtPlace

(* Ranks never meet in the wrong collective, for any number of ranks and any
   schedule, if the loaders have enough batches. *)
THEOREM CollectivesNeverMismatch ==
  ASSUME EnoughBatches
  PROVE  Spec => []CollectivesAgree
<1>1. LockInv => CollectivesAgree
  BY SitesApart DEF LockInv, InOrder, CollectivesAgree
<1>2. LockInv /\ [Next]_vars => LockInv'
  BY LockNext
<1>3. QED
  BY LockInit, <1>1, <1>2, PTL DEF Spec

(* A rank that has called at least the collectives of a rank standing outside
   them has also computed at least its batches. *)
LEMMA BatchesFollowCalls ==
  ASSUME NEW p1 \in Places \ Sites, NEW e1, NEW s1, NEW c1 \in Nat, NEW n1,
         NEW p2 \in Places, NEW e2, NEW s2, NEW c2 \in Nat, NEW n2,
         AtPlace(p1, e1, s1, c1, n1), AtPlace(p2, e2, s2, c2, n2), c2 >= c1
  PROVE  n1 \in Nat /\ n2 \in Nat /\ n2 >= n1
<1> USE TrainLoopAssumption, StepsPerEpochType, KType
     DEF Places, Sites, Barriers, Allreduces, Closing
<1>1. e1 \in 0 .. Epochs + 1 /\ e2 \in 0 .. Epochs + 1
  BY DEF AtPlace
<1>2. /\ e1 # 0 => Base(e1) \in Nat /\ Done(e1 - 1) \in Nat /\ Done(e1) = Done(e1 - 1) + S
      /\ e2 # 0 => Base(e2) \in Nat /\ Done(e2 - 1) \in Nat /\ Done(e2) = Done(e2 - 1) + S
  <2>1. ASSUME NEW e \in 0 .. Epochs + 1, e # 0
        PROVE  Base(e) \in Nat /\ Done(e - 1) \in Nat /\ Done(e) = Done(e - 1) + S
    <3>1. e - 1 \in Nat /\ (e - 1) + 1 = e
      BY <2>1
    <3>2. QED
      BY <2>1, <3>1, BaseFacts, DoneFacts
  <2>2. QED
    BY <1>1, <2>1
<1>3. n1 \in Nat /\ n2 \in Nat
  BY <1>1, <1>2 DEF AtPlace
<1>4. CASE e1 = 0
  BY <1>1, <1>3, <1>4 DEF AtPlace
<1>5. CASE e1 # 0
  <2>1. c1 >= Base(e1) /\ Base(e1) >= 3 /\ n1 >= Done(e1 - 1)
    BY <1>1, <1>2, <1>5, BaseFacts DEF AtPlace
  <2>2. CASE e2 = 0
    <3>1. c2 <= 3 /\ p2 = "start"
      BY <1>2, <1>5, <2>1, <2>2 DEF AtPlace
    <3>2. e1 = 1 /\ c1 = 3
      <4>1. ASSUME e1 > 1 PROVE FALSE
        <5>1. Base(1) + K <= Base(e1) /\ Base(1) = 3
          BY <1>1, <4>1, BaseMonotone, BaseFacts
        <5>2. QED
          BY <1>2, <1>5, <2>1, <3>1, <5>1
      <4>2. QED
        BY <1>1, <1>2, <1>5, <2>1, <3>1, <4>1
    <3>3. n1 = 0
      <4>1. Base(e1) = 3 /\ Done(e1 - 1) = 0
        BY <3>2, BaseFacts, DoneFacts
      <4>2. QED
        BY <1>5, <3>2, <4>1 DEF AtPlace
    <3>4. QED
      BY <1>3, <3>3
  <2>3. CASE e2 # 0 /\ e2 = e1
    BY <1>1, <1>2, <1>3, <1>5, <2>3 DEF AtPlace
  <2>4. CASE e2 > e1
    <3>1. n2 >= Done(e2 - 1)
      BY <1>1, <1>2, <1>5, <2>4 DEF AtPlace
    <3>2. Done(e1) <= Done(e2 - 1)
      BY <1>1, <2>4, DoneMonotone
    <3>3. e1 \in 1 .. Epochs
      BY <1>1, <1>5, <2>4
    <3>4. n1 <= Done(e1)
      BY <1>2, <1>5, <3>3 DEF AtPlace
    <3>5. QED
      BY <1>2, <1>3, <1>5, <3>1, <3>2, <3>4, <1>1, <2>4
  <2>5. CASE e2 # 0 /\ e2 < e1
    <3>1. c2 <= Base(e2) + K /\ Base(e2) + K <= Base(e1)
      <4>1. e2 \in 1 .. Epochs
        BY <1>1, <2>5
      <4>2. c2 <= Base(e2) + K
        BY <1>2, <2>5, <4>1 DEF AtPlace
      <4>3. QED
        BY <1>1, <2>5, <4>2, BaseMonotone
    <3>2. c2 = Base(e2) + K /\ c1 = Base(e1) /\ Base(e1) = Base(e2) + K
      BY <1>2, <1>5, <2>1, <2>5, <3>1
    <3>3. e1 = e2 + 1
      <4>1. ASSUME e2 + 1 < e1 PROVE FALSE
        <5>1. Base(e2 + 1) + K <= Base(e1) /\ Base(e2 + 1) = Base(e2) + K
          BY <1>1, <2>5, <4>1, BaseMonotone, BaseFacts
        <5>2. QED
          BY <1>2, <2>5, <3>2, <5>1
      <4>2. QED
        BY <1>1, <2>5, <4>1
    <3>4. n2 = Done(e2)
      <4>1. e2 \in 1 .. Epochs
        BY <1>1, <2>5
      <4>2. QED
        BY <1>2, <2>5, <3>2, <4>1 DEF AtPlace
    <3>5. n1 = Done(e1 - 1)
      BY <1>1, <1>2, <1>5, <3>2 DEF AtPlace
    <3>6. QED
      BY <1>1, <1>3, <3>3, <3>4, <3>5
  <2>6. QED
    BY <1>1, <2>2, <2>3, <2>4, <2>5
<1>6. QED
  BY <1>4, <1>5

(* No rank has computed fewer batches than one that is outside a collective. *)
LEMMA NoRankBehind ==
  ASSUME LockInv, NEW r \in Rank, pc[r] \notin Sites, NEW q \in Rank
  PROVE  processed[q] >= processed[r]
<1>1. /\ pc[r] \in Places \ Sites /\ pc[q] \in Places
      /\ calls[r] \in Nat /\ calls[q] \in Nat
  BY DEF LockInv, TypeInv, TypeOK
<1>2. calls[q] >= calls[r]
  BY DEF LockInv, Waiting
<1>3. /\ AtPlace(pc[r], epoch[r], step[r], calls[r], processed[r])
      /\ AtPlace(pc[q], epoch[q], step[q], calls[q], processed[q])
  BY DEF LockInv, InOrder
<1>4. QED
  BY <1>1, <1>2, <1>3, BatchesFollowCalls

(* Every checkpoint is of one step: a rank that writes one knows that no rank
   has a batch of that step, or of an earlier one, left to compute. *)
THEOREM CheckpointsConsistent ==
  ASSUME EnoughBatches
  PROVE  Spec => []CheckpointConsistent
<1>1. LockInv => CheckpointConsistent
  BY NoRankBehind DEF CheckpointConsistent, Saving, Sites, Barriers, Allreduces
<1>2. LockInv /\ [Next]_vars => LockInv'
  BY LockNext
<1>3. QED
  BY LockInit, <1>1, <1>2, PTL DEF Spec

(* The training loop implements the bulk-synchronous job (its safety part: that
   the job goes on to its last step is left to TLC). *)
THEOREM TrainLoopIsBulkSynchronous ==
  ASSUME EnoughBatches
  PROVE  Spec => Bulk!Init /\ [][Bulk!Next]_processed
<1>1. Init => Bulk!Init
  BY DEF Init, Bulk!Init
<1>2. LockInv /\ [Next]_vars => [Bulk!Next]_processed
  <2> SUFFICES ASSUME LockInv, [Next]_vars PROVE [Bulk!Next]_processed
    OBVIOUS
  <2>1. ASSUME NEW r \in Rank, TrainStep(r) PROVE Bulk!Step(r)
    <3>1. pc[r] = "fetch" /\ ~LimitReached(step[r]) /\ processed' = [processed EXCEPT ![r] = @ + 1]
      BY <2>1 DEF TrainStep
    <3>2. \A q \in Rank : processed[q] >= processed[r]
      BY <3>1, NoRankBehind DEF Sites, Barriers, Allreduces
    <3>3. /\ epoch[r] \in 1 .. Epochs /\ step[r] \in 1 .. S + 1
          /\ processed[r] = Done(epoch[r] - 1) + step[r] - 1
      BY <3>1 DEF LockInv, InOrder, AtPlace, Closing
    <3>4. step[r] <= S
      BY <3>1, <3>3, StepsPerEpochType
    <3>5. Done(epoch[r] - 1) + S <= Done(Epochs) /\ Done(epoch[r] - 1) \in Nat
      <4>1. epoch[r] - 1 \in Nat /\ (epoch[r] - 1) + 1 = epoch[r] /\ epoch[r] \in Nat
        BY <3>3
      <4>2. Done(epoch[r]) = Done(epoch[r] - 1) + S /\ Done(epoch[r] - 1) \in Nat
        BY <4>1, DoneFacts
      <4>3. Done(epoch[r]) <= Done(Epochs)
        BY <3>3, <4>1, DoneMonotone, TrainLoopAssumption
      <4>4. QED
        BY <4>2, <4>3
    <3>6. processed[r] < Done(Epochs)
      BY <3>3, <3>4, <3>5, StepsPerEpochType, DoneFacts, TrainLoopAssumption
    <3>7. QED
      BY <3>1, <3>2, <3>6 DEF Bulk!Step, Done, S
  <2>2. ASSUME NEW r \in Rank, RankStep(r), ~TrainStep(r) PROVE processed' = processed
    BY <2>2 DEF RankStep, Configure, ReduceTrainSum, ReduceEvalSum,
       StartLoop, StartEpoch, StopTraining, EndStep, SaveStepCheckpoint,
       EndTrain, SaveEpochCheckpoint, Evaluate, EndRun, ReduceMetrics,
       ReduceMetric, ReduceLastMetric, history
  <2>3. CASE UNCHANGED vars
    BY <2>3 DEF vars
  <2>4. QED
    BY <2>1, <2>2, <2>3 DEF Next, Terminated, Bulk!Next
<1>3. LockInv /\ [Next]_vars => LockInv'
  BY LockNext
<1>4. QED
  BY LockInit, <1>1, <1>2, <1>3, PTL DEF Spec

-------------------------------------------------------------------------------
(* The abstract job keeps its ranks within one step of each other; so, through
   the implementation, does the training loop. *)
LEMMA BulkLockstep ==
  Bulk!Init /\ [][Bulk!Next]_processed => [](Bulk!TypeOK /\ Bulk!Lockstep)
<1> DEFINE Inv == Bulk!TypeOK /\ Bulk!Lockstep
<1> USE TrainLoopAssumption DEF Bulk!TypeOK, Bulk!Lockstep
<1>0. Epochs * StepsPerEpoch \in Nat
  BY DoneFacts DEF Done, S
<1>1. Bulk!Init => Inv
  BY <1>0 DEF Bulk!Init
<1>2. Inv /\ [Bulk!Next]_processed => Inv'
  <2> SUFFICES ASSUME Inv, [Bulk!Next]_processed PROVE Inv'
    OBVIOUS
  <2>1. CASE UNCHANGED processed
    BY <2>1
  <2>2. ASSUME NEW r \in Rank, Bulk!Step(r) PROVE Inv'
    BY <1>0, <2>2 DEF Bulk!Step
  <2>3. QED
    BY <2>1, <2>2 DEF Bulk!Next
<1>3. QED
  BY <1>1, <1>2, PTL

(* No rank is ever more than one training step ahead of another. *)
THEOREM RanksInLockstep ==
  ASSUME EnoughBatches
  PROVE  Spec => []Bulk!Lockstep
<1>1. Spec => Bulk!Init /\ [][Bulk!Next]_processed
  BY TrainLoopIsBulkSynchronous
<1>2. Bulk!TypeOK /\ Bulk!Lockstep => Bulk!Lockstep
  OBVIOUS
<1>3. QED
  BY <1>1, <1>2, BulkLockstep, PTL

-------------------------------------------------------------------------------
(* Multiples *)

(* Division leaves a remainder below the divisor. *)
LEMMA Quotient ==
  ASSUME NEW n \in Nat \ {0}, NEW a \in Nat
  PROVE  \E k \in Nat, m \in 0 .. n - 1 : a = n * k + m /\ m = a % n
<1>1. a \div n \in Nat /\ a = n * (a \div n) + (a % n) /\ a % n \in 0 .. n - 1
  OBVIOUS
<1> QED
  BY <1>1

(* A remainder is 0 if and only if the number is a multiple. *)
LEMMA Multiple ==
  ASSUME NEW n \in Nat \ {0}, NEW a \in Nat
  PROVE  (a % n = 0) <=> \E k \in Nat : a = n * k
<1>1. PICK j \in Nat, m \in 0 .. n - 1 : a = n * j + m /\ m = a % n
  BY Quotient
<1>2. ASSUME m = 0 PROVE a = n * j
  <2>1. n * j \in Nat
    OBVIOUS
  <2> QED
    BY <1>1, <1>2, <2>1
<1>3. ASSUME NEW k \in Nat, a = n * k PROVE m = 0
  <2>1. n * k \in Nat /\ n * j \in Nat
    OBVIOUS
  <2>2. CASE j >= k + 1
    <3>1. PICK d \in Nat : j = k + 1 + d
      BY <2>2, j - k - 1 \in Nat
    <3>2. n * j = n * k + n + n * d /\ n * d \in Nat
      BY <3>1
    <3> QED
      BY <1>1, <1>3, <2>1, <3>2
  <2>3. CASE k >= j + 1
    <3>1. PICK d \in Nat : k = j + 1 + d
      BY <2>3, k - j - 1 \in Nat
    <3>2. n * k = n * j + n + n * d /\ n * d \in Nat
      BY <3>1
    <3> QED
      BY <1>1, <1>3, <2>1, <3>2
  <2>4. CASE j = k
    BY <1>1, <1>3, <2>1, <2>4
  <2> QED
    BY <2>2, <2>3, <2>4
<1>4. (m = 0) <=> \E k \in Nat : a = n * k
  BY <1>2, <1>3
<1> QED
  BY <1>1, <1>4

(* The multiple after a multiple *)
LEMMA NextMultiple ==
  ASSUME NEW n \in Nat \ {0}, NEW a \in Nat, a % n = 0
  PROVE  (a + n) % n = 0
<1>1. PICK k \in Nat : a = n * k
  BY Multiple
<1>2. a + n = n * (k + 1) /\ k + 1 \in Nat /\ a + n \in Nat
  BY <1>1
<1> QED
  BY <1>2, Multiple

(* Two multiples less than a divisor apart are one. *)
LEMMA OneMultiple ==
  ASSUME NEW n \in Nat \ {0}, NEW a \in Nat, NEW b \in Nat, a % n = 0, b % n = 0,
         a <= b, b < a + n
  PROVE  a = b
<1>1. PICK k \in Nat, j \in Nat : a = n * k /\ b = n * j
  BY Multiple
<1>2. CASE j >= k + 1
  <2>1. PICK d \in Nat : j = k + 1 + d
    BY <1>2, j - k - 1 \in Nat
  <2>2. n * j = n * k + n + n * d /\ n * d \in Nat /\ n * k \in Nat
    BY <2>1
  <2> QED
    BY <1>1, <2>2
<1>3. CASE k >= j + 1
  <2>1. PICK d \in Nat : k = j + 1 + d
    BY <1>3, k - j - 1 \in Nat
  <2>2. n * k = n * j + n + n * d /\ n * d \in Nat /\ n * j \in Nat
    BY <2>1
  <2> QED
    BY <1>1, <2>2
<1>4. j = k \/ j >= k + 1 \/ k >= j + 1
  OBVIOUS
<1> QED
  BY <1>1, <1>2, <1>3, <1>4

-------------------------------------------------------------------------------
(* The points the counters name *)

(* n is the next of first, first + between, ... after g. *)
NextIs(first, between, g, n) ==
  /\ n \in Nat
  /\ between = 0 => n = first
  /\ between > 0 => /\ n > g /\ n >= first /\ (n - first) % between = 0
                    /\ n = first \/ n <= g + between

(* e is one of first, first + between, ... *)
IsDue(first, between, e) ==
  e >= first /\ (IF between = 0 THEN e = first ELSE (e - first) % between = 0)

(* The next point due is the point at hand, which then gives way to the one after
   it, or remains the next. *)
LEMMA NextDue ==
  ASSUME NEW first \in Nat \ {0}, NEW between \in Nat, NEW g \in Nat, NEW n \in Nat,
         NextIs(first, between, g, n)
  PROVE  /\ g + 1 = n <=> IsDue(first, between, g + 1)
         /\ g + 1 # n => NextIs(first, between, g + 1, n)
         /\ g + 1 = n => NextIs(first, between, g + 1, n + between)
<1>1. CASE between = 0
  BY <1>1 DEF NextIs, IsDue
<1>2. CASE between > 0
  <2>1. /\ n > g /\ n >= first /\ (n - first) % between = 0
        /\ n = first \/ n <= g + between
        /\ n - first \in Nat /\ between \in Nat \ {0}
    BY <1>2 DEF NextIs
  <2>2. ASSUME IsDue(first, between, g + 1) PROVE g + 1 = n
    <3>1. /\ g + 1 >= first /\ (g + 1 - first) % between = 0 /\ g + 1 - first \in Nat
      BY <1>2, <2>2 DEF IsDue
    <3>2. CASE n = first
      BY <2>1, <3>1, <3>2
    <3>3. CASE n <= g + between
      <4>1. g + 1 - first <= n - first /\ n - first < g + 1 - first + between
        BY <2>1, <3>1, <3>3
      <4>2. g + 1 - first = n - first
        BY <2>1, <3>1, <4>1, OneMultiple
      <4> QED
        BY <4>2
    <3> QED
      BY <2>1, <3>2, <3>3
  <2>3. g + 1 = n => IsDue(first, between, g + 1)
    BY <1>2, <2>1 DEF IsDue
  <2>4. g + 1 # n => NextIs(first, between, g + 1, n)
    BY <1>2, <2>1 DEF NextIs
  <2>5. g + 1 = n => NextIs(first, between, g + 1, n + between)
    <3>1. (n - first + between) % between = 0
      BY <2>1, NextMultiple
    <3>2. n + between - first = n - first + between
      BY <2>1
    <3>3. (n + between - first) % between = 0
      BY <3>1, <3>2
    <3> QED
      BY <1>2, <2>1, <3>3 DEF NextIs
  <2> QED
    BY <2>2, <2>3, <2>4, <2>5
<1> QED
  BY <1>1, <1>2

(* Whether checkpoints are taken by step, or by epoch *)
ByStep  == DoCheckpoint /\ StepsBetweenCheckpoints > 0
ByEpoch == DoCheckpoint /\ StepsBetweenCheckpoints < 0

(* No checkpoint is taken by epoch if the first is due after epoch 0: the counter
   starts below the first epoch and only advances when it is met. *)
DueCheckpoints == IF ByEpoch /\ CheckpointAfterEpoch = 0 THEN {} ELSE ExpectedCheckpoints

(* The checkpoints by step are those at the multiples of steps_between_checkpoints. *)
LEMMA DueStepCheckpoints ==
  ASSUME StepsBetweenCheckpoints >= 0
  PROVE  /\ \A c \in DueCheckpoints : c[1] \in 1 .. Epochs /\ c[2] \in 1 .. S
                                         /\ c = <<c[1], c[2]>> /\ ByStep
         /\ \A e \in 1 .. Epochs, s \in 1 .. S :
              <<e, s>> \in DueCheckpoints <=> ByStep /\ s % StepsBetweenCheckpoints = 0
  BY TrainLoopAssumption, StepsPerEpochType
     DEF DueCheckpoints, ExpectedCheckpoints, ByStep, ByEpoch, S

(* The checkpoints by epoch are those at the ends of the epochs due. *)
LEMMA DueEpochCheckpoints ==
  ASSUME StepsBetweenCheckpoints < 0
  PROVE  /\ \A c \in DueCheckpoints : /\ c[1] \in 1 .. Epochs /\ c[2] = S + 1
                                         /\ c = <<c[1], c[2]>> /\ ByEpoch
                                         /\ CheckpointAfterEpoch > 0
         /\ \A e \in 1 .. Epochs :
              <<e, S + 1>> \in DueCheckpoints <=>
                ByEpoch /\ CheckpointAfterEpoch > 0
                /\ IsDue(CheckpointAfterEpoch, EpochsBetweenCheckpoints, e)
<1>1. CASE ~ByEpoch \/ CheckpointAfterEpoch = 0
  BY <1>1, TrainLoopAssumption DEF DueCheckpoints, ExpectedCheckpoints, ByEpoch
<1>2. CASE ByEpoch /\ CheckpointAfterEpoch > 0
  <2>1. DueCheckpoints = {<<e, S + 1>> : e \in {f \in CheckpointAfterEpoch .. Epochs :
                            IsDue(CheckpointAfterEpoch, EpochsBetweenCheckpoints, f)}}
    <3>1. \A f \in CheckpointAfterEpoch .. Epochs :
            IsDue(CheckpointAfterEpoch, EpochsBetweenCheckpoints, f) <=>
              IF EpochsBetweenCheckpoints = 0 THEN f = CheckpointAfterEpoch
              ELSE (f - CheckpointAfterEpoch) % EpochsBetweenCheckpoints = 0
      BY TrainLoopAssumption DEF IsDue
    <3>2. DueCheckpoints = {<<e, S + 1>> : e \in
            {f \in CheckpointAfterEpoch .. Epochs :
               IF EpochsBetweenCheckpoints = 0 THEN f = CheckpointAfterEpoch
               ELSE (f - CheckpointAfterEpoch) % EpochsBetweenCheckpoints = 0}}
      BY <1>2, TrainLoopAssumption DEF DueCheckpoints, ExpectedCheckpoints, ByEpoch, S
    <3> QED
      BY <3>1, <3>2
  <2>2. \A e \in 1 .. Epochs : IsDue(CheckpointAfterEpoch, EpochsBetweenCheckpoints, e)
                               => e \in CheckpointAfterEpoch .. Epochs
    BY TrainLoopAssumption DEF IsDue
  <2>3. \A e \in CheckpointAfterEpoch .. Epochs : e \in 1 .. Epochs
    BY <1>2, TrainLoopAssumption
  <2>4. \A c \in DueCheckpoints : c[1] \in 1 .. Epochs /\ c[2] = S + 1 /\ c = <<c[1], c[2]>>
    BY <2>1, <2>3
  <2>5. ASSUME NEW e \in 1 .. Epochs
        PROVE  <<e, S + 1>> \in DueCheckpoints
                 <=> IsDue(CheckpointAfterEpoch, EpochsBetweenCheckpoints, e)
    BY <2>1, <2>2
  <2> QED
    BY <1>2, <2>4, <2>5
<1> QED
  BY <1>1, <1>2, TrainLoopAssumption

-------------------------------------------------------------------------------
(* The schedule so far *)

Decided == {"evaluate", "reconf_train", "reconf_eval"}

(* The epochs after which a rank at place p of epoch e has decided on a
   checkpoint, and on an evaluation *)
SaveEpochs(p, e) == IF p \in Decided \/ e = 0 THEN e ELSE e - 1
EvalEpochs(p, e) == IF p \in {"reconf_train", "reconf_eval"} \/ e = 0 THEN e ELSE e - 1

(* The rank is past the point of checkpoint c. *)
Passed(p, e, s, c) ==
  \/ c[1] < e
  \/ c[1] = e /\ p # "epoch" /\ (c[2] < s \/ p \in Decided)

(* A rank has saved the due checkpoints it is past. *)
SavedInv ==
  \A r \in Rank : saved[r] = {c \in DueCheckpoints : Passed(pc[r], epoch[r], step[r], c)}

(* next_checkpoint_step is the next multiple, from the rank's step on. *)
StepsInv ==
  \A r \in Rank :
    /\ ByStep /\ pc[r] \in {"fetch", "step", "save"} =>
         /\ next_checkpoint_step[r] \in Nat
         /\ next_checkpoint_step[r] % StepsBetweenCheckpoints = 0
         /\ step[r] <= next_checkpoint_step[r]
         /\ next_checkpoint_step[r] < step[r] + StepsBetweenCheckpoints
    /\ StepsBetweenCheckpoints = 0 /\ pc[r] \in {"fetch", "step"} => next_checkpoint_step[r] = 0
    /\ pc[r] = "save" => ByStep /\ step[r] = next_checkpoint_step[r]

(* next_checkpoint_epoch is the next epoch due after those decided on. *)
EpochsInv ==
  \A r \in Rank :
    /\ ByEpoch => IF CheckpointAfterEpoch = 0 THEN next_checkpoint_epoch[r] = 0
                  ELSE NextIs(CheckpointAfterEpoch, EpochsBetweenCheckpoints,
                              SaveEpochs(pc[r], epoch[r]), next_checkpoint_epoch[r])
    /\ pc[r] = "save_epoch" => ByEpoch /\ epoch[r] = next_checkpoint_epoch[r]

(* next_eval_epoch is the next epoch due, and those before it are evaluated. *)
EvalsInv ==
  EvalAfterEpoch > 0 => \A r \in Rank :
    /\ DoEval => NextIs(EvalAfterEpoch, EpochsBetweenEvals, EvalEpochs(pc[r], epoch[r]),
                        next_eval_epoch[r])
    /\ evaluated[r] = {e \in ExpectedEvals : e <= EvalEpochs(pc[r], epoch[r])}

ScheduleInv == SavedInv /\ StepsInv /\ EpochsInv /\ EvalsInv

(* A checkpoint is due in an epoch there is, at a step or at the end. *)
LEMMA DueIds ==
  \A c \in DueCheckpoints : c[1] \in 1 .. Epochs /\ c[2] \in 1 .. S + 1 /\ c = <<c[1], c[2]>>
  BY DueStepCheckpoints, DueEpochCheckpoints, TrainLoopAssumption, StepsPerEpochType

(* Every counter starts at its first point, and nothing is saved or evaluated. *)
LEMMA ScheduleInit == Init => ScheduleInv
<1> SUFFICES ASSUME Init PROVE ScheduleInv
  OBVIOUS
<1>1. ASSUME NEW r \in Rank
      PROVE  /\ pc[r] = "init" /\ epoch[r] = 0 /\ saved[r] = {} /\ evaluated[r] = {}
             /\ next_checkpoint_epoch[r] = CheckpointAfterEpoch
             /\ next_eval_epoch[r] = EvalAfterEpoch
  BY DEF Init
<1>2. SavedInv
  BY <1>1, DueIds, TrainLoopAssumption DEF SavedInv, Passed
<1>3. StepsInv
  BY <1>1 DEF StepsInv
<1>4. ASSUME NEW first \in Nat, first > 0, NEW between \in Nat PROVE NextIs(first, between, 0, first)
  <2>1. between > 0 => (first - first) % between = 0
    <3>1. between > 0 => 0 % between = 0
      OBVIOUS
    <3> QED
      BY <3>1, first - first = 0
  <2> QED
    BY <1>4, <2>1 DEF NextIs
<1>5. EpochsInv
  BY <1>1, <1>4, TrainLoopAssumption DEF EpochsInv, SaveEpochs
<1>6. EvalsInv
  BY <1>1, <1>4, TrainLoopAssumption DEF EvalsInv, EvalEpochs, ExpectedEvals
<1> QED
  BY <1>2, <1>3, <1>5, <1>6 DEF ScheduleInv

(* A step of one rank leaves the others where they are. *)
LEMMA OthersKeep ==
  ASSUME TypeOK, NEW r \in Rank, RankStep(r), NEW q \in Rank, q # r
  PROVE  /\ pc'[q] = pc[q] /\ epoch'[q] = epoch[q] /\ step'[q] = step[q]
         /\ next_checkpoint_step'[q] = next_checkpoint_step[q]
         /\ next_checkpoint_epoch'[q] = next_checkpoint_epoch[q]
         /\ next_eval_epoch'[q] = next_eval_epoch[q]
         /\ saved'[q] = saved[q] /\ evaluated'[q] = evaluated[q]
  BY DEF TypeOK, RankStep, Configure, ReduceTrainSum, ReduceEvalSum,
     StartLoop, StartEpoch, TrainStep, StopTraining, EndStep, SaveStepCheckpoint,
     EndTrain, SaveEpochCheckpoint, Evaluate, EndRun, ReduceMetrics,
     ReduceMetric, ReduceLastMetric, Enter, Goto, schedule, history

(* Where a rank is, by the program order *)
LEMMA Positions ==
  ASSUME LockInv, NEW r \in Rank
  PROVE  /\ epoch[r] \in 0 .. Epochs + 1 /\ step[r] \in Nat
         /\ pc[r] \in {"fetch", "step", "save"} \cup Closing => epoch[r] \in 1 .. Epochs
         /\ pc[r] \in {"step", "save"} => step[r] \in 1 .. S
         /\ pc[r] = "fetch" => step[r] \in 1 .. S + 1
         /\ pc[r] \in Closing => step[r] = S + 1
         /\ pc[r] \in {"reconf_train", "reconf_eval"} =>
              epoch[r] = 0 \/ (epoch[r] \in 1 .. Epochs /\ step[r] = S + 1)
         /\ pc[r] = "epoch" => epoch[r] \in 1 .. Epochs + 1
         /\ pc[r] \in {"au", "throughput", "eval_au", "eval_throughput", "done"}
              => epoch[r] = Epochs + 1
         /\ pc[r] \in {"init", "start"} => epoch[r] = 0
<1>1. AtPlace(pc[r], epoch[r], step[r], calls[r], processed[r])
  BY DEF LockInv, InOrder
<1>2. epoch[r] \in 0 .. Epochs + 1 /\ step[r] \in Nat
  BY DEF LockInv, TypeInv, TypeOK
<1> QED
  BY <1>1, <1>2, StepsPerEpochType, TrainLoopAssumption DEF AtPlace, Closing

(* A step's checkpoint is saved if and only if the counter names it. *)
LEMMA StepNamed ==
  ASSUME LockInv, StepsInv, NEW r \in Rank, pc[r] \in {"step", "save"}
  PROVE  /\ StepsBetweenCheckpoints >= 0 =>
              (<<epoch[r], step[r]>> \in DueCheckpoints
                 <=> DoCheckpoint /\ step[r] = next_checkpoint_step[r])
         /\ pc[r] = "save" => <<epoch[r], step[r]>> \in DueCheckpoints
<1>1. epoch[r] \in 1 .. Epochs /\ step[r] \in 1 .. S /\ step[r] \in Nat /\ step[r] > 0
  BY Positions, StepsPerEpochType
<1>2. StepsBetweenCheckpoints \in Int
  BY TrainLoopAssumption
<1>3. ASSUME StepsBetweenCheckpoints >= 0
      PROVE  <<epoch[r], step[r]>> \in DueCheckpoints
               <=> DoCheckpoint /\ step[r] = next_checkpoint_step[r]
  <2>1. <<epoch[r], step[r]>> \in DueCheckpoints <=> ByStep /\ step[r] % StepsBetweenCheckpoints = 0
    BY <1>1, <1>3, DueStepCheckpoints
  <2>2. CASE ByStep
    <3>1. /\ next_checkpoint_step[r] \in Nat
          /\ next_checkpoint_step[r] % StepsBetweenCheckpoints = 0
          /\ step[r] <= next_checkpoint_step[r]
          /\ next_checkpoint_step[r] < step[r] + StepsBetweenCheckpoints
      BY <2>2 DEF StepsInv
    <3>2. StepsBetweenCheckpoints \in Nat \ {0}
      BY <1>2, <2>2 DEF ByStep
    <3>3. step[r] % StepsBetweenCheckpoints = 0 => step[r] = next_checkpoint_step[r]
      BY <1>1, <3>1, <3>2, OneMultiple
    <3> QED
      BY <2>1, <2>2, <3>1, <3>3 DEF ByStep
  <2>3. CASE ~ByStep
    <3>1. CASE StepsBetweenCheckpoints = 0
      BY <1>1, <2>1, <2>3, <3>1 DEF StepsInv
    <3>2. CASE ~DoCheckpoint
      BY <2>1, <2>3, <3>2
    <3> QED
      BY <1>2, <1>3, <2>3, <3>1, <3>2 DEF ByStep
  <2> QED
    BY <2>2, <2>3
<1>4. ASSUME pc[r] = "save" PROVE <<epoch[r], step[r]>> \in DueCheckpoints
  <2>1. ByStep /\ step[r] = next_checkpoint_step[r]
    BY <1>4 DEF StepsInv
  <2> QED
    BY <1>2, <1>3, <2>1 DEF ByStep
<1> QED
  BY <1>3, <1>4

(* An epoch's checkpoint is saved if and only if the counter names it. *)
LEMMA EpochNamed ==
  ASSUME LockInv, EpochsInv, NEW r \in Rank, pc[r] \in {"end_train", "save_epoch"}
  PROVE  /\ <<epoch[r], step[r]>> \in DueCheckpoints
              <=> ByEpoch /\ epoch[r] = next_checkpoint_epoch[r]
         /\ pc[r] = "save_epoch" => <<epoch[r], step[r]>> \in DueCheckpoints
<1>1. epoch[r] \in 1 .. Epochs /\ step[r] = S + 1 /\ S \in Nat
  BY Positions, StepsPerEpochType DEF Closing
<1>2. StepsBetweenCheckpoints \in Int /\ CheckpointAfterEpoch \in Nat
      /\ EpochsBetweenCheckpoints \in Nat
  BY TrainLoopAssumption
<1>3. <<epoch[r], step[r]>> \in DueCheckpoints <=> ByEpoch /\ epoch[r] = next_checkpoint_epoch[r]
  <2>1. CASE ~ByEpoch
    <3>1. CASE StepsBetweenCheckpoints >= 0
      <4>1. \A c \in DueCheckpoints : c[2] \in 1 .. S
        BY <3>1, DueStepCheckpoints
      <4> QED
        BY <1>1, <2>1, <4>1
    <3>2. CASE StepsBetweenCheckpoints < 0
      BY <1>1, <2>1, <3>2, DueEpochCheckpoints
    <3> QED
      BY <1>2, <3>1, <3>2
  <2>2. CASE ByEpoch /\ CheckpointAfterEpoch = 0
    BY <1>1, <2>2 DEF EpochsInv, DueCheckpoints
  <2>3. CASE ByEpoch /\ CheckpointAfterEpoch # 0
    <3>1. NextIs(CheckpointAfterEpoch, EpochsBetweenCheckpoints, epoch[r] - 1,
                 next_checkpoint_epoch[r])
      BY <1>1, <2>3 DEF EpochsInv, SaveEpochs, Decided
    <3>2. next_checkpoint_epoch[r] \in Nat /\ epoch[r] - 1 \in Nat
          /\ CheckpointAfterEpoch \in Nat \ {0} /\ epoch[r] - 1 + 1 = epoch[r]
      BY <1>1, <1>2, <2>3, <3>1 DEF NextIs
    <3>3. epoch[r] - 1 + 1 = next_checkpoint_epoch[r]
            <=> IsDue(CheckpointAfterEpoch, EpochsBetweenCheckpoints, epoch[r] - 1 + 1)
      BY <1>2, <3>1, <3>2, NextDue
    <3>4. StepsBetweenCheckpoints < 0 /\ CheckpointAfterEpoch > 0
      BY <1>2, <2>3 DEF ByEpoch
    <3>5. <<epoch[r], S + 1>> \in DueCheckpoints
            <=> IsDue(CheckpointAfterEpoch, EpochsBetweenCheckpoints, epoch[r])
      BY <1>1, <2>3, <3>4, DueEpochCheckpoints
    <3> QED
      BY <1>1, <2>3, <3>2, <3>3, <3>5
  <2> QED
    BY <2>1, <2>2, <2>3
<1>4. pc[r] = "save_epoch" => ByEpoch /\ epoch[r] = next_checkpoint_epoch[r]
  BY DEF EpochsInv
<1> QED
  BY <1>3, <1>4

(* A rank saves a checkpoint as it passes its point, and only then. *)
LEMMA SavedNext ==
  ASSUME EnoughBatches, LockInv, ScheduleInv, NEW r \in Rank, RankStep(r) PROVE SavedInv'
<1>1. /\ TypeOK /\ S \in Nat /\ (\A s \in Nat : LimitReached(s) <=> s > S) /\ Batches[r] >= S
      /\ Batches[r] \in Nat /\ Epochs \in Nat
  BY StepsPerEpochType, TrainLoopAssumption DEF LockInv, TypeInv, EnoughBatches, S
<1>2. SavedInv /\ StepsInv /\ EpochsInv
  BY DEF ScheduleInv
<1> DEFINE Now(c)  == Passed(pc[r], epoch[r], step[r], c)
           Then(c) == Passed(pc'[r], epoch'[r], step'[r], c)
<1>3. saved[r] = {c \in DueCheckpoints : Now(c)}
  BY <1>2 DEF SavedInv
<1>4. SUFFICES saved'[r] = {c \in DueCheckpoints : Then(c)}
  <2>1. \A q \in Rank : q # r =>
          saved'[q] = {c \in DueCheckpoints : Passed(pc'[q], epoch'[q], step'[q], c)}
    BY <1>1, <1>2, OthersKeep DEF SavedInv
  <2> QED
    BY <1>4, <2>1 DEF SavedInv
<1>5. ASSUME saved'[r] = saved[r], \A c \in DueCheckpoints : Then(c) <=> Now(c)
      PROVE  saved'[r] = {c \in DueCheckpoints : Then(c)}
  BY <1>3, <1>5
<1>6. ASSUME NEW d \in DueCheckpoints, saved'[r] = saved[r] \cup {d},
             \A c \in DueCheckpoints : Then(c) <=> Now(c) \/ c = d
      PROVE  saved'[r] = {c \in DueCheckpoints : Then(c)}
  BY <1>3, <1>6
<1> USE DEF Enter, Goto, schedule, history
<1>7. CASE Configure(r) \/ ReduceTrainSum(r) \/ StopTraining(r) \/ TrainStep(r)
  <2>1. /\ saved' = saved /\ epoch' = epoch /\ step' = step
        /\ \/ pc[r] = "init" /\ pc'[r] = "reconf_train"
           \/ pc[r] = "reconf_train" /\ pc'[r] = "reconf_eval"
           \/ pc[r] = "fetch" /\ pc'[r] \in {"end_train", "step"}
    BY <1>1, <1>7 DEF TypeOK, Configure, ReduceTrainSum, StopTraining, TrainStep, Released
  <2>2. pc[r] = "init" => epoch[r] = 0
    BY Positions
  <2> HIDE DEF Enter, Goto
  <2>3. \A c \in DueCheckpoints : Then(c) <=> Now(c)
    BY <2>1, <2>2, DueIds DEF Passed, Decided
  <2> QED
    BY <1>5, <2>1, <2>3
<1>8. CASE ReduceEvalSum(r) \/ StartLoop(r) \/ StartEpoch(r) \/ EndRun(r)
  <2>1. /\ saved' = saved
        /\ \/ pc[r] = "reconf_eval" /\ epoch[r] = 0 /\ pc'[r] = "start" /\ epoch'[r] = 0
           \/ pc[r] = "reconf_eval" /\ epoch[r] # 0 /\ pc'[r] = "epoch" /\ epoch'[r] = epoch[r] + 1
           \/ pc[r] = "start" /\ pc'[r] = "epoch" /\ epoch'[r] = 1
           \/ pc[r] = "epoch" /\ pc'[r] = "fetch" /\ epoch'[r] = epoch[r] /\ step'[r] = 1
           \/ pc[r] = "epoch" /\ epoch[r] > Epochs /\ epoch'[r] = epoch[r] /\ pc'[r] = "au"
    BY <1>1, <1>8 DEF TypeOK, ReduceEvalSum, StartLoop, StartEpoch, EndRun, Released
  <2>2. pc[r] = "start" => epoch[r] = 0
    BY Positions
  <2>3. pc[r] = "reconf_eval" /\ epoch[r] # 0 => epoch[r] \in 1 .. Epochs /\ step[r] = S + 1
    BY Positions
  <2>4. epoch[r] \in 0 .. Epochs + 1
    BY Positions
  <2> HIDE DEF Enter, Goto
  <2>5. \A c \in DueCheckpoints : Then(c) <=> Now(c)
    BY <1>1, <2>1, <2>2, <2>3, <2>4, DueIds DEF Passed, Decided
  <2> QED
    BY <1>5, <2>1, <2>5
<1>9. CASE EndStep(r)
  <2>1. /\ saved' = saved /\ epoch' = epoch /\ pc[r] = "step"
        /\ \/ pc'[r] = "save" /\ step'[r] = step[r]
           \/ pc'[r] = "fetch" /\ step'[r] = step[r] + 1 /\ ~StepCheckpointDue(r)
    BY <1>1, <1>9 DEF TypeOK, EndStep, Released
  <2>2. step[r] \in 1 .. S /\ epoch[r] \in 1 .. Epochs
    BY <2>1, Positions
  <2>3. ASSUME ~StepCheckpointDue(r) PROVE <<epoch[r], step[r]>> \notin DueCheckpoints
    <3>1. CASE StepsBetweenCheckpoints >= 0
      BY <1>2, <2>1, <2>3, <3>1, StepNamed DEF StepCheckpointDue
    <3>2. CASE StepsBetweenCheckpoints < 0
      BY <1>1, <2>2, <3>2, DueEpochCheckpoints
    <3> QED
      BY <3>1, <3>2, TrainLoopAssumption
  <2> HIDE DEF Enter, Goto
  <2>4. \A c \in DueCheckpoints : Then(c) <=> Now(c)
    <3>1. ASSUME NEW c \in DueCheckpoints PROVE Then(c) <=> Now(c)
      <4>1. c[1] \in 1 .. Epochs /\ c[2] \in 1 .. S + 1 /\ c = <<c[1], c[2]>>
        BY DueIds
      <4>2. CASE pc'[r] = "save" /\ step'[r] = step[r]
        BY <2>1, <4>2 DEF Passed, Decided
      <4>3. CASE pc'[r] = "fetch" /\ step'[r] = step[r] + 1 /\ ~StepCheckpointDue(r)
        <5>1. ~(c[1] = epoch[r] /\ c[2] = step[r])
          BY <2>3, <4>1, <4>3
        <5> QED
          BY <1>1, <2>1, <2>2, <4>1, <4>3, <5>1 DEF Passed, Decided
      <4> QED
        BY <2>1, <4>2, <4>3
    <3> QED
      BY <3>1
  <2> QED
    BY <1>5, <2>1, <2>4
<1>10. CASE SaveStepCheckpoint(r) \/ SaveEpochCheckpoint(r)
  <2>1. /\ saved'[r] = saved[r] \cup {<<epoch[r], step[r]>>} /\ epoch' = epoch
        /\ \/ pc[r] = "save" /\ pc'[r] = "fetch" /\ step'[r] = step[r] + 1
           \/ pc[r] = "save_epoch" /\ pc'[r] = "evaluate" /\ step'[r] = step[r]
    BY <1>1, <1>10 DEF TypeOK, SaveStepCheckpoint, SaveEpochCheckpoint
  <2>2. <<epoch[r], step[r]>> \in DueCheckpoints
    BY <1>2, <2>1, StepNamed, EpochNamed
  <2>3. /\ step[r] \in 1 .. S + 1 /\ (pc[r] = "save_epoch" => step[r] = S + 1)
    BY <1>1, <2>1, Positions DEF Closing
  <2> HIDE DEF Enter, Goto
  <2>4. \A c \in DueCheckpoints : Then(c) <=> Now(c) \/ c = <<epoch[r], step[r]>>
    <3>1. ASSUME NEW c \in DueCheckpoints PROVE Then(c) <=> Now(c) \/ c = <<epoch[r], step[r]>>
      <4>1. c[1] \in 1 .. Epochs /\ c[2] \in 1 .. S + 1 /\ c = <<c[1], c[2]>>
        BY DueIds
      <4>2. c = <<epoch[r], step[r]>> <=> c[1] = epoch[r] /\ c[2] = step[r]
        BY <4>1
      <4> QED
        BY <1>1, <2>1, <2>3, <4>1, <4>2 DEF Passed, Decided
    <3> QED
      BY <3>1
  <2> QED
    BY <1>6, <2>1, <2>2, <2>4
<1>11. CASE EndTrain(r)
  <2>1. /\ saved' = saved /\ epoch' = epoch /\ step' = step /\ pc[r] = "end_train"
        /\ \/ pc'[r] = "save_epoch"
           \/ pc'[r] = "evaluate" /\ ~EpochCheckpointDue(r)
    BY <1>1, <1>11 DEF TypeOK, EndTrain, Released
  <2>2. ~EpochCheckpointDue(r) => <<epoch[r], step[r]>> \notin DueCheckpoints
    BY <1>2, <2>1, EpochNamed DEF EpochCheckpointDue, ByEpoch
  <2>3. step[r] = S + 1
    BY <2>1, Positions DEF Closing
  <2> HIDE DEF Enter, Goto
  <2>4. \A c \in DueCheckpoints : Then(c) <=> Now(c)
    <3>1. ASSUME NEW c \in DueCheckpoints PROVE Then(c) <=> Now(c)
      <4>1. c[1] \in 1 .. Epochs /\ c[2] \in 1 .. S + 1 /\ c = <<c[1], c[2]>>
        BY DueIds
      <4>2. ~EpochCheckpointDue(r) => ~(c[1] = epoch[r] /\ c[2] = step[r])
        BY <2>2, <4>1
      <4> QED
        BY <1>1, <2>1, <2>3, <4>1, <4>2 DEF Passed, Decided
    <3> QED
      BY <3>1
  <2> QED
    BY <1>5, <2>1, <2>4
<1>12. CASE Evaluate(r)
  <2>1. /\ saved' = saved /\ epoch' = epoch /\ step' = step
        /\ pc[r] = "evaluate" /\ pc'[r] = "reconf_train"
    BY <1>1, <1>12 DEF TypeOK, Evaluate
  <2> QED
    BY <1>5, <2>1 DEF Passed, Decided
<1>13. CASE ReduceMetrics(r)
  <2>1. /\ saved' = saved /\ epoch' = epoch /\ step' = step
        /\ pc[r] \in {"au", "throughput", "eval_au", "eval_throughput"}
        /\ pc'[r] \in {"throughput", "eval_au", "eval_throughput", "done"}
    BY <1>1, <1>13 DEF TypeOK, ReduceMetrics, ReduceMetric, ReduceLastMetric, Released
  <2> QED
    BY <1>5, <2>1 DEF Passed, Decided
<1> QED
  BY <1>7, <1>8, <1>9, <1>10, <1>11, <1>12, <1>13 DEF RankStep

(* The step counter advances with the checkpoint it names. *)
LEMMA StepsNext ==
  ASSUME EnoughBatches, LockInv, ScheduleInv, NEW r \in Rank, RankStep(r) PROVE StepsInv'
<1>1. /\ TypeOK /\ StepsInv /\ StepsBetweenCheckpoints \in Int
  BY TrainLoopAssumption DEF LockInv, TypeInv, ScheduleInv
<1> DEFINE n == next_checkpoint_step[r]
           m == next_checkpoint_step'[r]
           Good(p, s, k) ==
             /\ ByStep /\ p \in {"fetch", "step", "save"} =>
                  /\ k \in Nat /\ k % StepsBetweenCheckpoints = 0
                  /\ s <= k /\ k < s + StepsBetweenCheckpoints
             /\ StepsBetweenCheckpoints = 0 /\ p \in {"fetch", "step"} => k = 0
             /\ p = "save" => ByStep /\ s = k
<1>2. Good(pc[r], step[r], n)
  BY <1>1 DEF StepsInv
<1>3. SUFFICES Good(pc'[r], step'[r], m)
  <2> HIDE DEF n, m
  <2>1. \A q \in Rank : q # r => Good(pc'[q], step'[q], next_checkpoint_step'[q])
    <3>1. ASSUME NEW q \in Rank, q # r PROVE Good(pc'[q], step'[q], next_checkpoint_step'[q])
      <4>1. Good(pc[q], step[q], next_checkpoint_step[q])
        BY <1>1 DEF StepsInv
      <4> QED
        BY <1>1, <3>1, <4>1, OthersKeep
    <3> QED
      BY <3>1
  <2>2. \A q \in Rank : Good(pc'[q], step'[q], next_checkpoint_step'[q])
    BY <1>3, <2>1 DEF m
  <2> QED
    BY <2>2 DEF StepsInv
<1>4. CASE StartEpoch(r)
  <2>1. pc'[r] = "fetch" /\ step'[r] = 1 /\ m = StepsBetweenCheckpoints
    BY <1>1, <1>4 DEF StartEpoch, TypeOK, Goto
  <2>2. ByStep => StepsBetweenCheckpoints \in Nat \ {0}
                  /\ StepsBetweenCheckpoints % StepsBetweenCheckpoints = 0
    <3>1. ASSUME ByStep PROVE StepsBetweenCheckpoints % StepsBetweenCheckpoints = 0
      <4>1. StepsBetweenCheckpoints \in Nat \ {0}
        BY <1>1, <3>1 DEF ByStep
      <4>2. 0 % StepsBetweenCheckpoints = 0
        BY <4>1
      <4>3. (0 + StepsBetweenCheckpoints) % StepsBetweenCheckpoints = 0
        BY <4>1, <4>2, NextMultiple
      <4>4. 0 + StepsBetweenCheckpoints = StepsBetweenCheckpoints
        BY <4>1
      <4> QED
        BY <4>3, <4>4
    <3> QED
      BY <1>1, <3>1 DEF ByStep
  <2> QED
    BY <2>1, <2>2
<1>5. CASE TrainStep(r) \/ StopTraining(r)
  <2>1. /\ m = n /\ step'[r] = step[r] /\ pc[r] = "fetch" /\ pc'[r] \in {"step", "end_train"}
    BY <1>1, <1>5 DEF TrainStep, StopTraining, TypeOK, Enter, Goto, schedule
  <2> QED
    BY <1>2, <2>1
<1>6. CASE EndStep(r)
  <2>1. /\ m = n /\ pc[r] = "step"
        /\ \/ pc'[r] = "save" /\ step'[r] = step[r] /\ StepCheckpointDue(r)
           \/ pc'[r] = "fetch" /\ step'[r] = step[r] + 1 /\ ~StepCheckpointDue(r)
    BY <1>1, <1>6 DEF EndStep, TypeOK, Goto, schedule, Released
  <2>2. step[r] \in Nat /\ step[r] > 0
    BY <2>1, Positions
  <2>3. CASE StepCheckpointDue(r)
    <3>1. ByStep /\ step[r] = n
      <4>1. DoCheckpoint /\ StepsBetweenCheckpoints >= 0 /\ step[r] = n
        BY <2>3 DEF StepCheckpointDue
      <4>2. StepsBetweenCheckpoints # 0
        BY <1>2, <2>1, <2>2, <4>1
      <4> QED
        BY <1>1, <4>1, <4>2 DEF ByStep
    <3> QED
      BY <1>1, <1>2, <2>1, <2>3, <3>1 DEF ByStep
  <2>4. CASE ~StepCheckpointDue(r)
    <3>1. ByStep => step[r] # n
      BY <1>1, <2>4 DEF StepCheckpointDue, ByStep
    <3> QED
      BY <1>1, <1>2, <2>1, <2>2, <2>4, <3>1
  <2> QED
    BY <2>3, <2>4
<1>7. CASE SaveStepCheckpoint(r)
  <2>1. /\ pc[r] = "save" /\ pc'[r] = "fetch" /\ m = n + StepsBetweenCheckpoints
        /\ step'[r] = step[r] + 1
    BY <1>1, <1>7 DEF SaveStepCheckpoint, TypeOK, Goto
  <2>2. ByStep /\ n = step[r] /\ n \in Nat /\ n % StepsBetweenCheckpoints = 0
    BY <1>2, <2>1
  <2>3. StepsBetweenCheckpoints \in Nat \ {0}
    BY <1>1, <2>2 DEF ByStep
  <2>4. m % StepsBetweenCheckpoints = 0 /\ m \in Nat
    BY <2>1, <2>2, <2>3, NextMultiple
  <2>5. step'[r] <= m /\ m < step'[r] + StepsBetweenCheckpoints
    BY <2>1, <2>2, <2>3
  <2> QED
    BY <2>1, <2>3, <2>4, <2>5
<1>8. CASE Configure(r) \/ ReduceTrainSum(r) \/ ReduceEvalSum(r) \/ StartLoop(r) \/ EndTrain(r)
           \/ SaveEpochCheckpoint(r) \/ Evaluate(r) \/ EndRun(r) \/ ReduceMetrics(r)
  <2>1. pc'[r] \notin {"fetch", "step", "save"}
    BY <1>1, <1>8 DEF TypeOK, Configure, ReduceTrainSum, ReduceEvalSum, StartLoop, EndTrain,
       SaveEpochCheckpoint, Evaluate, EndRun, ReduceMetrics, ReduceMetric, ReduceLastMetric,
       Enter, Goto
  <2> QED
    BY <2>1
<1> QED
  BY <1>4, <1>5, <1>6, <1>7, <1>8 DEF RankStep

(* The epochs decided on, after a step *)
LEMMA DecidedNext ==
  ASSUME LockInv, NEW r \in Rank, RankStep(r)
  PROVE  /\ SaveEpochs(pc[r], epoch[r]) \in Nat /\ EvalEpochs(pc[r], epoch[r]) \in Nat
         /\ IF (EndTrain(r) /\ ~EpochCheckpointDue(r)) \/ SaveEpochCheckpoint(r)
              THEN /\ SaveEpochs(pc'[r], epoch'[r]) = SaveEpochs(pc[r], epoch[r]) + 1
                   /\ epoch[r] = SaveEpochs(pc[r], epoch[r]) + 1
              ELSE SaveEpochs(pc'[r], epoch'[r]) = SaveEpochs(pc[r], epoch[r])
         /\ IF Evaluate(r)
              THEN /\ EvalEpochs(pc'[r], epoch'[r]) = EvalEpochs(pc[r], epoch[r]) + 1
                   /\ epoch[r] = EvalEpochs(pc[r], epoch[r]) + 1
              ELSE EvalEpochs(pc'[r], epoch'[r]) = EvalEpochs(pc[r], epoch[r])
<1>1. TypeOK /\ epoch[r] \in 0 .. Epochs + 1 /\ Epochs \in Nat
  BY Positions, TrainLoopAssumption DEF LockInv, TypeInv
<1>2. /\ SaveEpochs(pc[r], epoch[r]) \in Nat /\ EvalEpochs(pc[r], epoch[r]) \in Nat
  BY <1>1 DEF SaveEpochs, EvalEpochs
<1> USE DEF Enter, Goto, schedule, history
<1>3. CASE Configure(r) \/ ReduceTrainSum(r) \/ StopTraining(r) \/ TrainStep(r) \/ EndStep(r)
           \/ SaveStepCheckpoint(r) \/ ReduceMetrics(r) \/ EndRun(r) \/ StartEpoch(r)
  <2>1. /\ epoch' = epoch
        /\ \/ pc[r] = "init" /\ pc'[r] = "reconf_train"
           \/ pc[r] = "reconf_train" /\ pc'[r] = "reconf_eval"
           \/ /\ pc[r] \notin Decided \cup {"init", "end_train", "save_epoch"}
              /\ pc'[r] \notin Decided
    BY <1>1, <1>3 DEF TypeOK, Configure, ReduceTrainSum, StopTraining, TrainStep, EndStep,
       SaveStepCheckpoint, ReduceMetrics, ReduceMetric, ReduceLastMetric, EndRun, StartEpoch,
       Released, Decided
  <2>2. pc[r] = "init" => epoch[r] = 0
    BY Positions
  <2>3. ~EndTrain(r) /\ ~SaveEpochCheckpoint(r) /\ ~Evaluate(r)
    BY <2>1 DEF EndTrain, SaveEpochCheckpoint, Evaluate, Released, Decided
  <2> HIDE DEF Enter, Goto
  <2> QED
    BY <1>2, <2>1, <2>2, <2>3 DEF SaveEpochs, EvalEpochs, Decided
<1>4. CASE ReduceEvalSum(r) \/ StartLoop(r)
  <2>1. /\ \/ pc[r] = "reconf_eval" /\ epoch[r] = 0 /\ pc'[r] = "start" /\ epoch'[r] = 0
           \/ pc[r] = "reconf_eval" /\ epoch[r] # 0 /\ pc'[r] = "epoch" /\ epoch'[r] = epoch[r] + 1
           \/ pc[r] = "start" /\ pc'[r] = "epoch" /\ epoch'[r] = 1
    BY <1>1, <1>4 DEF TypeOK, ReduceEvalSum, StartLoop, Released
  <2>2. pc[r] = "start" => epoch[r] = 0
    BY Positions
  <2>3. ~EndTrain(r) /\ ~SaveEpochCheckpoint(r) /\ ~Evaluate(r)
    BY <2>1 DEF EndTrain, SaveEpochCheckpoint, Evaluate, Released
  <2> HIDE DEF Enter, Goto
  <2> QED
    BY <1>1, <1>2, <2>1, <2>2, <2>3 DEF SaveEpochs, EvalEpochs, Decided
<1>5. CASE EndTrain(r) \/ SaveEpochCheckpoint(r)
  <2>1. /\ epoch' = epoch /\ pc[r] \in {"end_train", "save_epoch"}
        /\ IF (EndTrain(r) /\ ~EpochCheckpointDue(r)) \/ SaveEpochCheckpoint(r)
             THEN pc'[r] = "evaluate" ELSE pc'[r] = "save_epoch"
    BY <1>1, <1>5 DEF TypeOK, EndTrain, SaveEpochCheckpoint, Released
  <2>2. epoch[r] \in 1 .. Epochs
    BY <2>1, Positions DEF Closing
  <2>3. ~Evaluate(r)
    BY <2>1 DEF Evaluate
  <2> HIDE DEF Enter, Goto
  <2> QED
    BY <1>1, <1>2, <2>1, <2>2, <2>3 DEF SaveEpochs, EvalEpochs, Decided
<1>6. CASE Evaluate(r)
  <2>1. epoch' = epoch /\ pc[r] = "evaluate" /\ pc'[r] = "reconf_train"
    BY <1>1, <1>6 DEF TypeOK, Evaluate
  <2>2. epoch[r] \in 1 .. Epochs
    BY <2>1, Positions DEF Closing
  <2>3. ~EndTrain(r) /\ ~SaveEpochCheckpoint(r)
    BY <2>1 DEF EndTrain, SaveEpochCheckpoint, Released
  <2> HIDE DEF Enter, Goto
  <2> QED
    BY <1>1, <1>2, <1>6, <2>1, <2>2, <2>3 DEF SaveEpochs, EvalEpochs, Decided
<1> QED
  BY <1>3, <1>4, <1>5, <1>6 DEF RankStep

(* The epoch counter advances with the checkpoint it names. *)
LEMMA EpochsNext ==
  ASSUME EnoughBatches, LockInv, ScheduleInv, NEW r \in Rank, RankStep(r) PROVE EpochsInv'
<1>1. TypeOK /\ EpochsInv /\ CheckpointAfterEpoch \in Nat /\ EpochsBetweenCheckpoints \in Nat
  BY TrainLoopAssumption DEF LockInv, TypeInv, ScheduleInv
<1> DEFINE n == next_checkpoint_epoch[r]
           m == next_checkpoint_epoch'[r]
           g == SaveEpochs(pc[r], epoch[r])
           h == SaveEpochs(pc'[r], epoch'[r])
           Good(p, e, k) ==
             /\ ByEpoch => IF CheckpointAfterEpoch = 0 THEN k = 0
                           ELSE NextIs(CheckpointAfterEpoch, EpochsBetweenCheckpoints,
                                       SaveEpochs(p, e), k)
             /\ p = "save_epoch" => ByEpoch /\ e = k
<1>2. Good(pc[r], epoch[r], n)
  BY <1>1 DEF EpochsInv
<1>3. SUFFICES Good(pc'[r], epoch'[r], m)
  <2> HIDE DEF n, m
  <2>1. \A q \in Rank : q # r => Good(pc'[q], epoch'[q], next_checkpoint_epoch'[q])
    <3>1. ASSUME NEW q \in Rank, q # r PROVE Good(pc'[q], epoch'[q], next_checkpoint_epoch'[q])
      <4>1. Good(pc[q], epoch[q], next_checkpoint_epoch[q])
        BY <1>1 DEF EpochsInv
      <4> QED
        BY <1>1, <3>1, <4>1, OthersKeep
    <3> QED
      BY <3>1
  <2>2. \A q \in Rank : Good(pc'[q], epoch'[q], next_checkpoint_epoch'[q])
    BY <1>3, <2>1 DEF m
  <2> QED
    BY <2>2 DEF EpochsInv
<1>4. g \in Nat /\ n \in Nat
  BY <1>1, DecidedNext DEF TypeOK
<1>5. CASE SaveEpochCheckpoint(r)
  <2>1. /\ pc[r] = "save_epoch" /\ pc'[r] = "evaluate" /\ m = n + EpochsBetweenCheckpoints
    BY <1>1, <1>5 DEF SaveEpochCheckpoint, TypeOK, Goto
  <2>2. ByEpoch /\ epoch[r] = n /\ epoch[r] = g + 1 /\ h = g + 1
    BY <1>2, <1>5, <2>1, DecidedNext
  <2>3. CheckpointAfterEpoch # 0
    BY <1>2, <1>4, <2>2
  <2>4. NextIs(CheckpointAfterEpoch, EpochsBetweenCheckpoints, g, n)
    BY <1>2, <2>2, <2>3
  <2>5. NextIs(CheckpointAfterEpoch, EpochsBetweenCheckpoints, g + 1, n + EpochsBetweenCheckpoints)
    <3> HIDE DEF g, n
    <3> QED
      BY <1>1, <1>4, <2>2, <2>3, <2>4, NextDue
  <2> QED
    BY <2>1, <2>2, <2>3, <2>5
<1>6. CASE EndTrain(r)
  <2>1. /\ m = n /\ epoch'[r] = epoch[r]
        /\ IF EpochCheckpointDue(r) THEN pc'[r] = "save_epoch" ELSE pc'[r] = "evaluate"
    BY <1>1, <1>6 DEF EndTrain, TypeOK, Goto, schedule
  <2>2. CASE EpochCheckpointDue(r)
    <3>1. h = g
      <4>1. ~SaveEpochCheckpoint(r)
        BY <1>6 DEF EndTrain, SaveEpochCheckpoint, Released
      <4> QED
        BY <2>2, <4>1, DecidedNext
    <3>2. ByEpoch /\ epoch[r] = n
      BY <2>2 DEF EpochCheckpointDue, ByEpoch
    <3> QED
      BY <1>2, <2>1, <2>2, <3>1, <3>2
  <2>3. CASE ~EpochCheckpointDue(r)
    <3>1. h = g + 1 /\ epoch[r] = g + 1
      BY <1>6, <2>3, DecidedNext
    <3>2. ByEpoch => epoch[r] # n
      BY <2>3 DEF EpochCheckpointDue, ByEpoch
    <3>3. ASSUME ByEpoch, CheckpointAfterEpoch # 0
          PROVE  NextIs(CheckpointAfterEpoch, EpochsBetweenCheckpoints, g + 1, n)
      <4>1. NextIs(CheckpointAfterEpoch, EpochsBetweenCheckpoints, g, n)
        BY <1>2, <3>3
      <4> HIDE DEF g, n
      <4> QED
        BY <1>1, <1>4, <3>1, <3>2, <3>3, <4>1, NextDue
    <3> QED
      BY <1>2, <2>1, <2>3, <3>1, <3>3
  <2> QED
    BY <2>2, <2>3
<1>7. CASE ~SaveEpochCheckpoint(r) /\ ~EndTrain(r)
  <2>1. m = n /\ pc'[r] # "save_epoch"
    BY <1>1, <1>7 DEF RankStep, TypeOK, Configure, ReduceTrainSum, ReduceEvalSum, StartLoop,
       StartEpoch, TrainStep, StopTraining, EndStep, SaveStepCheckpoint, Evaluate, EndRun,
       ReduceMetrics, ReduceMetric, ReduceLastMetric, Enter, Goto, schedule
  <2>2. h = g
    BY <1>7, DecidedNext
  <2> QED
    BY <1>2, <2>1, <2>2
<1> QED
  BY <1>5, <1>6, <1>7

(* The evaluations expected are those due. *)
LEMMA DueEvals ==
  ASSUME NEW e \in Nat
  PROVE  e \in ExpectedEvals <=>
           DoEval /\ e <= Epochs /\ e >= EvalAfterEpoch
           /\ (EpochsBetweenEvals = 0 \/ IsDue(EvalAfterEpoch, EpochsBetweenEvals, e))
  BY TrainLoopAssumption DEF ExpectedEvals, IsDue

(* The evaluation counter advances with the evaluation it names. *)
LEMMA EvalsNext ==
  ASSUME EnoughBatches, LockInv, ScheduleInv, NEW r \in Rank, RankStep(r) PROVE EvalsInv'
<1>1. /\ TypeOK /\ EvalsInv /\ EvalAfterEpoch \in Nat /\ EpochsBetweenEvals \in Nat
      /\ Epochs \in Nat /\ DoEval \in BOOLEAN
  BY TrainLoopAssumption DEF LockInv, TypeInv, ScheduleInv
<1> SUFFICES ASSUME EvalAfterEpoch > 0
             PROVE  \A q \in Rank :
                      /\ DoEval => NextIs(EvalAfterEpoch, EpochsBetweenEvals,
                                          EvalEpochs(pc'[q], epoch'[q]), next_eval_epoch'[q])
                      /\ evaluated'[q] = {e \in ExpectedEvals : e <= EvalEpochs(pc'[q], epoch'[q])}
  BY DEF EvalsInv
<1> DEFINE n == next_eval_epoch[r]
           m == next_eval_epoch'[r]
           g == EvalEpochs(pc[r], epoch[r])
           h == EvalEpochs(pc'[r], epoch'[r])
           Good(k, j, done) ==
             /\ DoEval => NextIs(EvalAfterEpoch, EpochsBetweenEvals, k, j)
             /\ done = {e \in ExpectedEvals : e <= k}
<1>2. Good(g, n, evaluated[r])
  BY <1>1 DEF EvalsInv
<1>3. SUFFICES Good(h, m, evaluated'[r])
  <2>1. \A q \in Rank : q # r =>
          Good(EvalEpochs(pc'[q], epoch'[q]), next_eval_epoch'[q], evaluated'[q])
    <3>1. ASSUME NEW q \in Rank, q # r
          PROVE  Good(EvalEpochs(pc'[q], epoch'[q]), next_eval_epoch'[q], evaluated'[q])
      <4>1. Good(EvalEpochs(pc[q], epoch[q]), next_eval_epoch[q], evaluated[q])
        BY <1>1 DEF EvalsInv
      <4> QED
        BY <1>1, <3>1, <4>1, OthersKeep
    <3> QED
      BY <3>1
  <2> QED
    BY <1>3, <2>1
<1>4. g \in Nat /\ n \in Nat
  BY <1>1, DecidedNext DEF TypeOK
<1>5. CASE ~Evaluate(r)
  <2>1. m = n /\ evaluated'[r] = evaluated[r]
    BY <1>1, <1>5 DEF RankStep, TypeOK, Configure, ReduceTrainSum, ReduceEvalSum, StartLoop,
       StartEpoch, TrainStep, StopTraining, EndStep, SaveStepCheckpoint, EndTrain,
       SaveEpochCheckpoint, EndRun, ReduceMetrics, ReduceMetric, ReduceLastMetric, schedule, history
  <2>2. h = g
    BY <1>5, DecidedNext
  <2> QED
    BY <1>2, <2>1, <2>2
<1>6. CASE Evaluate(r)
  <2>1. h = g + 1 /\ epoch[r] = g + 1
    BY <1>6, DecidedNext
  <2>2. /\ EvalDue(r) => m = n + EpochsBetweenEvals /\ evaluated'[r] = evaluated[r] \cup {g + 1}
        /\ ~EvalDue(r) => m = n /\ evaluated'[r] = evaluated[r]
    BY <1>1, <1>6, <2>1 DEF Evaluate, TypeOK
  <2>3. epoch[r] \in 1 .. Epochs
    BY <1>6, Positions DEF Evaluate, Closing
  <2>4. DoEval => /\ g + 1 = n <=> IsDue(EvalAfterEpoch, EpochsBetweenEvals, g + 1)
                  /\ g + 1 # n => NextIs(EvalAfterEpoch, EpochsBetweenEvals, g + 1, n)
                  /\ g + 1 = n => NextIs(EvalAfterEpoch, EpochsBetweenEvals, g + 1,
                                         n + EpochsBetweenEvals)
    <3>1. DoEval => NextIs(EvalAfterEpoch, EpochsBetweenEvals, g, n)
      BY <1>2
    <3> HIDE DEF g, n
    <3> QED
      BY <1>1, <1>4, <3>1, NextDue
  <2>5. g + 1 \in ExpectedEvals <=> EvalDue(r)
    <3>1. g + 1 \in ExpectedEvals <=>
            DoEval /\ g + 1 >= EvalAfterEpoch
            /\ (EpochsBetweenEvals = 0 \/ IsDue(EvalAfterEpoch, EpochsBetweenEvals, g + 1))
      <4> HIDE DEF g
      <4> QED
        BY <1>1, <1>4, <2>1, <2>3, DueEvals
    <3>2. EvalDue(r) <=> DoEval /\ g + 1 >= n
      BY <2>1 DEF EvalDue
    <3>3. DoEval => NextIs(EvalAfterEpoch, EpochsBetweenEvals, g, n)
      BY <1>2
    <3> HIDE DEF g, n
    <3>4. CASE EpochsBetweenEvals = 0
      BY <3>1, <3>2, <3>3, <3>4 DEF NextIs
    <3>5. CASE EpochsBetweenEvals > 0
      BY <1>1, <1>4, <2>4, <3>1, <3>2, <3>3, <3>5 DEF NextIs, IsDue
    <3> QED
      BY <1>1, <3>4, <3>5
  <2>6. evaluated'[r] = {e \in ExpectedEvals : e <= g + 1}
    <3>1. evaluated[r] = {e \in ExpectedEvals : e <= g}
      BY <1>2
    <3>2. \A e \in ExpectedEvals : e \in Nat
      BY <1>1 DEF ExpectedEvals
    <3> HIDE DEF g
    <3>3. \A e \in ExpectedEvals : e <= g + 1 <=> e <= g \/ e = g + 1
      BY <1>4, <3>2
    <3> QED
      BY <1>4, <2>2, <2>5, <3>1, <3>3
  <2>7. DoEval => NextIs(EvalAfterEpoch, EpochsBetweenEvals, g + 1, m)
    <3>1. EvalDue(r) <=> DoEval /\ g + 1 >= n
      BY <2>1 DEF EvalDue
    <3>2. DoEval => NextIs(EvalAfterEpoch, EpochsBetweenEvals, g, n)
      BY <1>2
    <3>3. CASE EpochsBetweenEvals = 0
      BY <1>4, <2>2, <3>2, <3>3 DEF NextIs
    <3>4. CASE EpochsBetweenEvals > 0
      <4>1. DoEval => (EvalDue(r) <=> g + 1 = n)
        <5> HIDE DEF g, n
        <5> QED
          BY <1>4, <3>1, <3>2, <3>4 DEF NextIs
      <4> QED
        BY <2>2, <2>4, <4>1
    <3> QED
      BY <1>1, <3>3, <3>4
  <2> QED
    BY <2>1, <2>6, <2>7
<1> QED
  BY <1>5, <1>6

(* Every step of the training loop preserves the schedule so far. *)
LEMMA ScheduleNext ==
  ASSUME EnoughBatches PROVE LockInv /\ ScheduleInv /\ [Next]_vars => ScheduleInv'
<1> SUFFICES ASSUME LockInv, ScheduleInv, [Next]_vars PROVE ScheduleInv'
  OBVIOUS
<1>1. ASSUME NEW r \in Rank, RankStep(r) PROVE ScheduleInv'
  BY <1>1, SavedNext, StepsNext, EpochsNext, EvalsNext DEF ScheduleInv
<1>2. CASE UNCHANGED vars
  <2>1. UNCHANGED <<SavedInv, StepsInv, EpochsInv, EvalsInv>>
    BY <1>2 DEF vars, SavedInv, StepsInv, EpochsInv, EvalsInv
  <2> QED
    BY <2>1 DEF ScheduleInv
<1> QED
  BY <1>1, <1>2 DEF Next, Terminated

(* The counters name the next points due in every reachable state. *)
LEMMA ScheduleInvariant == ASSUME EnoughBatches PROVE Spec => [](LockInv /\ ScheduleInv)
<1>1. Init => LockInv /\ ScheduleInv
  BY LockInit, ScheduleInit
<1>2. (LockInv /\ ScheduleInv) /\ [Next]_vars => (LockInv /\ ScheduleInv)'
  BY LockNext, ScheduleNext
<1> QED
  BY <1>1, <1>2, PTL DEF Spec

(* A rank that has finished has trained, saved and evaluated as the parameters
   say, if the first checkpoint and evaluation are due after an epoch there is. *)
THEOREM ScheduleKept ==
  ASSUME EnoughBatches, CheckpointAfterEpoch > 0, EvalAfterEpoch > 0
  PROVE  Spec => []ScheduleMet
<1>1. LockInv /\ ScheduleInv => ScheduleMet
  <2> SUFFICES ASSUME LockInv, ScheduleInv, NEW r \in Rank, pc[r] = "done"
               PROVE  /\ processed[r] = Epochs * StepsPerEpoch
                      /\ saved[r] = ExpectedCheckpoints
                      /\ evaluated[r] = ExpectedEvals
    BY DEF ScheduleMet
  <2>1. epoch[r] = Epochs + 1 /\ Epochs \in Nat
    BY Positions, TrainLoopAssumption
  <2>2. processed[r] = Epochs * StepsPerEpoch
    <3>1. AtPlace(pc[r], epoch[r], step[r], calls[r], processed[r])
      BY DEF LockInv, InOrder
    <3> QED
      BY <3>1 DEF AtPlace, Closing, Done, S
  <2>3. saved[r] = ExpectedCheckpoints
    <3>1. saved[r] = {c \in DueCheckpoints : Passed(pc[r], epoch[r], step[r], c)}
      BY DEF ScheduleInv, SavedInv
    <3>2. \A c \in DueCheckpoints : Passed(pc[r], epoch[r], step[r], c)
      BY <2>1, DueIds DEF Passed
    <3>3. DueCheckpoints = ExpectedCheckpoints
      BY DEF DueCheckpoints
    <3> QED
      BY <3>1, <3>2, <3>3
  <2>4. evaluated[r] = ExpectedEvals
    <3>1. evaluated[r] = {e \in ExpectedEvals : e <= EvalEpochs(pc[r], epoch[r])}
      BY DEF ScheduleInv, EvalsInv
    <3>2. EvalEpochs(pc[r], epoch[r]) = Epochs
      BY <2>1 DEF EvalEpochs
    <3>3. \A e \in ExpectedEvals : e <= Epochs
      BY <2>1, TrainLoopAssumption DEF ExpectedEvals
    <3> QED
      BY <3>1, <3>2, <3>3
  <2> QED
    BY <2>2, <2>3, <2>4
<1> QED
  BY <1>1, ScheduleInvariant, PTL

-------------------------------------------------------------------------------
(* One checkpoint at a time *)

(* No rank has called more than one collective more than another. *)
Close == \A r, q \in Rank : calls[r] <= calls[q] + 1

(* No rank has called a collective at the start. *)
LEMMA CloseInit == Init => Close
  BY DEF Init, Close

(* A rank leaves a collective only when every rank has called it. *)
LEMMA CloseNext == LockInv /\ Close /\ [Next]_vars => Close'
<1> SUFFICES ASSUME LockInv, Close, [Next]_vars PROVE Close'
  OBVIOUS
<1>1. TypeOK /\ Waiting
  BY DEF LockInv, TypeInv
<1>2. ASSUME NEW r \in Rank, RankStep(r) PROVE Close'
  <2>1. \A q \in Rank : q # r => calls'[q] = calls[q]
    BY <1>1, <1>2 DEF TypeOK, RankStep, Configure, ReduceTrainSum, ReduceEvalSum,
       StartLoop, StartEpoch, TrainStep, StopTraining, EndStep, SaveStepCheckpoint,
       EndTrain, SaveEpochCheckpoint, Evaluate, EndRun, ReduceMetrics,
       ReduceMetric, ReduceLastMetric, Enter, Goto
  <2>2. \A q \in Rank : calls[r] <= calls[q]
    <3>1. ASSUME pc[r] \notin Sites PROVE \A q \in Rank : calls[r] <= calls[q]
      BY <1>1, <3>1 DEF Waiting, TypeOK
    <3>2. ASSUME NEW site, Released(r, site) PROVE \A q \in Rank : calls[r] <= calls[q]
      BY <1>1, <3>2 DEF Released, TypeOK
    <3>3. pc[r] \notin Sites \/ \E site \in Sites : Released(r, site)
      BY <1>2 DEF RankStep, Configure, ReduceTrainSum, ReduceEvalSum,
         StartLoop, StartEpoch, TrainStep, StopTraining, EndStep, SaveStepCheckpoint,
         EndTrain, SaveEpochCheckpoint, Evaluate, EndRun, ReduceMetrics,
         ReduceMetric, ReduceLastMetric, Sites, Barriers, Allreduces
    <3> QED
      BY <3>1, <3>2, <3>3
  <2>3. calls'[r] = calls[r] \/ calls'[r] = calls[r] + 1
    BY <1>1, <1>2 DEF TypeOK, RankStep, Configure, ReduceTrainSum, ReduceEvalSum,
       StartLoop, StartEpoch, TrainStep, StopTraining, EndStep, SaveStepCheckpoint,
       EndTrain, SaveEpochCheckpoint, Evaluate, EndRun, ReduceMetrics,
       ReduceMetric, ReduceLastMetric, Enter, Goto
  <2> QED
    BY <1>1, <2>1, <2>2, <2>3 DEF Close, TypeOK
<1>3. CASE UNCHANGED vars
  BY <1>3 DEF vars, Close
<1> QED
  BY <1>2, <1>3 DEF Next, Terminated

(* The collectives called when checkpoint c is due *)
Due(c) == Base(c[1]) + c[2]

(* The calls of two epochs are apart by all those of the first. *)
LEMMA EpochApart ==
  ASSUME NEW e \in 1 .. Epochs + 1, NEW f \in 1 .. Epochs + 1
  PROVE  /\ Base(e) \in Nat /\ Base(e) >= 3
         /\ e < f => Base(e) + S + 3 <= Base(f)
  BY BaseFacts, BaseMonotone, KType, StepsPerEpochType, TrainLoopAssumption

(* A rank past a checkpoint has called the collectives before it, and the next one
   too if it waits in a collective or saves another checkpoint. *)
LEMMA PassedCalls ==
  ASSUME LockInv, NEW r \in Rank, NEW c \in DueCheckpoints,
         Passed(pc[r], epoch[r], step[r], c)
  PROVE  /\ Due(c) \in Nat /\ calls[r] >= Due(c)
         /\ pc[r] \in Sites \/ Saving(r) => calls[r] >= Due(c) + 1
<1>1. /\ c[1] \in 1 .. Epochs /\ c[2] \in 1 .. S + 1 /\ S \in Nat /\ Epochs \in Nat
      /\ calls[r] \in Nat /\ epoch[r] \in 0 .. Epochs + 1
      /\ AtPlace(pc[r], epoch[r], step[r], calls[r], processed[r])
  BY DueIds, StepsPerEpochType, TrainLoopAssumption, Positions
     DEF LockInv, TypeInv, TypeOK, InOrder
<1>2. Base(c[1]) \in Nat /\ Due(c) \in Nat
  BY <1>1, EpochApart DEF Due
<1>3. epoch[r] \in 1 .. Epochs + 1 /\ Base(epoch[r]) \in Nat
  <2>1. epoch[r] \in 1 .. Epochs + 1
    BY <1>1 DEF Passed
  <2> QED
    BY <1>1, <2>1, EpochApart
<1>4. calls[r] >= Base(epoch[r])
  BY <1>1, <1>3 DEF AtPlace
<1>5. CASE c[1] < epoch[r]
  <2>1. Base(c[1]) + S + 3 <= Base(epoch[r])
    BY <1>1, <1>3, <1>5, EpochApart
  <2> QED
    BY <1>1, <1>2, <1>3, <1>4, <2>1 DEF Due
<1>6. CASE c[1] = epoch[r] /\ pc[r] # "epoch" /\ (c[2] < step[r] \/ pc[r] \in Decided)
  <2>1. Base(c[1]) = Base(epoch[r]) /\ epoch[r] \in 1 .. Epochs
    BY <1>1, <1>6
  <2>2. CASE pc[r] = "fetch"
    BY <1>1, <1>2, <1>6, <2>1, <2>2
       DEF AtPlace, Due, Closing, Decided, Saving, Sites, Barriers, Allreduces
  <2>3. CASE pc[r] \in {"step", "save"}
    BY <1>1, <1>2, <1>6, <2>1, <2>3 DEF AtPlace, Due, Closing, Decided
  <2>4. CASE pc[r] \in {"end_train", "save_epoch"}
    BY <1>1, <1>2, <1>6, <2>1, <2>4 DEF AtPlace, Due, Closing, Decided
  <2>5. CASE pc[r] \in Decided
    BY <1>1, <1>2, <1>6, <2>1, <2>5
       DEF AtPlace, Due, Closing, Decided, Saving, Sites, Barriers, Allreduces
  <2>6. \/ pc[r] = "fetch" \/ pc[r] \in {"step", "save"}
        \/ pc[r] \in {"end_train", "save_epoch"} \/ pc[r] \in Decided
    <3>1. epoch[r] # 0 /\ epoch[r] # Epochs + 1 /\ pc[r] # "epoch"
      BY <1>1, <1>6, <2>1
    <3> QED
      BY <1>1, <3>1 DEF AtPlace, Closing, Decided
  <2> QED
    BY <2>2, <2>3, <2>4, <2>5, <2>6
<1> QED
  BY <1>2, <1>5, <1>6 DEF Passed

(* A rank not past a checkpoint has called no collective after it, and is at its
   point if it has called them all. *)
LEMMA NotPassedCalls ==
  ASSUME LockInv, NEW q \in Rank, NEW c \in DueCheckpoints,
         ~Passed(pc[q], epoch[q], step[q], c)
  PROVE  /\ calls[q] <= Due(c)
         /\ calls[q] = Due(c) => c = <<epoch[q], step[q]>>
<1>1. /\ c[1] \in 1 .. Epochs /\ c[2] \in 1 .. S + 1 /\ c = <<c[1], c[2]>>
      /\ S \in Nat /\ Epochs \in Nat
      /\ calls[q] \in Nat /\ epoch[q] \in 0 .. Epochs + 1
      /\ AtPlace(pc[q], epoch[q], step[q], calls[q], processed[q])
  BY DueIds, StepsPerEpochType, TrainLoopAssumption, Positions
     DEF LockInv, TypeInv, TypeOK, InOrder
<1>2. Base(c[1]) \in Nat /\ Base(c[1]) >= 3 /\ Due(c) \in Nat /\ Due(c) > Base(c[1])
  BY <1>1, EpochApart DEF Due
<1>3. epoch[q] <= c[1]
  BY <1>1 DEF Passed
<1>4. CASE epoch[q] = 0
  BY <1>1, <1>2, <1>4 DEF AtPlace
<1>5. CASE epoch[q] # 0 /\ epoch[q] < c[1]
  <2>1. Base(epoch[q]) + S + 3 <= Base(c[1]) /\ Base(epoch[q]) \in Nat /\ epoch[q] \in 1 .. Epochs
    BY <1>1, <1>5, EpochApart
  <2>2. calls[q] <= Base(epoch[q]) + S + 3
    BY <1>1, <1>5, <2>1 DEF AtPlace
  <2> QED
    BY <1>1, <1>2, <2>1, <2>2
<1>6. CASE epoch[q] = c[1]
  <2>1. Base(c[1]) = Base(epoch[q]) /\ epoch[q] \in 1 .. Epochs
    BY <1>1, <1>6
  <2>2. pc[q] = "epoch" \/ (c[2] >= step[q] /\ pc[q] \notin Decided)
    BY <1>1, <1>6, Positions DEF Passed
  <2>3. CASE pc[q] = "epoch"
    BY <1>1, <1>2, <2>1, <2>3 DEF AtPlace, Closing
  <2>4. CASE c[2] >= step[q] /\ pc[q] \notin Decided
    <3>1. CASE pc[q] = "fetch"
      BY <1>1, <1>2, <2>1, <2>4, <3>1 DEF AtPlace, Due, Closing
    <3>2. CASE pc[q] \in {"step", "save"}
      <4>1. calls[q] = Base(c[1]) + step[q] /\ step[q] \in 1 .. S
        BY <1>1, <2>1, <3>2 DEF AtPlace, Closing
      <4>2. calls[q] = Due(c) => c[2] = step[q]
        BY <1>1, <1>2, <4>1 DEF Due
      <4> QED
        BY <1>1, <1>2, <1>6, <2>4, <4>1, <4>2 DEF Due
    <3>3. CASE pc[q] \in {"end_train", "save_epoch"}
      <4>1. calls[q] = Base(c[1]) + S + 1 /\ step[q] = S + 1
        BY <1>1, <2>1, <3>3 DEF AtPlace, Closing
      <4>2. c[2] = S + 1
        BY <1>1, <2>4, <4>1
      <4> QED
        BY <1>1, <1>2, <1>6, <4>1, <4>2 DEF Due
    <3> QED
      BY <1>1, <2>1, <2>3, <2>4, <3>1, <3>2, <3>3 DEF AtPlace, Closing, Decided
  <2> QED
    BY <2>2, <2>3, <2>4
<1> QED
  BY <1>1, <1>3, <1>4, <1>5, <1>6

(* What one rank has saved and another has not is the checkpoint the other is at. *)
LEMMA AtMostOneApart ==
  ASSUME LockInv, SavedInv, Close, NEW r \in Rank, NEW q \in Rank
  PROVE  saved[r] \ saved[q] \subseteq {<<epoch[q], step[q]>>}
<1> SUFFICES ASSUME NEW c \in saved[r], c \notin saved[q] PROVE c = <<epoch[q], step[q]>>
  OBVIOUS
<1>1. /\ c \in DueCheckpoints /\ Passed(pc[r], epoch[r], step[r], c)
      /\ ~Passed(pc[q], epoch[q], step[q], c)
  BY DEF SavedInv
<1>2. calls[r] \in Nat /\ calls[q] \in Nat
  BY DEF LockInv, TypeInv, TypeOK
<1>3. Due(c) \in Nat /\ calls[r] >= Due(c) /\ (pc[r] \in Sites => calls[r] >= Due(c) + 1)
  BY <1>1, PassedCalls
<1>4. calls[r] <= calls[q] + 1 /\ (pc[r] \notin Sites => calls[r] <= calls[q])
  BY <1>2 DEF Close, LockInv, Waiting
<1>5. calls[q] <= Due(c) /\ (calls[q] = Due(c) => c = <<epoch[q], step[q]>>)
  BY <1>1, NotPassedCalls
<1> QED
  BY <1>2, <1>3, <1>4, <1>5

(* A rank that saves a checkpoint has saved none that another has not. *)
LEMMA SavingBehind ==
  ASSUME LockInv, SavedInv, NEW r \in Rank, Saving(r), NEW q \in Rank
  PROVE  saved[r] \subseteq saved[q]
<1> SUFFICES ASSUME NEW c \in saved[r], c \notin saved[q] PROVE FALSE
  OBVIOUS
<1>1. /\ c \in DueCheckpoints /\ Passed(pc[r], epoch[r], step[r], c)
      /\ ~Passed(pc[q], epoch[q], step[q], c)
  BY DEF SavedInv
<1>2. calls[r] \in Nat /\ calls[q] \in Nat
  BY DEF LockInv, TypeInv, TypeOK
<1>3. Due(c) \in Nat /\ calls[r] >= Due(c) + 1
  BY <1>1, PassedCalls
<1>4. calls[r] <= calls[q]
  BY <1>2 DEF LockInv, Waiting, Saving, Sites, Barriers, Allreduces
<1>5. calls[q] <= Due(c)
  BY <1>1, NotPassedCalls
<1> QED
  BY <1>2, <1>3, <1>4, <1>5

(* All ranks have finished a checkpoint before any begins the next, although no
   barrier follows save_checkpoint in _train. *)
THEOREM CheckpointsDoNotOverlap ==
  ASSUME EnoughBatches
  PROVE  Spec => []OneCheckpointAtATime
<1>1. LockInv /\ ScheduleInv /\ Close => OneCheckpointAtATime
  <2> SUFFICES ASSUME LockInv, ScheduleInv, Close, NEW r \in Rank, NEW q \in Rank
               PROVE  /\ Cardinality(saved[r] \ saved[q]) <= 1
                      /\ Saving(r) => saved[q] \subseteq saved[r] \cup {<<epoch[r], step[r]>>}
                      /\ Saving(r) => saved[r] \subseteq saved[q]
    BY DEF OneCheckpointAtATime
  <2>1. SavedInv
    BY DEF ScheduleInv
  <2>2. Cardinality(saved[r] \ saved[q]) <= 1
    <3>1. saved[r] \ saved[q] \subseteq {<<epoch[q], step[q]>>}
      BY <2>1, AtMostOneApart
    <3>2. /\ IsFiniteSet({<<epoch[q], step[q]>>})
          /\ Cardinality({<<epoch[q], step[q]>>}) = 1
      BY FS_Singleton
    <3>3. Cardinality(saved[r] \ saved[q]) <= Cardinality({<<epoch[q], step[q]>>})
      BY <3>1, <3>2, FS_Subset
    <3> QED
      BY <3>2, <3>3
  <2>3. Saving(r) => saved[q] \subseteq saved[r] \cup {<<epoch[r], step[r]>>}
    BY <2>1, AtMostOneApart
  <2>4. Saving(r) => saved[r] \subseteq saved[q]
    BY <2>1, SavingBehind
  <2> QED
    BY <2>2, <2>3, <2>4
<1>2. Init => LockInv /\ ScheduleInv /\ Close
  BY LockInit, ScheduleInit, CloseInit
<1>3. (LockInv /\ ScheduleInv /\ Close) /\ [Next]_vars => (LockInv /\ ScheduleInv /\ Close)'
  BY LockNext, ScheduleNext, CloseNext
<1> QED
  BY <1>1, <1>2, <1>3, PTL DEF Spec
================================================================================
