------------------------------ MODULE MCTrainLoop ------------------------------
(* Instances of TrainLoop for TLC. *)
EXTENDS TrainLoop

Unset == -1   \* the default of StepsBetweenCheckpoints and TotalTrainingSteps

(* Rank 0's loader has one batch more than an epoch uses, the others none. *)
BatchesSpare == [r \in Rank |-> IF r = 0 THEN MaxSteps + 1 ELSE MaxSteps]
===============================================================================
