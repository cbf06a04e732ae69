------------------------------- MODULE BulkSync -------------------------------
(***************************************************************************)
(* What the training loop promises to the storage system under test: a     *)
(* bulk-synchronous job.  Every rank does Total steps, and none begins its *)
(* next step before every other rank has done the one before it, because   *)
(* each step ends with the barrier that stands for the gradient allreduce. *)
(***************************************************************************)
EXTENDS Naturals

CONSTANTS
  Rank,   \* the MPI ranks
  Total   \* training steps each rank does in the whole job, a natural number

VARIABLE done   \* done[r]: training steps rank r has computed

Init == done = [r \in Rank |-> 0]

Step(r) ==
  /\ done[r] < Total
  /\ \A q \in Rank : done[q] >= done[r]
  /\ done' = [done EXCEPT ![r] = @ + 1]

Next == \E r \in Rank : Step(r)

Spec == Init /\ [][Next]_done /\ WF_done(Next)

(* Types: no rank does more than the total. *)
TypeOK == done \in [Rank -> 0..Total]

(* No rank is more than one step ahead of another. *)
Lockstep == \A r, q \in Rank : done[r] <= done[q] + 1

(* The job as a whole comes to its last step. *)
AllDone == <>[](\A r \in Rank : done[r] = Total)
===============================================================================
