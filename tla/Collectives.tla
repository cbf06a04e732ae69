------------------------------ MODULE Collectives ------------------------------
(***************************************************************************)
(* MPI collectives on MPI_COMM_WORLD as the benchmark uses them (barrier   *)
(* and allreduce through mpi4py).                                          *)
(*                                                                         *)
(* A rank standing at a place of Sites has called the collective of that   *)
(* line and waits in it.  MPI matches the n-th call of one rank with the   *)
(* n-th call of every other, whatever line of the program it came from, so *)
(* the model counts calls and releases a rank when every rank has made as  *)
(* many.  Matching two different operations is an error MPI leaves         *)
(* undefined; here, as in the libraries (which tag the messages of the two *)
(* operations differently), the job then hangs.                            *)
(***************************************************************************)
EXTENDS Naturals

CONSTANTS
  Rank,        \* the ranks of the communicator
  Barriers,    \* places of the program that call barrier
  Allreduces   \* places of the program that call allreduce

VARIABLES
  pc,     \* place each rank has reached
  calls   \* collectives each rank has called

Sites == Barriers \cup Allreduces

Goto(r, place) == pc' = [pc EXCEPT ![r] = place]

Enter(r, site) ==
  /\ Goto(r, site)
  /\ calls' = [calls EXCEPT ![r] = @ + 1]

SameOperation(s, t) == (s \in Barriers) = (t \in Barriers)

Released(r, site) ==
  /\ pc[r] = site
  /\ \A q \in Rank : calls[q] >= calls[r]
  /\ \A q \in Rank : (calls[q] = calls[r] /\ pc[q] \in Sites)
                        => SameOperation(pc[q], site)
===============================================================================
