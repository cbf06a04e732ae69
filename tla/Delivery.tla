-------------------------------- MODULE Delivery --------------------------------
(***************************************************************************)
(* What a data loader may rely on, whatever reader it has: the samples of   *)
(* an epoch come one after the other, none twice and none left out, a batch *)
(* is there when its last sample is, and every epoch is delivered anew.     *)
(***************************************************************************)
EXTENDS Integers

VARIABLES
  samples, size, epochs,   \* samples of an epoch, of a batch; epochs: constant
  epoch, delivered, batches

vars == <<samples, size, epochs, epoch, delivered, batches>>

Init ==
  /\ samples \in Nat /\ size \in Nat \ {0} /\ epochs \in Nat \ {0}
  /\ epoch = 1
  /\ delivered = 0
  /\ batches = 0

Deliver ==
  /\ delivered < samples
  /\ delivered' = delivered + 1
  /\ batches' = delivered' \div size
  /\ UNCHANGED <<samples, size, epochs, epoch>>

NextEpoch ==
  /\ delivered = samples
  /\ epoch < epochs
  /\ epoch' = epoch + 1
  /\ delivered' = 0
  /\ batches' = 0
  /\ UNCHANGED <<samples, size, epochs>>

Next == Deliver \/ NextEpoch

Spec == Init /\ [][Next]_vars
===============================================================================
