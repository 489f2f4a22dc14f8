----------------------------- MODULE MCManagedHost -----------------------------
(***************************************************************************)
(* Instances of ManagedHost for TLC.                                       *)
(***************************************************************************)
EXTENDS ManagedHost

AllMethods == Methods
AllFaults == FaultKinds

================================================================================
