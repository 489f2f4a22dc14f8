------------------------------ MODULE MCSSHClient ------------------------------
(***************************************************************************)
(* Instance of SSHClient for TLC: two tool calls at the same time, one or  *)
(* two faults.                                                             *)
(***************************************************************************)
EXTENDS SSHClient
================================================================================
