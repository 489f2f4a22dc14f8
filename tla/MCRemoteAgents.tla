----------------------------- MODULE MCRemoteAgents -----------------------------
(***************************************************************************)
(* Instances of RemoteAgents for TLC: two agents, one channel ID, two      *)
(* ports.                                                                  *)
(***************************************************************************)
EXTENDS RemoteAgents

\* the operator names the port that the first agent to be registered has
PortInUse == {<<2, 1>>}
================================================================================
