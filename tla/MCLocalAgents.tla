----------------------------- MODULE MCLocalAgents -----------------------------
(***************************************************************************)
(* Instances of LocalAgents for TLC: two agents, at most one channel ID,    *)
(* two ports.                                                               *)
(***************************************************************************)
EXTENDS LocalAgents

\* Docker and iptables commands fail and containers exit; calls run to their end.
HostFaults == {"stop", "net", "run", "iptables", "fs", "exit"}

\* Also callers that die, a restart of the host, and commands whose failure
\* leaves a container behind.
AllFaults == FaultKinds \ {"exit", "iptables"}

\* the operator names the port that the first agent to be registered has
PortInUse == {<<2, 1>>}

CrashOnly == {"crash"}

================================================================================
