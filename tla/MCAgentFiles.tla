------------------------------ MODULE MCAgentFiles ------------------------------
(* Instances of AgentFiles: SOUL.md has a shipped default, AGENTS.md has none.  *)
EXTENDS AgentFiles

BothProviders == {"local", "remote"}
OnlyRemote == {"remote"}

\* writes fail, reads over SSH are lost, the process dies
EveryFault == {"write", "read", "death"}

\* a read over SSH is lost
OnlyLostReads == {"read"}
================================================================================
