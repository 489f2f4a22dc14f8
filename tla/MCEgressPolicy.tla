----------------------------- MODULE MCEgressPolicy -----------------------------
(* Instances of EgressPolicy for TLC. *)
EXTENDS EgressPolicy, TLC

AllProviders == {"local", "remote", "aws"}

\* one domain: allowed, blocked in a section that does not enforce, and in both lists, which
\* is not valid
SomeSections ==
    {[allowed |-> Domains, blocked |-> {}, mode |-> "enforce"],
     [allowed |-> {}, blocked |-> Domains, mode |-> "validate"],
     [allowed |-> Domains, blocked |-> Domains, mode |-> "enforce"]}

\* no definition tells one agent from another
AgentSymmetry == Permutations(Agents)
================================================================================
