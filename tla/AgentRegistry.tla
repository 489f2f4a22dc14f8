----------------------------- MODULE AgentRegistry -----------------------------
(***************************************************************************)
(* What the agent records promise, whoever keeps them: the abstract        *)
(* specification of agents/<name>.json                                     *)
(* (provider.AgentConfig, pkg/common/ports.go).                            *)
(*                                                                         *)
(* An agent is registered with the gateway port the operator names for it, *)
(* which nothing compares with the ports in use, or with one above every   *)
(* port in use; pausing and unpausing it changes nothing but the flag; a   *)
(* record goes away by being deleted, or by being cut short while it is    *)
(* written.                                                                *)
(***************************************************************************)
EXTENDS Naturals

CONSTANTS Agents, IDs, NoID, NoRec, Torn, MaxPort

Record == [paused : BOOLEAN, port : 1 .. MaxPort, id : IDs \cup {NoID}]

VARIABLES
    rec,    \* agents/<name>.json
    given   \* the agents whose port the operator may have named

Listed == {a \in Agents : rec[a] \in Record}

Init == /\ rec = [a \in Agents |-> NoRec]
        /\ given \in SUBSET Agents

\* --gateway-port, or gateway_port of conga_provision_agent
NamePort(a) == /\ given' = given \cup {a}
               /\ UNCHANGED rec

Register(a, p, id) ==
    /\ a \in given \/ \A b \in Listed : rec[b].port < p
    /\ rec' = [rec EXCEPT ![a] = [paused |-> FALSE, port |-> p, id |-> id]]
    /\ UNCHANGED given

SetPaused(a, flag) ==
    /\ a \in Listed
    /\ rec' = [rec EXCEPT ![a].paused = flag]
    /\ UNCHANGED given

Delete(S) == /\ rec' = [a \in Agents |-> IF a \in S THEN NoRec ELSE rec[a]]
             /\ UNCHANGED given

CutShort(a) == /\ rec' = [rec EXCEPT ![a] = Torn]
               /\ UNCHANGED given

Next ==
    \/ \E a \in Agents :
          \/ \E p \in 1 .. MaxPort, id \in IDs \cup {NoID} : Register(a, p, id)
          \/ \E flag \in BOOLEAN : SetPaused(a, flag)
          \/ NamePort(a) \/ CutShort(a)
    \/ \E S \in SUBSET Agents : Delete(S)

Spec == Init /\ [][Next]_<<rec, given>>
================================================================================
