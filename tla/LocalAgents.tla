------------------------------ MODULE LocalAgents ------------------------------
(***************************************************************************)
(* The agent lifecycle of the local Docker provider                        *)
(* (pkg/provider/localprovider/provider.go).                               *)
(*                                                                         *)
(* An agent is a record on disk (agents/<name>.json), a container          *)
(* conga-<name> that publishes the record's gateway port on loopback, an   *)
(* egress proxy container and a Docker network of its own, iptables rules  *)
(* for the container's address, and an entry in routing.json that sends    *)
(* its channel ID to its port.  No operation changes all of them at once:  *)
(* a provider method is a sequence of file writes and docker commands, any *)
(* of which can fail, and the CLI process can die between two of them.     *)
(* Nothing locks the data directory, so two callers (a CLI process, an MCP *)
(* tool call) interleave.                                                  *)
(*                                                                         *)
(* A caller runs one method at a time: call[c] is its frame, with a label  *)
(* pc for the next step.  A step is one docker command or one file write.  *)
(* Content of the generated files, the data directory and the secrets are  *)
(* not in this module; the channel routers are not either.                 *)
(***************************************************************************)
EXTENDS Naturals, FiniteSets

CONSTANTS
    Agents,     \* agent names, as their ranks in the order of sort.Slice
    Callers,    \* processes and tool calls that invoke the provider
    IDs,        \* channel IDs an agent can be bound to (a Slack member, a channel)
    NoID,       \* the binding of a gateway-only agent
    NoRec,      \* there is no agents/<name>.json
    Torn,       \* agents/<name>.json is there and does not parse
    MaxPort,    \* bound: ports handed out, as offsets from BaseGatewayPort - 1
    Named,      \* bound: the ports the operator names, as pairs of an agent and a port
    Faults,     \* the kinds of fault that can happen, a subset of FaultKinds
    MaxFaults   \* bound: faults in a behaviour

FaultKinds ==
    { "stop",     \* docker stop of an agent container fails
      "rm",       \* docker rm -f of an agent container fails
      "inspect",  \* docker inspect fails: the container looks absent
      "net",      \* docker network create or rm fails
      "proxy",    \* the egress proxy cannot be started, or removed
      "run",      \* docker run of the agent container fails
      "iptables", \* the rules cannot be added or deleted
      "fs",       \* the agent's record or generated files cannot be written
      "route",    \* routing.json cannot be written
      "wipe",     \* the data directory cannot be deleted, or not all of it
      "crash",    \* the calling process dies between two steps
      "torn",     \* ... in the middle of os.WriteFile of an agent record
      "exit",     \* an agent container exits
      "reboot" }  \* the host restarts

ASSUME AgentsAssumption == Agents \subseteq Nat \ {0}
ASSUME BindingAssumption == NoID \notin IDs
ASSUME BoundAssumption == MaxPort \in Nat /\ MaxFaults \in Nat
ASSUME NamedAssumption == Named \subseteq Agents \X (1 .. MaxPort)
ASSUME FaultsAssumption == Faults \subseteq FaultKinds

Record == [paused : BOOLEAN, port : 1 .. MaxPort, id : IDs \cup {NoID}]

ASSUME RecordAssumption == /\ NoRec \notin Record
                           /\ Torn \notin Record
                           /\ NoRec # Torn

VARIABLES
    rec,      \* agents/<name>.json
    ctr,      \* the agent's container: "absent", "stopped" or "running"
    pub,      \* the loopback port a running container publishes, else 0
    proxy,    \* the agent's egress proxy container
    net,      \* the agents whose Docker network exists
    rules,    \* the agents whose running container's address has its rules
    stale,    \* the agents that left rules for an address they lost
    routing,  \* routing.json: per ID the port, and for whom it was written
    given,    \* history: the agents for which the operator ever named a port
    call,     \* per caller the frame of the method it runs
    faults    \* how many faults there were

host == <<ctr, pub, proxy, net, rules, stale>>
vars == <<rec, ctr, pub, proxy, net, rules, stale, routing, given, call, faults>>

Ops == {"none", "provision", "remove", "pause", "unpause", "refresh", "refreshAll", "cycle",
        "teardown"}

\* Operations that walk every agent, and operations that collect the errors of
\* their steps and go on where the others return at the first one.
Fleet == {"refreshAll", "cycle"}
Collecting == {"remove", "pause"}

Labels == {"idle", "read", "save", "reread", "prep", "unfilter", "stop", "rm",
           "unproxy", "netrm", "net", "proxy", "run", "filter", "delete", "route",
           "reroute", "list", "halt", "each", "sweep", "wipe",
           "ok", "err"}

ContainerState == {"absent", "stopped", "running"}

Unrouted == [agent |-> 0, port |-> 0]

\* a record read from disk (or built from the command line): port 0 before one is chosen
Snapshot == [paused : BOOLEAN, port : 0 .. MaxPort, id : IDs \cup {NoID}]
NoSnapshot == [paused |-> FALSE, port |-> 0, id |-> NoID]

Idle == [op |-> "none", pc |-> "idle", a |-> 0, snap |-> NoSnapshot,
         todo |-> {}, errs |-> FALSE]

\* agents/<name>.json that ListAgents returns and GetAgent parses
Readable(a) == rec[a] \in Record
Listed == {a \in Agents : Readable(a)}
Active == {a \in Listed : ~rec[a].paused}

--------------------------------------------------------------------------------
(* The pure parts: the port of a new agent, and routing.json. *)

\* (mutant of NextPort: one more than the number of listed agents)
NextPortByCount(p) == p = Cardinality(Listed) + 1

\* common.NextAvailablePort: one more than the highest port of a listed agent
NextPort(p) == /\ \A a \in Listed : rec[a].port < p
               /\ \/ p = 1
                  \/ \E a \in Listed : p = rec[a].port + 1

\* the entry of routing.json for an ID and the agent it is written for, if any
Entry(r, S) == IF S = {} THEN Unrouted
               ELSE LET a == CHOOSE a \in S : TRUE IN [agent |-> a, port |-> r[a].port]

\* (mutant of RoutingOf: paused agents stay in the map)
RoutingWithPaused(r) ==
    LET holders(id) == {a \in Agents : r[a] \in Record /\ r[a].id = id}
        last(id) == {a \in holders(id) : \A b \in holders(id) : b <= a}
    IN  [id \in IDs |-> Entry(r, last(id))]

\* common.GenerateRoutingJSON with the loopback resolver: a paused agent has no
\* entry, and among agents bound to one ID the last of the sorted list wins.
RoutingOf(r) ==
    LET holders(id) == {a \in Agents : r[a] \in Record /\ ~r[a].paused /\ r[a].id = id}
        last(id) == {a \in holders(id) : \A b \in holders(id) : b <= a}
    IN  [id \in IDs |-> Entry(r, last(id))]

--------------------------------------------------------------------------------
(* Frames: where a caller goes after a step. *)

At(c, l) == call[c].pc = l
Goto(c, l) == call' = [call EXCEPT ![c].pc = l]

\* A step fails: the error is collected, ignored (Teardown), reported as a
\* warning before the next agent is taken (CycleHost), or returned.
Fail(c, next) ==
    LET op == call[c].op
        then == IF op \in Collecting \cup {"teardown"} THEN next
                ELSE IF op = "cycle" THEN "each" ELSE "err"
    IN  call' = [call EXCEPT ![c].pc = then, ![c].errs = IF op \in Collecting THEN TRUE ELSE @]

\* The method returns; a non-empty list of collected errors is an error.
Finish(c) == Goto(c, IF call[c].errs THEN "err" ELSE "ok")

Fault(k) == /\ k \in Faults
            /\ faults < MaxFaults
            /\ faults' = faults + 1
NoFault == UNCHANGED faults

(* Docker and iptables as the provider uses them. *)

\* (mutant of LoseAddress: the rules are taken to go with the container)
KeepAddress(S) == UNCHANGED <<rules, stale>>

\* Rules are keyed by address: they outlive the container, and a later container
\* finds them only if it is given the same address again.
LoseAddress(S) == /\ rules' = rules \ S
                  /\ stale' = stale \cup (rules \cap S)

\* the containers of S end up in state st, with nothing published
Down(S, st) == /\ ctr' = [a \in Agents |-> IF a \in S THEN st ELSE ctr[a]]
               /\ pub' = [a \in Agents |-> IF a \in S THEN 0 ELSE pub[a]]
               /\ LoseAddress(S)

PortFree(a, p) == \A b \in Agents \ {a} : pub[b] # p

Init ==
    /\ rec = [a \in Agents |-> NoRec]
    /\ ctr = [a \in Agents |-> "absent"]
    /\ pub = [a \in Agents |-> 0]
    /\ proxy = [a \in Agents |-> "absent"]
    /\ net = {}
    /\ rules = {}
    /\ stale = {}
    /\ routing = [id \in IDs |-> Unrouted]
    /\ given = {}
    /\ call = [c \in Callers |-> Idle]
    /\ faults = 0

--------------------------------------------------------------------------------
(* Methods are called. *)

Begin(c, op, pc, a, snap) ==
    /\ At(c, "idle")
    /\ call' = [call EXCEPT ![c] = [Idle EXCEPT !.op = op, !.pc = pc, !.a = a, !.snap = snap]]
    /\ UNCHANGED <<rec, host, routing, faults>>

\* `conga admin add-user` / conga_provision_agent: the name may be in use already.
\* resolveGatewayPort and the MCP handler take the port the operator names as it
\* is, in use or not; else they list the agents and take the next one.  The
\* record is saved in a later step, by ProvisionAgent, which does not look either.
ProvisionAgent(c, a, id) ==
    \E p \in 1 .. MaxPort :
        /\ \/ NextPort(p) /\ UNCHANGED given
           \/ <<a, p>> \in Named /\ given' = given \cup {a}
        /\ Begin(c, "provision", "save", a, [paused |-> FALSE, port |-> p, id |-> id])

\* conga_remove_agent (the CLI command looks the agent up first)
RemoveAgent(c, a) == Begin(c, "remove", "unfilter", a, NoSnapshot) /\ UNCHANGED given

PauseAgent(c, a) == Begin(c, "pause", "read", a, NoSnapshot) /\ UNCHANGED given
UnpauseAgent(c, a) == Begin(c, "unpause", "read", a, NoSnapshot) /\ UNCHANGED given
RefreshAgent(c, a) == Begin(c, "refresh", "reread", a, NoSnapshot) /\ UNCHANGED given
RefreshAll(c) == Begin(c, "refreshAll", "list", 0, NoSnapshot) /\ UNCHANGED given
CycleHost(c) == Begin(c, "cycle", "list", 0, NoSnapshot) /\ UNCHANGED given
Teardown(c) == Begin(c, "teardown", "list", 0, NoSnapshot) /\ UNCHANGED given

Return(c) == /\ call[c].pc \in {"ok", "err"}
             /\ call' = [call EXCEPT ![c] = Idle]
             /\ UNCHANGED <<rec, host, routing, given, faults>>

--------------------------------------------------------------------------------
(* Steps on files. *)

\* (mutant of ReadRecord: a fresh record with the flag, not the one on disk)
ReadRecordAfresh(c) ==
    LET a == call[c].a
        wanted == call[c].op = "pause"
    IN  /\ At(c, "read")
        /\ IF a \notin Listed THEN Goto(c, "err")
           ELSE IF rec[a].paused = wanted THEN Goto(c, "ok")
           ELSE call' = [call EXCEPT ![c].snap = [paused |-> wanted, port |-> 1, id |-> rec[a].id],
                                     ![c].pc = "save"]
        /\ UNCHANGED <<rec, host, routing, given, faults>>

\* PauseAgent and UnpauseAgent load the record; there is nothing to do when the
\* flag already has the wanted value.
ReadRecord(c) ==
    LET a == call[c].a
        wanted == call[c].op = "pause"
    IN  /\ At(c, "read")
        /\ IF a \notin Listed THEN Goto(c, "err")
           ELSE IF rec[a].paused = wanted THEN Goto(c, "ok")
           ELSE call' = [call EXCEPT ![c].snap = [rec[a] EXCEPT !.paused = wanted],
                                     ![c].pc = "save"]
        /\ UNCHANGED <<rec, host, routing, given, faults>>

\* saveAgentConfig: os.WriteFile of the whole record
SaveRecord(c) ==
    LET a == call[c].a
        op == call[c].op
        then == IF op = "provision" THEN "prep"
                ELSE IF op = "pause" THEN "unfilter" ELSE "reread"
    IN  /\ At(c, "save")
        /\ \/ /\ rec' = [rec EXCEPT ![a] = call[c].snap]
              /\ Goto(c, then)
              /\ NoFault
           \/ /\ Fault("fs")
              /\ Goto(c, "err")
              /\ UNCHANGED rec
           \/ /\ Fault("torn")
              /\ rec' = [rec EXCEPT ![a] = Torn]
              /\ call' = [call EXCEPT ![c] = Idle]
        /\ UNCHANGED <<host, routing, given>>

\* (mutant of ReadForRefresh: a paused agent is not refused)
ReadAnyForRefresh(c) ==
    LET a == call[c].a
    IN  /\ At(c, "reread")
        /\ IF a \in Listed
           THEN call' = [call EXCEPT ![c].snap = rec[a], ![c].pc = "prep"]
           ELSE Fail(c, "err")
        /\ UNCHANGED <<rec, host, routing, given, faults>>

\* RefreshAgent loads the record again and refuses a paused agent
ReadForRefresh(c) ==
    LET a == call[c].a
    IN  /\ At(c, "reread")
        /\ IF a \in Active
           THEN call' = [call EXCEPT ![c].snap = rec[a], ![c].pc = "prep"]
           ELSE Fail(c, "err")
        /\ UNCHANGED <<rec, host, routing, given, faults>>

\* Secrets, overlay, configuration, environment and behaviour files are written
\* before anything that runs is touched.
WriteFiles(c) ==
    /\ At(c, "prep")
    /\ \/ /\ Goto(c, IF call[c].op = "provision" THEN "net" ELSE "unfilter")
          /\ NoFault
       \/ /\ Fault("fs")
          /\ Fail(c, "err")
    /\ UNCHANGED <<rec, host, routing, given>>

\* (mutant of DeleteFiles: RemoveAgent returns without a new routing.json)
DeleteFilesOnly(c) ==
    /\ At(c, "delete")
    /\ rec' = [rec EXCEPT ![call[c].a] = NoRec]
    /\ Finish(c)
    /\ UNCHANGED <<host, routing, given, faults>>

\* RemoveAgent deletes the record and the generated files
DeleteFiles(c) ==
    /\ At(c, "delete")
    /\ \/ /\ rec' = [rec EXCEPT ![call[c].a] = NoRec]
          /\ Goto(c, "route")
          /\ NoFault
       \/ /\ Fault("fs")
          /\ Fail(c, "route")
          /\ UNCHANGED rec
    /\ UNCHANGED <<host, routing, given>>

\* regenerateRouting: ListAgents, then os.WriteFile; a failure is a warning.
\* UnpauseAgent does it once more after RefreshAgent has.
Regenerate(c) ==
    /\ call[c].pc \in {"route", "reroute"}
    /\ \/ /\ routing' = RoutingOf(rec)
          /\ NoFault
       \/ /\ Fault("route")
          /\ UNCHANGED routing
    /\ IF At(c, "route") /\ call[c].op = "unpause" THEN Goto(c, "reroute")
       ELSE IF call[c].op \in Fleet THEN Goto(c, "each")
       ELSE Finish(c)
    /\ UNCHANGED <<rec, host, given>>

--------------------------------------------------------------------------------
(* Steps on the host. *)

\* The address of the container is needed, so there must be one running.
RemoveRules(c) ==
    LET a == call[c].a
    IN  /\ At(c, "unfilter")
        /\ \/ /\ rules' = IF ctr[a] = "running" /\ a \in net THEN rules \ {a} ELSE rules
              /\ NoFault
           \/ /\ Fault("iptables")
              /\ UNCHANGED rules
        /\ Goto(c, "stop")
        /\ UNCHANGED <<rec, ctr, pub, proxy, net, stale, routing, given>>

\* stopContainer, only if inspect finds the container; else rm is skipped as well
StopAgent(c) ==
    LET a == call[c].a
        afterRm == IF call[c].op = "provision" THEN "run" ELSE "unproxy"
    IN  /\ At(c, "stop")
        /\ \/ /\ ctr[a] # "absent"
              /\ Down({a}, "stopped")
              /\ Goto(c, "rm")
              /\ NoFault
           \/ /\ ctr[a] # "absent"
              /\ Fault("stop")
              /\ Fail(c, "rm")
              /\ UNCHANGED <<ctr, pub, rules, stale>>
           \/ /\ \/ ctr[a] = "absent" /\ NoFault
                 \/ ctr[a] # "absent" /\ Fault("inspect")
              /\ Goto(c, afterRm)
              /\ UNCHANGED <<ctr, pub, rules, stale>>
        /\ UNCHANGED <<rec, proxy, net, routing, given>>

\* removeContainer is docker rm -f: it takes a running container too
RemoveContainer(c) ==
    LET a == call[c].a
        next == IF call[c].op = "provision" THEN "run" ELSE "unproxy"
    IN  /\ At(c, "rm")
        /\ \/ /\ Down({a}, "absent")
              /\ Goto(c, next)
              /\ NoFault
           \/ /\ Fault("rm")
              /\ Fail(c, next)
              /\ UNCHANGED <<ctr, pub, rules, stale>>
        /\ UNCHANGED <<rec, proxy, net, routing, given>>

\* stopAgentEgressProxy: best effort
StopProxy(c) ==
    LET a == call[c].a
    IN  /\ At(c, "unproxy")
        /\ \/ /\ proxy' = [proxy EXCEPT ![a] = "absent"]
              /\ NoFault
           \/ /\ proxy[a] # "absent"
              /\ Fault("proxy")
              /\ \E st \in {proxy[a], "stopped"} : proxy' = [proxy EXCEPT ![a] = st]
        /\ Goto(c, IF call[c].op = "pause" THEN "route" ELSE "netrm")
        /\ UNCHANGED <<rec, ctr, pub, net, rules, stale, routing, given>>

\* removeNetwork, refused by Docker while a running container is attached
RemoveNetwork(c) ==
    LET a == call[c].a
        next == IF call[c].op = "remove" THEN "delete"
                ELSE IF call[c].op = "teardown" THEN "each" ELSE "net"
        busy == ctr[a] = "running" \/ proxy[a] = "running"
    IN  /\ At(c, "netrm")
        /\ \/ /\ a \notin net \/ ~busy
              /\ net' = net \ {a}
              /\ Goto(c, next)
              /\ NoFault
           \/ /\ a \in net
              /\ \/ busy /\ NoFault
                 \/ ~busy /\ Fault("net")
              /\ Fail(c, next)
              /\ UNCHANGED net
        /\ UNCHANGED <<rec, ctr, pub, proxy, rules, stale, routing, given>>

\* createNetwork, for which a network that is already there is success
CreateNetwork(c) ==
    /\ At(c, "net")
    /\ \/ /\ net' = net \cup {call[c].a}
          /\ Goto(c, "proxy")
          /\ NoFault
       \/ /\ Fault("net")
          /\ Fail(c, "err")
          /\ UNCHANGED net
    /\ UNCHANGED <<rec, ctr, pub, proxy, rules, stale, routing, given>>

\* (mutant of StartProxy: a failure is a warning)
StartProxyBestEffort(c) ==
    LET a == call[c].a
    IN  /\ At(c, "proxy")
        /\ \/ proxy' = [proxy EXCEPT ![a] = "running"] /\ NoFault
           \/ UNCHANGED proxy /\ Fault("proxy")
        /\ net' = net \cup {a}
        /\ Goto(c, IF call[c].op = "provision" THEN "stop" ELSE "run")
        /\ UNCHANGED <<rec, ctr, pub, rules, stale, routing, given>>

\* startAgentEgressProxy replaces the proxy and makes sure of the network
StartProxy(c) ==
    LET a == call[c].a
    IN  /\ At(c, "proxy")
        /\ \/ /\ proxy' = [proxy EXCEPT ![a] = "running"]
              /\ net' = net \cup {a}
              /\ Goto(c, IF call[c].op = "provision" THEN "stop" ELSE "run")
              /\ NoFault
           \/ /\ Fault("proxy")
              /\ \E st \in {proxy[a], "stopped", "absent"} : proxy' = [proxy EXCEPT ![a] = st]
              /\ Fail(c, "err")
              /\ UNCHANGED net
        /\ UNCHANGED <<rec, ctr, pub, rules, stale, routing, given>>

\* What is left of a stale container is removed (best effort), then docker run:
\* it needs the name, the network and the port, and a container whose port is
\* taken stays behind, created and not started.  The address the new container
\* is given may be one that still has rules.
RunAgent(c) ==
    LET a == call[c].a
        p == call[c].snap.port
    IN  /\ At(c, "run")
        /\ \/ /\ a \in net /\ PortFree(a, p)
              /\ ctr' = [ctr EXCEPT ![a] = "running"]
              /\ pub' = [pub EXCEPT ![a] = p]
              /\ \/ LoseAddress({a})
                 \/ /\ a \in stale
                    /\ rules' = rules \cup {a}
                    /\ stale' = stale \ {a}
              /\ Goto(c, "filter")
              /\ NoFault
           \/ /\ \/ ~(a \in net /\ PortFree(a, p)) /\ NoFault
                 \/ Fault("run")
              /\ \E st \in {"absent", "stopped"} : Down({a}, st)
              /\ Fail(c, "err")
           \/ /\ ctr[a] # "absent"
              /\ Fault("rm")
              /\ Fail(c, "err")
              /\ UNCHANGED <<ctr, pub, rules, stale>>
        /\ UNCHANGED <<rec, proxy, net, routing, given>>

\* addEgressIptablesRules: best effort, and nothing without a running container
AddRules(c) ==
    LET a == call[c].a
    IN  /\ At(c, "filter")
        /\ \/ /\ rules' = IF ctr[a] = "running" /\ a \in net THEN rules \cup {a} ELSE rules
              /\ NoFault
           \/ /\ Fault("iptables")
              /\ UNCHANGED rules
        /\ Goto(c, "route")
        /\ UNCHANGED <<rec, ctr, pub, proxy, net, stale, routing, given>>

--------------------------------------------------------------------------------
(* Steps of the operations on every agent. *)

\* ListAgents, once; all but Teardown skip the agents that are paused
ListAgents(c) ==
    LET op == call[c].op
    IN  /\ At(c, "list")
        /\ call' = [call EXCEPT ![c].todo = IF op = "teardown" THEN Listed ELSE Active,
                                ![c].pc = IF op = "cycle" THEN "halt" ELSE "each"]
        /\ UNCHANGED <<rec, host, routing, given, faults>>

\* CycleHost stops the containers, ignoring errors, before it refreshes anything
StopAll(c) ==
    LET present == {a \in call[c].todo : ctr[a] # "absent"}
    IN  /\ At(c, "halt")
        /\ \/ Down(present, "stopped") /\ NoFault
           \/ /\ Fault("stop")
              /\ \E S \in SUBSET present : Down(S, "stopped")
        /\ Goto(c, "each")
        /\ UNCHANGED <<rec, proxy, net, routing, given>>

\* the next agent in the order of the list
TakeNext(c) ==
    LET todo == call[c].todo
        teardown == call[c].op = "teardown"
    IN  /\ At(c, "each")
        /\ IF todo = {} THEN Goto(c, IF teardown THEN "sweep" ELSE "ok")
           ELSE \E a \in todo :
                   /\ \A b \in todo : a <= b
                   /\ call' = [call EXCEPT ![c].a = a, ![c].todo = todo \ {a},
                                           ![c].pc = IF teardown THEN "unfilter" ELSE "reread"]
        /\ UNCHANGED <<rec, host, routing, given, faults>>

\* cleanupDockerByPrefix: every conga-* container, then every network left
\* without one, agent records or not; errors are ignored.
Sweep(c) ==
    /\ At(c, "sweep")
    /\ \E kept \in SUBSET {a \in Agents : ctr[a] # "absent" \/ proxy[a] # "absent"} :
          /\ IF kept = {} THEN NoFault ELSE Fault("rm")
          /\ Down(Agents \ kept, "absent")
          /\ proxy' = [a \in Agents |-> IF a \in kept THEN proxy[a] ELSE "absent"]
          /\ net' = {a \in net \cap kept : ctr[a] = "running" \/ proxy[a] = "running"}
    /\ Goto(c, "wipe")
    /\ UNCHANGED <<rec, routing, given>>

\* os.RemoveAll of the data directory
WipeData(c) ==
    /\ At(c, "wipe")
    /\ \/ /\ rec' = [a \in Agents |-> NoRec]
          /\ routing' = [id \in IDs |-> Unrouted]
          /\ Goto(c, "ok")
          /\ NoFault
       \/ /\ Fault("wipe")
          /\ \E gone \in SUBSET Agents :
                rec' = [a \in Agents |-> IF a \in gone THEN NoRec ELSE rec[a]]
          /\ Goto(c, "err")
          /\ UNCHANGED routing
    /\ UNCHANGED <<host, given>>

--------------------------------------------------------------------------------
(* What happens to the host and to the callers. *)

\* GetStatus, side effect of a status query: missing rules are applied again
GetStatus(a) ==
    /\ ctr[a] = "running" /\ a \in net /\ a \notin rules
    /\ rules' = rules \cup {a}
    /\ UNCHANGED <<rec, ctr, pub, proxy, net, stale, routing, given, call, faults>>

AgentExits(a) ==
    /\ ctr[a] = "running"
    /\ Fault("exit")
    /\ Down({a}, "stopped")
    /\ UNCHANGED <<rec, proxy, net, routing, given, call>>

Crash(c) ==
    /\ ~At(c, "idle")
    /\ Fault("crash")
    /\ call' = [call EXCEPT ![c] = Idle]
    /\ UNCHANGED <<rec, host, routing, given>>

\* Containers are run without a restart policy; iptables rules are not persistent.
Reboot ==
    /\ Fault("reboot")
    /\ call' = [c \in Callers |-> Idle]
    /\ ctr' = [a \in Agents |-> IF ctr[a] = "running" THEN "stopped" ELSE ctr[a]]
    /\ pub' = [a \in Agents |-> 0]
    /\ proxy' = [a \in Agents |-> IF proxy[a] = "running" THEN "stopped" ELSE proxy[a]]
    /\ rules' = {}
    /\ stale' = {}
    /\ UNCHANGED <<rec, net, routing, given>>

Request(c) ==
    \/ \E a \in Agents :
          \/ \E id \in IDs \cup {NoID} : ProvisionAgent(c, a, id)
          \/ RemoveAgent(c, a)
          \/ PauseAgent(c, a)
          \/ UnpauseAgent(c, a)
          \/ RefreshAgent(c, a)
    \/ RefreshAll(c)
    \/ CycleHost(c)
    \/ Teardown(c)

Step(c) ==
    \/ ReadRecord(c) \/ SaveRecord(c) \/ ReadForRefresh(c)
    \/ WriteFiles(c) \/ DeleteFiles(c) \/ Regenerate(c)
    \/ RemoveRules(c) \/ StopAgent(c) \/ RemoveContainer(c) \/ StopProxy(c)
    \/ RemoveNetwork(c) \/ CreateNetwork(c) \/ StartProxy(c) \/ RunAgent(c) \/ AddRules(c)
    \/ ListAgents(c) \/ StopAll(c) \/ TakeNext(c) \/ Sweep(c) \/ WipeData(c)
    \/ Return(c)

Environment ==
    \/ \E a \in Agents : GetStatus(a) \/ AgentExits(a)
    \/ \E c \in Callers : Crash(c)
    \/ Reboot

Next == (\E c \in Callers : Request(c) \/ Step(c)) \/ Environment

Spec == Init /\ [][Next]_vars

--------------------------------------------------------------------------------
(* Properties. *)

\* With one caller at a time the records behave as AgentRegistry says: a port the
\* operator does not name is above those of the records as they are when the new
\* one is saved, whatever ports he named before, and the record
\* PauseAgent and UnpauseAgent write back differs from the one on disk only in
\* the flag.  (Loading the record and saving it are separate steps.)
Registry == INSTANCE AgentRegistry WITH
    Agents <- Agents, IDs <- IDs, NoID <- NoID, NoRec <- NoRec, Torn <- Torn, MaxPort <- MaxPort,
    rec <- rec, given <- given
RecordsRefineRegistry == Registry!Spec

Frame == [op : Ops, pc : Labels, a : Agents \cup {0}, snap : Snapshot,
          todo : SUBSET Agents, errs : BOOLEAN]

FilesOK == /\ rec \in [Agents -> Record \cup {NoRec, Torn}]
           /\ routing \in [IDs -> [agent : Agents \cup {0}, port : 0 .. MaxPort]]
           /\ given \subseteq Agents

HostOK == /\ ctr \in [Agents -> ContainerState]
          /\ pub \in [Agents -> 0 .. MaxPort]
          /\ proxy \in [Agents -> ContainerState]
          /\ net \subseteq Agents
          /\ rules \subseteq Agents
          /\ stale \subseteq Agents

FramesOK == call \in [Callers -> Frame]

\* A container publishes a port exactly while it runs, and only a running
\* container has rules at its address.
HostCoupled == /\ \A a \in Agents : (pub[a] # 0) <=> (ctr[a] = "running")
               /\ \A a \in rules : ctr[a] = "running"

\* Every variable has its type, and the host is in a state Docker can report.
TypeOK == FilesOK /\ HostOK /\ FramesOK /\ HostCoupled /\ faults \in 0 .. MaxFaults

\* No two agents have the same gateway port unless the operator named the port of
\* one of them, whatever is provisioned, provisioned again, removed or cut short in
\* between (NextAvailablePort and saveAgentConfig are separate steps; true of one
\* caller at a time).  A port he names is taken unchecked, with ports in use or not.
PortsDistinct ==
    \A a, b \in Listed \ given : a # b => rec[a].port # rec[b].port

\* The port of an agent's record is never held by another agent's container, so
\* that docker run in a later refresh cannot fail on it: a port is handed out
\* again only after the container that published it is gone.  Not so of a port
\* the operator named, which may be one that a container holds.
PortsHeld ==
    \A a \in Listed \ given, b \in Agents \ given : a # b => pub[b] # rec[a].port

\* The router posts an event to the loopback port in routing.json: whoever
\* listens there is the agent the entry was written for, if the operator named
\* the port of neither.
NoMisdelivery ==
    \A id \in IDs, a \in Agents :
        (routing[id].port # 0 /\ pub[a] = routing[id].port)
            => \/ routing[id].agent = a
               \/ {routing[id].agent, a} \cap given # {}

\* Between calls no entry of routing.json leads to an agent that is paused or
\* removed, also after calls that returned an error half way.
NoRouteToDeparted ==
    (\A c \in Callers : At(c, "idle")) =>
        \A id \in IDs : routing[id] # Unrouted => routing[id].agent \in Active

\* ProvisionAgent and RefreshAgent return success only for an agent that serves:
\* recorded as active, its container on the recorded port, behind its proxy and
\* its rules.
ServingOnSuccess ==
    \A c \in Callers :
        (At(c, "ok") /\ call[c].op \in {"provision", "refresh"}) =>
            LET a == call[c].a
            IN  /\ a \in Active
                /\ ctr[a] = "running" /\ pub[a] = rec[a].port
                /\ a \in net /\ proxy[a] = "running"
                /\ a \in rules

\* An agent container is started only when its egress proxy is running on its
\* network (the order of steps 7 and 8 of ProvisionAgent, also in every refresh).
ProxyBeforeAgent ==
    [][\A a \in Agents : (ctr[a] # "running" /\ ctr'[a] = "running")
           => (a \in net /\ proxy[a] = "running")]_vars

\* PauseAgent: a call that returns success leaves the container stopped.
PauseTruthful ==
    \A c \in Callers :
        (At(c, "ok") /\ call[c].op = "pause") => ctr[call[c].a] # "running"
================================================================================
