------------------------------ MODULE RemoteAgents ------------------------------
(***************************************************************************)
(* The agent lifecycle of the remote provider                              *)
(* (pkg/provider/remoteprovider/provider.go): the agents of LocalAgents on *)
(* a host that is reached over SSH.                                        *)
(*                                                                         *)
(* Every docker command and every file operation is a command given to     *)
(* SSHClient, with the outcomes RemoteCommand states: it is done, or there *)
(* is an error and it may have taken effect, or the host cannot be reached *)
(* and it has not.  The provider takes an error of `docker inspect` for    *)
(* absence and an error of `ls agents/*.json` for an empty list, and it    *)
(* goes on after most errors.  SSHClient must not be used concurrently, so *)
(* one method runs at a time: `call` is its frame.                         *)
(***************************************************************************)
EXTENDS Naturals, FiniteSets

CONSTANTS
    Agents,     \* agent names, as their ranks in the order of sort.Slice
    IDs,        \* channel IDs an agent can be bound to
    NoID,       \* the binding of a gateway-only agent
    NoRec,      \* there is no agents/<name>.json
    Torn,       \* agents/<name>.json is there and does not parse
    MaxPort,    \* bound: ports handed out, as offsets from BaseGatewayPort - 1
    Named,      \* the ports the operator names, as pairs of an agent and a port
    Faults,     \* the kinds of fault that can happen, a subset of FaultKinds
    MaxFaults   \* bound: faults in a behaviour

FaultKinds ==
    { "lost",    \* the link breaks under a command: its outcome is unknown
      "drop",    \* the host can no longer be reached
      "docker",  \* a docker command fails on the host
      "torn",    \* the link breaks under the shell fallback of an upload
      "crash",   \* the calling process dies between two commands
      "reboot" } \* the host restarts, between two calls

ASSUME AgentsAssumption == Agents \subseteq Nat \ {0}
ASSUME BindingAssumption == NoID \notin IDs
ASSUME BoundAssumption == MaxPort \in Nat \ {0} /\ MaxFaults \in Nat
ASSUME NamedAssumption == Named \subseteq Agents \X (1 .. MaxPort)
ASSUME FaultsAssumption == Faults \subseteq FaultKinds

Record == [paused : BOOLEAN, port : 1 .. MaxPort, id : IDs \cup {NoID}]

ASSUME RecordAssumption == NoRec \notin Record /\ Torn \notin Record /\ NoRec # Torn

VARIABLES
    rec,      \* agents/<name>.json on the host
    ctr,      \* the agent's container
    pub,      \* the loopback port a running container publishes, else 0
    proxy,    \* the agent's egress proxy container
    net,      \* the agents whose Docker network exists
    rules,    \* the agents whose running container's address has its rules
    routing,  \* routing.json: per ID the agent it names, 0 for none
    router,   \* the router's container, and the routing.json it was started on
    ready,    \* Slack is configured: what its router needs in router.env, and its source
    link,     \* the host can be reached ("up") or not ("down")
    call,     \* the frame of the method that runs
    faults    \* how many faults there were

host == <<ctr, pub, rules>>
infra == <<proxy, net>>
edge == <<routing, router, ready>>
vars == <<rec, host, infra, edge, link, call, faults>>

Ops == {"none", "setup", "provision", "remove", "pause", "unpause", "refresh", "refreshAll",
        "cycle", "teardown"}
Labels == {"idle", "dirs", "sources", "table", "channel", "pick", "read", "save", "reread", "prep", "files",
           "unfilter", "stop", "unproxy", "netrm", "net", "renet", "proxy", "rm", "run", "filter",
           "delete", "route", "reroute", "router", "list", "halt", "each", "sweep", "wipe", "ok", "err"}
ContainerState == {"absent", "stopped", "running"}

Unrouted == [id \in IDs |-> 0]
Snapshot == [paused : BOOLEAN, port : 0 .. MaxPort, id : IDs \cup {NoID}]

\* clean: the host could be reached when the method was called, and no fault since
Idle == [op |-> "none", pc |-> "idle", a |-> 0, todo |-> {}, clean |-> FALSE,
         snap |-> [paused |-> FALSE, port |-> 0, id |-> NoID]]

\* the records that parse
Listed == {a \in Agents : rec[a] \in Record}
Active == {a \in Listed : ~rec[a].paused}

\* common.GenerateRoutingJSON of the agents of a list
RoutingOf(S) ==
    LET holders(id) == {a \in S \cap Active : rec[a].id = id}
        last(id) == {a \in holders(id) : \A b \in holders(id) : b <= a}
    IN  [id \in IDs |-> IF last(id) = {} THEN 0 ELSE CHOOSE a \in last(id) : TRUE]

At(l) == call.pc = l
Goto(l) == call' = [call EXCEPT !.pc = l]
Spoil(l) == call' = [call EXCEPT !.pc = l, !.clean = FALSE]

\* where an error that is returned leads: CycleHost reports it and takes the next agent
Error == IF call.op = "cycle" THEN "each" ELSE "err"

Fault(k) == k \in Faults /\ faults < MaxFaults /\ faults' = faults + 1

--------------------------------------------------------------------------------
(* The outcomes of a command (RemoteCommand). *)

\* it takes effect and its answer arrives, on a new connection if need be
Done == link = "up" /\ UNCHANGED <<link, faults>>

\* there is an error, whether it took effect or not
Lost == link = "up" /\ Fault("lost") /\ link' \in {"up", "down"}

\* neither the connection nor the new one can be had
Unreachable == link = "down" /\ UNCHANGED <<link, faults>>

\* the command itself fails
Fails == link = "up" /\ Fault("docker") /\ UNCHANGED link

\* it cannot be reached for the first command of a step, and can for the last
Regained == link = "down" /\ link' = "up" /\ UNCHANGED faults

Takes(l) == Done /\ Goto(l)
Undone(l) == (Lost \/ Unreachable \/ Fails) /\ Spoil(l)
Half(l) == (Lost \/ Fails) /\ Spoil(l)

\* ListAgents returns S: an error of `ls` is an empty list, and a record that cannot
\* be read is left out of it.
Seen(S) == \/ Done /\ S = Listed
           \/ Lost /\ S \in SUBSET Listed
           \/ Unreachable /\ S = {}

\* nothing came between the call and the host in this step (after the outcome)
Undisturbed == link = "up" /\ faults' = faults

\* the containers of S end up in state st
Down(S, st) == /\ ctr' = [a \in Agents |-> IF a \in S THEN st ELSE ctr[a]]
               /\ pub' = [a \in Agents |-> IF a \in S THEN 0 ELSE pub[a]]
               /\ rules' = rules \ S

\* the router as ensureRouter runs it, and without its container
FreshRouter == [st |-> "running", table |-> routing]
NoRouter == [router EXCEPT !.st = "absent"]

PortFree(a, p) == \A b \in Agents \ {a} : pub[b] # p

Init ==
    /\ rec = [a \in Agents |-> NoRec]
    /\ ctr = [a \in Agents |-> "absent"]
    /\ pub = [a \in Agents |-> 0]
    /\ proxy = [a \in Agents |-> "absent"]
    /\ net = {}
    /\ rules = {}
    /\ routing = Unrouted
    /\ router = [st |-> "absent", table |-> Unrouted]
    /\ ready = FALSE
    /\ link = "up"
    /\ call = Idle
    /\ faults = 0

--------------------------------------------------------------------------------
(* Methods are called. *)

Begin(op, pc, a, id) ==
    /\ At("idle")
    /\ call' = [Idle EXCEPT !.op = op, !.pc = pc, !.a = a, !.clean = link = "up", !.snap.id = id]
    /\ UNCHANGED <<rec, host, infra, edge, link, faults>>

Setup == Begin("setup", "dirs", 0, NoID)
\* bound: there is a port left to hand out
ProvisionAgent(a, id) == /\ \A b \in Listed : rec[b].port < MaxPort
                         /\ Begin("provision", "pick", a, id)

\* A port the operator names is taken as it is, in use or not: nothing is listed.
ProvisionWithPort(a, id, p) ==
    /\ At("idle")
    /\ call' = [Idle EXCEPT !.op = "provision", !.pc = "save", !.a = a, !.clean = link = "up",
                            !.snap.port = p, !.snap.id = id]
    /\ UNCHANGED <<rec, host, infra, edge, link, faults>>

RemoveAgent(a) == Begin("remove", "unfilter", a, NoID)
PauseAgent(a) == Begin("pause", "read", a, NoID)
UnpauseAgent(a) == Begin("unpause", "read", a, NoID)
RefreshAgent(a) == Begin("refresh", "reread", a, NoID)
RefreshAll == Begin("refreshAll", "list", 0, NoID)
CycleHost == Begin("cycle", "list", 0, NoID)
Teardown == Begin("teardown", "list", 0, NoID)

Return == /\ call.pc \in {"ok", "err"}
          /\ call' = Idle
          /\ UNCHANGED <<rec, host, infra, edge, link, faults>>

--------------------------------------------------------------------------------
(* Setup. *)

\* Setup checks the connection and Docker and makes the directories
MakeDirs ==
    /\ At("dirs")
    /\ \/ Takes("sources") \/ Undone("err")
    /\ UNCHANGED <<rec, host, infra, edge>>

\* Shared secrets and the router's sources must arrive; dependencies, overlays, the
\* proxy's sources and the images need not.
UploadSources ==
    /\ At("sources")
    /\ \/ Takes("table") \/ Undone("err") \/ (Lost /\ Spoil("table"))
    /\ UNCHANGED <<rec, host, infra, edge>>

\* `test -f routing.json`: when the answer is lost the file is taken to be missing,
\* and an empty one is uploaded over it.
InitTable ==
    /\ At("table")
    /\ \/ Takes("channel") /\ UNCHANGED routing
       \/ Undone("channel") /\ UNCHANGED routing
       \/ (Lost \/ Regained) /\ link' = "up" /\ Spoil("channel") /\ routing' = Unrouted
    /\ UNCHANGED <<rec, host, infra, router, ready>>

\* AddChannel of Slack, with the secrets its router needs, which are in the
\* configuration of Setup or given to `conga channels add`: secrets and router.env,
\* then ensureRouter(true).  (Channels has the other platforms and secrets.)
ConfigureChannel ==
    /\ At("channel")
    /\ \/ /\ Takes("ok")
          /\ \/ UNCHANGED <<router, ready>>
             \/ ready' = TRUE /\ router' = FreshRouter
       \/ /\ Undone("err")
          /\ UNCHANGED <<router, ready>>
       \/ /\ Half("err")
          /\ ready' = TRUE
          /\ router' \in {router, NoRouter, FreshRouter}
    /\ UNCHANGED <<rec, host, infra, routing>>

--------------------------------------------------------------------------------
(* Steps on files. *)

\* (mutant of PickPort: the offset of the highest port in use)
PickLastPort ==
    /\ At("pick")
    /\ \E p \in 0 .. MaxPort :
          /\ \A a \in Listed : rec[a].port <= p
          /\ p = 0 \/ \E a \in Listed : p = rec[a].port
          /\ Done
          /\ call' = [call EXCEPT !.pc = "save", !.snap.port = p]
    /\ UNCHANGED <<rec, host, infra, edge>>

\* resolveGatewayPort, with no port named: one more than the highest port of the
\* agents in the list
PickPort ==
    /\ At("pick")
    /\ \E S \in SUBSET Listed, p \in 1 .. MaxPort :
          /\ \A a \in S : rec[a].port < p
          /\ p = 1 \/ \E a \in S : p = rec[a].port + 1
          /\ Seen(S)
          /\ call' = [call EXCEPT !.pc = "save", !.snap.port = p, !.clean = @ /\ Undisturbed]
    /\ UNCHANGED <<rec, host, infra, edge>>

\* PauseAgent and UnpauseAgent: nothing to do when the flag has the wanted value
ReadRecord ==
    LET a == call.a
        wanted == call.op = "pause"
    IN  /\ At("read")
        /\ \/ /\ Done
              /\ IF a \notin Listed THEN Goto("err")
                 ELSE IF rec[a].paused = wanted THEN Goto("ok")
                 ELSE call' = [call EXCEPT !.pc = "save", !.snap = [rec[a] EXCEPT !.paused = wanted]]
           \/ Undone("err")
        /\ UNCHANGED <<rec, host, infra, edge>>

\* saveAgentConfig: Upload renames a temporary file over the record; its shell
\* fallback writes in place.
SaveRecord ==
    LET next == IF call.op = "provision" THEN "prep"
                ELSE IF call.op = "pause" THEN "unfilter" ELSE "reread"
    IN  /\ At("save")
        /\ \/ Takes(next) /\ rec' = [rec EXCEPT ![call.a] = call.snap]
           \/ Lost /\ Spoil("err") /\ rec' = [rec EXCEPT ![call.a] = call.snap]
           \/ Undone("err") /\ UNCHANGED rec
           \/ /\ link = "up" /\ Fault("torn") /\ link' \in {"up", "down"}
              /\ rec' = [rec EXCEPT ![call.a] = Torn]
              /\ Spoil("err")
        /\ UNCHANGED <<host, infra, edge>>

\* (mutant of ReadForRefresh: a paused agent is not refused)
ReadPausedForRefresh ==
    /\ At("reread")
    /\ \/ Takes(IF call.a \in Listed THEN "files" ELSE Error)
       \/ Undone(Error)
    /\ UNCHANGED <<rec, host, infra, edge>>

\* RefreshAgent loads the record and refuses a paused agent
ReadForRefresh ==
    /\ At("reread")
    /\ \/ Takes(IF call.a \in Active THEN "files" ELSE Error)
       \/ Undone(Error)
    /\ UNCHANGED <<rec, host, infra, edge>>

\* ProvisionAgent: secrets, overlay, openclaw.json, custom layers and environment; an
\* upload that fails is an error, a directory or a behaviour file is not.
ProvisionFiles ==
    /\ At("prep")
    /\ \/ Takes("net") \/ Undone("err") \/ (Lost /\ Spoil("net"))
    /\ UNCHANGED <<rec, host, infra, edge>>

\* RefreshAgent writes them again, with whatever secrets can be read
RefreshFiles ==
    /\ At("files")
    /\ \/ Takes("unfilter") \/ Undone(Error) \/ (Lost /\ Spoil("unfilter"))
    /\ UNCHANGED <<rec, host, infra, edge>>

\* `rm -f` of record and files; nobody looks at its outcome
DeleteFiles ==
    /\ At("delete")
    /\ \/ (Takes("route") \/ (Lost /\ Spoil("route"))) /\ rec' = [rec EXCEPT ![call.a] = NoRec]
       \/ Undone("route") /\ UNCHANGED rec
    /\ UNCHANGED <<host, infra, edge>>

AfterRoute == CASE call.op \in {"provision", "remove"}     -> "router"
                [] call.op = "refreshAll" /\ call.a = 0     -> "router"
                [] call.op \in {"refreshAll", "cycle"}      -> "each"
                [] call.op = "unpause" /\ At("route")       -> "reroute"
                [] OTHER                                    -> "ok"

--------------------------------------------------------------------------------
(* Steps on the host. *)

\* needs a running container and an answer to three questions: best effort
RemoveRules ==
    LET gone == IF ctr[call.a] = "running" /\ call.a \in net THEN rules \ {call.a} ELSE rules
    IN  /\ At("unfilter")
        /\ \/ Takes("stop") /\ rules' = gone
           \/ Lost /\ Spoil("stop") /\ rules' = gone
           \/ Undone("stop") /\ UNCHANGED rules
        /\ UNCHANGED <<rec, ctr, pub, infra, edge>>

\* `docker stop` and `docker rm -f`, if inspect shows a container: RefreshAgent
\* returns their errors, the other methods do not look at them.
StopAgent ==
    LET a == call.a
        onError == IF call.op \in {"unpause", "refresh", "refreshAll", "cycle"} THEN Error
                   ELSE "unproxy"
    IN  /\ At("stop")
        /\ \/ Takes("unproxy") /\ Down({a}, "absent")
           \/ Undone("unproxy") /\ UNCHANGED host
           \/ /\ ctr[a] # "absent" /\ Half(onError)
              /\ \/ UNCHANGED host
                 \/ \E st \in {"stopped", "absent"} : Down({a}, st)
        /\ UNCHANGED <<rec, infra, edge>>

\* (mutant of StopProxy: RefreshAgent leaves the proxy where it is)
StopProxyUnlessRefresh ==
    /\ At("unproxy")
    /\ Takes(IF call.op = "pause" THEN "route"
             ELSE IF call.op \in {"remove", "teardown"} THEN "netrm" ELSE "renet")
    /\ proxy' = IF call.op = "refresh" THEN proxy ELSE [proxy EXCEPT ![call.a] = "absent"]
    /\ UNCHANGED <<rec, host, net, edge>>

\* stopAgentEgressProxy: `docker rm -f || true`
StopProxy ==
    LET next == IF call.op = "pause" THEN "route"
                ELSE IF call.op \in {"remove", "teardown"} THEN "netrm" ELSE "renet"
        gone == [proxy EXCEPT ![call.a] = "absent"]
    IN  /\ At("unproxy")
        /\ \/ Takes(next) /\ proxy' = gone
           \/ Lost /\ Spoil(next) /\ proxy' = gone
           \/ Undone(next) /\ UNCHANGED proxy
        /\ UNCHANGED <<rec, host, net, edge>>

\* Docker keeps a network to which a running container is attached
Attached(a) == ctr[a] = "running" \/ proxy[a] = "running"

RemoveNetwork ==
    LET next == IF call.op = "remove" THEN "delete" ELSE "each"
        left == IF Attached(call.a) THEN net ELSE net \ {call.a}
    IN  /\ At("netrm")
        /\ \/ Takes(next) /\ net' = left
           \/ Lost /\ Spoil(next) /\ net' = left
           \/ Undone(next) /\ UNCHANGED net
        /\ UNCHANGED <<rec, host, proxy, edge>>

\* ProvisionAgent creates the network if inspect does not show it; "already exists"
\* is success.
CreateNetwork ==
    LET made == net \cup {call.a}
    IN  /\ At("net")
        /\ \/ Takes("proxy") /\ net' = made
           \/ Lost /\ Spoil("proxy") /\ net' = made
           \/ Undone("err") /\ UNCHANGED net
           \/ Lost /\ Spoil("err") /\ net' = made
        /\ UNCHANGED <<rec, host, proxy, edge>>

\* RefreshAgent removes the network first, which it cannot while one is attached
RecreateNetwork ==
    LET a == call.a
        refused == a \in net /\ Attached(a)
        made == net \cup {a}
    IN  /\ At("renet")
        /\ \/ refused /\ Done /\ Goto(Error) /\ UNCHANGED net
           \/ ~refused /\ Takes("proxy") /\ net' = made
           \/ Lost /\ Spoil("proxy") /\ net' = made
           \/ Undone(Error) /\ UNCHANGED net
           \/ Half(Error) /\ net' \in {made, IF refused THEN net ELSE net \ {a}}
        /\ UNCHANGED <<rec, host, proxy, edge>>

\* (mutant of StartProxy: a failure is a warning)
StartProxyBestEffort ==
    /\ At("proxy")
    /\ \/ Takes(IF call.op = "provision" THEN "rm" ELSE "run") /\ proxy' = [proxy EXCEPT ![call.a] = "running"]
       \/ Undone(IF call.op = "provision" THEN "rm" ELSE "run") /\ UNCHANGED proxy
    /\ net' = net \cup {call.a}
    /\ UNCHANGED <<rec, host, edge>>

\* startAgentEgressProxy: the old proxy is removed (whatever comes of it), image
\* and configuration are made ready, the network too, and the proxy is run.  One
\* that could not be removed is in the way of the new one's name.
StartProxy ==
    LET a == call.a
        next == IF call.op = "provision" THEN "rm" ELSE "run"
    IN  /\ At("proxy")
        /\ \/ Takes(next) /\ proxy' = [proxy EXCEPT ![a] = "running"] /\ net' = net \cup {a}
           \/ Lost /\ Spoil(Error) /\ proxy' = [proxy EXCEPT ![a] = "running"] /\ net' = net \cup {a}
           \/ Undone(Error) /\ UNCHANGED infra
           \/ /\ Half(Error)
              /\ \E st \in {"stopped", "absent"} : proxy' = [proxy EXCEPT ![a] = st]
              /\ UNCHANGED net
        /\ UNCHANGED <<rec, host, edge>>

\* ProvisionAgent removes a container of that name, if there is one
RemoveLeftover ==
    /\ At("rm")
    /\ \/ (Takes("run") \/ (Lost /\ Spoil("run"))) /\ Down({call.a}, "absent")
       \/ Undone("run") /\ UNCHANGED host
    /\ UNCHANGED <<rec, infra, edge>>

\* Owner, proxy bootstrap, plugins, and docker run: it needs the name, the network
\* and the port; a container whose port is taken stays behind, created.
RunAgent ==
    LET a == call.a
        p == rec[a].port
        runs == /\ ctr' = [ctr EXCEPT ![a] = "running"]
                /\ pub' = [pub EXCEPT ![a] = p]
                /\ rules' = rules \ {a}
        can == ctr[a] = "absent" /\ a \in net /\ PortFree(a, p)
    IN  /\ At("run")
        /\ \/ can /\ Takes("filter") /\ runs
           \/ can /\ Lost /\ Spoil(Error) /\ runs
           \/ ~can /\ Done /\ Goto(Error) /\ IF ctr[a] = "absent" /\ a \in net
                                             THEN Down({a}, "stopped") ELSE UNCHANGED host
           \/ Undone(Error) /\ UNCHANGED host
           \/ can /\ Fails /\ Spoil(Error) /\ Down({a}, "stopped")
        /\ UNCHANGED <<rec, infra, edge>>

\* three answers are needed; a failure is a warning
AddRules ==
    /\ At("filter")
    /\ \/ (Takes("route") \/ (Lost /\ Spoil("route"))) /\ rules' = rules \cup {call.a}
       \/ Undone("route") /\ UNCHANGED rules
    /\ UNCHANGED <<rec, ctr, pub, infra, edge>>

\* regenerateRouting: the list, then the upload; a failure is a warning.  The list
\* can be lost and the upload succeed.
Regenerate ==
    /\ call.pc \in {"route", "reroute"}
    /\ \/ Takes(AfterRoute) /\ routing' = RoutingOf(Listed)
       \/ Undone(AfterRoute) /\ UNCHANGED routing
       \/ /\ Lost /\ Spoil(AfterRoute)
          /\ \E S \in SUBSET Listed : routing' = RoutingOf(S) /\ (S = Listed \/ link' = "up")
       \/ Regained /\ Spoil(AfterRoute) /\ routing' = Unrouted
    /\ UNCHANGED <<rec, host, infra, router, ready>>

\* (mutant of RestartRouter: a router that runs is left alone)
RestartRouterIfDown ==
    /\ At("router")
    /\ (Takes(IF call.op = "refreshAll" THEN "each" ELSE "ok")
        \/ Undone(IF call.op = "refreshAll" THEN "each" ELSE "ok"))
    /\ router' = IF ready /\ router.st # "running" THEN [st |-> "running", table |-> routing] ELSE router
    /\ UNCHANGED <<rec, host, infra, routing, ready>>

\* restartRouter, when a channel is configured: the container is removed and run
\* again; a failure is a warning.
RestartRouter ==
    LET next == IF call.op = "refreshAll" THEN "each" ELSE "ok"
    IN  /\ At("router")
        /\ \/ Takes(next) /\ router' = IF ready THEN FreshRouter ELSE router
           \/ Undone(next) /\ UNCHANGED router
           \/ ready /\ Half(next) /\ router' \in {NoRouter, FreshRouter}
        /\ UNCHANGED <<rec, host, infra, routing, ready>>

--------------------------------------------------------------------------------
(* Steps of the operations on every agent. *)

\* ListAgents, once.  RefreshAll regenerates routing.json and restarts the router
\* before the first agent, when it finds a channel configured.
ListAgents ==
    /\ At("list")
    /\ \E S \in SUBSET Listed :
          /\ Seen(S)
          /\ call' = [call EXCEPT !.todo = IF call.op = "teardown" THEN S ELSE S \cap Active,
                                  !.pc = CASE call.op = "cycle"               -> "halt"
                                           [] call.op = "refreshAll" /\ ready -> "route"
                                           [] OTHER                           -> "each",
                                  !.clean = @ /\ Undisturbed]
    /\ UNCHANGED <<rec, host, infra, edge>>

\* CycleHost stops agents and router, ignoring errors, and runs the router again
StopAll ==
    LET present == {a \in call.todo : ctr[a] # "absent"}
    IN  /\ At("halt")
        /\ \/ /\ Takes("each")
              /\ Down(present, "stopped")
              /\ router' = IF ready THEN FreshRouter ELSE NoRouter
           \/ /\ Half("each")
              /\ \E S \in SUBSET present : Down(S, "stopped")
              /\ router' \in {router, [router EXCEPT !.st = IF @ = "running" THEN "stopped" ELSE @], NoRouter}
                             \cup IF ready THEN {FreshRouter} ELSE {}
           \/ /\ Unreachable /\ Spoil("each")
              /\ UNCHANGED <<host, router>>
        /\ UNCHANGED <<rec, infra, routing, ready>>

\* the next agent in the order of the list; nothing is asked of the host
TakeNext ==
    LET todo == call.todo
        teardown == call.op = "teardown"
    IN  /\ At("each")
        /\ IF todo = {} THEN Goto(IF teardown THEN "sweep" ELSE "ok")
           ELSE \E a \in todo :
                   /\ \A b \in todo : a <= b
                   /\ call' = [call EXCEPT !.a = a, !.todo = todo \ {a},
                                           !.pc = IF teardown THEN "unfilter" ELSE "reread"]
        /\ UNCHANGED <<rec, host, infra, edge, link, faults>>

\* (mutant of Sweep: the networks are left)
SweepContainers ==
    /\ At("sweep")
    /\ Takes("wipe")
    /\ Down(Agents, "absent")
    /\ proxy' = [a \in Agents |-> "absent"]
    /\ router' = NoRouter
    /\ UNCHANGED <<rec, net, routing, ready>>

\* cleanupDockerByPrefix: every container and network named conga-*, the router's too
Sweep ==
    LET keep(S) == /\ Down(Agents \ S, "absent")
                   /\ proxy' = [a \in Agents |-> IF a \in S THEN proxy[a] ELSE "absent"]
                   /\ net' = net \cap S
    IN  /\ At("sweep")
        /\ \/ Takes("wipe") /\ keep({}) /\ router' = NoRouter
           \/ /\ Half("wipe")
              /\ \E S \in SUBSET Agents : keep(S)
              /\ router' \in {router, NoRouter}
           \/ Unreachable /\ Spoil("wipe") /\ UNCHANGED <<host, infra, router>>
        /\ UNCHANGED <<rec, routing, ready>>

\* `rm -rf` of the remote directory; its outcome is not looked at
WipeData ==
    /\ At("wipe")
    /\ \/ /\ Takes("ok") \/ (Lost /\ Spoil("ok"))
          /\ rec' = [a \in Agents |-> NoRec]
          /\ routing' = Unrouted
          /\ ready' = FALSE
       \/ Undone("ok") /\ UNCHANGED <<rec, routing, ready>>
    /\ UNCHANGED <<host, infra, router>>

--------------------------------------------------------------------------------
(* The host and the link. *)

\* GetStatus of a running agent applies missing rules again
GetStatus(a) ==
    /\ At("idle") /\ link = "up"
    /\ ctr[a] = "running" /\ a \in net /\ a \notin rules
    /\ rules' = rules \cup {a}
    /\ UNCHANGED <<rec, ctr, pub, infra, edge, link, call, faults>>

LinkDrops ==
    /\ link = "up" /\ Fault("drop")
    /\ link' = "down"
    /\ call' = [call EXCEPT !.clean = FALSE]
    /\ UNCHANGED <<rec, host, infra, edge>>

LinkHeals ==
    /\ link = "down" /\ link' = "up"
    /\ UNCHANGED <<rec, host, infra, edge, call, faults>>

Crash ==
    /\ ~At("idle") /\ Fault("crash")
    /\ call' = Idle
    /\ UNCHANGED <<rec, host, infra, edge, link>>

\* no container has a restart policy, and iptables rules do not persist
Reboot ==
    /\ At("idle") /\ Fault("reboot")
    /\ ctr' = [a \in Agents |-> IF ctr[a] = "running" THEN "stopped" ELSE ctr[a]]
    /\ pub' = [a \in Agents |-> 0]
    /\ rules' = {}
    /\ proxy' = [a \in Agents |-> IF proxy[a] = "running" THEN "stopped" ELSE proxy[a]]
    /\ router' = [router EXCEPT !.st = IF @ = "running" THEN "stopped" ELSE @]
    /\ UNCHANGED <<rec, net, routing, ready, link, call>>

Request ==
    \/ Setup \/ RefreshAll \/ CycleHost \/ Teardown
    \/ \E a \in Agents :
          \/ \E id \in IDs \cup {NoID} :
                \/ ProvisionAgent(a, id)
                \/ \E p \in 1 .. MaxPort : <<a, p>> \in Named /\ ProvisionWithPort(a, id, p)
          \/ RemoveAgent(a) \/ PauseAgent(a) \/ UnpauseAgent(a) \/ RefreshAgent(a)

Step ==
    \/ MakeDirs \/ UploadSources \/ InitTable \/ ConfigureChannel
    \/ PickPort \/ ReadRecord \/ SaveRecord \/ ReadForRefresh \/ ProvisionFiles
    \/ RefreshFiles \/ DeleteFiles
    \/ RemoveRules \/ StopAgent \/ StopProxy \/ RemoveNetwork \/ CreateNetwork
    \/ RecreateNetwork \/ StartProxy \/ RemoveLeftover \/ RunAgent \/ AddRules \/ Regenerate \/ RestartRouter
    \/ ListAgents \/ StopAll \/ TakeNext \/ Sweep \/ WipeData
    \/ Return

Environment == (\E a \in Agents : GetStatus(a)) \/ LinkDrops \/ LinkHeals \/ Crash \/ Reboot

Next == Request \/ Step \/ Environment

Spec == Init /\ [][Next]_vars

--------------------------------------------------------------------------------
(* Properties. *)

Frame == [op : Ops, pc : Labels, a : Agents \cup {0}, todo : SUBSET Agents, clean : BOOLEAN,
          snap : Snapshot]

\* Every variable has its type; a container publishes a port exactly while it runs,
\* and only a running container has rules.
TypeOK ==
    /\ rec \in [Agents -> Record \cup {NoRec, Torn}]
    /\ ctr \in [Agents -> ContainerState] /\ pub \in [Agents -> 0 .. MaxPort]
    /\ proxy \in [Agents -> ContainerState] /\ net \subseteq Agents /\ rules \subseteq Agents
    /\ routing \in [IDs -> Agents \cup {0}]
    /\ router \in [st : ContainerState, table : [IDs -> Agents \cup {0}]]
    /\ ready \in BOOLEAN /\ link \in {"up", "down"}
    /\ call \in Frame /\ faults \in 0 .. MaxFaults
    /\ \A a \in Agents : (pub[a] # 0 <=> ctr[a] = "running") /\ (a \in rules => ctr[a] = "running")

Returned(ops) == At("ok") /\ call.op \in ops

\* ProvisionAgent and RefreshAgent return success only for an agent that serves
\* behind its proxy, whatever was lost on the way.
ServingOnSuccess ==
    Returned({"provision", "refresh"}) =>
        LET a == call.a
        IN  /\ a \in Active /\ ctr[a] = "running" /\ pub[a] = rec[a].port
            /\ a \in net /\ proxy[a] = "running"

\* A refresh that nothing disturbs succeeds on whatever earlier calls left behind:
\* the agent is recorded and active, so only its port can be in the way.
RefreshRepairs ==
    (At("err") /\ call.op = "refresh" /\ call.clean) =>
        (call.a \notin Active \/ ~PortFree(call.a, rec[call.a].port))

\* A removal that nothing disturbs leaves nothing of the agent on the host, and a
\* teardown nothing of any agent, although no step of either looks at an error.
RemovalComplete ==
    (Returned({"remove", "teardown"}) /\ call.clean) =>
        \A a \in IF call.op = "remove" THEN {call.a} ELSE Agents :
            /\ rec[a] = NoRec /\ ctr[a] = "absent" /\ proxy[a] = "absent" /\ a \notin net
            /\ \A id \in IDs : routing[id] # a

\* A provision, a removal or a refresh that nothing disturbs leaves the routing.json
\* of the present records, and the first two a router that was started on it.
RouterCurrent ==
    (Returned({"provision", "remove", "refresh"}) /\ call.clean) =>
        /\ routing = RoutingOf(Listed)
        /\ (ready /\ call.op # "refresh") => router = [st |-> "running", table |-> routing]

\* An agent container is started only behind a running proxy.
ProxyBeforeAgent ==
    [][\A a \in Agents : (ctr[a] # "running" /\ ctr'[a] = "running")
           => (a \in net /\ proxy[a] = "running")]_vars
================================================================================
