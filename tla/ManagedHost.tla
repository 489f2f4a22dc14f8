------------------------------ MODULE ManagedHost ------------------------------
(***************************************************************************)
(* The agent lifecycle on a managed host: the AWS provider                 *)
(* (pkg/provider/awsprovider), the engine it shares with other managed     *)
(* hosts (pkg/provider/managedhost), the scripts it runs on the instance   *)
(* (scripts/*.sh.tmpl) and the bootstrap that the instance runs at every   *)
(* boot (terraform/modules/infrastructure/user-data.sh.tftpl).             *)
(*                                                                         *)
(* An agent is a parameter in SSM; on the instance it is a systemd unit    *)
(* that keeps a container up, an egress proxy container, a Docker network  *)
(* of its own, and an entry in routing.json.  The engine gives the agent   *)
(* address .2 and the proxy .3 on a static subnet; the bootstrap leaves    *)
(* the addresses to Docker.  A provider method is a sequence of SSM calls  *)
(* and of commands run on the instance; a command the caller stops waiting *)
(* for may still run to its end.                                           *)
(*                                                                         *)
(* Each agent is bound to a channel ID of its own.  Generated files,       *)
(* secrets, iptables and the image are not in this module.                 *)
(***************************************************************************)
EXTENDS Naturals, FiniteSets

CONSTANTS
    Agents,     \* agent names
    Callers,    \* processes and tool calls that invoke the provider
    Requests,   \* the methods they call, a subset of Methods
    Faults,     \* the kinds of fault that can happen, a subset of FaultKinds
    MaxFaults   \* bound: faults in a behaviour

Methods == {"provision", "remove", "pause", "unpause", "refresh", "refreshAll", "deploy", "cycle"}

FaultKinds ==
    { "ssm",      \* the parameter store refuses a read or a write
      "policy",   \* the policy or the overlay on the caller's side is unusable
      "command",  \* a command on the instance fails, part of it done
      "timeout",  \* the caller gives up on a command that runs on
      "start",    \* the unit cannot be started
      "crash",    \* the calling process dies between two steps
      "boot",     \* the bootstrap aborts
      "reboot" }  \* the instance restarts

ASSUME RequestsAssumption == Requests \subseteq Methods
ASSUME HostFaultsAssumption == Faults \subseteq FaultKinds /\ MaxFaults \in Nat

VARIABLES
    param,    \* /conga/agents/<name>: "none", "active" or "paused"
    unit,     \* the unit file: "none", "boot" (no --ip) or "engine" (--ip .2)
    wanted,   \* the units systemd keeps up
    agentAt,  \* the address of the agent's container, 0 when it does not run
    proxyAt,  \* the address of its egress proxy, 0 when there is none
    net,      \* its network: "none", "auto" or "static" subnet
    ghosts,   \* the networks with an endpoint that cannot be disconnected
    route,    \* its entry in routing.json: "none", "bridge" or "loopback"
    boot,     \* the bootstrap: where it is and which agents it found
    late,     \* commands that run although their caller has given up
    call,     \* per caller the frame of the method it runs
    faults    \* how many faults there were

host == <<unit, wanted, agentAt, proxyAt, net, ghosts, route>>
vars == <<param, unit, wanted, agentAt, proxyAt, net, ghosts, route, boot, late, call, faults>>

AgentIP == 2
ProxyIP == 3
Addresses == {AgentIP, ProxyIP}

Labels == {"idle", "list", "each", "put", "infra", "read", "config", "inspect", "commit",
           "create", "define", "start", "route", "deploy", "look", "halt", "mark", "rollback",
           "remove", "unregister", "cycle", "ok", "err"}

\* Commands long enough for a caller to give up on them
Jobs == {"infra", "halt", "remove", "start", "deploy"}

\* where the bootstrap is; "up" when it is not running
BootSteps == {"clear", "setup", "start", "up"}

Idle == [op |-> "none", pc |-> "idle", a |-> "none", migrated |-> FALSE, failed |-> FALSE,
         since |-> 0, todo |-> {}]

Active == {a \in Agents : param[a] = "active"}

\* methods that go through RefreshAgent
Refreshing == {"provision", "unpause", "refresh", "refreshAll"}

--------------------------------------------------------------------------------
(* Frames. *)

At(c, l) == call[c].pc = l
Goto(c, l) == call' = [call EXCEPT ![c].pc = l]

\* The method fails, but for two: UnpauseAgent takes its flag back when
\* RefreshAgent has failed, and RefreshAll goes on with the next agent.
Fail(c) ==
    LET op == call[c].op
        refresh == call[c].pc \in {"read", "config", "inspect", "commit", "create", "define",
                                   "start", "deploy"}
    IN  call' = [call EXCEPT
                   ![c].pc = IF op = "unpause" /\ refresh THEN "rollback"
                             ELSE IF op = "refreshAll" /\ refresh THEN "each" ELSE "err",
                   ![c].failed = IF op = "refreshAll" THEN TRUE ELSE @]

\* The method, or the refresh of one agent of the fleet, is done.
Succeed(c) == Goto(c, IF call[c].op = "refreshAll" THEN "each" ELSE "ok")

Fault(k) == /\ k \in Faults
            /\ faults < MaxFaults
            /\ faults' = faults + 1
NoFault == UNCHANGED faults

--------------------------------------------------------------------------------
(* systemd and Docker, as the engine, the scripts and the bootstrap use them. *)

\* The address docker run gives the container of a unit on a network, with the
\* proxy at p; 0 when it is refused.  --ip needs a static subnet and a free
\* address; without it the lowest free address is taken.
AddressOf(u, n, p) ==
    IF u = "engine" THEN IF n = "static" /\ p # AgentIP THEN AgentIP ELSE 0
    ELSE IF u = "none" \/ n = "none" THEN 0
    ELSE IF p = AgentIP THEN ProxyIP ELSE AgentIP

Stopped(S) == /\ wanted' = wanted \ S
              /\ agentAt' = [a \in Agents |-> IF a \in S THEN 0 ELSE agentAt[a]]

\* The units of S are started, each next to the proxy at p[a].
Started(S, p) ==
    /\ wanted' = wanted \cup {a \in S : unit[a] # "none"}
    /\ agentAt' = [a \in Agents |-> IF a \in S THEN AddressOf(unit[a], net[a], p[a]) ELSE agentAt[a]]

\* systemctl restart.  When docker run is refused, systemctl may have returned
\* before the container failed (Type=simple), or not.
Restart(a, p, ok) ==
    \/ /\ unit[a] # "none"
       /\ Started({a}, p)
       /\ agentAt'[a] # 0 => ok
       /\ NoFault
    \/ /\ unit[a] = "none"
       /\ ~ok
       /\ UNCHANGED <<wanted, agentAt>>
       /\ NoFault
    \/ /\ ~ok
       /\ Fault("start")
       /\ agentAt' = [agentAt EXCEPT ![a] = 0]
       /\ \E W \in {wanted, wanted \ {a}} : wanted' = W

\* Restart of the supervisor
StartJob(a, ok) ==
    /\ Restart(a, proxyAt, ok)
    /\ UNCHANGED <<unit, proxyAt, net, ghosts, route>>

\* scripts/add-user.sh.tmpl, add-team.sh.tmpl: the network and the proxy of a new
\* agent; a network that is already there ends the script.
InfraJob(a, ok) ==
    /\ \/ /\ net[a] # "none" /\ ~ok
          /\ UNCHANGED <<net, proxyAt>>
          /\ NoFault
       \/ /\ net[a] = "none"
          /\ net' = [net EXCEPT ![a] = "static"]
          /\ \/ /\ ok
                /\ proxyAt' = [proxyAt EXCEPT ![a] = ProxyIP]
                /\ NoFault
             \/ /\ ~ok
                /\ UNCHANGED proxyAt
                /\ Fault("command")
    /\ UNCHANGED <<unit, wanted, agentAt, ghosts, route>>

\* scripts/pause-agent.sh.tmpl: the unit is stopped (an error is ignored), then
\* the entry goes; the unit file stays.
HaltJob(a, ok) ==
    /\ \/ /\ ok
          /\ Stopped({a})
          /\ route' = [route EXCEPT ![a] = "none"]
          /\ NoFault
       \/ /\ Fault("command")
          /\ \/ ok /\ UNCHANGED <<wanted, agentAt>> /\ route' = [route EXCEPT ![a] = "none"]
             \/ ~ok /\ Stopped({a}) /\ UNCHANGED route
    /\ UNCHANGED <<unit, proxyAt, net, ghosts>>

\* scripts/remove-agent.sh.tmpl: an endpoint that cannot be disconnected keeps the
\* network, and the script succeeds all the same.
RemoveJob(a, ok) ==
    /\ Stopped({a})
    /\ \/ /\ ok
          /\ unit' = [unit EXCEPT ![a] = "none"]
          /\ proxyAt' = [proxyAt EXCEPT ![a] = 0]
          /\ \/ /\ net' = [net EXCEPT ![a] = IF a \in ghosts THEN @ ELSE "none"]
                /\ NoFault
             \/ /\ UNCHANGED net
                /\ Fault("command")
       \/ /\ ~ok
          /\ UNCHANGED <<unit, proxyAt, net>>
          /\ Fault("command")
    /\ UNCHANGED <<ghosts, route>>

\* scripts/deploy-egress.sh.tmpl: the proxy is removed, run again with its address,
\* and the unit restarted.  --ip is refused on an auto subnet and while the agent's
\* container holds the address.
DeployJob(a, ok) ==
    LET refused == net[a] # "static" \/ agentAt[a] = ProxyIP
        gone == [proxyAt EXCEPT ![a] = 0]
        fresh == [proxyAt EXCEPT ![a] = ProxyIP]
    IN  /\ \/ /\ ~ok
              /\ proxyAt' = gone
              /\ UNCHANGED <<wanted, agentAt>>
              /\ IF refused THEN NoFault ELSE Fault("command")
           \/ /\ ~refused
              /\ proxyAt' = fresh
              /\ Restart(a, fresh, ok)
        /\ UNCHANGED <<unit, net, ghosts, route>>

Job(j, a, ok) ==
    \/ j = "start" /\ StartJob(a, ok)
    \/ j = "infra" /\ InfraJob(a, ok)
    \/ j = "halt" /\ HaltJob(a, ok)
    \/ j = "remove" /\ RemoveJob(a, ok)
    \/ j = "deploy" /\ DeployJob(a, ok)

\* A host as the bootstrap leaves it: agents whose unit and network are the
\* bootstrap's, some with an endpoint that cannot be disconnected.
Init ==
    /\ \E legacy \in SUBSET Agents :
          /\ param = [a \in Agents |-> IF a \in legacy THEN "active" ELSE "none"]
          /\ unit = [a \in Agents |-> IF a \in legacy THEN "boot" ELSE "none"]
          /\ wanted = legacy
          /\ proxyAt = [a \in Agents |-> IF a \in legacy THEN AgentIP ELSE 0]
          /\ agentAt = [a \in Agents |-> IF a \in legacy THEN ProxyIP ELSE 0]
          /\ net = [a \in Agents |-> IF a \in legacy THEN "auto" ELSE "none"]
          /\ route = [a \in Agents |-> IF a \in legacy THEN "bridge" ELSE "none"]
          /\ ghosts \in SUBSET legacy
    /\ boot = [at |-> "up", found |-> {}]
    /\ late = {}
    /\ call = [c \in Callers |-> Idle]
    /\ faults = 0

--------------------------------------------------------------------------------
(* Methods are called. *)

\* A call notes the faults so far, or that the host was not at rest.
Begin(c, op, pc, a) ==
    /\ At(c, "idle")
    /\ op \in Requests
    /\ call' = [call EXCEPT ![c] = [Idle EXCEPT
                   !.op = op, !.pc = pc, !.a = a,
                   !.since = IF late = {} /\ boot.at = "up" THEN faults ELSE MaxFaults + 1]]
    /\ UNCHANGED <<param, host, boot, late, faults>>

ProvisionAgent(c, a) == Begin(c, "provision", "put", a)
RemoveAgent(c, a) == Begin(c, "remove", "remove", a)
PauseAgent(c, a) == Begin(c, "pause", "look", a)
UnpauseAgent(c, a) == Begin(c, "unpause", "look", a)
RefreshAgent(c, a) == Begin(c, "refresh", "read", a)
RefreshAll(c) == Begin(c, "refreshAll", "list", "none")
CycleHost(c) == Begin(c, "cycle", "cycle", "none")

\* conga_policy_deploy of a named agent (without a name: every active one)
DeployEgress(c, a) == param[a] # "none" /\ Begin(c, "deploy", "deploy", a)

Return(c) == /\ call[c].pc \in {"ok", "err"}
             /\ call' = [call EXCEPT ![c] = Idle]
             /\ UNCHANGED <<param, host, boot, late, faults>>

--------------------------------------------------------------------------------
(* Steps on the parameter store. *)

\* PutParameter of a flag in a parameter that must be there (setAgentPaused reads it)
SetFlag(c, v, next) ==
    LET a == call[c].a
    IN  /\ \/ /\ param[a] # "none"
              /\ param' = [param EXCEPT ![a] = v]
              /\ Goto(c, next)
              /\ NoFault
           \/ /\ IF param[a] = "none" THEN NoFault ELSE Fault("ssm")
              /\ Goto(c, "err")
              /\ UNCHANGED param
        /\ UNCHANGED <<host, boot, late>>

\* ProvisionAgent writes the parameter anew, without the flag
PutParameter(c) ==
    /\ At(c, "put")
    /\ \/ /\ param' = [param EXCEPT ![call[c].a] = "active"]
          /\ Goto(c, "infra")
          /\ NoFault
       \/ /\ Fault("ssm")
          /\ Goto(c, "err")
          /\ UNCHANGED param
    /\ UNCHANGED <<host, boot, late>>

\* RemoveAgent collects the error of a parameter that cannot be deleted
DeleteParameter(c) ==
    LET a == call[c].a
    IN  /\ At(c, "unregister")
        /\ \/ /\ param[a] # "none"
              /\ param' = [param EXCEPT ![a] = "none"]
              /\ Goto(c, "route")
              /\ NoFault
           \/ /\ IF param[a] = "none" THEN NoFault ELSE Fault("ssm")
              /\ call' = [call EXCEPT ![c].pc = "route", ![c].failed = TRUE]
              /\ UNCHANGED param
        /\ UNCHANGED <<host, boot, late>>

SetAgentPaused(c) ==
    /\ At(c, "mark")
    /\ IF call[c].op = "pause" THEN SetFlag(c, "paused", "ok") ELSE SetFlag(c, "active", "read")

\* UnpauseAgent sets the flag again after a failed refresh
Rollback(c) == At(c, "rollback") /\ SetFlag(c, "paused", "err")

\* PauseAgent and UnpauseAgent have nothing to do when the flag is as they want it.
ResolveAgent(c) ==
    LET op == call[c].op
        p == param[call[c].a]
    IN  /\ At(c, "look")
        /\ \/ /\ p = "none" /\ Goto(c, "err")
              /\ NoFault
           \/ /\ p # "none"
              /\ Goto(c, IF op = "pause" THEN IF p = "paused" THEN "ok" ELSE "halt"
                         ELSE IF p = "active" THEN "ok" ELSE "mark")
              /\ NoFault
           \/ /\ Fault("ssm") /\ Goto(c, "err")
        /\ UNCHANGED <<param, host, boot, late>>

\* RefreshAgent refuses a paused agent
ReadForRefresh(c) ==
    /\ At(c, "read")
    /\ \/ /\ call[c].a \in Active
          /\ call' = [call EXCEPT ![c].pc = "config", ![c].migrated = FALSE]
          /\ NoFault
       \/ /\ IF call[c].a \in Active THEN Fault("ssm") ELSE NoFault
          /\ Fail(c)
    /\ UNCHANGED <<param, host, boot, late>>

\* RefreshAll lists the agents once and skips those that are paused
ListAgents(c) ==
    /\ At(c, "list")
    /\ \/ /\ call' = [call EXCEPT ![c].todo = Active, ![c].pc = "each"]
          /\ NoFault
       \/ /\ Fault("ssm")
          /\ Goto(c, "err")
    /\ UNCHANGED <<param, host, boot, late>>

TakeNext(c) ==
    /\ At(c, "each")
    /\ IF call[c].todo = {} THEN Goto(c, IF call[c].failed THEN "err" ELSE "ok")
       ELSE \E a \in call[c].todo :
               call' = [call EXCEPT ![c].a = a, ![c].todo = @ \ {a}, ![c].pc = "read"]
    /\ UNCHANGED <<param, host, boot, late, faults>>

--------------------------------------------------------------------------------
(* Steps on the instance. *)

\* A long command: its caller waits for the result, or gives up on it.
Command(c, j, done, failed) ==
    /\ \/ /\ \E ok \in BOOLEAN : Job(j, call[c].a, ok) /\ IF ok THEN done ELSE failed
          /\ UNCHANGED late
       \/ /\ Fault("timeout")
          /\ late' = late \cup {[job |-> j, a |-> call[c].a]}
          /\ failed
          /\ UNCHANGED host
    /\ UNCHANGED <<param, boot>>

RunInfra(c) == At(c, "infra") /\ Command(c, "infra", Goto(c, "read"), Goto(c, "err"))

RunHalt(c) == At(c, "halt") /\ Command(c, "halt", Goto(c, "mark"), Goto(c, "err"))

\* A script that failed is an error among others; no answer at all ends the method.
RunRemove(c) ==
    /\ At(c, "remove")
    /\ Command(c, "remove", Goto(c, "unregister"),
               \/ call' = [call EXCEPT ![c].pc = "unregister", ![c].failed = TRUE]
               \/ Goto(c, "err"))

\* regenerateAgentConfigOnInstance, and the guard script
WriteConfig(c) ==
    /\ At(c, "config")
    /\ \/ /\ Goto(c, "inspect")
          /\ NoFault
       \/ /\ \E k \in {"policy", "command"} : Fault(k)
          /\ Fail(c)
    /\ UNCHANGED <<param, host, boot, late>>

\* (mutant of PrepareNetwork: the endpoints are not looked at again)
PrepareUnchecked(c) ==
    LET n == net[call[c].a]
    IN  /\ At(c, "inspect")
        /\ Goto(c, IF n = "static" THEN "define" ELSE IF n = "none" THEN "create" ELSE "commit")
        /\ UNCHANGED <<param, host, boot, late, faults>>

\* (mutant of PrepareNetwork: a network that exists is taken as it is)
PrepareAnySubnet(c) ==
    /\ At(c, "inspect")
    /\ Goto(c, IF net[call[c].a] = "none" THEN "create" ELSE "define")
    /\ UNCHANGED <<param, host, boot, late, faults>>

\* ReconcileAgentNetwork up to COMMIT: nothing to do on the static subnet; an auto
\* subnet is left alone when an endpoint cannot be disconnected.
PrepareNetwork(c) ==
    LET a == call[c].a
    IN  /\ At(c, "inspect")
        /\ \/ /\ ~(net[a] = "auto" /\ a \in ghosts)
              /\ Goto(c, IF net[a] = "static" THEN "define"
                         ELSE IF net[a] = "none" THEN "create" ELSE "commit")
              /\ NoFault
           \/ /\ IF net[a] = "auto" /\ a \in ghosts THEN NoFault ELSE Fault("command")
              /\ Fail(c)
        /\ UNCHANGED <<param, host, boot, late>>

\* (mutant of CommitNetwork: the unit is not stopped first)
CommitUnderUnit(c) ==
    LET a == call[c].a
    IN  /\ At(c, "commit")
        /\ net' = [net EXCEPT ![a] = "none"]
        /\ proxyAt' = [proxyAt EXCEPT ![a] = 0]
        /\ call' = [call EXCEPT ![c].pc = "create", ![c].migrated = TRUE]
        /\ UNCHANGED <<param, unit, wanted, agentAt, ghosts, route, boot, late, faults>>

\* COMMIT: the unit is stopped, agent and proxy are removed, then the network.
CommitNetwork(c) ==
    LET a == call[c].a
    IN  /\ At(c, "commit")
        /\ Stopped({a})
        /\ proxyAt' = [proxyAt EXCEPT ![a] = 0]
        /\ \/ /\ net' = [net EXCEPT ![a] = "none"]
              /\ call' = [call EXCEPT ![c].pc = "create", ![c].migrated = TRUE]
              /\ NoFault
           \/ /\ UNCHANGED net
              /\ Fault("command")
              /\ Fail(c)
        /\ UNCHANGED <<param, unit, ghosts, route, boot, late>>

CreateNetwork(c) ==
    LET a == call[c].a
    IN  /\ At(c, "create")
        /\ \/ /\ net[a] = "none"
              /\ net' = [net EXCEPT ![a] = "static"]
              /\ Goto(c, "define")
              /\ NoFault
           \/ /\ IF net[a] = "none" THEN Fault("command") ELSE NoFault
              /\ Fail(c)
              /\ UNCHANGED net
        /\ UNCHANGED <<param, unit, wanted, agentAt, proxyAt, ghosts, route, boot, late>>

\* DefineService: write the unit (and enable it)
DefineService(c) ==
    /\ At(c, "define")
    /\ \/ /\ unit' = [unit EXCEPT ![call[c].a] = "engine"]
          /\ Goto(c, "start")
          /\ NoFault
       \/ /\ Fault("command")
          /\ Fail(c)
          /\ \E u \in {unit[call[c].a], "engine"} : unit' = [unit EXCEPT ![call[c].a] = u]
    /\ UNCHANGED <<param, wanted, agentAt, proxyAt, net, ghosts, route, boot, late>>

StartService(c) == At(c, "start") /\ Command(c, "start", Goto(c, "route"), Fail(c))

\* regenerateRoutingOnInstance: the entries of the active agents.  A failure is a
\* warning, for RemoveAgent one error among others.
RegenerateRouting(c) ==
    LET remove == call[c].op = "remove"
    IN  /\ At(c, "route")
        /\ \/ /\ route' = [a \in Agents |-> IF a \in Active THEN "loopback" ELSE "none"]
              /\ Goto(c, IF ~remove THEN "deploy" ELSE IF call[c].failed THEN "err" ELSE "ok")
              /\ NoFault
           \/ /\ \E k \in {"ssm", "command"} : Fault(k)
              /\ UNCHANGED route
              /\ Goto(c, IF remove THEN "err" ELSE "deploy")
        /\ UNCHANGED <<param, unit, wanted, agentAt, proxyAt, net, ghosts, boot, late>>

\* (mutant of RunDeploy: a failed deployment is never more than a warning)
RunDeployWarning(c) ==
    /\ At(c, "deploy")
    /\ \/ Command(c, "deploy", Succeed(c), Succeed(c))
       \/ /\ \E k \in {"policy", "ssm"} : Fault(k)
          /\ Succeed(c)
          /\ UNCHANGED <<param, host, boot, late>>

\* redeployEgressDuringRefresh: after a migration a failure is fatal, else it is a
\* warning; for the policy deployment tool it is the result.
RunDeploy(c) ==
    LET failed == IF call[c].op = "deploy" \/ call[c].migrated THEN Fail(c) ELSE Succeed(c)
    IN  /\ At(c, "deploy")
        /\ \/ param[call[c].a] # "none" /\ Command(c, "deploy", Succeed(c), failed)
           \/ /\ IF param[call[c].a] = "none" THEN NoFault
                 ELSE \E k \in {"policy", "ssm"} : Fault(k)
              /\ failed
              /\ UNCHANGED <<param, host, boot, late>>

--------------------------------------------------------------------------------
(* The instance restarts; the bootstrap runs at every boot. *)

\* Commands that run are lost.  Docker brings the proxies up, systemd the units.
PowerCycle ==
    /\ wanted' = {a \in Agents : unit[a] # "none"}
    /\ agentAt' = [a \in Agents |-> AddressOf(unit[a], net[a], proxyAt[a])]
    /\ \E G \in SUBSET ghosts : ghosts' = G
    /\ late' = {}
    /\ boot' = [at |-> "clear", found |-> {}]
    /\ UNCHANGED <<param, unit, proxyAt, net, route>>

\* Every agent unit is stopped and deleted, then the agents are looked up in SSM.
BootClear ==
    /\ boot.at = "clear"
    /\ Stopped(Agents)
    /\ unit' = [a \in Agents |-> "none"]
    /\ \/ boot' = [at |-> "setup", found |-> Active] /\ NoFault
       \/ boot' = [at |-> "up", found |-> {}] /\ Fault("boot")
    /\ UNCHANGED <<param, proxyAt, net, ghosts, route, late, call>>

\* setup_agent_common, agent by agent, then routing.json
BootSetup ==
    /\ boot.at = "setup"
    /\ \E S \in SUBSET boot.found :
          /\ net' = [a \in Agents |-> IF a \in S /\ net[a] = "none" THEN "auto" ELSE net[a]]
          /\ proxyAt' = [a \in Agents |->
                            IF a \notin S THEN proxyAt[a]
                            ELSE IF agentAt[a] = AgentIP THEN ProxyIP ELSE AgentIP]
          /\ unit' = [a \in Agents |-> IF a \in S THEN "boot" ELSE unit[a]]
          /\ \/ /\ S = boot.found
                /\ route' = [a \in Agents |-> IF a \in S THEN "bridge" ELSE "none"]
                /\ boot' = [boot EXCEPT !.at = "start"]
                /\ NoFault
             \/ /\ UNCHANGED route
                /\ boot' = [at |-> "up", found |-> {}]
                /\ Fault("boot")
    /\ UNCHANGED <<param, wanted, agentAt, ghosts, late, call>>

BootStart ==
    /\ boot.at = "start"
    /\ Started(boot.found, proxyAt)
    /\ boot' = [at |-> "up", found |-> {}]
    /\ UNCHANGED <<param, unit, proxyAt, net, ghosts, route, late, call, faults>>

\* CycleHost stops the instance, waits, and starts it.
StopAndStart(c) ==
    /\ At(c, "cycle")
    /\ \/ /\ PowerCycle
          /\ Goto(c, "ok")
          /\ NoFault
       \/ /\ Fault("command")
          /\ Goto(c, "err")
          /\ UNCHANGED <<param, host, boot, late>>

Reboot == PowerCycle /\ Fault("reboot") /\ UNCHANGED call

--------------------------------------------------------------------------------
(* systemd on its own, commands that run on, callers that die. *)

\* Restart=always: a container that was refused is tried again
Retry(a) ==
    /\ a \in wanted /\ agentAt[a] = 0
    /\ AddressOf(unit[a], net[a], proxyAt[a]) # 0
    /\ Started({a}, proxyAt)
    /\ UNCHANGED <<param, unit, proxyAt, net, ghosts, route, boot, late, call, faults>>

\* ... until the start limit is reached
GiveUp(a) ==
    /\ a \in wanted /\ agentAt[a] = 0
    /\ AddressOf(unit[a], net[a], proxyAt[a]) = 0
    /\ wanted' = wanted \ {a}
    /\ UNCHANGED <<param, unit, agentAt, proxyAt, net, ghosts, route, boot, late, call, faults>>

LateCommand ==
    /\ \E l \in late :
          /\ late' = late \ {l}
          /\ \E ok \in BOOLEAN : Job(l.job, l.a, ok)
    /\ UNCHANGED <<param, boot, call>>

Crash(c) ==
    /\ ~At(c, "idle")
    /\ Fault("crash")
    /\ call' = [call EXCEPT ![c] = Idle]
    /\ UNCHANGED <<param, host, boot, late>>

Request(c) ==
    \/ \E a \in Agents :
          \/ ProvisionAgent(c, a) \/ RemoveAgent(c, a) \/ PauseAgent(c, a)
          \/ UnpauseAgent(c, a) \/ RefreshAgent(c, a) \/ DeployEgress(c, a)
    \/ RefreshAll(c) \/ CycleHost(c)

Step(c) ==
    \/ PutParameter(c) \/ DeleteParameter(c) \/ SetAgentPaused(c) \/ Rollback(c)
    \/ ResolveAgent(c) \/ ReadForRefresh(c) \/ ListAgents(c) \/ TakeNext(c)
    \/ RunInfra(c) \/ RunHalt(c) \/ RunRemove(c)
    \/ WriteConfig(c) \/ PrepareNetwork(c) \/ CommitNetwork(c) \/ CreateNetwork(c)
    \/ DefineService(c) \/ StartService(c) \/ RegenerateRouting(c) \/ RunDeploy(c)
    \/ StopAndStart(c) \/ Return(c)

Environment ==
    \/ BootClear \/ BootSetup \/ BootStart \/ Reboot \/ LateCommand
    \/ \E a \in Agents : Retry(a) \/ GiveUp(a)
    \/ \E c \in Callers : Crash(c)

Next == (\E c \in Callers : Request(c) \/ Step(c)) \/ Environment

Spec == Init /\ [][Next]_vars

--------------------------------------------------------------------------------
(* Properties. *)

Frame == [op : Methods \cup {"none"}, pc : Labels, a : Agents \cup {"none"},
          migrated : BOOLEAN, failed : BOOLEAN, since : 0 .. MaxFaults + 1, todo : SUBSET Agents]

\* Every variable has its type, and the instance is in a state Docker can report:
\* a container runs for a unit that is up, on a network that is there, and two
\* containers of a network have two addresses.
TypeOK ==
    /\ param \in [Agents -> {"none", "active", "paused"}]
    /\ unit \in [Agents -> {"none", "boot", "engine"}]
    /\ wanted \subseteq Agents
    /\ agentAt \in [Agents -> {0} \cup Addresses]
    /\ proxyAt \in [Agents -> {0} \cup Addresses]
    /\ net \in [Agents -> {"none", "auto", "static"}]
    /\ ghosts \subseteq Agents
    /\ route \in [Agents -> {"none", "bridge", "loopback"}]
    /\ boot \in [at : BootSteps, found : SUBSET Agents]
    /\ late \subseteq [job : Jobs, a : Agents]
    /\ call \in [Callers -> Frame]
    /\ faults \in 0 .. MaxFaults
    /\ \A a \in Agents :
          /\ agentAt[a] # 0 => a \in wanted /\ net[a] # "none" /\ agentAt[a] # proxyAt[a]
          /\ proxyAt[a] # 0 => net[a] # "none"

Undisturbed(c) == call[c].since = faults /\ late = {} /\ boot.at = "up"

\* what `conga refresh` is for
Serving(a) == /\ unit[a] = "engine" /\ net[a] = "static"
              /\ agentAt[a] = AgentIP /\ proxyAt[a] = ProxyIP
              /\ route[a] = "loopback"

\* RefreshAgent repairs: whatever earlier calls left behind, a refresh that is not
\* disturbed brings an active agent into service.  It gives up only on an agent
\* that is paused or not there, on a network it may not touch, and on a proxy that
\* the bootstrap left at the agent's address.
RefreshRepairs ==
    \A c \in Callers :
        (call[c].op = "refresh" /\ call[c].pc \in {"ok", "err"} /\ Undisturbed(c)) =>
            LET a == call[c].a
            IN  \/ At(c, "ok") /\ Serving(a)
                \/ /\ At(c, "err")
                   /\ \/ a \notin Active
                      \/ net[a] = "auto" /\ a \in ghosts
                      \/ proxyAt[a] = AgentIP

\* A refresh that has torn the proxy down returns success only with a proxy at its
\* address: the failure of the last step is remembered from the third.
MigratedProxy ==
    [][\A c \in Callers :
          (call[c].migrated /\ call[c].op # "refreshAll" /\ ~At(c, "ok") /\ call'[c].pc = "ok")
              => proxyAt'[call[c].a] = ProxyIP]_vars

\* ReconcileAgentNetwork: an endpoint that cannot be disconnected leaves the agent
\* running on its old network, whatever refresh is tried.
GhostSafe ==
    [][\A c \in Callers :
          LET a == call[c].a
          IN  (call[c].op \in Refreshing /\ call'[c] # call[c] /\ a \in ghosts /\ net[a] = "auto")
                 => agentAt'[a] = agentAt[a] /\ proxyAt'[a] = proxyAt[a]]_vars
================================================================================
