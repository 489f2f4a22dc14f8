---------------------------- MODULE ManagedHostProofs --------------------------
(***************************************************************************)
(* What is proved of ManagedHost, for every set of agents, callers and     *)
(* requests and every kind of fault: its types, that a refresh which tore  *)
(* the proxy down does not report success without one, and that an agent   *)
(* whose network cannot be replaced is left alone.                         *)
(***************************************************************************)
EXTENDS ManagedHost, TLAPS

\* The host's variables have their types and are in a state Docker can report.
HostInv ==
    /\ unit \in [Agents -> {"none", "boot", "engine"}]
    /\ wanted \subseteq Agents
    /\ agentAt \in [Agents -> {0} \cup Addresses]
    /\ proxyAt \in [Agents -> {0} \cup Addresses]
    /\ net \in [Agents -> {"none", "auto", "static"}]
    /\ ghosts \subseteq Agents
    /\ route \in [Agents -> {"none", "bridge", "loopback"}]
    /\ \A a \in Agents :
          /\ agentAt[a] # 0 => a \in wanted /\ net[a] # "none" /\ agentAt[a] # proxyAt[a]
          /\ proxyAt[a] # 0 => net[a] # "none"

\* An endpoint that cannot be disconnected holds on to the bootstrap's network.
GhostsHold == \A a \in ghosts : net[a] = "auto"

RestInv ==
    /\ param \in [Agents -> {"none", "active", "paused"}]
    /\ boot \in [at : BootSteps, found : SUBSET Agents]
    /\ late \subseteq [job : Jobs, a : Agents]
    /\ faults \in 0 .. MaxFaults

\* the steps of RefreshAgent up to the start of the unit, and those after the network was looked at
Chain == {"read", "config", "inspect", "commit", "create", "define", "start"}
Replacing == {"commit", "create", "define", "start"}

\* Which method a frame at a label runs, and that it has an agent where one is needed.
OnPath(f) ==
    /\ f.pc \in {"put", "infra"} => f.op = "provision"
    /\ f.pc \in {"remove", "unregister"} => f.op = "remove"
    /\ f.pc \in {"look", "mark"} => f.op \in {"pause", "unpause"}
    /\ f.pc = "halt" => f.op = "pause"
    /\ f.pc = "rollback" => f.op = "unpause"
    /\ f.pc \in {"list", "each"} => f.op = "refreshAll"
    /\ f.pc = "cycle" => f.op = "cycle"
    /\ f.pc \in Chain => f.op \in Refreshing
    /\ f.pc = "route" => f.op \in Refreshing \cup {"remove"}
    /\ f.pc = "deploy" => f.op \in Refreshing \cup {"deploy"}
    /\ f.pc \notin {"idle", "list", "each", "cycle", "ok", "err"} => f.a \in Agents

\* Once the network has been looked at, no endpoint of the agent is in the way (G: ghosts).
Unhaunted(f, G) ==
    f.pc \in Replacing \/ (f.pc \in {"route", "deploy"} /\ f.op \in Refreshing) => f.a \notin G

\* A frame remembers a migration only between COMMIT and the end of the call (or, in
\* RefreshAll, the next agent).
Remembers(f) ==
    f.migrated => /\ f.op \in Refreshing
                  /\ f.op # "refreshAll" => f.pc \in {"create", "define", "start", "route", "deploy",
                                                      "rollback", "ok", "err"}

FrameGood(f, G) == f \in Frame /\ OnPath(f) /\ Unhaunted(f, G) /\ Remembers(f)

FramesInv == call \in [Callers -> Frame] /\ \A c \in Callers : FrameGood(call[c], ghosts)

Inv == HostInv /\ GhostsHold /\ RestInv /\ FramesInv

--------------------------------------------------------------------------------
(* Frames. *)

\* a step of caller c on its own frame, which is left good
Moves(c) == call' = [call EXCEPT ![c] = call'[c]] /\ FrameGood(call'[c], ghosts')

LEMMA FramesKept ==
  ASSUME FramesInv, ghosts' \subseteq ghosts,
         UNCHANGED call \/ \E c \in Callers : Moves(c)
  PROVE  FramesInv'
  <1>1. \A d \in Callers : FrameGood(call[d], ghosts')
    BY DEF FramesInv, FrameGood, Unhaunted
  <1>2. CASE UNCHANGED call
    BY <1>1, <1>2 DEF FramesInv
  <1>3. ASSUME NEW c \in Callers, Moves(c) PROVE FramesInv'
    <2>1. call'[c] \in Frame
      BY <1>3 DEF Moves, FrameGood
    <2>2. call' \in [Callers -> Frame]
      BY <1>3, <2>1 DEF FramesInv, Moves
    <2>3. \A d \in Callers : d # c => call'[d] = call[d]
      BY <1>3 DEF FramesInv, Moves
    <2> QED
      BY <1>1, <1>3, <2>2, <2>3 DEF FramesInv, Moves
  <1> QED
    BY <1>2, <1>3

\* a frame goes to a label, perhaps with an error collected
Lands(c, l) == Goto(c, l) \/ call' = [call EXCEPT ![c].pc = l, ![c].failed = TRUE]

\* what that and Fail do to a frame
LEMMA GotoFrame ==
  ASSUME FramesInv, NEW c \in Callers, NEW l \in Labels, Lands(c, l)
  PROVE  /\ call' = [call EXCEPT ![c] = call'[c]]
         /\ call'[c] \in Frame
         /\ call'[c].pc = l /\ call'[c].op = call[c].op /\ call'[c].a = call[c].a
         /\ call'[c].migrated = call[c].migrated /\ call'[c].since = call[c].since
  <1>1. CASE Goto(c, l)
    BY <1>1 DEF FramesInv, Goto, Frame
  <1>2. CASE call' = [call EXCEPT ![c].pc = l, ![c].failed = TRUE]
    BY <1>2 DEF FramesInv, Frame
  <1> QED
    BY <1>1, <1>2 DEF Lands

LEMMA FailFrame ==
  ASSUME FramesInv, NEW c \in Callers, Fail(c)
  PROVE  /\ call' = [call EXCEPT ![c] = call'[c]]
         /\ call'[c] \in Frame
         /\ call'[c].pc \in {"rollback", "each", "err"}
         /\ call'[c].pc = "rollback" => call[c].op = "unpause"
         /\ call'[c].pc = "each" => call[c].op = "refreshAll"
         /\ call'[c].op = call[c].op /\ call'[c].a = call[c].a
         /\ call'[c].migrated = call[c].migrated /\ call'[c].since = call[c].since
  <1> DEFINE refresh == call[c].pc \in {"read", "config", "inspect", "commit", "create", "define",
                                        "start", "deploy"}
             op == call[c].op
             l == IF op = "unpause" /\ refresh THEN "rollback"
                  ELSE IF op = "refreshAll" /\ refresh THEN "each" ELSE "err"
             b == IF op = "refreshAll" THEN TRUE ELSE call[c].failed
  <1>1. call' = [call EXCEPT ![c] = [call[c] EXCEPT !.pc = l, !.failed = b]]
    BY DEF Fail, FramesInv, Frame
  <1>2. /\ l \in {"rollback", "each", "err"} /\ b \in BOOLEAN
        /\ l = "rollback" => op = "unpause"
        /\ l = "each" => op = "refreshAll"
    BY DEF FramesInv, Frame
  <1> HIDE DEF l, b
  <1>3. [call[c] EXCEPT !.pc = l, !.failed = b] \in Frame
    BY <1>2 DEF FramesInv, Frame, Labels
  <1>4. call'[c] = [call[c] EXCEPT !.pc = l, !.failed = b]
    BY <1>1 DEF FramesInv
  <1> QED
    BY <1>1, <1>2, <1>3, <1>4 DEF FramesInv, Frame

\* a step of RefreshAgent that fails leaves a good frame, whichever method it is part of
LEMMA FailMoves ==
  ASSUME FramesInv, NEW c \in Callers, Fail(c), call[c].pc \in Chain \cup {"deploy"}
  PROVE  Moves(c)
  <1> DEFINE f == call[c]
             g == call'[c]
  <1>1. OnPath(f) /\ Remembers(f)
    BY DEF FramesInv, FrameGood
  <1>2. /\ g.pc \in {"rollback", "each", "err"}
        /\ g.pc = "rollback" => f.op = "unpause"
        /\ g.pc = "each" => f.op = "refreshAll"
        /\ g.op = f.op /\ g.a = f.a /\ g.migrated = f.migrated
    BY FailFrame
  <1>3. g \in Frame /\ call' = [call EXCEPT ![c] = g]
    BY FailFrame
  <1>4. f.a \in Agents
    BY <1>1 DEF OnPath, Chain
  <1>5. OnPath(g)
    <2> HIDE DEF f, g
    <2> QED  BY <1>2, <1>4 DEF OnPath, Chain
  <1>6. Unhaunted(g, ghosts')
    <2> HIDE DEF f, g
    <2> QED  BY <1>2 DEF Unhaunted, Replacing
  <1>7. Remembers(g)
    <2> HIDE DEF f, g
    <2> QED  BY <1>1, <1>2 DEF Remembers
  <1> QED
    BY <1>3, <1>5, <1>6, <1>7 DEF Moves, FrameGood

--------------------------------------------------------------------------------
(* The host. *)

\* a container is given an address that is not its proxy's, on a network that is there
LEMMA AddressFits ==
  ASSUME NEW u \in {"none", "boot", "engine"}, NEW n \in {"none", "auto", "static"},
         NEW p \in {0} \cup Addresses
  PROVE  /\ AddressOf(u, n, p) \in {0} \cup Addresses
         /\ AddressOf(u, n, p) # 0 => u # "none" /\ n # "none" /\ AddressOf(u, n, p) # p
  BY DEF AddressOf, Addresses, AgentIP, ProxyIP

LEMMA FaultCount ==
  ASSUME RestInv, NEW k, Fault(k)
  PROVE  faults' \in 0 .. MaxFaults
  BY HostFaultsAssumption DEF RestInv, Fault

\* stopping units keeps the host as Docker can report it
LEMMA StoppedHost ==
  ASSUME HostInv, NEW S, Stopped(S), UNCHANGED <<unit, proxyAt, net, ghosts, route>>
  PROVE  HostInv'
  BY DEF HostInv, Stopped

\* so does starting them next to proxies that are there
LEMMA StartedHost ==
  ASSUME HostInv, NEW S \in SUBSET Agents, Started(S, proxyAt'),
         proxyAt' \in [Agents -> {0} \cup Addresses],
         \A a \in Agents : /\ proxyAt'[a] # 0 => net[a] # "none"
                           /\ a \notin S => proxyAt'[a] = proxyAt[a],
         UNCHANGED <<unit, net, ghosts, route>>
  PROVE  HostInv'
  <1>1. ASSUME NEW a \in Agents
        PROVE  /\ AddressOf(unit[a], net[a], proxyAt'[a]) \in {0} \cup Addresses
               /\ AddressOf(unit[a], net[a], proxyAt'[a]) # 0
                     => /\ unit[a] # "none" /\ net[a] # "none"
                        /\ AddressOf(unit[a], net[a], proxyAt'[a]) # proxyAt'[a]
    <2>1. /\ unit[a] \in {"none", "boot", "engine"} /\ net[a] \in {"none", "auto", "static"}
          /\ proxyAt'[a] \in {0} \cup Addresses
      BY DEF HostInv
    <2> QED
      BY <2>1, AddressFits
  <1>2. wanted' \subseteq Agents /\ wanted \subseteq wanted'
    BY DEF HostInv, Started
  <1>3. agentAt' \in [Agents -> {0} \cup Addresses]
    BY <1>1 DEF HostInv, Started
  <1>4. \A a \in Agents :
           agentAt'[a] # 0 => a \in wanted' /\ net[a] # "none" /\ agentAt'[a] # proxyAt'[a]
    BY <1>1 DEF HostInv, Started
  <1> QED
    BY <1>2, <1>3, <1>4 DEF HostInv

\* so does systemctl restart, next to the proxy as it is or as it is about to be
LEMMA RestartHost ==
  ASSUME HostInv, NEW a \in Agents, NEW ok \in BOOLEAN, Restart(a, proxyAt', ok),
         proxyAt' \in [Agents -> {0} \cup Addresses],
         proxyAt'[a] # 0 => net[a] # "none",
         proxyAt'[a] # 0 => agentAt[a] # proxyAt'[a],
         \A b \in Agents \ {a} : proxyAt'[b] = proxyAt[b],
         UNCHANGED <<unit, net, ghosts, route>>
  PROVE  HostInv'
  <1>1. CASE Started({a}, proxyAt')
    <2>1. \A b \in Agents : /\ proxyAt'[b] # 0 => net[b] # "none"
                            /\ b \notin {a} => proxyAt'[b] = proxyAt[b]
      BY DEF HostInv
    <2> QED
      BY <1>1, <2>1, StartedHost
  <1>2. CASE UNCHANGED <<wanted, agentAt>>
    BY <1>2 DEF HostInv
  <1>3. CASE /\ agentAt' = [agentAt EXCEPT ![a] = 0]
             /\ \E W \in {wanted, wanted \ {a}} : wanted' = W
    BY <1>3 DEF HostInv
  <1> QED
    BY <1>1, <1>2, <1>3 DEF Restart

LEMMA RestartCount ==
  ASSUME RestInv, NEW a, NEW p, NEW ok, Restart(a, p, ok)
  PROVE  faults' \in 0 .. MaxFaults
  BY FaultCount DEF Restart, NoFault, RestInv

\* Whatever a long command does, finished or not, waited for or not, it keeps the host.
LEMMA JobHost ==
  ASSUME HostInv, GhostsHold, RestInv, NEW j \in Jobs, NEW a \in Agents, NEW ok \in BOOLEAN,
         Job(j, a, ok)
  PROVE  HostInv' /\ GhostsHold' /\ ghosts' = ghosts /\ faults' \in 0 .. MaxFaults
  <1>1. CASE StartJob(a, ok)
    <2>1. proxyAt' = proxyAt /\ Restart(a, proxyAt', ok) /\ UNCHANGED <<unit, net, ghosts, route>>
      BY <1>1 DEF StartJob
    <2>2. HostInv'
      BY <2>1, RestartHost DEF HostInv
    <2> QED
      BY <2>1, <2>2, RestartCount DEF GhostsHold
  <1>2. CASE InfraJob(a, ok)
    <2>1. HostInv' /\ GhostsHold' /\ ghosts' = ghosts
      BY <1>2 DEF InfraJob, HostInv, GhostsHold, Addresses, ProxyIP
    <2> QED
      BY <1>2, <2>1, FaultCount DEF InfraJob, NoFault, RestInv
  <1>3. CASE HaltJob(a, ok)
    <2>1. HostInv'
      BY <1>3 DEF HaltJob, Stopped, HostInv
    <2>2. GhostsHold' /\ ghosts' = ghosts
      BY <1>3 DEF HaltJob, GhostsHold
    <2> QED
      BY <1>3, <2>1, <2>2, FaultCount DEF HaltJob, NoFault, RestInv
  <1>4. CASE RemoveJob(a, ok)
    <2>1. HostInv'
      BY <1>4 DEF RemoveJob, Stopped, HostInv
    <2>2. GhostsHold' /\ ghosts' = ghosts
      BY <1>4 DEF RemoveJob, GhostsHold, HostInv
    <2> QED
      BY <1>4, <2>1, <2>2, FaultCount DEF RemoveJob, NoFault, RestInv
  <1>5. CASE DeployJob(a, ok)
    <2>1. UNCHANGED <<unit, net, ghosts, route>>
      BY <1>5 DEF DeployJob
    <2>2. CASE /\ proxyAt' = [proxyAt EXCEPT ![a] = 0]
               /\ UNCHANGED <<wanted, agentAt>>
               /\ NoFault \/ Fault("command")
      <3>1. HostInv'
        BY <2>1, <2>2 DEF HostInv
      <3> QED
        BY <2>1, <2>2, <3>1, FaultCount DEF GhostsHold, NoFault, RestInv
    <2>3. CASE /\ net[a] = "static" /\ agentAt[a] # ProxyIP
               /\ proxyAt' = [proxyAt EXCEPT ![a] = ProxyIP]
               /\ Restart(a, proxyAt', ok)
      <3>1. /\ proxyAt' \in [Agents -> {0} \cup Addresses]
            /\ proxyAt'[a] = ProxyIP
            /\ \A b \in Agents \ {a} : proxyAt'[b] = proxyAt[b]
        BY <2>3 DEF HostInv, Addresses
      <3>2. HostInv'
        BY <2>1, <2>3, <3>1, RestartHost
      <3> QED
        BY <2>1, <2>3, <3>2, RestartCount DEF GhostsHold
    <2> QED
      BY <1>5, <2>2, <2>3 DEF DeployJob
  <1> QED
    BY <1>1, <1>2, <1>3, <1>4, <1>5 DEF Job
--------------------------------------------------------------------------------
(* The steps of a method. *)

\* what is promised of a step to the frame of c: see MigratedProxy and GhostSafe
ProxyKept(c) ==
    (call[c].migrated /\ call[c].op # "refreshAll" /\ ~At(c, "ok") /\ call'[c].pc = "ok")
        => proxyAt'[call[c].a] = ProxyIP

GhostKept(c) ==
    (call[c].op \in Refreshing /\ call'[c] # call[c] /\ call[c].a \in ghosts /\ net[call[c].a] = "auto")
        => agentAt'[call[c].a] = agentAt[call[c].a] /\ proxyAt'[call[c].a] = proxyAt[call[c].a]

HostKept == HostInv' /\ GhostsHold' /\ ghosts' \subseteq ghosts

\* a step of c that keeps the invariant and the promises
Sound(c) == HostKept /\ RestInv' /\ Moves(c) /\ ProxyKept(c) /\ GhostKept(c)

LEMMA HostAside ==
  ASSUME Inv, UNCHANGED host
  PROVE  HostKept /\ ghosts' = ghosts /\ agentAt' = agentAt /\ proxyAt' = proxyAt
  BY DEF Inv, host, HostInv, GhostsHold, HostKept

\* what the frame of a caller says at its label
LEMMA FrameFacts ==
  ASSUME Inv, NEW c \in Callers
  PROVE  /\ FramesInv /\ call[c] \in Frame
         /\ OnPath(call[c]) /\ Unhaunted(call[c], ghosts) /\ Remembers(call[c])
  BY DEF Inv, FramesInv, FrameGood

\* A method is called: a fresh frame, on its path from the first label.
LEMMA BeginSound ==
  ASSUME Inv, NEW c \in Callers, NEW op \in Methods, NEW l \in Labels, NEW a \in Agents \cup {"none"},
         Begin(c, op, l, a),
         l \in {"put", "remove", "look", "read", "list", "cycle", "deploy"},
         l = "put" => op = "provision",
         l = "remove" => op = "remove",
         l = "look" => op \in {"pause", "unpause"},
         l = "read" => op = "refresh",
         l = "list" => op = "refreshAll",
         l = "cycle" => op = "cycle",
         l = "deploy" => op = "deploy",
         l \notin {"list", "cycle"} => a \in Agents
  PROVE  Sound(c)
  <1> DEFINE n == IF late = {} /\ boot.at = "up" THEN faults ELSE MaxFaults + 1
             g == [Idle EXCEPT !.op = op, !.pc = l, !.a = a, !.since = n]
  <1>1. n \in 0 .. MaxFaults + 1
    BY HostFaultsAssumption DEF Inv, RestInv
  <1>2. call' = [call EXCEPT ![c] = g] /\ UNCHANGED <<param, host, boot, late, faults>>
    BY DEF Begin
  <1> HIDE DEF n
  <1>3. Idle \in Frame /\ ~Idle.migrated
    BY HostFaultsAssumption DEF Idle, Frame, Labels
  <1>4. g \in Frame /\ g.pc = l /\ g.op = op /\ g.a = a /\ ~g.migrated
    BY <1>1, <1>3 DEF Frame
  <1>5. call'[c] = g
    BY <1>2, FrameFacts DEF FramesInv
  <1>6. FrameGood(g, ghosts')
    <2> HIDE DEF g
    <2>1. OnPath(g) /\ Unhaunted(g, ghosts') /\ Remembers(g)
      BY <1>4 DEF OnPath, Unhaunted, Remembers, Chain, Replacing, Refreshing
    <2> QED
      BY <1>4, <2>1 DEF FrameGood
  <1>7. Moves(c)
    BY <1>2, <1>5, <1>6 DEF Moves
  <1>8. HostKept /\ RestInv' /\ agentAt' = agentAt /\ proxyAt' = proxyAt
    BY <1>2, HostAside DEF Inv, RestInv
  <1>9. call'[c].pc = l
    BY <1>4, <1>5
  <1> QED
    BY <1>4, <1>5, <1>7, <1>8, <1>9 DEF Sound, ProxyKept, GhostKept

LEMMA RequestSound ==
  ASSUME Inv, NEW c \in Callers, Request(c)
  PROVE  Sound(c)
  <1>1. ASSUME NEW a \in Agents, ProvisionAgent(c, a)  PROVE Sound(c)
    BY <1>1, BeginSound DEF ProvisionAgent, Methods, Labels
  <1>2. ASSUME NEW a \in Agents, RemoveAgent(c, a)  PROVE Sound(c)
    BY <1>2, BeginSound DEF RemoveAgent, Methods, Labels
  <1>3. ASSUME NEW a \in Agents, PauseAgent(c, a)  PROVE Sound(c)
    BY <1>3, BeginSound DEF PauseAgent, Methods, Labels
  <1>4. ASSUME NEW a \in Agents, UnpauseAgent(c, a)  PROVE Sound(c)
    BY <1>4, BeginSound DEF UnpauseAgent, Methods, Labels
  <1>5. ASSUME NEW a \in Agents, RefreshAgent(c, a)  PROVE Sound(c)
    BY <1>5, BeginSound DEF RefreshAgent, Methods, Labels
  <1>6. ASSUME NEW a \in Agents, DeployEgress(c, a)  PROVE Sound(c)
    BY <1>6, BeginSound DEF DeployEgress, Methods, Labels
  <1>7. ASSUME RefreshAll(c)  PROVE Sound(c)
    BY <1>7, BeginSound DEF RefreshAll, Methods, Labels
  <1>8. ASSUME CycleHost(c)  PROVE Sound(c)
    BY <1>8, BeginSound DEF CycleHost, Methods, Labels
  <1> QED
    BY <1>1, <1>2, <1>3, <1>4, <1>5, <1>6, <1>7, <1>8 DEF Request

\* a frame that goes to the label l is good when the label is on its path
LEMMA GotoMoves ==
  ASSUME Inv, NEW c \in Callers, NEW l \in Labels, Lands(c, l),
         \A g : /\ g.pc = l /\ g.op = call[c].op /\ g.a = call[c].a
                /\ g.migrated = call[c].migrated
                => OnPath(g) /\ Unhaunted(g, ghosts') /\ Remembers(g)
  PROVE  Moves(c) /\ call'[c].pc = l
  BY FrameFacts, GotoFrame DEF Moves, FrameGood

\* ... as the end of a call always is.
LEMMA EndMoves ==
  ASSUME Inv, NEW c \in Callers, NEW l \in {"ok", "err"}, Lands(c, l)
  PROVE  Moves(c) /\ call'[c].pc = l
  <1>1. l \in Labels
    BY DEF Labels
  <1>2. ASSUME NEW g, g.pc = l, g.op = call[c].op, g.a = call[c].a, g.migrated = call[c].migrated
        PROVE  OnPath(g) /\ Unhaunted(g, ghosts') /\ Remembers(g)
    BY <1>2, FrameFacts DEF OnPath, Unhaunted, Remembers, Chain, Replacing
  <1> QED
    BY <1>1, <1>2, GotoMoves

\* a step that leaves the host alone keeps the promises, unless it reports a migration done
LEMMA AsideSound ==
  ASSUME Inv, NEW c \in Callers, UNCHANGED host, RestInv', Moves(c),
         call'[c].pc = "ok" => ~call[c].migrated \/ call[c].op = "refreshAll"
  PROVE  Sound(c)
  BY HostAside DEF Sound, ProxyKept, GhostKept

LEMMA PutParameterSound ==
  ASSUME Inv, NEW c \in Callers, PutParameter(c)
  PROVE  Sound(c)
  <1>1. UNCHANGED <<host, boot, late>> /\ call[c].pc = "put"
    BY DEF PutParameter, At
  <1>2. call[c].op = "provision" /\ call[c].a \in Agents /\ ~call[c].migrated
    BY <1>1, FrameFacts DEF OnPath, Remembers
  <1>3. RestInv'
    BY <1>1, <1>2, FaultCount DEF PutParameter, Inv, RestInv, NoFault
  <1>4. CASE Goto(c, "infra")
    <2>1. ASSUME NEW g, g.pc = "infra", g.op = call[c].op, g.a = call[c].a, g.migrated = call[c].migrated
          PROVE  OnPath(g) /\ Unhaunted(g, ghosts') /\ Remembers(g)
      BY <1>2, <2>1 DEF OnPath, Unhaunted, Remembers, Chain, Replacing
    <2>2. Moves(c) /\ call'[c].pc = "infra"
      BY <1>4, <2>1, GotoMoves DEF Labels, Lands
    <2> QED
      BY <1>1, <1>3, <2>2, AsideSound
  <1>5. CASE Goto(c, "err")
    BY <1>1, <1>3, <1>5, EndMoves, AsideSound DEF Lands
  <1> QED
    BY <1>4, <1>5 DEF PutParameter

LEMMA DeleteParameterSound ==
  ASSUME Inv, NEW c \in Callers, DeleteParameter(c)
  PROVE  Sound(c)
  <1>1. UNCHANGED <<host, boot, late>> /\ call[c].pc = "unregister"
    BY DEF DeleteParameter, At
  <1>2. call[c].op = "remove" /\ call[c].a \in Agents /\ ~call[c].migrated
    BY <1>1, FrameFacts DEF OnPath, Remembers, Refreshing
  <1>3. RestInv'
    BY <1>1, <1>2, FaultCount DEF DeleteParameter, Inv, RestInv, NoFault
  <1>4. Lands(c, "route")
    BY DEF DeleteParameter, Lands
  <1>5. ASSUME NEW g, g.pc = "route", g.op = call[c].op, g.a = call[c].a, g.migrated = call[c].migrated
        PROVE  OnPath(g) /\ Unhaunted(g, ghosts') /\ Remembers(g)
    BY <1>2, <1>5 DEF OnPath, Unhaunted, Remembers, Chain, Replacing, Refreshing
  <1>6. Moves(c) /\ call'[c].pc = "route"
    BY <1>4, <1>5, GotoMoves DEF Labels
  <1> QED
    BY <1>1, <1>3, <1>6, AsideSound

\* a flag that is set, or an error
LEMMA SetFlagSound ==
  ASSUME Inv, NEW c \in Callers, NEW v \in {"active", "paused"}, NEW l \in Labels, SetFlag(c, v, l),
         call[c].a \in Agents, ~call[c].migrated,
         \A g : /\ g.pc = l /\ g.op = call[c].op /\ g.a = call[c].a
                /\ g.migrated = call[c].migrated
                => OnPath(g) /\ Unhaunted(g, ghosts') /\ Remembers(g)
  PROVE  Sound(c)
  <1>1. UNCHANGED <<host, boot, late>>
    BY DEF SetFlag
  <1>2. RestInv'
    BY <1>1, FaultCount DEF SetFlag, Inv, RestInv, NoFault
  <1>3. CASE Goto(c, l)
    BY <1>1, <1>2, <1>3, GotoMoves, AsideSound DEF Lands
  <1>4. CASE Goto(c, "err")
    BY <1>1, <1>2, <1>4, EndMoves, AsideSound DEF Lands
  <1> QED
    BY <1>3, <1>4 DEF SetFlag

LEMMA SetAgentPausedSound ==
  ASSUME Inv, NEW c \in Callers, SetAgentPaused(c)
  PROVE  Sound(c)
  <1>1. call[c].pc = "mark"
    BY DEF SetAgentPaused, At
  <1>2. call[c].op \in {"pause", "unpause"} /\ call[c].a \in Agents /\ ~call[c].migrated
    BY <1>1, FrameFacts DEF OnPath, Remembers, Refreshing
  <1>3. CASE call[c].op = "pause" /\ SetFlag(c, "paused", "ok")
    <2>1. ASSUME NEW g, g.pc = "ok", g.op = call[c].op, g.a = call[c].a, g.migrated = call[c].migrated
          PROVE  OnPath(g) /\ Unhaunted(g, ghosts') /\ Remembers(g)
      BY <1>2, <2>1 DEF OnPath, Unhaunted, Remembers, Chain, Replacing
    <2> QED
      BY <1>2, <1>3, <2>1, SetFlagSound DEF Labels
  <1>4. CASE call[c].op = "unpause" /\ SetFlag(c, "active", "read")
    <2>1. ASSUME NEW g, g.pc = "read", g.op = call[c].op, g.a = call[c].a, g.migrated = call[c].migrated
          PROVE  OnPath(g) /\ Unhaunted(g, ghosts') /\ Remembers(g)
      BY <1>2, <1>4, <2>1 DEF OnPath, Unhaunted, Remembers, Chain, Replacing, Refreshing
    <2> QED
      BY <1>2, <1>4, <2>1, SetFlagSound DEF Labels
  <1> QED
    BY <1>2, <1>3, <1>4 DEF SetAgentPaused

LEMMA RollbackSound ==
  ASSUME Inv, NEW c \in Callers, Rollback(c)
  PROVE  Sound(c)
  <1>1. call[c].pc = "rollback" /\ SetFlag(c, "paused", "err")
    BY DEF Rollback, At
  <1>2. call[c].a \in Agents
    BY <1>1, FrameFacts DEF OnPath
  <1>3. UNCHANGED <<host, boot, late>> /\ Goto(c, "err")
    BY <1>1 DEF SetFlag
  <1>4. RestInv'
    BY <1>1, <1>2, <1>3, FaultCount DEF SetFlag, Inv, RestInv, NoFault
  <1> QED
    BY <1>3, <1>4, EndMoves, AsideSound DEF Lands

LEMMA ResolveAgentSound ==
  ASSUME Inv, NEW c \in Callers, ResolveAgent(c)
  PROVE  Sound(c)
  <1>1. UNCHANGED <<param, host, boot, late>> /\ call[c].pc = "look"
    BY DEF ResolveAgent, At
  <1>2. call[c].op \in {"pause", "unpause"} /\ call[c].a \in Agents /\ ~call[c].migrated
    BY <1>1, FrameFacts DEF OnPath, Remembers, Refreshing
  <1>3. RestInv'
    BY <1>1, FaultCount DEF ResolveAgent, Inv, RestInv, NoFault
  <1>4. PICK l \in {"ok", "err", "halt", "mark"} :
           Goto(c, l) /\ (l = "halt" => call[c].op = "pause")
    BY <1>2 DEF ResolveAgent
  <1>5. ASSUME NEW g, g.pc = l, g.op = call[c].op, g.a = call[c].a, g.migrated = call[c].migrated
        PROVE  OnPath(g) /\ Unhaunted(g, ghosts') /\ Remembers(g)
    BY <1>2, <1>4, <1>5 DEF OnPath, Unhaunted, Remembers, Chain, Replacing
  <1>6. l \in Labels /\ Lands(c, l)
    BY <1>4 DEF Labels, Lands
  <1>7. Moves(c)
    BY <1>5, <1>6, GotoMoves
  <1> QED
    BY <1>1, <1>2, <1>3, <1>7, AsideSound

LEMMA ReadForRefreshSound ==
  ASSUME Inv, NEW c \in Callers, ReadForRefresh(c)
  PROVE  Sound(c)
  <1>1. UNCHANGED <<param, host, boot, late>> /\ call[c].pc = "read"
    BY DEF ReadForRefresh, At
  <1>2. call[c].op \in Refreshing /\ call[c].a \in Agents
    BY <1>1, FrameFacts DEF OnPath, Chain
  <1>3. RestInv'
    BY <1>1, FaultCount DEF ReadForRefresh, Inv, RestInv, NoFault
  <1>4. CASE call' = [call EXCEPT ![c].pc = "config", ![c].migrated = FALSE]
    <2>1. /\ call'[c] \in Frame /\ call' = [call EXCEPT ![c] = call'[c]]
          /\ call'[c].pc = "config" /\ call'[c].op = call[c].op /\ call'[c].a = call[c].a
          /\ ~call'[c].migrated
      BY <1>4, FrameFacts DEF FramesInv, Frame, Labels
    <2>2. FrameGood(call'[c], ghosts')
      BY <1>2, <2>1 DEF FrameGood, OnPath, Unhaunted, Remembers, Chain, Replacing
    <2> QED
      BY <1>1, <1>3, <2>1, <2>2, AsideSound DEF Moves
  <1>5. CASE Fail(c)
    <2>1. Moves(c) /\ call'[c].pc # "ok"
      BY <1>1, <1>5, FrameFacts, FailMoves, FailFrame DEF Chain
    <2> QED
      BY <1>1, <1>3, <2>1, AsideSound
  <1> QED
    BY <1>4, <1>5 DEF ReadForRefresh

LEMMA ListAgentsSound ==
  ASSUME Inv, NEW c \in Callers, ListAgents(c)
  PROVE  Sound(c)
  <1>1. UNCHANGED <<param, host, boot, late>> /\ call[c].pc = "list"
    BY DEF ListAgents, At
  <1>2. call[c].op = "refreshAll"
    BY <1>1, FrameFacts DEF OnPath
  <1>3. RestInv'
    BY <1>1, FaultCount DEF ListAgents, Inv, RestInv, NoFault
  <1>4. CASE call' = [call EXCEPT ![c].todo = Active, ![c].pc = "each"]
    <2>1. /\ call'[c] \in Frame /\ call' = [call EXCEPT ![c] = call'[c]]
          /\ call'[c].pc = "each" /\ call'[c].op = call[c].op
      BY <1>4, FrameFacts DEF FramesInv, Frame, Labels, Active
    <2>2. FrameGood(call'[c], ghosts')
      BY <1>2, <2>1 DEF FrameGood, OnPath, Unhaunted, Remembers, Chain, Replacing, Refreshing
    <2> QED
      BY <1>1, <1>2, <1>3, <2>1, <2>2, AsideSound DEF Moves
  <1>5. CASE Goto(c, "err")
    BY <1>1, <1>3, <1>5, EndMoves, AsideSound DEF Lands
  <1> QED
    BY <1>4, <1>5 DEF ListAgents

LEMMA TakeNextSound ==
  ASSUME Inv, NEW c \in Callers, TakeNext(c)
  PROVE  Sound(c)
  <1>1. UNCHANGED <<param, host, boot, late, faults>> /\ call[c].pc = "each"
    BY DEF TakeNext, At
  <1>2. call[c].op = "refreshAll" /\ call[c].todo \subseteq Agents
    BY <1>1, FrameFacts DEF OnPath, Frame
  <1>3. RestInv'
    BY <1>1 DEF Inv, RestInv
  <1>4. ASSUME NEW l \in {"ok", "err"}, Goto(c, l)  PROVE Sound(c)
    BY <1>1, <1>2, <1>3, <1>4, EndMoves, AsideSound DEF Lands
  <1>5. ASSUME NEW a \in call[c].todo,
               call' = [call EXCEPT ![c].a = a, ![c].todo = @ \ {a}, ![c].pc = "read"]
        PROVE  Sound(c)
    <2>1. /\ call'[c] \in Frame /\ call' = [call EXCEPT ![c] = call'[c]]
          /\ call'[c].pc = "read" /\ call'[c].op = call[c].op /\ call'[c].a \in Agents
      BY <1>2, <1>5, FrameFacts DEF FramesInv, Frame, Labels
    <2>2. FrameGood(call'[c], ghosts')
      BY <1>2, <2>1 DEF FrameGood, OnPath, Unhaunted, Remembers, Chain, Replacing, Refreshing
    <2> QED
      BY <1>1, <1>3, <2>1, <2>2, AsideSound DEF Moves
  <1> QED
    BY <1>4, <1>5 DEF TakeNext

\* the caller returns, or dies
LEMMA IdleMoves ==
  ASSUME Inv, NEW c \in Callers, call' = [call EXCEPT ![c] = Idle]
  PROVE  Moves(c) /\ call'[c].pc = "idle"
  <1>1. call'[c] = Idle /\ Idle \in Frame
    BY FrameFacts, HostFaultsAssumption DEF FramesInv, Idle, Frame, Labels
  <1>2. FrameGood(Idle, ghosts')
    BY <1>1 DEF FrameGood, Idle, OnPath, Unhaunted, Remembers, Chain, Replacing
  <1>3. Idle.pc = "idle"
    BY DEF Idle
  <1> QED
    BY <1>1, <1>2, <1>3 DEF Moves

LEMMA ReturnSound ==
  ASSUME Inv, NEW c \in Callers, Return(c)
  PROVE  Sound(c)
  <1>1. UNCHANGED <<param, host, boot, late, faults>> /\ Moves(c) /\ call'[c].pc = "idle"
    BY IdleMoves DEF Return
  <1>2. RestInv'
    BY <1>1 DEF Inv, RestInv
  <1> QED
    BY <1>1, <1>2, AsideSound

LEMMA WriteConfigSound ==
  ASSUME Inv, NEW c \in Callers, WriteConfig(c)
  PROVE  Sound(c)
  <1>1. UNCHANGED <<param, host, boot, late>> /\ call[c].pc = "config"
    BY DEF WriteConfig, At
  <1>2. call[c].op \in Refreshing /\ call[c].a \in Agents /\ Remembers(call[c])
    BY <1>1, FrameFacts DEF OnPath, Chain
  <1>3. RestInv'
    BY <1>1, FaultCount DEF WriteConfig, Inv, RestInv, NoFault
  <1>4. CASE Goto(c, "inspect")
    <2>1. ASSUME NEW g, g.pc = "inspect", g.op = call[c].op, g.a = call[c].a, g.migrated = call[c].migrated
          PROVE  OnPath(g) /\ Unhaunted(g, ghosts') /\ Remembers(g)
      BY <1>1, <1>2, <2>1 DEF OnPath, Unhaunted, Remembers, Chain, Replacing
    <2>2. Moves(c) /\ call'[c].pc = "inspect"
      BY <1>4, <2>1, GotoMoves DEF Labels, Lands
    <2> QED
      BY <1>1, <1>3, <2>2, AsideSound
  <1>5. CASE Fail(c)
    <2>1. Moves(c) /\ call'[c].pc # "ok"
      BY <1>1, <1>5, FrameFacts, FailMoves, FailFrame DEF Chain
    <2> QED
      BY <1>1, <1>3, <2>1, AsideSound
  <1> QED
    BY <1>4, <1>5 DEF WriteConfig

\* An agent that leaves here is not haunted: its network is not the bootstrap's, or has
\* been seen without an endpoint in the way.
LEMMA PrepareNetworkSound ==
  ASSUME Inv, NEW c \in Callers, PrepareNetwork(c)
  PROVE  Sound(c)
  <1>1. UNCHANGED <<param, host, boot, late>> /\ call[c].pc = "inspect"
    BY DEF PrepareNetwork, At
  <1>2. call[c].op \in Refreshing /\ call[c].a \in Agents /\ Remembers(call[c])
    BY <1>1, FrameFacts DEF OnPath, Chain
  <1>3. RestInv'
    BY <1>1, FaultCount DEF PrepareNetwork, Inv, RestInv, NoFault
  <1>4. ASSUME NEW l \in {"define", "create", "commit"}, Goto(c, l),
               ~(net[call[c].a] = "auto" /\ call[c].a \in ghosts)
        PROVE  Sound(c)
    <2>1. call[c].a \notin ghosts'
      BY <1>1, <1>4 DEF Inv, GhostsHold, host
    <2>2. ASSUME NEW g, g.pc = l, g.op = call[c].op, g.a = call[c].a, g.migrated = call[c].migrated
          PROVE  OnPath(g) /\ Unhaunted(g, ghosts') /\ Remembers(g)
      BY <1>1, <1>2, <2>1, <2>2 DEF OnPath, Unhaunted, Remembers, Chain, Replacing
    <2>3. l \in Labels /\ Lands(c, l)
      BY <1>4 DEF Labels, Lands
    <2>4. Moves(c) /\ call'[c].pc = l
      BY <2>2, <2>3, GotoMoves
    <2> QED
      BY <1>1, <1>3, <2>4, AsideSound
  <1>5. CASE Fail(c)
    <2>1. Moves(c) /\ call'[c].pc # "ok"
      BY <1>1, <1>5, FrameFacts, FailMoves, FailFrame DEF Chain
    <2> QED
      BY <1>1, <1>3, <2>1, AsideSound
  <1> QED
    BY <1>4, <1>5 DEF PrepareNetwork

\* What a long command does to the host: the job runs, or its caller gives up on it.
Ran(c, j) ==
    /\ \/ (\E ok \in BOOLEAN : Job(j, call[c].a, ok)) /\ UNCHANGED late
       \/ /\ Fault("timeout")
          /\ late' = late \cup {[job |-> j, a |-> call[c].a]}
          /\ UNCHANGED host
    /\ UNCHANGED <<param, boot>>

LEMMA RanHost ==
  ASSUME Inv, NEW c \in Callers, NEW j \in Jobs, call[c].a \in Agents, Ran(c, j)
  PROVE  HostKept /\ ghosts' = ghosts /\ RestInv'
  <1>1. ASSUME NEW ok \in BOOLEAN, Job(j, call[c].a, ok), UNCHANGED late
        PROVE  HostKept /\ ghosts' = ghosts /\ RestInv'
    BY <1>1, JobHost DEF Inv, RestInv, HostKept, Ran
  <1>2. CASE /\ Fault("timeout") /\ UNCHANGED host
             /\ late' = late \cup {[job |-> j, a |-> call[c].a]}
    <2>1. late' \subseteq [job : Jobs, a : Agents]
      BY <1>2 DEF Inv, RestInv
    <2> QED
      BY <1>2, <2>1, HostAside, FaultCount DEF Inv, RestInv, Ran
  <1> QED
    BY <1>1, <1>2 DEF Ran

\* The network of a new agent: one that is there already ends the script.
LEMMA RunInfraSound ==
  ASSUME Inv, NEW c \in Callers, RunInfra(c)
  PROVE  Sound(c)
  <1>1. call[c].pc = "infra"
    BY DEF RunInfra, At
  <1>2. call[c].op = "provision" /\ call[c].a \in Agents /\ ~call[c].migrated
    BY <1>1, FrameFacts DEF OnPath, Remembers
  <1>3. Ran(c, "infra") /\ (Goto(c, "read") \/ Goto(c, "err"))
    BY DEF RunInfra, Command, Ran
  <1>4. HostKept /\ ghosts' = ghosts /\ RestInv'
    BY <1>2, <1>3, RanHost DEF Jobs
  <1>5. Moves(c)
    <2>1. CASE Goto(c, "read")
      <3>1. ASSUME NEW g, g.pc = "read", g.op = call[c].op, g.a = call[c].a, g.migrated = call[c].migrated
            PROVE  OnPath(g) /\ Unhaunted(g, ghosts') /\ Remembers(g)
        BY <1>2, <3>1 DEF OnPath, Unhaunted, Remembers, Chain, Replacing, Refreshing
      <3> QED
        BY <2>1, <3>1, GotoMoves DEF Labels, Lands
    <2>2. CASE Goto(c, "err")
      BY <2>2, EndMoves DEF Lands
    <2> QED
      BY <1>3, <2>1, <2>2
  <1>6. GhostKept(c)
    <2>1. CASE UNCHANGED host
      BY <2>1 DEF GhostKept, host
    <2>2. ASSUME NEW ok \in BOOLEAN, InfraJob(call[c].a, ok)  PROVE GhostKept(c)
      BY <2>2 DEF GhostKept, InfraJob
    <2> QED
      BY <1>3, <2>1, <2>2 DEF Ran, Job
  <1> QED
    BY <1>2, <1>4, <1>5, <1>6 DEF Sound, ProxyKept

LEMMA RunHaltSound ==
  ASSUME Inv, NEW c \in Callers, RunHalt(c)
  PROVE  Sound(c)
  <1>1. call[c].pc = "halt"
    BY DEF RunHalt, At
  <1>2. call[c].op = "pause" /\ call[c].a \in Agents /\ ~call[c].migrated
    BY <1>1, FrameFacts DEF OnPath, Remembers
  <1>3. Ran(c, "halt") /\ (Goto(c, "mark") \/ Goto(c, "err"))
    BY DEF RunHalt, Command, Ran
  <1>4. HostKept /\ ghosts' = ghosts /\ RestInv'
    BY <1>2, <1>3, RanHost DEF Jobs
  <1>5. Moves(c)
    <2>1. CASE Goto(c, "mark")
      <3>1. ASSUME NEW g, g.pc = "mark", g.op = call[c].op, g.a = call[c].a, g.migrated = call[c].migrated
            PROVE  OnPath(g) /\ Unhaunted(g, ghosts') /\ Remembers(g)
        BY <1>2, <3>1 DEF OnPath, Unhaunted, Remembers, Chain, Replacing
      <3> QED
        BY <2>1, <3>1, GotoMoves DEF Labels, Lands
    <2>2. CASE Goto(c, "err")
      BY <2>2, EndMoves DEF Lands
    <2> QED
      BY <1>3, <2>1, <2>2
  <1> QED
    BY <1>2, <1>4, <1>5 DEF Sound, ProxyKept, GhostKept, Refreshing

LEMMA RunRemoveSound ==
  ASSUME Inv, NEW c \in Callers, RunRemove(c)
  PROVE  Sound(c)
  <1>1. call[c].pc = "remove"
    BY DEF RunRemove, At
  <1>2. call[c].op = "remove" /\ call[c].a \in Agents /\ ~call[c].migrated
    BY <1>1, FrameFacts DEF OnPath, Remembers, Refreshing
  <1>3. Ran(c, "remove") /\ (Lands(c, "unregister") \/ Goto(c, "err"))
    BY DEF RunRemove, Command, Ran, Lands
  <1>4. HostKept /\ ghosts' = ghosts /\ RestInv'
    BY <1>2, <1>3, RanHost DEF Jobs
  <1>5. Moves(c)
    <2>1. CASE Lands(c, "unregister")
      <3>1. ASSUME NEW g, g.pc = "unregister", g.op = call[c].op, g.a = call[c].a, g.migrated = call[c].migrated
            PROVE  OnPath(g) /\ Unhaunted(g, ghosts') /\ Remembers(g)
        BY <1>2, <3>1 DEF OnPath, Unhaunted, Remembers, Chain, Replacing
      <3> QED
        BY <2>1, <3>1, GotoMoves DEF Labels
    <2>2. CASE Goto(c, "err")
      BY <2>2, EndMoves DEF Lands
    <2> QED
      BY <1>3, <2>1, <2>2
  <1> QED
    BY <1>2, <1>4, <1>5 DEF Sound, ProxyKept, GhostKept, Refreshing

\* From COMMIT on nothing holds on to the network of the agent.
LEMMA ReplacingFacts ==
  ASSUME Inv, NEW c \in Callers, call[c].pc \in Replacing
  PROVE  /\ call[c].op \in Refreshing /\ call[c].a \in Agents /\ call[c].a \notin ghosts
         /\ call[c].pc # "ok"
         /\ GhostKept(c)
  BY FrameFacts DEF OnPath, Unhaunted, Chain, Replacing, GhostKept

LEMMA CommitNetworkSound ==
  ASSUME Inv, NEW c \in Callers, CommitNetwork(c)
  PROVE  Sound(c)
  <1> DEFINE a == call[c].a
  <1>1. call[c].pc = "commit" /\ UNCHANGED <<param, unit, ghosts, route, boot, late>>
    BY DEF CommitNetwork, At
  <1>2. call[c].op \in Refreshing /\ a \in Agents /\ a \notin ghosts /\ GhostKept(c)
    BY <1>1, ReplacingFacts DEF Replacing
  <1>3. /\ wanted' = wanted \ {a}
        /\ agentAt' = [b \in Agents |-> IF b \in {a} THEN 0 ELSE agentAt[b]]
        /\ proxyAt' = [proxyAt EXCEPT ![a] = 0]
        /\ net' = [net EXCEPT ![a] = "none"] \/ net' = net
    BY DEF CommitNetwork, Stopped
  <1>4. HostInv'
    BY <1>1, <1>3 DEF Inv, HostInv
  <1>5. HostKept
    BY <1>1, <1>2, <1>3, <1>4 DEF Inv, HostInv, GhostsHold, HostKept
  <1>6. RestInv'
    BY <1>1, FaultCount DEF CommitNetwork, Inv, RestInv, NoFault
  <1>7. CASE call' = [call EXCEPT ![c].pc = "create", ![c].migrated = TRUE]
    <2>1. /\ call'[c] \in Frame /\ call' = [call EXCEPT ![c] = call'[c]]
          /\ call'[c].pc = "create" /\ call'[c].op = call[c].op /\ call'[c].a = call[c].a
      BY <1>7, FrameFacts DEF FramesInv, Frame, Labels
    <2>2. FrameGood(call'[c], ghosts')
      BY <1>1, <1>2, <2>1 DEF FrameGood, OnPath, Unhaunted, Remembers, Chain, Replacing
    <2> QED
      BY <1>2, <1>5, <1>6, <2>1, <2>2 DEF Sound, Moves, ProxyKept
  <1>8. CASE Fail(c)
    <2>1. Moves(c) /\ call'[c].pc # "ok"
      BY <1>1, <1>8, FrameFacts, FailMoves, FailFrame DEF Chain
    <2> QED
      BY <1>2, <1>5, <1>6, <2>1 DEF Sound, ProxyKept
  <1> QED
    BY <1>7, <1>8 DEF CommitNetwork

\* the step from a label of Replacing to the next, or a failure
LEMMA ReplacingSound ==
  ASSUME Inv, NEW c \in Callers, call[c].pc \in {"create", "define", "start"},
         NEW l \in {"define", "start", "route"},
         Goto(c, l) \/ Fail(c), HostKept, ghosts' = ghosts, RestInv'
  PROVE  Sound(c)
  <1>1. call[c].op \in Refreshing /\ call[c].a \in Agents /\ call[c].a \notin ghosts /\ GhostKept(c)
    BY ReplacingFacts DEF Replacing
  <1>2. CASE Goto(c, l)
    <2>1. ASSUME NEW g, g.pc = l, g.op = call[c].op, g.a = call[c].a, g.migrated = call[c].migrated
          PROVE  OnPath(g) /\ Unhaunted(g, ghosts') /\ Remembers(g)
      BY <1>1, <2>1 DEF OnPath, Unhaunted, Remembers, Chain, Replacing
    <2>2. l \in Labels /\ Lands(c, l)
      BY <1>2 DEF Labels, Lands
    <2>3. Moves(c) /\ call'[c].pc = l
      BY <2>1, <2>2, GotoMoves
    <2> QED
      BY <1>1, <2>3 DEF Sound, ProxyKept
  <1>3. CASE Fail(c)
    <2>1. Moves(c) /\ call'[c].pc # "ok"
      BY <1>3, FrameFacts, FailMoves, FailFrame DEF Chain
    <2> QED
      BY <1>1, <2>1 DEF Sound, ProxyKept
  <1> QED
    BY <1>2, <1>3

LEMMA CreateNetworkSound ==
  ASSUME Inv, NEW c \in Callers, CreateNetwork(c)
  PROVE  Sound(c)
  <1>1. /\ call[c].pc = "create"
        /\ UNCHANGED <<param, unit, wanted, agentAt, proxyAt, ghosts, route, boot, late>>
        /\ Goto(c, "define") \/ Fail(c)
        /\ net' = [net EXCEPT ![call[c].a] = "static"] \/ net' = net
    BY DEF CreateNetwork, At
  <1>2. call[c].a \in Agents /\ call[c].a \notin ghosts
    BY <1>1, ReplacingFacts DEF Replacing
  <1>3. HostInv'
    BY <1>1, <1>2 DEF Inv, HostInv
  <1>4. HostKept
    BY <1>1, <1>2, <1>3 DEF Inv, HostInv, GhostsHold, HostKept
  <1>5. RestInv'
    BY <1>1, FaultCount DEF CreateNetwork, Inv, RestInv, NoFault
  <1> QED
    BY <1>1, <1>4, <1>5, ReplacingSound

LEMMA DefineServiceSound ==
  ASSUME Inv, NEW c \in Callers, DefineService(c)
  PROVE  Sound(c)
  <1>1. /\ call[c].pc = "define"
        /\ UNCHANGED <<param, wanted, agentAt, proxyAt, net, ghosts, route, boot, late>>
        /\ Goto(c, "start") \/ Fail(c)
    BY DEF DefineService, At
  <1>2. call[c].a \in Agents
    BY <1>1, ReplacingFacts DEF Replacing
  <1>3. unit' \in [Agents -> {"none", "boot", "engine"}]
    BY <1>2 DEF DefineService, Inv, HostInv
  <1>4. HostKept
    BY <1>1, <1>3 DEF Inv, HostInv, GhostsHold, HostKept
  <1>5. RestInv'
    BY <1>1, FaultCount DEF DefineService, Inv, RestInv, NoFault
  <1> QED
    BY <1>1, <1>4, <1>5, ReplacingSound

LEMMA StartServiceSound ==
  ASSUME Inv, NEW c \in Callers, StartService(c)
  PROVE  Sound(c)
  <1>1. call[c].pc = "start" /\ Ran(c, "start") /\ (Goto(c, "route") \/ Fail(c))
    BY DEF StartService, At, Command, Ran
  <1>2. call[c].a \in Agents
    BY <1>1, ReplacingFacts DEF Replacing
  <1>3. HostKept /\ ghosts' = ghosts /\ RestInv'
    BY <1>1, <1>2, RanHost DEF Jobs
  <1> QED
    BY <1>1, <1>3, ReplacingSound

LEMMA RegenerateRoutingSound ==
  ASSUME Inv, NEW c \in Callers, RegenerateRouting(c)
  PROVE  Sound(c)
  <1>1. /\ call[c].pc = "route"
        /\ UNCHANGED <<param, unit, wanted, agentAt, proxyAt, net, ghosts, boot, late>>
    BY DEF RegenerateRouting, At
  <1>2. /\ call[c].op \in Refreshing \cup {"remove"} /\ call[c].a \in Agents
        /\ call[c].op \in Refreshing => call[c].a \notin ghosts
        /\ Remembers(call[c])
    BY <1>1, FrameFacts DEF OnPath, Unhaunted
  <1>3. route' \in [Agents -> {"none", "bridge", "loopback"}]
    BY DEF RegenerateRouting, Inv, HostInv
  <1>4. HostKept
    BY <1>1, <1>3 DEF Inv, HostInv, GhostsHold, HostKept
  <1>5. RestInv'
    BY <1>1, FaultCount DEF RegenerateRouting, Inv, RestInv, NoFault
  <1>6. GhostKept(c)
    BY <1>1 DEF GhostKept
  <1>7. CASE call[c].op = "remove"
    <2>1. Goto(c, "ok") \/ Goto(c, "err")
      BY <1>7 DEF RegenerateRouting
    <2>2. Moves(c)
      BY <2>1, EndMoves DEF Lands
    <2>3. ~call[c].migrated
      BY <1>2, <1>7 DEF Remembers, Refreshing
    <2> QED
      BY <1>4, <1>5, <1>6, <2>2, <2>3 DEF Sound, ProxyKept
  <1>8. CASE call[c].op # "remove"
    <2>1. Goto(c, "deploy")
      BY <1>8 DEF RegenerateRouting
    <2>2. ASSUME NEW g, g.pc = "deploy", g.op = call[c].op, g.a = call[c].a, g.migrated = call[c].migrated
          PROVE  OnPath(g) /\ Unhaunted(g, ghosts') /\ Remembers(g)
      BY <1>1, <1>2, <1>8, <2>2 DEF OnPath, Unhaunted, Remembers, Chain, Replacing
    <2>3. Moves(c) /\ call'[c].pc = "deploy"
      BY <2>1, <2>2, GotoMoves DEF Labels, Lands
    <2> QED
      BY <1>4, <1>5, <1>6, <2>3 DEF Sound, ProxyKept
  <1> QED
    BY <1>7, <1>8

\* A deployment that succeeds leaves the proxy at its address.
LEMMA DeployedProxy ==
  ASSUME HostInv, NEW a \in Agents, Job("deploy", a, TRUE)
  PROVE  proxyAt'[a] = ProxyIP
  <1>1. DeployJob(a, TRUE)
    BY DEF Job
  <1>2. proxyAt' = [proxyAt EXCEPT ![a] = ProxyIP]
    BY <1>1 DEF DeployJob
  <1> QED
    BY <1>2 DEF HostInv

LEMMA RunDeploySound ==
  ASSUME Inv, NEW c \in Callers, RunDeploy(c)
  PROVE  Sound(c)
  <1> DEFINE a == call[c].a
             failed == IF call[c].op = "deploy" \/ call[c].migrated THEN Fail(c) ELSE Succeed(c)
  <1>1. call[c].pc = "deploy"
    BY DEF RunDeploy, At
  <1>2. /\ call[c].op \in Refreshing \cup {"deploy"} /\ a \in Agents
        /\ call[c].op \in Refreshing => a \notin ghosts
        /\ Remembers(call[c])
    BY <1>1, FrameFacts DEF OnPath, Unhaunted
  <1>3. \/ (\E ok \in BOOLEAN : Job("deploy", a, ok) /\ IF ok THEN Succeed(c) ELSE failed)
             /\ UNCHANGED <<param, boot, late>>
        \/ /\ Fault("timeout") /\ failed
           /\ late' = late \cup {[job |-> "deploy", a |-> a]}
           /\ UNCHANGED <<param, boot, host>>
        \/ /\ NoFault \/ \E k \in {"policy", "ssm"} : Fault(k)
           /\ failed
           /\ UNCHANGED <<param, host, boot, late>>
    BY DEF RunDeploy, Command
  <1>4. GhostKept(c)
    BY <1>2 DEF GhostKept, Refreshing
  <1>5. HostKept /\ ghosts' = ghosts /\ RestInv'
    <2>1. CASE Ran(c, "deploy")
      BY <1>2, <2>1, RanHost DEF Jobs
    <2>2. CASE (NoFault \/ \E k \in {"policy", "ssm"} : Fault(k)) /\ UNCHANGED <<param, host, boot, late>>
      BY <2>2, HostAside, FaultCount DEF Inv, RestInv, NoFault
    <2> QED
      BY <1>3, <2>1, <2>2 DEF Ran
  <1>6. ASSUME Fail(c)
        PROVE  Moves(c) /\ call'[c].pc # "ok"
    BY <1>1, <1>6, FrameFacts, FailMoves, FailFrame
  <1>7. ASSUME Succeed(c)
        PROVE  Moves(c)
    <2>1. CASE call[c].op = "refreshAll"
      <3>1. ASSUME NEW g, g.pc = "each", g.op = call[c].op, g.a = call[c].a, g.migrated = call[c].migrated
            PROVE  OnPath(g) /\ Unhaunted(g, ghosts') /\ Remembers(g)
        BY <2>1, <3>1 DEF OnPath, Unhaunted, Remembers, Chain, Replacing, Refreshing
      <3>2. Lands(c, "each")
        BY <1>7, <2>1 DEF Succeed, Lands
      <3> QED
        BY <3>1, <3>2, GotoMoves DEF Labels
    <2>2. CASE call[c].op # "refreshAll"
      BY <1>7, <2>2, EndMoves DEF Succeed, Lands
    <2> QED
      BY <2>1, <2>2
  <1>8. Moves(c)
    BY <1>3, <1>6, <1>7
  <1>9. ProxyKept(c)
    <2>1. SUFFICES ASSUME call[c].migrated, call'[c].pc = "ok"
                   PROVE  proxyAt'[a] = ProxyIP
      BY DEF ProxyKept
    <2>2. ~failed
      BY <1>6, <2>1
    <2>3. Job("deploy", a, TRUE)
      BY <1>3, <2>2
    <2> QED
      BY <1>2, <2>3, DeployedProxy DEF Inv
  <1> QED
    BY <1>4, <1>5, <1>8, <1>9 DEF Sound

--------------------------------------------------------------------------------
(* The instance restarts. *)

\* Docker and systemd bring up what is there; an endpoint may be gone, none is new.
LEMMA PowerCycleKept ==
  ASSUME Inv, PowerCycle
  PROVE  /\ HostKept
         /\ param' = param /\ boot' \in [at : BootSteps, found : SUBSET Agents] /\ late' = {}
  <1>1. ASSUME NEW a \in Agents
        PROVE  /\ AddressOf(unit[a], net[a], proxyAt[a]) \in {0} \cup Addresses
               /\ AddressOf(unit[a], net[a], proxyAt[a]) # 0
                     => /\ unit[a] # "none" /\ net[a] # "none"
                        /\ AddressOf(unit[a], net[a], proxyAt[a]) # proxyAt[a]
    BY DEF Inv, HostInv, AddressOf, Addresses, AgentIP, ProxyIP
  <1>2. /\ wanted' = {a \in Agents : unit[a] # "none"}
        /\ agentAt' = [a \in Agents |-> AddressOf(unit[a], net[a], proxyAt[a])]
        /\ ghosts' \subseteq ghosts /\ UNCHANGED <<unit, proxyAt, net, route>>
    BY DEF PowerCycle
  <1>3. agentAt' \in [Agents -> {0} \cup Addresses]
    BY <1>1, <1>2
  <1>4. HostInv'
    BY <1>1, <1>2, <1>3 DEF Inv, HostInv
  <1>5. HostKept
    BY <1>2, <1>4 DEF Inv, GhostsHold, HostKept
  <1> QED
    BY <1>5 DEF PowerCycle, BootSteps

LEMMA StopAndStartSound ==
  ASSUME Inv, NEW c \in Callers, StopAndStart(c)
  PROVE  Sound(c)
  <1>1. call[c].pc = "cycle"
    BY DEF StopAndStart, At
  <1>2. call[c].op = "cycle" /\ ~call[c].migrated
    BY <1>1, FrameFacts DEF OnPath, Remembers, Refreshing
  <1>3. CASE PowerCycle /\ Goto(c, "ok") /\ NoFault
    <2>1. HostKept /\ RestInv'
      BY <1>3, PowerCycleKept DEF Inv, RestInv, NoFault
    <2>2. Moves(c)
      BY <1>3, EndMoves DEF Lands
    <2> QED
      BY <1>2, <2>1, <2>2 DEF Sound, ProxyKept, GhostKept, Refreshing
  <1>4. CASE Fault("command") /\ Goto(c, "err") /\ UNCHANGED <<param, host, boot, late>>
    <2>1. RestInv'
      BY <1>4, FaultCount DEF Inv, RestInv
    <2>2. Moves(c) /\ call'[c].pc = "err"
      BY <1>4, EndMoves DEF Lands
    <2> QED
      BY <1>2, <1>4, <2>1, <2>2, AsideSound
  <1> QED
    BY <1>3, <1>4 DEF StopAndStart

LEMMA StepSound ==
  ASSUME Inv, NEW c \in Callers, Step(c)
  PROVE  Sound(c)
  BY PutParameterSound, DeleteParameterSound, SetAgentPausedSound, RollbackSound,
     ResolveAgentSound, ReadForRefreshSound, ListAgentsSound, TakeNextSound,
     RunInfraSound, RunHaltSound, RunRemoveSound, WriteConfigSound, PrepareNetworkSound,
     CommitNetworkSound, CreateNetworkSound, DefineServiceSound, StartServiceSound,
     RegenerateRoutingSound, RunDeploySound, StopAndStartSound, ReturnSound
     DEF Step

--------------------------------------------------------------------------------
(* The bootstrap, systemd, commands that run on. *)

\* a step of nobody's method
Aside == HostKept /\ RestInv' /\ UNCHANGED call

LEMMA BootClearAside ==
  ASSUME Inv, BootClear
  PROVE  Aside
  <1>1. /\ Stopped(Agents) /\ unit' = [a \in Agents |-> "none"]
        /\ UNCHANGED <<param, proxyAt, net, ghosts, route, late, call>>
    BY DEF BootClear
  <1>2. HostInv'
    BY <1>1 DEF Inv, HostInv, Stopped
  <1>3. boot' \in [at : BootSteps, found : SUBSET Agents] /\ faults' \in 0 .. MaxFaults
    BY FaultCount DEF BootClear, BootSteps, Active, Inv, RestInv, NoFault
  <1> QED
    BY <1>1, <1>2, <1>3 DEF Aside, HostKept, Inv, GhostsHold, RestInv

\* The proxy of an agent whose container runs gets the other address, and every
\* agent that is set up has a network.
LEMMA BootSetupAside ==
  ASSUME Inv, BootSetup
  PROVE  Aside
  <1>1. PICK S \in SUBSET boot.found :
           /\ net' = [a \in Agents |-> IF a \in S /\ net[a] = "none" THEN "auto" ELSE net[a]]
           /\ proxyAt' = [a \in Agents |->
                             IF a \notin S THEN proxyAt[a]
                             ELSE IF agentAt[a] = AgentIP THEN ProxyIP ELSE AgentIP]
           /\ unit' = [a \in Agents |-> IF a \in S THEN "boot" ELSE unit[a]]
           /\ \/ /\ route' = [a \in Agents |-> IF a \in S THEN "bridge" ELSE "none"]
                 /\ boot' = [boot EXCEPT !.at = "start"]
                 /\ NoFault
              \/ /\ UNCHANGED route
                 /\ boot' = [at |-> "up", found |-> {}]
                 /\ Fault("boot")
    BY DEF BootSetup
  <1>2. UNCHANGED <<param, wanted, agentAt, ghosts, late, call>>
    BY DEF BootSetup
  <1>3. boot' \in [at : BootSteps, found : SUBSET Agents] /\ faults' \in 0 .. MaxFaults
    BY <1>1, FaultCount DEF BootSteps, Inv, RestInv, NoFault
  <1>4. /\ unit' \in [Agents -> {"none", "boot", "engine"}]
        /\ proxyAt' \in [Agents -> {0} \cup Addresses]
        /\ net' \in [Agents -> {"none", "auto", "static"}]
        /\ route' \in [Agents -> {"none", "bridge", "loopback"}]
    BY <1>1 DEF Inv, HostInv, Addresses
  <1>5. \A a \in Agents : /\ agentAt[a] # 0 => net'[a] # "none" /\ agentAt[a] # proxyAt'[a]
                          /\ proxyAt'[a] # 0 => net'[a] # "none"
    BY <1>1 DEF Inv, HostInv, AgentIP, ProxyIP
  <1>6. HostInv'
    BY <1>2, <1>4, <1>5 DEF Inv, HostInv
  <1>7. GhostsHold'
    BY <1>1, <1>2 DEF Inv, HostInv, GhostsHold
  <1> QED
    BY <1>2, <1>3, <1>6, <1>7 DEF Aside, HostKept, Inv, RestInv

LEMMA BootStartAside ==
  ASSUME Inv, BootStart
  PROVE  Aside
  <1>1. /\ Started(boot.found, proxyAt') /\ boot' = [at |-> "up", found |-> {}]
        /\ UNCHANGED <<param, unit, proxyAt, net, ghosts, route, late, call, faults>>
    BY DEF BootStart
  <1>2. boot.found \in SUBSET Agents
    BY DEF Inv, RestInv
  <1>3. HostInv'
    BY <1>1, <1>2, StartedHost DEF Inv, HostInv
  <1> QED
    BY <1>1, <1>3 DEF Aside, HostKept, Inv, GhostsHold, RestInv, BootSteps

LEMMA RebootAside ==
  ASSUME Inv, Reboot
  PROVE  Aside
  BY PowerCycleKept, FaultCount DEF Reboot, Aside, Inv, RestInv

LEMMA LateCommandAside ==
  ASSUME Inv, LateCommand
  PROVE  Aside
  <1>1. PICK l \in late : late' = late \ {l} /\ \E ok \in BOOLEAN : Job(l.job, l.a, ok)
    BY DEF LateCommand
  <1>2. l.job \in Jobs /\ l.a \in Agents
    BY DEF Inv, RestInv
  <1>3. HostInv' /\ GhostsHold' /\ ghosts' = ghosts /\ faults' \in 0 .. MaxFaults
    BY <1>1, <1>2, JobHost DEF Inv
  <1> QED
    BY <1>1, <1>3 DEF LateCommand, Aside, HostKept, Inv, RestInv

LEMMA RetryAside ==
  ASSUME Inv, NEW a \in Agents, Retry(a)
  PROVE  Aside
  <1>1. /\ Started({a}, proxyAt')
        /\ UNCHANGED <<param, unit, proxyAt, net, ghosts, route, boot, late, call, faults>>
    BY DEF Retry
  <1>2. HostInv'
    BY <1>1, StartedHost DEF Inv, HostInv
  <1> QED
    BY <1>1, <1>2 DEF Aside, HostKept, Inv, GhostsHold, RestInv

LEMMA GiveUpAside ==
  ASSUME Inv, NEW a \in Agents, GiveUp(a)
  PROVE  Aside
  <1>1. HostInv'
    BY DEF GiveUp, Inv, HostInv
  <1> QED
    BY <1>1 DEF GiveUp, Aside, HostKept, Inv, GhostsHold, RestInv

LEMMA CrashSound ==
  ASSUME Inv, NEW c \in Callers, Crash(c)
  PROVE  Sound(c)
  <1>1. UNCHANGED <<param, host, boot, late>> /\ Moves(c) /\ call'[c].pc = "idle"
    BY IdleMoves DEF Crash
  <1>2. RestInv'
    BY <1>1, FaultCount DEF Crash, Inv, RestInv
  <1> QED
    BY <1>1, <1>2, AsideSound

--------------------------------------------------------------------------------
(* The theorems. *)

\* every step is the sound step of one caller, or of none
LEMMA NextSound ==
  ASSUME Inv, Next
  PROVE  (\E c \in Callers : Sound(c)) \/ Aside
  <1>1. ASSUME NEW c \in Callers, Request(c) \/ Step(c)  PROVE Sound(c)
    BY <1>1, RequestSound, StepSound
  <1>2. CASE Environment
    BY <1>2, BootClearAside, BootSetupAside, BootStartAside, RebootAside, LateCommandAside,
       RetryAside, GiveUpAside, CrashSound DEF Environment
  <1> QED
    BY <1>1, <1>2 DEF Next

LEMMA InvInit ==
  ASSUME Init
  PROVE  Inv
  <1>1. PICK legacy \in SUBSET Agents :
          /\ param = [a \in Agents |-> IF a \in legacy THEN "active" ELSE "none"]
          /\ unit = [a \in Agents |-> IF a \in legacy THEN "boot" ELSE "none"]
          /\ wanted = legacy
          /\ proxyAt = [a \in Agents |-> IF a \in legacy THEN AgentIP ELSE 0]
          /\ agentAt = [a \in Agents |-> IF a \in legacy THEN ProxyIP ELSE 0]
          /\ net = [a \in Agents |-> IF a \in legacy THEN "auto" ELSE "none"]
          /\ route = [a \in Agents |-> IF a \in legacy THEN "bridge" ELSE "none"]
          /\ ghosts \in SUBSET legacy
    BY DEF Init
  <1>2. HostInv
    BY <1>1 DEF HostInv, Addresses, AgentIP, ProxyIP
  <1>3. GhostsHold
    BY <1>1 DEF GhostsHold
  <1>4. RestInv
    BY <1>1, HostFaultsAssumption DEF Init, RestInv, BootSteps
  <1>5. FrameGood(Idle, ghosts)
    BY HostFaultsAssumption
       DEF FrameGood, Frame, Labels, Idle, OnPath, Unhaunted, Remembers, Chain, Replacing
  <1>6. FramesInv
    BY <1>5 DEF Init, FramesInv, FrameGood
  <1> QED
    BY <1>2, <1>3, <1>4, <1>6 DEF Inv

LEMMA InvStep ==
  ASSUME Inv, [Next]_vars
  PROVE  Inv'
  <1>1. CASE Next
    BY <1>1, NextSound, FramesKept DEF Sound, Aside, HostKept, Inv
  <1>2. CASE UNCHANGED vars
    BY <1>2 DEF vars, Inv, HostInv, GhostsHold, RestInv, FramesInv
  <1> QED
    BY <1>1, <1>2

LEMMA InvAlways == Spec => []Inv
  <1>1. Init => Inv
    BY InvInit
  <1>2. Inv /\ [Next]_vars => Inv'
    BY InvStep
  <1> QED
    BY <1>1, <1>2, PTL DEF Spec

\* Every variable has its type, and the instance is in a state Docker can report, after any
\* calls, faults, restarts and commands that outlive their callers.
THEOREM TypeCorrect == Spec => []TypeOK
  <1>1. Inv => TypeOK
    BY DEF Inv, HostInv, RestInv, FramesInv, TypeOK
  <1> QED
    BY <1>1, InvAlways, PTL

\* redeployEgressDuringRefresh: a refresh that has torn the proxy down returns success
\* only with a proxy at its address.
THEOREM MigrationEndsWithProxy == Spec => MigratedProxy
  <1>1. ASSUME Inv, Next, NEW c \in Callers
        PROVE  ProxyKept(c)
    <2>1. ASSUME NEW d \in Callers, Sound(d), d # c  PROVE call'[c] = call[c]
      BY <1>1, <2>1 DEF Sound, Moves, Inv, FramesInv
    <2>2. call'[c] = call[c] => ProxyKept(c)
      BY DEF ProxyKept, At
    <2> QED
      BY <1>1, <2>1, <2>2, NextSound DEF Sound, Aside
  <1>2. Inv /\ [Next]_vars => [\A c \in Callers : ProxyKept(c)]_vars
    BY <1>1
  <1> QED
    BY <1>2, InvAlways, PTL DEF Spec, MigratedProxy, ProxyKept

\* ReconcileAgentNetwork: whatever refresh is tried, an agent with an endpoint that cannot be
\* disconnected keeps its container, its proxy and its old network.
THEOREM GhostsLeftAlone == Spec => GhostSafe
  <1>1. ASSUME Inv, Next, NEW c \in Callers
        PROVE  GhostKept(c)
    <2>1. ASSUME NEW d \in Callers, Sound(d), d # c  PROVE call'[c] = call[c]
      BY <1>1, <2>1 DEF Sound, Moves, Inv, FramesInv
    <2>2. call'[c] = call[c] => GhostKept(c)
      BY DEF GhostKept
    <2> QED
      BY <1>1, <2>1, <2>2, NextSound DEF Sound, Aside
  <1>2. Inv /\ [Next]_vars => [\A c \in Callers : GhostKept(c)]_vars
    BY <1>1
  <1> QED
    BY <1>2, InvAlways, PTL DEF Spec, GhostSafe, GhostKept

--------------------------------------------------------------------------------
(* A refresh repairs, when it is alone. *)

\* What a refresh that nothing disturbs has brought about when it is at a label.
Progress(c) ==
    LET a == call[c].a
        pc == call[c].pc
    IN  /\ pc \in {"config", "inspect", "commit", "create", "define", "start", "route", "deploy", "ok"}
              => a \in Active
        /\ pc = "create" => net[a] = "none"
        /\ pc \in {"define", "start", "route", "deploy"} => net[a] = "static"
        /\ pc \in {"start", "route", "deploy"} => unit[a] = "engine"
        /\ pc \in {"route", "deploy"} => agentAt[a] # ProxyIP
        /\ pc = "deploy" => route[a] = "loopback"
        /\ pc = "ok" => Serving(a)
        /\ pc = "err" => \/ a \notin Active
                         \/ net[a] = "auto" /\ a \in ghosts
                         \/ proxyAt[a] = AgentIP

\* A refresh without a fault since it was called began on a host at rest, which still is.
RepairInv ==
    \A c \in Callers :
        (call[c].op = "refresh" /\ call[c].since = faults)
            => late = {} /\ boot.at = "up" /\ Progress(c)

SinceInv == \A c \in Callers : call[c].since \in 0 .. faults \cup {MaxFaults + 1}

\* A method's step keeps what it was called for, and when.
Carries(c) == /\ call'[c] = Idle \/ (call'[c].op = call[c].op /\ call'[c].since = call[c].since)
              /\ faults' \in {faults, faults + 1}

LEMMA JobFaults ==
  ASSUME NEW j, NEW a, NEW ok, Job(j, a, ok)
  PROVE  faults' \in {faults, faults + 1}
  <1>1. ASSUME NEW p, Restart(a, p, ok)
        PROVE  faults' \in {faults, faults + 1}
    BY <1>1 DEF Restart, NoFault, Fault
  <1>2. CASE DeployJob(a, ok)
    BY <1>1, <1>2 DEF DeployJob, NoFault, Fault
  <1>3. CASE StartJob(a, ok)
    BY <1>1, <1>3 DEF StartJob
  <1>4. CASE InfraJob(a, ok) \/ HaltJob(a, ok) \/ RemoveJob(a, ok)
    BY <1>4 DEF InfraJob, HaltJob, RemoveJob, NoFault, Fault
  <1> QED
    BY <1>2, <1>3, <1>4 DEF Job

LEMMA RanFaults ==
  ASSUME NEW c, NEW j, Ran(c, j)
  PROVE  faults' \in {faults, faults + 1}
  BY JobFaults DEF Ran, Fault

\* the labels Goto is given
LEMMA LandsCarries ==
  ASSUME Inv, NEW c \in Callers, NEW l \in Labels, Lands(c, l)
  PROVE  call'[c].op = call[c].op /\ call'[c].since = call[c].since
  BY GotoFrame DEF Inv

LEMMA FailCarries ==
  ASSUME Inv, NEW c \in Callers, Fail(c)
  PROVE  call'[c].op = call[c].op /\ call'[c].since = call[c].since
  BY FailFrame DEF Inv

LEMMA StepCarries ==
  ASSUME Inv, NEW c \in Callers, Step(c)
  PROVE  Carries(c)
  <1> DEFINE Same == call'[c].op = call[c].op /\ call'[c].since = call[c].since
             Counted == faults' \in {faults, faults + 1}
  <1>1. ASSUME NEW l \in Labels, Goto(c, l)  PROVE Same
    BY <1>1, LandsCarries DEF Lands
  <1>2. ASSUME Fail(c)  PROVE Same
    BY <1>2, FailCarries
  <1>3. ASSUME NEW v, NEW l \in Labels, SetFlag(c, v, l)  PROVE Same /\ Counted
    <2>1. Goto(c, l) \/ Goto(c, "err")
      BY <1>3 DEF SetFlag
    <2>2. Same
      BY <1>1, <2>1 DEF Labels
    <2> QED
      BY <1>3, <2>2 DEF SetFlag, NoFault, Fault
  <1>4. CASE SetAgentPaused(c) \/ Rollback(c)
    BY <1>3, <1>4 DEF SetAgentPaused, Rollback, Carries, Labels
  <1>5. CASE PutParameter(c) \/ ResolveAgent(c)
    <2>1. \E l \in {"infra", "err", "ok", "halt", "mark"} : Goto(c, l)
      BY <1>5 DEF PutParameter, ResolveAgent
    <2>2. Same
      BY <1>1, <2>1 DEF Labels
    <2> QED
      BY <1>5, <2>2 DEF PutParameter, ResolveAgent, NoFault, Fault, Carries
  <1>6. CASE DeleteParameter(c)
    <2>1. Lands(c, "route")
      BY <1>6 DEF DeleteParameter, Lands
    <2>2. Same
      BY <2>1, LandsCarries DEF Labels
    <2> QED
      BY <1>6, <2>2 DEF DeleteParameter, NoFault, Fault, Carries
  <1>7. CASE ReadForRefresh(c)
    <2>1. Same
      BY <1>2, <1>7, FrameFacts DEF ReadForRefresh, FramesInv, Frame
    <2> QED
      BY <1>7, <2>1 DEF ReadForRefresh, NoFault, Fault, Carries
  <1>8. CASE ListAgents(c)
    <2>1. Same
      BY <1>1, <1>8, FrameFacts DEF ListAgents, FramesInv, Frame, Labels
    <2> QED
      BY <1>8, <2>1 DEF ListAgents, NoFault, Fault, Carries
  <1>9. CASE TakeNext(c)
    <2>1. ASSUME NEW a, call' = [call EXCEPT ![c].a = a, ![c].todo = @ \ {a}, ![c].pc = "read"]  PROVE Same
      BY <2>1, FrameFacts DEF FramesInv, Frame
    <2>2. Same
      BY <1>1, <1>9, <2>1 DEF TakeNext, Labels
    <2> QED
      BY <1>9, <2>2 DEF TakeNext, Carries
  <1>10. CASE RunInfra(c)
    <2>1. Ran(c, "infra") /\ (Goto(c, "read") \/ Goto(c, "err"))
      BY <1>10 DEF RunInfra, Command, Ran
    <2>2. Same
      BY <1>1, <2>1 DEF Labels
    <2> QED
      BY <2>1, <2>2, RanFaults DEF Carries
  <1>11. CASE RunHalt(c)
    <2>1. Ran(c, "halt") /\ (Goto(c, "mark") \/ Goto(c, "err"))
      BY <1>11 DEF RunHalt, Command, Ran
    <2>2. Same
      BY <1>1, <2>1 DEF Labels
    <2> QED
      BY <2>1, <2>2, RanFaults DEF Carries
  <1>12. CASE RunRemove(c)
    <2>1. Ran(c, "remove") /\ (Lands(c, "unregister") \/ Lands(c, "err"))
      BY <1>12 DEF RunRemove, Command, Ran, Lands
    <2>2. Same
      BY <2>1, LandsCarries DEF Labels
    <2> QED
      BY <2>1, <2>2, RanFaults DEF Carries
  <1>13. CASE WriteConfig(c) \/ PrepareNetwork(c) \/ CreateNetwork(c) \/ DefineService(c)
    <2>1. Fail(c) \/ \E l \in {"inspect", "define", "create", "commit", "start"} : Goto(c, l)
      BY <1>13 DEF WriteConfig, PrepareNetwork, CreateNetwork, DefineService
    <2>2. Same
      BY <1>1, <1>2, <2>1 DEF Labels
    <2>3. Counted
      BY <1>13 DEF WriteConfig, PrepareNetwork, CreateNetwork, DefineService, NoFault, Fault
    <2> QED
      BY <2>2, <2>3 DEF Carries
  <1>14. CASE CommitNetwork(c)
    <2>1. Same
      BY <1>2, <1>14, FrameFacts DEF CommitNetwork, FramesInv, Frame
    <2> QED
      BY <1>14, <2>1 DEF CommitNetwork, NoFault, Fault, Carries
  <1>15. CASE StartService(c)
    <2>1. Ran(c, "start") /\ (Goto(c, "route") \/ Fail(c))
      BY <1>15 DEF StartService, Command, Ran
    <2>2. Same
      BY <1>1, <1>2, <2>1 DEF Labels
    <2> QED
      BY <2>1, <2>2, RanFaults DEF Carries
  <1>16. CASE RegenerateRouting(c)
    <2>1. \E l \in {"deploy", "err", "ok"} : Goto(c, l)
      BY <1>16 DEF RegenerateRouting
    <2>2. Same
      BY <1>1, <2>1 DEF Labels
    <2> QED
      BY <1>16, <2>2 DEF RegenerateRouting, NoFault, Fault, Carries
  <1>17. CASE RunDeploy(c)
    <2>1. Fail(c) \/ Succeed(c)
      BY <1>17 DEF RunDeploy, Command
    <2>2. Succeed(c) => \E l \in {"each", "ok"} : Goto(c, l)
      BY DEF Succeed
    <2>3. Same
      BY <1>1, <1>2, <2>1, <2>2 DEF Labels
    <2>4. Ran(c, "deploy") \/ NoFault \/ \E k \in {"policy", "ssm"} : Fault(k)
      BY <1>17 DEF RunDeploy, Command, Ran
    <2> QED
      BY <2>3, <2>4, RanFaults DEF NoFault, Fault, Carries
  <1>18. CASE StopAndStart(c)
    <2>1. Goto(c, "ok") \/ Goto(c, "err")
      BY <1>18 DEF StopAndStart
    <2>2. Same
      BY <1>1, <2>1 DEF Labels
    <2> QED
      BY <1>18, <2>2 DEF StopAndStart, NoFault, Fault, Carries
  <1>19. CASE Return(c)
    BY <1>19, FrameFacts DEF Return, Carries, FramesInv
  <1> QED
    BY <1>4, <1>5, <1>6, <1>7, <1>8, <1>9, <1>10, <1>11, <1>12, <1>13, <1>14, <1>15, <1>16,
       <1>17, <1>18, <1>19 DEF Step

\* what a call is when it begins
LEMMA RequestBegins ==
  ASSUME Inv, NEW c \in Callers, Request(c)
  PROVE  /\ UNCHANGED <<param, host, boot, late, faults>>
         /\ call'[c].op = "refresh" => call'[c].pc = "read"
         /\ call'[c].since = IF late = {} /\ boot.at = "up" THEN faults ELSE MaxFaults + 1
  <1> DEFINE n == IF late = {} /\ boot.at = "up" THEN faults ELSE MaxFaults + 1
  <1>1. ASSUME NEW op, NEW l, NEW a, Begin(c, op, l, a)
        PROVE  /\ UNCHANGED <<param, host, boot, late, faults>>
               /\ call'[c].op = op /\ call'[c].pc = l /\ call'[c].since = n
    <2> HIDE DEF n
    <2>1. call' = [call EXCEPT ![c] = [Idle EXCEPT !.op = op, !.pc = l, !.a = a, !.since = n]]
      BY <1>1 DEF Begin, n
    <2>2. call'[c] = [Idle EXCEPT !.op = op, !.pc = l, !.a = a, !.since = n]
      BY <2>1, FrameFacts DEF FramesInv
    <2>3. call'[c].op = op /\ call'[c].pc = l /\ call'[c].since = n
      BY <2>2 DEF Idle
    <2> QED
      BY <1>1, <2>3 DEF Begin
  <1>2. \E op, l, a : Begin(c, op, l, a) /\ (op = "refresh" => l = "read")
    BY DEF Request, ProvisionAgent, RemoveAgent, PauseAgent, UnpauseAgent, RefreshAgent,
           DeployEgress, RefreshAll, CycleHost
  <1> QED
    BY <1>1, <1>2

LEMMA EnvironmentFaults ==
  ASSUME Inv, Environment
  PROVE  faults' \in {faults, faults + 1}
  <1>1. CASE LateCommand
    BY <1>1, JobFaults DEF LateCommand
  <1>2. CASE BootClear \/ BootSetup \/ BootStart \/ Reboot
    BY <1>2 DEF BootClear, BootSetup, BootStart, Reboot, NoFault, Fault
  <1>3. CASE (\E a \in Agents : Retry(a) \/ GiveUp(a)) \/ \E c \in Callers : Crash(c)
    BY <1>3 DEF Retry, GiveUp, Crash, Fault
  <1> QED
    BY <1>1, <1>2, <1>3 DEF Environment

\* a caller's frame changes by its own steps: it begins a method, goes on with it, or is done
LEMMA FrameSteps ==
  ASSUME Inv, Next, NEW c \in Callers, call'[c] # call[c]
  PROVE  Request(c) \/ Step(c) \/ Crash(c)
  <1>1. ASSUME NEW d \in Callers, Request(d) \/ Step(d) \/ Crash(d)  PROVE d = c
    BY <1>1, RequestSound, StepSound, CrashSound DEF Sound, Moves, Inv, FramesInv
  <1>2. ~UNCHANGED call
    OBVIOUS
  <1>3. CASE Environment
    <2>1. BootClear \/ BootSetup \/ BootStart \/ Reboot \/ LateCommand
            \/ (\E a \in Agents : Retry(a) \/ GiveUp(a)) => UNCHANGED call
      BY DEF BootClear, BootSetup, BootStart, Reboot, LateCommand, Retry, GiveUp
    <2> QED
      BY <1>1, <1>2, <1>3, <2>1 DEF Environment
  <1> QED
    BY <1>1, <1>3 DEF Next

LEMMA SinceStep ==
  ASSUME Inv, SinceInv, Next
  PROVE  SinceInv' /\ faults' \in {faults, faults + 1}
  <1>1. faults \in 0 .. MaxFaults /\ MaxFaults \in Nat
    BY HostFaultsAssumption DEF Inv, RestInv
  <1>2. faults' \in {faults, faults + 1}
    <2>1. ASSUME NEW c \in Callers, Request(c) \/ Step(c)  PROVE faults' \in {faults, faults + 1}
      BY <2>1, RequestBegins, StepCarries DEF Carries
    <2> QED
      BY <2>1, EnvironmentFaults DEF Next
  <1>3. ASSUME NEW c \in Callers
        PROVE  call'[c].since \in 0 .. faults' \cup {MaxFaults + 1}
    <2>1. call[c].since \in 0 .. faults' \cup {MaxFaults + 1}
      BY <1>1, <1>2 DEF SinceInv
    <2>2. CASE Request(c)
      BY <1>1, <2>2, RequestBegins
    <2>3. Idle.since = 0
      BY DEF Idle
    <2>4. CASE Step(c)
      BY <1>1, <1>2, <2>1, <2>3, <2>4, StepCarries DEF Carries
    <2>5. CASE Crash(c)
      <3>1. call'[c] = Idle
        BY <2>5, FrameFacts DEF Crash, FramesInv
      <3> QED
        BY <1>1, <1>2, <2>3, <3>1
    <2> QED
      BY <2>1, <2>2, <2>4, <2>5, FrameSteps
  <1> QED
    BY <1>2, <1>3 DEF SinceInv

\* c is in a refresh without a fault since it was called, and has no fault now
Alone(c) ==
    /\ call[c].op = "refresh" /\ call[c].since = faults /\ faults' = faults
    /\ late = {} /\ boot.at = "up" /\ Progress(c)

LEMMA AloneFacts ==
  ASSUME Inv, NEW c \in Callers, Alone(c)
  PROVE  /\ \A k : ~Fault(k)
         /\ call[c].pc \in Chain \cup {"deploy"} => call[c].a \in Agents
         /\ \A l \in Labels : Goto(c, l) => call'[c].pc = l /\ call'[c].a = call[c].a
         /\ Fail(c) => call'[c].pc = "err" /\ call'[c].a = call[c].a
  <1>1. \A k : ~Fault(k)
    BY DEF Alone, Fault, Inv, RestInv
  <1>2. call[c].pc \in Chain \cup {"deploy"} => call[c].a \in Agents
    BY FrameFacts DEF OnPath, Chain
  <1>3. ASSUME NEW l \in Labels, Goto(c, l)  PROVE call'[c].pc = l /\ call'[c].a = call[c].a
    BY <1>3, GotoFrame DEF Lands, Inv
  <1>4. Fail(c) => call'[c].pc = "err" /\ call'[c].a = call[c].a
    BY FailFrame DEF Alone, Inv
  <1> QED
    BY <1>1, <1>2, <1>3, <1>4

\* The steps before the unit is started: each leaves what the next relies on.
LEMMA PrepareProgress ==
  ASSUME Inv, NEW c \in Callers, Alone(c),
         ReadForRefresh(c) \/ WriteConfig(c) \/ PrepareNetwork(c) \/ CommitNetwork(c)
            \/ CreateNetwork(c) \/ DefineService(c)
  PROVE  late' = {} /\ boot'.at = "up" /\ Progress(c)'
  <1> DEFINE a == call[c].a
  <1>1. CASE ReadForRefresh(c)
    <2>1. \/ a \in Active /\ call'[c].pc = "config" /\ call'[c].a = a
          \/ a \notin Active /\ call'[c].pc = "err" /\ call'[c].a = a
      BY <1>1, FrameFacts, AloneFacts DEF ReadForRefresh, FramesInv, Frame
    <2> QED
      BY <1>1, <2>1 DEF ReadForRefresh, Progress, Alone, Active
  <1>2. CASE WriteConfig(c)
    <2>1. call[c].pc = "config" /\ call'[c].pc = "inspect" /\ call'[c].a = a
      BY <1>2, AloneFacts DEF WriteConfig, At, Labels
    <2> QED
      BY <1>2, <2>1 DEF WriteConfig, Progress, Alone, Active
  <1>3. CASE PrepareNetwork(c)
    <2>1. call[c].pc = "inspect" /\ a \in Agents
      BY <1>3, AloneFacts DEF PrepareNetwork, At, Chain
    <2>2. /\ call'[c].a = a
          /\ \/ net[a] = "static" /\ call'[c].pc = "define"
             \/ net[a] = "none" /\ call'[c].pc = "create"
             \/ call'[c].pc = "commit"
             \/ net[a] = "auto" /\ a \in ghosts /\ call'[c].pc = "err"
      BY <1>3, AloneFacts DEF PrepareNetwork, Labels
    <2> QED
      BY <1>3, <2>1, <2>2 DEF PrepareNetwork, Progress, Alone, Active, host
  <1>4. CASE CommitNetwork(c)
    <2>1. call[c].pc = "commit" /\ a \in Agents
      BY <1>4, AloneFacts DEF CommitNetwork, At, Chain
    <2>2. call'[c].pc = "create" /\ call'[c].a = a /\ net' = [net EXCEPT ![a] = "none"]
      BY <1>4, AloneFacts, FrameFacts DEF CommitNetwork, FramesInv, Frame
    <2>3. net'[a] = "none"
      BY <2>1, <2>2 DEF Inv, HostInv
    <2> QED
      BY <1>4, <2>1, <2>2, <2>3 DEF CommitNetwork, Progress, Alone, Active
  <1>5. CASE CreateNetwork(c)
    <2>1. call[c].pc = "create" /\ a \in Agents /\ net[a] = "none"
      BY <1>5, AloneFacts DEF CreateNetwork, At, Chain, Progress, Alone
    <2>2. call'[c].pc = "define" /\ call'[c].a = a /\ net' = [net EXCEPT ![a] = "static"]
      BY <1>5, <2>1, AloneFacts DEF CreateNetwork, Labels
    <2>3. net'[a] = "static"
      BY <2>1, <2>2 DEF Inv, HostInv
    <2> QED
      BY <1>5, <2>1, <2>2, <2>3 DEF CreateNetwork, Progress, Alone, Active
  <1>6. CASE DefineService(c)
    <2>1. call[c].pc = "define" /\ a \in Agents
      BY <1>6, AloneFacts DEF DefineService, At, Chain
    <2>2. call'[c].pc = "start" /\ call'[c].a = a /\ unit' = [unit EXCEPT ![a] = "engine"]
      BY <1>6, AloneFacts DEF DefineService, Labels
    <2>3. unit'[a] = "engine"
      BY <2>1, <2>2 DEF Inv, HostInv
    <2> QED
      BY <1>6, <2>1, <2>2, <2>3 DEF DefineService, Progress, Alone, Active
  <1> QED
    BY <1>1, <1>2, <1>3, <1>4, <1>5, <1>6

\* The engine's unit takes the agent's address, unless the proxy has it.
LEMMA RestartEngine ==
  ASSUME Inv, NEW a \in Agents, NEW p, NEW ok \in BOOLEAN, Restart(a, p, ok),
         unit[a] = "engine", net[a] = "static", \A k : ~Fault(k)
  PROVE  /\ agentAt'[a] = IF p[a] = AgentIP THEN 0 ELSE AgentIP
         /\ ~ok => p[a] = AgentIP
  <1>1. Started({a}, p) /\ (agentAt'[a] # 0 => ok)
    BY DEF Restart
  <1>2. agentAt'[a] = AddressOf("engine", "static", p[a])
    BY <1>1 DEF Started
  <1> QED
    BY <1>1, <1>2 DEF AddressOf, AgentIP

LEMMA StartProgress ==
  ASSUME Inv, NEW c \in Callers, Alone(c), StartService(c)
  PROVE  late' = {} /\ boot'.at = "up" /\ Progress(c)'
  <1> DEFINE a == call[c].a
  <1>1. /\ call[c].pc = "start" /\ a \in Agents /\ a \in Active
        /\ net[a] = "static" /\ unit[a] = "engine"
    BY AloneFacts DEF StartService, At, Chain, Progress, Alone
  <1>2. PICK ok \in BOOLEAN :
           Job("start", a, ok) /\ (IF ok THEN Goto(c, "route") ELSE Fail(c)) /\ UNCHANGED <<late, param, boot>>
    BY AloneFacts DEF StartService, Command
  <1>3. Restart(a, proxyAt, ok) /\ UNCHANGED <<unit, proxyAt, net, ghosts, route>>
    BY <1>2 DEF Job, StartJob
  <1>4. /\ agentAt'[a] = IF proxyAt[a] = AgentIP THEN 0 ELSE AgentIP
        /\ ~ok => proxyAt[a] = AgentIP
    BY <1>1, <1>3, AloneFacts, RestartEngine
  <1>5. CASE ok
    <2>1. call'[c].pc = "route" /\ call'[c].a = a
      BY <1>2, <1>5, AloneFacts DEF Labels
    <2> QED
      BY <1>1, <1>2, <1>3, <1>4, <2>1 DEF Progress, Alone, Active, AgentIP, ProxyIP
  <1>6. CASE ~ok
    <2>1. call'[c].pc = "err" /\ call'[c].a = a
      BY <1>2, <1>6, AloneFacts
    <2> QED
      BY <1>2, <1>3, <1>4, <1>6, <2>1 DEF Progress, Alone
  <1> QED
    BY <1>5, <1>6

LEMMA RouteProgress ==
  ASSUME Inv, NEW c \in Callers, Alone(c), RegenerateRouting(c)
  PROVE  late' = {} /\ boot'.at = "up" /\ Progress(c)'
  <1> DEFINE a == call[c].a
  <1>1. call[c].pc = "route" /\ a \in Active /\ a \in Agents
    BY DEF RegenerateRouting, At, Progress, Alone, Active
  <1>2. /\ route' = [b \in Agents |-> IF b \in Active THEN "loopback" ELSE "none"]
        /\ Goto(c, "deploy")
        /\ UNCHANGED <<param, unit, wanted, agentAt, proxyAt, net, ghosts, boot, late>>
    BY AloneFacts DEF RegenerateRouting, Alone
  <1>3. call'[c].pc = "deploy" /\ call'[c].a = a /\ route'[a] = "loopback"
    BY <1>1, <1>2, AloneFacts DEF Labels
  <1> QED
    BY <1>1, <1>2, <1>3 DEF Progress, Alone, Active

LEMMA DeployProgress ==
  ASSUME Inv, NEW c \in Callers, Alone(c), RunDeploy(c)
  PROVE  late' = {} /\ boot'.at = "up" /\ Progress(c)'
  <1> DEFINE a == call[c].a
  <1>1. /\ call[c].pc = "deploy" /\ a \in Active /\ a \in Agents
        /\ net[a] = "static" /\ unit[a] = "engine" /\ agentAt[a] # ProxyIP /\ route[a] = "loopback"
    BY DEF RunDeploy, At, Progress, Alone, Active
  <1>2. param[a] # "none"
    BY <1>1 DEF Active
  <1>3. PICK ok \in BOOLEAN :
           /\ Job("deploy", a, ok)
           /\ ok => Succeed(c)
           /\ UNCHANGED <<late, param, boot>>
    BY <1>2, AloneFacts DEF RunDeploy, Command
  <1>4. DeployJob(a, ok)
    BY <1>3 DEF Job
  <1>5. /\ proxyAt' = [proxyAt EXCEPT ![a] = ProxyIP]
        /\ Restart(a, [proxyAt EXCEPT ![a] = ProxyIP], ok)
        /\ UNCHANGED <<unit, net, ghosts, route>>
    BY <1>1, <1>4, AloneFacts DEF DeployJob
  <1>6. proxyAt'[a] = ProxyIP /\ [proxyAt EXCEPT ![a] = ProxyIP][a] = ProxyIP
    BY <1>1, <1>5 DEF Inv, HostInv
  <1>7. agentAt'[a] = AgentIP /\ ok
    <2> DEFINE p == [proxyAt EXCEPT ![a] = ProxyIP]
    <2>1. Restart(a, p, ok) /\ p[a] = ProxyIP
      BY <1>5, <1>6
    <2> HIDE DEF p
    <2>2. /\ agentAt'[a] = IF p[a] = AgentIP THEN 0 ELSE AgentIP
          /\ ~ok => p[a] = AgentIP
      BY <1>1, <2>1, AloneFacts, RestartEngine
    <2> QED
      BY <2>1, <2>2 DEF AgentIP, ProxyIP
  <1>8. call'[c].pc = "ok" /\ call'[c].a = a
    BY <1>3, <1>7, AloneFacts DEF Succeed, Alone, Labels
  <1> QED
    BY <1>1, <1>3, <1>5, <1>6, <1>7, <1>8 DEF Progress, Alone, Active, Serving

\* a step of the refresh itself: at any label it can be at
LEMMA StepProgress ==
  ASSUME Inv, NEW c \in Callers, Alone(c), Step(c), call'[c].op = "refresh"
  PROVE  late' = {} /\ boot'.at = "up" /\ Progress(c)'
  <1>1. OnPath(call[c]) /\ call[c].op = "refresh"
    BY FrameFacts DEF Alone
  <1>2. call[c].pc \notin {"put", "unregister", "mark", "rollback", "look", "list", "each",
                          "infra", "halt", "remove", "cycle"}
    BY <1>1 DEF OnPath
  <1>3. ~Return(c)
    <2>1. Return(c) => call'[c] = Idle
      BY FrameFacts DEF Return, FramesInv
    <2>2. Idle.op = "none"
      BY DEF Idle
    <2> QED
      BY <2>1, <2>2
  <1>4. \/ ReadForRefresh(c) \/ WriteConfig(c) \/ PrepareNetwork(c) \/ CommitNetwork(c)
        \/ CreateNetwork(c) \/ DefineService(c) \/ StartService(c) \/ RegenerateRouting(c)
        \/ RunDeploy(c)
    BY <1>2, <1>3
       DEF Step, At, PutParameter, DeleteParameter, SetAgentPaused, Rollback, ResolveAgent,
           ListAgents, TakeNext, RunInfra, RunHalt, RunRemove, StopAndStart
  <1> QED
    BY <1>4, PrepareProgress, StartProgress, RouteProgress, DeployProgress

\* what systemd does beside it
LEMMA EnvironmentProgress ==
  ASSUME Inv, NEW c \in Callers, Alone(c), Environment, call'[c] = call[c]
  PROVE  late' = {} /\ boot'.at = "up" /\ Progress(c)'
  <1> DEFINE a == call[c].a
  <1>1. \A k : ~Fault(k)
    BY AloneFacts
  <1>2. \E b \in Agents : Retry(b) \/ GiveUp(b)
    <2>1. ~BootClear /\ ~BootSetup /\ ~BootStart /\ ~LateCommand
      BY DEF BootClear, BootSetup, BootStart, LateCommand, Alone
    <2> QED
      BY <1>1, <2>1 DEF Environment, Reboot, Crash
  <1>3. PICK b \in Agents : Retry(b) \/ GiveUp(b)
    BY <1>2
  <1>4. CASE GiveUp(b)
    BY <1>4 DEF GiveUp, Progress, Alone, Active, Serving
  <1>5. CASE Retry(b)
    <2>1. /\ agentAt[b] = 0
          /\ agentAt' = [d \in Agents |-> IF d \in {b} THEN AddressOf(unit[d], net[d], proxyAt[d]) ELSE agentAt[d]]
          /\ UNCHANGED <<param, unit, proxyAt, net, ghosts, route, boot, late>>
      BY <1>5 DEF Retry, Started
    <2>2. call[c].pc \in {"route", "deploy", "ok"} => a \in Agents
      BY DEF Alone, Progress, Active
    <2>3. call[c].pc \in {"route", "deploy"} => agentAt'[a] # ProxyIP
      BY <2>1, <2>2 DEF Alone, Progress, AddressOf, AgentIP, ProxyIP
    <2>4. call[c].pc = "ok" => agentAt'[a] = AgentIP
      BY <2>1, <2>2 DEF Alone, Progress, Serving, AgentIP
    <2> QED
      BY <2>1, <2>3, <2>4 DEF Progress, Alone, Active, Serving
  <1> QED
    BY <1>3, <1>4, <1>5

\* no two calls are under way at once
OneCaller == \A c, d \in Callers : c = d

LEMMA RepairStep ==
  ASSUME OneCaller, Inv, SinceInv, RepairInv, [Next]_vars
  PROVE  SinceInv' /\ RepairInv'
  <1>1. CASE UNCHANGED vars
    BY <1>1 DEF vars, SinceInv, RepairInv, Progress, Serving, Active
  <1>2. CASE Next
    <2>1. SinceInv' /\ faults' \in {faults, faults + 1}
      BY <1>2, SinceStep
    <2>2. faults \in 0 .. MaxFaults /\ faults' \in 0 .. MaxFaults /\ MaxFaults \in Nat
      BY <1>2, InvStep, HostFaultsAssumption DEF Inv, RestInv
    <2>3. SUFFICES ASSUME NEW c \in Callers, call'[c].op = "refresh", call'[c].since = faults'
                   PROVE  late' = {} /\ boot'.at = "up" /\ Progress(c)'
      BY <2>1 DEF RepairInv
    <2>4. ASSUME call[c].op = "refresh", call[c].since = call'[c].since
          PROVE  Alone(c)
      <3>1. faults' = faults
        BY <2>1, <2>2, <2>3, <2>4 DEF SinceInv
      <3> QED
        BY <2>3, <2>4, <3>1 DEF RepairInv, Alone
    <2>5. CASE Request(c)
      <3>1. late = {} /\ boot.at = "up" /\ UNCHANGED <<late, boot>>
        BY <2>2, <2>3, <2>5, RequestBegins
      <3>2. call'[c].pc = "read"
        BY <2>3, <2>5, RequestBegins
      <3> QED
        BY <3>1, <3>2 DEF Progress
    <2>6. Idle.op = "none"
      BY DEF Idle
    <2>7. CASE Step(c)
      BY <2>3, <2>4, <2>6, <2>7, StepCarries, StepProgress DEF Carries
    <2>8. CASE Environment /\ call'[c] = call[c]
      BY <2>3, <2>4, <2>8, EnvironmentProgress
    <2>9. ~Crash(c)
      <3>1. Crash(c) => call'[c] = Idle
        BY FrameFacts DEF Crash, FramesInv
      <3> QED
        BY <2>3, <2>6, <3>1
    <2> QED
      BY <1>2, <2>5, <2>7, <2>8, <2>9, FrameSteps DEF Next, OneCaller
  <1> QED
    BY <1>1, <1>2

\* RefreshAgent: with one caller at a time, a refresh in which nothing fails brings an active
\* agent into service, whatever earlier calls, faults, restarts and late commands left behind,
\* and gives up only for the reasons RefreshRepairs lists.
THEOREM UndisturbedRefreshRepairs ==
  ASSUME OneCaller
  PROVE  Spec => []RefreshRepairs
  <1>1. Init => SinceInv /\ RepairInv
    BY DEF Init, SinceInv, RepairInv, Idle
  <1>2. Inv /\ SinceInv /\ RepairInv /\ [Next]_vars => (SinceInv /\ RepairInv)'
    BY RepairStep
  <1>3. RepairInv => RefreshRepairs
    <2> SUFFICES ASSUME RepairInv, NEW c \in Callers,
                        call[c].op = "refresh", call[c].pc \in {"ok", "err"}, Undisturbed(c)
                 PROVE  LET a == call[c].a
                        IN  \/ At(c, "ok") /\ Serving(a)
                            \/ /\ At(c, "err")
                               /\ \/ a \notin Active
                                  \/ net[a] = "auto" /\ a \in ghosts
                                  \/ proxyAt[a] = AgentIP
      BY DEF RefreshRepairs
    <2>1. Progress(c)
      BY DEF RepairInv, Undisturbed
    <2> QED
      BY <2>1 DEF Progress, At
  <1> QED
    BY <1>1, <1>2, <1>3, InvAlways, PTL DEF Spec

================================================================================
