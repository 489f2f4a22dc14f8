--------------------------- MODULE LocalAgentsProofs ---------------------------
(***************************************************************************)
(* Proofs about LocalAgents, for every set of agents, callers and channel  *)
(* IDs and every kind and number of faults.                                *)
(***************************************************************************)
EXTENDS LocalAgents, TLAPS

\* A frame whose next steps lead to docker run names an agent and holds a port
\* that was read from its record or chosen: it is what keeps the port of a
\* running container above 0 and networks to those of agents.
NeedsPort(f) ==
    \/ f.pc \in {"save", "prep", "net", "proxy", "run"}
    \/ f.pc \in {"unfilter", "stop", "rm", "unproxy"} /\ f.op \notin {"remove", "pause", "teardown"}
    \/ f.pc = "netrm" /\ f.op \notin {"remove", "teardown"}

Aimed(f) == f.a \in Agents /\ f.snap.port # 0

HasPort == \A c \in Callers : NeedsPort(call[c]) => Aimed(call[c])

Inv == TypeOK /\ HasPort

\* The frame of a caller after it goes to a label.
LEMMA GotoFrames ==
    ASSUME FramesOK, NEW c \in Callers, NEW l \in Labels, Goto(c, l)
    PROVE  /\ FramesOK'
           /\ call'[c].op = call[c].op
           /\ call'[c].a = call[c].a
           /\ call'[c].snap = call[c].snap
           /\ call'[c].pc = l
           /\ \A d \in Callers \ {c} : call'[d] = call[d]
BY DEF FramesOK, Goto, Frame

\* The frame of a caller after a step failed.
LEMMA FailFrames ==
    ASSUME FramesOK, NEW c \in Callers, NEW l \in Labels, Fail(c, l)
    PROVE  /\ FramesOK'
           /\ call'[c].op = call[c].op
           /\ call'[c].a = call[c].a
           /\ call'[c].snap = call[c].snap
           /\ call'[c].pc \in {l, "each", "err"}
           /\ \A d \in Callers \ {c} : call'[d] = call[d]
<1>1. CASE call[c].op \in Collecting
  <2>1. call' = [call EXCEPT ![c].pc = l, ![c].errs = TRUE]
    BY <1>1 DEF Fail
  <2>. QED  BY <2>1 DEF FramesOK, Frame
<1>2. CASE call[c].op \notin Collecting
  <2>1. PICK m \in {l, "each", "err"} : call' = [call EXCEPT ![c].pc = m, ![c].errs = @]
    BY <1>2 DEF Fail
  <2>2. m \in Labels
    BY DEF Labels
  <2>. QED  BY <2>1, <2>2 DEF FramesOK, Frame
<1>. QED  BY <1>1, <1>2

\* Counting a fault stays within the bound.
LEMMA FaultCount ==
    ASSUME faults \in 0 .. MaxFaults, NEW k, Fault(k)
    PROVE  faults' \in 0 .. MaxFaults
BY BoundAssumption DEF Fault

\* Taking containers down keeps the host well typed and coupled.
LEMMA DownHost ==
    ASSUME HostOK, HostCoupled, NEW S, NEW st \in {"absent", "stopped"},
           Down(S, st), proxy' \in [Agents -> ContainerState], net' \subseteq Agents
    PROVE  HostOK' /\ HostCoupled'
BY BoundAssumption DEF HostOK, HostCoupled, Down, LoseAddress, ContainerState

\* What leaves the files, the host or the fault counter alone keeps their parts
\* of the invariant; and the frames of the other callers are untouched.
LEMMA FilesKept == ASSUME FilesOK, UNCHANGED <<rec, routing, given>> PROVE FilesOK'
BY DEF FilesOK

\* The same for the host.
LEMMA HostKept ==
    ASSUME HostOK, HostCoupled, UNCHANGED host
    PROVE  HostOK' /\ HostCoupled'
BY DEF HostOK, HostCoupled, host

\* The same for the port a caller is about to use, if its frame is unchanged.
LEMMA PortKept ==
    ASSUME HasPort, NEW c \in Callers,
           \A d \in Callers \ {c} : call'[d] = call[d],
           NeedsPort(call'[c]) => Aimed(call'[c])
    PROVE  HasPort'
BY DEF HasPort

\* The frame of a call that begins.
LEMMA BeginKept ==
    ASSUME Inv, NEW c \in Callers, NEW op \in Ops, NEW l \in Labels,
           NEW a \in Agents \cup {0}, NEW snap \in Snapshot, Begin(c, op, l, a, snap),
           l \in {"unfilter", "read", "reread", "list"} \/ (a \in Agents /\ snap.port # 0),
           l = "unfilter" => op = "remove", given' \subseteq Agents
    PROVE  Inv'
<1>. DEFINE f == [Idle EXCEPT !.op = op, !.pc = l, !.a = a, !.snap = snap]
<1>1. f \in Frame
  BY DEF Frame, Idle
<1>2. call' = [call EXCEPT ![c] = f]
  BY DEF Begin
<1>3. FramesOK'
  BY <1>1, <1>2 DEF Inv, TypeOK, FramesOK
<1>4. call'[c] = f /\ \A d \in Callers \ {c} : call'[d] = call[d]
  BY <1>2 DEF Inv, TypeOK, FramesOK
<1>5. NeedsPort(f) => Aimed(f)
  BY DEF NeedsPort, Aimed, Idle
<1>6. HasPort'
  BY <1>4, <1>5, PortKept DEF Inv
<1>7. FilesOK'
  BY DEF Inv, TypeOK, FilesOK, Begin
<1>. QED  BY <1>3, <1>6, <1>7, HostKept DEF Inv, TypeOK, Begin

\* Labels before which no port is needed, whatever the method.
Quiet == {"idle", "read", "reread", "filter", "delete", "route", "reroute", "list",
          "halt", "each", "sweep", "wipe", "ok", "err"}

\* A step that moves on to a label that needs no port keeps the frames.
LEMMA GotoKept ==
    ASSUME FramesOK, HasPort, NEW c \in Callers, NEW l \in Labels, Goto(c, l),
           l \in Quiet \/ (NeedsPort([call[c] EXCEPT !.pc = l]) => Aimed(call[c]))
    PROVE  FramesOK' /\ HasPort'
<1>1. NeedsPort(call'[c]) => Aimed(call'[c])
  BY GotoFrames DEF NeedsPort, Aimed, Quiet, FramesOK, Frame
<1>. QED  BY <1>1, GotoFrames, PortKept

\* A failed step that goes on to a label that needs no port keeps the frames.
LEMMA FailKept ==
    ASSUME FramesOK, HasPort, NEW c \in Callers, NEW l \in Labels, Fail(c, l),
           l \in Quiet \/ (NeedsPort([call[c] EXCEPT !.pc = l]) => Aimed(call[c]))
    PROVE  FramesOK' /\ HasPort'
<1>1. NeedsPort(call'[c]) => Aimed(call'[c])
  BY FailFrames DEF NeedsPort, Aimed, Quiet, FramesOK, Frame
<1>. QED  BY <1>1, FailFrames, PortKept

\* A step that loads a snapshot of a record keeps the frames.
LEMMA LoadKept ==
    ASSUME FramesOK, HasPort, NEW c \in Callers, NEW r \in Snapshot, NEW l \in Labels,
           r.port # 0, call[c].a \in Agents, call' = [call EXCEPT ![c].snap = r, ![c].pc = l]
    PROVE  FramesOK' /\ HasPort'
<1>1. FramesOK' /\ call'[c].snap = r /\ call'[c].a = call[c].a /\ \A d \in Callers \ {c} : call'[d] = call[d]
  BY DEF FramesOK, Frame
<1>. QED  BY <1>1, PortKept DEF Aimed

\* A caller that is gone, or has returned, is idle.
LEMMA IdleKept ==
    ASSUME FramesOK, HasPort, NEW c \in Callers, call' = [call EXCEPT ![c] = Idle]
    PROVE  FramesOK' /\ HasPort'
<1>1. Idle \in Frame /\ ~NeedsPort(Idle)
  BY BoundAssumption DEF Idle, NoSnapshot, Snapshot, Frame, Ops, Labels, NeedsPort
<1>2. FramesOK' /\ call'[c] = Idle /\ \A d \in Callers \ {c} : call'[d] = call[d]
  BY <1>1 DEF FramesOK
<1>. QED  BY <1>1, <1>2, PortKept

\* GenerateRoutingJSON yields an entry per ID: for nobody, or for an agent that
\* is bound to it, with the port of its record.
LEMMA RoutingType ==
    ASSUME FilesOK
    PROVE  RoutingOf(rec) \in [IDs -> [agent : Agents \cup {0}, port : 0 .. MaxPort]]
<1>1. ASSUME NEW S \in SUBSET {a \in Agents : rec[a] \in Record}
      PROVE  Entry(rec, S) \in [agent : Agents \cup {0}, port : 0 .. MaxPort]
  <2>1. CASE S = {}
    BY <2>1, BoundAssumption DEF Entry, Unrouted
  <2>2. CASE S # {}
    <3>. DEFINE a == CHOOSE a \in S : TRUE
    <3>1. a \in Agents /\ rec[a].port \in 0 .. MaxPort
      BY <2>2, BoundAssumption DEF Record
    <3>. QED  BY <2>2, <3>1 DEF Entry
  <2>. QED  BY <2>1, <2>2
<1>. QED  BY <1>1 DEF RoutingOf

(* The invariant is inductive: one lemma per group of actions. *)

\* Every method call keeps the invariant.
LEMMA RequestKept ==
    ASSUME Inv, NEW c \in Callers, Request(c)
    PROVE  Inv'
<1>0. NoSnapshot \in Snapshot /\ 0 \in Agents \cup {0} /\ given \subseteq Agents
  BY BoundAssumption DEF NoSnapshot, Snapshot, Inv, TypeOK, FilesOK
<1>1. CASE \E a \in Agents, id \in IDs \cup {NoID} : ProvisionAgent(c, a, id)
  <2>0. PICK a \in Agents, id \in IDs \cup {NoID} : ProvisionAgent(c, a, id)
    BY <1>1
  <2>1. PICK p \in 1 .. MaxPort :
           /\ Begin(c, "provision", "save", a, [paused |-> FALSE, port |-> p, id |-> id])
           /\ given' \in {given, given \cup {a}}
    BY <2>0 DEF ProvisionAgent
  <2>2. [paused |-> FALSE, port |-> p, id |-> id] \in Snapshot /\ p # 0
    BY <2>0, <2>1, BoundAssumption DEF Snapshot
  <2>3. given' \subseteq Agents
    BY <2>0, <2>1 DEF Inv, TypeOK, FilesOK
  <2>. QED  BY <2>0, <2>1, <2>2, <2>3, BeginKept DEF Ops, Labels
<1>2. CASE \E a \in Agents : \/ RemoveAgent(c, a) \/ PauseAgent(c, a)
                               \/ UnpauseAgent(c, a) \/ RefreshAgent(c, a)
  BY <1>0, <1>2, BeginKept DEF RemoveAgent, PauseAgent, UnpauseAgent, RefreshAgent, Ops, Labels
<1>3. CASE RefreshAll(c) \/ CycleHost(c) \/ Teardown(c)
  BY <1>0, <1>3, BeginKept DEF RefreshAll, CycleHost, Teardown, Ops, Labels
<1>. QED  BY <1>1, <1>2, <1>3 DEF Request

\* Steps that change the caller's frame only.
LEMMA ReadStepKept ==
    ASSUME Inv, NEW c \in Callers,
           \/ ReadRecord(c) \/ ReadForRefresh(c) \/ ListAgents(c) \/ TakeNext(c) \/ Return(c)
    PROVE  Inv'
<1>. USE DEF Inv, TypeOK
<1>0. FilesOK' /\ HostOK' /\ HostCoupled' /\ faults' \in 0 .. MaxFaults
  BY FilesKept, HostKept DEF ReadRecord, ReadForRefresh, ListAgents, TakeNext, Return
<1>1. \A a \in Listed : /\ rec[a] \in Record
                         /\ rec[a] \in Snapshot /\ rec[a].port # 0
                         /\ \A flag \in BOOLEAN :
                               /\ [rec[a] EXCEPT !.paused = flag] \in Snapshot
                               /\ [rec[a] EXCEPT !.paused = flag].port # 0
  BY BoundAssumption DEF Listed, Readable, Record, Snapshot
<1>2. CASE ReadRecord(c)
  <2>. DEFINE a == call[c].a
  <2>1. CASE Goto(c, "err") \/ Goto(c, "ok")
    BY <1>0, <2>1, GotoKept DEF Labels, Quiet
  <2>2. CASE /\ a \in Listed
             /\ call' = [call EXCEPT ![c].snap = [rec[a] EXCEPT !.paused = (call[c].op = "pause")],
                                     ![c].pc = "save"]
    <3>1. PICK r \in Snapshot : r.port # 0 /\ call' = [call EXCEPT ![c].snap = r, ![c].pc = "save"]
      BY <1>1, <2>2
    <3>. QED  BY <1>0, <2>2, <3>1, LoadKept DEF Labels, Listed
  <2>. QED  BY <1>2, <2>1, <2>2 DEF ReadRecord
<1>3. CASE ReadForRefresh(c)
  <2>. DEFINE a == call[c].a
  <2>1. CASE Fail(c, "err")
    BY <1>0, <2>1, FailKept DEF Labels, Quiet
  <2>2. CASE a \in Active /\ call' = [call EXCEPT ![c].snap = rec[a], ![c].pc = "prep"]
    <3>1. PICK r \in Snapshot : r.port # 0 /\ call' = [call EXCEPT ![c].snap = r, ![c].pc = "prep"]
      BY <1>1, <2>2 DEF Active
    <3>. QED  BY <1>0, <2>2, <3>1, LoadKept DEF Labels, Active, Listed
  <2>. QED  BY <1>3, <2>1, <2>2 DEF ReadForRefresh
<1>4. CASE ListAgents(c)
  <2>1. PICK S \in SUBSET Agents, l \in {"halt", "each"} :
           call' = [call EXCEPT ![c].todo = S, ![c].pc = l]
    <3>1. Active \in SUBSET Agents /\ Listed \in SUBSET Agents
      BY DEF Active, Listed
    <3>. QED  BY <1>4, <3>1 DEF ListAgents
  <2>2. FramesOK' /\ \A d \in Callers \ {c} : call'[d] = call[d]
    <3>. DEFINE f == [call[c] EXCEPT !.todo = S, !.pc = l]
    <3>1. f \in Frame
      BY <2>1 DEF FramesOK, Frame, Labels
    <3>2. call' = [call EXCEPT ![c] = f]
      BY <2>1
    <3>. QED  BY <3>1, <3>2 DEF FramesOK
  <2>3. ~NeedsPort(call'[c])
    BY <2>1 DEF FramesOK, Frame, NeedsPort
  <2>. QED  BY <1>0, <2>2, <2>3, PortKept
<1>5. CASE TakeNext(c)
  <2>1. CASE Goto(c, "sweep") \/ Goto(c, "ok")
    BY <1>0, <2>1, GotoKept DEF Labels, Quiet
  <2>2. CASE \E a \in call[c].todo, l \in {"unfilter", "reread"} :
                /\ l = "unfilter" => call[c].op = "teardown"
                /\ call' = [call EXCEPT ![c].a = a, ![c].todo = @ \ {a}, ![c].pc = l]
    <3>1. FramesOK' /\ \A d \in Callers \ {c} : call'[d] = call[d]
      BY <2>2 DEF FramesOK, Frame, Labels
    <3>2. ~NeedsPort(call'[c])
      BY <2>2 DEF FramesOK, Frame, NeedsPort
    <3>. QED  BY <1>0, <3>1, <3>2, PortKept
  <2>. QED  BY <1>5, <2>1, <2>2 DEF TakeNext
<1>6. CASE Return(c)
  BY <1>0, <1>6, IdleKept DEF Return
<1>. QED  BY <1>2, <1>3, <1>4, <1>5, <1>6

\* Steps on files.
LEMMA FileStepKept ==
    ASSUME Inv, NEW c \in Callers,
           \/ SaveRecord(c) \/ WriteFiles(c) \/ DeleteFiles(c) \/ Regenerate(c) \/ WipeData(c)
    PROVE  Inv'
<1>. USE DEF Inv, TypeOK
<1>0. HostOK' /\ HostCoupled'
  BY HostKept DEF SaveRecord, WriteFiles, DeleteFiles, Regenerate, WipeData
<1>1. faults' \in 0 .. MaxFaults
  BY FaultCount DEF SaveRecord, WriteFiles, DeleteFiles, Regenerate, WipeData, NoFault
<1>2. CASE SaveRecord(c)
  <2>1. call[c].pc = "save" /\ Aimed(call[c])
    BY <1>2 DEF SaveRecord, At, HasPort, NeedsPort
  <2>2. call[c].snap \in Record
    BY <2>1, BoundAssumption DEF Aimed, FramesOK, Frame, Snapshot, Record
  <2>3. FilesOK'
    BY <1>2, <2>2 DEF FilesOK, SaveRecord
  <2>4. CASE Goto(c, "prep") \/ Goto(c, "unfilter") \/ Goto(c, "reread") \/ Goto(c, "err")
    BY <1>0, <1>1, <2>1, <2>3, <2>4, GotoKept DEF Labels, Quiet
  <2>5. CASE call' = [call EXCEPT ![c] = Idle]
    BY <1>0, <1>1, <2>3, <2>5, IdleKept
  <2>. QED  BY <1>2, <2>4, <2>5 DEF SaveRecord
<1>3. CASE WriteFiles(c)
  <2>1. FilesOK' /\ Aimed(call[c])
    BY <1>3, FilesKept DEF WriteFiles, At, HasPort, NeedsPort
  <2>2. CASE Goto(c, "net") \/ Goto(c, "unfilter")
    BY <1>0, <1>1, <2>1, <2>2, GotoKept DEF Labels
  <2>3. CASE Fail(c, "err")
    BY <1>0, <1>1, <2>1, <2>3, FailKept DEF Labels, Quiet
  <2>. QED  BY <1>3, <2>2, <2>3 DEF WriteFiles
<1>4. CASE DeleteFiles(c)
  <2>1. FilesOK'
    BY <1>4 DEF FilesOK, DeleteFiles
  <2>. QED  BY <1>0, <1>1, <1>4, <2>1, GotoKept, FailKept DEF DeleteFiles, Labels, Quiet
<1>5. CASE Regenerate(c)
  <2>1. RoutingOf(rec) \in [IDs -> [agent : Agents \cup {0}, port : 0 .. MaxPort]]
    BY RoutingType
  <2>2. FilesOK'
    BY <1>5, <2>1 DEF FilesOK, Regenerate
  <2>. QED  BY <1>0, <1>1, <1>5, <2>2, GotoKept DEF Regenerate, Finish, Labels, Quiet
<1>6. CASE WipeData(c)
  <2>1. FilesOK'
    BY <1>6, BoundAssumption DEF FilesOK, WipeData, Unrouted
  <2>. QED  BY <1>0, <1>1, <1>6, <2>1, GotoKept DEF WipeData, Labels, Quiet
<1>. QED  BY <1>2, <1>3, <1>4, <1>5, <1>6

\* Steps on the host that take something down.
LEMMA StopStepKept ==
    ASSUME Inv, NEW c \in Callers,
           \/ RemoveRules(c) \/ StopAgent(c) \/ RemoveContainer(c) \/ StopProxy(c)
           \/ RemoveNetwork(c) \/ StopAll(c) \/ Sweep(c)
    PROVE  Inv'
<1>. USE DEF Inv, TypeOK
<1>0. FilesOK'
  BY FilesKept DEF RemoveRules, StopAgent, RemoveContainer, StopProxy, RemoveNetwork, StopAll, Sweep
<1>1. faults' \in 0 .. MaxFaults
  BY FaultCount DEF RemoveRules, StopAgent, RemoveContainer, StopProxy, RemoveNetwork,
                    StopAll, Sweep, NoFault
<1>. DEFINE a == call[c].a
            op == call[c].op
            Needs(l) == NeedsPort([call[c] EXCEPT !.pc = l]) => Aimed(call[c])
<1>2. CASE RemoveRules(c)
  <2>1. HostOK' /\ HostCoupled'
    BY <1>2 DEF HostOK, HostCoupled, RemoveRules
  <2>2. Needs("stop")
    BY <1>2 DEF RemoveRules, At, HasPort, NeedsPort, FramesOK, Frame
  <2>. QED  BY <1>0, <1>1, <1>2, <2>1, <2>2, GotoKept DEF RemoveRules, Labels
<1>3. CASE StopAgent(c)
  <2>1. HostOK' /\ HostCoupled'
    <3>1. CASE Down({a}, "stopped")
      BY <1>3, <3>1, DownHost DEF StopAgent, HostOK
    <3>2. CASE UNCHANGED <<ctr, pub, rules, stale>>
      BY <1>3, <3>2, HostKept DEF StopAgent, host
    <3>. QED  BY <1>3, <3>1, <3>2 DEF StopAgent
  <2>2. Needs("rm") /\ (op = "provision" => Needs("run")) /\ (op # "provision" => Needs("unproxy"))
    BY <1>3 DEF StopAgent, At, HasPort, NeedsPort, FramesOK, Frame
  <2>3. CASE Goto(c, "rm") \/ Goto(c, IF op = "provision" THEN "run" ELSE "unproxy")
    BY <1>0, <1>1, <2>1, <2>2, <2>3, GotoKept DEF Labels
  <2>4. CASE Fail(c, "rm")
    BY <1>0, <1>1, <2>1, <2>2, <2>4, FailKept DEF Labels
  <2>. QED  BY <1>3, <2>3, <2>4 DEF StopAgent
<1>4. CASE RemoveContainer(c)
  <2>1. HostOK' /\ HostCoupled'
    <3>1. CASE Down({a}, "absent")
      BY <1>4, <3>1, DownHost DEF RemoveContainer, HostOK
    <3>2. CASE UNCHANGED <<ctr, pub, rules, stale>>
      BY <1>4, <3>2, HostKept DEF RemoveContainer, host
    <3>. QED  BY <1>4, <3>1, <3>2 DEF RemoveContainer
  <2>2. (op = "provision" => Needs("run")) /\ (op # "provision" => Needs("unproxy"))
    BY <1>4 DEF RemoveContainer, At, HasPort, NeedsPort, FramesOK, Frame
  <2>3. CASE Goto(c, IF op = "provision" THEN "run" ELSE "unproxy")
    BY <1>0, <1>1, <2>1, <2>2, <2>3, GotoKept DEF Labels
  <2>4. CASE Fail(c, IF op = "provision" THEN "run" ELSE "unproxy")
    BY <1>0, <1>1, <2>1, <2>2, <2>4, FailKept DEF Labels
  <2>. QED  BY <1>4, <2>3, <2>4 DEF RemoveContainer
<1>5. CASE StopProxy(c)
  <2>1. HostOK' /\ HostCoupled'
    BY <1>5 DEF HostOK, HostCoupled, StopProxy, ContainerState
  <2>2. op # "pause" => Needs("netrm")
    BY <1>5 DEF StopProxy, At, HasPort, NeedsPort, FramesOK, Frame
  <2>. QED  BY <1>0, <1>1, <1>5, <2>1, <2>2, GotoKept DEF StopProxy, Labels, Quiet
<1>6. CASE RemoveNetwork(c)
  <2>. DEFINE next == IF op = "remove" THEN "delete" ELSE IF op = "teardown" THEN "each" ELSE "net"
  <2>1. HostOK' /\ HostCoupled'
    BY <1>6 DEF HostOK, HostCoupled, RemoveNetwork
  <2>2. next \in Labels /\ (next \in Quiet \/ Needs(next))
    BY <1>6 DEF RemoveNetwork, At, HasPort, NeedsPort, FramesOK, Frame, Labels, Quiet
  <2>3. CASE Goto(c, next)
    <3>. HIDE DEF next
    <3>. QED  BY <1>0, <1>1, <2>1, <2>2, <2>3, GotoKept
  <2>4. CASE Fail(c, next)
    <3>. HIDE DEF next
    <3>. QED  BY <1>0, <1>1, <2>1, <2>2, <2>4, FailKept
  <2>. QED  BY <1>6, <2>3, <2>4 DEF RemoveNetwork
<1>7. CASE StopAll(c)
  <2>1. PICK S : Down(S, "stopped")
    BY <1>7 DEF StopAll
  <2>2. HostOK' /\ HostCoupled'
    BY <1>7, <2>1, DownHost DEF StopAll, HostOK
  <2>. QED  BY <1>0, <1>1, <1>7, <2>2, GotoKept DEF StopAll, Labels, Quiet
<1>8. CASE Sweep(c)
  <2>1. PICK S : /\ Down(S, "absent")
                 /\ proxy' \in [Agents -> ContainerState]
                 /\ net' \subseteq Agents
    BY <1>8 DEF Sweep, HostOK, ContainerState
  <2>2. HostOK' /\ HostCoupled'
    BY <2>1, DownHost
  <2>. QED  BY <1>0, <1>1, <1>8, <2>2, GotoKept DEF Sweep, Labels, Quiet
<1>. QED  BY <1>2, <1>3, <1>4, <1>5, <1>6, <1>7, <1>8

\* Steps on the host that bring something up.
LEMMA StartStepKept ==
    ASSUME Inv, NEW c \in Callers,
           CreateNetwork(c) \/ StartProxy(c) \/ RunAgent(c) \/ AddRules(c)
    PROVE  Inv'
<1>. USE DEF Inv, TypeOK
<1>0. FilesOK'
  BY FilesKept DEF CreateNetwork, StartProxy, RunAgent, AddRules
<1>1. faults' \in 0 .. MaxFaults
  BY FaultCount DEF CreateNetwork, StartProxy, RunAgent, AddRules, NoFault
<1>. DEFINE a == call[c].a
<1>3. CASE CreateNetwork(c)
  <2>1. Aimed(call[c])
    BY <1>3 DEF CreateNetwork, At, HasPort, NeedsPort
  <2>2. HostOK' /\ HostCoupled'
    BY <1>3, <2>1 DEF HostOK, HostCoupled, CreateNetwork, Aimed
  <2>. QED  BY <1>0, <1>1, <1>3, <2>1, <2>2, GotoKept, FailKept DEF CreateNetwork, Labels, Quiet
<1>4. CASE StartProxy(c)
  <2>1. Aimed(call[c])
    BY <1>4 DEF StartProxy, At, HasPort, NeedsPort
  <2>2. HostOK' /\ HostCoupled'
    BY <1>4, <2>1 DEF HostOK, HostCoupled, StartProxy, Aimed, ContainerState
  <2>3. CASE Goto(c, "stop") \/ Goto(c, "run")
    BY <1>0, <1>1, <2>1, <2>2, <2>3, GotoKept DEF Labels
  <2>4. CASE Fail(c, "err")
    BY <1>0, <1>1, <2>2, <2>4, FailKept DEF Labels, Quiet
  <2>. QED  BY <1>4, <2>3, <2>4 DEF StartProxy
<1>5. CASE RunAgent(c)
  <2>. DEFINE p == call[c].snap.port
  <2>1. Aimed(call[c]) /\ p \in 0 .. MaxPort /\ p # 0
    BY <1>5 DEF RunAgent, At, HasPort, NeedsPort, Aimed, FramesOK, Frame, Snapshot
  <2>2. CASE /\ ctr' = [ctr EXCEPT ![a] = "running"]
             /\ pub' = [pub EXCEPT ![a] = p]
             /\ \/ LoseAddress({a})
                \/ a \in stale /\ rules' = rules \cup {a} /\ stale' = stale \ {a}
             /\ Goto(c, "filter")
    <3>1. HostOK' /\ HostCoupled'
      BY <1>5, <2>1, <2>2 DEF RunAgent, HostOK, HostCoupled, LoseAddress, Aimed, ContainerState
    <3>. QED  BY <1>0, <1>1, <2>2, <3>1, GotoKept DEF Labels, Quiet
  <2>3. CASE /\ \E st \in {"absent", "stopped"} : Down({a}, st)
             /\ Fail(c, "err")
    <3>1. HostOK' /\ HostCoupled'
      BY <1>5, <2>3, DownHost DEF RunAgent, HostOK
    <3>. QED  BY <1>0, <1>1, <2>3, <3>1, FailKept DEF Labels, Quiet
  <2>4. CASE /\ UNCHANGED <<ctr, pub, rules, stale>>
             /\ Fail(c, "err")
    <3>1. HostOK' /\ HostCoupled'
      BY <1>5, <2>4, HostKept DEF RunAgent, host
    <3>. QED  BY <1>0, <1>1, <2>4, <3>1, FailKept DEF Labels, Quiet
  <2>. QED  BY <1>5, <2>2, <2>3, <2>4 DEF RunAgent
<1>6. CASE AddRules(c)
  <2>1. HostOK' /\ HostCoupled'
    BY <1>6 DEF HostOK, HostCoupled, AddRules
  <2>. QED  BY <1>0, <1>1, <1>6, <2>1, GotoKept DEF AddRules, Labels, Quiet
<1>. QED  BY <1>3, <1>4, <1>5, <1>6

\* What happens to the host and to the callers.
LEMMA EnvironmentKept ==
    ASSUME Inv, Environment
    PROVE  Inv'
<1>. USE DEF Inv, TypeOK
<1>1. ASSUME NEW a \in Agents, GetStatus(a) PROVE Inv'
  <2>1. FilesOK' /\ FramesOK' /\ HasPort' /\ faults' \in 0 .. MaxFaults
    BY <1>1 DEF GetStatus, FilesOK, FramesOK, HasPort
  <2>2. HostOK' /\ HostCoupled'
    BY <1>1 DEF GetStatus, HostOK, HostCoupled
  <2>. QED  BY <2>1, <2>2
<1>2. ASSUME NEW a \in Agents, AgentExits(a) PROVE Inv'
  <2>1. FilesOK' /\ FramesOK' /\ HasPort' /\ faults' \in 0 .. MaxFaults
    BY <1>2, FaultCount DEF AgentExits, FilesOK, FramesOK, HasPort
  <2>2. HostOK' /\ HostCoupled'
    BY <1>2, DownHost DEF AgentExits, HostOK
  <2>. QED  BY <2>1, <2>2
<1>3. ASSUME NEW c \in Callers, Crash(c) PROVE Inv'
  BY <1>3, FaultCount, FilesKept, HostKept, IdleKept DEF Crash
<1>4. ASSUME Reboot PROVE Inv'
  <2>1. FilesOK' /\ faults' \in 0 .. MaxFaults
    BY <1>4, FaultCount, FilesKept DEF Reboot
  <2>2. HostOK' /\ HostCoupled'
    BY <1>4, BoundAssumption DEF Reboot, HostOK, HostCoupled, ContainerState
  <2>3. Idle \in Frame /\ ~NeedsPort(Idle)
    BY BoundAssumption DEF Idle, NoSnapshot, Snapshot, Frame, Ops, Labels, NeedsPort
  <2>4. FramesOK' /\ HasPort'
    BY <1>4, <2>3 DEF Reboot, FramesOK, HasPort
  <2>. QED  BY <2>1, <2>2, <2>4
<1>. QED  BY <1>1, <1>2, <1>3, <1>4 DEF Environment

\* The invariant holds initially.
LEMMA InvInit == Init => Inv
<1>. SUFFICES ASSUME Init PROVE Inv
  OBVIOUS
<1>1. Idle \in Frame /\ ~NeedsPort(Idle)
  BY BoundAssumption DEF Idle, NoSnapshot, Snapshot, Frame, Ops, Labels, NeedsPort
<1>2. FramesOK /\ HasPort
  BY <1>1 DEF Init, FramesOK, HasPort
<1>3. FilesOK /\ HostOK /\ HostCoupled /\ faults \in 0 .. MaxFaults
  BY BoundAssumption DEF Init, FilesOK, HostOK, HostCoupled, ContainerState, Unrouted
<1>. QED  BY <1>2, <1>3 DEF Inv, TypeOK

\* The invariant is inductive: every step of the specification keeps it.
LEMMA InvStep == Inv /\ [Next]_vars => Inv'
<1>. SUFFICES ASSUME Inv, [Next]_vars PROVE Inv'
  OBVIOUS
<1>1. ASSUME NEW c \in Callers, Request(c) PROVE Inv'
  BY <1>1, RequestKept
<1>2. ASSUME NEW c \in Callers, Step(c) PROVE Inv'
  BY <1>2, ReadStepKept, FileStepKept, StopStepKept, StartStepKept DEF Step
<1>3. ASSUME Environment PROVE Inv'
  BY <1>3, EnvironmentKept
<1>4. ASSUME UNCHANGED vars PROVE Inv'
  BY <1>4 DEF vars, Inv, TypeOK, FilesOK, HostOK, HostCoupled, FramesOK, HasPort
<1>. QED  BY <1>1, <1>2, <1>3, <1>4 DEF Next

\* The invariant holds in every reachable state: each variable keeps its type, a
\* container publishes a port exactly while it runs, and rules belong to running
\* containers, whatever the callers, the order of their steps and the faults.
THEOREM TypeCorrect == Spec => []TypeOK
<1>1. Inv => TypeOK
  BY DEF Inv
<1>. QED  BY <1>1, InvInit, InvStep, PTL DEF Spec

--------------------------------------------------------------------------------
(* One caller at a time: the records implement AgentRegistry. *)

OneCaller == \A c, d \in Callers : c = d

\* What a caller is about to save is decided by the records as they are now: the
\* port of a new agent is above all of them unless the operator named it, and the
\* record of a paused or unpaused one is the record on disk but for the flag.
Current(a, snap) ==
    \/ ~snap.paused /\ (a \in given \/ \A b \in Listed : rec[b].port < snap.port)
    \/ a \in Listed /\ \E flag \in BOOLEAN : snap = [rec[a] EXCEPT !.paused = flag]

SnapCurrent == \A c \in Callers : At(c, "save") => Current(call[c].a, call[c].snap)

RegistryInv == Inv /\ SnapCurrent /\ PortsDistinct

\* With one caller, a step after which it is not about to save keeps SnapCurrent.
LEMMA NotSaving ==
    ASSUME OneCaller, NEW c \in Callers, call'[c].pc # "save"
    PROVE  SnapCurrent'
BY DEF OneCaller, SnapCurrent, At

\* Only a provision request and ReadRecord lead up to SaveRecord.
LEMMA LeavesSave ==
    ASSUME Inv, NEW c \in Callers, Step(c), ~ReadRecord(c)
    PROVE  call'[c].pc # "save"
<1>. USE DEF Inv, TypeOK
<1>1. ASSUME NEW l, l # "save", l \in Labels, Goto(c, l) PROVE call'[c].pc # "save"
  BY <1>1, GotoFrames
<1>2. ASSUME NEW l, l # "save", l \in Labels, Fail(c, l) PROVE call'[c].pc # "save"
  BY <1>2, FailFrames
<1>3. ASSUME NEW r, NEW l, l # "save", call' = [call EXCEPT ![c].snap = r, ![c].pc = l]
      PROVE call'[c].pc # "save"
  BY <1>3 DEF FramesOK, Frame
<1>4. ASSUME NEW b, NEW x, NEW l, l # "save",
             call' = [call EXCEPT ![c].a = b, ![c].todo = x, ![c].pc = l]
      PROVE call'[c].pc # "save"
  BY <1>4 DEF FramesOK, Frame
<1>5. ASSUME call' = [call EXCEPT ![c] = Idle] PROVE call'[c].pc # "save"
  BY <1>5 DEF FramesOK, Idle
<1>6. CASE SaveRecord(c)
  BY <1>1, <1>5, <1>6 DEF SaveRecord, Labels
<1>7. CASE ReadForRefresh(c)
  BY <1>2, <1>3, <1>7 DEF ReadForRefresh, Labels
<1>8. CASE WriteFiles(c)
  BY <1>1, <1>2, <1>8 DEF WriteFiles, Labels
<1>9. CASE DeleteFiles(c)
  <2>1. Goto(c, "route") \/ Fail(c, "route")
    BY <1>9 DEF DeleteFiles
  <2>. QED  BY <1>1, <1>2, <2>1 DEF Labels
<1>10. CASE Regenerate(c)
  <2>1. PICK l \in {"reroute", "each", "ok", "err"} : Goto(c, l)
    BY <1>10 DEF Regenerate, Finish
  <2>. QED  BY <1>1, <2>1 DEF Labels
<1>11. CASE RemoveRules(c) \/ StopProxy(c) \/ AddRules(c) \/ StopAll(c) \/ Sweep(c) \/ WipeData(c)
  BY <1>1, <1>11 DEF RemoveRules, StopProxy, AddRules, StopAll, Sweep, WipeData, Labels
<1>12. CASE StopAgent(c)
  BY <1>1, <1>2, <1>12 DEF StopAgent, Labels
<1>13. CASE RemoveContainer(c)
  BY <1>1, <1>2, <1>13 DEF RemoveContainer, Labels
<1>14. CASE RemoveNetwork(c)
  BY <1>1, <1>2, <1>14 DEF RemoveNetwork, Labels
<1>15. CASE CreateNetwork(c)
  BY <1>1, <1>2, <1>15 DEF CreateNetwork, Labels
<1>16. CASE StartProxy(c)
  BY <1>1, <1>2, <1>16 DEF StartProxy, Labels
<1>17. CASE RunAgent(c)
  BY <1>1, <1>2, <1>17 DEF RunAgent, Labels
<1>18. CASE ListAgents(c)
  <2>. DEFINE S == IF call[c].op = "teardown" THEN Listed ELSE Active
              l == IF call[c].op = "cycle" THEN "halt" ELSE "each"
  <2>1. l # "save" /\ call' = [call EXCEPT ![c].todo = S, ![c].pc = l]
    BY <1>18 DEF ListAgents
  <2>. HIDE DEF S, l
  <2>. QED  BY <2>1 DEF FramesOK, Frame
<1>19. CASE TakeNext(c)
  <2>1. CASE Goto(c, "sweep") \/ Goto(c, "ok")
    BY <1>1, <2>1 DEF Labels
  <2>2. CASE \E a \in call[c].todo, l \in {"unfilter", "reread"} :
                call' = [call EXCEPT ![c].a = a, ![c].todo = @ \ {a}, ![c].pc = l]
    BY <1>4, <2>2
  <2>. QED  BY <1>19, <2>1, <2>2 DEF TakeNext
<1>20. CASE Return(c)
  BY <1>5, <1>20 DEF Return
<1>. QED  BY <1>6, <1>7, <1>8, <1>9, <1>10, <1>11, <1>12, <1>13, <1>14, <1>15, <1>16,
            <1>17, <1>18, <1>19, <1>20 DEF Step

\* The steps that write records.
LEMMA RegistryStep ==
    ASSUME OneCaller, RegistryInv, [Next]_vars
    PROVE  RegistryInv' /\ [Registry!Next]_<<rec, given>>
<1>. USE DEF RegistryInv
<1>1. Inv'
  BY InvStep
<1>2. ASSUME UNCHANGED <<rec, given>> PROVE PortsDistinct' /\ [Registry!Next]_<<rec, given>>
  BY <1>2 DEF PortsDistinct, Listed, Readable
<1>3. ASSUME NEW c \in Callers, Request(c)
      PROVE  SnapCurrent' /\ PortsDistinct' /\ [Registry!Next]_<<rec, given>>
  <2>0. call \in [Callers -> Frame]
    BY DEF Inv, TypeOK, FramesOK
  <2>1. CASE \E a \in Agents, id \in IDs \cup {NoID} : ProvisionAgent(c, a, id)
    <3>1. PICK a \in Agents, id \in IDs \cup {NoID}, p \in 1 .. MaxPort :
             /\ (NextPort(p) /\ UNCHANGED given) \/ given' = given \cup {a}
             /\ Begin(c, "provision", "save", a, [paused |-> FALSE, port |-> p, id |-> id])
      BY <2>1 DEF ProvisionAgent
    <3>2. /\ call'[c].snap = [paused |-> FALSE, port |-> p, id |-> id] /\ UNCHANGED rec
          /\ call'[c].a = a
      BY <2>0, <3>1 DEF Begin, Idle
    <3>3. a \in given' \/ \A b \in Listed' : rec'[b].port < call'[c].snap.port
      BY <3>1, <3>2 DEF NextPort, Listed, Readable
    <3>4. SnapCurrent'
      BY <3>2, <3>3 DEF OneCaller, SnapCurrent, Current
    <3>5. Registry!NamePort(a) \/ UNCHANGED <<rec, given>>
      BY <3>1, <3>2 DEF Registry!NamePort
    <3>6. PortsDistinct'
      BY <3>1, <3>2 DEF PortsDistinct, Listed, Readable
    <3>. QED  BY <3>4, <3>5, <3>6 DEF Registry!Next
  <2>2. CASE \/ \E a \in Agents : \/ RemoveAgent(c, a) \/ PauseAgent(c, a)
                                  \/ UnpauseAgent(c, a) \/ RefreshAgent(c, a)
             \/ RefreshAll(c) \/ CycleHost(c) \/ Teardown(c)
    <3>1. call'[c].pc # "save" /\ UNCHANGED <<rec, given>>
      BY <2>0, <2>2 DEF RemoveAgent, PauseAgent, UnpauseAgent, RefreshAgent, RefreshAll,
                        CycleHost, Teardown, Begin, Idle
    <3>. QED  BY <1>2, <3>1, NotSaving
  <2>. QED  BY <1>3, <2>1, <2>2 DEF Request
<1>4. ASSUME NEW c \in Callers, ReadRecord(c) PROVE SnapCurrent' /\ UNCHANGED <<rec, given>>
  <2>1. CASE Goto(c, "err") \/ Goto(c, "ok")
    <3>1. call'[c].pc # "save"
      BY <2>1, GotoFrames DEF Inv, TypeOK, Labels
    <3>. QED  BY <1>4, <3>1, NotSaving DEF ReadRecord
  <2>2. CASE /\ call[c].a \in Listed
             /\ call' = [call EXCEPT
                   ![c].snap = [rec[call[c].a] EXCEPT !.paused = (call[c].op = "pause")],
                   ![c].pc = "save"]
    <3>1. /\ call'[c].a = call[c].a
          /\ call'[c].snap = [rec[call[c].a] EXCEPT !.paused = (call[c].op = "pause")]
      BY <2>2 DEF Inv, TypeOK, FramesOK, Frame
    <3>2. UNCHANGED <<rec, given>> /\ Listed' = Listed
      BY <1>4 DEF ReadRecord, Listed, Readable
    <3>3. \E flag \in BOOLEAN : call'[c].snap = [rec'[call'[c].a] EXCEPT !.paused = flag]
      BY <3>1, <3>2
    <3>4. Current(call[c].a, call[c].snap)'
      <4>1. call'[c].a \in Listed'
        BY <2>2, <3>1, <3>2
      <4>. QED  BY <3>3, <4>1 DEF Current
    <3>. QED  BY <1>4, <3>2, <3>4 DEF OneCaller, SnapCurrent
  <2>. QED  BY <1>4, <2>1, <2>2 DEF ReadRecord
<1>5. ASSUME NEW c \in Callers, Step(c), ~ReadRecord(c) PROVE SnapCurrent'
  BY <1>5, LeavesSave, NotSaving
<1>6. ASSUME NEW c \in Callers, SaveRecord(c) PROVE PortsDistinct' /\ [Registry!Next]_<<rec, given>>
  <2>. DEFINE a == call[c].a
              snap == call[c].snap
  <2>0. UNCHANGED given
    BY <1>6 DEF SaveRecord
  <2>1. /\ a \in Agents /\ snap \in Record
        /\ rec \in [Agents -> Record \cup {NoRec, Torn}]
    BY <1>6, BoundAssumption DEF SaveRecord, At, Inv, TypeOK, FilesOK, HasPort, NeedsPort,
                                 Aimed, FramesOK, Frame, Snapshot, Record
  <2>2. CASE rec' = [rec EXCEPT ![a] = snap]
    <3>1. \A b \in Agents \ {a} : rec'[b] = rec[b]
      BY <2>1, <2>2
    <3>2. CASE ~snap.paused /\ (a \in given \/ \A b \in Listed : rec[b].port < snap.port)
      <4>1. PortsDistinct'
        BY <2>0, <2>1, <2>2, <3>1, <3>2, BoundAssumption DEF PortsDistinct, Listed, Readable, Record
      <4>2. snap = [paused |-> FALSE, port |-> snap.port, id |-> snap.id]
        BY <2>1, <3>2 DEF Record
      <4>3. Registry!Register(a, snap.port, snap.id)
        BY <2>0, <2>2, <3>2, <4>2 DEF Registry!Register, Registry!Listed, Registry!Record,
                                Listed, Readable, Record
      <4>. QED  BY <2>1, <4>1, <4>3 DEF Registry!Next, Record
    <3>3. CASE a \in Listed /\ \E flag \in BOOLEAN : snap = [rec[a] EXCEPT !.paused = flag]
      <4>1. PICK flag \in BOOLEAN : snap = [rec[a] EXCEPT !.paused = flag]
        BY <3>3
      <4>2. snap.port = rec[a].port
        BY <3>3, <4>1 DEF Listed, Readable, Record
      <4>3. PortsDistinct'
        BY <2>0, <2>1, <2>2, <3>1, <3>3, <4>2 DEF PortsDistinct, Listed, Readable
      <4>4. Registry!SetPaused(a, flag)
        BY <2>0, <2>2, <3>3, <4>1 DEF Registry!SetPaused, Registry!Listed, Registry!Record,
                                Listed, Readable, Record
      <4>. QED  BY <2>1, <4>1, <4>3, <4>4 DEF Registry!Next
    <3>. QED  BY <1>6, <3>2, <3>3 DEF SaveRecord, SnapCurrent, Current
  <2>3. CASE rec' = [rec EXCEPT ![a] = Torn]
    <3>1. PortsDistinct'
      BY <2>0, <2>1, <2>3, RecordAssumption DEF PortsDistinct, Listed, Readable
    <3>2. Registry!CutShort(a)
      BY <2>0, <2>3 DEF Registry!CutShort
    <3>. QED  BY <2>1, <3>1, <3>2 DEF Registry!Next
  <2>4. CASE UNCHANGED rec
    BY <1>2, <2>0, <2>4
  <2>. QED  BY <1>6, <2>2, <2>3, <2>4 DEF SaveRecord
<1>7. ASSUME NEW S \in SUBSET Agents, rec' = [a \in Agents |-> IF a \in S THEN NoRec ELSE rec[a]],
             UNCHANGED given
      PROVE  PortsDistinct' /\ [Registry!Next]_<<rec, given>>
  <2>1. PortsDistinct'
    BY <1>7, RecordAssumption DEF PortsDistinct, Listed, Readable
  <2>2. Registry!Delete(S)
    BY <1>7 DEF Registry!Delete
  <2>. QED  BY <2>1, <2>2 DEF Registry!Next
<1>8. ASSUME NEW c \in Callers, DeleteFiles(c) PROVE PortsDistinct' /\ [Registry!Next]_<<rec, given>>
  <2>1. CASE rec' = [rec EXCEPT ![call[c].a] = NoRec]
    <3>1. rec' = [a \in Agents |-> IF a \in {call[c].a} \cap Agents THEN NoRec ELSE rec[a]]
      BY <2>1 DEF Inv, TypeOK, FilesOK
    <3>. QED  BY <1>7, <1>8, <3>1 DEF DeleteFiles
  <2>2. CASE UNCHANGED rec
    BY <1>2, <1>8, <2>2 DEF DeleteFiles
  <2>. QED  BY <1>8, <2>1, <2>2 DEF DeleteFiles
<1>9. ASSUME NEW c \in Callers, WipeData(c) PROVE PortsDistinct' /\ [Registry!Next]_<<rec, given>>
  <2>1. CASE rec' = [a \in Agents |-> NoRec]
    <3>1. rec' = [a \in Agents |-> IF a \in Agents THEN NoRec ELSE rec[a]]
      BY <2>1
    <3>. QED  BY <1>7, <1>9, <3>1 DEF WipeData
  <2>2. CASE \E S \in SUBSET Agents : rec' = [a \in Agents |-> IF a \in S THEN NoRec ELSE rec[a]]
    BY <1>7, <1>9, <2>2 DEF WipeData
  <2>. QED  BY <1>9, <2>1, <2>2 DEF WipeData
<1>10. ASSUME NEW c \in Callers, Step(c), ~SaveRecord(c), ~DeleteFiles(c), ~WipeData(c)
       PROVE  UNCHANGED <<rec, given>>
  BY <1>10 DEF Step, ReadRecord, ReadForRefresh, WriteFiles, Regenerate, RemoveRules, StopAgent,
        RemoveContainer, StopProxy, RemoveNetwork, CreateNetwork, StartProxy, RunAgent, AddRules,
        ListAgents, StopAll, TakeNext, Sweep, Return
<1>11. ASSUME Environment PROVE SnapCurrent' /\ UNCHANGED <<rec, given>>
  <2>1. ASSUME NEW a \in Agents, GetStatus(a) \/ AgentExits(a) PROVE SnapCurrent' /\ UNCHANGED <<rec, given>>
    BY <2>1 DEF GetStatus, AgentExits, SnapCurrent, Current, At, Listed, Readable
  <2>2. ASSUME NEW c \in Callers, Crash(c) PROVE SnapCurrent' /\ UNCHANGED <<rec, given>>
    <3>1. call'[c].pc # "save"
      BY <2>2 DEF Crash, Idle, Inv, TypeOK, FramesOK
    <3>. QED  BY <2>2, <3>1, NotSaving DEF Crash
  <2>3. ASSUME Reboot PROVE SnapCurrent' /\ UNCHANGED <<rec, given>>
    BY <2>3 DEF Reboot, SnapCurrent, At, Idle
  <2>. QED  BY <1>11, <2>1, <2>2, <2>3 DEF Environment
<1>12. ASSUME UNCHANGED vars PROVE SnapCurrent' /\ UNCHANGED <<rec, given>>
  BY <1>12 DEF vars, SnapCurrent, Current, At, Listed, Readable
<1>13. SnapCurrent'
  BY <1>3, <1>4, <1>5, <1>11, <1>12 DEF Next
<1>14. PortsDistinct' /\ [Registry!Next]_<<rec, given>>
  BY <1>2, <1>3, <1>6, <1>8, <1>9, <1>10, <1>11, <1>12 DEF Next
<1>. QED  BY <1>1, <1>13, <1>14

\* With one caller at a time every step of the provider, failed, cut short or
\* followed by a reboot, is a step of AgentRegistry or leaves the records alone.
THEOREM RegistryRefined ==
    ASSUME OneCaller
    PROVE  Spec => RecordsRefineRegistry
<1>1. Init => RegistryInv /\ Registry!Init
  <2>1. Init => SnapCurrent /\ PortsDistinct
    BY RecordAssumption DEF Init, SnapCurrent, At, Idle, PortsDistinct, Listed, Readable
  <2>. QED  BY <2>1, InvInit DEF RegistryInv, Init, Registry!Init
<1>2. RegistryInv /\ [Next]_vars => RegistryInv' /\ [Registry!Next]_<<rec, given>>
  BY RegistryStep
<1>. QED  BY <1>1, <1>2, PTL DEF Spec, RecordsRefineRegistry, Registry!Spec

\* With one caller at a time no two agents ever have the same gateway port, but for
\* agents whose port the operator named.
THEOREM PortsAreDistinct ==
    ASSUME OneCaller
    PROVE  Spec => []PortsDistinct
<1>1. Init => RegistryInv
  BY InvInit, RecordAssumption DEF RegistryInv, Init, SnapCurrent, At, Idle, PortsDistinct,
                                   Listed, Readable
<1>2. RegistryInv /\ [Next]_vars => RegistryInv'
  BY RegistryStep
<1>3. RegistryInv => PortsDistinct
  BY DEF RegistryInv
<1>. QED  BY <1>1, <1>2, <1>3, PTL DEF Spec

--------------------------------------------------------------------------------
(* One caller at a time: no agent is started before its proxy. *)

\* Where ProvisionAgent, which starts the proxy before it removes the old
\* container, can be; and when a frame counts on the proxy.
Path(f) == f.op = "provision" =>
             f.pc \in {"save", "prep", "net", "proxy", "stop", "rm", "run", "filter", "route",
                       "ok", "err"}
Relies(f) == f.pc = "run" \/ (f.op = "provision" /\ f.pc \in {"stop", "rm"})
Behind(f) == Relies(f) => proxy[f.a] = "running"

ProxyInv == \A c \in Callers : Path(call[c]) /\ Behind(call[c])

\* A frame of the one caller that is on its path and counts on no proxy.
LEMMA FreshFrame ==
    ASSUME OneCaller, NEW c \in Callers, Path(call'[c]), ~Relies(call'[c])
    PROVE  ProxyInv'
BY DEF OneCaller, ProxyInv, Behind, Path, Relies

\* A step to a label from which the agent is not started next.
LEMMA GotoFresh ==
    ASSUME OneCaller, Inv, NEW c \in Callers, NEW l \in Labels \ {"run", "stop", "rm"}, Goto(c, l),
           call[c].op = "provision" => l \in {"prep", "net", "proxy", "filter", "route", "ok", "err"}
    PROVE  ProxyInv'
<1>1. call'[c].op = call[c].op /\ call'[c].pc = l
  BY GotoFrames DEF Inv, TypeOK
<1>2. Path(call'[c]) /\ ~Relies(call'[c])
  BY <1>1 DEF Path, Relies
<1>. QED  BY <1>2, FreshFrame

\* A failure that does not lead on to docker run.
LEMMA FailFresh ==
    ASSUME OneCaller, Inv, NEW c \in Callers, NEW l \in Labels, Fail(c, l),
           l # "run", call[c].op # "provision" \/ l \notin {"stop", "rm"}
    PROVE  ProxyInv'
<1>1. /\ call'[c].op = call[c].op /\ call'[c].pc \in {l, "each", "err"}
  BY FailFrames DEF Inv, TypeOK
<1>2. call[c].op = "provision" => call'[c].pc = "err"
  BY DEF Fail, Collecting, Inv, TypeOK, FramesOK, Frame
<1>3. Path(call'[c]) /\ ~Relies(call'[c])
  BY <1>1, <1>2 DEF Path, Relies
<1>. QED  BY <1>3, FreshFrame

\* A provision that goes on towards docker run leaves the proxy alone.
LEMMA GotoRun ==
    ASSUME OneCaller, Inv, ProxyInv, NEW c \in Callers, NEW l \in {"rm", "run"}, Goto(c, l),
           call[c].op = "provision", Relies(call[c]), UNCHANGED proxy
    PROVE  ProxyInv'
<1>1. /\ call'[c].op = call[c].op /\ call'[c].pc = l /\ call'[c].a = call[c].a
  BY GotoFrames DEF Inv, TypeOK, Labels
<1>2. proxy'[call'[c].a] = "running"
  BY <1>1 DEF ProxyInv, Behind
<1>. QED  BY <1>1, <1>2 DEF OneCaller, ProxyInv, Path, Behind

LEMMA ProxyInvStep ==
    ASSUME OneCaller, Inv, ProxyInv, [Next]_vars
    PROVE  ProxyInv'
<1>0. FramesOK /\ call \in [Callers -> Frame]
  BY DEF Inv, TypeOK, FramesOK
<1>1. ASSUME NEW c \in Callers, Request(c) PROVE ProxyInv'
  <2>1. /\ call'[c].op = "provision" => call'[c].pc = "save"
        /\ call'[c].pc \in {"save", "unfilter", "read", "reread", "list"}
    <3>1. ASSUME NEW o, NEW l, NEW a, NEW snap, Begin(c, o, l, a, snap)
          PROVE  call'[c].op = o /\ call'[c].pc = l
      BY <1>0, <3>1 DEF Begin, Idle
    <3>2. CASE \E a \in Agents, id \in IDs \cup {NoID} : ProvisionAgent(c, a, id)
      BY <3>1, <3>2 DEF ProvisionAgent
    <3>3. CASE ~ \E a \in Agents, id \in IDs \cup {NoID} : ProvisionAgent(c, a, id)
      BY <1>1, <3>1, <3>3 DEF Request, RemoveAgent, PauseAgent, UnpauseAgent, RefreshAgent,
                              RefreshAll, CycleHost, Teardown
    <3>. QED  BY <3>2, <3>3
  <2>. QED  BY <2>1, FreshFrame DEF Path, Relies
<1>2. ASSUME NEW c \in Callers, Step(c) PROVE ProxyInv'
  <2>. DEFINE op == call[c].op
  <2>0. Path(call[c]) /\ Behind(call[c])
    BY DEF ProxyInv
  <2>1. CASE \/ \E r : call' = [call EXCEPT ![c].snap = r, ![c].pc = "save"]
             \/ \E r : call' = [call EXCEPT ![c].snap = r, ![c].pc = "prep"]
    <3>1. call'[c].pc \in {"save", "prep"}
      BY <1>0, <2>1 DEF Frame
    <3>. QED  BY <3>1, FreshFrame DEF Path, Relies
  <2>2. CASE call' = [call EXCEPT ![c] = Idle]
    <3>1. call'[c] = Idle
      BY <1>0, <2>2
    <3>. QED  BY <3>1, FreshFrame DEF Path, Relies, Idle
  <2>3. CASE ReadRecord(c)
    <3>1. op # "provision"
      BY <2>0, <2>3 DEF ReadRecord, At, Path
    <3>. QED  BY <2>1, <2>3, <3>1, GotoFresh DEF ReadRecord, Labels
  <2>4. CASE SaveRecord(c)
    <3>. DEFINE l == IF op = "provision" THEN "prep"
                     ELSE IF op = "pause" THEN "unfilter" ELSE "reread"
    <3>1. Goto(c, l) \/ Goto(c, "err") \/ call' = [call EXCEPT ![c] = Idle]
      BY <2>4 DEF SaveRecord
    <3>. QED  BY <2>2, <3>1, GotoFresh DEF Labels
  <2>5. CASE ReadForRefresh(c)
    BY <2>1, <2>5, FailFresh DEF ReadForRefresh, Labels
  <2>6. CASE WriteFiles(c)
    BY <2>6, GotoFresh, FailFresh DEF WriteFiles, Labels
  <2>7. CASE DeleteFiles(c)
    <3>1. Goto(c, "route") \/ Fail(c, "route")
      BY <2>7 DEF DeleteFiles
    <3>. QED  BY <3>1, GotoFresh, FailFresh DEF Labels
  <2>8. CASE Regenerate(c)
    <3>1. PICK l \in {"reroute", "each", "ok", "err"} :
             Goto(c, l) /\ (op = "provision" => l \in {"ok", "err"})
      BY <2>8 DEF Regenerate, Finish, Fleet
    <3>. QED  BY <3>1, GotoFresh DEF Labels
  <2>9. CASE RemoveRules(c)
    <3>1. op # "provision" /\ Goto(c, "stop")
      BY <2>0, <2>9 DEF RemoveRules, At, Path
    <3>2. call'[c].op = op /\ call'[c].pc = "stop"
      BY <1>0, <3>1, GotoFrames DEF Labels
    <3>. QED  BY <3>1, <3>2, FreshFrame DEF Path, Relies
  <2>10. CASE StopAgent(c) \/ RemoveContainer(c)
    <3>. DEFINE next == IF op = "provision" THEN "run" ELSE "unproxy"
    <3>1. /\ Goto(c, "rm") \/ Goto(c, next) \/ Fail(c, "rm") \/ Fail(c, next)
          /\ UNCHANGED proxy
          /\ op = "provision" => Relies(call[c])
      BY <2>10 DEF StopAgent, RemoveContainer, At, Relies
    <3>2. CASE op = "provision"
      <4>1. CASE Goto(c, "rm") \/ Goto(c, "run")
        BY <3>1, <3>2, <4>1, GotoRun
      <4>2. CASE Fail(c, "rm") \/ Fail(c, "run")
        <5>1. Fail(c, "err")
          BY <3>2, <4>2 DEF Fail, Collecting
        <5>. QED  BY <5>1, FailFresh DEF Labels
      <4>. QED  BY <3>1, <3>2, <4>1, <4>2
    <3>3. CASE op # "provision"
      <4>1. CASE Goto(c, "rm")
        <5>1. call'[c].op = op /\ call'[c].pc = "rm"
          BY <1>0, <4>1, GotoFrames DEF Labels
        <5>. QED  BY <3>3, <5>1, FreshFrame DEF Path, Relies
      <4>2. CASE Goto(c, "unproxy") \/ Fail(c, "rm") \/ Fail(c, "unproxy")
        BY <3>3, <4>2, GotoFresh, FailFresh DEF Labels
      <4>. QED  BY <3>1, <3>3, <4>1, <4>2
    <3>. QED  BY <3>2, <3>3
  <2>11. CASE StopProxy(c)
    <3>1. op # "provision"
      BY <2>0, <2>11 DEF StopProxy, At, Path
    <3>. QED  BY <2>11, <3>1, GotoFresh DEF StopProxy, Labels
  <2>12. CASE RemoveNetwork(c)
    <3>. DEFINE next == IF op = "remove" THEN "delete" ELSE IF op = "teardown" THEN "each" ELSE "net"
    <3>1. op # "provision" /\ (Goto(c, next) \/ Fail(c, next))
      BY <2>0, <2>12 DEF RemoveNetwork, At, Path
    <3>2. next \in Labels \ {"run", "stop", "rm"}
      BY DEF Labels
    <3>. HIDE DEF next
    <3>. QED  BY <3>1, <3>2, GotoFresh, FailFresh
  <2>13. CASE CreateNetwork(c)
    <3>1. Goto(c, "proxy") \/ Fail(c, "err")
      BY <2>13 DEF CreateNetwork
    <3>. QED  BY <3>1, GotoFresh, FailFresh DEF Labels
  <2>14. CASE StartProxy(c)
    <3>1. CASE Fail(c, "err")
      BY <3>1, FailFresh DEF Labels
    <3>2. CASE /\ proxy' = [proxy EXCEPT ![call[c].a] = "running"]
               /\ Goto(c, IF op = "provision" THEN "stop" ELSE "run")
      <4>1. /\ call'[c].op = op /\ call'[c].a = call[c].a
            /\ call'[c].pc = IF op = "provision" THEN "stop" ELSE "run"
        BY <1>0, <3>2, GotoFrames DEF Labels
      <4>2. call[c].a \in Agents
        BY <2>14 DEF StartProxy, At, Inv, HasPort, NeedsPort, Aimed
      <4>3. proxy'[call'[c].a] = "running"
        BY <3>2, <4>1, <4>2 DEF Inv, TypeOK, HostOK
      <4>. QED  BY <4>1, <4>3 DEF OneCaller, ProxyInv, Path, Behind
    <3>. QED  BY <2>14, <3>1, <3>2 DEF StartProxy
  <2>15. CASE RunAgent(c)
    <3>1. Goto(c, "filter") \/ Fail(c, "err")
      BY <2>15 DEF RunAgent
    <3>. QED  BY <3>1, GotoFresh, FailFresh DEF Labels
  <2>16. CASE AddRules(c)
    BY <2>16, GotoFresh DEF AddRules, Labels
  <2>17. CASE ListAgents(c) \/ StopAll(c) \/ TakeNext(c) \/ Sweep(c) \/ WipeData(c)
    <3>1. op # "provision"
      BY <2>0, <2>17 DEF ListAgents, StopAll, TakeNext, Sweep, WipeData, At, Path
    <3>2. CASE StopAll(c) \/ Sweep(c) \/ WipeData(c)
      BY <3>1, <3>2, GotoFresh DEF StopAll, Sweep, WipeData, Labels
    <3>3. CASE ListAgents(c)
      <4>. DEFINE S == IF op = "teardown" THEN Listed ELSE Active
                  l == IF op = "cycle" THEN "halt" ELSE "each"
      <4>1. l \in {"halt", "each"} /\ call' = [call EXCEPT ![c].todo = S, ![c].pc = l]
        BY <3>3 DEF ListAgents
      <4>. HIDE DEF S, l
      <4>2. call'[c].op = op /\ call'[c].pc = l
        BY <1>0, <4>1 DEF Frame
      <4>. QED  BY <3>1, <4>1, <4>2, FreshFrame DEF Path, Relies
    <3>4. CASE TakeNext(c)
      <4>1. CASE \E l \in {"sweep", "ok"} : Goto(c, l)
        BY <3>1, <4>1, GotoFresh DEF Labels
      <4>2. CASE \E a \in call[c].todo, l \in {"unfilter", "reread"} :
                    call' = [call EXCEPT ![c].a = a, ![c].todo = @ \ {a}, ![c].pc = l]
        <5>1. call'[c].op = op /\ call'[c].pc \in {"unfilter", "reread"}
          BY <1>0, <4>2 DEF Frame
        <5>. QED  BY <3>1, <5>1, FreshFrame DEF Path, Relies
      <4>. QED  BY <3>4, <4>1, <4>2 DEF TakeNext
    <3>. QED  BY <2>17, <3>2, <3>3, <3>4
  <2>18. CASE Return(c)
    BY <2>2, <2>18 DEF Return
  <2>. QED  BY <1>2, <2>3, <2>4, <2>5, <2>6, <2>7, <2>8, <2>9, <2>10, <2>11, <2>12, <2>13, <2>14,
               <2>15, <2>16, <2>17, <2>18 DEF Step
<1>3. CASE Environment
  <2>1. ASSUME NEW c \in Callers, Crash(c) PROVE ProxyInv'
    <3>1. call'[c] = Idle
      BY <1>0, <2>1 DEF Crash
    <3>. QED  BY <3>1, FreshFrame DEF Path, Relies, Idle
  <2>2. CASE Reboot
    BY <2>2 DEF Reboot, ProxyInv, Path, Behind, Relies, Idle
  <2>3. ASSUME NEW a \in Agents, GetStatus(a) \/ AgentExits(a) PROVE ProxyInv'
    BY <2>3 DEF GetStatus, AgentExits, ProxyInv, Behind
  <2>. QED  BY <1>3, <2>1, <2>2, <2>3 DEF Environment
<1>4. CASE UNCHANGED vars
  BY <1>4 DEF vars, ProxyInv, Behind
<1>. QED  BY <1>1, <1>2, <1>3, <1>4 DEF Next

\* A container comes to run by docker run alone.
LEMMA OnlyRunStarts ==
    ASSUME Inv, [Next]_vars, NEW a \in Agents, ctr[a] # "running", ctr'[a] = "running"
    PROVE  \E c \in Callers : RunAgent(c) /\ a = call[c].a /\ a \in net
<1>1. ctr \in [Agents -> ContainerState]
  BY DEF Inv, TypeOK, HostOK
<1>2. ASSUME NEW S, NEW st \in {"absent", "stopped"}, Down(S, st) PROVE FALSE
  BY <1>2 DEF Down
<1>3. ASSUME UNCHANGED ctr PROVE FALSE
  BY <1>3
<1>4. ASSUME NEW c \in Callers, Request(c) PROVE FALSE
  BY <1>3, <1>4 DEF Request, ProvisionAgent, RemoveAgent, PauseAgent, UnpauseAgent, RefreshAgent,
                    RefreshAll, CycleHost, Teardown, Begin, host
<1>5. ASSUME NEW c \in Callers, Step(c)
      PROVE  RunAgent(c) /\ a = call[c].a /\ a \in net
  <2>1. CASE \/ ReadRecord(c) \/ SaveRecord(c) \/ ReadForRefresh(c) \/ WriteFiles(c)
             \/ DeleteFiles(c) \/ Regenerate(c) \/ RemoveRules(c) \/ StopProxy(c)
             \/ RemoveNetwork(c) \/ CreateNetwork(c) \/ StartProxy(c) \/ AddRules(c)
             \/ ListAgents(c) \/ TakeNext(c) \/ WipeData(c) \/ Return(c)
    BY <1>3, <2>1 DEF ReadRecord, SaveRecord, ReadForRefresh, WriteFiles, DeleteFiles, Regenerate,
          RemoveRules, StopProxy, RemoveNetwork, CreateNetwork, StartProxy, AddRules, ListAgents,
          TakeNext, WipeData, Return, host
  <2>2. CASE StopAgent(c) \/ RemoveContainer(c) \/ StopAll(c) \/ Sweep(c)
    BY <1>2, <1>3, <2>2 DEF StopAgent, RemoveContainer, StopAll, Sweep
  <2>3. CASE RunAgent(c)
    <3>1. \/ a = call[c].a /\ a \in net
          \/ \E st \in {"absent", "stopped"} : Down({call[c].a}, st)
          \/ UNCHANGED ctr
      BY <1>1, <2>3 DEF RunAgent
    <3>. QED  BY <1>2, <1>3, <2>3, <3>1
  <2>. QED  BY <1>5, <2>1, <2>2, <2>3 DEF Step
<1>6. CASE Environment
  BY <1>2, <1>3, <1>6 DEF Environment, GetStatus, AgentExits, Crash, Reboot, host
<1>. QED  BY <1>3, <1>4, <1>5, <1>6 DEF Next, vars

\* With one caller at a time no agent container is started before its proxy runs
\* on its network, whatever earlier calls, faults, crashes and restarts left.
THEOREM NoAgentBeforeItsProxy ==
    ASSUME OneCaller
    PROVE  Spec => ProxyBeforeAgent
<1>. DEFINE Starts == \A a \in Agents : (ctr[a] # "running" /\ ctr'[a] = "running")
                         => (a \in net /\ proxy[a] = "running")
<1>1. Init => ProxyInv
  BY DEF Init, ProxyInv, Path, Behind, Relies, Idle
<1>2. Inv /\ ProxyInv /\ [Next]_vars => ProxyInv'
  BY ProxyInvStep
<1>3. Inv /\ ProxyInv /\ [Next]_vars => [Starts]_vars
  <2>1. ASSUME Inv, ProxyInv, [Next]_vars,
               NEW a \in Agents, ctr[a] # "running", ctr'[a] = "running"
        PROVE  a \in net /\ proxy[a] = "running"
    <3>1. PICK c \in Callers : RunAgent(c) /\ a = call[c].a /\ a \in net
      BY <2>1, OnlyRunStarts
    <3>. QED  BY <2>1, <3>1 DEF RunAgent, At, ProxyInv, Behind, Relies
  <2>. QED  BY <2>1
<1>. QED  BY <1>1, <1>2, <1>3, InvInit, InvStep, PTL DEF Spec, ProxyBeforeAgent
--------------------------------------------------------------------------------
(* Ports and routes, with one caller at a time: whom the ports and routes of the *)
(* host lead to, and what a call that succeeds leaves behind.                    *)

\* Methods that rebuild an agent from its record, and methods on one or every agent.
Refreshing == {"unpause", "refresh", "refreshAll", "cycle"}
OnOne == {"provision", "remove", "pause", "unpause", "refresh"}
OnAll == {"refreshAll", "cycle", "teardown"}

\* Labels at which a method works at an agent.
AtAgent == {"read", "save", "reread", "prep", "unfilter", "stop", "rm", "unproxy", "netrm", "net", "proxy",
            "run", "filter", "delete"}

\* Which methods come to which labels.
Road(f) ==
    /\ f.pc \in AtAgent \/ f.op \in OnOne => f.a \in Agents
    /\ f.pc = "read" => f.op \in {"pause", "unpause"}
    /\ f.pc = "save" => f.op \in {"provision", "pause", "unpause"} /\ (f.snap.paused <=> f.op = "pause")
    /\ f.pc = "reread" => f.op \in Refreshing
    /\ f.pc \in {"prep", "net", "proxy", "run", "filter"} => f.op \in Refreshing \cup {"provision"}
    /\ f.pc \in {"unfilter", "unproxy"} => f.op \in Refreshing \cup {"remove", "pause", "teardown"}
    /\ f.pc \in {"stop", "rm"} => f.op \in Refreshing \cup {"remove", "pause", "teardown", "provision"}
    /\ f.pc = "netrm" => f.op \in Refreshing \cup {"remove", "teardown"}
    /\ f.pc = "delete" => f.op = "remove"
    /\ f.pc = "route" => f.op \in Refreshing \cup {"provision", "remove", "pause"}
    /\ f.pc = "reroute" => f.op = "unpause"
    /\ f.pc = "halt" => f.op = "cycle"
    /\ f.pc \in {"list", "each"} => f.op \in OnAll
    /\ f.pc \in {"sweep", "wipe"} => f.op = "teardown"

\* A method that builds an agent, until it returns if it is about that agent alone.
Builds(f) ==
    \/ /\ f.op \in Refreshing \cup {"provision"}
       /\ f.pc \in {"prep", "unfilter", "stop", "rm", "unproxy", "netrm", "net", "proxy", "run", "filter"}
    \/ f.op \in {"provision", "refresh"} /\ f.pc \in {"route", "ok"}

\* It builds the active agent of the record, by a copy that is current.
Informed(f) == Builds(f) => f.a \in Active /\ f.snap = rec[f.a]

RoadInv == \A c \in Callers : Road(call[c]) /\ Informed(call[c])

--------------------------------------------------------------------------------
(* Serving. *)

Up(a) == ctr[a] = "running" /\ pub[a] = rec[a].port /\ a \in net /\ proxy[a] = "running"

Serves(f) ==
    f.op \in {"provision", "refresh"} =>
        /\ f.pc \in {"filter", "route", "ok"} => Up(f.a)
        /\ f.pc \in {"route", "ok"} => f.a \in rules

ServeInv == \A c \in Callers : Serves(call[c])

--------------------------------------------------------------------------------
(* Ports and routes. *)

\* The faults a method returns from, or goes on after, with its container removed and
\* its files written.
CallFaults == {"stop", "net", "proxy", "run", "iptables", "fs", "exit"}

\* The container of an agent that is paused or removed is gone before the method goes on;
\* those of every agent before a teardown deletes the records.
Emptied(f) ==
    /\ (f.op \in {"remove", "pause"} /\ f.pc \in {"unproxy", "netrm", "delete", "route"}) => pub[f.a] = 0
    /\ f.pc = "wipe" => \A a \in Agents : pub[a] = 0

EmptyInv == \A c \in Callers : Emptied(call[c])

\* Agents that a method is taking out of service and has not yet taken out of routing.json.
Removing(a) == \E c \in Callers : call[c].op = "remove" /\ call[c].pc = "route" /\ call[c].a = a
Pausing(a) == \E c \in Callers : /\ call[c].op = "pause" /\ call[c].a = a
                                /\ call[c].pc \in {"unfilter", "stop", "rm", "unproxy", "route"}

\* A port that is published was chosen for that agent, now or earlier; of those chosen
\* from the records, a later one is higher.
Published ==
    \A a \in Agents : pub[a] # 0 => a \in Listed /\ (a \in given \/ pub[a] <= rec[a].port)

\* So was one in routing.json, and for no other agent.
Routed ==
    \A id \in IDs : routing[id] # Unrouted =>
        LET x == routing[id].agent
            p == routing[id].port
        IN  /\ x \in Agents /\ p # 0
            /\ (x \in Listed /\ (x \in given \/ p <= rec[x].port)) \/ Removing(x)
            /\ x \in given \/ \A a \in Listed \ given : a # x => rec[a].port # p

\* Entries of agents out of service are those a method is about to take out.
Departing ==
    \A id \in IDs : routing[id] # Unrouted =>
        \/ routing[id].agent \in Active
        \/ Removing(routing[id].agent) \/ Pausing(routing[id].agent)

RouteInv == Published /\ PortsHeld /\ Routed /\ NoMisdelivery /\ Departing
PortInv == EmptyInv /\ RouteInv

--------------------------------------------------------------------------------
(* What a step does to the frame of the caller. *)

\* The method goes on to label l, with what its frame held.
To(c, l) ==
    /\ call'[c] \in Frame /\ call'[c].pc = l
    /\ call'[c].op = call[c].op /\ call'[c].a = call[c].a /\ call'[c].snap = call[c].snap

\* Where a method goes that meets an error on its way to l.
Failed(c, l) == IF call[c].op \in Collecting \cup {"teardown"} THEN l
                ELSE IF call[c].op = "cycle" THEN "each" ELSE "err"

\* Both ways to leave a label keep what the frame held.
LEMMA Onward ==
    ASSUME Inv, NEW c \in Callers, NEW l \in Labels
    PROVE  /\ Goto(c, l) => To(c, l)
           /\ Fail(c, l) => To(c, Failed(c, l)) /\ Failed(c, l) \in Labels
<1>1. call \in [Callers -> Frame] /\ FramesOK
  BY DEF Inv, TypeOK, FramesOK
<1>2. ASSUME Goto(c, l) PROVE To(c, l)
  BY <1>1, <1>2, GotoFrames DEF To, FramesOK
<1>3. ASSUME Fail(c, l) PROVE To(c, Failed(c, l)) /\ Failed(c, l) \in Labels
  <2>1. Failed(c, l) \in Labels
    BY DEF Failed, Labels
  <2>2. call'[c].pc = Failed(c, l)
    <3> DEFINE b == IF call[c].op \in Collecting THEN TRUE ELSE call[c].errs
    <3>1. call' = [call EXCEPT ![c].pc = Failed(c, l), ![c].errs = b]
      BY <1>3 DEF Fail, Failed
    <3> HIDE DEF b
    <3> QED BY <1>1, <3>1 DEF Frame
  <2>3. call'[c] \in Frame /\ call'[c].op = call[c].op /\ call'[c].a = call[c].a /\ call'[c].snap = call[c].snap
    BY <1>1, <1>3, FailFrames DEF FramesOK
  <2> QED BY <2>1, <2>2, <2>3 DEF To
<1> QED BY <1>2, <1>3

\* The steps of a method: from which label, in which method, to which label.
Leads(f, l) ==
    \/ <<f.pc, l>> \in {<<"unfilter", "stop">>, <<"stop", "rm">>, <<"net", "proxy">>, <<"run", "filter">>,
                        <<"filter", "route">>, <<"delete", "route">>, <<"sweep", "wipe">>, <<"wipe", "ok">>}
    \/ /\ f.op = "provision"
       /\ <<f.pc, l>> \in {<<"prep", "net">>, <<"proxy", "stop">>, <<"stop", "run">>, <<"rm", "run">>}
    \/ f.op # "provision" /\ <<f.pc, l>> \in {<<"stop", "unproxy">>, <<"rm", "unproxy">>}
    \/ f.op \in Refreshing /\ <<f.pc, l>> \in {<<"prep", "unfilter">>, <<"unproxy", "netrm">>, <<"netrm", "net">>,
                                               <<"proxy", "run">>}
    \/ f.op = "pause" /\ f.pc = "unproxy" /\ l = "route"
    \/ f.op \in {"remove", "teardown"} /\ f.pc = "unproxy" /\ l = "netrm"
    \/ f.op = "remove" /\ f.pc = "netrm" /\ l = "delete"
    \/ f.op = "unpause" /\ l = "reroute"
    \/ f.op \notin Fleet /\ f.pc \in {"route", "reroute"} /\ l = "ok"
    \/ f.op \in OnAll /\ l = "each"
    \/ f.op \in Collecting /\ f.pc = "route" /\ l = "err"
    \/ f.op \notin Collecting /\ l = "err"

\* A caller's steps from label to label lead where Leads says.
LEMMA StepsLead ==
    ASSUME Inv, RoadInv, NEW c \in Callers,
           \/ WriteFiles(c) \/ DeleteFiles(c) \/ Regenerate(c) \/ RemoveRules(c) \/ StopAgent(c)
           \/ RemoveContainer(c) \/ StopProxy(c) \/ RemoveNetwork(c) \/ CreateNetwork(c) \/ StartProxy(c)
           \/ RunAgent(c) \/ AddRules(c) \/ StopAll(c) \/ Sweep(c) \/ WipeData(c)
    PROVE  \E l \in Labels : To(c, l) /\ Leads(call[c], l)
<1> DEFINE f == call[c]
           Ends(l) == \E m \in Labels : To(c, m) /\ Leads(f, m)
<1>1. f \in Frame /\ Road(f)
  BY DEF Inv, TypeOK, FramesOK, RoadInv
<1>2. ASSUME NEW l \in Labels, Goto(c, l), Leads(f, l) PROVE Ends(l)
  BY <1>2, Onward
<1>3. ASSUME NEW l \in Labels, Fail(c, l), Leads(f, Failed(c, l)) PROVE Ends(l)
  BY <1>3, Onward
<1>4. ASSUME NEW l \in Labels, Fail(c, l), f.op \in Refreshing \cup {"provision"} PROVE Ends(l)
  BY <1>3, <1>4 DEF Failed, Collecting, Leads, Refreshing, OnAll
<1>5. CASE WriteFiles(c)
  <2>1. f.op \in Refreshing \cup {"provision"} /\ f.pc = "prep"
    BY <1>1, <1>5 DEF WriteFiles, At, Road
  <2>2. Goto(c, IF f.op = "provision" THEN "net" ELSE "unfilter") \/ Fail(c, "err")
    BY <1>5 DEF WriteFiles
  <2> QED BY <1>2, <1>4, <2>1, <2>2 DEF Leads, Labels
<1>6. CASE DeleteFiles(c)
  <2>1. f.op = "remove" /\ f.pc = "delete"
    BY <1>1, <1>6 DEF DeleteFiles, At, Road
  <2>2. Goto(c, "route") \/ Fail(c, "route")
    BY <1>6 DEF DeleteFiles
  <2> QED BY <1>2, <1>3, <2>1, <2>2 DEF Leads, Labels, Failed, Collecting
<1>7. CASE Regenerate(c)
  <2>1. PICK l \in {"reroute", "each", "ok", "err"} :
            /\ Goto(c, l)
            /\ l = "reroute" => f.op = "unpause"
            /\ l = "each" => f.op \in Fleet
            /\ l \in {"ok", "err"} => f.op \notin Fleet
    BY <1>7 DEF Regenerate, Finish
  <2>2. f.pc \in {"route", "reroute"} /\ (f.pc = "reroute" => f.op = "unpause")
    BY <1>1, <1>7 DEF Regenerate, Road
  <2> QED BY <1>2, <2>1, <2>2 DEF Leads, Labels, Fleet, Collecting, OnAll
<1>8. CASE RemoveRules(c) \/ StopAll(c) \/ Sweep(c) \/ AddRules(c)
  <2>1. PICK l \in {"stop", "each", "wipe", "route"} : Goto(c, l) /\ Leads(f, l)
    BY <1>1, <1>8 DEF RemoveRules, StopAll, Sweep, AddRules, At, Road, Leads, OnAll
  <2> QED BY <1>2, <2>1 DEF Labels
<1>9. CASE WipeData(c)
  <2>1. PICK l \in {"ok", "err"} : Goto(c, l)
    BY <1>9 DEF WipeData
  <2>2. f.pc = "wipe" /\ f.op = "teardown"
    BY <1>1, <1>9 DEF WipeData, At, Road
  <2> QED BY <1>2, <2>1, <2>2 DEF Leads, Labels, Collecting
<1>10. CASE StopAgent(c) \/ RemoveContainer(c)
  <2> DEFINE next == IF f.op = "provision" THEN "run" ELSE "unproxy"
  <2>1. /\ f.pc \in {"stop", "rm"} /\ f.op \in Refreshing \cup {"remove", "pause", "teardown", "provision"}
        /\ \/ Goto(c, next) \/ Fail(c, next)
           \/ f.pc = "stop" /\ (Goto(c, "rm") \/ Fail(c, "rm"))
    BY <1>1, <1>10 DEF StopAgent, RemoveContainer, At, Road
  <2>2. CASE Goto(c, next) \/ (f.pc = "stop" /\ Goto(c, "rm"))
    BY <1>2, <2>1, <2>2 DEF Leads, Labels
  <2>3. CASE Fail(c, next) \/ (f.pc = "stop" /\ Fail(c, "rm"))
    <3>1. CASE f.op \in Refreshing \cup {"provision"}
      BY <1>4, <2>3, <3>1 DEF Labels
    <3>2. CASE f.op \in {"remove", "pause", "teardown"}
      BY <1>3, <2>1, <2>3, <3>2 DEF Leads, Labels, Failed, Collecting
    <3> QED BY <2>1, <3>1, <3>2
  <2> QED BY <2>1, <2>2, <2>3
<1>11. CASE StopProxy(c)
  <2>1. f.pc = "unproxy" /\ f.op \in Refreshing \cup {"remove", "pause", "teardown"}
    BY <1>1, <1>11 DEF StopProxy, At, Road
  <2>2. Goto(c, IF f.op = "pause" THEN "route" ELSE "netrm")
    BY <1>11 DEF StopProxy
  <2> QED BY <1>2, <2>1, <2>2 DEF Leads, Labels
<1>12. CASE RemoveNetwork(c)
  <2> DEFINE next == IF f.op = "remove" THEN "delete" ELSE IF f.op = "teardown" THEN "each" ELSE "net"
  <2>1. f.pc = "netrm" /\ f.op \in Refreshing \cup {"remove", "teardown"}
    BY <1>1, <1>12 DEF RemoveNetwork, At, Road
  <2>2. Goto(c, next) \/ Fail(c, next)
    BY <1>12 DEF RemoveNetwork
  <2>3. CASE f.op \in Refreshing
    BY <1>2, <1>4, <2>1, <2>2, <2>3 DEF Leads, Labels, Refreshing
  <2>4. CASE f.op \in {"remove", "teardown"}
    BY <1>2, <1>3, <2>1, <2>2, <2>4 DEF Leads, Labels, Failed, Collecting, OnAll
  <2> QED BY <2>1, <2>3, <2>4
<1>13. CASE CreateNetwork(c)
  <2>1. f.pc = "net" /\ f.op \in Refreshing \cup {"provision"} /\ (Goto(c, "proxy") \/ Fail(c, "err"))
    BY <1>1, <1>13 DEF CreateNetwork, At, Road
  <2> QED BY <1>2, <1>4, <2>1 DEF Leads, Labels
<1>14. CASE StartProxy(c)
  <2>1. /\ f.pc = "proxy" /\ f.op \in Refreshing \cup {"provision"}
        /\ Goto(c, IF f.op = "provision" THEN "stop" ELSE "run") \/ Fail(c, "err")
    BY <1>1, <1>14 DEF StartProxy, At, Road
  <2> QED BY <1>2, <1>4, <2>1 DEF Leads, Labels
<1>15. CASE RunAgent(c)
  <2>1. f.pc = "run" /\ f.op \in Refreshing \cup {"provision"} /\ (Goto(c, "filter") \/ Fail(c, "err"))
    BY <1>1, <1>15 DEF RunAgent, At, Road
  <2> QED BY <1>2, <1>4, <2>1 DEF Leads, Labels
<1> QED BY <1>5, <1>6, <1>7, <1>8, <1>9, <1>10, <1>11, <1>12, <1>13, <1>14, <1>15

\* A frame that Leads leads to is on its road.
LEMMA RoadOn ==
    ASSUME Inv, RoadInv, NEW c \in Callers, NEW l \in Labels, To(c, l), Leads(call[c], l)
    PROVE  /\ Road(call'[c])
           /\ Builds(call'[c]) => Builds(call[c])
<1> DEFINE f == call[c]
<1>1. f \in Frame /\ Road(f)
  BY DEF Inv, TypeOK, FramesOK, RoadInv
<1>2. l \in AtAgent \/ f.op \in OnOne => f.a \in Agents
  BY <1>1 DEF Road, Leads, AtAgent, OnOne
<1>3. /\ l \notin {"read", "save", "reread", "list", "halt", "sweep"}
      /\ l \in {"prep", "net", "proxy", "run", "filter"} => f.op \in Refreshing \cup {"provision"}
      /\ l \in {"unfilter", "unproxy"} => f.op \in Refreshing \cup {"remove", "pause", "teardown"}
      /\ l \in {"stop", "rm"} => f.op \in Refreshing \cup {"remove", "pause", "teardown", "provision"}
  BY <1>1 DEF Road, Leads
<1>4. /\ l = "netrm" => f.op \in Refreshing \cup {"remove", "teardown"}
      /\ l = "delete" => f.op = "remove"
      /\ l = "route" => f.op \in Refreshing \cup {"provision", "remove", "pause"}
      /\ l = "reroute" => f.op = "unpause"
      /\ l = "each" => f.op \in OnAll
      /\ l = "wipe" => f.op = "teardown"
  BY <1>1 DEF Road, Leads
<1>5. Road(call'[c])
  BY <1>2, <1>3, <1>4 DEF Road, To
<1>6. /\ l \in {"prep", "unfilter", "stop", "rm", "unproxy", "netrm", "net", "proxy", "run", "filter"}
             => f.pc \in {"prep", "unfilter", "stop", "rm", "unproxy", "netrm", "net", "proxy", "run", "filter"}
      /\ (f.op \in {"provision", "refresh"} /\ l \in {"route", "ok"})
             => f.pc \in {"filter", "route"}
  BY <1>1 DEF Road, Leads, Refreshing, OnAll
<1>7. f.op \in {"provision", "refresh"} => f.op \in Refreshing \cup {"provision"}
  BY DEF Refreshing
<1> QED BY <1>5, <1>6, <1>7 DEF Builds, To

\* The steps whose frame is on its road by Leads.
Moves(c) ==
    \/ WriteFiles(c) \/ DeleteFiles(c) \/ Regenerate(c) \/ RemoveRules(c) \/ StopAgent(c)
    \/ RemoveContainer(c) \/ StopProxy(c) \/ RemoveNetwork(c) \/ CreateNetwork(c) \/ StartProxy(c)
    \/ RunAgent(c) \/ AddRules(c) \/ StopAll(c) \/ Sweep(c) \/ WipeData(c)

\* Every frame an action leaves: an idle one is on its road and builds nothing.
LEMMA IdleRoad == Road(Idle) /\ ~Builds(Idle)
BY DEF Road, Builds, Idle, AtAgent, OnOne, Refreshing

\* With one caller, RoadInv is about the caller that moved.
LEMMA OneRoad ==
    ASSUME OneCaller, NEW c \in Callers, Road(call'[c]),
           Builds(call'[c]) => call'[c].a \in Active' /\ call'[c].snap = rec'[call'[c].a]
    PROVE  RoadInv'
BY DEF OneCaller, RoadInv, Informed

\* A call that begins is on its road, and builds nothing before it has read or saved a record.
LEMMA RequestRoad ==
    ASSUME OneCaller, Inv, NEW c \in Callers, Request(c)
    PROVE  RoadInv'
<1>1. ASSUME NEW op, NEW l, NEW a, NEW snap, Begin(c, op, l, a, snap)
      PROVE  call'[c].op = op /\ call'[c].pc = l /\ call'[c].a = a /\ call'[c].snap = snap
  BY <1>1 DEF Begin, Idle, Inv, TypeOK, FramesOK
<1>2. ASSUME NEW op \in {"remove", "pause", "unpause", "refresh", "refreshAll", "cycle", "teardown"},
             NEW l \in {"unfilter", "read", "reread", "list"}, NEW a, NEW snap, Begin(c, op, l, a, snap),
             l = "unfilter" <=> op = "remove", l = "read" <=> op \in {"pause", "unpause"},
             l = "reread" <=> op = "refresh", l # "list" => a \in Agents
      PROVE  RoadInv'
  <2>1. call'[c].op = op /\ call'[c].pc = l /\ call'[c].a = a
    BY <1>1, <1>2
  <2>2. Road(call'[c]) /\ ~Builds(call'[c])
    BY <1>2, <2>1 DEF Road, Builds, AtAgent, OnOne, OnAll, Refreshing
  <2> QED BY <2>2, OneRoad
<1>3. CASE \E a \in Agents, id \in IDs \cup {NoID} : ProvisionAgent(c, a, id)
  <2>1. PICK a \in Agents, id \in IDs \cup {NoID}, p \in 1 .. MaxPort :
           Begin(c, "provision", "save", a, [paused |-> FALSE, port |-> p, id |-> id])
    BY <1>3 DEF ProvisionAgent
  <2>2. call'[c].op = "provision" /\ call'[c].pc = "save" /\ call'[c].a \in Agents /\ ~call'[c].snap.paused
    BY <1>1, <2>1
  <2>3. Road(call'[c]) /\ ~Builds(call'[c])
    BY <2>2 DEF Road, Builds, AtAgent, OnOne, OnAll, Refreshing
  <2> QED BY <2>3, OneRoad
<1>4. CASE \E a \in Agents : RemoveAgent(c, a) \/ PauseAgent(c, a) \/ UnpauseAgent(c, a) \/ RefreshAgent(c, a)
  BY <1>2, <1>4 DEF RemoveAgent, PauseAgent, UnpauseAgent, RefreshAgent
<1>5. CASE RefreshAll(c) \/ CycleHost(c) \/ Teardown(c)
  BY <1>2, <1>5 DEF RefreshAll, CycleHost, Teardown
<1> QED BY <1>3, <1>4, <1>5 DEF Request

\* The steps that load or save a record, and those of a walk over the agents.
LEMMA LoadRoad ==
    ASSUME OneCaller, Inv, RoadInv, NEW c \in Callers,
           ReadRecord(c) \/ SaveRecord(c) \/ ReadForRefresh(c) \/ ListAgents(c) \/ TakeNext(c)
    PROVE  RoadInv'
<1> DEFINE f == call[c]
<1>1. f \in Frame /\ Road(f) /\ call \in [Callers -> Frame] /\ rec \in [Agents -> Record \cup {NoRec, Torn}]
  BY DEF Inv, TypeOK, FramesOK, FilesOK, RoadInv
<1>2. ASSUME NEW l \in {"err", "each", "ok", "sweep", "unfilter"}, To(c, l), ~Builds(call'[c]),
             l = "each" => f.op \in OnAll, l = "sweep" => f.op = "teardown",
             l = "unfilter" => f.op = "pause"
      PROVE  RoadInv'
  <2>1. Road(call'[c])
    BY <1>1, <1>2 DEF Road, To, AtAgent, OnOne
  <2> QED BY <1>2, <2>1, OneRoad
<1>3. CASE ReadRecord(c)
  <2>1. f.pc = "read" /\ f.op \in {"pause", "unpause"} /\ f.a \in Agents
    BY <1>1, <1>3 DEF ReadRecord, At, Road, AtAgent
  <2>2. CASE Goto(c, "err") \/ Goto(c, "ok")
    <3>1. To(c, "err") \/ To(c, "ok")
      BY <2>2, Onward DEF Labels
    <3> QED BY <1>2, <2>1, <3>1 DEF To, Builds
  <2>3. CASE call' = [call EXCEPT ![c].snap = [rec[f.a] EXCEPT !.paused = (f.op = "pause")], ![c].pc = "save"]
             /\ f.a \in Listed
    <3>1. /\ call'[c].op = f.op /\ call'[c].a = f.a /\ call'[c].pc = "save"
          /\ call'[c].snap = [rec[f.a] EXCEPT !.paused = (f.op = "pause")]
      BY <1>1, <2>3 DEF Frame
    <3>2. call'[c].snap.paused <=> f.op = "pause"
      BY <2>3, <3>1 DEF Listed, Readable, Record
    <3>3. Road(call'[c]) /\ ~Builds(call'[c])
      BY <2>1, <3>1, <3>2 DEF Road, Builds, AtAgent, OnOne
    <3> QED BY <3>3, OneRoad
  <2> QED BY <1>3, <2>2, <2>3 DEF ReadRecord
<1>4. CASE SaveRecord(c)
  <2>1. f.pc = "save" /\ f.op \in {"provision", "pause", "unpause"} /\ f.a \in Agents
        /\ (f.snap.paused <=> f.op = "pause") /\ f.snap \in Record
    BY <1>1, <1>4, BoundAssumption
       DEF SaveRecord, At, Road, AtAgent, Inv, HasPort, NeedsPort, Aimed, Frame, Snapshot, Record
  <2>2. CASE Goto(c, "err")
    <3>1. To(c, "err")
      BY <2>2, Onward DEF Labels
    <3> QED BY <1>2, <3>1 DEF To, Builds
  <2>3. CASE call' = [call EXCEPT ![c] = Idle]
    BY <1>1, <2>3, OneRoad, IdleRoad
  <2>4. CASE /\ rec' = [rec EXCEPT ![f.a] = f.snap]
             /\ Goto(c, IF f.op = "provision" THEN "prep" ELSE IF f.op = "pause" THEN "unfilter" ELSE "reread")
    <3> DEFINE l == IF f.op = "provision" THEN "prep" ELSE IF f.op = "pause" THEN "unfilter" ELSE "reread"
    <3>1. To(c, l)
      BY <2>4, Onward DEF Labels
    <3>2. Road(call'[c])
      BY <2>1, <3>1 DEF Road, To, AtAgent, OnOne, Refreshing
    <3>3. Builds(call'[c]) => f.op = "provision"
      BY <2>1, <3>1 DEF Builds, To, Refreshing
    <3>4. rec'[f.a] = f.snap
      BY <1>1, <2>1, <2>4
    <3>5. f.op = "provision" => f.a \in Active'
      BY <2>1, <3>4 DEF Active, Listed, Readable
    <3> QED BY <3>1, <3>2, <3>3, <3>4, <3>5, OneRoad DEF To
  <2> QED BY <1>4, <2>2, <2>3, <2>4 DEF SaveRecord
<1>5. CASE ReadForRefresh(c)
  <2>1. f.pc = "reread" /\ f.op \in Refreshing /\ f.a \in Agents
    BY <1>1, <1>5 DEF ReadForRefresh, At, Road, AtAgent
  <2>2. CASE Fail(c, "err")
    <3>1. To(c, Failed(c, "err"))
      BY <2>2, Onward DEF Labels
    <3>2. Failed(c, "err") = "err" \/ (Failed(c, "err") = "each" /\ f.op \in OnAll)
      BY <2>1 DEF Failed, OnAll
    <3> QED BY <1>2, <3>1, <3>2 DEF To, Builds
  <2>3. CASE call' = [call EXCEPT ![c].snap = rec[f.a], ![c].pc = "prep"] /\ f.a \in Active
    <3>1. call'[c].op = f.op /\ call'[c].a = f.a /\ call'[c].pc = "prep" /\ call'[c].snap = rec[f.a]
      BY <1>1, <2>3 DEF Frame
    <3>2. Road(call'[c])
      BY <2>1, <3>1 DEF Road, AtAgent, OnOne
    <3>3. UNCHANGED rec
      BY <1>5 DEF ReadForRefresh
    <3>4. call'[c].a \in Active'
      BY <2>3, <3>1, <3>3 DEF Active, Listed, Readable
    <3>5. call'[c].snap = rec'[call'[c].a]
      BY <3>1, <3>3
    <3> QED BY <3>2, <3>4, <3>5, OneRoad
  <2> QED BY <1>5, <2>2, <2>3 DEF ReadForRefresh
<1>6. CASE ListAgents(c)
  <2>1. f.pc = "list" /\ f.op \in OnAll
    BY <1>1, <1>6 DEF ListAgents, At, Road
  <2>2. PICK S \in SUBSET Agents, l \in {"halt", "each"} :
            /\ call' = [call EXCEPT ![c].todo = S, ![c].pc = l]
            /\ l = "halt" => f.op = "cycle"
    <3> DEFINE T == IF f.op = "teardown" THEN Listed ELSE Active
               m == IF f.op = "cycle" THEN "halt" ELSE "each"
    <3>1. call' = [call EXCEPT ![c].todo = T, ![c].pc = m]
      BY <1>6 DEF ListAgents
    <3>2. T \in SUBSET Agents /\ m \in {"halt", "each"} /\ (m = "halt" => f.op = "cycle")
      BY DEF Active, Listed
    <3> HIDE DEF T, m
    <3> QED BY <3>1, <3>2
  <2>3. call'[c].op = f.op /\ call'[c].pc = l
    BY <1>1, <2>2 DEF Frame
  <2>4. Road(call'[c]) /\ ~Builds(call'[c])
    BY <2>1, <2>2, <2>3 DEF Road, Builds, AtAgent, OnOne, OnAll, Refreshing
  <2> QED BY <2>4, OneRoad
<1>7. CASE TakeNext(c)
  <2>1. f.pc = "each" /\ f.op \in OnAll
    BY <1>1, <1>7 DEF TakeNext, At, Road
  <2>2. CASE Goto(c, IF f.op = "teardown" THEN "sweep" ELSE "ok")
    <3>1. PICK l \in {"sweep", "ok"} : To(c, l) /\ (l = "sweep" => f.op = "teardown")
      BY <2>2, Onward DEF Labels
    <3>2. ~Builds(call'[c])
      BY <2>1, <3>1 DEF To, Builds, OnAll
    <3> QED BY <1>2, <3>1, <3>2
  <2>3. CASE \E a \in f.todo :
                call' = [call EXCEPT ![c].a = a, ![c].todo = f.todo \ {a},
                                     ![c].pc = IF f.op = "teardown" THEN "unfilter" ELSE "reread"]
    <3>1. /\ call'[c].op = f.op /\ call'[c].a \in Agents
          /\ call'[c].pc = IF f.op = "teardown" THEN "unfilter" ELSE "reread"
      BY <1>1, <2>3 DEF Frame
    <3>2. Road(call'[c]) /\ ~Builds(call'[c])
      BY <2>1, <3>1 DEF Road, Builds, AtAgent, OnOne, OnAll, Refreshing
    <3> QED BY <3>2, OneRoad
  <2> QED BY <1>7, <2>2, <2>3 DEF TakeNext
<1> QED BY <1>3, <1>4, <1>5, <1>6, <1>7

\* The steps that go from label to label.
LEMMA MoveRoad ==
    ASSUME OneCaller, Inv, RoadInv, NEW c \in Callers, Moves(c)
    PROVE  RoadInv'
<1>1. PICK l \in Labels : To(c, l) /\ Leads(call[c], l)
  BY StepsLead DEF Moves
<1>2. Road(call'[c]) /\ (Builds(call'[c]) => Builds(call[c]))
  BY <1>1, RoadOn
<1>3. CASE UNCHANGED rec
  <2>1. Active' = Active
    BY <1>3 DEF Active, Listed, Readable
  <2> QED BY <1>1, <1>2, <1>3, <2>1, OneRoad DEF To, RoadInv, Informed
<1>4. CASE DeleteFiles(c) \/ WipeData(c)
  <2>1. ~Builds(call[c])
    BY <1>4 DEF RoadInv, Road, DeleteFiles, WipeData, At, Builds
  <2> QED BY <1>2, <2>1, OneRoad
<1> QED BY <1>3, <1>4 DEF Moves, WriteFiles, Regenerate, RemoveRules, StopAgent, RemoveContainer, StopProxy,
           RemoveNetwork, CreateNetwork, StartProxy, RunAgent, AddRules, StopAll, Sweep

\* RoadInv is inductive.
LEMMA RoadInvStep ==
    ASSUME OneCaller, Inv, RoadInv, [Next]_vars
    PROVE  RoadInv'
<1>1. call \in [Callers -> Frame]
  BY DEF Inv, TypeOK, FramesOK
<1>2. ASSUME NEW c \in Callers, Return(c) \/ Crash(c) PROVE RoadInv'
  BY <1>1, <1>2, IdleRoad, OneRoad DEF Return, Crash
<1>3. ASSUME NEW c \in Callers, Step(c) PROVE RoadInv'
  BY <1>2, <1>3, LoadRoad, MoveRoad DEF Step, Moves
<1>4. CASE Reboot
  BY <1>4, IdleRoad DEF Reboot, RoadInv, Informed
<1>5. ASSUME UNCHANGED <<rec, call>> PROVE RoadInv'
  BY <1>5 DEF RoadInv, Informed, Active, Listed, Readable
<1>6. CASE Environment
  BY <1>2, <1>4, <1>5, <1>6 DEF Environment, GetStatus, AgentExits
<1> QED BY <1>3, <1>5, <1>6, RequestRoad DEF Next, vars

\* Labels before a method has taken anything down or put anything up, and where it ends.
Early(f) ==
    \/ f.pc \in {"idle", "read", "save", "reread", "prep", "unfilter", "list", "halt", "each", "sweep", "err"}
    \/ f.pc = "ok" /\ f.op \notin {"provision", "refresh"}

\* Requests, and the steps that load or save records, lead to such labels.
LEMMA LoadEarly ==
    ASSUME Inv, RoadInv, NEW c \in Callers,
           \/ Request(c) \/ ReadRecord(c) \/ SaveRecord(c) \/ ReadForRefresh(c) \/ ListAgents(c)
           \/ TakeNext(c) \/ Return(c)
    PROVE  Early(call'[c])
<1> DEFINE f == call[c]
<1>1. call \in [Callers -> Frame] /\ Road(f)
  BY DEF Inv, TypeOK, FramesOK, RoadInv
<1>2. ASSUME NEW l \in {"save", "reread", "prep", "unfilter", "each", "sweep", "err", "ok"}, To(c, l),
             l = "ok" => f.op \notin {"provision", "refresh"}
      PROVE  Early(call'[c])
  BY <1>2 DEF Early, To
<1>3. CASE Request(c)
  <2>1. ASSUME NEW op, NEW a, NEW l \in {"save", "read", "reread", "unfilter", "list"}, NEW snap,
               Begin(c, op, l, a, snap)
        PROVE  Early(call'[c])
    BY <1>1, <2>1 DEF Begin, Idle, Early
  <2>2. CASE \E a \in Agents, id \in IDs \cup {NoID} : ProvisionAgent(c, a, id)
    BY <2>1, <2>2 DEF ProvisionAgent
  <2>3. CASE ~ \E a \in Agents, id \in IDs \cup {NoID} : ProvisionAgent(c, a, id)
    BY <1>3, <2>1, <2>3 DEF Request, RemoveAgent, PauseAgent, UnpauseAgent, RefreshAgent, RefreshAll, CycleHost,
                            Teardown
  <2> QED BY <2>2, <2>3
<1>4. CASE ReadRecord(c)
  <2>1. f.op \notin {"provision", "refresh"}
    BY <1>1, <1>4 DEF ReadRecord, At, Road
  <2>2. CASE Goto(c, "err") \/ Goto(c, "ok")
    BY <1>2, <2>1, <2>2, Onward DEF Labels
  <2>3. CASE \E r : call' = [call EXCEPT ![c].snap = r, ![c].pc = "save"]
    BY <1>1, <2>3 DEF Frame, Early
  <2> QED BY <1>4, <2>2, <2>3 DEF ReadRecord
<1>5. CASE SaveRecord(c)
  <2>1. CASE \E l \in {"prep", "unfilter", "reread", "err"} : Goto(c, l)
    BY <1>2, <2>1, Onward DEF Labels
  <2>2. CASE call' = [call EXCEPT ![c] = Idle]
    BY <1>1, <2>2 DEF Early, Idle
  <2> QED BY <1>5, <2>1, <2>2 DEF SaveRecord
<1>6. CASE ReadForRefresh(c)
  <2>1. CASE Fail(c, "err")
    <3>1. To(c, Failed(c, "err")) /\ Failed(c, "err") \in {"err", "each"}
      BY <2>1, Onward DEF Labels, Failed
    <3> QED BY <1>2, <3>1
  <2>2. CASE \E r : call' = [call EXCEPT ![c].snap = r, ![c].pc = "prep"]
    BY <1>1, <2>2 DEF Frame, Early
  <2> QED BY <1>6, <2>1, <2>2 DEF ReadForRefresh
<1>7. CASE ListAgents(c)
  <2> DEFINE T == IF f.op = "teardown" THEN Listed ELSE Active
             m == IF f.op = "cycle" THEN "halt" ELSE "each"
  <2>1. call' = [call EXCEPT ![c].todo = T, ![c].pc = m] /\ m \in {"halt", "each"}
    BY <1>7 DEF ListAgents
  <2> HIDE DEF T, m
  <2>2. call'[c].pc = m
    BY <1>1, <2>1 DEF Frame
  <2> QED BY <2>1, <2>2 DEF Early
<1>8. CASE TakeNext(c)
  <2>1. f.op \notin {"provision", "refresh"}
    BY <1>1, <1>8 DEF TakeNext, At, Road, OnAll
  <2>2. CASE Goto(c, "sweep") \/ Goto(c, "ok")
    BY <1>2, <2>1, <2>2, Onward DEF Labels
  <2>3. CASE \E a \in f.todo, l \in {"unfilter", "reread"} :
                call' = [call EXCEPT ![c].a = a, ![c].todo = f.todo \ {a}, ![c].pc = l]
    BY <1>1, <2>3 DEF Frame, Early
  <2> QED BY <1>8, <2>2, <2>3 DEF TakeNext
<1>9. CASE Return(c)
  BY <1>1, <1>9 DEF Return, Early, Idle
<1> QED BY <1>3, <1>4, <1>5, <1>6, <1>7, <1>8, <1>9

\* With one caller, a frame that has not come to the container yet serves nothing it should.
LEMMA EarlyServes ==
    ASSUME OneCaller, NEW c \in Callers, Early(call'[c])
    PROVE  ServeInv'
BY DEF OneCaller, ServeInv, Serves, Early

\* ServeInv is inductive, if containers do not exit and iptables does not fail.
LEMMA ServeInvStep ==
    ASSUME OneCaller, "exit" \notin Faults, "iptables" \notin Faults,
           Inv, RoadInv, ProxyInv, ServeInv, [Next]_vars
    PROVE  ServeInv'
<1>1. /\ call \in [Callers -> Frame]
      /\ ctr \in [Agents -> ContainerState] /\ pub \in [Agents -> 0 .. MaxPort]
  BY DEF Inv, TypeOK, FramesOK, HostOK
<1>2. ASSUME NEW c \in Callers, Request(c) PROVE ServeInv'
  BY <1>2, LoadEarly, EarlyServes
<1>3. ASSUME NEW c \in Callers, Step(c), ~Moves(c) PROVE ServeInv'
  BY <1>3, LoadEarly, EarlyServes DEF Step, Moves
<1>4. ASSUME NEW c \in Callers, Moves(c) PROVE ServeInv'
  <2> DEFINE f == call[c]
             a == f.a
  <2>1. PICK l \in Labels : To(c, l) /\ Leads(f, l)
    BY <1>4, StepsLead DEF Moves
  <2>2. f \in Frame /\ Road(f) /\ Informed(f) /\ Serves(f)
    BY <1>1 DEF RoadInv, ServeInv
  <2>3. CASE f.op \in {"provision", "refresh"} /\ l \in {"filter", "route", "ok"}
    <3>1. a \in Agents
      BY <2>2, <2>3 DEF Road, OnOne
    <3>2. /\ l = "filter" => f.pc = "run"
          /\ l = "route" => f.pc = "filter"
          /\ l = "ok" => f.pc = "route"
      BY <2>1, <2>2, <2>3 DEF Leads, Road
    <3>3. CASE l = "filter"
      <4>1. RunAgent(c)
        BY <1>4, <3>2, <3>3 DEF Moves, WriteFiles, DeleteFiles, Regenerate, RemoveRules, StopAgent, RemoveContainer,
           StopProxy, RemoveNetwork, CreateNetwork, StartProxy, AddRules, StopAll, Sweep, WipeData, At
      <4>2. ~Fail(c, "err")
        <5>1. Fail(c, "err") => To(c, "err")
          BY <2>3, Onward DEF Labels, Failed, Collecting
        <5> QED BY <2>1, <3>3, <5>1 DEF To
      <4>3. /\ a \in net /\ ctr' = [ctr EXCEPT ![a] = "running"]
            /\ pub' = [pub EXCEPT ![a] = f.snap.port] /\ UNCHANGED <<rec, net, proxy>>
        BY <4>1, <4>2 DEF RunAgent
      <4>4. f.snap = rec[a]
        BY <2>2, <2>3, <3>2, <3>3 DEF Informed, Builds, Refreshing
      <4>5. proxy[a] = "running"
        BY <3>2, <3>3 DEF ProxyInv, Behind, Relies
      <4>6. /\ ctr'[a] = "running" /\ pub'[a] = rec'[a].port /\ a \in net' /\ proxy'[a] = "running"
        BY <1>1, <3>1, <4>3, <4>4, <4>5
      <4> QED BY <2>1, <3>3, <4>6 DEF OneCaller, ServeInv, Serves, Up, To
    <3>4. CASE l = "route"
      <4>1. AddRules(c)
        BY <1>4, <3>2, <3>4 DEF Moves, WriteFiles, DeleteFiles, Regenerate, RemoveRules, StopAgent, RemoveContainer,
           StopProxy, RemoveNetwork, CreateNetwork, StartProxy, RunAgent, StopAll, Sweep, WipeData, At
      <4>2. Up(a)
        BY <2>2, <2>3, <3>2, <3>4 DEF Serves
      <4>3. a \in rules' /\ UNCHANGED <<rec, ctr, pub, net, proxy>>
        BY <4>1, <4>2 DEF AddRules, Fault, Up
      <4>4. ctr'[a] = "running" /\ pub'[a] = rec'[a].port /\ a \in net' /\ proxy'[a] = "running"
        BY <4>2, <4>3 DEF Up
      <4> QED BY <2>1, <3>4, <4>3, <4>4 DEF OneCaller, ServeInv, Serves, Up, To
    <3>5. CASE l = "ok"
      <4>1. Regenerate(c)
        BY <1>4, <3>2, <3>5 DEF Moves, WriteFiles, DeleteFiles, RemoveRules, StopAgent, RemoveContainer,
           StopProxy, RemoveNetwork, CreateNetwork, StartProxy, RunAgent, AddRules, StopAll, Sweep, WipeData, At
      <4>2. Up(a) /\ a \in rules
        BY <2>2, <2>3, <3>2, <3>5 DEF Serves
      <4>3. UNCHANGED <<rec, ctr, pub, net, proxy, rules>>
        BY <4>1 DEF Regenerate, host
      <4>4. a \in rules' /\ ctr'[a] = "running" /\ pub'[a] = rec'[a].port /\ a \in net' /\ proxy'[a] = "running"
        BY <4>2, <4>3 DEF Up
      <4> QED BY <2>1, <3>5, <4>4 DEF OneCaller, ServeInv, Serves, Up, To
    <3> QED BY <2>3, <3>3, <3>4, <3>5
  <2>4. CASE ~(f.op \in {"provision", "refresh"} /\ l \in {"filter", "route", "ok"})
    BY <2>1, <2>4 DEF OneCaller, ServeInv, Serves, To
  <2> QED BY <2>3, <2>4
<1>5. CASE Environment
  <2>1. ASSUME NEW a \in Agents, GetStatus(a) PROVE ServeInv'
    BY <2>1 DEF GetStatus, ServeInv, Serves, Up
  <2>2. ASSUME NEW c \in Callers, Crash(c) PROVE ServeInv'
    BY <1>1, <2>2, EarlyServes DEF Crash, Early, Idle
  <2>3. CASE Reboot
    BY <2>3 DEF Reboot, ServeInv, Serves, Idle
  <2> QED BY <1>5, <2>1, <2>2, <2>3 DEF Environment, AgentExits, Fault
<1>6. CASE UNCHANGED vars
  BY <1>6 DEF vars, host, ServeInv, Serves, Up
<1> QED BY <1>2, <1>3, <1>4, <1>5, <1>6 DEF Next

\* With one caller at a time, containers that stay up and iptables that works, a provision or refresh
\* that returns success leaves the agent serving, whatever else fails, dies or restarts before.
THEOREM SuccessIsServing ==
    ASSUME OneCaller, "exit" \notin Faults, "iptables" \notin Faults
    PROVE  Spec => []ServingOnSuccess
<1>1. Init => RoadInv /\ ProxyInv /\ ServeInv
  <2>1. Init => \A c \in Callers : call[c] = Idle
    BY DEF Init
  <2>2. Path(Idle) /\ Behind(Idle) /\ Serves(Idle)
    BY DEF Path, Behind, Relies, Serves, Idle
  <2>3. Informed(Idle)
    BY IdleRoad DEF Informed
  <2> QED BY <2>1, <2>2, <2>3, IdleRoad DEF RoadInv, ProxyInv, ServeInv
<1>2. Inv /\ RoadInv /\ ProxyInv /\ ServeInv /\ [Next]_vars => RoadInv' /\ ProxyInv' /\ ServeInv'
  BY RoadInvStep, ProxyInvStep, ServeInvStep
<1>3. RoadInv /\ ServeInv => ServingOnSuccess
  <2>1. ASSUME RoadInv, ServeInv, NEW c \in Callers, At(c, "ok"), call[c].op \in {"provision", "refresh"}
        PROVE  call[c].a \in Active /\ Up(call[c].a) /\ call[c].a \in rules
    BY <2>1 DEF RoadInv, Informed, Builds, ServeInv, Serves, At
  <2> QED BY <2>1 DEF ServingOnSuccess, Up
<1> QED BY <1>1, <1>2, <1>3, InvInit, InvStep, PTL DEF Spec

--------------------------------------------------------------------------------
(* Ports and routes. *)

\* Only docker run publishes a port.
LEMMA Lowered ==
    ASSUME Inv, [Next]_vars, \A c \in Callers : ~RunAgent(c), NEW a \in Agents
    PROVE  pub'[a] \in {pub[a], 0}
<1>1. ASSUME NEW S, NEW st, Down(S, st) PROVE pub'[a] \in {pub[a], 0}
  BY <1>1 DEF Down
<1>2. ASSUME UNCHANGED pub PROVE pub'[a] \in {pub[a], 0}
  BY <1>2
<1>3. ASSUME NEW c \in Callers, Request(c) PROVE UNCHANGED pub
  BY <1>3 DEF Request, ProvisionAgent, RemoveAgent, PauseAgent, UnpauseAgent, RefreshAgent, RefreshAll, CycleHost,
              Teardown, Begin, host
<1>4. ASSUME NEW c \in Callers, Step(c) PROVE pub'[a] \in {pub[a], 0}
  <2>1. CASE StopAgent(c) \/ RemoveContainer(c) \/ StopAll(c) \/ Sweep(c)
    BY <1>1, <1>2, <2>1 DEF StopAgent, RemoveContainer, StopAll, Sweep
  <2>2. CASE ~(StopAgent(c) \/ RemoveContainer(c) \/ StopAll(c) \/ Sweep(c))
    <3>1. UNCHANGED pub
      BY <1>4, <2>2 DEF Step, ReadRecord, SaveRecord, ReadForRefresh, WriteFiles, DeleteFiles, Regenerate, RemoveRules,
            StopProxy, RemoveNetwork, CreateNetwork, StartProxy, AddRules, ListAgents, TakeNext, WipeData, Return, host
    <3> QED BY <3>1
  <2> QED BY <2>1, <2>2
<1>5. CASE Environment
  BY <1>1, <1>2, <1>5 DEF Environment, GetStatus, AgentExits, Crash, Reboot, host
<1> QED BY <1>2, <1>3, <1>4, <1>5 DEF Next, vars

\* Steps that write no record and no routing.json, start nothing and keep what is leaving.
LEMMA Calm ==
    ASSUME Inv, RouteInv, UNCHANGED <<rec, routing>>, given \subseteq given',
           \A a \in Agents : pub'[a] \in {pub[a], 0},
           \A a \in Agents : (Removing(a) => Removing(a)') /\ (Pausing(a) => Pausing(a)')
    PROVE  RouteInv'
<1>1. /\ Listed' = Listed /\ Active' = Active
      /\ \A a \in Listed : a \in Agents /\ rec[a].port # 0 /\ rec'[a].port = rec[a].port
  BY DEF Listed, Active, Readable, Record
<1>2. Published' /\ PortsHeld'
  BY <1>1 DEF RouteInv, Published, PortsHeld
<1>3. Routed' /\ Departing'
  BY <1>1 DEF RouteInv, Routed, Departing
<1>4. NoMisdelivery'
  BY DEF RouteInv, NoMisdelivery
<1> QED BY <1>2, <1>3, <1>4 DEF RouteInv

\* An entry of a fresh routing.json is for nobody, or for an active agent on its own port.
LEMMA FreshRoutes ==
    ASSUME Inv, NEW id \in IDs, RoutingOf(rec)[id] # Unrouted
    PROVE  \E x \in Active : RoutingOf(rec)[id] = [agent |-> x, port |-> rec[x].port]
<1> DEFINE holders == {a \in Agents : rec[a] \in Record /\ ~rec[a].paused /\ rec[a].id = id}
           S == {a \in holders : \A b \in holders : b <= a}
           x == CHOOSE a \in S : TRUE
<1>1. RoutingOf(rec)[id] = Entry(rec, S)
  BY DEF RoutingOf
<1>2. S # {}
  BY <1>1 DEF Entry
<1>3. x \in S
  BY <1>2
<1>4. x \in Active
  BY <1>3 DEF Active, Listed, Readable
<1>5. RoutingOf(rec)[id] = [agent |-> x, port |-> rec[x].port]
  BY <1>1, <1>2 DEF Entry
<1> QED BY <1>4, <1>5

\* Between these labels no agent is being taken out of service.
LEMMA NoneLeaves ==
    ASSUME OneCaller, NEW c \in Callers, call[c].pc \notin {"unfilter", "stop", "rm", "unproxy", "route"},
           NEW a
    PROVE  ~Removing(a) /\ ~Pausing(a)
BY DEF OneCaller, Removing, Pausing

\* EmptyInv is inductive.
LEMMA EmptyInvStep ==
    ASSUME OneCaller, Faults \subseteq CallFaults, Inv, RoadInv, EmptyInv, [Next]_vars
    PROVE  EmptyInv'
<1>1. call \in [Callers -> Frame] /\ pub \in [Agents -> 0 .. MaxPort] /\ ctr \in [Agents -> ContainerState]
  BY DEF Inv, TypeOK, FramesOK, HostOK
<1>2. ASSUME NEW c \in Callers, Early(call'[c]) PROVE EmptyInv'
  BY <1>2 DEF OneCaller, EmptyInv, Emptied, Early
<1>3. ASSUME NEW c \in Callers, Moves(c) PROVE EmptyInv'
  <2> DEFINE f == call[c]
  <2>1. PICK l \in Labels : To(c, l) /\ Leads(f, l)
    BY <1>3, StepsLead DEF Moves
  <2>2. f \in Frame /\ Road(f) /\ Emptied(f)
    BY <1>1 DEF RoadInv, EmptyInv
  <2>3. CASE f.op \in {"remove", "pause"} /\ l \in {"unproxy", "netrm", "delete", "route"}
    <3>1. f.a \in Agents
      BY <2>2, <2>3 DEF Road, OnOne
    <3>2. f.pc \in {"stop", "rm", "unproxy", "netrm", "delete"}
      BY <2>1, <2>2, <2>3 DEF Leads, Road, Refreshing, OnAll
    <3>3. CASE f.pc = "stop"
      <4>1. StopAgent(c)
        BY <1>3, <3>3 DEF Moves, WriteFiles, DeleteFiles, Regenerate, RemoveRules, RemoveContainer, StopProxy,
           RemoveNetwork, CreateNetwork, StartProxy, RunAgent, AddRules, StopAll, Sweep, WipeData, At
      <4>2. ~Goto(c, "rm") /\ ~Fail(c, "rm")
        <5>1. (Goto(c, "rm") => To(c, "rm")) /\ (Fail(c, "rm") => To(c, "rm"))
          BY <2>3, Onward DEF Failed, Collecting, Labels
        <5> QED BY <2>1, <2>3, <5>1 DEF To
      <4>3. ctr[f.a] = "absent" /\ UNCHANGED pub
        BY <4>1, <4>2 DEF StopAgent, Fault, CallFaults
      <4>4. pub'[f.a] = 0
        BY <3>1, <4>3 DEF Inv, TypeOK, HostCoupled
      <4> QED BY <2>1, <2>3, <4>4 DEF OneCaller, EmptyInv, Emptied, To
    <3>4. CASE f.pc = "rm"
      <4>1. RemoveContainer(c)
        BY <1>3, <3>4 DEF Moves, WriteFiles, DeleteFiles, Regenerate, RemoveRules, StopAgent, StopProxy,
           RemoveNetwork, CreateNetwork, StartProxy, RunAgent, AddRules, StopAll, Sweep, WipeData, At
      <4>2. Down({f.a}, "absent")
        BY <4>1 DEF RemoveContainer, Fault, CallFaults
      <4>3. pub'[f.a] = 0
        BY <3>1, <4>2 DEF Down
      <4> QED BY <2>1, <2>3, <4>3 DEF OneCaller, EmptyInv, Emptied, To
    <3>5. CASE f.pc \in {"unproxy", "netrm", "delete"}
      <4>1. ~RunAgent(c) /\ pub[f.a] = 0
        BY <2>2, <2>3, <3>5 DEF RunAgent, At, Emptied
      <4>2. pub'[f.a] = 0
        BY <3>1, <4>1, Lowered DEF OneCaller
      <4> QED BY <2>1, <2>3, <4>2 DEF OneCaller, EmptyInv, Emptied, To
    <3> QED BY <3>2, <3>3, <3>4, <3>5
  <2>4. CASE l = "wipe"
    <3>1. f.pc = "sweep" /\ f.op = "teardown"
      BY <2>1, <2>2, <2>4 DEF Leads, Road
    <3>2. Sweep(c)
      BY <1>3, <3>1 DEF Moves, WriteFiles, DeleteFiles, Regenerate, RemoveRules, StopAgent, RemoveContainer,
         StopProxy, RemoveNetwork, CreateNetwork, StartProxy, RunAgent, AddRules, StopAll, WipeData, At
    <3>3. PICK kept \in SUBSET Agents : Down(Agents \ kept, "absent") /\ kept = {}
      BY <3>2 DEF Sweep, Fault, CallFaults
    <3>4. \A a \in Agents : pub'[a] = 0
      BY <3>3 DEF Down
    <3> QED BY <2>1, <2>4, <3>1, <3>4 DEF OneCaller, EmptyInv, Emptied, To
  <2>5. CASE l # "wipe" /\ ~(f.op \in {"remove", "pause"} /\ l \in {"unproxy", "netrm", "delete", "route"})
    BY <2>1, <2>5 DEF OneCaller, EmptyInv, Emptied, To
  <2> QED BY <2>3, <2>4, <2>5
<1>4. ASSUME NEW c \in Callers, Request(c) \/ (Step(c) /\ ~Moves(c)) PROVE EmptyInv'
  BY <1>2, <1>4, LoadEarly DEF Step, Moves
<1>5. ASSUME UNCHANGED call, \A c \in Callers : ~RunAgent(c) PROVE EmptyInv'
  <2>1. \A a \in Agents : pub'[a] \in {pub[a], 0}
    BY <1>5, Lowered
  <2>2. ASSUME NEW c \in Callers, call[c].op \in {"remove", "pause"},
               call[c].pc \in {"unproxy", "netrm", "delete", "route"}
        PROVE  pub'[call[c].a] = 0
    BY <2>1, <2>2 DEF RoadInv, Road, OnOne, EmptyInv, Emptied
  <2> QED BY <1>5, <2>1, <2>2 DEF EmptyInv, Emptied
<1>6. CASE Environment
  <2>1. PICK a \in Agents : GetStatus(a) \/ AgentExits(a)
    BY <1>6 DEF Environment, Crash, Reboot, Fault, CallFaults
  <2>2. UNCHANGED call /\ \A c \in Callers : ~RunAgent(c)
    <3>1. UNCHANGED call
      BY <2>1 DEF GetStatus, AgentExits
    <3>2. ASSUME NEW c \in Callers, RunAgent(c) PROVE call'[c].pc # "run"
      <4>1. Goto(c, "filter") \/ Fail(c, "err")
        BY <3>2 DEF RunAgent
      <4>2. FramesOK
        BY DEF Inv, TypeOK
      <4> QED BY <4>1, <4>2, GotoFrames, FailFrames DEF Labels
    <3> QED BY <3>1, <3>2 DEF RunAgent, At
  <2> QED BY <1>5, <2>2
<1>7. CASE UNCHANGED vars
  BY <1>7 DEF vars, host, EmptyInv, Emptied
<1> QED BY <1>3, <1>4, <1>6, <1>7 DEF Next

\* Saving a record: a new port is above every port published or routed.
LEMMA SaveRoutes ==
    ASSUME OneCaller, Faults \subseteq CallFaults, RegistryInv, RoadInv, PortInv,
           NEW c \in Callers, SaveRecord(c), PortsDistinct'
    PROVE  RouteInv'
<1> DEFINE f == call[c]
           a == f.a
           snap == f.snap
<1>1. /\ f.pc = "save" /\ f.op \in {"provision", "pause", "unpause"} /\ a \in Agents
      /\ (snap.paused <=> f.op = "pause") /\ snap \in Record /\ f \in Frame
      /\ rec \in [Agents -> Record \cup {NoRec, Torn}] /\ pub \in [Agents -> 0 .. MaxPort]
  BY BoundAssumption DEF SaveRecord, At, RoadInv, Road, AtAgent, RegistryInv, Inv, TypeOK, FramesOK, FilesOK, HostOK,
                         HasPort, NeedsPort, Aimed, Frame, Snapshot, Record
<1>2. UNCHANGED <<pub, routing, given>>
  BY DEF SaveRecord, host
<1>3. \A b \in Agents : ~Removing(b) /\ ~Pausing(b)
  BY <1>1, NoneLeaves
<1>4. CASE UNCHANGED rec
  <2>1. RouteInv /\ Inv /\ \A b \in Agents : pub'[b] \in {pub[b], 0}
    BY <1>2 DEF PortInv, RegistryInv
  <2> QED BY <1>2, <1>3, <1>4, <2>1, Calm
<1>5. CASE rec' = [rec EXCEPT ![a] = snap]
  <2>1. /\ rec'[a] = snap /\ a \in Listed' /\ Listed' = Listed \cup {a}
        /\ \A b \in Listed \ {a} : rec'[b] = rec[b]
        /\ \A b \in Listed : b \in Agents /\ rec[b] \in Record /\ rec[b].port \in 1 .. MaxPort
        /\ snap.port \in 1 .. MaxPort
    BY <1>1, <1>5 DEF Listed, Readable, Record
  <2>2. \/ a \in given
        \/ \A b \in Listed : rec[b].port < snap.port
        \/ a \in Listed /\ snap.port = rec[a].port
    <3>1. Current(a, snap)
      BY <1>1 DEF RegistryInv, SnapCurrent, At
    <3> QED BY <2>1, <3>1 DEF Current, Record
  <2>3. /\ \A b \in Agents : pub[b] # 0 => b \in Listed /\ (b \in given \/ pub[b] <= rec[b].port)
        /\ \A b \in Listed \ given, d \in Agents \ given : b # d => pub[d] # rec[b].port
    BY DEF PortInv, RouteInv, Published, PortsHeld
  <2>4. a \in Listed => a \in given \/ rec[a].port <= snap.port
    BY <2>1, <2>2
  <2>5. Published'
    <3>1. ASSUME NEW b \in Agents, pub[b] # 0 PROVE b \in Listed' /\ (b \in given \/ pub[b] <= rec'[b].port)
      BY <1>1, <2>1, <2>3, <2>4, <3>1
    <3> QED BY <1>2, <3>1 DEF Published
  <2>6. PortsHeld'
    <3>1. ASSUME NEW b \in Listed' \ given, NEW d \in Agents \ given, b # d PROVE pub[d] # rec'[b].port
      <4>1. CASE b # a
        BY <2>1, <2>3, <3>1, <4>1
      <4>2. CASE b = a
        BY <1>1, <2>1, <2>2, <2>3, <3>1, <4>2
      <4> QED BY <4>1, <4>2
    <3> QED BY <1>2, <3>1 DEF PortsHeld
  <2>7. Routed'
    <3>1. ASSUME NEW id \in IDs, routing[id] # Unrouted
          PROVE  LET x == routing[id].agent
                     p == routing[id].port
                 IN  /\ x \in Agents /\ p # 0 /\ x \in Listed' /\ (x \in given \/ p <= rec'[x].port)
                     /\ x \in given \/ \A b \in Listed' \ given : b # x => rec'[b].port # p
      <4> DEFINE x == routing[id].agent
                 p == routing[id].port
      <4>1. /\ x \in Listed /\ p # 0 /\ p \in 0 .. MaxPort /\ (x \in given \/ p <= rec[x].port)
            /\ x \in given \/ \A b \in Listed \ given : b # x => rec[b].port # p
        BY <1>3, <3>1 DEF PortInv, RouteInv, Routed, RegistryInv, Inv, TypeOK, FilesOK
      <4>2. x \in Agents /\ x \in Listed' /\ (x \in given \/ p <= rec'[x].port)
        BY <1>1, <2>1, <2>4, <4>1
      <4>3. ASSUME NEW b \in Listed' \ given, b # x, x \notin given PROVE rec'[b].port # p
        <5>1. CASE b # a
          BY <2>1, <4>1, <4>3, <5>1
        <5>2. CASE b = a
          BY <2>1, <2>2, <4>1, <4>3, <5>2
        <5> QED BY <5>1, <5>2
      <4> QED BY <4>1, <4>2, <4>3
    <3> QED BY <1>2, <3>1 DEF Routed
  <2>8. NoMisdelivery'
    BY <1>2 DEF PortInv, RouteInv, NoMisdelivery
  <2>9. Departing'
    <3>1. ASSUME NEW id \in IDs, routing[id] # Unrouted, routing[id].agent \notin Active'
          PROVE  Pausing(routing[id].agent)'
      <4>1. routing[id].agent \in Active
        BY <1>3, <3>1 DEF PortInv, RouteInv, Departing, Routed
      <4>2. routing[id].agent = a /\ snap.paused
        BY <1>1, <2>1, <3>1, <4>1 DEF Active
      <4>3. f.op = "pause"
        BY <1>1, <4>2
      <4>4. Goto(c, "unfilter")
        <5>1. ~Fault("fs") \/ ~UNCHANGED rec
          BY <3>1, <4>1 DEF Active, Listed, Readable
        <5> QED BY <4>3, <5>1 DEF SaveRecord, Fault, CallFaults
      <4>5. To(c, "unfilter")
        BY <4>4, Onward DEF Labels, RegistryInv
      <4> QED BY <1>2, <4>2, <4>3, <4>5 DEF Pausing, To
    <3> QED BY <1>2, <3>1 DEF Departing
  <2> QED BY <2>5, <2>6, <2>7, <2>8, <2>9 DEF RouteInv
<1> QED BY <1>4, <1>5 DEF SaveRecord, Fault, CallFaults

\* Starting a container: its port is that of its record, which nobody else has.
LEMMA RunRoutes ==
    ASSUME RegistryInv, RoadInv, PortInv, NEW c \in Callers, RunAgent(c),
           \A a \in Agents : ~Removing(a) /\ ~Pausing(a)
    PROVE  RouteInv'
<1> DEFINE a == call[c].a
           p == call[c].snap.port
<1>1. /\ a \in Active /\ a \in Agents /\ p = rec[a].port /\ p \in 1 .. MaxPort
      /\ pub \in [Agents -> 0 .. MaxPort] /\ RouteInv
      /\ \A b \in Listed : b \in Agents /\ rec[b].port \in 1 .. MaxPort
  <2>1. Builds(call[c])
    BY DEF RunAgent, At, RoadInv, Road, Builds
  <2>2. a \in Active /\ call[c].snap = rec[a]
    BY <2>1 DEF RoadInv, Informed
  <2> QED BY <2>2 DEF Active, Listed, Readable, Record, RegistryInv, Inv, TypeOK, HostOK, PortInv
<1>2. UNCHANGED <<rec, routing, given>>
  BY DEF RunAgent
<1>3. CASE \A b \in Agents : pub'[b] \in {pub[b], 0}
  BY <1>1, <1>2, <1>3, Calm DEF RegistryInv
<1>4. CASE pub' = [pub EXCEPT ![a] = p]
  <2>1. /\ Listed' = Listed /\ Active' = Active /\ a \in Listed
        /\ \A b \in Listed : rec'[b] = rec[b]
    BY <1>1, <1>2 DEF Listed, Active, Readable
  <2>2. Published'
    BY <1>1, <1>2, <1>4, <2>1 DEF RouteInv, Published
  <2>3. PortsHeld'
    <3>1. ASSUME NEW b \in Listed \ given, NEW d \in Agents \ given, b # d PROVE pub'[d] # rec[b].port
      <4>1. CASE d = a
        BY <1>1, <1>4, <2>1, <3>1, <4>1 DEF RegistryInv, PortsDistinct
      <4>2. CASE d # a
        BY <1>1, <1>4, <3>1, <4>2 DEF RouteInv, PortsHeld
      <4> QED BY <4>1, <4>2
    <3> QED BY <1>2, <2>1, <3>1 DEF PortsHeld
  <2>4. ASSUME NEW id \in IDs, routing[id] # Unrouted
        PROVE  LET x == routing[id].agent
               IN  /\ x \in Active /\ x \in Agents /\ routing[id].port # 0
                   /\ x \in given \/ routing[id].port <= rec[x].port
                   /\ x \in given \/ \A b \in Listed \ given : b # x => rec[b].port # routing[id].port
    BY <1>1, <2>4 DEF RouteInv, Routed, Departing, Active
  <2>5. Routed' /\ Departing'
    <3>1. Routed'
      BY <1>2, <2>1, <2>4 DEF Routed, Active
    <3>2. Departing'
      BY <1>2, <2>1, <2>4 DEF Departing
    <3> QED BY <3>1, <3>2
  <2>6. NoMisdelivery'
    <3>1. ASSUME NEW id \in IDs, NEW b \in Agents, routing[id].port # 0, pub'[b] = routing[id].port
          PROVE  routing[id].agent = b \/ {routing[id].agent, b} \cap given # {}
      <4>1. CASE b = a
        BY <1>1, <1>4, <2>1, <2>4, <3>1, <4>1 DEF Unrouted
      <4>2. CASE b # a
        BY <1>1, <1>4, <3>1, <4>2 DEF RouteInv, NoMisdelivery
      <4> QED BY <4>1, <4>2
    <3> QED BY <1>2, <3>1 DEF NoMisdelivery
  <2> QED BY <2>2, <2>3, <2>5, <2>6 DEF RouteInv
<1> QED BY <1>3, <1>4 DEF RunAgent, Down

\* A routing.json that was just written leads to active agents on their own ports.
LEMMA WriteRoutes ==
    ASSUME Faults \subseteq CallFaults, Inv, PortInv, NEW c \in Callers, Regenerate(c), PortsDistinct
    PROVE  RouteInv'
<1>1. routing' = RoutingOf(rec) /\ UNCHANGED <<rec, pub, given>>
  BY DEF Regenerate, Fault, CallFaults, host
<1>2. /\ Listed' = Listed /\ Active' = Active
      /\ \A b \in Listed : b \in Agents /\ rec[b].port \in 1 .. MaxPort /\ rec'[b] = rec[b]
  BY <1>1 DEF Listed, Active, Readable, Record
<1>3. Published' /\ PortsHeld'
  BY <1>1, <1>2 DEF PortInv, RouteInv, Published, PortsHeld
<1>4. ASSUME NEW id \in IDs, routing'[id] # Unrouted
      PROVE  \E x \in Active : routing'[id] = [agent |-> x, port |-> rec[x].port]
  BY <1>1, <1>4, FreshRoutes
<1>5. Departing'
  <2>1. ASSUME NEW id \in IDs, routing'[id] # Unrouted PROVE routing'[id].agent \in Active'
    <3>1. PICK x \in Active : routing'[id] = [agent |-> x, port |-> rec[x].port]
      BY <1>4, <2>1
    <3>2. routing'[id].agent = x
      BY <3>1
    <3> QED BY <1>2, <3>2
  <2> QED BY <2>1 DEF Departing
<1>6. Routed'
  <2>1. ASSUME NEW id \in IDs, routing'[id] # Unrouted
        PROVE  LET x == routing'[id].agent
                   p == routing'[id].port
               IN  /\ x \in Agents /\ p # 0 /\ x \in Listed' /\ p <= rec'[x].port
                   /\ x \in given \/ \A b \in Listed' \ given : b # x => rec'[b].port # p
    <3>1. PICK x \in Active : routing'[id] = [agent |-> x, port |-> rec[x].port]
      BY <1>4, <2>1
    <3>2. x \in Listed /\ rec'[x] = rec[x] /\ rec[x].port \in 1 .. MaxPort
      BY <1>2 DEF Active
    <3> QED BY <1>2, <3>1, <3>2 DEF PortsDistinct
  <2> QED BY <1>1, <2>1 DEF Routed
<1>7. NoMisdelivery'
  <2>1. ASSUME NEW id \in IDs, NEW a \in Agents, routing'[id].port # 0, pub[a] = routing'[id].port
        PROVE  routing'[id].agent = a \/ {routing'[id].agent, a} \cap given # {}
    <3>1. PICK x \in Active : routing'[id] = [agent |-> x, port |-> rec[x].port]
      BY <1>4, <2>1 DEF Unrouted
    <3>2. x \in Listed
      BY DEF Active
    <3> QED BY <2>1, <3>1, <3>2 DEF PortInv, RouteInv, PortsHeld
  <2> QED BY <1>1, <2>1 DEF NoMisdelivery
<1> QED BY <1>3, <1>5, <1>6, <1>7 DEF RouteInv

\* Deleting a record, or all of them.
LEMMA DeleteRoutes ==
    ASSUME OneCaller, Faults \subseteq CallFaults, Inv, RoadInv, PortInv, NEW c \in Callers,
           DeleteFiles(c) \/ WipeData(c)
    PROVE  RouteInv'
<1> DEFINE f == call[c]
<1>1. /\ Road(f) /\ Emptied(f) /\ rec \in [Agents -> Record \cup {NoRec, Torn}]
      /\ UNCHANGED <<pub, given>> /\ RouteInv
  BY DEF RoadInv, PortInv, EmptyInv, Inv, TypeOK, FilesOK, DeleteFiles, WipeData, host
<1>2. CASE DeleteFiles(c)
  <2>1. f.op = "remove" /\ f.pc = "delete" /\ f.a \in Agents /\ pub[f.a] = 0 /\ UNCHANGED routing
    BY <1>1, <1>2 DEF DeleteFiles, At, Road, AtAgent, Emptied
  <2>2. call'[c].op = "remove" /\ call'[c].pc = "route" /\ call'[c].a = f.a
    <3>1. Goto(c, "route") \/ Fail(c, "route")
      BY <1>2 DEF DeleteFiles
    <3>2. To(c, "route")
      BY <2>1, <3>1, Onward DEF Labels, Failed, Collecting
    <3> QED BY <2>1, <3>2 DEF To
  <2>3. \A a \in Agents : ~Removing(a) /\ ~Pausing(a)
    BY <2>1, NoneLeaves
  <2>4. CASE UNCHANGED rec
    BY <1>1, <2>1, <2>3, <2>4, Calm
  <2>5. CASE rec' = [rec EXCEPT ![f.a] = NoRec]
    <3>1. /\ Listed' = Listed \ {f.a} /\ Active' = Active \ {f.a}
          /\ \A b \in Listed' : b \in Listed /\ rec'[b] = rec[b]
      BY <1>1, <2>1, <2>5, RecordAssumption DEF Listed, Active, Readable
    <3>2. Published' /\ PortsHeld'
      BY <1>1, <2>1, <3>1 DEF RouteInv, Published, PortsHeld
    <3>3. NoMisdelivery'
      BY <1>1, <2>1 DEF RouteInv, NoMisdelivery
    <3>4. Removing(f.a)'
      BY <2>1, <2>2 DEF OneCaller, Removing
    <3>5. ASSUME NEW id \in IDs, routing[id] # Unrouted
          PROVE  LET x == routing[id].agent
                     p == routing[id].port
                 IN  /\ x \in Agents /\ p # 0 /\ x \in Active /\ (x \in given \/ p <= rec[x].port)
                     /\ x \in given \/ \A b \in Listed \ given : b # x => rec[b].port # p
      BY <1>1, <2>3, <3>5 DEF RouteInv, Routed, Departing, Active
    <3>6. \A x : x = f.a => Removing(x)'
      BY <2>1, <2>2 DEF Removing
    <3>7. Routed' /\ Departing'
      BY <1>1, <2>1, <3>1, <3>5, <3>6 DEF Routed, Departing, Active
    <3> QED BY <3>2, <3>3, <3>7 DEF RouteInv
  <2> QED BY <1>2, <2>4, <2>5 DEF DeleteFiles
<1>3. CASE WipeData(c)
  <2>1. f.pc = "wipe" /\ (\A a \in Agents : pub[a] = 0) /\ rec' = [a \in Agents |-> NoRec]
        /\ routing' = [id \in IDs |-> Unrouted]
    BY <1>1, <1>3 DEF WipeData, At, Emptied, Fault, CallFaults
  <2>2. Listed' = {}
    BY <2>1, RecordAssumption DEF Listed, Readable
  <2> QED BY <1>1, <2>1, <2>2 DEF RouteInv, Published, PortsHeld, Routed, NoMisdelivery, Departing, Unrouted
<1> QED BY <1>2, <1>3

\* That the operator named the port of an agent is never forgotten.
LEMMA NamesStay ==
    ASSUME [Next]_vars
    PROVE  given \subseteq given'
<1>1. ASSUME NEW c \in Callers, Request(c) PROVE given \subseteq given'
  BY <1>1 DEF Request, ProvisionAgent, RemoveAgent, PauseAgent, UnpauseAgent, RefreshAgent, RefreshAll, CycleHost,
              Teardown
<1>2. ASSUME NEW c \in Callers, Step(c) PROVE UNCHANGED given
  BY <1>2 DEF Step, ReadRecord, SaveRecord, ReadForRefresh, WriteFiles, DeleteFiles, Regenerate, RemoveRules,
        StopAgent, RemoveContainer, StopProxy, RemoveNetwork, CreateNetwork, StartProxy, RunAgent, AddRules,
        ListAgents, StopAll, TakeNext, Sweep, WipeData, Return
<1>3. ASSUME Environment PROVE UNCHANGED given
  BY <1>3 DEF Environment, GetStatus, AgentExits, Crash, Reboot
<1> QED BY <1>1, <1>2, <1>3 DEF Next, vars

\* PortInv is inductive.
LEMMA PortInvStep ==
    ASSUME OneCaller, Faults \subseteq CallFaults, RegistryInv, RoadInv, PortInv, [Next]_vars
    PROVE  PortInv'
<1>1. /\ Inv /\ EmptyInv /\ RouteInv /\ PortsDistinct /\ PortsDistinct' /\ EmptyInv'
      /\ given \subseteq given'
  <2>1. RegistryInv'
    BY RegistryStep
  <2> QED BY <2>1, EmptyInvStep, NamesStay DEF RegistryInv, PortInv
<1>2. ASSUME UNCHANGED <<rec, routing>>, \A c \in Callers : ~RunAgent(c),
             \A a \in Agents : (Removing(a) => Removing(a)') /\ (Pausing(a) => Pausing(a)')
      PROVE  RouteInv'
  BY <1>1, <1>2, Lowered, Calm
<1>3. ASSUME NEW c \in Callers, call[c].pc \notin {"unfilter", "stop", "rm", "unproxy", "route", "run"},
             UNCHANGED <<rec, routing>>
      PROVE  RouteInv'
  <2>1. \A a \in Agents : ~Removing(a) /\ ~Pausing(a)
    BY <1>3, NoneLeaves
  <2>2. \A d \in Callers : ~RunAgent(d)
    BY <1>3 DEF OneCaller, RunAgent, At
  <2> QED BY <1>2, <1>3, <2>1, <2>2
<1>4. ASSUME NEW c \in Callers, Request(c) PROVE RouteInv'
  <2>1. call[c].pc = "idle" /\ UNCHANGED <<rec, routing>>
    BY <1>4 DEF Request, ProvisionAgent, RemoveAgent, PauseAgent, UnpauseAgent, RefreshAgent, RefreshAll, CycleHost,
                Teardown, Begin, At
  <2> QED BY <1>3, <2>1
<1>5. ASSUME NEW c \in Callers, Step(c) PROVE RouteInv'
  <2>1. CASE SaveRecord(c)
    BY <1>1, <2>1, SaveRoutes
  <2>2. CASE RunAgent(c)
    <3>1. \A a \in Agents : ~Removing(a) /\ ~Pausing(a)
      BY <2>2, NoneLeaves DEF RunAgent, At
    <3> QED BY <2>2, <3>1, RunRoutes
  <2>3. CASE Regenerate(c)
    BY <1>1, <2>3, WriteRoutes
  <2>4. CASE DeleteFiles(c) \/ WipeData(c)
    BY <1>1, <2>4, DeleteRoutes
  <2>5. CASE \/ ReadRecord(c) \/ ReadForRefresh(c) \/ WriteFiles(c) \/ RemoveNetwork(c) \/ CreateNetwork(c)
             \/ StartProxy(c) \/ AddRules(c) \/ ListAgents(c) \/ StopAll(c) \/ TakeNext(c) \/ Sweep(c) \/ Return(c)
    <3>1. call[c].pc \notin {"unfilter", "stop", "rm", "unproxy", "route", "run"} /\ UNCHANGED <<rec, routing>>
      BY <2>5 DEF ReadRecord, ReadForRefresh, WriteFiles, RemoveNetwork, CreateNetwork, StartProxy, AddRules,
                  ListAgents, StopAll, TakeNext, Sweep, Return, At
    <3> QED BY <1>3, <3>1
  <2>6. CASE RemoveRules(c) \/ StopAgent(c) \/ RemoveContainer(c) \/ StopProxy(c)
    <3>1. call[c].pc \in {"unfilter", "stop", "rm", "unproxy"} /\ UNCHANGED <<rec, routing>>
      BY <2>6 DEF RemoveRules, StopAgent, RemoveContainer, StopProxy, At
    <3>2. \A d \in Callers : ~RunAgent(d)
      BY <3>1 DEF OneCaller, RunAgent, At
    <3>3. \A a \in Agents : ~Removing(a)
      BY <3>1 DEF OneCaller, Removing
    <3>4. ASSUME NEW a \in Agents, Pausing(a) PROVE Pausing(a)'
      <4>1. call[c].op = "pause" /\ call[c].a = a
        BY <3>4 DEF OneCaller, Pausing
      <4>2. PICK l \in Labels : To(c, l) /\ Leads(call[c], l)
        BY <1>1, <2>6, StepsLead
      <4>3. l \in {"stop", "rm", "unproxy", "route"}
        BY <3>1, <4>1, <4>2 DEF Leads, Refreshing, OnAll, Collecting
      <4> QED BY <4>1, <4>2, <4>3 DEF Pausing, To
    <3> QED BY <1>2, <3>1, <3>2, <3>3, <3>4
  <2> QED BY <1>5, <2>1, <2>2, <2>3, <2>4, <2>5, <2>6 DEF Step
<1>6. ASSUME Environment PROVE RouteInv'
  <2>1. PICK a \in Agents : GetStatus(a) \/ AgentExits(a)
    BY <1>6 DEF Environment, Crash, Reboot, Fault, CallFaults
  <2>2. UNCHANGED <<rec, routing, call>> /\ \A b \in Agents : pub'[b] \in {pub[b], 0}
    BY <2>1 DEF GetStatus, AgentExits, Down
  <2> QED BY <1>1, <2>2, Calm DEF Removing, Pausing
<1>7. ASSUME UNCHANGED vars PROVE RouteInv'
  <2>1. UNCHANGED <<rec, routing, call, pub>>
    BY <1>7 DEF vars, host
  <2> QED BY <1>1, <2>1, Calm DEF Removing, Pausing
<1>8. RouteInv'
  BY <1>4, <1>5, <1>6, <1>7 DEF Next
<1> QED BY <1>1, <1>8 DEF PortInv

\* What the theorems below rest on.
LEMMA PortInvAlways ==
    ASSUME OneCaller, Faults \subseteq CallFaults
    PROVE  Spec => [](RoadInv /\ PortInv)
<1>1. Init => RegistryInv
  BY InvInit, RecordAssumption DEF RegistryInv, Init, SnapCurrent, At, Idle, PortsDistinct, Listed, Readable
<1>2. Init => RoadInv /\ PortInv
  BY IdleRoad, RecordAssumption
     DEF Init, RoadInv, Informed, PortInv, EmptyInv, Emptied, RouteInv, Published, PortsHeld, Routed, NoMisdelivery,
         Departing, Idle, Unrouted, Listed, Readable
<1>3. RegistryInv /\ RoadInv /\ PortInv /\ [Next]_vars => RegistryInv' /\ RoadInv' /\ PortInv'
  BY RegistryStep, RoadInvStep, PortInvStep DEF RegistryInv
<1> QED BY <1>1, <1>2, <1>3, PTL DEF Spec

\* With one caller at a time whose calls run to their end, and a container that is removed when
\* docker is asked to: the port of a record is never held by another agent's container, if the
\* operator named the port of neither.
THEOREM PortsAreHeld ==
    ASSUME OneCaller, Faults \subseteq CallFaults
    PROVE  Spec => []PortsHeld
<1>1. PortInv => PortsHeld
  BY DEF PortInv, RouteInv
<1> QED BY <1>1, PortInvAlways, PTL

\* Under the same conditions whoever listens on a port in routing.json is the agent the entry was
\* written for, if the operator named the port of neither.
THEOREM RoutesReachTheirAgent ==
    ASSUME OneCaller, Faults \subseteq CallFaults
    PROVE  Spec => []NoMisdelivery
<1>1. PortInv => NoMisdelivery
  BY DEF PortInv, RouteInv
<1> QED BY <1>1, PortInvAlways, PTL

\* Under the same conditions no entry leads to an agent that is paused or removed, between calls.
THEOREM DepartedAreUnrouted ==
    ASSUME OneCaller, Faults \subseteq CallFaults
    PROVE  Spec => []NoRouteToDeparted
<1>1. PortInv => NoRouteToDeparted
  BY DEF PortInv, RouteInv, Departing, NoRouteToDeparted, Removing, Pausing, At
<1> QED BY <1>1, PortInvAlways, PTL
================================================================================
