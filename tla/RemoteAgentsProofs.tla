--------------------------- MODULE RemoteAgentsProofs ---------------------------
(***************************************************************************)
(* Proofs about RemoteAgents, for every set of agents and channel IDs and  *)
(* every kind and number of faults; the last part, that the records        *)
(* implement AgentRegistry, for those that lose no command.                *)
(***************************************************************************)
EXTENDS RemoteAgents, TLAPS

\* Methods that rebuild an agent from its record, and methods on one agent.
Refreshing == {"unpause", "refresh", "refreshAll", "cycle"}
OnOne == {"provision", "remove", "pause", "unpause", "refresh"}
OnAll == {"refreshAll", "cycle", "teardown"}

\* Labels at which a method works at an agent, and those at which it relies on the
\* agent's record.
AtAgent == {"pick", "read", "save", "reread", "prep", "files", "unfilter", "stop", "unproxy", "netrm", "net",
            "renet", "proxy", "rm", "run", "filter", "delete"}
Building == {"prep", "files", "net", "renet", "proxy", "rm", "run", "filter"}
Stopping == {"unfilter", "stop", "unproxy"}

\* A method whose frame says that nothing disturbed it has its host.
FrameOK ==
    /\ call \in Frame /\ link \in {"up", "down"} /\ faults \in 0 .. MaxFaults
    /\ call.clean => link = "up"

RecOK == rec \in [Agents -> Record \cup {NoRec, Torn}]

HostOK ==
    /\ ctr \in [Agents -> ContainerState] /\ pub \in [Agents -> 0 .. MaxPort] /\ rules \subseteq Agents
    /\ \A a \in Agents : (pub[a] # 0 <=> ctr[a] = "running") /\ (a \in rules => ctr[a] = "running")

InfraOK == proxy \in [Agents -> ContainerState] /\ net \subseteq Agents

EdgeOK ==
    /\ routing \in [IDs -> Agents \cup {0}]
    /\ router \in [st : ContainerState, table : [IDs -> Agents \cup {0}]]
    /\ ready \in BOOLEAN

\* Which methods come to which labels.
PathOK ==
    /\ call.pc \in AtAgent \/ call.op \in OnOne => call.a \in Agents
    /\ call.pc \in {"dirs", "sources", "table", "channel"} => call.op = "setup"
    /\ call.pc \in {"pick", "prep", "net", "rm"} => call.op = "provision"
    /\ call.pc = "read" => call.op \in {"pause", "unpause"}
    /\ call.pc = "save" => call.op \in {"provision", "pause", "unpause"}
    /\ call.pc \in {"reread", "files", "renet"} => call.op \in Refreshing
    /\ call.pc \in {"proxy", "run", "filter"} => call.op \in Refreshing \cup {"provision"}
    /\ call.pc \in Stopping => call.op \in Refreshing \cup {"remove", "pause", "teardown"}
    /\ call.pc = "netrm" => call.op \in {"remove", "teardown"}
    /\ call.pc = "delete" => call.op = "remove"
    /\ call.pc \in {"route", "router"} => call.op \in Refreshing \cup {"provision", "remove", "pause"}
    /\ call.pc = "reroute" => call.op = "unpause"
    /\ call.pc = "halt" => call.op = "cycle"
    /\ call.pc \in {"list", "each"} => call.op \in OnAll
    /\ call.pc \in {"sweep", "wipe"} => call.op = "teardown"

\* What a method is about to write is a record, and an active one unless it pauses.
HeldOK ==
    /\ call.pc = "pick" => ~call.snap.paused
    /\ call.pc = "save" => call.snap \in Record /\ (call.op # "pause" => ~call.snap.paused)

\* A method that builds an agent has found, or left, an active record.
RecordedOK ==
    (call.pc \in Building \/ (call.pc \in Stopping /\ call.op \in Refreshing)) => call.a \in Active

\* Rules are added for a container that was run.
RunningOK == call.pc = "filter" => ctr[call.a] = "running"

TypeInv == /\ FrameOK /\ RecOK /\ HostOK /\ InfraOK /\ EdgeOK
           /\ PathOK /\ HeldOK /\ RecordedOK /\ RunningOK

\* The agent is ready to be run: its network is there and its proxy runs on it.
Guarded(a) == a \in net /\ proxy[a] = "running"
Served(a) == a \in Active /\ ctr[a] = "running" /\ pub[a] = rec[a].port /\ Guarded(a)

ServeInv ==
    /\ call.pc \in {"rm", "run"} => Guarded(call.a)
    /\ call.pc = "filter" => Served(call.a)
    /\ (call.pc \in {"route", "router", "ok"} /\ call.op \in {"provision", "refresh"}) => Served(call.a)

\* What stopping and removing has achieved, as long as nothing disturbed it.
GoneInv ==
    call.clean =>
        /\ call.pc \in {"unproxy", "netrm", "renet"} => ctr[call.a] = "absent"
        /\ call.pc \in {"netrm", "renet"} => proxy[call.a] = "absent"
        /\ (call.pc \in {"proxy", "run"} /\ call.op = "refresh") => ctr[call.a] = "absent"
        /\ (call.pc = "err" /\ call.op = "refresh") =>
               (call.a \notin Active \/ ~PortFree(call.a, rec[call.a].port))
        /\ (call.op = "remove" /\ call.pc \in {"delete", "route", "router", "ok"}) =>
               ctr[call.a] = "absent" /\ proxy[call.a] = "absent" /\ call.a \notin net
        /\ (call.op = "remove" /\ call.pc \in {"route", "router", "ok"}) => rec[call.a] = NoRec
        /\ (call.op = "remove" /\ call.pc \in {"router", "ok"}) => \A id \in IDs : routing[id] # call.a
        /\ (call.op = "teardown" /\ call.pc \in {"wipe", "ok"}) =>
               \A a \in Agents : ctr[a] = "absent" /\ proxy[a] = "absent" /\ a \notin net
        /\ (call.op = "teardown" /\ call.pc = "ok") =>
               \A a \in Agents : rec[a] = NoRec /\ \A id \in IDs : routing[id] # a

\* What the router goes by at the end of a method that nothing disturbed.
RouteInv ==
    (call.clean /\ call.op \in {"provision", "remove", "refresh"}) =>
        /\ call.pc \in {"router", "ok"} => routing = RoutingOf(Listed)
        /\ (call.pc = "ok" /\ ready /\ call.op # "refresh") => router = FreshRouter

--------------------------------------------------------------------------------
(* What a step does to the frame. *)

\* The method goes on to label l, with what its frame held.
To(l) ==
    /\ call' \in Frame /\ call'.pc = l
    /\ call'.op = call.op /\ call'.a = call.a /\ call'.todo = call.todo /\ call'.snap = call.snap

\* The frame after Goto and after Spoil.
LEMMA GotoFrame ==
    ASSUME call \in Frame, NEW l \in Labels, Goto(l)
    PROVE  To(l) /\ call'.clean = call.clean
BY DEF Goto, To, Frame

\* The same for a step at which something was lost.
LEMMA SpoilFrame ==
    ASSUME call \in Frame, NEW l \in Labels, Spoil(l)
    PROVE  To(l) /\ ~call'.clean
<1> DEFINE f == [call EXCEPT !.pc = l, !.clean = FALSE]
<1>1. f \in Frame /\ f.pc = l /\ ~f.clean
      /\ f.op = call.op /\ f.a = call.a /\ f.todo = call.todo /\ f.snap = call.snap
  BY DEF Frame
<1>2. call' = f
  BY DEF Spoil
<1> HIDE DEF f
<1> QED BY <1>1, <1>2 DEF To

\* Counting a fault stays within the bound.
LEMMA FaultCount ==
    ASSUME faults \in 0 .. MaxFaults, NEW k, Fault(k)
    PROVE  faults' \in 0 .. MaxFaults
BY BoundAssumption DEF Fault

\* A command that is done leaves the frame as clean as it was.
LEMMA TakesFrame ==
    ASSUME FrameOK, NEW l \in Labels, Takes(l)
    PROVE  FrameOK' /\ To(l) /\ link' = "up" /\ call'.clean = call.clean
BY GotoFrame DEF FrameOK, Takes, Done, To

\* Any other outcome spoils it.
LEMMA SpoiltFrame ==
    ASSUME FrameOK, NEW l \in Labels,
           (Lost /\ Spoil(l)) \/ Undone(l) \/ Half(l) \/ (Unreachable /\ Spoil(l))
               \/ (Fails /\ Spoil(l)) \/ (Regained /\ Spoil(l))
    PROVE  FrameOK' /\ To(l) /\ ~call'.clean
<1>1. Spoil(l)
  BY DEF Undone, Half
<1>2. link' \in {"up", "down"}
  BY DEF FrameOK, Undone, Half, Lost, Unreachable, Fails, Regained
<1>3. faults' \in 0 .. MaxFaults
  BY FaultCount DEF FrameOK, Undone, Half, Lost, Unreachable, Fails, Regained
<1> QED BY <1>1, <1>2, <1>3, SpoilFrame DEF FrameOK, To

\* An outcome of a command that leads to label l.
Moves(l) == Takes(l) \/ Undone(l) \/ Half(l) \/ (Lost /\ Spoil(l)) \/ (Unreachable /\ Spoil(l))
                \/ (Fails /\ Spoil(l)) \/ (Regained /\ Spoil(l))

\* Whatever the outcome, nothing but the label and the mark changes.
LEMMA MovesFrame ==
    ASSUME FrameOK, NEW l \in Labels, Moves(l)
    PROVE  FrameOK' /\ To(l) /\ (call'.clean => call.clean)
BY TakesFrame, SpoiltFrame DEF Moves

\* A step that leaves a part of the state alone keeps its type.
LEMMA Kept ==
    ASSUME RecOK, HostOK, InfraOK, EdgeOK
    PROVE  /\ UNCHANGED rec => RecOK' /\ Listed' = Listed /\ Active' = Active
           /\ UNCHANGED host => HostOK'
           /\ UNCHANGED infra => InfraOK'
           /\ UNCHANGED edge => EdgeOK'
<1>1. UNCHANGED rec => Listed' = Listed
  BY DEF Listed
<1>2. UNCHANGED rec => Active' = Active
  BY <1>1 DEF Active
<1>3. UNCHANGED rec => RecOK'
  BY DEF RecOK
<1>4. UNCHANGED host => HostOK'
  BY DEF host, HostOK
<1>5. UNCHANGED infra => InfraOK'
  BY DEF infra, InfraOK
<1>6. UNCHANGED edge => EdgeOK'
  BY DEF edge, EdgeOK
<1> QED BY <1>1, <1>2, <1>3, <1>4, <1>5, <1>6

\* GenerateRoutingJSON names agents of the list it is given that are active.
LEMMA RoutingNames ==
    ASSUME NEW S \in SUBSET Agents
    PROVE  /\ RoutingOf(S) \in [IDs -> Agents \cup {0}]
           /\ \A id \in IDs : RoutingOf(S)[id] \in (S \cap Active) \cup {0}
<1> DEFINE holders(id) == {a \in S \cap Active : rec[a].id = id}
           last(id) == {a \in holders(id) : \A b \in holders(id) : b <= a}
<1>1. RoutingOf(S) = [id \in IDs |-> IF last(id) = {} THEN 0 ELSE CHOOSE a \in last(id) : TRUE]
  BY DEF RoutingOf
<1>2. ASSUME NEW id \in IDs, last(id) # {}
      PROVE  (CHOOSE a \in last(id) : TRUE) \in S \cap Active
  <2> HIDE DEF last
  <2>1. (CHOOSE a \in last(id) : TRUE) \in last(id)
    BY <1>2
  <2> QED BY <2>1 DEF last
<1> HIDE DEF last
<1>3. \A id \in IDs : RoutingOf(S)[id] \in (S \cap Active) \cup {0}
  BY <1>1, <1>2
<1>4. S \cap Active \subseteq Agents
  OBVIOUS
<1> QED BY <1>1, <1>3, <1>4

\* Taking containers down keeps the host typed.
LEMMA DownTyped ==
    ASSUME HostOK, NEW S, NEW st \in {"absent", "stopped"}, Down(S, st)
    PROVE  HostOK'
BY BoundAssumption DEF HostOK, Down, ContainerState

\* The steps of a method that leave the records alone: from which label, under which
\* method, to which label.
Leads(l) ==
    \/ <<call.pc, l>> \in
           {<<"dirs", "sources">>, <<"sources", "table">>, <<"table", "channel">>, <<"prep", "net">>,
            <<"files", "unfilter">>, <<"unfilter", "stop">>, <<"stop", "unproxy">>, <<"net", "proxy">>,
            <<"renet", "proxy">>, <<"rm", "run">>, <<"run", "filter">>, <<"sweep", "wipe">>}
    \/ call.pc = "reread" /\ l = "files" /\ call.a \in Active
    \/ call.pc = "unproxy" /\ l = "renet" /\ call.op \in Refreshing
    \/ call.pc = "unproxy" /\ l = "netrm" /\ call.op \in {"remove", "teardown"}
    \/ call.pc = "netrm" /\ l = "delete" /\ call.op = "remove"
    \/ call.pc = "proxy" /\ l = "rm" /\ call.op = "provision"
    \/ call.pc = "proxy" /\ l = "run" /\ call.op \in Refreshing
    \/ l = "reroute" /\ call.op = "unpause"
    \/ l = "each" /\ call.op \in OnAll
    \/ l = "route" /\ (call.pc \in {"filter", "delete"} \/ (call.pc = "unproxy" /\ call.op = "pause"))
    \/ l = "router" /\ call.pc = "route"
    \/ l = "ok" /\ call.pc \in {"channel", "read", "route", "reroute", "router"}
    \/ l = "err"

\* Such a step keeps what is said of frame and records.
LEMMA MovedTyped ==
    ASSUME TypeInv, NEW l \in Labels, Moves(l), Leads(l), UNCHANGED rec
    PROVE  /\ FrameOK' /\ RecOK' /\ PathOK' /\ HeldOK' /\ RecordedOK'
           /\ call.pc # "run" => RunningOK'
<1>1. FrameOK' /\ To(l)
  BY MovesFrame DEF TypeInv
<1>2. RecOK' /\ Active' = Active
  BY Kept DEF TypeInv
<1>3. PathOK'
  <2>1. l \in AtAgent \/ call.op \in OnOne => call.a \in Agents
    BY DEF TypeInv, PathOK, Leads, AtAgent, OnOne
  <2>2. /\ l \in {"dirs", "sources", "table", "channel"} => call.op = "setup"
        /\ l \in {"pick", "prep", "net", "rm"} => call.op = "provision"
        /\ l = "read" => call.op \in {"pause", "unpause"}
        /\ l = "save" => call.op \in {"provision", "pause", "unpause"}
        /\ l \in {"reread", "files", "renet"} => call.op \in Refreshing
        /\ l \in {"proxy", "run", "filter"} => call.op \in Refreshing \cup {"provision"}
        /\ l \in Stopping => call.op \in Refreshing \cup {"remove", "pause", "teardown"}
    BY DEF TypeInv, PathOK, Leads, Stopping
  <2>3. /\ l = "netrm" => call.op \in {"remove", "teardown"}
        /\ l = "delete" => call.op = "remove"
        /\ l \in {"route", "router"} => call.op \in Refreshing \cup {"provision", "remove", "pause"}
        /\ l = "reroute" => call.op = "unpause"
        /\ l = "halt" => call.op = "cycle"
        /\ l \in {"list", "each"} => call.op \in OnAll
        /\ l \in {"sweep", "wipe"} => call.op = "teardown"
    BY DEF TypeInv, PathOK, Leads
  <2> QED BY <1>1, <2>1, <2>2, <2>3 DEF To, PathOK
<1>4. HeldOK'
  BY <1>1 DEF To, HeldOK, Leads
<1>5. RecordedOK'
  <2>1. (l \in Building \/ (l \in Stopping /\ call.op \in Refreshing)) => call.a \in Active
    BY DEF TypeInv, RecordedOK, PathOK, Leads, Building, Stopping
  <2> QED BY <1>1, <1>2, <2>1 DEF To, RecordedOK
<1>6. call.pc # "run" => RunningOK'
  BY <1>1 DEF To, RunningOK, Leads
<1> QED BY <1>1, <1>2, <1>3, <1>4, <1>5, <1>6

\* Every step of a method that leaves the records alone goes where Leads says.
LEMMA StepsLead ==
    ASSUME TypeInv
    PROVE  /\ MakeDirs => \E l \in Labels : Moves(l) /\ Leads(l)
           /\ UploadSources => \E l \in Labels : Moves(l) /\ Leads(l)
           /\ InitTable => \E l \in Labels : Moves(l) /\ Leads(l)
           /\ ConfigureChannel => \E l \in Labels : Moves(l) /\ Leads(l)
           /\ ReadForRefresh => \E l \in Labels : Moves(l) /\ Leads(l)
           /\ ProvisionFiles => \E l \in Labels : Moves(l) /\ Leads(l)
           /\ RefreshFiles => \E l \in Labels : Moves(l) /\ Leads(l)
           /\ RemoveRules => \E l \in Labels : Moves(l) /\ Leads(l)
           /\ StopAgent => \E l \in Labels : Moves(l) /\ Leads(l)
           /\ StopProxy => \E l \in Labels : Moves(l) /\ Leads(l)
           /\ RemoveNetwork => \E l \in Labels : Moves(l) /\ Leads(l)
           /\ CreateNetwork => \E l \in Labels : Moves(l) /\ Leads(l)
           /\ RecreateNetwork => \E l \in Labels : Moves(l) /\ Leads(l)
           /\ StartProxy => \E l \in Labels : Moves(l) /\ Leads(l)
           /\ RemoveLeftover => \E l \in Labels : Moves(l) /\ Leads(l)
           /\ RunAgent => \E l \in Labels : Moves(l) /\ Leads(l)
           /\ AddRules => \E l \in Labels : Moves(l) /\ Leads(l)
           /\ Regenerate => \E l \in Labels : Moves(l) /\ Leads(l)
           /\ RestartRouter => \E l \in Labels : Moves(l) /\ Leads(l)
           /\ StopAll => \E l \in Labels : Moves(l) /\ Leads(l)
           /\ Sweep => \E l \in Labels : Moves(l) /\ Leads(l)
<1>1. ASSUME MakeDirs PROVE \E l \in Labels : Moves(l) /\ Leads(l)
  <2>1. PICK l \in {"sources", "err"} : Moves(l) /\ Leads(l)
    BY <1>1 DEF TypeInv, PathOK, MakeDirs, Moves, Leads, At, Refreshing, OnAll
  <2> QED BY <2>1 DEF Labels
<1>2. ASSUME UploadSources PROVE \E l \in Labels : Moves(l) /\ Leads(l)
  <2>1. PICK l \in {"table", "err"} : Moves(l) /\ Leads(l)
    BY <1>2 DEF TypeInv, PathOK, UploadSources, Moves, Leads, At, Refreshing, OnAll
  <2> QED BY <2>1 DEF Labels
<1>3. ASSUME InitTable PROVE \E l \in Labels : Moves(l) /\ Leads(l)
  <2>1. PICK l \in {"channel"} : Moves(l) /\ Leads(l)
    BY <1>3 DEF TypeInv, PathOK, InitTable, Moves, Leads, At, Refreshing, OnAll
  <2> QED BY <2>1 DEF Labels
<1>4. ASSUME ConfigureChannel PROVE \E l \in Labels : Moves(l) /\ Leads(l)
  <2>1. PICK l \in {"ok", "err"} : Moves(l) /\ Leads(l)
    BY <1>4 DEF TypeInv, PathOK, ConfigureChannel, Moves, Leads, At, Refreshing, OnAll
  <2> QED BY <2>1 DEF Labels
<1>5. ASSUME ReadForRefresh PROVE \E l \in Labels : Moves(l) /\ Leads(l)
  <2>1. PICK l \in {"files", "each", "err"} : Moves(l) /\ Leads(l)
    BY <1>5 DEF TypeInv, PathOK, ReadForRefresh, Error, Moves, Leads, At, Refreshing, OnAll
  <2> QED BY <2>1 DEF Labels
<1>6. ASSUME ProvisionFiles PROVE \E l \in Labels : Moves(l) /\ Leads(l)
  <2>1. PICK l \in {"net", "err"} : Moves(l) /\ Leads(l)
    BY <1>6 DEF TypeInv, PathOK, ProvisionFiles, Moves, Leads, At, Refreshing, OnAll
  <2> QED BY <2>1 DEF Labels
<1>7. ASSUME RefreshFiles PROVE \E l \in Labels : Moves(l) /\ Leads(l)
  <2>1. PICK l \in {"unfilter", "each", "err"} : Moves(l) /\ Leads(l)
    BY <1>7 DEF TypeInv, PathOK, RefreshFiles, Error, Moves, Leads, At, Refreshing, OnAll
  <2> QED BY <2>1 DEF Labels
<1>8. ASSUME RemoveRules PROVE \E l \in Labels : Moves(l) /\ Leads(l)
  <2>1. PICK l \in {"stop"} : Moves(l) /\ Leads(l)
    BY <1>8 DEF TypeInv, PathOK, RemoveRules, Moves, Leads, At, Refreshing, OnAll
  <2> QED BY <2>1 DEF Labels
<1>9. ASSUME StopAgent PROVE \E l \in Labels : Moves(l) /\ Leads(l)
  <2>1. PICK l \in {"unproxy", "each", "err"} : Moves(l) /\ Leads(l)
    BY <1>9 DEF TypeInv, PathOK, StopAgent, Error, Moves, Leads, At, Refreshing, OnAll
  <2> QED BY <2>1 DEF Labels
<1>10. ASSUME StopProxy PROVE \E l \in Labels : Moves(l) /\ Leads(l)
  <2>1. PICK l \in {"route", "netrm", "renet"} : Moves(l) /\ Leads(l)
    BY <1>10 DEF TypeInv, PathOK, StopProxy, Stopping, Moves, Leads, At, Refreshing, OnAll
  <2> QED BY <2>1 DEF Labels
<1>11. ASSUME RemoveNetwork PROVE \E l \in Labels : Moves(l) /\ Leads(l)
  <2>1. PICK l \in {"delete", "each"} : Moves(l) /\ Leads(l)
    BY <1>11 DEF TypeInv, PathOK, RemoveNetwork, Moves, Leads, At, Refreshing, OnAll
  <2> QED BY <2>1 DEF Labels
<1>12. ASSUME CreateNetwork PROVE \E l \in Labels : Moves(l) /\ Leads(l)
  <2>1. PICK l \in {"proxy", "err"} : Moves(l) /\ Leads(l)
    BY <1>12 DEF TypeInv, PathOK, CreateNetwork, Moves, Leads, At, Refreshing, OnAll
  <2> QED BY <2>1 DEF Labels
<1>13. ASSUME RecreateNetwork PROVE \E l \in Labels : Moves(l) /\ Leads(l)
  <2>1. PICK l \in {"proxy", "each", "err"} : Moves(l) /\ Leads(l)
    BY <1>13 DEF TypeInv, PathOK, RecreateNetwork, Error, Takes, Moves, Leads, At, Refreshing, OnAll
  <2> QED BY <2>1 DEF Labels
<1>14. ASSUME StartProxy PROVE \E l \in Labels : Moves(l) /\ Leads(l)
  <2>1. PICK l \in {"rm", "run", "each", "err"} : Moves(l) /\ Leads(l)
    BY <1>14 DEF TypeInv, PathOK, StartProxy, Error, Moves, Leads, At, Refreshing, OnAll
  <2> QED BY <2>1 DEF Labels
<1>15. ASSUME RemoveLeftover PROVE \E l \in Labels : Moves(l) /\ Leads(l)
  <2>1. PICK l \in {"run"} : Moves(l) /\ Leads(l)
    BY <1>15 DEF TypeInv, PathOK, RemoveLeftover, Moves, Leads, At, Refreshing, OnAll
  <2> QED BY <2>1 DEF Labels
<1>16. ASSUME RunAgent PROVE \E l \in Labels : Moves(l) /\ Leads(l)
  <2>1. PICK l \in {"filter", "each", "err"} : Moves(l) /\ Leads(l)
    BY <1>16 DEF TypeInv, PathOK, RunAgent, Error, Takes, Moves, Leads, At, Refreshing, OnAll
  <2> QED BY <2>1 DEF Labels
<1>17. ASSUME AddRules PROVE \E l \in Labels : Moves(l) /\ Leads(l)
  <2>1. PICK l \in {"route"} : Moves(l) /\ Leads(l)
    BY <1>17 DEF TypeInv, PathOK, AddRules, Moves, Leads, At, Refreshing, OnAll
  <2> QED BY <2>1 DEF Labels
<1>18. ASSUME Regenerate PROVE \E l \in Labels : Moves(l) /\ Leads(l)
  <2>1. PICK l \in {"router", "each", "reroute", "ok"} : Moves(l) /\ Leads(l)
    BY <1>18 DEF TypeInv, PathOK, Regenerate, AfterRoute, Moves, Leads, At, Refreshing, OnAll
  <2> QED BY <2>1 DEF Labels
<1>19. ASSUME RestartRouter PROVE \E l \in Labels : Moves(l) /\ Leads(l)
  <2>1. PICK l \in {"each", "ok"} : Moves(l) /\ Leads(l)
    BY <1>19 DEF TypeInv, PathOK, RestartRouter, Moves, Leads, At, Refreshing, OnAll
  <2> QED BY <2>1 DEF Labels
<1>20. ASSUME StopAll PROVE \E l \in Labels : Moves(l) /\ Leads(l)
  <2>1. PICK l \in {"each"} : Moves(l) /\ Leads(l)
    BY <1>20 DEF TypeInv, PathOK, StopAll, Moves, Leads, At, Refreshing, OnAll
  <2> QED BY <2>1 DEF Labels
<1>21. ASSUME Sweep PROVE \E l \in Labels : Moves(l) /\ Leads(l)
  <2>1. PICK l \in {"wipe"} : Moves(l) /\ Leads(l)
    BY <1>21 DEF TypeInv, PathOK, Sweep, Moves, Leads, At, Refreshing, OnAll
  <2> QED BY <2>1 DEF Labels
<1> QED BY <1>1, <1>2, <1>3, <1>4, <1>5, <1>6, <1>7, <1>8, <1>9, <1>10, <1>11, <1>12,
           <1>13, <1>14, <1>15, <1>16, <1>17, <1>18, <1>19, <1>20, <1>21

(* The steps, by what they change. *)

\* Steps that write files of no concern here, or only read.
LEMMA FilesTyped ==
    ASSUME TypeInv, MakeDirs \/ UploadSources \/ ReadForRefresh \/ ProvisionFiles \/ RefreshFiles
    PROVE  TypeInv'
<1>1. UNCHANGED <<rec, host, infra, edge>> /\ call.pc # "run"
  BY DEF MakeDirs, UploadSources, ReadForRefresh, ProvisionFiles, RefreshFiles, At
<1>2. FrameOK' /\ RecOK' /\ PathOK' /\ HeldOK' /\ RecordedOK' /\ RunningOK'
  BY <1>1, StepsLead, MovedTyped
<1> QED BY <1>1, <1>2, Kept DEF TypeInv

\* Steps on routing.json and the router.
LEMMA EdgeTyped ==
    ASSUME TypeInv, InitTable \/ ConfigureChannel \/ Regenerate \/ RestartRouter
    PROVE  TypeInv'
<1>1. UNCHANGED <<rec, host, infra>> /\ call.pc # "run"
  BY DEF InitTable, ConfigureChannel, Regenerate, RestartRouter, At
<1>2. FrameOK' /\ RecOK' /\ PathOK' /\ HeldOK' /\ RecordedOK' /\ RunningOK'
  BY <1>1, StepsLead, MovedTyped
<1>3. EdgeOK'
  <2>1. Unrouted \in [IDs -> Agents \cup {0}]
    BY DEF Unrouted
  <2>2. /\ FreshRouter \in [st : ContainerState, table : [IDs -> Agents \cup {0}]]
        /\ NoRouter \in [st : ContainerState, table : [IDs -> Agents \cup {0}]]
    BY DEF TypeInv, EdgeOK, FreshRouter, NoRouter, ContainerState
  <2>3. \A S \in SUBSET Listed : RoutingOf(S) \in [IDs -> Agents \cup {0}]
    BY RoutingNames DEF Listed
  <2>4. CASE InitTable
    BY <2>1, <2>4 DEF InitTable, TypeInv, EdgeOK
  <2>5. CASE ConfigureChannel
    BY <2>2, <2>5 DEF ConfigureChannel, TypeInv, EdgeOK
  <2>6. CASE Regenerate
    BY <2>1, <2>3, <2>6 DEF Regenerate, TypeInv, EdgeOK
  <2>7. CASE RestartRouter
    BY <2>2, <2>7 DEF RestartRouter, TypeInv, EdgeOK
  <2> QED BY <2>4, <2>5, <2>6, <2>7
<1> QED BY <1>1, <1>2, <1>3, Kept DEF TypeInv

\* Steps on proxies and networks.
LEMMA InfraTyped ==
    ASSUME TypeInv, StopProxy \/ RemoveNetwork \/ CreateNetwork \/ RecreateNetwork \/ StartProxy
    PROVE  TypeInv'
<1>1. UNCHANGED <<rec, host, edge>> /\ call.pc # "run" /\ call.pc \in AtAgent
  BY DEF StopProxy, RemoveNetwork, CreateNetwork, RecreateNetwork, StartProxy, At, AtAgent
<1>2. FrameOK' /\ RecOK' /\ PathOK' /\ HeldOK' /\ RecordedOK' /\ RunningOK'
  BY <1>1, StepsLead, MovedTyped
<1>3. call.a \in Agents
  BY <1>1 DEF TypeInv, PathOK
<1>4. InfraOK'
  <2>1. CASE StopProxy
    BY <1>3, <2>1 DEF StopProxy, TypeInv, InfraOK, ContainerState
  <2>2. CASE RemoveNetwork
    BY <1>3, <2>2 DEF RemoveNetwork, TypeInv, InfraOK
  <2>3. CASE CreateNetwork
    BY <1>3, <2>3 DEF CreateNetwork, TypeInv, InfraOK
  <2>4. CASE RecreateNetwork
    BY <1>3, <2>4 DEF RecreateNetwork, TypeInv, InfraOK
  <2>5. CASE StartProxy
    BY <1>3, <2>5 DEF StartProxy, TypeInv, InfraOK, infra, ContainerState
  <2> QED BY <2>1, <2>2, <2>3, <2>4, <2>5
<1> QED BY <1>1, <1>2, <1>4, Kept DEF TypeInv

\* Steps on an agent's container and its rules.
LEMMA HostTyped ==
    ASSUME TypeInv, RemoveRules \/ StopAgent \/ RemoveLeftover \/ RunAgent \/ AddRules
    PROVE  TypeInv'
<1>1. UNCHANGED <<rec, infra, edge>> /\ call.pc \in AtAgent
  BY DEF RemoveRules, StopAgent, RemoveLeftover, RunAgent, AddRules, At, AtAgent
<1>2. FrameOK' /\ RecOK' /\ PathOK' /\ HeldOK' /\ RecordedOK' /\ (call.pc # "run" => RunningOK')
  BY <1>1, StepsLead, MovedTyped
<1>3. call.a \in Agents
  BY <1>1 DEF TypeInv, PathOK
<1>4. CASE RemoveRules
  <2>1. HostOK'
    BY <1>3, <1>4 DEF RemoveRules, TypeInv, HostOK
  <2> QED BY <1>1, <1>2, <1>4, <2>1, Kept DEF TypeInv, RemoveRules, At
<1>5. CASE StopAgent \/ RemoveLeftover
  <2>1. UNCHANGED host \/ \E st \in {"absent", "stopped"} : Down({call.a}, st)
    BY <1>5 DEF StopAgent, RemoveLeftover
  <2>2. HostOK'
    BY <2>1, DownTyped, Kept DEF TypeInv
  <2> QED BY <1>1, <1>2, <1>5, <2>2, Kept DEF TypeInv, StopAgent, RemoveLeftover, At
<1>6. CASE RunAgent
  <2>1. rec[call.a].port \in 1 .. MaxPort
    BY <1>3, <1>6 DEF RunAgent, At, TypeInv, RecordedOK, Building, Active, Listed, Record
  <2>2. \/ UNCHANGED host \/ \E S : Down(S, "stopped")
        \/ /\ ctr' = [ctr EXCEPT ![call.a] = "running"]
           /\ pub' = [pub EXCEPT ![call.a] = rec[call.a].port]
           /\ rules' = rules \ {call.a}
    BY <1>6 DEF RunAgent
  <2>3. HostOK'
    <3>1. CASE UNCHANGED host \/ \E S : Down(S, "stopped")
      BY <3>1, DownTyped, Kept DEF TypeInv
    <3>2. CASE /\ ctr' = [ctr EXCEPT ![call.a] = "running"]
               /\ pub' = [pub EXCEPT ![call.a] = rec[call.a].port]
               /\ rules' = rules \ {call.a}
      BY <1>3, <2>1, <3>2, BoundAssumption DEF TypeInv, HostOK, ContainerState
    <3> QED BY <2>2, <3>1, <3>2
  <2>4. call'.pc = "filter" => /\ Takes("filter")
                               /\ ctr' = [ctr EXCEPT ![call.a] = "running"]
    <3>1. ASSUME NEW l \in {"each", "err"}, Goto(l) \/ Spoil(l) PROVE call'.pc = l
      BY <3>1, GotoFrame, SpoilFrame DEF To, TypeInv, FrameOK, Labels
    <3>2. Error \in {"each", "err"}
      BY DEF Error
    <3> QED BY <1>6, <3>1, <3>2 DEF RunAgent, Undone
  <2>5. RunningOK'
    <3>1. Takes("filter") => call'.a = call.a
      BY TakesFrame DEF TypeInv, To, Labels
    <3> QED BY <1>3, <2>4, <3>1 DEF RunningOK, TypeInv, HostOK
  <2> QED BY <1>1, <1>2, <2>3, <2>5, Kept DEF TypeInv
<1>7. CASE AddRules
  <2>1. ctr[call.a] = "running"
    BY <1>7 DEF TypeInv, RunningOK, AddRules, At
  <2>2. HostOK'
    BY <1>3, <1>7, <2>1 DEF AddRules, TypeInv, HostOK
  <2> QED BY <1>1, <1>2, <1>7, <2>2, Kept DEF TypeInv, AddRules, At
<1> QED BY <1>4, <1>5, <1>6, <1>7

\* Steps on the containers of every agent.
LEMMA SweepTyped ==
    ASSUME TypeInv, StopAll \/ Sweep
    PROVE  TypeInv'
<1>1. UNCHANGED <<rec, routing, ready>> /\ call.pc # "run"
  BY DEF StopAll, Sweep, At
<1>2. FrameOK' /\ RecOK' /\ PathOK' /\ HeldOK' /\ RecordedOK' /\ RunningOK'
  BY <1>1, StepsLead, MovedTyped
<1>3. EdgeOK'
  <2>1. router' \in {router, [router EXCEPT !.st = IF @ = "running" THEN "stopped" ELSE @], NoRouter, FreshRouter}
    BY DEF StopAll, Sweep
  <2> QED BY <1>1, <2>1 DEF TypeInv, EdgeOK, NoRouter, FreshRouter, ContainerState
<1>4. HostOK'
  <2>1. CASE StopAll
    <3> DEFINE present == {a \in call.todo : ctr[a] # "absent"}
    <3>1. UNCHANGED host \/ Down(present, "stopped") \/ \E S \in SUBSET present : Down(S, "stopped")
      BY <2>1 DEF StopAll
    <3> QED BY <3>1, DownTyped, Kept DEF TypeInv
  <2>2. CASE Sweep
    <3>1. UNCHANGED host \/ Down(Agents \ {}, "absent") \/ \E S \in SUBSET Agents : Down(Agents \ S, "absent")
      BY <2>2 DEF Sweep
    <3> QED BY <3>1, DownTyped, Kept DEF TypeInv
  <2> QED BY <2>1, <2>2
<1>5. InfraOK'
  BY DEF StopAll, Sweep, TypeInv, InfraOK, infra, ContainerState
<1> QED BY <1>2, <1>3, <1>4, <1>5 DEF TypeInv

\* The frame of a provision with a named port.
LEMMA NamedFrame ==
    ASSUME NEW a \in Agents, NEW id \in IDs \cup {NoID}, NEW p \in 1 .. MaxPort, ProvisionWithPort(a, id, p)
    PROVE  /\ call' \in Frame /\ call'.op = "provision" /\ call'.pc = "save" /\ call'.a = a
           /\ call'.snap \in Record /\ ~call'.snap.paused
           /\ call'.clean <=> link = "up"
           /\ UNCHANGED <<rec, host, infra, edge, link, faults>>
<1> DEFINE s == [Idle.snap EXCEPT !.port = p, !.id = id]
           b == link = "up"
           f == [Idle EXCEPT !.op = "provision", !.pc = "save", !.a = a, !.clean = link = "up",
                             !.snap.port = p, !.snap.id = id]
<1>1. call' = f /\ UNCHANGED <<rec, host, infra, edge, link, faults>>
  BY DEF ProvisionWithPort
<1>2. Idle \in Frame
  BY BoundAssumption DEF Idle, Frame, Snapshot, Ops, Labels
<1>3. s \in Snapshot /\ s.port = p
  <2>1. Idle.snap \in Snapshot
    BY <1>2 DEF Frame
  <2>2. ASSUME NEW t \in Snapshot
        PROVE  [t EXCEPT !.port = p, !.id = id] \in Snapshot /\ [t EXCEPT !.port = p, !.id = id].port = p
    <3>1. p \in 0 .. MaxPort
      BY BoundAssumption
    <3> DEFINE u == [t EXCEPT !.port = p]
    <3>2. u \in Snapshot /\ u.port = p
      BY <3>1 DEF Snapshot
    <3>3. [u EXCEPT !.id = id] \in Snapshot /\ [u EXCEPT !.id = id].port = p
      <4> HIDE DEF u
      <4> QED BY <3>2 DEF Snapshot
    <3>4. [t EXCEPT !.port = p, !.id = id] = [u EXCEPT !.id = id]
      BY DEF Snapshot
    <3> QED BY <3>3, <3>4
  <2> QED BY <2>1, <2>2
<1>4. s \in Record /\ ~s.paused /\ b \in BOOLEAN
  <2>1. Idle.snap \in Snapshot /\ ~Idle.snap.paused
    BY <1>2 DEF Idle, Frame
  <2>2. s.paused = Idle.snap.paused
    BY <2>1 DEF Snapshot
  <2> HIDE DEF s
  <2> QED BY <1>3, <2>1, <2>2 DEF Snapshot, Record
<1>5. f = [Idle EXCEPT !.op = "provision", !.pc = "save", !.a = a, !.clean = b, !.snap = s]
  BY DEF Idle
<1>6. f \in Frame /\ f.op = "provision" /\ f.pc = "save" /\ f.a = a /\ f.snap = s /\ (f.clean <=> b)
  <2> HIDE DEF s, b, f
  <2> QED BY <1>2, <1>3, <1>4, <1>5 DEF Frame, Ops, Labels
<1>7. f.snap \in Record /\ ~f.snap.paused /\ (f.clean <=> link = "up")
  <2> HIDE DEF s, f
  <2> QED BY <1>4, <1>6
<1> HIDE DEF f, s, b
<1> QED BY <1>1, <1>6, <1>7

\* A method is called, or is gone.
LEMMA FrameTyped ==
    ASSUME TypeInv, Request \/ Return \/ Crash
    PROVE  TypeInv'
<1>1. Idle \in Frame
  BY BoundAssumption DEF Idle, Frame, Snapshot, Ops, Labels
<1>2. ASSUME NEW op \in Ops, NEW l \in {"dirs", "list", "pick", "unfilter", "read", "reread"},
             NEW a \in Agents \cup {0}, NEW id \in IDs \cup {NoID},
             Begin(op, l, a, id), a \in Agents \/ l \in {"dirs", "list"},
             <<op, l>> \in {<<"setup", "dirs">>, <<"provision", "pick">>, <<"remove", "unfilter">>,
                            <<"pause", "read">>, <<"unpause", "read">>, <<"refresh", "reread">>,
                            <<"refreshAll", "list">>, <<"cycle", "list">>, <<"teardown", "list">>}
      PROVE  TypeInv'
  <2> DEFINE snap == [Idle.snap EXCEPT !.id = id]
               f == [Idle EXCEPT !.op = op, !.pc = l, !.a = a, !.clean = link = "up", !.snap.id = id]
  <2>1. /\ f.op = op /\ f.pc = l /\ f.a = a /\ f.todo = {} /\ (f.clean <=> link = "up")
        /\ f.snap = [paused |-> FALSE, port |-> 0, id |-> id]
    BY DEF Idle
  <2>2. f \in Frame
    <3> DEFINE s == [Idle.snap EXCEPT !.id = id]
               b == link = "up"
    <3>1. s \in Snapshot
      BY <1>1 DEF Frame, Snapshot
    <3>2. f = [Idle EXCEPT !.op = op, !.pc = l, !.a = a, !.clean = b, !.snap = s]
      BY DEF Idle
    <3>3. b \in BOOLEAN
      OBVIOUS
    <3> HIDE DEF s, b, f
    <3> QED BY <1>1, <3>1, <3>2, <3>3 DEF Frame, Labels
  <2>3. call' = f /\ UNCHANGED <<rec, host, infra, edge, link, faults>>
    BY <1>2 DEF Begin
  <2> HIDE DEF f
  <2>4. FrameOK'
    BY <2>1, <2>2, <2>3 DEF TypeInv, FrameOK
  <2>5. PathOK'
    BY <1>2, <2>1, <2>3 DEF PathOK, AtAgent, OnOne, OnAll, Stopping, Refreshing
  <2>6. HeldOK' /\ RecordedOK' /\ RunningOK'
    BY <1>2, <2>1, <2>3 DEF HeldOK, RecordedOK, RunningOK, Building, Stopping, Refreshing
  <2> QED BY <2>3, <2>4, <2>5, <2>6, Kept DEF TypeInv
<1>3. CASE Request
  <2>1. ASSUME Setup \/ RefreshAll \/ CycleHost \/ Teardown PROVE TypeInv'
    BY <1>2, <2>1 DEF Setup, RefreshAll, CycleHost, Teardown, Ops
  <2>2. ASSUME NEW a \in Agents, RemoveAgent(a) \/ PauseAgent(a) \/ UnpauseAgent(a) \/ RefreshAgent(a)
        PROVE  TypeInv'
    BY <1>2, <2>2 DEF RemoveAgent, PauseAgent, UnpauseAgent, RefreshAgent, Ops
  <2>3. ASSUME NEW a \in Agents, NEW id \in IDs \cup {NoID}, ProvisionAgent(a, id) PROVE TypeInv'
    BY <1>2, <2>3 DEF ProvisionAgent, Ops
  <2>4. ASSUME NEW a \in Agents, NEW id \in IDs \cup {NoID}, NEW p \in 1 .. MaxPort, ProvisionWithPort(a, id, p)
        PROVE  TypeInv'
    <3>1. FrameOK' /\ PathOK'
      BY <2>4, NamedFrame DEF TypeInv, FrameOK, PathOK, OnAll, Stopping
    <3>2. HeldOK' /\ RecordedOK' /\ RunningOK'
      BY <2>4, NamedFrame DEF HeldOK, RecordedOK, RunningOK, Building, Stopping
    <3> QED BY <2>4, <3>1, <3>2, NamedFrame, Kept DEF TypeInv
  <2> QED BY <1>3, <2>1, <2>2, <2>3, <2>4 DEF Request
<1>4. CASE Return \/ Crash
  <2>1. /\ call' = Idle /\ UNCHANGED <<rec, host, infra, edge, link>>
        /\ faults' = faults \/ Fault("crash")
    BY <1>4 DEF Return, Crash
  <2>2. FrameOK'
    BY <1>1, <2>1, FaultCount DEF TypeInv, FrameOK, Idle
  <2>3. PathOK' /\ HeldOK' /\ RecordedOK' /\ RunningOK'
    BY <2>1 DEF Idle, PathOK, HeldOK, RecordedOK, RunningOK, AtAgent, OnOne, OnAll,
                Building, Stopping, Refreshing
  <2> QED BY <2>1, <2>2, <2>3, Kept DEF TypeInv
<1> QED BY <1>3, <1>4

\* A step that asks the host nothing, or gets its list, changes only the frame.
LEMMA SeenFrame ==
    ASSUME FrameOK, NEW S, Seen(S)
    PROVE  link' \in {"up", "down"} /\ faults' \in 0 .. MaxFaults /\ (Undisturbed => link' = "up")
<1>1. faults' = faults \/ Fault("lost")
  BY DEF Seen, Done, Lost, Unreachable
<1>2. Undisturbed => link' = "up"
  BY DEF Undisturbed, Seen, Done, Lost, Unreachable, Fault, FrameOK
<1>3. link' \in {"up", "down"}
  BY DEF Seen, Done, Lost, Unreachable
<1> QED BY <1>1, <1>2, <1>3, FaultCount DEF FrameOK

\* The port that is picked makes the frame hold an active record.
LEMMA PickTyped == ASSUME TypeInv, PickPort PROVE TypeInv'
<1>1. PICK S \in SUBSET Listed, p \in 1 .. MaxPort :
          /\ Seen(S)
          /\ call' = [call EXCEPT !.pc = "save", !.snap.port = p, !.clean = @ /\ Undisturbed]
  BY DEF PickPort
<1>2. At("pick") /\ UNCHANGED <<rec, host, infra, edge>>
  BY DEF PickPort
<1> DEFINE f == [call EXCEPT !.pc = "save", !.snap.port = p, !.clean = @ /\ Undisturbed]
<1>3. /\ f.pc = "save" /\ f.op = call.op /\ f.a = call.a /\ f.todo = call.todo
      /\ f.snap = [call.snap EXCEPT !.port = p] /\ (f.clean <=> call.clean /\ Undisturbed)
  BY DEF TypeInv, FrameOK, Frame
<1>4. f \in Frame
  <2> DEFINE s == [call.snap EXCEPT !.port = p]
             b == call.clean /\ Undisturbed
  <2>1. s \in Snapshot /\ b \in BOOLEAN
    BY BoundAssumption DEF TypeInv, FrameOK, Frame, Snapshot
  <2>2. f = [call EXCEPT !.pc = "save", !.snap = s, !.clean = b]
    BY DEF TypeInv, FrameOK, Frame
  <2> HIDE DEF s, b, f
  <2> QED BY <2>1, <2>2 DEF TypeInv, FrameOK, Frame, Labels
<1>5. f.snap \in Record /\ ~f.snap.paused
  BY <1>2, <1>3 DEF TypeInv, FrameOK, Frame, Snapshot, Record, HeldOK, At
<1>6. call' = f
  BY <1>1
<1> HIDE DEF f
<1>7. FrameOK'
  BY <1>1, <1>3, <1>4, <1>6, SeenFrame DEF TypeInv, FrameOK
<1>8. PathOK'
  BY <1>2, <1>3, <1>6 DEF At, TypeInv, PathOK, AtAgent, OnOne, OnAll, Stopping
<1>9. HeldOK' /\ RecordedOK' /\ RunningOK'
  BY <1>3, <1>5, <1>6 DEF HeldOK, RecordedOK, RunningOK, Building, Stopping
<1> QED BY <1>2, <1>7, <1>8, <1>9, Kept DEF TypeInv

\* A method that reads a record holds it with the flag it wants.
LEMMA ReadTyped == ASSUME TypeInv, ReadRecord PROVE TypeInv'
<1> DEFINE wanted == call.op = "pause"
           r == [rec[call.a] EXCEPT !.paused = wanted]
<1>1. At("read") /\ UNCHANGED <<rec, host, infra, edge>> /\ call.op \in {"pause", "unpause"}
      /\ call.a \in Agents
  BY DEF ReadRecord, At, TypeInv, PathOK, AtAgent
<1>2. CASE \E l \in {"ok", "err"} : Moves(l)
  <2>1. PICK l \in {"ok", "err"} : Moves(l)
    BY <1>2
  <2> QED BY <1>1, <2>1, MovedTyped, Kept DEF Leads, Labels, At, TypeInv
<1>3. CASE Done /\ call.a \in Listed /\ call' = [call EXCEPT !.pc = "save", !.snap = r]
  <2>1. r \in Record /\ (call.op # "pause" => ~r.paused)
    BY <1>3 DEF Listed, Record
  <2>2. r \in Snapshot
    BY <2>1, BoundAssumption DEF Record, Snapshot
  <2> HIDE DEF r
  <2> DEFINE f == [call EXCEPT !.pc = "save", !.snap = r]
  <2>3. /\ f \in Frame
        /\ f.pc = "save" /\ f.op = call.op /\ f.a = call.a /\ f.todo = call.todo
        /\ f.snap = r /\ f.clean = call.clean
    BY <2>2 DEF TypeInv, FrameOK, Frame, Labels
  <2>4. call' = f
    BY <1>3
  <2> HIDE DEF f
  <2>5. FrameOK'
    BY <1>3, <2>3, <2>4 DEF TypeInv, FrameOK, Done
  <2>6. PathOK'
    BY <1>1, <2>3, <2>4 DEF At, TypeInv, PathOK, AtAgent, OnOne, OnAll, Stopping
  <2>7. HeldOK' /\ RecordedOK' /\ RunningOK'
    BY <2>1, <2>3, <2>4 DEF HeldOK, RecordedOK, RunningOK, Building, Stopping
  <2> QED BY <1>1, <2>5, <2>6, <2>7, Kept DEF TypeInv
<1>4. QED BY <1>2, <1>3 DEF ReadRecord, Moves, Takes

\* A record is written whole, or torn by an upload that breaks; a method goes on to build
\* an agent only from one that was written.
LEMMA SaveTyped == ASSUME TypeInv, SaveRecord PROVE TypeInv'
<1> DEFINE next == IF call.op = "provision" THEN "prep" ELSE IF call.op = "pause" THEN "unfilter" ELSE "reread"
<1>1. /\ call.pc = "save" /\ UNCHANGED <<host, infra, edge>> /\ call.a \in Agents
      /\ call.op \in {"provision", "pause", "unpause"}
      /\ call.snap \in Record /\ (call.op # "pause" => ~call.snap.paused)
  BY DEF SaveRecord, At, TypeInv, PathOK, HeldOK, AtAgent
<1>2. PICK l \in Labels :
          /\ FrameOK' /\ To(l)
          /\ \/ l = next /\ rec' = [rec EXCEPT ![call.a] = call.snap]
             \/ l = "err" /\ (rec' = rec \/ \E r \in {call.snap, Torn} : rec' = [rec EXCEPT ![call.a] = r])
  <2>1. CASE Takes(next) /\ rec' = [rec EXCEPT ![call.a] = call.snap]
    BY <2>1, TakesFrame DEF Labels, TypeInv
  <2>2. CASE (Lost /\ Spoil("err")) \/ Undone("err")
    BY <2>2, SpoiltFrame DEF SaveRecord, Labels, TypeInv
  <2>3. CASE /\ link = "up" /\ Fault("torn") /\ link' \in {"up", "down"}
             /\ rec' = [rec EXCEPT ![call.a] = Torn]
             /\ Spoil("err")
    <3>1. To("err") /\ ~call'.clean
      BY <2>3, SpoilFrame DEF TypeInv, FrameOK, Labels
    <3>2. FrameOK'
      BY <2>3, <3>1, FaultCount DEF TypeInv, FrameOK, To
    <3> QED BY <2>3, <3>1, <3>2 DEF Labels
  <2> QED BY <2>1, <2>2, <2>3 DEF SaveRecord
<1> HIDE DEF next
<1>3. RecOK'
  BY <1>1, <1>2 DEF TypeInv, RecOK
<1>4. PathOK' /\ HeldOK' /\ RunningOK'
  BY <1>1, <1>2 DEF next, To, PathOK, HeldOK, RunningOK, AtAgent, OnOne, OnAll, Stopping, Refreshing
<1>5. RecordedOK'
  <2>1. CASE l = "prep"
    <3>1. call.op = "provision" /\ rec' = [rec EXCEPT ![call.a] = call.snap]
      BY <1>1, <1>2, <2>1 DEF next
    <3>2. rec'[call.a] \in Record /\ ~rec'[call.a].paused
      BY <1>1, <3>1 DEF TypeInv, RecOK
    <3> QED BY <1>1, <1>2, <3>2 DEF To, RecordedOK, Active, Listed
  <2>2. CASE l # "prep"
    BY <1>1, <1>2, <2>2 DEF next, To, RecordedOK, Building, Stopping, Refreshing
  <2> QED BY <2>1, <2>2
<1> QED BY <1>1, <1>2, <1>3, <1>4, <1>5, Kept DEF TypeInv

\* Steps that delete records.
LEMMA DeleteTyped == ASSUME TypeInv, DeleteFiles \/ WipeData PROVE TypeInv'
<1>1. UNCHANGED <<host, infra, router>>
  BY DEF DeleteFiles, WipeData, edge
<1>2. RecOK'
  BY DEF DeleteFiles, WipeData, TypeInv, RecOK
<1>3. EdgeOK'
  BY DEF DeleteFiles, WipeData, TypeInv, EdgeOK, edge, Unrouted
<1>4. PICK l \in {"route", "ok"} : Moves(l) /\ (l = "route" => call.op = "remove")
  BY DEF DeleteFiles, WipeData, Moves, At, TypeInv, PathOK
<1>5. FrameOK' /\ To(l)
  BY <1>4, MovesFrame DEF TypeInv, Labels
<1>6. PathOK' /\ HeldOK' /\ RecordedOK' /\ RunningOK'
  BY <1>4, <1>5 DEF To, TypeInv, PathOK, HeldOK, RecordedOK, RunningOK, AtAgent, OnOne, OnAll,
                Building, Stopping
<1> QED BY <1>1, <1>2, <1>3, <1>5, <1>6, Kept DEF TypeInv

\* The list a method goes through names agents.
LEMMA ListTyped == ASSUME TypeInv, ListAgents PROVE TypeInv'
<1>1. PICK S \in SUBSET Listed :
          /\ Seen(S)
          /\ call' = [call EXCEPT !.todo = IF call.op = "teardown" THEN S ELSE S \cap Active,
                                  !.pc = CASE call.op = "cycle"               -> "halt"
                                           [] call.op = "refreshAll" /\ ready -> "route"
                                           [] OTHER                           -> "each",
                                  !.clean = @ /\ Undisturbed]
  BY DEF ListAgents
<1>2. At("list") /\ UNCHANGED <<rec, host, infra, edge>> /\ call.op \in OnAll
  BY DEF ListAgents, At, TypeInv, PathOK
<1> DEFINE t == IF call.op = "teardown" THEN S ELSE S \cap Active
           l == CASE call.op = "cycle"               -> "halt"
                  [] call.op = "refreshAll" /\ ready -> "route"
                  [] OTHER                           -> "each"
           b == call.clean /\ Undisturbed
<1>3. call' = [call EXCEPT !.todo = t, !.pc = l, !.clean = b]
  BY <1>1
<1>4. t \in SUBSET Agents
  BY DEF Listed
<1>5. b \in BOOLEAN /\ (b => link' = "up")
  BY <1>1, SeenFrame DEF TypeInv, FrameOK, Frame
<1>6. l \in {"halt", "route", "each"} /\ (l = "halt" => call.op = "cycle")
      /\ (l = "route" => call.op = "refreshAll")
  OBVIOUS
<1> HIDE DEF t, l, b
<1>7. /\ call' \in Frame /\ call'.pc = l /\ call'.op = call.op /\ call'.a = call.a
      /\ call'.snap = call.snap /\ call'.clean = b
  BY <1>3, <1>4, <1>5, <1>6 DEF TypeInv, FrameOK, Frame, Labels
<1>8. FrameOK'
  BY <1>1, <1>5, <1>7, SeenFrame DEF TypeInv, FrameOK
<1>9. PathOK' /\ HeldOK' /\ RecordedOK' /\ RunningOK'
  BY <1>2, <1>6, <1>7 DEF TypeInv, PathOK, HeldOK, RecordedOK, RunningOK, AtAgent, OnOne, OnAll,
                          Building, Stopping, Refreshing
<1> QED BY <1>2, <1>8, <1>9, Kept DEF TypeInv

\* An agent taken from the list is one.
LEMMA NextTyped == ASSUME TypeInv, TakeNext PROVE TypeInv'
<1>1. At("each") /\ UNCHANGED <<rec, host, infra, edge, link, faults>> /\ call.op \in OnAll
  BY DEF TakeNext, At, TypeInv, PathOK
<1>2. CASE call.todo = {}
  <2>1. PICK l \in {"sweep", "ok"} : Goto(l) /\ (l = "sweep" => call.op = "teardown")
    BY <1>2 DEF TakeNext
  <2>2. To(l) /\ call'.clean = call.clean
    BY <2>1, GotoFrame DEF TypeInv, FrameOK, Labels
  <2>3. FrameOK'
    BY <1>1, <2>2 DEF TypeInv, FrameOK, To
  <2>4. PathOK' /\ HeldOK' /\ RecordedOK' /\ RunningOK'
    BY <1>1, <2>1, <2>2 DEF To, TypeInv, PathOK, HeldOK, RecordedOK, RunningOK, AtAgent, OnOne, OnAll,
                Building, Stopping
  <2> QED BY <1>1, <2>3, <2>4, Kept DEF TypeInv
<1>3. CASE call.todo # {}
  <2> DEFINE l == IF call.op = "teardown" THEN "unfilter" ELSE "reread"
  <2>1. PICK a \in call.todo : call' = [call EXCEPT !.a = a, !.todo = call.todo \ {a}, !.pc = l]
    BY <1>3 DEF TakeNext
  <2>2. a \in Agents /\ call.todo \ {a} \in SUBSET Agents
    BY DEF TypeInv, FrameOK, Frame
  <2>3. /\ l \in {"unfilter", "reread"}
        /\ l = "unfilter" => call.op = "teardown"
        /\ l = "reread" => call.op \in Refreshing
    BY <1>1 DEF OnAll, Refreshing
  <2> HIDE DEF l
  <2>4. /\ call' \in Frame /\ call'.pc = l /\ call'.op = call.op /\ call'.a = a
        /\ call'.snap = call.snap /\ call'.clean = call.clean
    BY <2>1, <2>2, <2>3 DEF TypeInv, FrameOK, Frame, Labels
  <2>5. FrameOK'
    BY <1>1, <2>4 DEF TypeInv, FrameOK
  <2>6. PathOK' /\ HeldOK' /\ RecordedOK' /\ RunningOK'
    BY <1>1, <2>2, <2>3, <2>4 DEF PathOK, HeldOK, RecordedOK, RunningOK, AtAgent, OnOne, OnAll,
                Building, Stopping, Refreshing
  <2> QED BY <1>1, <2>5, <2>6, Kept DEF TypeInv
<1> QED BY <1>2, <1>3

\* What goes on beside the methods.
LEMMA EnvironmentTyped == ASSUME TypeInv, Environment PROVE TypeInv'
<1>1. ASSUME NEW a \in Agents, GetStatus(a) PROVE TypeInv'
  <2>1. UNCHANGED <<rec, infra, edge, call, link, faults>> /\ At("idle")
    BY <1>1 DEF GetStatus
  <2>2. HostOK'
    BY <1>1 DEF GetStatus, TypeInv, HostOK
  <2>3. PathOK' /\ HeldOK' /\ RecordedOK' /\ RunningOK' /\ FrameOK'
    BY <2>1 DEF At, TypeInv, PathOK, HeldOK, RecordedOK, RunningOK, FrameOK, Building, Stopping
  <2> QED BY <2>1, <2>2, <2>3, Kept DEF TypeInv
<1>2. CASE LinkDrops
  <2>1. /\ call' = [call EXCEPT !.clean = FALSE] /\ link' = "down" /\ Fault("drop")
        /\ UNCHANGED <<rec, host, infra, edge>>
    BY <1>2 DEF LinkDrops
  <2>2. /\ call' \in Frame /\ call'.pc = call.pc /\ call'.op = call.op /\ call'.a = call.a
        /\ call'.snap = call.snap /\ ~call'.clean
    BY <2>1 DEF TypeInv, FrameOK, Frame
  <2>3. FrameOK'
    BY <2>1, <2>2, FaultCount DEF TypeInv, FrameOK
  <2>4. Active' = Active /\ ctr' = ctr
    BY <2>1, Kept DEF TypeInv, host
  <2>5. PathOK' /\ HeldOK' /\ RecordedOK' /\ RunningOK'
    BY <2>2, <2>4 DEF TypeInv, PathOK, HeldOK, RecordedOK, RunningOK
  <2> QED BY <2>1, <2>3, <2>5, Kept DEF TypeInv
<1>3. CASE LinkHeals
  <2>1. link' = "up" /\ UNCHANGED <<rec, host, infra, edge, call, faults>>
    BY <1>3 DEF LinkHeals
  <2>2. Active' = Active /\ ctr' = ctr
    BY <2>1, Kept DEF TypeInv, host
  <2>3. FrameOK' /\ PathOK' /\ HeldOK' /\ RecordedOK' /\ RunningOK'
    BY <2>1, <2>2 DEF TypeInv, FrameOK, PathOK, HeldOK, RecordedOK, RunningOK
  <2> QED BY <2>1, <2>3, Kept DEF TypeInv
<1>4. CASE Reboot
  <2>1. UNCHANGED <<rec, net, routing, ready, link, call>> /\ At("idle") /\ Fault("reboot")
    BY <1>4 DEF Reboot
  <2>2. HostOK'
    BY <1>4, BoundAssumption DEF Reboot, TypeInv, HostOK, ContainerState
  <2>3. InfraOK'
    BY <1>4 DEF Reboot, TypeInv, InfraOK, ContainerState
  <2>4. EdgeOK'
    BY <1>4 DEF Reboot, TypeInv, EdgeOK, ContainerState
  <2>5. FrameOK'
    BY <2>1, FaultCount DEF TypeInv, FrameOK
  <2>6. PathOK' /\ HeldOK' /\ RecordedOK' /\ RunningOK'
    BY <2>1 DEF At, TypeInv, PathOK, HeldOK, RecordedOK, RunningOK, Building, Stopping
  <2> QED BY <2>1, <2>2, <2>3, <2>4, <2>5, <2>6, Kept DEF TypeInv
<1>5. CASE Crash
  BY <1>5, FrameTyped
<1> QED BY <1>1, <1>2, <1>3, <1>4, <1>5 DEF Environment

\* Every step keeps the types.
LEMMA TypeStep == ASSUME TypeInv, [Next]_vars PROVE TypeInv'
<1>1. CASE UNCHANGED vars
  <2>1. UNCHANGED <<rec, host, infra, edge, link, call, faults>> /\ ctr' = ctr
    BY <1>1 DEF vars, host
  <2>2. Active' = Active
    BY <2>1, Kept DEF TypeInv
  <2>3. FrameOK' /\ PathOK' /\ HeldOK' /\ RecordedOK' /\ RunningOK'
    BY <2>1, <2>2 DEF TypeInv, FrameOK, PathOK, HeldOK, RecordedOK, RunningOK
  <2> QED BY <2>1, <2>3, Kept DEF TypeInv
<1>2. CASE Request
  BY <1>2, FrameTyped
<1>3. CASE Step
  BY <1>3, FilesTyped, EdgeTyped, InfraTyped, HostTyped, SweepTyped, FrameTyped, PickTyped, ReadTyped,
     SaveTyped, DeleteTyped, ListTyped, NextTyped DEF Step
<1>4. CASE Environment
  BY <1>4, EnvironmentTyped
<1> QED BY <1>1, <1>2, <1>3, <1>4 DEF Next

\* They hold at the start.
LEMMA TypeInit == Init => TypeInv
<1> SUFFICES ASSUME Init PROVE TypeInv
  OBVIOUS
<1>1. FrameOK
  <2>1. Idle \in Frame
    BY BoundAssumption DEF Idle, Frame, Snapshot, Ops, Labels
  <2> QED BY <2>1, BoundAssumption DEF Init, FrameOK, Idle
<1>2. PathOK /\ HeldOK /\ RecordedOK /\ RunningOK
  BY DEF Init, Idle, PathOK, HeldOK, RecordedOK, RunningOK, AtAgent, OnOne, OnAll,
                Building, Stopping
<1>3. RecOK /\ InfraOK
  BY DEF Init, RecOK, InfraOK, ContainerState
<1>4. HostOK
  BY BoundAssumption DEF Init, HostOK, ContainerState
<1>5. EdgeOK
  <2>1. Unrouted \in [IDs -> Agents \cup {0}]
    BY DEF Unrouted
  <2> QED BY <2>1 DEF Init, EdgeOK, ContainerState
<1> QED BY <1>1, <1>2, <1>3, <1>4, <1>5 DEF TypeInv

\* Every variable has its type, a container publishes a port exactly while it runs,
\* and only a running container has rules, whatever methods are called, commands lost and
\* the host restarted.
THEOREM TypeCorrect == Spec => []TypeOK
<1>1. TypeInv /\ [Next]_vars => TypeInv'
  BY TypeStep
<1>2. TypeInv => TypeOK
  BY DEF TypeInv, TypeOK, FrameOK, RecOK, HostOK, InfraOK, EdgeOK
<1> QED BY TypeInit, <1>1, <1>2, PTL DEF Spec

--------------------------------------------------------------------------------
(* What has been achieved at a label. *)

StageInv == ServeInv /\ GoneInv /\ RouteInv

\* Frames of which StageInv says nothing.
OffStage(f) ==
    \/ f.pc \in {"idle", "dirs", "sources", "table", "channel", "list", "pick", "unfilter", "read", "reread",
                 "save", "prep", "net", "files", "stop", "halt", "each", "sweep"}
    \/ f.pc \in {"proxy", "err"} /\ (f.op # "refresh" \/ (f.pc = "err" /\ ~f.clean))
    \/ f.pc \in {"route", "ok"} /\ f.op \notin {"provision", "remove", "refresh", "teardown"}

\* At a frame off the stage nothing is claimed.
LEMMA OffStageKept == ASSUME OffStage(call') PROVE StageInv'
BY DEF OffStage, StageInv, ServeInv, GoneInv, RouteInv

\* Steps that lead off the stage, or begin or end a method.
LEMMA OffStageSteps ==
    ASSUME TypeInv,
           \/ Request \/ Return \/ Crash \/ MakeDirs \/ UploadSources \/ InitTable \/ ConfigureChannel
           \/ PickPort \/ ReadRecord \/ SaveRecord \/ ProvisionFiles \/ RefreshFiles \/ RemoveRules
           \/ CreateNetwork \/ ListAgents \/ StopAll \/ TakeNext
    PROVE  OffStage(call')
<1>1. CASE Request
  <2>1. ASSUME NEW op, NEW l \in {"dirs", "list", "pick", "unfilter", "read", "reread"}, NEW a, NEW id,
               Begin(op, l, a, id)
        PROVE  OffStage(call')
    BY <2>1 DEF Begin, Idle, OffStage
  <2>2. ASSUME Setup \/ RefreshAll \/ CycleHost \/ Teardown PROVE OffStage(call')
    BY <2>1, <2>2 DEF Setup, RefreshAll, CycleHost, Teardown
  <2>3. ASSUME NEW a \in Agents, RemoveAgent(a) \/ PauseAgent(a) \/ UnpauseAgent(a) \/ RefreshAgent(a)
        PROVE  OffStage(call')
    BY <2>1, <2>3 DEF RemoveAgent, PauseAgent, UnpauseAgent, RefreshAgent
  <2>4. ASSUME NEW a \in Agents, NEW id \in IDs \cup {NoID}, ProvisionAgent(a, id) PROVE OffStage(call')
    BY <2>1, <2>4 DEF ProvisionAgent
  <2>5. ASSUME NEW a \in Agents, NEW id \in IDs \cup {NoID}, NEW p \in 1 .. MaxPort, ProvisionWithPort(a, id, p)
        PROVE  OffStage(call')
    BY <2>5, NamedFrame DEF OffStage
  <2> QED BY <1>1, <2>2, <2>3, <2>4, <2>5 DEF Request
<1>2. CASE Return \/ Crash
  BY <1>2 DEF Return, Crash, Idle, OffStage
<1>3. ASSUME NEW l \in Labels, Moves(l),
             \/ l \in {"sources", "table", "channel", "stop", "net", "unfilter", "each"}
             \/ l \in {"proxy", "err", "ok"} /\ call.op \in {"setup", "provision", "pause", "unpause"}
                /\ ~(l = "ok" /\ call.op = "provision")
             \/ l = "err" /\ ~Takes(l)
      PROVE  OffStage(call')
  <2>1. To(l) /\ (Takes(l) \/ ~call'.clean)
    BY <1>3, MovesFrame, SpoiltFrame DEF TypeInv, Moves
  <2> QED BY <1>3, <2>1 DEF To, OffStage
<1>4. CASE MakeDirs \/ UploadSources \/ InitTable \/ ConfigureChannel
  <2>1. call.op = "setup"
    BY <1>4 DEF MakeDirs, UploadSources, InitTable, ConfigureChannel, At, TypeInv, PathOK
  <2>2. PICK l \in {"sources", "table", "channel", "ok", "err"} : Moves(l)
    BY <1>4 DEF MakeDirs, UploadSources, InitTable, ConfigureChannel, Moves
  <2> QED BY <1>3, <2>1, <2>2 DEF Labels
<1>5. CASE PickPort
  <2>1. call'.pc = "save"
    BY <1>5 DEF PickPort, TypeInv, FrameOK, Frame
  <2> QED BY <2>1 DEF OffStage
<1>6. CASE ReadRecord
  <2>1. call.op \in {"pause", "unpause"}
    BY <1>6 DEF ReadRecord, At, TypeInv, PathOK
  <2>2. CASE \E l \in {"ok", "err"} : Moves(l)
    BY <1>3, <2>1, <2>2 DEF Labels
  <2>3. CASE \E r : call' = [call EXCEPT !.pc = "save", !.snap = r]
    BY <2>3 DEF OffStage, TypeInv, FrameOK, Frame
  <2> QED BY <1>6, <2>2, <2>3 DEF ReadRecord, Moves, Takes
<1>7. CASE SaveRecord
  <2>1. call.op \in {"provision", "pause", "unpause"}
    BY <1>7 DEF SaveRecord, At, TypeInv, PathOK
  <2>2. PICK l \in {"prep", "unfilter", "reread", "err"} : Goto(l) \/ Spoil(l)
    BY <1>7 DEF SaveRecord, Takes, Undone
  <2>3. To(l)
    BY <2>2, GotoFrame, SpoilFrame DEF TypeInv, FrameOK, Labels
  <2> QED BY <2>1, <2>3 DEF To, OffStage
<1>8. CASE ProvisionFiles \/ CreateNetwork
  <2>1. call.op = "provision"
    BY <1>8 DEF ProvisionFiles, CreateNetwork, At, TypeInv, PathOK
  <2>2. PICK l \in {"net", "proxy", "err"} : Moves(l)
    BY <1>8 DEF ProvisionFiles, CreateNetwork, Moves
  <2> QED BY <1>3, <2>1, <2>2 DEF Labels
<1>9. CASE RefreshFiles
  <2>1. CASE \E l \in {"unfilter", "each"} : Moves(l)
    BY <1>3, <2>1 DEF Labels
  <2>2. CASE Undone("err")
    <3>1. ~call'.clean /\ To("err")
      BY <2>2, SpoiltFrame DEF TypeInv, Labels
    <3> QED BY <3>1 DEF To, OffStage
  <2> QED BY <1>9, <2>1, <2>2 DEF RefreshFiles, Error, Moves
<1>10. CASE RemoveRules \/ StopAll
  <2>1. PICK l \in {"stop", "each"} : Moves(l)
    BY <1>10 DEF RemoveRules, StopAll, Moves
  <2> QED BY <1>3, <2>1 DEF Labels
<1>11. CASE ListAgents
  <2>1. call.op \in OnAll
    BY <1>11 DEF ListAgents, At, TypeInv, PathOK
  <2>2. /\ call'.op = call.op
        /\ call'.pc \in {"halt", "route", "each"} /\ (call'.pc = "route" => call.op = "refreshAll")
    BY <1>11 DEF ListAgents, TypeInv, FrameOK, Frame
  <2> QED BY <2>1, <2>2 DEF OffStage, OnAll
<1>12. CASE TakeNext
  <2>1. call.op \in OnAll
    BY <1>12 DEF TakeNext, At, TypeInv, PathOK
  <2>2. /\ call'.op = call.op
        /\ call'.pc \in {"sweep", "ok", "unfilter", "reread"} /\ (call'.pc = "ok" => call.op # "teardown")
    BY <1>12 DEF TakeNext, Goto, TypeInv, FrameOK, Frame
  <2> QED BY <2>1, <2>2 DEF OffStage, OnAll
<1> QED BY <1>1, <1>2, <1>4, <1>5, <1>6, <1>7, <1>8, <1>9, <1>10, <1>11, <1>12

\* The two kinds of outcome of a command, as they show in the frame.
Well(l) == To(l) /\ call'.clean = call.clean
Badly(l) == To(l) /\ ~call'.clean

\* Every outcome of a command is one of the two.
LEMMA Outcomes ==
    ASSUME TypeInv, NEW l \in Labels
    PROVE  /\ Takes(l) => Well(l)
           /\ Done /\ Goto(l) => Well(l)
           /\ (Lost /\ Spoil(l)) \/ Undone(l) \/ Half(l) => Badly(l)
           /\ (Unreachable /\ Spoil(l)) \/ (Fails /\ Spoil(l)) \/ (Regained /\ Spoil(l)) => Badly(l)
BY TakesFrame, SpoiltFrame DEF TypeInv, Well, Badly, Takes

\* A step that fails on the way is off the stage, wherever it leads.
LEMMA SpoiltOffStage ==
    ASSUME NEW l \in {"err", "each"}, Badly(l)
    PROVE  OffStage(call')
BY DEF Badly, To, OffStage

\* RefreshAgent refuses only an agent that has no active record.
LEMMA RefusalStaged == ASSUME TypeInv, ReadForRefresh PROVE StageInv'
<1>1. UNCHANGED rec /\ Error \in {"err", "each"} /\ {"files", "err", "each"} \subseteq Labels
  BY DEF ReadForRefresh, Error, Labels
<1>2. Well("files") \/ (call.a \notin Active /\ Well(Error)) \/ Badly(Error)
  BY <1>1, Outcomes DEF ReadForRefresh
<1>3. Active' = Active
  BY <1>1, Kept DEF TypeInv
<1>4. CASE Well("files") \/ Badly(Error) \/ Error = "each"
  <2>1. OffStage(call')
    BY <1>1, <1>2, <1>4, SpoiltOffStage DEF Well, Badly, To, OffStage
  <2> QED BY <2>1, OffStageKept
<1>5. CASE call.a \notin Active /\ Well("err")
  BY <1>3, <1>5 DEF Well, To, StageInv, ServeInv, GoneInv, RouteInv, OffStage
<1> QED BY <1>1, <1>2, <1>4, <1>5

\* A container is gone after a stop that nothing disturbed.
LEMMA StopStaged == ASSUME TypeInv, StopAgent PROVE StageInv'
<1>1. call.a \in Agents
  BY DEF StopAgent, At, TypeInv, PathOK, AtAgent
<1>2. Error \in {"err", "each"} /\ {"unproxy", "err", "each"} \subseteq Labels
  BY DEF Error, Labels
<1>3. \/ Well("unproxy") /\ Down({call.a}, "absent")
      \/ Badly("unproxy")
      \/ \E l \in {"err", "each"} : Badly(l)
  BY <1>2, Outcomes DEF StopAgent
<1>4. CASE Well("unproxy") /\ Down({call.a}, "absent")
  <2>1. ctr'[call.a] = "absent"
    BY <1>1, <1>4 DEF Down
  <2> QED BY <1>4, <2>1 DEF Well, To, StageInv, ServeInv, GoneInv, RouteInv
<1>5. CASE Badly("unproxy")
  BY <1>5 DEF Badly, To, StageInv, ServeInv, GoneInv, RouteInv
<1> QED BY <1>3, <1>4, <1>5, SpoiltOffStage, OffStageKept

\* So is a proxy.
LEMMA ProxyStopStaged == ASSUME TypeInv, StageInv, StopProxy PROVE StageInv'
<1>1. /\ call.pc = "unproxy" /\ call.a \in Agents /\ UNCHANGED <<rec, host, net, edge>>
      /\ call.op \in Refreshing \cup {"remove", "pause", "teardown"}
  BY DEF StopProxy, At, TypeInv, PathOK, AtAgent, Stopping
<1>2. PICK l \in {"route", "netrm", "renet"} :
          /\ (Well(l) /\ proxy' = [proxy EXCEPT ![call.a] = "absent"]) \/ Badly(l)
          /\ l = "route" => call.op = "pause"
  <2>1. {"route", "netrm", "renet"} \subseteq Labels
    BY DEF Labels
  <2> QED BY <2>1, Outcomes DEF StopProxy
<1>3. CASE l = "route"
  <2>1. OffStage(call')
    BY <1>2, <1>3 DEF Well, Badly, To, OffStage
  <2> QED BY <2>1, OffStageKept
<1>4. CASE Badly(l) /\ l # "route"
  BY <1>2, <1>4 DEF Badly, To, StageInv, ServeInv, GoneInv, RouteInv
<1>5. CASE Well(l) /\ l # "route" /\ proxy' = [proxy EXCEPT ![call.a] = "absent"]
  <2>1. proxy'[call.a] = "absent" /\ (call.clean => ctr'[call.a] = "absent")
    BY <1>1, <1>5 DEF StageInv, GoneInv, TypeInv, InfraOK, host
  <2> QED BY <1>2, <1>5, <2>1 DEF Well, To, StageInv, ServeInv, GoneInv, RouteInv
<1> QED BY <1>2, <1>3, <1>4, <1>5

\* Then nothing is attached and the network can go.
LEMMA NetworkStaged == ASSUME TypeInv, StageInv, RemoveNetwork PROVE StageInv'
<1>1. call.pc = "netrm" /\ call.a \in Agents /\ UNCHANGED <<rec, host, proxy, edge>>
  BY DEF RemoveNetwork, At, TypeInv, PathOK, AtAgent
<1>2. PICK l \in {"delete", "each"} :
          \/ Well(l) /\ net' = IF Attached(call.a) THEN net ELSE net \ {call.a}
          \/ Badly(l)
  <2>1. {"delete", "each"} \subseteq Labels
    BY DEF Labels
  <2> QED BY <2>1, Outcomes DEF RemoveNetwork
<1>3. CASE Badly(l) \/ l = "each"
  BY <1>2, <1>3 DEF Well, Badly, To, StageInv, ServeInv, GoneInv, RouteInv
<1>4. CASE Well("delete") /\ net' = IF Attached(call.a) THEN net ELSE net \ {call.a}
  <2>1. call.clean => ctr'[call.a] = "absent" /\ proxy'[call.a] = "absent" /\ call.a \notin net'
    BY <1>1, <1>4 DEF StageInv, GoneInv, Attached, host
  <2> QED BY <1>4, <2>1 DEF Well, To, StageInv, ServeInv, GoneInv, RouteInv
<1> QED BY <1>2, <1>3, <1>4

\* Nor does an old network stay in the way of a refresh.
LEMMA RecreateStaged == ASSUME TypeInv, StageInv, RecreateNetwork PROVE StageInv'
<1>1. call.pc = "renet" /\ call.a \in Agents /\ UNCHANGED <<rec, host, proxy, edge>>
  BY DEF RecreateNetwork, At, TypeInv, PathOK, AtAgent
<1>2. Error \in {"err", "each"} /\ {"proxy", "err", "each"} \subseteq Labels
  BY DEF Error, Labels
<1>3. \/ Attached(call.a) /\ Well(Error)
      \/ Well("proxy") \/ Badly("proxy") \/ Badly(Error)
  BY <1>2, Outcomes DEF RecreateNetwork
<1>4. call.clean => ctr'[call.a] = "absent" /\ ~Attached(call.a)
  BY <1>1 DEF StageInv, GoneInv, Attached, host
<1>5. CASE Attached(call.a) /\ Well(Error)
  <2>1. Badly(Error)
    BY <1>4, <1>5 DEF Well, Badly, To, TypeInv, FrameOK, Frame
  <2> QED BY <1>2, <2>1, SpoiltOffStage, OffStageKept
<1>6. CASE Well("proxy")
  BY <1>4, <1>6 DEF Well, To, StageInv, ServeInv, GoneInv, RouteInv
<1>7. CASE Badly("proxy")
  BY <1>7 DEF Badly, To, StageInv, ServeInv, GoneInv, RouteInv
<1> QED BY <1>2, <1>3, <1>5, <1>6, <1>7, SpoiltOffStage, OffStageKept

\* No method comes to docker run but by a proxy that was started.
LEMMA ProxyStaged == ASSUME TypeInv, StageInv, StartProxy PROVE StageInv'
<1>1. call.pc = "proxy" /\ call.a \in Agents /\ UNCHANGED <<rec, host, edge>>
  BY DEF StartProxy, At, TypeInv, PathOK, AtAgent
<1>2. Error \in {"err", "each"} /\ {"rm", "run", "err", "each"} \subseteq Labels
  BY DEF Error, Labels
<1>3. \/ \E l \in {"rm", "run"} : /\ Well(l) /\ (l = "rm" => call.op = "provision")
                                  /\ proxy' = [proxy EXCEPT ![call.a] = "running"] /\ net' = net \cup {call.a}
      \/ Badly(Error)
  BY <1>2, Outcomes DEF StartProxy
<1>4. ASSUME NEW l \in {"rm", "run"}, Well(l), l = "rm" => call.op = "provision",
             proxy' = [proxy EXCEPT ![call.a] = "running"], net' = net \cup {call.a}
      PROVE  StageInv'
  <2>1. Guarded(call.a)'
    BY <1>1, <1>4 DEF Guarded, TypeInv, InfraOK, Well, To
  <2>2. call.clean /\ call.op = "refresh" => ctr'[call.a] = "absent"
    BY <1>1 DEF StageInv, GoneInv, host
  <2> QED BY <1>4, <2>1, <2>2 DEF Well, To, StageInv, ServeInv, GoneInv, RouteInv
<1> QED BY <1>2, <1>3, <1>4, SpoiltOffStage, OffStageKept

\* Removing a leftover container leaves network and proxy alone.
LEMMA LeftoverStaged == ASSUME TypeInv, StageInv, RemoveLeftover PROVE StageInv'
<1>1. call.pc = "rm" /\ call.op = "provision" /\ UNCHANGED <<rec, infra, edge>>
  BY DEF RemoveLeftover, At, TypeInv, PathOK
<1>2. Well("run") \/ Badly("run")
  BY Outcomes DEF RemoveLeftover, Labels
<1>3. call'.pc = "run" /\ call'.op = "provision" /\ call'.a = call.a
  BY <1>1, <1>2 DEF Well, Badly, To
<1>4. Guarded(call.a) /\ Guarded(call.a)'
  BY <1>1, <1>3 DEF StageInv, ServeInv, Guarded, infra
<1> QED BY <1>3, <1>4 DEF StageInv, ServeInv, GoneInv, RouteInv

\* docker run needs the container gone and the network there: what is left is its port.
LEMMA RunStaged == ASSUME TypeInv, StageInv, RunAgent PROVE StageInv'
<1> DEFINE a == call.a
           runs == ctr' = [ctr EXCEPT ![a] = "running"] /\ pub' = [pub EXCEPT ![a] = rec[a].port]
           can == ctr[a] = "absent" /\ a \in net /\ PortFree(a, rec[a].port)
<1>1. /\ call.pc = "run" /\ a \in Agents /\ a \in Active /\ UNCHANGED <<rec, infra, edge>>
      /\ Active' = Active
  BY Kept DEF RunAgent, At, TypeInv, PathOK, AtAgent, RecordedOK, Building
<1>2. Error \in {"err", "each"} /\ {"filter", "err", "each"} \subseteq Labels
  BY DEF Error, Labels
<1>3. Guarded(a)
  BY <1>1 DEF StageInv, ServeInv
<1>4. \/ Well("filter") /\ runs
      \/ ~can /\ Well(Error) /\ (UNCHANGED host \/ Down({a}, "stopped"))
      \/ Badly(Error)
  BY <1>2, Outcomes DEF RunAgent
<1>5. CASE Well("filter") /\ runs
  <2>1. Served(call.a)'
    BY <1>1, <1>3, <1>5 DEF Served, Guarded, infra, TypeInv, HostOK, Well, To
  <2> QED BY <1>5, <2>1 DEF Well, To, StageInv, ServeInv, GoneInv, RouteInv
<1>6. CASE ~can /\ Well("err") /\ (UNCHANGED host \/ Down({a}, "stopped"))
  <2>1. call.clean /\ call.op = "refresh" => ~PortFree(a, rec[a].port)
    BY <1>1, <1>3, <1>6 DEF StageInv, GoneInv, Guarded
  <2>2. \A b \in Agents \ {a} : pub'[b] = pub[b]
    BY <1>6 DEF host, Down
  <2>3. call.clean /\ call.op = "refresh" => ~PortFree(call.a, rec[call.a].port)'
    BY <1>1, <1>6, <2>1, <2>2 DEF PortFree, Well, To
  <2> QED BY <1>6, <2>3 DEF Well, To, StageInv, ServeInv, GoneInv, RouteInv
<1>7. CASE Well("each")
  <2>1. OffStage(call')
    BY <1>7 DEF Well, To, OffStage
  <2> QED BY <2>1, OffStageKept
<1> QED BY <1>2, <1>4, <1>5, <1>6, <1>7, SpoiltOffStage, OffStageKept

\* What serves goes on serving while rules, routing.json and router are seen to.
LEMMA ServedKept ==
    ASSUME TypeInv, NEW a, Served(a), UNCHANGED <<rec, ctr, pub, proxy, net>>
    PROVE  Served(a)'
BY Kept DEF Served, Guarded, TypeInv

\* Rules, added or not, do not disturb what serves.
LEMMA RulesStaged == ASSUME TypeInv, StageInv, AddRules PROVE StageInv'
<1>1. /\ call.pc = "filter" /\ call.op \in Refreshing \cup {"provision"}
      /\ UNCHANGED <<rec, ctr, pub, proxy, net>>
  BY DEF AddRules, At, TypeInv, PathOK, infra
<1>2. Well("route") \/ Badly("route")
  BY Outcomes DEF AddRules, Labels
<1>3. call'.pc = "route" /\ call'.op = call.op /\ call'.a = call.a
  BY <1>2 DEF Well, Badly, To
<1>4. Served(call.a)'
  <2>1. Served(call.a)
    BY <1>1 DEF StageInv, ServeInv
  <2> QED BY <1>1, <1>3, <2>1, ServedKept DEF Served, Guarded, Active, Listed
<1> QED BY <1>1, <1>3, <1>4 DEF StageInv, ServeInv, GoneInv, RouteInv, Refreshing

\* The map of the records does not depend on anything else.
LEMMA RoutingKept == ASSUME UNCHANGED rec PROVE RoutingOf(Listed)' = RoutingOf(Listed)
BY DEF RoutingOf, Active, Listed

\* Nobody is routed to who has no record.
LEMMA NotRouted ==
    ASSUME NEW a \in Agents, rec[a] = NoRec
    PROVE  \A id \in IDs : RoutingOf(Listed)[id] # a
<1>1. a \notin Listed /\ Listed \subseteq Agents /\ a # 0
  BY AgentsAssumption, RecordAssumption DEF Listed
<1> QED BY <1>1, RoutingNames

\* Regenerating routing.json makes it that of the records, or says that it may not have.
LEMMA RegenerateStaged == ASSUME TypeInv, StageInv, Regenerate PROVE StageInv'
<1>1. call.pc \in {"route", "reroute"} /\ UNCHANGED <<rec, host, infra, router, ready>>
  BY DEF Regenerate
<1>2. PICK l \in {"router", "each", "reroute", "ok"} :
          /\ (Well(l) /\ routing' = RoutingOf(Listed)) \/ Badly(l)
          /\ l = "ok" => call.op \notin {"provision", "remove"}
          /\ l = "reroute" => call.op = "unpause"
  <2>1. {"router", "each", "reroute", "ok"} \subseteq Labels
    BY DEF Labels
  <2>2. AfterRoute \in {"router", "each", "reroute", "ok"} /\ (AfterRoute = "reroute" => call.op = "unpause")
    BY DEF AfterRoute
  <2>3. AfterRoute = "ok" => call.op \notin {"provision", "remove"}
    BY DEF AfterRoute
  <2> QED BY <2>1, <2>2, <2>3, Outcomes DEF Regenerate
<1>3. call'.pc = l /\ call'.op = call.op /\ call'.a = call.a /\ (call'.clean => call.clean)
  BY <1>2, MovesFrame DEF Well, Badly, To
<1>4. ServeInv'
  <2>1. call.op \in {"provision", "refresh"} => Served(call.a)
    BY <1>1 DEF StageInv, ServeInv, TypeInv, PathOK
  <2>2. call.op \in {"provision", "refresh"} => Served(call.a)'
    BY <1>1, <1>3, <2>1, ServedKept DEF host, infra, Served, Guarded, Active, Listed
  <2> QED BY <1>3, <2>2 DEF ServeInv
<1>5. RouteInv'
  <2>1. call'.clean => routing' = RoutingOf(Listed)'
    BY <1>1, <1>2, RoutingKept DEF Badly
  <2> QED BY <1>2, <1>3, <2>1 DEF RouteInv
<1>6. CASE call.op = "remove" /\ call'.clean
  <2>1. call.a \in Agents /\ call.pc = "route" /\ call.clean
    BY <1>1, <1>3, <1>6 DEF TypeInv, PathOK, OnOne
  <2>2. /\ rec[call.a] = NoRec /\ ctr[call.a] = "absent" /\ proxy[call.a] = "absent" /\ call.a \notin net
    BY <1>6, <2>1 DEF StageInv, GoneInv
  <2>3. \A id \in IDs : routing'[id] # call.a
    BY <1>2, <1>6, <2>1, <2>2, NotRouted DEF Badly
  <2>4. GoneInv'
    BY <1>1, <1>2, <1>3, <1>6, <2>2, <2>3 DEF GoneInv, host, infra
  <2> QED BY <1>4, <1>5, <2>4 DEF StageInv
<1>7. CASE call.op = "teardown"
  BY <1>1, <1>7 DEF TypeInv, PathOK, Refreshing
<1>8. CASE call.op \notin {"remove", "teardown"} \/ ~call'.clean
  <2>1. GoneInv'
    BY <1>2, <1>3, <1>8 DEF GoneInv
  <2> QED BY <1>4, <1>5, <2>1 DEF StageInv
<1> QED BY <1>6, <1>7, <1>8

\* A router is started on the routing.json that is there.
LEMMA RouterStaged == ASSUME TypeInv, StageInv, RestartRouter PROVE StageInv'
<1>1. call.pc = "router" /\ UNCHANGED <<rec, host, infra, routing, ready>>
  BY DEF RestartRouter, At
<1>2. PICK l \in {"each", "ok"} :
          \/ Well(l) /\ router' = IF ready THEN FreshRouter ELSE router
          \/ Badly(l)
  <2>1. {"each", "ok"} \subseteq Labels
    BY DEF Labels
  <2> QED BY <2>1, Outcomes DEF RestartRouter
<1>3. call'.pc = l /\ call'.op = call.op /\ call'.a = call.a /\ (call'.clean => call.clean)
  BY <1>2 DEF Well, Badly, To
<1>4. CASE l = "each"
  <2>1. OffStage(call')
    BY <1>3, <1>4 DEF OffStage
  <2> QED BY <2>1, OffStageKept
<1>5. CASE l = "ok"
  <2>1. ServeInv'
    <3>1. call.op \in {"provision", "refresh"} => Served(call.a)
      BY <1>1 DEF StageInv, ServeInv
    <3>2. call.op \in {"provision", "refresh"} => Served(call.a)'
      BY <1>1, <1>3, <3>1, ServedKept DEF host, infra, Served, Guarded, Active, Listed
    <3> QED BY <1>3, <1>5, <3>2 DEF ServeInv
  <2>2. RouteInv'
    <3>1. (call'.clean /\ call.op \in {"provision", "remove", "refresh"}) => routing' = RoutingOf(Listed)'
      BY <1>1, <1>3, RoutingKept DEF StageInv, RouteInv
    <3>2. (call'.clean /\ ready') => router' = FreshRouter'
      BY <1>1, <1>2 DEF Badly, FreshRouter
    <3> QED BY <1>3, <1>5, <3>1, <3>2 DEF RouteInv
  <2>3. CASE call.op = "teardown"
    BY <1>1, <2>3 DEF TypeInv, PathOK, Refreshing
  <2>4. CASE call.op # "teardown"
    <3>1. GoneInv'
      BY <1>1, <1>3, <1>5, <2>4 DEF StageInv, GoneInv, host, infra
    <3> QED BY <2>1, <2>2, <3>1 DEF StageInv
  <2> QED BY <2>3, <2>4
<1> QED BY <1>2, <1>4, <1>5

\* A sweep that nothing disturbed leaves no container and no network.
LEMMA SweepStaged == ASSUME TypeInv, Sweep PROVE StageInv'
<1>1. call.op = "teardown"
  BY DEF Sweep, At, TypeInv, PathOK
<1>2. \/ /\ Well("wipe") /\ Down(Agents, "absent") /\ net' = {}
         /\ proxy' = [a \in Agents |-> "absent"]
      \/ Badly("wipe")
  <2>1. CASE Takes("wipe") /\ Down(Agents \ {}, "absent") /\ net' = net \cap {}
             /\ proxy' = [a \in Agents |-> IF a \in {} THEN proxy[a] ELSE "absent"]
    <3>1. Agents \ {} = Agents /\ net \cap {} = {}
      OBVIOUS
    <3> QED BY <2>1, <3>1, Outcomes DEF Labels
  <2>2. CASE Half("wipe") \/ (Unreachable /\ Spoil("wipe"))
    BY <2>2, Outcomes DEF Labels
  <2> QED BY <2>1, <2>2 DEF Sweep
<1>3. CASE Well("wipe") /\ Down(Agents, "absent") /\ net' = {} /\ proxy' = [a \in Agents |-> "absent"]
  <2>1. \A a \in Agents : ctr'[a] = "absent" /\ proxy'[a] = "absent" /\ a \notin net'
    BY <1>3 DEF Down
  <2> QED BY <1>1, <1>3, <2>1 DEF Well, To, StageInv, ServeInv, GoneInv, RouteInv
<1>4. CASE Badly("wipe")
  BY <1>4 DEF Badly, To, StageInv, ServeInv, GoneInv, RouteInv
<1> QED BY <1>2, <1>3, <1>4

\* A removal has stopped everything before it deletes the record.
LEMMA DeleteStaged == ASSUME TypeInv, StageInv, DeleteFiles PROVE StageInv'
<1>1. call.pc = "delete" /\ call.op = "remove" /\ call.a \in Agents /\ UNCHANGED <<host, infra, edge>>
  BY DEF DeleteFiles, At, TypeInv, PathOK, OnOne
<1>2. (Well("route") /\ rec' = [rec EXCEPT ![call.a] = NoRec]) \/ Badly("route")
  BY Outcomes DEF DeleteFiles, Labels
<1>3. CASE Well("route") /\ rec' = [rec EXCEPT ![call.a] = NoRec]
  <2>1. rec'[call.a] = NoRec
    BY <1>1, <1>3 DEF TypeInv, RecOK
  <2>2. call.clean => ctr'[call.a] = "absent" /\ proxy'[call.a] = "absent" /\ call.a \notin net'
    BY <1>1 DEF StageInv, GoneInv, host, infra
  <2> QED BY <1>1, <1>3, <2>1, <2>2 DEF Well, To, StageInv, ServeInv, GoneInv, RouteInv
<1>4. CASE Badly("route")
  BY <1>1, <1>4 DEF Badly, To, StageInv, ServeInv, GoneInv, RouteInv
<1> QED BY <1>2, <1>3, <1>4

\* A teardown deletes the records last.
LEMMA WipeStaged == ASSUME TypeInv, StageInv, WipeData PROVE StageInv'
<1>1. call.pc = "wipe" /\ call.op = "teardown" /\ UNCHANGED <<host, infra, router>>
  BY DEF WipeData, At, TypeInv, PathOK
<1>2. (Well("ok") /\ rec' = [a \in Agents |-> NoRec] /\ routing' = Unrouted) \/ Badly("ok")
  BY Outcomes DEF WipeData, Labels
<1>3. CASE Well("ok") /\ rec' = [a \in Agents |-> NoRec] /\ routing' = Unrouted
  <2>1. \A a \in Agents : rec'[a] = NoRec /\ \A id \in IDs : routing'[id] # a
    BY <1>3, AgentsAssumption DEF Unrouted
  <2>2. call.clean => \A a \in Agents : ctr'[a] = "absent" /\ proxy'[a] = "absent" /\ a \notin net'
    BY <1>1 DEF StageInv, GoneInv, host, infra
  <2> QED BY <1>1, <1>3, <2>1, <2>2 DEF Well, To, StageInv, ServeInv, GoneInv, RouteInv
<1>4. CASE Badly("ok")
  BY <1>1, <1>4 DEF Badly, To, StageInv, ServeInv, GoneInv, RouteInv
<1> QED BY <1>2, <1>3, <1>4

\* While nothing but the link and the mark of the frame change, what is achieved stays.
LEMMA StillStaged ==
    ASSUME TypeInv, StageInv, UNCHANGED <<rec, host, infra, edge>>,
           call'.pc = call.pc, call'.op = call.op, call'.a = call.a, call'.clean => call.clean
    PROVE  StageInv'
<1>1. Active' = Active /\ RoutingOf(Listed)' = RoutingOf(Listed)
  BY RoutingKept DEF Active, Listed
<1>2. /\ UNCHANGED <<ctr, pub, proxy, net, routing, router, ready>>
      /\ FreshRouter' = FreshRouter
      /\ \A a, p : PortFree(a, p)' <=> PortFree(a, p)
  BY DEF host, infra, edge, FreshRouter, PortFree
<1>3. ServeInv'
  BY <1>1, <1>2 DEF StageInv, ServeInv, Served, Guarded
<1>4. GoneInv'
  <2> SUFFICES ASSUME call'.clean PROVE GoneInv'
    BY DEF GoneInv
  <2>1. call.clean
    OBVIOUS
  <2>2. PortFree(call.a, rec[call.a].port)' <=> PortFree(call.a, rec[call.a].port)
    BY <1>2 DEF PortFree
  <2> QED BY <1>1, <1>2, <2>1, <2>2 DEF StageInv, GoneInv
<1>5. RouteInv'
  BY <1>1, <1>2 DEF StageInv, RouteInv
<1> QED BY <1>3, <1>4, <1>5 DEF StageInv

\* A lost link is marked; reboots and repairs of rules come between methods.
LEMMA EnvironmentStaged == ASSUME TypeInv, StageInv, Environment PROVE StageInv'
<1>1. ASSUME NEW a \in Agents, GetStatus(a) PROVE OffStage(call')
  BY <1>1 DEF GetStatus, At, OffStage
<1>2. ASSUME Reboot PROVE OffStage(call')
  BY <1>2 DEF Reboot, At, OffStage
<1>3. CASE LinkDrops
  <2>1. call'.pc = call.pc /\ call'.op = call.op /\ call'.a = call.a /\ ~call'.clean
    BY <1>3 DEF LinkDrops, TypeInv, FrameOK, Frame
  <2> QED BY <1>3, <2>1, StillStaged DEF LinkDrops
<1>4. CASE LinkHeals
  BY <1>4, StillStaged DEF LinkHeals
<1>5. ASSUME Crash PROVE OffStage(call')
  BY <1>5, OffStageSteps
<1> QED BY <1>1, <1>2, <1>3, <1>4, <1>5, OffStageKept DEF Environment

\* Every step keeps what is claimed.
LEMMA StageStep == ASSUME TypeInv, StageInv, [Next]_vars PROVE StageInv'
<1>1. CASE UNCHANGED vars
  BY <1>1, StillStaged DEF vars
<1>2. CASE Request
  BY <1>2, OffStageSteps, OffStageKept
<1>3. CASE Step
  BY <1>3, OffStageSteps, OffStageKept, RefusalStaged, StopStaged, ProxyStopStaged, NetworkStaged, RecreateStaged,
     ProxyStaged, LeftoverStaged, RunStaged, RulesStaged, RegenerateStaged, RouterStaged, SweepStaged,
     DeleteStaged, WipeStaged DEF Step
<1>4. CASE Environment
  BY <1>4, EnvironmentStaged
<1> QED BY <1>1, <1>2, <1>3, <1>4 DEF Next

Inv == TypeInv /\ StageInv

\* Types and claims are an invariant of the specification.
LEMMA InvInvariant == Spec => []Inv
<1>1. Init => Inv
  <2>1. Init => OffStage(call)
    BY DEF Init, Idle, OffStage
  <2>2. OffStage(call) => StageInv
    BY DEF OffStage, StageInv, ServeInv, GoneInv, RouteInv
  <2> QED BY <2>1, <2>2, TypeInit DEF Inv
<1>2. Inv /\ [Next]_vars => Inv'
  BY TypeStep, StageStep DEF Inv
<1> QED BY <1>1, <1>2, PTL DEF Spec

\* ProvisionAgent and RefreshAgent return success only for an agent that serves behind
\* its proxy, whatever answers were lost on the way.
THEOREM SuccessMeansServing == Spec => []ServingOnSuccess
<1>1. Inv => ServingOnSuccess
  BY DEF Inv, StageInv, ServeInv, Served, Guarded, ServingOnSuccess, Returned, At
<1> QED BY <1>1, InvInvariant, PTL

\* A refresh that nothing disturbs succeeds on whatever was left behind, unless the
\* agent has no active record or its port is taken.
THEOREM UndisturbedRefreshRepairs == Spec => []RefreshRepairs
<1>1. Inv => RefreshRepairs
  BY DEF Inv, StageInv, GoneInv, RefreshRepairs, At
<1> QED BY <1>1, InvInvariant, PTL

\* A removal or a teardown that nothing disturbs leaves nothing behind, although no
\* step of either looks at an error.
THEOREM UndisturbedRemovalIsComplete == Spec => []RemovalComplete
<1>1. Inv => RemovalComplete
  BY DEF Inv, TypeInv, FrameOK, Frame, StageInv, GoneInv, RemovalComplete, Returned, At
<1> QED BY <1>1, InvInvariant, PTL

\* A method that nothing disturbs leaves the routing.json of the present records, and a
\* provision or removal a router that was started on it.
THEOREM UndisturbedRouterIsCurrent == Spec => []RouterCurrent
<1>1. Inv => RouterCurrent
  BY DEF Inv, StageInv, RouteInv, RouterCurrent, Returned, At, FreshRouter
<1> QED BY <1>1, InvInvariant, PTL

\* No agent container is started but behind a running proxy on its network, whatever
\* earlier methods, lost commands, crashes and restarts left behind.
THEOREM NoAgentBeforeItsProxy == Spec => ProxyBeforeAgent
<1> DEFINE Starts(a) == ctr[a] # "running" /\ ctr'[a] = "running"
<1>1. ASSUME Inv, [Next]_vars, NEW a \in Agents, Starts(a)
      PROVE  Guarded(a)
  <2>1. RunAgent
    <3>1. ASSUME NEW S, NEW st \in {"absent", "stopped"}, Down(S, st) PROVE ~Starts(a)
      BY <3>1 DEF Down
    <3>2. ~(UNCHANGED ctr)
      BY <1>1
    <3>3. ~StopAgent /\ ~RemoveLeftover
      BY <1>1, <3>1, <3>2 DEF StopAgent, RemoveLeftover, host
    <3>4. ~StopAll
      <4> DEFINE present == {b \in call.todo : ctr[b] # "absent"}
      <4>1. StopAll => \/ UNCHANGED host \/ Down(present, "stopped")
                         \/ \E S \in SUBSET present : Down(S, "stopped")
        BY DEF StopAll
      <4> QED BY <1>1, <3>1, <3>2, <4>1 DEF host
    <3>5. ~Sweep
      <4>1. Sweep => \/ UNCHANGED host \/ Down(Agents \ {}, "absent")
                       \/ \E S \in SUBSET Agents : Down(Agents \ S, "absent")
        BY DEF Sweep
      <4> QED BY <1>1, <3>1, <3>2, <4>1 DEF host
    <3>6. ~Environment
      BY <1>1, <3>2 DEF Environment, GetStatus, LinkDrops, LinkHeals, Crash, Reboot, host
    <3>7. ~Request /\ ~Return
      BY <3>2 DEF Request, Return, Begin, Setup, RefreshAll, CycleHost, Teardown, ProvisionAgent, ProvisionWithPort,
                  RemoveAgent, PauseAgent, UnpauseAgent, RefreshAgent, host
    <3>8. ~(MakeDirs \/ UploadSources \/ InitTable \/ ConfigureChannel \/ PickPort \/ ReadRecord \/ SaveRecord
            \/ ReadForRefresh \/ ProvisionFiles \/ RefreshFiles \/ DeleteFiles \/ RemoveRules \/ StopProxy
            \/ RemoveNetwork \/ CreateNetwork \/ RecreateNetwork \/ StartProxy \/ AddRules \/ Regenerate
            \/ RestartRouter \/ ListAgents \/ TakeNext \/ WipeData)
      BY <3>2 DEF MakeDirs, UploadSources, InitTable, ConfigureChannel, PickPort, ReadRecord, SaveRecord,
                  ReadForRefresh, ProvisionFiles, RefreshFiles, DeleteFiles, RemoveRules, StopProxy,
                  RemoveNetwork, CreateNetwork, RecreateNetwork, StartProxy, AddRules, Regenerate,
                  RestartRouter, ListAgents, TakeNext, WipeData, host
    <3>9. ~(UNCHANGED vars)
      BY <3>2 DEF vars, host
    <3> QED BY <1>1, <3>3, <3>4, <3>5, <3>6, <3>7, <3>8, <3>9 DEF Next, Step
  <2>2. a = call.a
    <3>1. \/ ctr' = [ctr EXCEPT ![call.a] = "running"] \/ Down({call.a}, "stopped") \/ UNCHANGED ctr
      BY <2>1 DEF RunAgent, host
    <3> QED BY <1>1, <3>1 DEF Down, Inv, TypeInv, HostOK
  <2> QED BY <1>1, <2>1, <2>2 DEF RunAgent, At, Inv, StageInv, ServeInv
<1>2. Inv /\ [Next]_vars
        => [\A a \in Agents : Starts(a) => (a \in net /\ proxy[a] = "running")]_vars
  BY <1>1 DEF Guarded
<1> QED BY <1>2, InvInvariant, PTL DEF Spec, ProxyBeforeAgent

--------------------------------------------------------------------------------
(* While the link holds, the records implement AgentRegistry. *)

\* Docker may fail, the caller may die and the host restart, but no command is lost on the way.
LinkHolds == Faults \cap {"lost", "drop", "torn"} = {}

\* The agents for which the operator may name a port.
NamedAgents == {a \in Agents : \E p \in 1 .. MaxPort : <<a, p>> \in Named}

Registry == INSTANCE AgentRegistry WITH
    Agents <- Agents, IDs <- IDs, NoID <- NoID, NoRec <- NoRec, Torn <- Torn, MaxPort <- MaxPort,
    rec <- rec, given <- NamedAgents

PortsDistinct == \A a, b \in Listed \ NamedAgents : a # b => rec[a].port # rec[b].port

\* What a method is about to save is decided by the records as they are now: the port of a new
\* agent is above all of them unless it was named, and the record of a paused or unpaused one is
\* the record on the host but for the flag.
Current(a, snap) ==
    \/ ~snap.paused /\ (a \in NamedAgents \/ \A b \in Listed : rec[b].port < snap.port)
    \/ a \in Listed /\ \E flag \in BOOLEAN : snap = [rec[a] EXCEPT !.paused = flag]

RegistryInv ==
    /\ TypeInv /\ PortsDistinct
    /\ link = "up"
    /\ At("save") => Current(call.a, call.snap)

\* A step that leaves the records alone and does not lead up to SaveRecord.
LEMMA RegistryKept ==
    ASSUME PortsDistinct, UNCHANGED rec, call'.pc # "save"
    PROVE  PortsDistinct' /\ (At("save") => Current(call.a, call.snap))'
BY DEF PortsDistinct, Listed, At

\* No outcome of a command takes the host away.
LEMMA LinkKept == ASSUME LinkHolds, link = "up", TypeInv, [Next]_vars PROVE link' = "up"
<1>1. ~Lost /\ ~Unreachable /\ ~Regained /\ ~LinkDrops /\ ~LinkHeals /\ ~Fault("torn")
  BY DEF LinkHolds, Lost, Unreachable, Regained, LinkDrops, LinkHeals, Fault
<1>2. Done \/ Fails => link' = "up"
  BY DEF Done, Fails
<1>3. ASSUME NEW l, Moves(l) PROVE link' = "up"
  BY <1>1, <1>2, <1>3 DEF Moves, Takes, Undone, Half
<1>4. ASSUME NEW S, Seen(S) PROVE link' = "up"
  BY <1>1, <1>2, <1>4 DEF Seen
<1>5. Request \/ Return \/ Crash \/ Reboot \/ TakeNext \/ (\E a \in Agents : GetStatus(a)) => link' = "up"
  BY DEF Request, Setup, ProvisionAgent, ProvisionWithPort, RemoveAgent, PauseAgent, UnpauseAgent,
         RefreshAgent, RefreshAll, CycleHost, Teardown, Begin, Return, Crash, Reboot, TakeNext, GetStatus
<1>6. PickPort \/ ListAgents => link' = "up"
  BY <1>4 DEF PickPort, ListAgents
<1>7. ReadRecord \/ SaveRecord \/ DeleteFiles \/ WipeData => link' = "up"
  BY <1>1, <1>2 DEF ReadRecord, SaveRecord, DeleteFiles, WipeData, Takes, Undone
<1>8. CASE Step
  BY <1>3, <1>5, <1>6, <1>7, <1>8, StepsLead DEF Step
<1> QED BY <1>1, <1>5, <1>8 DEF Next, Environment, vars

\* A provision with a port the operator names is called.
NamedProvision ==
    \E a \in Agents, id \in IDs \cup {NoID}, p \in 1 .. MaxPort : <<a, p>> \in Named /\ ProvisionWithPort(a, id, p)

\* It is about to save that port, whatever the records are.
LEMMA NamedCurrent == ASSUME TypeInv, NamedProvision PROVE Current(call.a, call.snap)' /\ UNCHANGED rec
<1>1. PICK a \in Agents, id \in IDs \cup {NoID}, p \in 1 .. MaxPort :
          <<a, p>> \in Named /\ ProvisionWithPort(a, id, p)
  BY DEF NamedProvision
<1>2. a \in NamedAgents /\ UNCHANGED NamedAgents
  BY <1>1 DEF NamedAgents
<1> QED BY <1>1, <1>2, NamedFrame DEF Current

\* The steps that write no record and do not lead up to SaveRecord.
LEMMA ElsewhereSteps ==
    ASSUME TypeInv, Request \/ Environment \/ (Step /\ ~PickPort /\ ~ReadRecord /\ ~SaveRecord
                                                    /\ ~DeleteFiles /\ ~WipeData),
           ~NamedProvision
    PROVE  UNCHANGED rec /\ (call'.pc # "save" \/ UNCHANGED call \/ LinkDrops)
<1>1. CASE Request
  <2>1. ASSUME NEW op, NEW l \in {"dirs", "list", "pick", "unfilter", "read", "reread"},
               NEW a, NEW id, Begin(op, l, a, id)
        PROVE  UNCHANGED rec /\ call'.pc # "save"
    BY <2>1 DEF Begin, Idle
  <2> QED BY <1>1, <2>1 DEF Request, Setup, ProvisionAgent, RemoveAgent, PauseAgent, UnpauseAgent,
                            RefreshAgent, RefreshAll, CycleHost, Teardown, NamedProvision
<1>2. CASE Environment
  BY <1>2 DEF Environment, GetStatus, LinkDrops, LinkHeals, Crash, Reboot, Idle
<1>3. CASE ListAgents \/ TakeNext \/ Return
  <2>1. CASE ListAgents
    <3>1. PICK S \in SUBSET Listed :
             call' = [call EXCEPT !.todo = IF call.op = "teardown" THEN S ELSE S \cap Active,
                                  !.pc = CASE call.op = "cycle"               -> "halt"
                                           [] call.op = "refreshAll" /\ ready -> "route"
                                           [] OTHER                           -> "each",
                                  !.clean = @ /\ Undisturbed]
      BY <2>1 DEF ListAgents
    <3>2. call'.pc = CASE call.op = "cycle"               -> "halt"
                       [] call.op = "refreshAll" /\ ready -> "route"
                       [] OTHER                           -> "each"
      BY <3>1 DEF TypeInv, FrameOK, Frame
    <3> QED BY <2>1, <3>2 DEF ListAgents
  <2>2. CASE TakeNext
    <3>1. CASE Goto("sweep") \/ Goto("ok")
      BY <2>2, <3>1 DEF TakeNext, Goto, TypeInv, FrameOK, Frame
    <3>2. CASE \E a \in call.todo, l \in {"unfilter", "reread"} :
                  call' = [call EXCEPT !.a = a, !.todo = call.todo \ {a}, !.pc = l]
      BY <2>2, <3>2 DEF TakeNext, TypeInv, FrameOK, Frame
    <3> QED BY <2>2, <3>1, <3>2 DEF TakeNext
  <2>3. CASE Return
    BY <2>3 DEF Return, Idle
  <2> QED BY <1>3, <2>1, <2>2, <2>3
<1>4. CASE Step /\ ~PickPort /\ ~ReadRecord /\ ~SaveRecord /\ ~DeleteFiles /\ ~WipeData
           /\ ~ListAgents /\ ~TakeNext /\ ~Return
  <2>1. PICK l \in Labels : Moves(l) /\ Leads(l)
    BY <1>4, StepsLead DEF Step
  <2>2. l # "save"
    BY <2>1 DEF Leads
  <2>3. call'.pc = l
    BY <2>1, MovesFrame DEF To, TypeInv
  <2>4. UNCHANGED rec
    BY <1>4 DEF Step, MakeDirs, UploadSources, InitTable, ConfigureChannel, ReadForRefresh,
                ProvisionFiles, RefreshFiles, RemoveRules, StopAgent, StopProxy, RemoveNetwork,
                CreateNetwork, RecreateNetwork, StartProxy, RemoveLeftover, RunAgent, AddRules,
                Regenerate, RestartRouter, StopAll, Sweep
  <2> QED BY <2>2, <2>3, <2>4
<1> QED BY <1>1, <1>2, <1>3, <1>4

\* The port that is picked is above those of a list that nothing was lost of.
LEMMA PickCurrent ==
    ASSUME LinkHolds, RegistryInv, PickPort
    PROVE  Current(call.a, call.snap)'
<1>1. PICK S \in SUBSET Listed, p \in 1 .. MaxPort :
          /\ \A b \in S : rec[b].port < p
          /\ Seen(S)
          /\ call' = [call EXCEPT !.pc = "save", !.snap.port = p, !.clean = @ /\ Undisturbed]
  BY DEF PickPort
<1>2. S = Listed
  BY <1>1 DEF LinkHolds, RegistryInv, Seen, Lost, Unreachable, Fault
<1>3. call'.snap = [call.snap EXCEPT !.port = p]
  BY <1>1 DEF RegistryInv, TypeInv, FrameOK, Frame
<1>4. call'.snap.port = p /\ ~call'.snap.paused
  BY <1>3 DEF RegistryInv, TypeInv, FrameOK, Frame, Snapshot, HeldOK, PickPort, At
<1>5. rec' = rec /\ Listed' = Listed
  BY DEF PickPort, Listed
<1> QED BY <1>1, <1>2, <1>4, <1>5 DEF Current

\* What is read to be paused or unpaused is the record on the host but for the flag.
LEMMA ReadCurrent ==
    ASSUME RegistryInv, ReadRecord, call'.pc = "save"
    PROVE  Current(call.a, call.snap)'
<1> DEFINE r == [rec[call.a] EXCEPT !.paused = (call.op = "pause")]
<1>1. call.a \in Listed /\ call' = [call EXCEPT !.pc = "save", !.snap = r]
  <2>1. ASSUME NEW l \in {"ok", "err"}, Moves(l) PROVE FALSE
    <3>1. call'.pc = l
      BY <2>1, MovesFrame DEF To, RegistryInv, TypeInv, Labels
    <3> QED BY <3>1
  <2> QED BY <2>1 DEF ReadRecord, Moves, Takes
<1>2. call'.a = call.a /\ call'.snap = r
  <2> HIDE DEF r
  <2> QED BY <1>1 DEF RegistryInv, TypeInv, FrameOK, Frame
<1>3. rec' = rec /\ Listed' = Listed
  BY DEF ReadRecord, Listed
<1>4. \E flag \in BOOLEAN : call'.snap = [rec'[call'.a] EXCEPT !.paused = flag]
  BY <1>2, <1>3
<1>5. call'.a \in Listed'
  BY <1>1, <1>2, <1>3
<1> QED BY <1>4, <1>5 DEF Current

\* What is saved is registered, or a changed flag.
LEMMA SaveRegisters ==
    ASSUME RegistryInv, SaveRecord, ~Lost, ~Fault("torn")
    PROVE  PortsDistinct' /\ [Registry!Next]_<<rec, NamedAgents>> /\ call'.pc # "save"
<1> DEFINE a == call.a
           snap == call.snap
           next == IF call.op = "provision" THEN "prep" ELSE IF call.op = "pause" THEN "unfilter" ELSE "reread"
<1>1. /\ a \in Agents /\ snap \in Record /\ Current(a, snap)
      /\ rec \in [Agents -> Record \cup {NoRec, Torn}]
  BY DEF SaveRecord, At, RegistryInv, TypeInv, PathOK, AtAgent, HeldOK, RecOK
<1>2. call'.pc # "save"
  <2>1. PICK l \in {next, "err"} : Moves(l)
    BY DEF SaveRecord, Moves
  <2>2. l \in Labels /\ l # "save"
    BY <2>1 DEF Labels
  <2> HIDE DEF next
  <2>3. call'.pc = l
    BY <2>1, <2>2, MovesFrame DEF To, RegistryInv, TypeInv
  <2> QED BY <2>2, <2>3
<1>3. CASE UNCHANGED rec
  BY <1>2, <1>3, RegistryKept DEF RegistryInv
<1>4. CASE rec' = [rec EXCEPT ![a] = snap]
  <2>1. \A b \in Agents \ {a} : rec'[b] = rec[b]
    BY <1>1, <1>4
  <2>2. CASE ~snap.paused /\ (a \in NamedAgents \/ \A b \in Listed : rec[b].port < snap.port)
    <3>1. PortsDistinct'
      BY <1>1, <1>4, <2>1, <2>2, BoundAssumption DEF RegistryInv, PortsDistinct, Listed, Record
    <3>2. snap = [paused |-> FALSE, port |-> snap.port, id |-> snap.id]
      BY <1>1, <2>2 DEF Record
    <3>3. Registry!Register(a, snap.port, snap.id)
      BY <1>4, <2>2, <3>2 DEF Registry!Register, Registry!Listed, Registry!Record, Listed, Record
    <3> QED BY <1>1, <1>2, <3>1, <3>3 DEF Registry!Next, Record
  <2>3. CASE a \in Listed /\ \E flag \in BOOLEAN : snap = [rec[a] EXCEPT !.paused = flag]
    <3>1. PICK flag \in BOOLEAN : snap = [rec[a] EXCEPT !.paused = flag]
      BY <2>3
    <3>2. snap.port = rec[a].port
      BY <2>3, <3>1 DEF Listed, Record
    <3>3. PortsDistinct'
      BY <1>1, <1>4, <2>1, <2>3, <3>2 DEF RegistryInv, PortsDistinct, Listed
    <3>4. Registry!SetPaused(a, flag)
      BY <1>4, <2>3, <3>1 DEF Registry!SetPaused, Registry!Listed, Registry!Record, Listed, Record
    <3> QED BY <1>1, <1>2, <3>1, <3>3, <3>4 DEF Registry!Next
  <2> QED BY <1>1, <2>2, <2>3 DEF Current
<1> QED BY <1>3, <1>4 DEF SaveRecord

\* Records that go away leave the ports of the others apart.
LEMMA DeleteRegistered ==
    ASSUME RegistryInv, DeleteFiles \/ WipeData
    PROVE  PortsDistinct' /\ [Registry!Next]_<<rec, NamedAgents>> /\ call'.pc # "save"
<1>1. call'.pc # "save"
  <2>1. PICK l \in {"route", "ok"} : Moves(l)
    BY DEF DeleteFiles, WipeData, Moves
  <2>2. call'.pc = l
    BY <2>1, MovesFrame DEF To, RegistryInv, TypeInv, Labels
  <2> QED BY <2>2
<1>2. ASSUME NEW S \in SUBSET Agents, rec' = [b \in Agents |-> IF b \in S THEN NoRec ELSE rec[b]]
      PROVE  PortsDistinct' /\ [Registry!Next]_<<rec, NamedAgents>>
  <2>1. PortsDistinct'
    BY <1>2, RecordAssumption DEF RegistryInv, PortsDistinct, Listed
  <2>2. Registry!Delete(S)
    BY <1>2 DEF Registry!Delete
  <2> QED BY <2>1, <2>2 DEF Registry!Next
<1>3. CASE UNCHANGED rec
  BY <1>1, <1>3, RegistryKept DEF RegistryInv
<1>4. CASE rec' = [rec EXCEPT ![call.a] = NoRec]
  <2>1. rec' = [b \in Agents |-> IF b \in {call.a} \cap Agents THEN NoRec ELSE rec[b]]
    BY <1>4 DEF RegistryInv, TypeInv, RecOK
  <2> QED BY <1>1, <1>2, <2>1
<1>5. CASE rec' = [b \in Agents |-> NoRec]
  <2>1. rec' = [b \in Agents |-> IF b \in Agents THEN NoRec ELSE rec[b]]
    BY <1>5
  <2> QED BY <1>1, <1>2, <2>1
<1> QED BY <1>3, <1>4, <1>5 DEF DeleteFiles, WipeData

\* While the link holds every step is a step of AgentRegistry or leaves the records alone.
LEMMA RegistryStep ==
    ASSUME LinkHolds, RegistryInv, [Next]_vars
    PROVE  RegistryInv' /\ [Registry!Next]_<<rec, NamedAgents>>
<1>1. TypeInv' /\ link' = "up"
  BY TypeStep, LinkKept DEF RegistryInv
<1>0. UNCHANGED NamedAgents
  BY DEF NamedAgents
<1>2. ASSUME UNCHANGED rec, UNCHANGED call \/ call'.pc # "save"
      PROVE  RegistryInv' /\ [Registry!Next]_<<rec, NamedAgents>>
  <2>1. CASE call'.pc # "save"
    BY <1>1, <1>2, <2>1, RegistryKept DEF RegistryInv
  <2>2. CASE UNCHANGED call
    BY <1>1, <1>2, <2>2 DEF RegistryInv, PortsDistinct, Current, At, Listed
  <2> QED BY <1>0, <1>2, <2>1, <2>2
<1>3. ASSUME UNCHANGED rec, call'.pc = "save", Current(call.a, call.snap)'
      PROVE  RegistryInv' /\ [Registry!Next]_<<rec, NamedAgents>>
  BY <1>0, <1>1, <1>3 DEF RegistryInv, PortsDistinct, Listed
<1>4. CASE PickPort
  <2>1. UNCHANGED rec
    BY <1>4 DEF PickPort
  <2> QED BY <1>2, <1>3, <1>4, <2>1, PickCurrent
<1>5. CASE ReadRecord
  <2>1. UNCHANGED rec
    BY <1>5 DEF ReadRecord
  <2> QED BY <1>2, <1>3, <1>5, <2>1, ReadCurrent
<1>6. CASE SaveRecord
  <2>1. ~Lost /\ ~Fault("torn")
    BY DEF LinkHolds, Lost, Fault
  <2> QED BY <1>1, <1>6, <2>1, SaveRegisters DEF RegistryInv, At
<1>7. CASE DeleteFiles \/ WipeData
  BY <1>1, <1>7, DeleteRegistered DEF RegistryInv, At
<1>8. CASE UNCHANGED vars
  BY <1>2, <1>8 DEF vars
<1>9. CASE Request \/ Environment \/ (Step /\ ~PickPort /\ ~ReadRecord /\ ~SaveRecord
                                           /\ ~DeleteFiles /\ ~WipeData)
  <2>1. ~LinkDrops
    BY DEF LinkHolds, LinkDrops, Fault
  <2>2. CASE NamedProvision
    <3>1. call'.pc = "save"
      BY <2>2, NamedFrame DEF NamedProvision
    <3> QED BY <1>3, <2>2, <3>1, NamedCurrent DEF RegistryInv
  <2> QED BY <1>2, <1>9, <2>1, <2>2, ElsewhereSteps DEF RegistryInv
<1> QED BY <1>4, <1>5, <1>6, <1>7, <1>8, <1>9 DEF Next

\* The inductive invariant holds at the start.
LEMMA RegistryInit == Init => RegistryInv /\ Registry!Init
BY TypeInit, RecordAssumption DEF Init, RegistryInv, PortsDistinct, Listed, At, Idle, Registry!Init, NamedAgents

\* While the link holds the remote provider keeps its records as AgentRegistry says, whatever
\* fails on the host, dies or restarts, and whatever ports the operator names for some of the
\* agents (resolveGatewayPort, saveAgentConfig).
THEOREM RegistryRefined == ASSUME LinkHolds PROVE Spec => Registry!Spec
<1>1. RegistryInv /\ [Next]_vars => RegistryInv' /\ [Registry!Next]_<<rec, NamedAgents>>
  BY RegistryStep
<1> QED BY RegistryInit, <1>1, PTL DEF Spec, Registry!Spec

\* While the link holds no two agents for which no port may be named have the same gateway port.
\* (Two with a named port can: resolveGatewayPort returns it as it is.)
THEOREM PortsAreDistinct == ASSUME LinkHolds PROVE Spec => []PortsDistinct
<1>1. RegistryInv /\ [Next]_vars => RegistryInv'
  BY RegistryStep
<1>2. RegistryInv => PortsDistinct
  BY DEF RegistryInv
<1> QED BY RegistryInit, <1>1, <1>2, PTL DEF Spec
================================================================================
