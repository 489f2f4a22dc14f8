--------------------------- MODULE EgressPolicyProofs ---------------------------
(******************************************************************************)
(* Proofs about EgressPolicy.                                                 *)
(******************************************************************************)
EXTENDS EgressPolicy, TLAPS

\* the merge, the generated rules and the change of a section are of their types
LEMMA MergeType == ASSUME NEW p \in Policy, NEW a \in Agents PROVE MergeForAgent(p, a) \in Section
  <1>1. DenyAll \in Section
    BY DEF DenyAll, Section, Modes
  <1>2. p.global \in Section \cup {Nothing} /\ p.over[a] \in Section \cup {Nothing}
    BY DEF Policy
  <1>3. ASSUME NEW g \in Section, NEW o \in Section
        PROVE  [allowed |-> g.allowed \cup o.allowed, blocked |-> g.blocked \cup o.blocked,
                mode |-> o.mode] \in Section
    BY DEF Section
  <1>4. CASE p.over[a] = Nothing /\ p.global = Nothing
    BY <1>1, <1>4 DEF MergeForAgent
  <1>5. CASE p.over[a] = Nothing /\ p.global # Nothing
    BY <1>2, <1>5 DEF MergeForAgent
  <1>6. CASE p.over[a] # Nothing /\ p.global = Nothing
    BY <1>2, <1>6 DEF MergeForAgent
  <1>7. CASE p.over[a] # Nothing /\ p.global # Nothing
    BY <1>2, <1>3, <1>7 DEF MergeForAgent
  <1> QED
    BY <1>4, <1>5, <1>6, <1>7

LEMMA RuleType == ASSUME NEW s \in Section PROVE GenerateProxyConf(s) \in Rule
  BY DEF Section, Rule, GenerateProxyConf, EffectiveAllowedDomains

LEMMA SetType ==
  ASSUME NEW p \in Policy, NEW who \in SUBSET Agents, NEW s \in Section \cup {Keep}
  PROVE  SetEgress(p, who, s) \in Policy
  <1>1. CASE s = Keep
    BY <1>1 DEF SetEgress
  <1>2. CASE s # Keep /\ who = Agents
    <2>1. SetEgress(p, who, s) = [p EXCEPT !.global = s]
      BY <1>2 DEF SetEgress
    <2> QED
      BY <1>2, <2>1 DEF Policy
  <1>3. CASE s # Keep /\ who # Agents
    <2> DEFINE o == [a \in Agents |-> IF a \in who THEN s ELSE p.over[a]]
    <2>1. SetEgress(p, who, s) = [p EXCEPT !.over = o]
      BY <1>3 DEF SetEgress
    <2>2. o \in [Agents -> Section \cup {Nothing}]
      BY <1>3 DEF Policy
    <2> HIDE DEF o
    <2> QED
      BY <2>1, <2>2 DEF Policy
  <1> QED
    BY <1>1, <1>2, <1>3

LEMMA ConstantTypes ==
  /\ DenyAll \in Section
  /\ Skeleton \in Policy
  /\ \A s \in Inputs : s \in Section /\ [Skeleton EXCEPT !.global = s] \in Policy
  <1>1. DenyAll \in Section
    BY DEF DenyAll, Section, Modes
  <1>2. Skeleton \in Policy
    BY DEF Skeleton, Policy
  <1>3. \A s \in Inputs : s \in Section /\ [Skeleton EXCEPT !.global = s] \in Policy
    BY InputsAssumption, <1>2 DEF Policy
  <1> QED
    BY <1>1, <1>2, <1>3

\* blocked takes precedence, whichever section blocks: no rule generated for an agent opens a
\* domain that the global section or the agent's override blocks
THEOREM BlockedTakesPrecedence ==
  ASSUME NEW p \in Policy, NEW a \in Agents, NEW d \in Domains,
         \/ p.global # Nothing /\ d \in p.global.blocked
         \/ p.over[a] # Nothing /\ d \in p.over[a].blocked
  PROVE  d \notin GenerateProxyConf(MergeForAgent(p, a)).open
  <1> DEFINE m == MergeForAgent(p, a)
  <1>1. d \in m.blocked
    <2>1. CASE p.over[a] = Nothing
      BY <2>1 DEF MergeForAgent
    <2>2. CASE p.over[a] # Nothing /\ p.global = Nothing
      BY <2>2 DEF MergeForAgent
    <2>3. CASE p.over[a] # Nothing /\ p.global # Nothing
      <3>1. m.blocked = p.global.blocked \cup p.over[a].blocked
        BY <2>3 DEF MergeForAgent
      <3> QED
        BY <3>1
    <2> QED
      BY <2>1, <2>2, <2>3
  <1>2. GenerateProxyConf(m).open = m.allowed \ m.blocked
    BY DEF GenerateProxyConf, EffectiveAllowedDomains
  <1> QED
    BY <1>1, <1>2

--------------------------------------------------------------------------------
(* Type correctness. *)

\* What makes TypeOK inductive: a call has a policy from the moment it is loaded, and an agent
\* and its section from the moment they are chosen.
InPlace(k) ==
    /\ k.at \in {"load", "write", "rename", "render"} => k.op # "refresh"
    /\ k.op # "refresh" /\ k.at \notin {"load", "done"} => k.pf \in Policy
    /\ k.at \in {"read", "render", "stop", "conf", "manifest", "run", "agent"} => k.a \in k.todo
    /\ k.at \in {"stop", "conf", "manifest", "run", "agent"} => k.eff \in Section
    /\ k.at \in {"load", "write", "rename", "targets"} => k.did = {} /\ k.bad = {}
    /\ k.todo \cap (k.did \cup k.bad) = {}
    /\ k.at # "done" => k.res = "none"

TypeInv == TypeOK /\ \A c \in Callers : InPlace(call[c])

\* a call that another one replaces
LEMMA Replace ==
  ASSUME TypeInv, NEW c \in Callers, NEW k \in Call, InPlace(k), call' = [call EXCEPT ![c] = k]
  PROVE  /\ call' \in [Callers -> Call]
         /\ \A d \in Callers : InPlace(call'[d])
         /\ \A d \in Callers : call'[d].todo \cap (call'[d].did \cup call'[d].bad) = {}
  <1>1. call \in [Callers -> Call]
    BY DEF TypeInv, TypeOK
  <1>2. call' \in [Callers -> Call]
    BY <1>1
  <1>3. \A d \in Callers : call'[d] = IF d = c THEN k ELSE call[d]
    BY <1>1
  <1>4. \A d \in Callers : InPlace(call'[d])
    BY <1>3 DEF TypeInv
  <1> QED
    BY <1>2, <1>4 DEF InPlace

LEMMA ReturnType ==
  ASSUME TypeInv, NEW c \in Callers, NEW res \in Results, Return(c, res)
  PROVE  \E k \in Call : InPlace(k) /\ call' = [call EXCEPT ![c] = k]
  <1> DEFINE k == [call[c] EXCEPT !.at = "done", !.res = res]
  <1>1. call \in [Callers -> Call] /\ call[c] \in Call /\ InPlace(call[c])
    BY DEF TypeInv, TypeOK
  <1>2. call' = [call EXCEPT ![c] = k]
    BY <1>1 DEF Return
  <1>3. k \in Call
    <2>1. call[c] \in Call /\ "done" \in Places /\ res \in Results
      BY <1>1 DEF Places
    <2> QED
      BY <2>1 DEF Call
  <1>4. InPlace(k)
    BY <1>1 DEF InPlace, Call
  <1> QED
    BY <1>2, <1>3, <1>4

\* the place that follows, for a step that changes nothing else of the call
LEMMA ProceedType ==
  ASSUME TypeInv, NEW c \in Callers, Proceed(c),
         call[c].at \in {"write", "stop", "conf", "manifest", "run"}
                        \cup (IF call[c].op # "refresh" THEN {"rename"} ELSE {})
  PROVE  \E k \in Call : InPlace(k) /\ call' = [call EXCEPT ![c] = k]
  <1> DEFINE next == Following[call[c].at]
             k == [call[c] EXCEPT !.at = next]
  <1>1. call \in [Callers -> Call] /\ call[c] \in Call /\ InPlace(call[c])
    BY DEF TypeInv, TypeOK
  <1>2. call' = [call EXCEPT ![c] = k]
    BY <1>1 DEF Proceed
  <1>3. /\ call[c].at = "write" => next = "rename"
        /\ call[c].at = "rename" => next = "targets"
        /\ call[c].at \in {"stop", "conf", "manifest", "run"}
               => next \in {"stop", "conf", "manifest", "run", "agent"}
    BY DEF Following
  <1>4. next \in Places
    BY <1>3 DEF Places
  <1>5. k \in Call
    BY <1>1, <1>4 DEF Call
  <1>6. InPlace(k)
    BY <1>1, <1>3 DEF InPlace, Call
  <1> QED
    BY <1>2, <1>5, <1>6

LEMMA FailType ==
  ASSUME TypeInv, NEW c \in Callers, FailAgent(c) \/ FailDeploy(c),
         call[c].at \in {"read", "render", "stop", "conf", "manifest", "run", "agent"}
  PROVE  \E k \in Call : InPlace(k) /\ call' = [call EXCEPT ![c] = k]
  <1>1. call \in [Callers -> Call] /\ call[c] \in Call /\ InPlace(call[c])
    BY DEF TypeInv, TypeOK
  <1>2. call[c].a \in call[c].todo /\ call[c].a \in Agents
    BY <1>1 DEF InPlace, Call
  <1>3. CASE Return(c, "error")
    BY <1>3, ReturnType DEF Results
  <1>4. CASE call' = [call EXCEPT ![c].at = "between", ![c].todo = @ \ {call[c].a},
                                  ![c].bad = @ \cup {call[c].a}]
    <2> DEFINE k == [call[c] EXCEPT !.at = "between", !.todo = @ \ {call[c].a},
                                    !.bad = @ \cup {call[c].a}]
    <2>1. call' = [call EXCEPT ![c] = k]
      BY <1>1, <1>4
    <2>2. k \in Call
      <3>1. call[c] \in Call /\ "between" \in Places
        BY <1>1 DEF Places
      <3>2. call[c].a \in Agents
        BY <1>2
      <3> QED
        BY <3>1, <3>2 DEF Call
    <2>3. InPlace(k)
      BY <1>1, <1>2 DEF InPlace, Call
    <2> QED
      BY <2>1, <2>2, <2>3
  <1>5. CASE call' = [call EXCEPT ![c].at = "between", ![c].todo = @ \ {call[c].a}]
    <2> DEFINE k == [call[c] EXCEPT !.at = "between", !.todo = @ \ {call[c].a}]
    <2>1. call' = [call EXCEPT ![c] = k]
      BY <1>1, <1>5
    <2>2. k \in Call
      <3>1. call[c] \in Call /\ "between" \in Places
        BY <1>1 DEF Places
      <3>2. call[c].a \in Agents
        BY <1>2
      <3> QED
        BY <3>1, <3>2 DEF Call
    <2>3. InPlace(k)
      BY <1>1, <1>2 DEF InPlace, Call
    <2> QED
      BY <2>1, <2>2, <2>3
  <1> QED
    BY <1>3, <1>4, <1>5 DEF FailAgent, FailDeploy

\* the parts of TypeOK that are not about calls
Places0 ==
    /\ prov \in Providers
    /\ paused \subseteq Agents
    /\ file \in Policy \cup {Nothing, Torn, Broken}
    /\ tmp \in Policy \cup {Nothing, Torn}
    /\ conf \in [Agents -> Rule \cup {Nothing}]
    /\ manifest \in [Agents -> Section \cup {Nothing}]
    /\ proxy \in [Agents -> Rule \cup {Nothing}]
    /\ calls \in 0 .. MaxCalls /\ faults \in 0 .. MaxFaults

LEMMA Compose ==
  ASSUME TypeInv, Places0', NEW c \in Callers,
         \E k \in Call : InPlace(k) /\ call' = [call EXCEPT ![c] = k]
  PROVE  TypeInv'
  <1>1. PICK k \in Call : InPlace(k) /\ call' = [call EXCEPT ![c] = k]
    OBVIOUS
  <1>2. /\ call' \in [Callers -> Call]
        /\ \A d \in Callers : InPlace(call'[d])
        /\ \A d \in Callers : call'[d].todo \cap (call'[d].did \cup call'[d].bad) = {}
    BY <1>1, Replace
  <1> QED
    BY <1>2 DEF TypeInv, TypeOK, Places0

LEMMA BeginType ==
  ASSUME TypeInv, NEW c \in Callers, NEW who \in SUBSET Agents, NEW sec \in Section \cup {Keep},
         NEW op \in Ops \ {"none"}, NEW at \in {"load", "targets"}, NEW pf \in Policy \cup {Nothing},
         op = "refresh" => at = "targets", at = "targets" /\ op # "refresh" => pf \in Policy,
         Begin(c, op, who, sec, at, pf)
  PROVE  TypeInv'
  <1> DEFINE k == [Idle EXCEPT !.op = op, !.who = who, !.sec = sec, !.at = at, !.pf = pf]
  <1>1. Places0'
    BY BoundsAssumption DEF TypeInv, TypeOK, Places0, Begin, host
  <1>2. call' = [call EXCEPT ![c] = k]
    BY DEF Begin
  <1>3. k \in Call
    BY DEF Call, Idle, Places, Ops, Results
  <1>4. InPlace(k)
    BY DEF InPlace, Idle
  <1> HIDE DEF k
  <1> QED
    BY <1>1, <1>2, <1>3, <1>4, Compose

\* a call that has its agents, unless it ends with an error
Aims(c, listed, todo, lost) ==
    call' = [call EXCEPT ![c].at = "between", ![c].told = listed, ![c].todo = todo, ![c].lost = lost]

LEMMA AimsFields ==
  ASSUME NEW c \in Callers, call \in [Callers -> Call],
         NEW listed \in SUBSET Agents, NEW todo \in SUBSET Agents, NEW lost \in SUBSET Agents,
         Aims(c, listed, todo, lost)
  PROVE  \E k \in Call :
            /\ call' = [call EXCEPT ![c] = k] /\ call'[c] = k
            /\ k.at = "between" /\ k.told = listed /\ k.todo = todo /\ k.lost = lost
            /\ k.op = call[c].op /\ k.who = call[c].who /\ k.pf = call[c].pf /\ k.res = call[c].res
            /\ k.did = call[c].did /\ k.bad = call[c].bad
  <1> DEFINE k1 == [call[c] EXCEPT !.at = "between", !.told = listed]
             k == [k1 EXCEPT !.todo = todo, !.lost = lost]
  <1>1. call' = [call EXCEPT ![c] = k]
    BY DEF Aims
  <1>0. call[c] \in Call /\ "between" \in Places
    BY DEF Places
  <1>2. k1 \in Call /\ k1.at = "between" /\ k1.told = listed
    BY <1>0 DEF Call
  <1>3. /\ k1.op = call[c].op /\ k1.who = call[c].who /\ k1.pf = call[c].pf /\ k1.res = call[c].res
        /\ k1.did = call[c].did /\ k1.bad = call[c].bad
    BY DEF Call
  <1> HIDE DEF k1
  <1>4. k \in Call /\ k.todo = todo /\ k.lost = lost /\ k.at = k1.at /\ k.told = k1.told
    BY <1>2 DEF Call
  <1>5. /\ k.op = k1.op /\ k.who = k1.who /\ k.pf = k1.pf /\ k.res = k1.res
        /\ k.did = k1.did /\ k.bad = k1.bad
    BY <1>2 DEF Call
  <1> HIDE DEF k
  <1>6. call'[c] = k
    BY <1>1
  <1> QED
    BY <1>1, <1>2, <1>3, <1>4, <1>5, <1>6

LEMMA AimAt ==
  ASSUME NEW c \in Callers, call[c] \in Call, Targets(c) \/ LoseList(c), ~Return(c, "error")
  PROVE  \E listed, todo, lost \in SUBSET Agents :
            /\ Aims(c, listed, todo, lost)
            /\ listed \ lost \subseteq todo /\ Wanted(call[c]) \subseteq listed \cup lost
  <1>1. Active \subseteq Agents /\ Wanted(call[c]) \subseteq Agents
    BY DEF Active, Wanted, Call
  <1>0. ASSUME NEW listed, NEW todo, NEW lost, Aim(c, listed, todo, lost) PROVE Aims(c, listed, todo, lost)
    BY <1>0 DEF Aim, Aims
  <1>2. CASE Targets(c)
    <2>1. Aim(c, Wanted(call[c]), Wanted(call[c]), {})
      BY <1>2 DEF Targets
    <2>2. Aims(c, Wanted(call[c]), Wanted(call[c]), {})
      BY <1>0, <2>1
    <2> QED
      BY <1>1, <2>2
  <1>3. CASE LoseList(c)
    <2>1. PICK listed \in SUBSET Active :
              \/ Aim(c, listed, IF ByRefreshAll(call[c]) THEN Active ELSE listed, Active \ listed)
              \/ ByRefreshAll(call[c]) /\ Aim(c, Active, listed, Active \ listed)
      BY <1>3 DEF LoseList
    <2>2. Wanted(call[c]) = Active
      BY <1>3 DEF LoseList, Wanted
    <2>3. CASE Aim(c, listed, IF ByRefreshAll(call[c]) THEN Active ELSE listed, Active \ listed)
      <3> DEFINE todo == IF ByRefreshAll(call[c]) THEN Active ELSE listed
      <3>1. todo \in SUBSET Agents /\ listed \subseteq todo
        BY <1>1
      <3> HIDE DEF todo
      <3>2. Aim(c, listed, todo, Active \ listed)
        BY <2>3 DEF todo
      <3>3. Aims(c, listed, todo, Active \ listed)
        BY <1>0, <3>2
      <3> QED
        BY <1>1, <2>2, <3>1, <3>3
    <2>4. CASE Aim(c, Active, listed, Active \ listed)
      <3>1. Aims(c, Active, listed, Active \ listed)
        BY <1>0, <2>4
      <3> QED
        BY <1>1, <2>2, <3>1
    <2> QED
      BY <2>1, <2>3, <2>4
  <1> QED
    BY <1>2, <1>3

LEMMA TypeStep == TypeInv /\ [Next]_vars => TypeInv'
  <1> SUFFICES ASSUME TypeInv, [Next]_vars PROVE TypeInv'
    OBVIOUS
  <1> USE DEF host
  <1>0. /\ Places0
        /\ call \in [Callers -> Call]
        /\ \A c \in Callers : call[c] \in Call /\ InPlace(call[c])
    BY DEF TypeInv, TypeOK, Places0
  <1>1. CASE UNCHANGED vars
    BY <1>1 DEF vars, TypeInv, TypeOK, InPlace
  <1>2. ASSUME NEW c \in Callers, NEW who \in Targeted, NEW s \in Inputs \cup {Keep},
               Save(c, who, s) \/ (s # Keep /\ SetAndDeploy(c, who, s))
        PROVE  TypeInv'
    <2>1. who \in SUBSET Agents /\ s \in Section \cup {Keep}
      BY InputsAssumption DEF Targeted
    <2> QED
      BY <1>2, <2>1, BeginType DEF Save, SetAndDeploy, Ops
  <1>3. ASSUME NEW c \in Callers, NEW who \in Targeted, Deploy(c, who) \/ Refresh(c, who)
        PROVE  TypeInv'
    <2>1. who \in SUBSET Agents
      BY DEF Targeted
    <2>2. CASE Deploy(c, who)
      <3>1. file \in Policy
        BY <1>0, <2>2 DEF Deploy, Readable, Places0
      <3>2. Begin(c, "deploy", who, Keep, "targets", file)
        BY <2>2 DEF Deploy
      <3>3. "deploy" \in Ops \ {"none"}
        BY DEF Ops
      <3> QED
        BY <2>1, <3>1, <3>2, <3>3, BeginType
    <2>3. CASE Refresh(c, who)
      <3>1. Begin(c, "refresh", who, Keep, "targets", Nothing)
        BY <2>3 DEF Refresh
      <3>2. "refresh" \in Ops \ {"none"}
        BY DEF Ops
      <3> QED
        BY <2>1, <3>1, <3>2, BeginType
    <2> QED
      BY <1>3, <2>2, <2>3
  <1>4. ASSUME NEW f \in {Nothing, Broken} \cup {[Skeleton EXCEPT !.global = s] : s \in Inputs}, Edit(f)
        PROVE  TypeInv'
    <2>1. f \in Policy \cup {Nothing, Torn, Broken}
      BY ConstantTypes
    <2>2. Places0' /\ call' = call
      BY <1>0, <1>4, <2>1, BoundsAssumption DEF Edit, Places0
    <2> QED
      BY <2>2 DEF TypeInv, TypeOK, Places0
  <1>5. ASSUME NEW c \in Callers, LoadPolicy(c) PROVE TypeInv'
    <2>1. Places0' /\ call[c].at = "load"
      BY <1>0, <1>5 DEF LoadPolicy, Places0, At
    <2>2. CASE Return(c, "error")
      BY <2>1, <2>2, ReturnType, Compose DEF Results
    <2>3. CASE ~Return(c, "error")
      <3> DEFINE p == SetEgress(IF file = Nothing THEN Skeleton ELSE file, call[c].who, call[c].sec)
                 k == [call[c] EXCEPT !.at = "write", !.pf = p]
      <3>1. p \in Policy
        <4>1. (IF file = Nothing THEN Skeleton ELSE file) \in Policy
          BY <1>0, <1>5, <2>3, ConstantTypes DEF LoadPolicy, Places0
        <4> QED
          BY <1>0, <4>1, SetType DEF Call
      <3>2. call' = [call EXCEPT ![c] = k]
        <4>1. Following["load"] = "write"
          BY DEF Following
        <4>2. call' = [call EXCEPT ![c].at = Following[@], ![c].pf = p]
          BY <1>5, <2>3 DEF LoadPolicy
        <4> HIDE DEF p
        <4> QED
          BY <1>0, <2>1, <4>1, <4>2
      <3> HIDE DEF p
      <3>3. k \in Call
        <4>1. call[c] \in Call /\ "write" \in Places /\ p \in Policy \cup {Nothing}
          BY <1>0, <3>1 DEF Places
        <4> QED
          BY <4>1 DEF Call
      <3>4. InPlace(k)
        BY <1>0, <2>1, <3>1 DEF InPlace, Call
      <3> QED
        BY <2>1, <3>2, <3>3, <3>4, Compose
    <2> QED
      BY <2>2, <2>3
  <1>6. ASSUME NEW c \in Callers, WriteTemp(c) \/ RenameTemp(c) \/ FailRename(c) PROVE TypeInv'
    <2>1. call[c].at \in {"write", "rename"} /\ call[c].op # "refresh" /\ call[c].pf \in Policy
      BY <1>0, <1>6 DEF WriteTemp, RenameTemp, FailRename, At, InPlace
    <2>2. Places0'
      BY <1>0, <1>6, <2>1, BoundsAssumption DEF WriteTemp, RenameTemp, FailRename, Disturb, Places0
    <2>3. CASE Proceed(c)
      BY <2>1, <2>2, <2>3, ProceedType, Compose
    <2>4. CASE Return(c, "error") \/ Return(c, "ok")
      BY <2>2, <2>4, ReturnType, Compose DEF Results
    <2> QED
      BY <1>6, <2>3, <2>4 DEF WriteTemp, RenameTemp, FailRename
  <1>7. ASSUME NEW c \in Callers, Targets(c) \/ LoseList(c) PROVE TypeInv'
    <2>1. Places0' /\ call[c].at = "targets"
      BY <1>0, <1>7, BoundsAssumption DEF Targets, LoseList, Disturb, Places0, At
    <2>2. CASE Return(c, "error")
      BY <2>1, <2>2, ReturnType, Compose DEF Results
    <2>3. CASE ~Return(c, "error")
      <3>1. PICK listed, todo, lost \in SUBSET Agents : Aims(c, listed, todo, lost)
        BY <1>0, <1>7, <2>3, AimAt
      <3>2. PICK k \in Call :
                /\ call' = [call EXCEPT ![c] = k]
                /\ k.at = "between" /\ k.todo = todo /\ k.op = call[c].op /\ k.pf = call[c].pf
                /\ k.res = call[c].res /\ k.did = call[c].did /\ k.bad = call[c].bad
        BY <1>0, <3>1, AimsFields
      <3>3. InPlace(k)
        BY <1>0, <2>1, <3>2 DEF InPlace
      <3> QED
        BY <2>1, <3>2, <3>3, Compose
    <2> QED
      BY <2>2, <2>3
  <1>8. ASSUME NEW c \in Callers, NextAgent(c) PROVE TypeInv'
    <2>1. Places0'
      BY <1>0, <1>8 DEF NextAgent, Places0
    <2>2. PICK a \in call[c].todo :
              call' = [call EXCEPT ![c].at = FirstForAgent(call[c].op), ![c].a = a]
      BY <1>8 DEF NextAgent
    <2> DEFINE first == FirstForAgent(call[c].op)
               k == [call[c] EXCEPT !.at = first, !.a = a]
    <2>3. call' = [call EXCEPT ![c] = k]
      BY <1>0, <2>2
    <2>4. a \in Agents
      BY <1>0 DEF Call
    <2>0. first \in {"read", "render"} /\ (first = "render" => call[c].op # "refresh")
      BY DEF FirstForAgent
    <2> HIDE DEF first
    <2>5. k \in Call
      <3>1. first \in Places /\ a \in Agents \cup {Nothing} /\ call[c] \in Call
        BY <1>0, <2>4, <2>0 DEF Places
      <3> QED
        BY <3>1 DEF Call
    <2>6. InPlace(k)
      BY <1>0, <1>8, <2>0 DEF InPlace, Call, NextAgent, At
    <2> QED
      BY <2>1, <2>3, <2>5, <2>6, Compose
  <1>9. ASSUME NEW c \in Callers, Finish(c) \/ Die(c) PROVE TypeInv'
    <2>1. Places0'
      BY <1>0, <1>9, BoundsAssumption DEF Finish, Die, Disturb, Places0
    <2>2. \E res \in Results : Return(c, res)
      BY <1>9 DEF Finish, Die, Reply, Results
    <2> QED
      BY <2>1, <2>2, ReturnType, Compose
  <1>10. ASSUME NEW c \in Callers, Render(c) PROVE TypeInv'
    <2>1. Places0'
      BY <1>0, <1>10 DEF Render, Places0
    <2>2. call[c].at = "render" /\ call[c].a \in Agents /\ call[c].pf \in Policy
      BY <1>0, <1>10 DEF Render, At, InPlace, Call
    <2> DEFINE eff == MergeForAgent(call[c].pf, call[c].a)
    <2>3. eff \in Section
      BY <2>2, MergeType
    <2> HIDE DEF eff
    <2> DEFINE k == [call[c] EXCEPT !.at = "conf", !.eff = eff]
    <2>4. call' = [call EXCEPT ![c] = k]
      BY <1>0, <1>10 DEF Render, eff
    <2>5. k \in Call
      <3>1. call[c] \in Call /\ "conf" \in Places /\ eff \in Section \cup {Nothing}
        BY <1>0, <2>3 DEF Places
      <3> QED
        BY <3>1 DEF Call
    <2>6. InPlace(k)
      BY <1>0, <2>2, <2>3 DEF InPlace, Call
    <2> QED
      BY <2>1, <2>4, <2>5, <2>6, Compose
  <1>11. ASSUME NEW c \in Callers, ReadPolicy(c) PROVE TypeInv'
    <2>1. Places0'
      BY <1>0, <1>11, BoundsAssumption DEF ReadPolicy, Disturb, Places0
    <2>2. call[c].at = "read" /\ call[c].a \in Agents
      BY <1>0, <1>11 DEF ReadPolicy, At, InPlace, Call
    <2>3. CASE FailAgent(c) \/ FailDeploy(c)
      BY <2>1, <2>2, <2>3, FailType, Compose
    <2> DEFINE eff == LoadEgressPolicy(call[c].a)
               next == Following[call[c].at]
               k == [call[c] EXCEPT !.at = next, !.eff = eff]
    <2>4. CASE call' = [call EXCEPT ![c].at = Following[@], ![c].eff = LoadEgressPolicy(call[c].a)]
      <3>1. eff \in Section
        <4>1. Readable(file) => file \in Policy
          BY <1>0 DEF Places0, Readable
        <4> QED
          BY <2>2, <4>1, MergeType, ConstantTypes DEF LoadEgressPolicy
      <3>2. next \in {"stop", "conf"}
        BY <2>2 DEF Following
      <3>3. call' = [call EXCEPT ![c] = k]
        BY <1>0, <2>4
      <3> HIDE DEF eff, next
      <3>4. k \in Call
        <4>1. call[c] \in Call /\ next \in Places /\ eff \in Section \cup {Nothing}
          BY <1>0, <3>1, <3>2 DEF Places
        <4> QED
          BY <4>1 DEF Call
      <3>5. InPlace(k)
        BY <1>0, <2>2, <3>1, <3>2 DEF InPlace, Call
      <3> QED
        BY <2>1, <3>3, <3>4, <3>5, Compose
    <2> QED
      BY <1>11, <2>3, <2>4 DEF ReadPolicy
  <1>12. ASSUME NEW c \in Callers,
                WriteConf(c) \/ WriteManifest(c) \/ StopProxy(c) \/ RunProxy(c)
         PROVE  TypeInv'
    <2>1. /\ call[c].at \in {"conf", "manifest", "stop", "run"}
          /\ call[c].a \in Agents /\ call[c].eff \in Section
      BY <1>0, <1>12 DEF WriteConf, WriteManifest, StopProxy, RunProxy, At, InPlace, Call
    <2>2. GenerateProxyConf(call[c].eff) \in Rule
      BY <2>1, RuleType
    <2>3. Places0'
      BY <1>0, <1>12, <2>1, <2>2, BoundsAssumption
         DEF WriteConf, WriteManifest, StopProxy, RunProxy, Disturb, Places0
    <2>4. CASE Proceed(c)
      BY <2>1, <2>3, <2>4, ProceedType, Compose
    <2>5. CASE FailAgent(c) \/ FailDeploy(c)
      BY <2>1, <2>3, <2>5, FailType, Compose
    <2> QED
      BY <1>12, <2>4, <2>5 DEF WriteConf, WriteManifest, StopProxy, RunProxy
  <1>13. ASSUME NEW c \in Callers, StartAgent(c) PROVE TypeInv'
    <2>1. Places0'
      BY <1>0, <1>13, BoundsAssumption DEF StartAgent, Disturb, Places0
    <2>2. CASE FailAgent(c) \/ FailDeploy(c)
      BY <1>13, <2>1, <2>2, FailType, Compose DEF StartAgent, At
    <2>3. CASE call' = [call EXCEPT ![c].at = "between", ![c].todo = @ \ {call[c].a},
                                    ![c].did = @ \cup {call[c].a}]
      <3> DEFINE k == [call[c] EXCEPT !.at = "between", !.todo = @ \ {call[c].a},
                                      !.did = @ \cup {call[c].a}]
      <3>1. call' = [call EXCEPT ![c] = k]
        BY <1>0, <2>3
      <3>2. call[c].a \in Agents
        BY <1>0, <1>13 DEF StartAgent, At, InPlace, Call
      <3>3. k \in Call
        <4> DEFINE k1 == [call[c] EXCEPT !.at = "between"]
        <4>1. call[c] \in Call /\ "between" \in Places
          BY <1>0 DEF Places
        <4>2. k1 \in Call /\ k1.todo = call[c].todo /\ k1.did = call[c].did
          BY <4>1 DEF Call
        <4>3. k = [k1 EXCEPT !.todo = k1.todo \ {call[c].a}, !.did = k1.did \cup {call[c].a}]
          BY <4>1, <4>2 DEF Call
        <4> HIDE DEF k1, k
        <4> QED
          BY <3>2, <4>2, <4>3 DEF Call
      <3>4. InPlace(k)
        BY <1>0, <1>13 DEF InPlace, Call, StartAgent, At
      <3> QED
        BY <2>1, <3>1, <3>3, <3>4, Compose
    <2> QED
      BY <1>13, <2>2, <2>3 DEF StartAgent
  <1>14. CASE HostRestart
    <2>1. Places0' /\ call' = call
      BY <1>0, <1>14, BoundsAssumption DEF HostRestart, Disturb, Places0
    <2> QED
      BY <2>1 DEF TypeInv, TypeOK, Places0
  <1> QED
    BY <1>1, <1>2, <1>3, <1>4, <1>5, <1>6, <1>7, <1>8, <1>9, <1>10, <1>11, <1>12, <1>13, <1>14,
       NothingAssumption, InputsAssumption DEF Next

LEMMA TypeInit == Init => TypeInv
  <1> SUFFICES ASSUME Init PROVE TypeInv
    OBVIOUS
  <1>1. GenerateProxyConf(DenyAll) \in Rule /\ DenyAll \in Section
    BY RuleType, ConstantTypes
  <1>2. Idle \in Call /\ InPlace(Idle)
    BY DEF Idle, Call, Ops, Places, Results, InPlace
  <1>3. Idle.todo = {}
    BY DEF Idle
  <1> QED
    BY <1>1, <1>2, <1>3, BoundsAssumption DEF Init, TypeInv, TypeOK

\* every variable keeps its type, and no call counts an agent among those still to do and those
\* done or failed, for every set of agents, callers and inputs and every bound
THEOREM TypeCorrect == Spec => []TypeOK
  <1>1. TypeInv => TypeOK
    BY DEF TypeInv
  <1> QED
    BY <1>1, TypeInit, TypeStep, PTL DEF Spec

LEMMA TypeInvHolds == Spec => []TypeInv
  BY TypeInit, TypeStep, PTL DEF Spec

--------------------------------------------------------------------------------
(* Saving and deploying, with one caller: the temporary file has one name, and two saves at *)
(* a time can publish each other's policy.                                                  *)

Deploys(k) == k.op \in {"set", "deploy"}

\* What a call in progress relies on: the temporary file it is about to rename is its own, the
\* policy it deploys is the file and stays so, the config of the agent it works at is written
\* before the proxy is started, and what it has done stays done.
Good(c) ==
    LET k == call[c]
        rule(a) == GenerateProxyConf(MergeForAgent(k.pf, a))
    IN  /\ k.at \in {"write", "rename"} => Valid(k.pf)
        /\ k.at = "rename" => tmp = k.pf
        /\ Deploys(k) /\ k.at \notin {"load", "write", "rename", "done"} => file = k.pf /\ Valid(k.pf)
        /\ Deploys(k) /\ k.at \in {"stop", "conf", "manifest", "run", "agent"}
               => k.eff = MergeForAgent(k.pf, k.a)
        /\ k.at \in {"manifest", "run", "agent"} \cup (IF prov = "aws" THEN {"stop"} ELSE {})
               => conf[k.a] = GenerateProxyConf(k.eff)
        /\ k.at = "agent" => proxy[k.a] \in {Nothing, GenerateProxyConf(k.eff)}
        /\ Deploys(k) => \A a \in k.did : conf[a] = rule(a) /\ proxy[a] \in {Nothing, rule(a)}

DeployInv == file # Torn /\ \A c \in Callers : Good(c)

\* one caller, in the middle of a step
Step(one) ==
    /\ Callers = {one} /\ TypeInv /\ DeployInv
    /\ call \in [Callers -> Call] /\ call[one] \in Call /\ InPlace(call[one]) /\ Good(one)

\* a call that begins deploys the file, or has nothing to show yet
LEMMA BeginGood ==
  ASSUME NEW one, Step(one), NEW c \in Callers, NEW who, NEW sec, NEW op \in Ops, NEW pf,
         NEW at \in {"load", "targets"},
         op \in {"set", "deploy"} /\ at = "targets" => pf = file /\ Valid(file),
         Begin(c, op, who, sec, at, pf)
  PROVE  DeployInv'
  <1> DEFINE k == [Idle EXCEPT !.op = op, !.who = who, !.sec = sec, !.at = at, !.pf = pf]
  <1>1. c = one /\ call' = [call EXCEPT ![c] = k] /\ file' = file
    BY DEF Begin, Step
  <1>2. call'[one] = k
    BY <1>1 DEF Step
  <1>3. k.at = at /\ k.op = op /\ k.pf = pf /\ k.did = {}
    BY DEF Idle
  <1> HIDE DEF k
  <1>4. Good(one)'
    BY <1>1, <1>2, <1>3 DEF Good, Deploys
  <1> QED
    BY <1>1, <1>4 DEF DeployInv, Step

\* a call that returns keeps what it has done
LEMMA ReturnGood ==
  ASSUME NEW one, Step(one), NEW c \in Callers, NEW res, Return(c, res), file' # Torn,
         \A a \in call[c].did : conf'[a] = conf[a] /\ proxy'[a] = proxy[a]
  PROVE  DeployInv'
  <1>1. c = one /\ call'[one] = [call[one] EXCEPT !.at = "done", !.res = res]
    BY DEF Return, Step
  <1>2. /\ call'[one].at = "done" /\ call'[one].op = call[one].op
        /\ call'[one].pf = call[one].pf /\ call'[one].did = call[one].did
    BY <1>1 DEF Step, Call
  <1>3. Good(one)'
    BY <1>1, <1>2 DEF Good, Deploys, Step
  <1> QED
    BY <1>3 DEF DeployInv, Step

\* so does one that gives up on an agent
LEMMA FailGood ==
  ASSUME NEW one, Step(one), NEW c \in Callers, FailAgent(c) \/ FailDeploy(c), file' = file,
         call[c].at \in {"read", "render", "stop", "conf", "manifest", "run", "agent"},
         \A a \in call[c].did : conf'[a] = conf[a] /\ proxy'[a] = proxy[a]
  PROVE  DeployInv'
  <1>1. c = one /\ file' # Torn
    BY DEF Step, DeployInv
  <1>2. CASE Return(c, "error")
    BY <1>1, <1>2, ReturnGood
  <1>3. CASE ~Return(c, "error")
    <2>1. /\ call'[one].at = "between" /\ call'[one].op = call[one].op
          /\ call'[one].pf = call[one].pf /\ call'[one].did = call[one].did
      BY <1>1, <1>3 DEF FailAgent, FailDeploy, Step, Call
    <2>2. Good(one)'
      BY <1>1, <2>1 DEF Good, Deploys, Step
    <2> QED
      BY <1>1, <2>2 DEF DeployInv, Step
  <1> QED
    BY <1>2, <1>3

\* the call goes on to another place and is otherwise the same
LEMMA MoveFields ==
  ASSUME NEW one, Step(one), Proceed(one)
  PROVE  /\ call'[one].at = Following[call[one].at]
         /\ call'[one].op = call[one].op /\ call'[one].pf = call[one].pf
         /\ call'[one].eff = call[one].eff /\ call'[one].a = call[one].a
         /\ call'[one].did = call[one].did
  BY DEF Proceed, Step, Call

LEMMA DeployStep ==
  ASSUME NEW one, Callers = {one}, TypeInv, DeployInv, [Next]_vars
  PROVE  DeployInv'
  <1> USE DEF host
  <1>0. Step(one) /\ one \in Callers
    BY DEF Step, TypeInv, TypeOK, DeployInv
  <1>1. CASE UNCHANGED vars
    BY <1>1 DEF vars, DeployInv, Good, Deploys
  <1>2. ASSUME NEW c \in Callers, NEW who \in Targeted, NEW s \in Inputs \cup {Keep},
               Save(c, who, s) \/ (s # Keep /\ SetAndDeploy(c, who, s))
        PROVE  DeployInv'
    BY <1>0, <1>2, BeginGood DEF Save, SetAndDeploy, Ops
  <1>3. ASSUME NEW c \in Callers, NEW who \in Targeted, Deploy(c, who) \/ Refresh(c, who)
        PROVE  DeployInv'
    BY <1>0, <1>3, BeginGood DEF Deploy, Refresh, Ops
  <1>4. ASSUME NEW f \in {Nothing, Broken} \cup {[Skeleton EXCEPT !.global = s] : s \in Inputs}, Edit(f)
        PROVE  DeployInv'
    <2>1. f # Torn
      BY ConstantTypes, NothingAssumption
    <2>2. call' = call /\ call[one].at = "done" /\ conf' = conf /\ proxy' = proxy
      BY <1>0, <1>4 DEF Edit, Ready, At
    <2>3. Good(one)'
      BY <1>0, <2>2 DEF Good, Deploys, Step
    <2> QED
      BY <1>0, <1>4, <2>1, <2>3 DEF Edit, DeployInv, Step
  <1>5. ASSUME NEW c \in Callers, LoadPolicy(c) PROVE DeployInv'
    <2>1. c = one /\ file' = file /\ file' # Torn /\ conf' = conf /\ proxy' = proxy
      BY <1>0, <1>5 DEF LoadPolicy, Step, DeployInv
    <2>2. CASE Return(c, "error")
      BY <1>0, <2>1, <2>2, ReturnGood
    <2>3. CASE ~Return(c, "error")
      <3>1. Following["load"] = "write" /\ call[one].at = "load" /\ call[one].did = {}
        BY <1>0, <1>5, <2>1 DEF Following, LoadPolicy, At, Step, InPlace
      <3> DEFINE p == SetEgress(IF file = Nothing THEN Skeleton ELSE file, call[c].who, call[c].sec)
      <3>2. Valid(p) /\ call' = [call EXCEPT ![c].at = Following[@], ![c].pf = p]
        BY <1>5, <2>3 DEF LoadPolicy
      <3> HIDE DEF p
      <3>3. /\ call'[one].at = "write" /\ call'[one].pf = p /\ call'[one].did = {}
            /\ call'[one].op = call[one].op
        BY <1>0, <2>1, <3>1, <3>2 DEF Step, Call
      <3>4. Valid(call'[one].pf)
        BY <3>2, <3>3
      <3>5. Good(one)'
        BY <3>3, <3>4 DEF Good, Deploys
      <3> QED
        BY <1>0, <2>1, <3>5 DEF DeployInv, Step
    <2> QED
      BY <2>2, <2>3
  <1>6. ASSUME NEW c \in Callers, WriteTemp(c) PROVE DeployInv'
    <2>1. /\ c = one /\ file' = file /\ file' # Torn /\ conf' = conf /\ proxy' = proxy
          /\ call[one].at = "write" /\ call[one].did = {}
      BY <1>0, <1>6 DEF WriteTemp, Step, DeployInv, At, InPlace
    <2>2. CASE Return(c, "error")
      BY <1>0, <2>1, <2>2, ReturnGood
    <2>3. CASE tmp' = call[c].pf /\ Proceed(c)
      <3>1. Following["write"] = "rename"
        BY DEF Following
      <3>2. Good(one)'
        BY <1>0, <2>1, <2>3, <3>1, MoveFields DEF Good, Deploys, Step
      <3> QED
        BY <1>0, <2>1, <3>2 DEF DeployInv, Step
    <2> QED
      BY <1>6, <2>2, <2>3 DEF WriteTemp
  <1>7. ASSUME NEW c \in Callers, RenameTemp(c) \/ FailRename(c) PROVE DeployInv'
    <2>1. /\ c = one /\ conf' = conf /\ proxy' = proxy
          /\ call[one].at = "rename" /\ call[one].did = {}
      BY <1>0, <1>7 DEF RenameTemp, FailRename, Step, At, InPlace
    <2>2. call[one].pf \in Policy /\ tmp = call[one].pf /\ Valid(call[one].pf)
      BY <1>0, <2>1 DEF Step, Good, InPlace
    <2>3. tmp # Nothing /\ tmp # Torn
      BY <2>2, NothingAssumption
    <2>4. file' \in {file, tmp} /\ file' # Torn
      BY <1>0, <1>7, <2>3 DEF RenameTemp, FailRename, Step, DeployInv
    <2>5. CASE Return(c, "error") \/ Return(c, "ok")
      BY <1>0, <2>1, <2>4, <2>5, ReturnGood
    <2>6. CASE file' = tmp /\ Proceed(c)
      <3>1. Following["rename"] = "targets"
        BY DEF Following
      <3>2. Good(one)'
        BY <1>0, <2>1, <2>2, <2>6, <3>1, MoveFields DEF Good, Deploys, Step
      <3> QED
        BY <1>0, <2>4, <3>2 DEF DeployInv, Step
    <2> QED
      BY <1>7, <2>3, <2>5, <2>6 DEF RenameTemp, FailRename
  <1>8. ASSUME NEW c \in Callers,
               Targets(c) \/ LoseList(c) \/ NextAgent(c) \/ Finish(c) \/ Render(c) \/ Die(c)
        PROVE  DeployInv'
    <2>1. c = one /\ file' = file /\ file' # Torn /\ conf' = conf /\ proxy' = proxy
      BY <1>0, <1>8 DEF Targets, LoseList, NextAgent, Finish, Render, Die, Step, DeployInv
    <2>2. CASE \E res : Return(c, res)
      BY <1>0, <2>1, <2>2, ReturnGood
    <2>3. CASE /\ call[one].at \in {"targets", "between"}
               /\ call'[one].at \in {"between", "read", "render"}
               /\ call'[one].op = call[one].op /\ call'[one].pf = call[one].pf
               /\ call'[one].did = call[one].did
      <3>1. Good(one)'
        BY <1>0, <2>1, <2>3 DEF Good, Deploys, Step
      <3> QED
        BY <1>0, <2>1, <3>1 DEF DeployInv, Step
    <2>4. CASE Render(c)
      <3>1. /\ call[one].at = "render" /\ call'[one].at = "conf"
            /\ call'[one].op = call[one].op /\ call'[one].pf = call[one].pf
            /\ call'[one].did = call[one].did
            /\ call'[one].eff = MergeForAgent(call'[one].pf, call'[one].a)
        BY <1>0, <2>1, <2>4 DEF Render, At, Step, Call
      <3>2. Good(one)'
        BY <1>0, <2>1, <3>1 DEF Good, Deploys, Step
      <3> QED
        BY <1>0, <2>1, <3>2 DEF DeployInv, Step
    <2>5. CASE (Targets(c) \/ LoseList(c)) /\ ~Return(c, "error")
      <3>1. call[one].at = "targets"
        BY <2>1, <2>5 DEF Targets, LoseList, At
      <3>2. \E listed, todo, lost \in SUBSET Agents : Aims(one, listed, todo, lost)
        BY <1>0, <2>1, <2>5, AimAt DEF Step
      <3>3. /\ call'[one].at = "between" /\ call'[one].op = call[one].op
            /\ call'[one].pf = call[one].pf /\ call'[one].did = call[one].did
        BY <1>0, <3>2, AimsFields DEF Step
      <3> QED
        BY <2>3, <3>1, <3>3
    <2>6. CASE NextAgent(c)
      <3>1. FirstForAgent(call[c].op) \in {"read", "render"}
        BY DEF FirstForAgent
      <3> QED
        BY <1>0, <2>1, <2>3, <2>6, <3>1 DEF NextAgent, At, Step, Call
    <2> QED
      BY <1>8, <2>2, <2>4, <2>5, <2>6 DEF Finish, Die
  <1>9. ASSUME NEW c \in Callers, ReadPolicy(c) PROVE DeployInv'
    <2>1. /\ c = one /\ file' = file /\ file' # Torn /\ conf' = conf /\ proxy' = proxy
          /\ call[one].at = "read" /\ prov' = prov
      BY <1>0, <1>9 DEF ReadPolicy, Step, DeployInv, At
    <2>2. CASE FailAgent(c) \/ FailDeploy(c)
      BY <1>0, <2>1, <2>2, FailGood
    <2>3. CASE call' = [call EXCEPT ![c].at = Following[@], ![c].eff = LoadEgressPolicy(call[c].a)]
      <3>1. Following["read"] = IF prov = "aws" THEN "conf" ELSE "stop"
        BY DEF Following
      <3> DEFINE eff == LoadEgressPolicy(call[c].a)
      <3> HIDE DEF eff
      <3>2. /\ call'[one].at = IF prov = "aws" THEN "conf" ELSE "stop"
            /\ call'[one].op = call[one].op /\ call'[one].pf = call[one].pf
            /\ call'[one].did = call[one].did /\ call'[one].a = call[one].a
            /\ call'[one].eff = eff
        BY <1>0, <2>1, <2>3, <3>1 DEF Step, Call, eff
      <3>3. Deploys(call[one]) => eff = MergeForAgent(call[one].pf, call[one].a)
        <4>1. Deploys(call[one]) => /\ call[one].pf \in Policy /\ file = call[one].pf /\ Valid(file)
          BY <1>0, <2>1 DEF Step, Good, InPlace, Deploys
        <4>2. Deploys(call[one]) => Readable(file)
          BY <4>1, NothingAssumption DEF Readable
        <4> QED
          BY <2>1, <4>1, <4>2 DEF eff, LoadEgressPolicy
      <3>4. Good(one)'
        BY <1>0, <2>1, <3>2, <3>3 DEF Good, Deploys, Step
      <3> QED
        BY <1>0, <2>1, <3>4 DEF DeployInv, Step
    <2> QED
      BY <1>9, <2>2, <2>3 DEF ReadPolicy
  <1>10. ASSUME NEW c \in Callers,
                WriteConf(c) \/ WriteManifest(c) \/ StopProxy(c) \/ RunProxy(c) \/ StartAgent(c)
         PROVE  DeployInv'
    <2>1. /\ c = one /\ file' = file /\ file' # Torn /\ tmp' = tmp /\ prov' = prov
          /\ call[one].at \in {"conf", "manifest", "stop", "run", "agent"}
          /\ call[one].a \in Agents /\ call[one].a \notin call[one].did
          /\ call[one].did \subseteq Agents
          /\ conf \in [Agents -> Rule \cup {Nothing}] /\ proxy \in [Agents -> Rule \cup {Nothing}]
      BY <1>0, <1>10 DEF WriteConf, WriteManifest, StopProxy, RunProxy, StartAgent, Step, DeployInv,
                         At, InPlace, Call, TypeInv, TypeOK
    <2>2. \A a \in call[one].did : conf'[a] = conf[a] /\ proxy'[a] = proxy[a]
      BY <1>10, <2>1 DEF WriteConf, WriteManifest, StopProxy, RunProxy, StartAgent
    <2>3. CASE FailAgent(c) \/ FailDeploy(c)
      BY <1>0, <2>1, <2>2, <2>3, FailGood
    <2>4. CASE WriteConf(c) /\ ~(FailAgent(c) \/ FailDeploy(c))
      <3>1. /\ call[one].at = "conf" /\ Proceed(one)
            /\ conf'[call[one].a] = GenerateProxyConf(call[one].eff)
        BY <2>1, <2>4 DEF WriteConf, At
      <3>2. Following["conf"] = "manifest"
        BY DEF Following
      <3>3. Good(one)'
        BY <1>0, <2>1, <2>2, <3>1, <3>2, MoveFields DEF Good, Deploys, Step
      <3> QED
        BY <1>0, <2>1, <3>3 DEF DeployInv, Step
    <2>5. CASE WriteManifest(c) /\ ~(FailAgent(c) \/ FailDeploy(c))
      <3>1. call[one].at = "manifest" /\ Proceed(one) /\ conf' = conf /\ proxy' = proxy
        BY <2>1, <2>5 DEF WriteManifest, At
      <3>2. Following["manifest"] = IF prov = "aws" THEN "stop" ELSE "run"
        BY DEF Following
      <3>3. Good(one)'
        BY <1>0, <2>1, <3>1, <3>2, MoveFields DEF Good, Deploys, Step
      <3> QED
        BY <1>0, <2>1, <3>3 DEF DeployInv, Step
    <2>6. CASE StopProxy(c) /\ ~(FailAgent(c) \/ FailDeploy(c))
      <3>1. call[one].at = "stop" /\ Proceed(one) /\ conf' = conf
        BY <2>1, <2>6 DEF StopProxy, At
      <3>2. Following["stop"] = IF prov = "aws" THEN "run" ELSE "conf"
        BY DEF Following
      <3>3. Good(one)'
        BY <1>0, <2>1, <2>2, <3>1, <3>2, MoveFields DEF Good, Deploys, Step
      <3> QED
        BY <1>0, <2>1, <3>3 DEF DeployInv, Step
    <2>7. CASE RunProxy(c) /\ ~(FailAgent(c) \/ FailDeploy(c))
      <3>1. /\ call[one].at = "run" /\ Proceed(one) /\ conf' = conf
            /\ proxy'[call[one].a] = conf[call[one].a]
        BY <2>1, <2>7 DEF RunProxy, At
      <3>2. Following["run"] = "agent"
        BY DEF Following
      <3>3. Good(one)'
        BY <1>0, <2>1, <2>2, <3>1, <3>2, MoveFields DEF Good, Deploys, Step
      <3> QED
        BY <1>0, <2>1, <3>3 DEF DeployInv, Step
    <2>8. CASE StartAgent(c) /\ ~(FailAgent(c) \/ FailDeploy(c))
      <3>1. /\ call[one].at = "agent" /\ call'[one].at = "between" /\ conf' = conf /\ proxy' = proxy
            /\ call'[one].op = call[one].op /\ call'[one].pf = call[one].pf
            /\ call'[one].did = call[one].did \cup {call[one].a}
        BY <1>0, <2>1, <2>8 DEF StartAgent, At, Step, Call
      <3>2. Good(one)'
        BY <1>0, <2>1, <3>1 DEF Good, Deploys, Step
      <3> QED
        BY <1>0, <2>1, <3>2 DEF DeployInv, Step
    <2> QED
      BY <1>10, <2>3, <2>4, <2>5, <2>6, <2>7, <2>8
  <1>11. CASE HostRestart
    <2>1. /\ call' = call /\ file' = file /\ tmp' = tmp /\ prov' = prov /\ conf' = conf
          /\ call[one].did \subseteq Agents
          /\ call[one].at = "agent" => call[one].a \in Agents
          /\ \A a \in Agents : proxy'[a] \in {Nothing, conf[a]}
      BY <1>0, <1>11 DEF HostRestart, Step, Call, InPlace
    <2>2. Good(one)'
      BY <1>0, <2>1 DEF Good, Deploys, Step
    <2> QED
      BY <1>0, <2>1, <2>2 DEF DeployInv, Step
  <1> QED
    BY <1>1, <1>2, <1>3, <1>4, <1>5, <1>6, <1>7, <1>8, <1>9, <1>10, <1>11,
       NothingAssumption, InputsAssumption DEF Next

LEMMA DeployInit == Init => DeployInv
  <1> SUFFICES ASSUME Init PROVE DeployInv
    OBVIOUS
  <1>1. file # Torn
    BY NothingAssumption DEF Init
  <1>2. \A c \in Callers : call[c].at = "done" /\ call[c].op = "none"
    BY DEF Init, Idle
  <1>3. \A c \in Callers : Good(c)
    BY <1>2 DEF Good, Deploys
  <1> QED
    BY <1>1, <1>3 DEF DeployInv

LEMMA DeployInvHolds == ASSUME NEW one, Callers = {one} PROVE Spec => []DeployInv
  <1>1. TypeInv /\ DeployInv /\ [Next]_vars => DeployInv'
    BY DeployStep
  <1> QED
    BY <1>1, DeployInit, TypeInvHolds, PTL DEF Spec

\* with one caller the policy file is never cut short, whatever step fails or process dies
THEOREM FileIsNeverTorn == ASSUME NEW one, Callers = {one} PROVE Spec => []FileNeverTorn
  <1>1. DeployInv => FileNeverTorn
    BY DEF DeployInv, FileNeverTorn
  <1> QED
    BY <1>1, DeployInvHolds, PTL

\* What a deployment has aimed at: each agent that it listed and no list lost is to do, done or
\* failed, and it has listed whoever was wanted but for those.
Aimed(k) ==
    Deploys(k) =>
        /\ k.at \in {"between", "read", "render", "stop", "conf", "manifest", "run", "agent"}
               => /\ k.told \ k.lost \subseteq k.todo \cup k.did \cup k.bad
                  /\ Wanted(k) \subseteq k.told \cup k.lost
        /\ k.at = "done" /\ k.res = "ok"
               => k.told \ k.lost \subseteq k.did /\ Wanted(k) \subseteq k.told \cup k.lost

AimInv == \A c \in Callers : Aimed(call[c])

\* one call is replaced
LEMMA AimReplace ==
  ASSUME TypeInv, AimInv, NEW c \in Callers, NEW k, call' = [call EXCEPT ![c] = k], Aimed(k),
         UNCHANGED paused
  PROVE  AimInv'
  <1>1. \A d \in Callers : call'[d] = IF d = c THEN k ELSE call[d]
    BY DEF TypeInv, TypeOK
  <1>2. \A d \in Callers : Aimed(call'[d])
    BY <1>1 DEF AimInv
  <1> QED
    BY <1>2 DEF AimInv, Aimed, Wanted, Active

LEMMA AimStep == TypeInv /\ AimInv /\ [Next]_vars => AimInv'
  <1> SUFFICES ASSUME TypeInv, AimInv, [Next]_vars PROVE AimInv'
    OBVIOUS
  <1> USE DEF host
  <1>0. /\ call \in [Callers -> Call]
        /\ \A c \in Callers : call[c] \in Call /\ InPlace(call[c]) /\ Aimed(call[c])
    BY DEF TypeInv, TypeOK, AimInv
  <1>1. CASE UNCHANGED <<paused, call>>
    BY <1>1 DEF AimInv, Aimed, Wanted, Active
  <1>2. ASSUME NEW c \in Callers, NEW who, NEW s, NEW op, NEW pf, NEW at \in {"load", "targets"},
               Begin(c, op, who, s, at, pf)
        PROVE  AimInv'
    <2> DEFINE k == [Idle EXCEPT !.op = op, !.who = who, !.sec = s, !.at = at, !.pf = pf]
    <2>1. call' = [call EXCEPT ![c] = k] /\ paused' = paused
      BY <1>2 DEF Begin
    <2>2. k.at = at
      BY DEF Idle
    <2> HIDE DEF k
    <2>3. Aimed(k)
      BY <2>2 DEF Aimed
    <2> QED
      BY <2>1, <2>3, AimReplace
  <1>3. ASSUME NEW c \in Callers, NEW res, Return(c, res), res # "ok", paused' = paused PROVE AimInv'
    <2> DEFINE k == [call[c] EXCEPT !.at = "done", !.res = res]
    <2>1. call' = [call EXCEPT ![c] = k] /\ k.at = "done" /\ k.res = res
      BY <1>0, <1>3 DEF Return, Call
    <2> HIDE DEF k
    <2>2. Aimed(k)
      BY <1>3, <2>1 DEF Aimed
    <2> QED
      BY <1>3, <2>1, <2>2, AimReplace
  <1>4. ASSUME NEW c \in Callers, FailAgent(c) \/ FailDeploy(c), paused' = paused,
               call[c].at \in {"read", "render", "stop", "conf", "manifest", "run", "agent"}
        PROVE  AimInv'
    <2>1. CASE Return(c, "error")
      BY <1>3, <1>4, <2>1
    <2>2. CASE call' = [call EXCEPT ![c].at = "between", ![c].todo = @ \ {call[c].a},
                                    ![c].bad = @ \cup {call[c].a}]
      <3> DEFINE k == [call[c] EXCEPT !.at = "between", !.todo = @ \ {call[c].a},
                                      !.bad = @ \cup {call[c].a}]
      <3>1. call' = [call EXCEPT ![c] = k]
        BY <1>0, <2>2
      <3>2. /\ k.at = "between" /\ k.op = call[c].op /\ k.who = call[c].who /\ k.told = call[c].told
            /\ k.lost = call[c].lost /\ k.did = call[c].did
            /\ k.todo = call[c].todo \ {call[c].a} /\ k.bad = call[c].bad \cup {call[c].a}
        BY <1>0 DEF Call
      <3> HIDE DEF k
      <3>3. Aimed(k)
        BY <1>0, <1>4, <3>2 DEF Aimed, Deploys, Wanted
      <3> QED
        BY <1>4, <3>1, <3>3, AimReplace
    <2>3. CASE /\ call[c].op = "refresh"
               /\ call' = [call EXCEPT ![c].at = "between", ![c].todo = @ \ {call[c].a}]
      <3> DEFINE k == [call[c] EXCEPT !.at = "between", !.todo = @ \ {call[c].a}]
      <3>1. call' = [call EXCEPT ![c] = k] /\ k.op = "refresh"
        BY <1>0, <2>3 DEF Call
      <3> HIDE DEF k
      <3>2. Aimed(k)
        BY <3>1 DEF Aimed, Deploys
      <3> QED
        BY <1>4, <3>1, <3>2, AimReplace
    <2> QED
      BY <1>4, <2>1, <2>2, <2>3 DEF FailAgent, FailDeploy
  \* a call that moves on, with its agents as they were
  <1>5. ASSUME NEW c \in Callers, NEW at, NEW a, NEW eff, paused' = paused,
               at \in {"write", "rename", "targets"} \/ call[c].at \in
                   {"between", "read", "render", "stop", "conf", "manifest", "run", "agent"},
               at # "done",
               call'[c].at = at, call' = [call EXCEPT ![c] = call'[c]],
               /\ call'[c].op = call[c].op /\ call'[c].who = call[c].who /\ call'[c].told = call[c].told
               /\ call'[c].lost = call[c].lost /\ call'[c].did = call[c].did
               /\ call'[c].todo = call[c].todo /\ call'[c].bad = call[c].bad
        PROVE  AimInv'
    <2>1. Aimed(call[c])
      BY <1>0
    <2>2. Wanted(call'[c]) = Wanted(call[c])
      BY <1>5 DEF Wanted
    <2>3. Aimed(call'[c])
      BY <1>5, <2>1, <2>2 DEF Aimed, Deploys
    <2> QED
      BY <1>5, <2>3, AimReplace
  <1>6. ASSUME NEW c \in Callers, Proceed(c), paused' = paused,
               call[c].at \in {"load", "write", "rename", "read", "stop", "conf", "manifest", "run"}
        PROVE  AimInv'
    <2> DEFINE at == Following[call[c].at]
    <2>1. /\ call[c].at \in {"load", "write", "rename"} => at \in {"write", "rename", "targets"}
          /\ at \in {"write", "rename", "targets", "stop", "conf", "manifest", "run", "agent"}
      BY <1>6 DEF Following
    <2>2. call' = [call EXCEPT ![c].at = at]
      BY <1>6 DEF Proceed
    <2> HIDE DEF at
    <2>3. /\ call'[c].at = at /\ call' = [call EXCEPT ![c] = call'[c]]
          /\ call'[c].op = call[c].op /\ call'[c].who = call[c].who /\ call'[c].told = call[c].told
          /\ call'[c].lost = call[c].lost /\ call'[c].did = call[c].did
          /\ call'[c].todo = call[c].todo /\ call'[c].bad = call[c].bad
      BY <1>0, <2>2 DEF Call
    <2> QED
      BY <1>5, <1>6, <2>1, <2>3
  <1>7. ASSUME NEW c \in Callers, LoadPolicy(c) PROVE AimInv'
    <2>1. CASE Return(c, "error")
      BY <1>3, <1>7, <2>1 DEF LoadPolicy
    <2>2. CASE ~Return(c, "error")
      <3> DEFINE p == SetEgress(IF file = Nothing THEN Skeleton ELSE file, call[c].who, call[c].sec)
      <3>1. call' = [call EXCEPT ![c].at = Following[@], ![c].pf = p] /\ call[c].at = "load" /\ paused' = paused
        BY <1>7, <2>2 DEF LoadPolicy, At
      <3> HIDE DEF p
      <3>2. Following["load"] = "write"
        BY DEF Following
      <3>3. /\ call'[c].at = "write" /\ call' = [call EXCEPT ![c] = call'[c]]
            /\ call'[c].op = call[c].op /\ call'[c].who = call[c].who /\ call'[c].told = call[c].told
            /\ call'[c].lost = call[c].lost /\ call'[c].did = call[c].did
            /\ call'[c].todo = call[c].todo /\ call'[c].bad = call[c].bad
        BY <1>0, <3>1, <3>2 DEF Call
      <3> QED
        BY <1>5, <3>1, <3>3
    <2> QED
      BY <2>1, <2>2
  <1>8. ASSUME NEW c \in Callers, WriteTemp(c) \/ RenameTemp(c) \/ FailRename(c) PROVE AimInv'
    <2>1. paused' = paused /\ call[c].at \in {"write", "rename"}
      BY <1>8 DEF WriteTemp, RenameTemp, FailRename, At
    <2>2. CASE Return(c, "error")
      BY <1>3, <2>1, <2>2
    <2>3. CASE Proceed(c)
      BY <1>6, <2>1, <2>3
    <2>4. CASE Return(c, "ok") /\ call[c].op = "save"
      <3> DEFINE k == [call[c] EXCEPT !.at = "done", !.res = "ok"]
      <3>1. call' = [call EXCEPT ![c] = k] /\ k.op = "save"
        BY <1>0, <2>4 DEF Return, Call
      <3> HIDE DEF k
      <3>2. Aimed(k)
        BY <3>1 DEF Aimed, Deploys
      <3> QED
        BY <2>1, <3>1, <3>2, AimReplace
    <2> QED
      BY <1>8, <2>2, <2>3, <2>4 DEF WriteTemp, RenameTemp, FailRename
  <1>9. ASSUME NEW c \in Callers, Targets(c) \/ LoseList(c) PROVE AimInv'
    <2>1. paused' = paused
      BY <1>9 DEF Targets, LoseList
    <2>2. CASE Return(c, "error")
      BY <1>3, <2>1, <2>2
    <2>3. CASE ~Return(c, "error")
      <3>1. PICK listed \in SUBSET Agents, todo \in SUBSET Agents, lost \in SUBSET Agents :
                /\ Aims(c, listed, todo, lost)
                /\ listed \ lost \subseteq todo /\ Wanted(call[c]) \subseteq listed \cup lost
        BY <1>0, <1>9, <2>3, AimAt
      <3>2. PICK k \in Call :
                /\ call' = [call EXCEPT ![c] = k] /\ k.at = "between" /\ k.who = call[c].who
                /\ k.told = listed /\ k.todo = todo /\ k.lost = lost
        BY <1>0, <3>1, AimsFields
      <3>3. Aimed(k)
        BY <3>1, <3>2 DEF Aimed, Wanted
      <3> QED
        BY <2>1, <3>2, <3>3, AimReplace
    <2> QED
      BY <2>2, <2>3
  <1>10. ASSUME NEW c \in Callers, NextAgent(c) PROVE AimInv'
    <2> DEFINE first == FirstForAgent(call[c].op)
    <2>0. PICK a \in call[c].todo : call' = [call EXCEPT ![c].at = first, ![c].a = a]
      BY <1>10 DEF NextAgent
    <2>1. call[c].at = "between" /\ paused' = paused /\ first \in {"read", "render"}
      BY <1>10 DEF NextAgent, At, FirstForAgent
    <2> HIDE DEF first
    <2>2. /\ call'[c].at = first /\ call' = [call EXCEPT ![c] = call'[c]]
          /\ call'[c].op = call[c].op /\ call'[c].who = call[c].who /\ call'[c].told = call[c].told
          /\ call'[c].lost = call[c].lost /\ call'[c].did = call[c].did
          /\ call'[c].todo = call[c].todo /\ call'[c].bad = call[c].bad
      BY <1>0, <2>0 DEF Call
    <2> QED
      BY <1>5, <2>1, <2>2
  <1>11. ASSUME NEW c \in Callers, Finish(c) PROVE AimInv'
    <2> DEFINE res == Reply(call[c])
               k == [call[c] EXCEPT !.at = "done", !.res = res]
    <2>1. /\ call[c].at = "between" /\ call[c].todo = {} /\ paused' = paused
          /\ call' = [call EXCEPT ![c] = k]
      BY <1>0, <1>11 DEF Finish, Return, At
    <2>2. res = "ok" => call[c].bad = {}
      BY DEF Reply
    <2> HIDE DEF res
    <2>3. /\ k.at = "done" /\ k.op = call[c].op /\ k.who = call[c].who /\ k.told = call[c].told
          /\ k.lost = call[c].lost /\ k.did = call[c].did /\ k.res = res
      BY <1>0 DEF Call
    <2> HIDE DEF k
    <2>4. Aimed(k)
      BY <1>0, <2>1, <2>2, <2>3 DEF Aimed, Deploys, Wanted
    <2> QED
      BY <2>1, <2>4, AimReplace
  <1>12. ASSUME NEW c \in Callers, Die(c) PROVE AimInv'
    BY <1>3, <1>12 DEF Die
  <1>13. ASSUME NEW c \in Callers, Render(c) PROVE AimInv'
    <2> DEFINE eff == MergeForAgent(call[c].pf, call[c].a)
    <2>1. /\ call[c].at = "render" /\ paused' = paused
          /\ call' = [call EXCEPT ![c].at = "conf", ![c].eff = eff]
      BY <1>13 DEF Render, At
    <2> HIDE DEF eff
    <2>2. /\ call'[c].at = "conf" /\ call' = [call EXCEPT ![c] = call'[c]]
          /\ call'[c].op = call[c].op /\ call'[c].who = call[c].who /\ call'[c].told = call[c].told
          /\ call'[c].lost = call[c].lost /\ call'[c].did = call[c].did
          /\ call'[c].todo = call[c].todo /\ call'[c].bad = call[c].bad
      BY <1>0, <2>1 DEF Call
    <2> QED
      BY <1>5, <2>1, <2>2
  <1>14. ASSUME NEW c \in Callers, ReadPolicy(c) PROVE AimInv'
    <2>1. call[c].at = "read" /\ paused' = paused
      BY <1>14 DEF ReadPolicy, At
    <2>2. CASE FailAgent(c) \/ FailDeploy(c)
      BY <1>4, <2>1, <2>2
    <2> DEFINE eff == LoadEgressPolicy(call[c].a)
    <2>3. CASE call' = [call EXCEPT ![c].at = Following[@], ![c].eff = eff]
      <3>1. Following["read"] \in {"stop", "conf"}
        BY DEF Following
      <3> HIDE DEF eff
      <3>2. /\ call'[c].at = Following["read"] /\ call' = [call EXCEPT ![c] = call'[c]]
            /\ call'[c].op = call[c].op /\ call'[c].who = call[c].who /\ call'[c].told = call[c].told
            /\ call'[c].lost = call[c].lost /\ call'[c].did = call[c].did
            /\ call'[c].todo = call[c].todo /\ call'[c].bad = call[c].bad
        BY <1>0, <2>1, <2>3 DEF Call
      <3> QED
        BY <1>5, <2>1, <3>1, <3>2
    <2> QED
      BY <1>14, <2>2, <2>3 DEF ReadPolicy
  <1>15. ASSUME NEW c \in Callers, WriteConf(c) \/ WriteManifest(c) \/ StopProxy(c) \/ RunProxy(c)
         PROVE  AimInv'
    <2>1. paused' = paused /\ call[c].at \in {"conf", "manifest", "stop", "run"}
      BY <1>15 DEF WriteConf, WriteManifest, StopProxy, RunProxy, At
    <2> QED
      BY <1>4, <1>6, <1>15, <2>1 DEF WriteConf, WriteManifest, StopProxy, RunProxy
  <1>16. ASSUME NEW c \in Callers, StartAgent(c) PROVE AimInv'
    <2>1. paused' = paused /\ call[c].at = "agent"
      BY <1>16 DEF StartAgent, At
    <2>2. CASE FailDeploy(c)
      BY <1>4, <2>1, <2>2
    <2>3. CASE call' = [call EXCEPT ![c].at = "between", ![c].todo = @ \ {call[c].a},
                                    ![c].did = @ \cup {call[c].a}]
      <3> DEFINE k == [call[c] EXCEPT !.at = "between", !.todo = @ \ {call[c].a},
                                      !.did = @ \cup {call[c].a}]
      <3>1. call' = [call EXCEPT ![c] = k]
        BY <1>0, <2>3
      <3>2. /\ k.at = "between" /\ k.op = call[c].op /\ k.who = call[c].who /\ k.told = call[c].told
            /\ k.lost = call[c].lost /\ k.bad = call[c].bad
            /\ k.todo = call[c].todo \ {call[c].a} /\ k.did = call[c].did \cup {call[c].a}
        BY <1>0 DEF Call
      <3> HIDE DEF k
      <3>3. Aimed(k)
        BY <1>0, <2>1, <3>2 DEF Aimed, Deploys, Wanted
      <3> QED
        BY <2>1, <3>1, <3>3, AimReplace
    <2> QED
      BY <1>16, <2>2, <2>3 DEF StartAgent
  <1>17. ASSUME NEW f, Edit(f) PROVE AimInv'
    BY <1>1, <1>17 DEF Edit
  <1>18. CASE HostRestart
    BY <1>1, <1>18 DEF HostRestart
  <1>19. ASSUME NEW c \in Callers, NEW who, NEW s,
                Save(c, who, s) \/ SetAndDeploy(c, who, s) \/ Deploy(c, who) \/ Refresh(c, who)
         PROVE  AimInv'
    BY <1>2, <1>19 DEF Save, SetAndDeploy, Deploy, Refresh
  <1> QED
    BY <1>1, <1>7, <1>8, <1>9, <1>10, <1>11, <1>12, <1>13, <1>14, <1>15, <1>16, <1>17, <1>18, <1>19
       DEF Next, vars

LEMMA AimInvHolds == Spec => []AimInv
  <1>1. Init => AimInv
    BY DEF Init, Idle, AimInv, Aimed, Deploys
  <1> QED
    BY <1>1, AimStep, TypeInvHolds, PTL DEF Spec

\* with one caller every agent that a call reports as deployed has the config of the policy that
\* was deployed, and no proxy that enforces another, and a reply that leaves nothing to deploy has
\* left out nobody, but for agents that a list lost without an error; whatever failed before, for
\* every provider and every number of agents, calls and failures
THEOREM DeployedIsAlwaysEnforced == ASSUME NEW one, Callers = {one} PROVE Spec => []DeployedIsEnforced
  <1>1. TypeInv /\ DeployInv /\ AimInv => DeployedIsEnforced
    <2> SUFFICES ASSUME TypeInv, DeployInv, AimInv, NEW c \in Callers, Deploys(call[c])
                 PROVE  /\ \A a \in Reported(call[c]) \ call[c].lost :
                               LET rule == GenerateProxyConf(MergeForAgent(call[c].pf, a))
                               IN  conf[a] = rule /\ proxy[a] \in {Nothing, rule}
                        /\ call[c].res = "ok" =>
                               Wanted(call[c]) \subseteq Reported(call[c]) \cup call[c].lost
      BY DEF DeployedIsEnforced, Deploys
    <2>1. Good(c) /\ Aimed(call[c]) /\ call[c] \in Call
      BY DEF DeployInv, AimInv, TypeInv, TypeOK
    <2>2. call[c].res = "ok" => call[c].at = "done"
      BY DEF TypeInv, InPlace
    <2>3. Reported(call[c]) \ call[c].lost \subseteq call[c].did
      BY <2>1, <2>2 DEF Aimed, Reported
    <2>4. call[c].res = "ok" => Wanted(call[c]) \subseteq Reported(call[c]) \cup call[c].lost
      BY <2>1, <2>2 DEF Aimed, Reported
    <2> QED
      BY <2>1, <2>3, <2>4 DEF Good
  <1> QED
    BY <1>1, TypeInvHolds, DeployInvHolds, AimInvHolds, PTL

--------------------------------------------------------------------------------
(* What is started and what drift detection reports, with one caller. *)

Working == {"stop", "conf", "manifest", "run", "agent"}

\* The section that is deployed to an agent is the one that the file has now: nobody saves while
\* the one call deploys, and a save does not deploy.
Current(c) ==
    LET k == call[c]
    IN  /\ k.op = "none" => k.at = "done"
        /\ k.op = "save" => k.at \in {"load", "write", "rename", "done"}
        /\ k.at \in Working => k.eff = LoadEgressPolicy(k.a)

CurrentInv == \A c \in Callers : Current(c)

\* As long as no step has failed, a proxy enforces the config on the host, but for one whose new
\* config AWS has written and not started yet.
Held(k) == \A a \in Agents : \/ proxy[a] \in {Nothing, conf[a]}
                             \/ prov = "aws" /\ k.a = a /\ k.at \in {"manifest", "stop"}

\* As long as no step has failed, a manifest tells what the proxy beside it enforces, but for the
\* agent that the call is working at: there the manifest is written before the proxy is started,
\* and on AWS before the old proxy is stopped.
Recorded(c) ==
    LET k == call[c]
    IN  /\ \A a \in Agents \ paused : ~(k.at \in Working /\ k.a = a) /\ manifest[a] # Nothing
               => proxy[a] = GenerateProxyConf(manifest[a])
        /\ k.at = "render" => prov = "aws"
        /\ k.at \in {"run", "agent"} \cup (IF prov = "aws" THEN {"stop"} ELSE {})
               => manifest[k.a] = k.eff
        /\ k.at \in {"run"} \cup (IF prov = "aws" THEN {} ELSE {"conf", "manifest"})
               => proxy[k.a] = Nothing
        /\ k.at = "agent" => proxy[k.a] = GenerateProxyConf(k.eff)
        /\ Deploys(k) => \A a \in k.did : manifest[a] = MergeForAgent(k.pf, a)
        /\ Held(k)

RecordInv == faults = 0 => \A c \in Callers : Recorded(c)

\* a call that stays away from hosts, whatever it does to its own record and to the file
LEMMA CurrentMove ==
  ASSUME NEW one, Step(one), call'[one].at \notin Working,
         call'[one].op = "none" => call'[one].at = "done",
         call'[one].op = "save" => call'[one].at \in {"load", "write", "rename", "done"}
  PROVE  CurrentInv'
  <1>1. Current(one)'
    BY DEF Current
  <1> QED
    BY <1>1 DEF CurrentInv, Step

LEMMA CurrentStep ==
  ASSUME NEW one, Callers = {one}, TypeInv, DeployInv, CurrentInv, [Next]_vars
  PROVE  CurrentInv'
  <1> USE DEF host
  <1>0. Step(one) /\ one \in Callers /\ Current(one)
    BY DEF Step, TypeInv, TypeOK, DeployInv, CurrentInv
  <1>1. CASE UNCHANGED <<prov, file, call>>
    BY <1>0, <1>1 DEF CurrentInv, Current, LoadEgressPolicy
  <1>2. ASSUME NEW c \in Callers, NEW who, NEW s, NEW op, NEW pf, NEW at \in {"load", "targets"},
               op # "none", op = "save" => at = "load", Begin(c, op, who, s, at, pf)
        PROVE  CurrentInv'
    <2>1. call'[one] = [Idle EXCEPT !.op = op, !.who = who, !.sec = s, !.at = at, !.pf = pf]
      BY <1>0, <1>2 DEF Begin, Step
    <2>2. call'[one].at = at /\ call'[one].op = op
      BY <2>1 DEF Idle
    <2> QED
      BY <1>0, <1>2, <2>2, CurrentMove DEF Working
  <1>3. ASSUME NEW f, Edit(f) PROVE CurrentInv'
    BY <1>0, <1>3, CurrentMove DEF Edit, Ready, At, Working
  <1>4. ASSUME NEW c \in Callers, NEW res, Return(c, res) PROVE CurrentInv'
    <2>1. call'[one].at = "done"
      BY <1>0, <1>4 DEF Return, Step
    <2> QED
      BY <1>0, <2>1, CurrentMove DEF Working
  <1>5. ASSUME NEW c \in Callers, FailAgent(c) \/ FailDeploy(c),
               call[c].at \notin {"load", "write", "rename", "done"}
        PROVE  CurrentInv'
    <2>1. CASE Return(c, "error")
      BY <1>4, <2>1
    <2>2. CASE ~Return(c, "error")
      <3>1. call'[one].at = "between" /\ call'[one].op = call[one].op
        BY <1>0, <1>5, <2>2 DEF FailAgent, FailDeploy, Step, Call
      <3> QED
        BY <1>0, <1>5, <3>1, CurrentMove DEF Current, Working, Step
    <2> QED
      BY <2>1, <2>2
  <1>6. ASSUME NEW c \in Callers, LoadPolicy(c) PROVE CurrentInv'
    <2>1. CASE ~Return(c, "error")
      <3> DEFINE p == SetEgress(IF file = Nothing THEN Skeleton ELSE file, call[c].who, call[c].sec)
      <3>1. call' = [call EXCEPT ![c].at = Following[@], ![c].pf = p]
        BY <1>6, <2>1 DEF LoadPolicy
      <3> HIDE DEF p
      <3>2. Following["load"] = "write" /\ call[one].at = "load"
        BY <1>0, <1>6 DEF Following, LoadPolicy, At, Step
      <3>3. call'[one].at = "write" /\ call'[one].op = call[one].op
        BY <1>0, <1>6, <3>1, <3>2 DEF Step, Call
      <3>4. call[one].op # "none"
        BY <1>0, <3>2 DEF Current
      <3> QED
        BY <1>0, <3>2, <3>3, <3>4, CurrentMove DEF Working, Current
    <2> QED
      BY <1>4, <1>6, <2>1 DEF LoadPolicy
  <1>7. ASSUME NEW c \in Callers, WriteTemp(c) \/ RenameTemp(c) \/ FailRename(c) PROVE CurrentInv'
    <2>1. CASE Proceed(c)
      <3>1. Following["write"] = "rename" /\ Following["rename"] = "targets"
        BY DEF Following
      <3>2. c = one /\ call[one].at \in {"write", "rename"}
        BY <1>0, <1>7 DEF WriteTemp, RenameTemp, FailRename, At, Step
      <3>3. call'[one].at = Following[call[one].at] /\ call'[one].op = call[one].op
        BY <1>0, <2>1, <3>2, MoveFields
      <3>4. CASE call[one].at = "write"
        BY <1>0, <3>1, <3>3, <3>4, CurrentMove DEF Working, Current
      <3>5. CASE call[one].at = "rename"
        <4>1. call[one].op # "save"
          <5>1. ~Return(c, "ok") /\ ~Return(c, "error")
            <6>1. call'[one].at # "done"
              BY <3>1, <3>3, <3>5
            <6>2. \A res : Return(one, res) => call'[one].at = "done"
              BY <1>0 DEF Return, Step, Call
            <6> QED
              BY <3>2, <6>1, <6>2
          <5> QED
            BY <1>7, <3>2, <3>5, <5>1 DEF WriteTemp, RenameTemp, FailRename, At
        <4>2. call[one].op # "none"
          BY <1>0, <3>2 DEF Current
        <4> QED
          BY <1>0, <3>1, <3>3, <3>5, <4>1, <4>2, CurrentMove DEF Working
      <3> QED
        BY <3>2, <3>4, <3>5
    <2> QED
      BY <1>4, <1>7, <2>1 DEF WriteTemp, RenameTemp, FailRename
  <1>8. ASSUME NEW c \in Callers, Targets(c) \/ LoseList(c) \/ NextAgent(c) \/ Finish(c) \/ Die(c)
        PROVE  CurrentInv'
    <2>1. CASE Targets(c) \/ LoseList(c) \/ NextAgent(c)
      <3>1. FirstForAgent(call[c].op) \in {"read", "render"}
        BY DEF FirstForAgent
      <3>2. CASE \E res : Return(c, res)
        BY <1>4, <3>2
      <3>3. CASE ~\E res : Return(c, res)
        <4>1. /\ call[one].at \in {"targets", "between"} /\ call'[one].op = call[one].op
              /\ call'[one].at \in {"between", "read", "render"}
          <5>1. CASE NextAgent(c)
            BY <1>0, <3>1, <5>1 DEF NextAgent, At, Step, Call
          <5>2. CASE Targets(c) \/ LoseList(c)
            <6>1. call[one].at = "targets" /\ c = one
              BY <1>0, <5>2 DEF Targets, LoseList, At, Step
            <6>2. \E listed, todo, lost \in SUBSET Agents : Aims(one, listed, todo, lost)
              BY <1>0, <3>3, <5>2, <6>1, AimAt DEF Step
            <6>3. call'[one].at = "between" /\ call'[one].op = call[one].op
              BY <1>0, <6>2, AimsFields DEF Step
            <6> QED
              BY <6>1, <6>3
          <5> QED
            BY <2>1, <5>1, <5>2
        <4> QED
          BY <1>0, <4>1, CurrentMove DEF Current, Working
      <3> QED
        BY <3>2, <3>3
    <2> QED
      BY <1>4, <1>8, <2>1 DEF Finish, Die
  <1>9. ASSUME NEW c \in Callers, Render(c) \/ ReadPolicy(c) PROVE CurrentInv'
    <2>1. c = one /\ file' = file /\ prov' = prov /\ call[one].at \in {"render", "read"}
      BY <1>0, <1>9 DEF Render, ReadPolicy, At, Step
    <2>2. CASE FailAgent(c) \/ FailDeploy(c)
      BY <1>5, <2>1, <2>2
    <2> DEFINE eff == LoadEgressPolicy(call[one].a)
    <2>3. CASE Render(c)
      <3>1. MergeForAgent(call[one].pf, call[one].a) = eff
        <4>1. Deploys(call[one]) /\ call[one].pf \in Policy /\ file = call[one].pf /\ Valid(file)
          BY <1>0, <2>1, <2>3 DEF Render, At, Current, InPlace, Good, Deploys, Step, Call, Ops
        <4>2. Readable(file)
          BY <4>1, NothingAssumption DEF Readable
        <4> QED
          BY <4>1, <4>2 DEF LoadEgressPolicy
      <3> HIDE DEF eff
      <3>2. /\ call'[one].op = call[one].op /\ call'[one].eff = eff /\ call'[one].a = call[one].a
            /\ call'[one].at = "conf"
        BY <1>0, <2>1, <2>3, <3>1 DEF Render, Step, Call
      <3>3. Current(one)'
        BY <1>0, <2>1, <3>2 DEF Current, LoadEgressPolicy, eff
      <3> QED
        BY <1>0, <3>3 DEF CurrentInv, Step
    <2>4. CASE ReadPolicy(c) /\ ~(FailAgent(c) \/ FailDeploy(c))
      <3>1. call' = [call EXCEPT ![one].at = Following[@], ![one].eff = eff]
        BY <2>1, <2>4 DEF ReadPolicy
      <3> HIDE DEF eff
      <3>2. call'[one].op = call[one].op /\ call'[one].eff = eff /\ call'[one].a = call[one].a
        BY <1>0, <2>1, <3>1 DEF Step, Call
      <3>3. Current(one)'
        BY <1>0, <2>1, <3>2 DEF Current, LoadEgressPolicy, eff
      <3> QED
        BY <1>0, <3>3 DEF CurrentInv, Step
    <2> QED
      BY <1>9, <2>2, <2>3, <2>4
  <1>10. ASSUME NEW c \in Callers, WriteConf(c) \/ WriteManifest(c) \/ StopProxy(c) \/ RunProxy(c)
         PROVE  CurrentInv'
    <2>1. /\ c = one /\ file' = file /\ prov' = prov
          /\ call[one].at \in {"conf", "manifest", "stop", "run"}
      BY <1>0, <1>10 DEF WriteConf, WriteManifest, StopProxy, RunProxy, At, Step
    <2>2. CASE FailAgent(c) \/ FailDeploy(c)
      BY <1>5, <2>1, <2>2
    <2>3. CASE Proceed(c)
      <3>1. Current(one)'
        BY <1>0, <2>1, <2>3, MoveFields DEF Current, LoadEgressPolicy, Working
      <3> QED
        BY <1>0, <3>1 DEF CurrentInv, Step
    <2> QED
      BY <1>10, <2>2, <2>3 DEF WriteConf, WriteManifest, StopProxy, RunProxy
  <1>11. ASSUME NEW c \in Callers, StartAgent(c) PROVE CurrentInv'
    <2>1. call[c].at = "agent" /\ c = one
      BY <1>0, <1>11 DEF StartAgent, At, Step
    <2>2. CASE FailAgent(c) \/ FailDeploy(c)
      BY <1>5, <2>1, <2>2
    <2>3. CASE ~(FailAgent(c) \/ FailDeploy(c))
      <3>1. call'[one].at = "between" /\ call'[one].op = call[one].op
        BY <1>0, <1>11, <2>1, <2>3 DEF StartAgent, Step, Call
      <3> QED
        BY <1>0, <2>1, <3>1, CurrentMove DEF Current, Working
    <2> QED
      BY <2>2, <2>3
  <1>12. CASE HostRestart
    BY <1>1, <1>12 DEF HostRestart
  <1>13. ASSUME NEW c \in Callers, NEW who, NEW s,
                Save(c, who, s) \/ SetAndDeploy(c, who, s) \/ Deploy(c, who) \/ Refresh(c, who)
         PROVE  CurrentInv'
    BY <1>2, <1>13 DEF Save, SetAndDeploy, Deploy, Refresh
  <1> QED
    BY <1>1, <1>3, <1>6, <1>7, <1>8, <1>9, <1>10, <1>11, <1>12, <1>13 DEF Next, vars

LEMMA CurrentInvHolds == ASSUME NEW one, Callers = {one} PROVE Spec => []CurrentInv
  <1>1. Init => CurrentInv
    BY DEF Init, Idle, CurrentInv, Current, Working
  <1>2. TypeInv /\ DeployInv /\ CurrentInv /\ [Next]_vars => CurrentInv'
    BY CurrentStep
  <1> QED
    BY <1>1, <1>2, TypeInvHolds, DeployInvHolds, PTL DEF Spec

\* no step but RunProxy and a restart of the host starts a proxy
LEMMA OnlyRunStarts ==
  ASSUME TypeInv, [Next]_vars, NEW a \in Agents, proxy'[a] \notin {proxy[a], Nothing},
         faults' = faults
  PROVE  \E c \in Callers : RunProxy(c)
  <1> USE DEF host
  <1>1. proxy' # proxy
    OBVIOUS
  <1>2. ~HostRestart
    BY BoundsAssumption DEF HostRestart, Disturb, TypeInv, TypeOK
  <1>3. ASSUME NEW c \in Callers, StopProxy(c) PROVE FALSE
    BY <1>3 DEF StopProxy, TypeInv, TypeOK
  <1> QED
    BY <1>1, <1>2, <1>3
       DEF Next, vars, Save, SetAndDeploy, Deploy, Refresh, Begin, Edit, LoadPolicy, WriteTemp,
           RenameTemp, FailRename, Targets, LoseList, NextAgent, Finish, Render, ReadPolicy, WriteConf,
           WriteManifest, StartAgent, Die

\* and with a failure, only the restart does
LEMMA OnlyRestartStarts ==
  ASSUME TypeInv, [Next]_vars, NEW a \in Agents, proxy'[a] \notin {proxy[a], Nothing},
         faults' # faults
  PROVE  HostRestart
  <1> USE DEF host
  <1>1. proxy' # proxy
    OBVIOUS
  <1>2. ASSUME NEW c \in Callers, StopProxy(c) \/ RunProxy(c) PROVE FALSE
    BY <1>2 DEF StopProxy, RunProxy, TypeInv, TypeOK
  <1> QED
    BY <1>1, <1>2
       DEF Next, vars, Save, SetAndDeploy, Deploy, Refresh, Begin, Edit, LoadPolicy, WriteTemp,
           RenameTemp, FailRename, Targets, LoseList, NextAgent, Finish, Render, ReadPolicy, WriteConf,
           WriteManifest, StartAgent, Die

LEMMA StartStep ==
  ASSUME NEW one, Callers = {one}, TypeInv, DeployInv, CurrentInv, [Next]_vars,
         NEW a \in Agents, proxy'[a] \notin {proxy[a], Nothing}, faults' = faults
  PROVE  proxy'[a] = IF Readable(file) /\ (prov = "aws" \/ Valid(file))
                     THEN Enforced(a) ELSE GenerateProxyConf(DenyAll)
  <1>1. RunProxy(one)
    BY OnlyRunStarts
  <1>2. Good(one) /\ Current(one) /\ InPlace(call[one]) /\ call[one] \in Call /\ one \in Callers
    BY DEF TypeInv, TypeOK, DeployInv, CurrentInv
  <1>3. call[one].at = "run" /\ call[one].a \in Agents
    BY <1>1, <1>2 DEF RunProxy, At, InPlace, Call
  <1>4. a = call[one].a /\ proxy'[a] = conf[a]
    BY <1>1, <1>3 DEF RunProxy, TypeInv, TypeOK
  <1>5. conf[a] = GenerateProxyConf(LoadEgressPolicy(a))
    BY <1>2, <1>3, <1>4 DEF Good, Current, Working
  <1> QED
    BY <1>4, <1>5 DEF LoadEgressPolicy, Enforced

\* failures are counted, and the count never goes down
LEMMA Faultless ==
  ASSUME TypeInv, [Next]_vars, faults' = 0
  PROVE  faults = 0 /\ ~Disturb
  <1> USE DEF host
  <1>1. faults \in Nat
    BY BoundsAssumption DEF TypeInv, TypeOK
  <1>2. ~Disturb
    BY <1>1 DEF Disturb
  <1>3. faults' = faults
    BY <1>2
       DEF Next, vars, Save, SetAndDeploy, Deploy, Refresh, Begin, Edit, LoadPolicy, WriteTemp,
           RenameTemp, FailRename, Targets, LoseList, NextAgent, Finish, Render, ReadPolicy, WriteConf,
           WriteManifest, StopProxy, RunProxy, StartAgent, Die, HostRestart
  <1> QED
    BY <1>2, <1>3

\* one caller, in the middle of a step that does not fail, after none that did
Clean(one) == Step(one) /\ CurrentInv /\ faults = 0 /\ ~Disturb /\ Recorded(one) /\ Current(one)

\* a call that is at work on no agent, before and after
LEMMA RecordMove ==
  ASSUME NEW one, Clean(one), UNCHANGED <<prov, paused, conf, manifest, proxy>>,
         call[one].at \notin Working, call'[one].at \notin Working,
         call'[one].at = "render" => prov = "aws",
         \/ call'[one].did = {}
         \/ /\ call'[one].did = call[one].did /\ call'[one].op = call[one].op
            /\ call'[one].pf = call[one].pf
  PROVE  RecordInv'
  <1>1. Recorded(one)'
    BY DEF Clean, Recorded, Working, Deploys, Held
  <1> QED
    BY <1>1 DEF RecordInv, Clean, Step

LEMMA RecordReturn ==
  ASSUME NEW one, Clean(one), NEW c \in Callers, UNCHANGED <<prov, paused, conf, manifest, proxy>>,
         call[c].at \notin Working, NEW res, Return(c, res)
  PROVE  RecordInv'
  <1>1. /\ c = one /\ call'[one].at = "done" /\ call'[one].did = call[one].did
        /\ call'[one].op = call[one].op /\ call'[one].pf = call[one].pf
    BY DEF Return, Clean, Step, Call
  <1> QED
    BY <1>1, RecordMove DEF Working

LEMMA RecordStep ==
  ASSUME NEW one, Callers = {one}, TypeInv, DeployInv, CurrentInv, RecordInv, [Next]_vars,
         faults' = 0
  PROVE  RecordInv'
  <1> USE DEF host
  <1>0. Clean(one) /\ one \in Callers
    BY Faultless DEF Clean, Step, TypeInv, TypeOK, DeployInv, CurrentInv, RecordInv
  <1>f. ~Disturb /\ call \in [Callers -> Call] /\ call[one] \in Call /\ InPlace(call[one])
    BY <1>0 DEF Clean, Step
  <1>1. CASE UNCHANGED <<prov, paused, conf, manifest, proxy, call>>
    BY <1>0, <1>1 DEF RecordInv, Recorded, Deploys, Held, Clean, Step
  <1>2. ASSUME NEW c \in Callers, NEW who, NEW s, NEW op, NEW pf, NEW at \in {"load", "targets"},
               Begin(c, op, who, s, at, pf)
        PROVE  RecordInv'
    <2>1. /\ call'[one] = [Idle EXCEPT !.op = op, !.who = who, !.sec = s, !.at = at, !.pf = pf]
          /\ call[one].at = "done"
      BY <1>0, <1>2 DEF Begin, Clean, Step, Ready, At
    <2>2. call'[one].at = at /\ call'[one].did = {}
      BY <2>1 DEF Idle
    <2> QED
      BY <1>0, <1>2, <2>1, <2>2, RecordMove DEF Working, Begin
  <1>3. ASSUME NEW c \in Callers, NEW who, NEW s,
               Save(c, who, s) \/ SetAndDeploy(c, who, s) \/ Deploy(c, who) \/ Refresh(c, who)
        PROVE  RecordInv'
    BY <1>2, <1>3 DEF Save, SetAndDeploy, Deploy, Refresh
  <1>4. ASSUME NEW f, Edit(f) PROVE RecordInv'
    <2>1. UNCHANGED <<prov, paused, conf, manifest, proxy, call>>
      BY <1>4 DEF Edit
    <2> QED
      BY <1>1, <2>1
  <1>5. ASSUME NEW c \in Callers,
               LoadPolicy(c) \/ WriteTemp(c) \/ RenameTemp(c) \/ FailRename(c) \/ Targets(c) \/ LoseList(c)
        PROVE  RecordInv'
    <2>1. /\ c = one /\ call[one].at \in {"load", "write", "rename", "targets"}
          /\ call[one].did = {} /\ UNCHANGED <<prov, paused, conf, manifest, proxy>>
      BY <1>0, <1>5, <1>f
         DEF LoadPolicy, WriteTemp, RenameTemp, FailRename, Targets, LoseList, At, Clean, Step, InPlace
    <2>2. CASE \E res : Return(c, res)
      BY <1>0, <2>1, <2>2, RecordReturn DEF Working
    <2>3. CASE /\ ~\E res : Return(c, res)
               /\ LoadPolicy(c) \/ WriteTemp(c) \/ RenameTemp(c) \/ FailRename(c)
      <3>1. /\ Following["load"] = "write" /\ Following["write"] = "rename"
            /\ Following["rename"] = "targets"
        BY DEF Following
      <3>2. call'[one].at = Following[call[one].at] /\ call'[one].did = {}
        <4>1. CASE Proceed(one)
          BY <1>0, <2>1, <4>1, MoveFields DEF Clean
        <4>2. CASE LoadPolicy(c)
          <5> DEFINE p == SetEgress(IF file = Nothing THEN Skeleton ELSE file, call[one].who, call[one].sec)
          <5>1. call' = [call EXCEPT ![one].at = Following[@], ![one].pf = p]
            BY <2>1, <2>3, <4>2 DEF LoadPolicy
          <5> HIDE DEF p
          <5> QED
            BY <1>f, <2>1, <5>1 DEF Call
        <4>3. ~Return(one, "error") /\ ~Return(one, "ok")
          BY <2>1, <2>3
        <4>4. CASE WriteTemp(c) \/ FailRename(c)
          BY <2>1, <4>1, <4>3, <4>4 DEF WriteTemp, FailRename
        <4>5. CASE RenameTemp(c)
          BY <2>1, <4>1, <4>3, <4>5 DEF RenameTemp
        <4> QED
          BY <2>1, <2>3, <4>2, <4>4, <4>5
      <3>3. call[one].at \in {"load", "write", "rename"}
        BY <2>1, <2>3 DEF LoadPolicy, WriteTemp, RenameTemp, FailRename, At
      <3> QED
        BY <1>0, <2>1, <3>1, <3>2, <3>3, RecordMove DEF Working
    <2>4. CASE Targets(c) /\ ~\E res : Return(c, res)
      <3>1. call'[one].at = "between" /\ call'[one].did = {}
        <4>1. \E listed, todo, lost \in SUBSET Agents : Aims(one, listed, todo, lost)
          BY <1>f, <2>1, <2>4, AimAt
        <4> QED
          BY <1>f, <2>1, <4>1, AimsFields
      <3> QED
        BY <1>0, <2>1, <3>1, RecordMove DEF Working
    <2> QED
      BY <1>5, <1>f, <2>2, <2>3, <2>4 DEF LoseList
  <1>6. ASSUME NEW c \in Callers, NextAgent(c) \/ Finish(c) PROVE RecordInv'
    <2>1. c = one /\ call[one].at = "between" /\ UNCHANGED <<prov, paused, conf, manifest, proxy>>
      BY <1>0, <1>6 DEF NextAgent, Finish, At, Clean, Step
    <2>2. CASE Finish(c)
      BY <1>0, <2>1, <2>2, RecordReturn DEF Finish, Working
    <2>3. CASE NextAgent(c)
      <3> DEFINE first == FirstForAgent(call[one].op)
      <3>1. first \in {"read", "render"} /\ (first = "render" => prov = "aws")
        BY DEF FirstForAgent
      <3>2. PICK a \in call[one].todo : call' = [call EXCEPT ![one].at = first, ![one].a = a]
        BY <2>1, <2>3 DEF NextAgent
      <3> HIDE DEF first
      <3>3. /\ call'[one].at = first /\ call'[one].op = call[one].op
            /\ call'[one].pf = call[one].pf /\ call'[one].did = call[one].did
        BY <1>f, <2>1, <3>2 DEF Call
      <3> QED
        BY <1>0, <2>1, <3>1, <3>3, RecordMove DEF Working
    <2> QED
      BY <1>6, <2>2, <2>3
  <1>7. ASSUME NEW c \in Callers, Render(c) \/ ReadPolicy(c) PROVE RecordInv'
    <2>1. /\ c = one /\ call[one].at \in {"render", "read"}
          /\ UNCHANGED <<prov, paused, conf, manifest, proxy>>
      BY <1>0, <1>7 DEF Render, ReadPolicy, At, Clean, Step
    <2>2. CASE FailAgent(c) \/ FailDeploy(c)
      <3>1. CASE Return(c, "error")
        BY <1>0, <2>1, <3>1, RecordReturn DEF Working
      <3>2. CASE ~Return(c, "error")
        <4>1. /\ call'[one].at = "between" /\ call'[one].op = call[one].op
              /\ call'[one].pf = call[one].pf /\ call'[one].did = call[one].did
          BY <1>f, <2>1, <2>2, <3>2 DEF FailAgent, FailDeploy, Call
        <4> QED
          BY <1>0, <2>1, <4>1, RecordMove DEF Working
      <3> QED
        BY <3>1, <3>2
    <2>3. CASE ~(FailAgent(c) \/ FailDeploy(c))
      <3>1. /\ call'[one].at = IF prov = "aws" THEN "conf" ELSE "stop"
            /\ call'[one].op = call[one].op /\ call'[one].pf = call[one].pf
            /\ call'[one].did = call[one].did
        <4>1. CASE Render(c)
          <5> DEFINE eff == MergeForAgent(call[one].pf, call[one].a)
          <5>1. call' = [call EXCEPT ![one].at = "conf", ![one].eff = eff]
            BY <2>1, <4>1 DEF Render
          <5>2. prov = "aws"
            BY <1>0, <2>1, <4>1 DEF Render, At, Clean, Recorded
          <5> HIDE DEF eff
          <5> QED
            BY <1>f, <2>1, <5>1, <5>2 DEF Call
        <4>2. CASE ReadPolicy(c)
          <5> DEFINE eff == LoadEgressPolicy(call[one].a)
          <5>1. call' = [call EXCEPT ![one].at = Following[@], ![one].eff = eff] /\ call[one].at = "read"
            BY <2>1, <2>3, <4>2 DEF ReadPolicy, At
          <5>2. Following["read"] = IF prov = "aws" THEN "conf" ELSE "stop"
            BY DEF Following
          <5> HIDE DEF eff
          <5> QED
            BY <1>f, <2>1, <5>1, <5>2 DEF Call
        <4> QED
          BY <1>7, <4>1, <4>2
      <3>2. Recorded(one)'
        BY <1>0, <2>1, <3>1 DEF Clean, Recorded, Working, Deploys, Held
      <3> QED
        BY <1>0, <3>2 DEF RecordInv, Clean, Step
    <2> QED
      BY <2>2, <2>3
  <1>8. ASSUME NEW c \in Callers, WriteConf(c) \/ WriteManifest(c) \/ StopProxy(c) \/ RunProxy(c)
        PROVE  RecordInv'
    <2>1. /\ c = one /\ prov' = prov /\ paused' = paused
          /\ call[one].at \in {"conf", "manifest", "stop", "run"}
          /\ call[one].a \in Agents /\ call[one].a \notin call[one].did
          /\ call[one].did \subseteq Agents
          /\ manifest \in [Agents -> Section \cup {Nothing}]
          /\ proxy \in [Agents -> Rule \cup {Nothing}] /\ conf \in [Agents -> Rule \cup {Nothing}]
      BY <1>0, <1>8, <1>f
         DEF WriteConf, WriteManifest, StopProxy, RunProxy, At, Clean, Step, TypeInv, TypeOK, InPlace, Call
    <2>2. CASE WriteConf(c)
      <3>1. /\ Proceed(one) /\ call[one].at = "conf" /\ UNCHANGED <<manifest, proxy>>
            /\ conf' = [conf EXCEPT ![call[one].a] = GenerateProxyConf(call[one].eff)]
        BY <1>f, <2>1, <2>2 DEF WriteConf, At
      <3>2. Following["conf"] = "manifest"
        BY DEF Following
      <3>h. Held(call[one])'
        BY <1>0, <2>1, <3>1, <3>2, MoveFields DEF Clean, Recorded, Held
      <3>3. Recorded(one)'
        BY <1>0, <2>1, <3>1, <3>2, <3>h, MoveFields DEF Clean, Recorded, Working, Deploys
      <3> QED
        BY <1>0, <3>3 DEF RecordInv, Clean, Step
    <2>3. CASE WriteManifest(c)
      <3>1. /\ Proceed(one) /\ call[one].at = "manifest" /\ proxy' = proxy /\ conf' = conf
            /\ manifest' = [manifest EXCEPT ![call[one].a] = call[one].eff]
        BY <1>f, <2>1, <2>3 DEF WriteManifest, At
      <3>2. Following["manifest"] = IF prov = "aws" THEN "stop" ELSE "run"
        BY DEF Following
      <3>h. Held(call[one])'
        BY <1>0, <2>1, <3>1, <3>2, MoveFields DEF Clean, Recorded, Held
      <3>3. Recorded(one)'
        BY <1>0, <2>1, <3>1, <3>2, <3>h, MoveFields DEF Clean, Recorded, Working, Deploys
      <3> QED
        BY <1>0, <3>3 DEF RecordInv, Clean, Step
    <2>4. CASE StopProxy(c)
      <3>1. /\ Proceed(one) /\ call[one].at = "stop" /\ manifest' = manifest /\ conf' = conf
            /\ proxy' = [proxy EXCEPT ![call[one].a] = Nothing]
        BY <1>f, <2>1, <2>4 DEF StopProxy, At
      <3>2. Following["stop"] = IF prov = "aws" THEN "run" ELSE "conf"
        BY DEF Following
      <3>h. Held(call[one])'
        BY <1>0, <2>1, <3>1, <3>2, MoveFields DEF Clean, Recorded, Held
      <3>3. Recorded(one)'
        BY <1>0, <2>1, <3>1, <3>2, <3>h, MoveFields DEF Clean, Recorded, Working, Deploys
      <3> QED
        BY <1>0, <3>3 DEF RecordInv, Clean, Step
    <2>5. CASE RunProxy(c)
      <3>1. call[one].at = "run" /\ manifest' = manifest /\ conf' = conf
        BY <2>1, <2>5 DEF RunProxy, At
      <3>2. proxy[call[one].a] = Nothing /\ conf[call[one].a] = GenerateProxyConf(call[one].eff)
        BY <1>0, <3>1 DEF Clean, Recorded, Step, Good
      <3>3. /\ Proceed(one)
            /\ proxy' = [proxy EXCEPT ![call[one].a] = GenerateProxyConf(call[one].eff)]
        BY <1>f, <2>1, <2>5, <3>2 DEF RunProxy
      <3>4. Following["run"] = "agent"
        BY DEF Following
      <3>h. Held(call[one])'
        BY <1>0, <2>1, <3>1, <3>2, <3>3, <3>4, MoveFields DEF Clean, Recorded, Held
      <3>5. Recorded(one)'
        BY <1>0, <2>1, <3>1, <3>3, <3>4, <3>h, MoveFields DEF Clean, Recorded, Working, Deploys
      <3> QED
        BY <1>0, <3>5 DEF RecordInv, Clean, Step
    <2> QED
      BY <1>8, <2>2, <2>3, <2>4, <2>5
  <1>9. ASSUME NEW c \in Callers, StartAgent(c) PROVE RecordInv'
    <2>1. /\ c = one /\ call[one].at = "agent" /\ UNCHANGED <<prov, paused, conf, manifest, proxy>>
          /\ call'[one].at = "between" /\ call'[one].op = call[one].op
          /\ call'[one].pf = call[one].pf /\ call'[one].did = call[one].did \cup {call[one].a}
      BY <1>0, <1>9, <1>f DEF StartAgent, At, Clean, Step, Call
    <2>2. Deploys(call[one]) => call[one].eff = MergeForAgent(call[one].pf, call[one].a)
      BY <1>0, <2>1 DEF Clean, Step, Good
    <2>3. Recorded(one)'
      BY <1>0, <2>1, <2>2 DEF Clean, Recorded, Working, Deploys, Held
    <2> QED
      BY <1>0, <2>3 DEF RecordInv, Clean, Step
  <1> QED
    BY <1>1, <1>3, <1>4, <1>5, <1>6, <1>7, <1>8, <1>9, <1>f DEF Next, vars, Die, HostRestart

LEMMA RecordInvHolds == ASSUME NEW one, Callers = {one} PROVE Spec => []RecordInv
  <1>1. Init => RecordInv
    <2> SUFFICES ASSUME Init PROVE RecordInv
      OBVIOUS
    <2>1. \A c \in Callers : call[c].at = "done" /\ call[c].op = "none"
      BY DEF Init, Idle
    <2>2. \A a \in Agents \ paused :
              /\ manifest[a] \in {Nothing, DenyAll} /\ proxy[a] = GenerateProxyConf(DenyAll)
      BY DEF Init
    <2>3. \A a \in Agents : proxy[a] \in {Nothing, conf[a]}
      <3>1. \A a \in Agents : conf[a] = GenerateProxyConf(DenyAll)
        BY DEF Init
      <3>2. \A a \in Agents : proxy[a] \in {Nothing, GenerateProxyConf(DenyAll)}
        BY DEF Init
      <3> QED
        BY <3>1, <3>2
    <2>4. \A c \in Callers : Recorded(c)
      BY <2>1, <2>2, <2>3 DEF Recorded, Deploys, Working, Held
    <2> QED
      BY <2>4 DEF RecordInv
  <1>2. TypeInv /\ DeployInv /\ CurrentInv /\ RecordInv /\ [Next]_vars => RecordInv'
    BY RecordStep DEF RecordInv
  <1> QED
    BY <1>1, <1>2, TypeInvHolds, DeployInvHolds, CurrentInvHolds, PTL DEF Spec

\* with one caller no call ever starts a proxy with the policy of an earlier time: what it enforces
\* is what the file says when it starts, and everything is denied without a usable file, for
\* every provider, whatever was left half done before.  A restart of the host starts AWS's proxies
\* with the config that is there, and before the first failure that is a new one only in the
\* middle of a deployment
THEOREM ProxiesStartFromTheFile == ASSUME NEW one, Callers = {one} PROVE Spec => StartsFromTheFile
  <1> DEFINE Starts(a) ==
        proxy'[a] \notin {proxy[a], Nothing} =>
           IF faults' = faults
           THEN proxy'[a] = IF Readable(file) /\ (prov = "aws" \/ Valid(file))
                            THEN Enforced(a) ELSE GenerateProxyConf(DenyAll)
           ELSE /\ prov = "aws" /\ proxy'[a] = conf[a]
                /\ faults = 0 => \E c \in Callers : call[c].a = a /\ call[c].at \in {"manifest", "stop"}
  <1>1. ASSUME TypeInv, DeployInv, CurrentInv, RecordInv, [Next]_vars, NEW a \in Agents PROVE Starts(a)
    <2> SUFFICES ASSUME proxy'[a] \notin {proxy[a], Nothing}, faults' # faults PROVE Starts(a)
      BY <1>1, StartStep
    <2>1. HostRestart
      BY <1>1, OnlyRestartStarts
    <2>2. prov = "aws" /\ proxy[a] # Nothing /\ proxy'[a] = conf[a]
      BY <2>1 DEF HostRestart
    <2>3. faults = 0 => \E c \in Callers : call[c].a = a /\ call[c].at \in {"manifest", "stop"}
      BY <1>1, <2>2 DEF RecordInv, Recorded, Held
    <2> QED
      BY <2>2, <2>3
  <1>2. TypeInv /\ DeployInv /\ CurrentInv /\ RecordInv /\ [Next]_vars => [\A a \in Agents : Starts(a)]_vars
    BY <1>1
  <1> QED
    BY <1>2, TypeInvHolds, DeployInvHolds, CurrentInvHolds, RecordInvHolds, PTL DEF Spec, StartsFromTheFile

\* sections that do not differ in a field are the same
LEMMA NoDifference ==
  ASSUME NEW s \in Section, NEW m \in Section \cup {Nothing}, DiffManifests(s, m) = {}
  PROVE  m = s
  <1>1. m \in Section
    BY DEF DiffManifests
  <1>2. DiffManifests(s, m) = {f \in {"mode", "allowed", "blocked"} : s[f] # m[f]}
    BY <1>1, NothingAssumption DEF DiffManifests
  <1>3. s.mode = m.mode /\ s.allowed = m.allowed /\ s.blocked = m.blocked
    BY <1>2
  <1> QED
    BY <1>1, <1>3 DEF Section

\* with one caller, and as long as no step has failed, drift detection is right although it never
\* looks at a proxy: an agent reported in sync runs a proxy that enforces the file, and an agent
\* just deployed has the manifest of what was deployed, for every provider and every number of
\* agents and calls
THEOREM DriftIsAlwaysHonest == ASSUME NEW one, Callers = {one} PROVE Spec => []DriftIsHonest
  <1>1. TypeInv /\ RecordInv => DriftIsHonest
    <2> SUFFICES ASSUME TypeInv, RecordInv, faults = 0, AllReady PROVE
          /\ \A a \in Agents \ paused : InSync(a) => proxy[a] = Enforced(a)
          /\ \A c \in Callers : call[c].op \in {"set", "deploy"} =>
                 \A a \in call[c].did : manifest[a] = MergeForAgent(call[c].pf, a)
      BY DEF DriftIsHonest
    <2>1. Recorded(one) /\ call[one].at = "done"
      BY DEF RecordInv, AllReady, Ready, At
    <2>2. ASSUME NEW a \in Agents \ paused, InSync(a) PROVE proxy[a] = Enforced(a)
      <3>1. file \in Policy
        BY <2>2 DEF InSync, Readable, TypeInv, TypeOK
      <3>2. MergeForAgent(file, a) \in Section
        BY <3>1, MergeType
      <3>3. manifest[a] = MergeForAgent(file, a)
        BY <2>2, <3>2, NoDifference DEF InSync, TypeInv, TypeOK
      <3>4. manifest[a] # Nothing
        BY <3>2, <3>3, NothingAssumption
      <3> QED
        BY <2>1, <2>2, <3>3, <3>4 DEF Recorded, Working, Enforced
    <2> QED
      BY <2>1, <2>2 DEF Recorded, Deploys
  <1> QED
    BY <1>1, TypeInvHolds, RecordInvHolds, PTL
================================================================================
