------------------------------ MODULE EgressPolicy ------------------------------
(******************************************************************************)
(* Egress policy: conga-policy.yaml, the MCP tools that set it and deploy it, *)
(* the refresh that deploys it on the way, and drift detection.               *)
(*                                                                            *)
(* A policy goes through four places: the file, the Envoy config generated    *)
(* from it for an agent, the manifest written beside the config, and the      *)
(* proxy container, which enforces the config it was started with.  Saving    *)
(* is a load, a change, a temporary file and a rename; deploying to an agent  *)
(* is a script of steps.  Each step may fail and the process may die between  *)
(* any two.  Drift detection reads the file and the manifest, never the       *)
(* proxy.                                                                     *)
(*                                                                            *)
(* Domains are canonical, since every comparison in the package lowers case   *)
(* first; whether a pattern with a wildcard covers a host is Envoy's filter   *)
(* and is left out.  Of the three sections of the file, routing and posture   *)
(* have no deployed state: changing them is a save that keeps the egress      *)
(* section.                                                                   *)
(******************************************************************************)
EXTENDS Naturals

CONSTANTS Agents,      \* the provisioned agents
          Callers,     \* who may have a call in progress: MCP tool calls and commands
          Domains,     \* the domains and patterns of a policy
          Inputs,      \* the egress sections that callers and the operator write
          Providers,   \* the providers the instance covers
          Nothing,     \* an absent file, section, config, manifest or proxy
          Torn,        \* a temporary file whose writer died; a file so published
          Broken,      \* a file the operator left unreadable
          Keep,        \* set_routing and set_posture: no egress section to set
          MaxCalls,    \* bound: calls and edits by hand, in total
          MaxFaults    \* bound: failed steps, deaths and restarts, in total

Modes == {"enforce", "validate"}
Section == [allowed : SUBSET Domains, blocked : SUBSET Domains, mode : Modes]
Policy == [global : Section \cup {Nothing}, over : [Agents -> Section \cup {Nothing}]]
Rule == [open : SUBSET Domains, mode : Modes]

ASSUME InputsAssumption == Inputs \subseteq Section
ASSUME ProvidersAssumption == Providers \subseteq {"local", "remote", "aws"}
ASSUME NothingAssumption ==
    /\ Nothing \notin Section \cup Policy \cup Rule
    /\ {Torn, Broken} \cap (Policy \cup {Nothing}) = {}
    /\ Torn # Broken
    /\ Keep \notin Section
ASSUME BoundsAssumption == MaxCalls \in Nat /\ MaxFaults \in Nat

VARIABLES
    prov,      \* the provider: chosen once
    paused,    \* the paused agents: chosen once
    file,      \* conga-policy.yaml
    tmp,       \* conga-policy.yaml.tmp
    conf,      \* agent -> what the Envoy config on its host enforces
    manifest,  \* agent -> the section the manifest on its host records
    proxy,     \* agent -> what its running proxy enforces
    call,      \* caller -> its call, the last one when it has returned
    calls,     \* calls so far
    faults     \* failures so far

host == <<conf, manifest, proxy>>
vars == <<prov, paused, file, tmp, conf, manifest, proxy, call, calls, faults>>

--------------------------------------------------------------------------------
(* The algorithms of the policy package. *)

DenyAll == [allowed |-> {}, blocked |-> {}, mode |-> "enforce"]

\* validateEgress
ValidSection(s) == s # Nothing => s.allowed \cap s.blocked = {}

Readable(f) == f \notin {Nothing, Torn, Broken}
Valid(p) == ValidSection(p.global) /\ \A a \in Agents : ValidSection(p.over[a])

\* MergeForAgent: the lists are united, the mode is the override's; no section denies everything
MergeForAgent(p, a) ==
    LET g == p.global
        o == p.over[a]
    IN  IF o = Nothing THEN (IF g = Nothing THEN DenyAll ELSE g)
        ELSE IF g = Nothing THEN o
        ELSE [allowed |-> g.allowed \cup o.allowed,
              blocked |-> g.blocked \cup o.blocked,
              mode    |-> o.mode]

\* EffectiveAllowedDomains: blocked takes precedence
EffectiveAllowedDomains(s) == s.allowed \ s.blocked

\* GenerateProxyConf
GenerateProxyConf(s) == [open |-> EffectiveAllowedDomains(s), mode |-> s.mode]

\* SetEgress: the whole section is replaced
SetEgress(p, who, s) ==
    IF s = Keep THEN p
    ELSE IF who = Agents THEN [p EXCEPT !.global = s]
    ELSE [p EXCEPT !.over = [a \in Agents |-> IF a \in who THEN s ELSE p.over[a]]]

\* mutant: only the allowed domains are compared
DiffAllowedOnly(desired, actual) ==
    IF actual = Nothing THEN {"manifest"}
    ELSE {f \in {"allowed"} : desired[f] # actual[f]}

\* DiffManifests: the fields that differ.  Equal fields have equal hashes
DiffManifests(desired, actual) ==
    IF actual = Nothing THEN {"manifest"}
    ELSE {f \in {"mode", "allowed", "blocked"} : desired[f] # actual[f]}

\* the drift report says an agent is in sync
InSync(a) ==
    /\ Readable(file) /\ Valid(file)
    /\ DiffManifests(MergeForAgent(file, a), manifest[a]) = {}

--------------------------------------------------------------------------------
(* The steps of a call. *)

Skeleton == [global |-> Nothing, over |-> [a \in Agents |-> Nothing]]

Ops == {"none", "save", "set", "deploy", "refresh"}

\* where a call is: loadPolicy and Save, then the targets, and between two of them; "done" when
\* it has returned
Places == {"load", "write", "rename", "targets", "between", "done"}
          \cup {"read", "render", "stop", "conf", "manifest", "run", "agent"}

\* the order of the steps: RefreshAgent with startAgentEgressProxy removes the old proxy first,
\* deploy-egress.sh writes the files while it still runs
Following ==
    IF prov # "aws"
    THEN [load |-> "write", write |-> "rename", rename |-> "targets",
          read |-> "stop", stop |-> "conf", conf |-> "manifest", manifest |-> "run", run |-> "agent"]
    ELSE [load |-> "write", write |-> "rename", rename |-> "targets",
          read |-> "conf", conf |-> "manifest", manifest |-> "stop", stop |-> "run",
          run |-> "agent"]

FirstForAgent(op) == IF prov = "aws" /\ op # "refresh" THEN "render" ELSE "read"

Results == {"none", "ok", "partial", "error", "died"}

\* told: the agents that the tool listed; lost: those that a list lost without an error
Call == [op : Ops, who : SUBSET Agents, sec : Section \cup {Keep}, at : Places,
         pf : Policy \cup {Nothing}, eff : Section \cup {Nothing}, a : Agents \cup {Nothing},
         told : SUBSET Agents, lost : SUBSET Agents,
         todo : SUBSET Agents, did : SUBSET Agents, bad : SUBSET Agents, res : Results]

Idle == [op |-> "none", who |-> {}, sec |-> Keep, at |-> "done", pf |-> Nothing, eff |-> Nothing,
         a |-> Nothing, told |-> {}, lost |-> {}, todo |-> {}, did |-> {}, bad |-> {}, res |-> "none"]

At(c, place) == call[c].at = place
Ready(c) == At(c, "done")

Proceed(c) == call' = [call EXCEPT ![c].at = Following[@]]

Return(c, res) == call' = [call EXCEPT ![c].at = "done", ![c].res = res]

\* set_egress collects what fails, and so does AWS.  Elsewhere deploy is one RefreshAll, which
\* stops
FailAgent(c) ==
    LET k == call[c]
    IN  IF prov # "aws" /\ k.op # "set"
        THEN Return(c, "error")
        ELSE call' = [call EXCEPT ![c].at = "between", ![c].todo = @ \ {k.a}, ![c].bad = @ \cup {k.a}]

\* on AWS the redeploy that ends a refresh may fail with a warning (a refresh that also moves
\* the agent to another network fails, and is left out)
FailDeploy(c) ==
    IF prov = "aws" /\ call[c].op = "refresh"
    THEN call' = [call EXCEPT ![c].at = "between", ![c].todo = @ \ {call[c].a}]
    ELSE FailAgent(c)

Disturb == faults < MaxFaults /\ faults' = faults + 1

--------------------------------------------------------------------------------
TypeOK ==
    /\ prov \in Providers
    /\ paused \subseteq Agents
    /\ file \in Policy \cup {Nothing, Torn, Broken}
    /\ tmp \in Policy \cup {Nothing, Torn}
    /\ conf \in [Agents -> Rule \cup {Nothing}]
    /\ manifest \in [Agents -> Section \cup {Nothing}]
    /\ proxy \in [Agents -> Rule \cup {Nothing}]
    /\ call \in [Callers -> Call]
    /\ \A c \in Callers : call[c].todo \cap (call[c].did \cup call[c].bad) = {}
    /\ calls \in 0 .. MaxCalls /\ faults \in 0 .. MaxFaults

\* agents that were provisioned with no policy file.  The script of AWS writes no manifest;
\* a paused agent's proxy is down, on AWS it keeps running
Init ==
    /\ prov \in Providers
    /\ paused \in SUBSET Agents
    /\ file = Nothing /\ tmp = Nothing
    /\ conf = [a \in Agents |-> GenerateProxyConf(DenyAll)]
    /\ manifest = [a \in Agents |-> IF prov = "aws" THEN Nothing ELSE DenyAll]
    /\ proxy = [a \in Agents |-> IF a \in paused /\ prov # "aws" THEN Nothing
                                 ELSE GenerateProxyConf(DenyAll)]
    /\ call = [c \in Callers |-> Idle]
    /\ calls = 0 /\ faults = 0

--------------------------------------------------------------------------------
(* The calls. *)

Begin(c, op, who, sec, at, pf) ==
    /\ Ready(c) /\ calls < MaxCalls
    /\ call' = [call EXCEPT ![c] = [Idle EXCEPT !.op = op, !.who = who, !.sec = sec,
                                               !.at = at, !.pf = pf]]
    /\ calls' = calls + 1
    /\ UNCHANGED <<prov, paused, file, tmp, host, faults>>

\* conga_policy_set_egress, set_routing and set_posture without deploy
Save(c, who, sec) == Begin(c, "save", who, sec, "load", Nothing)

\* conga_policy_set_egress with deploy
SetAndDeploy(c, who, sec) == Begin(c, "set", who, sec, "load", Nothing)

\* conga_policy_deploy: a file that is missing, unreadable or not valid is refused
Deploy(c, who) ==
    /\ Readable(file) /\ Valid(file)
    /\ Begin(c, "deploy", who, Keep, "targets", file)

\* conga refresh and refresh-all, and every other call of RefreshAgent
Refresh(c, who) == Begin(c, "refresh", who, Keep, "targets", Nothing)

\* the operator edits the file, between calls
Edit(f) ==
    /\ \A c \in Callers : Ready(c)
    /\ calls < MaxCalls /\ calls' = calls + 1
    /\ file' = f
    /\ UNCHANGED <<prov, paused, tmp, host, call, faults>>

--------------------------------------------------------------------------------
(* Saving. *)

LoadPolicy(c) ==
    /\ At(c, "load")
    /\ IF file \in {Torn, Broken} THEN Return(c, "error")
       ELSE LET p == SetEgress(IF file = Nothing THEN Skeleton ELSE file, call[c].who, call[c].sec)
            IN  IF Valid(p) THEN call' = [call EXCEPT ![c].at = Following[@], ![c].pf = p]
                            ELSE Return(c, "error")
    /\ UNCHANGED <<prov, paused, file, tmp, host, calls, faults>>

\* mutant: the file is written in place
WriteInPlace(c) ==
    /\ At(c, "write")
    /\ \/ tmp' = call[c].pf /\ Proceed(c) /\ UNCHANGED <<file, faults>>
       \/ Disturb /\ file' = Torn /\ Return(c, "error") /\ UNCHANGED tmp
    /\ UNCHANGED <<prov, paused, host, calls>>

\* the temporary file has one name: a second writer truncates the first one's
WriteTemp(c) ==
    /\ At(c, "write")
    /\ \/ tmp' = call[c].pf /\ Proceed(c) /\ UNCHANGED faults
       \/ Disturb /\ tmp' = Torn /\ Return(c, "error")
    /\ UNCHANGED <<prov, paused, file, host, calls>>

RenameTemp(c) ==
    /\ At(c, "rename")
    /\ IF tmp = Nothing THEN Return(c, "error") /\ UNCHANGED <<file, tmp>>
       ELSE /\ file' = tmp /\ tmp' = Nothing
            /\ IF call[c].op = "save" THEN Return(c, "ok") ELSE Proceed(c)
    /\ UNCHANGED <<prov, paused, host, calls, faults>>

\* a failed rename removes the temporary file
FailRename(c) ==
    /\ At(c, "rename")
    /\ Disturb
    /\ tmp' = Nothing
    /\ Return(c, "error")
    /\ UNCHANGED <<prov, paused, file, host, calls>>

--------------------------------------------------------------------------------
(* Deploying, one agent after the other. *)

Active == Agents \ paused

\* a named agent, paused or not, or all that are not paused
Wanted(k) == IF k.who = Agents THEN Active ELSE k.who

\* on a laptop and a VPS conga_policy_deploy for all agents is one RefreshAll, which makes a list
\* of its own
ByRefreshAll(k) == prov # "aws" /\ k.op = "deploy" /\ k.who = Agents

\* the call has a list to report and one to work on, and refuses to deploy to nobody
Aim(c, listed, todo, lost) ==
    IF call[c].op = "deploy" /\ listed = {} THEN Return(c, "error")
    ELSE call' = [call EXCEPT ![c].at = "between", ![c].told = listed, ![c].todo = todo, ![c].lost = lost]

Targets(c) ==
    /\ At(c, "targets")
    /\ \/ Aim(c, Wanted(call[c]), Wanted(call[c]), {}) /\ UNCHANGED faults
       \/ /\ IF call[c].who = Agents THEN prov # "remote" ELSE call[c].op = "deploy"
          /\ Disturb /\ Return(c, "error")
    /\ UNCHANGED <<prov, paused, file, tmp, host, calls>>

\* an unreadable record is skipped, and to the remote provider a lost list is an empty one: this
\* befalls the tool's list or, when it has one, that of RefreshAll, and neither is an error
LoseList(c) ==
    /\ At(c, "targets") /\ prov # "aws" /\ call[c].who = Agents
    /\ Disturb
    /\ \E listed \in SUBSET Active :
           \/ Aim(c, listed, IF ByRefreshAll(call[c]) THEN Active ELSE listed, Active \ listed)
           \/ ByRefreshAll(call[c]) /\ Aim(c, Active, listed, Active \ listed)
    /\ UNCHANGED <<prov, paused, file, tmp, host, calls>>

NextAgent(c) ==
    /\ At(c, "between")
    /\ \E a \in call[c].todo :
           call' = [call EXCEPT ![c].at = FirstForAgent(call[c].op), ![c].a = a]
    /\ UNCHANGED <<prov, paused, file, tmp, host, calls, faults>>

\* the reply: deploy_required stays true, or partial_failure is, when an agent failed
Reply(k) ==
    IF k.bad = {} THEN "ok" ELSE IF k.did = {} \/ k.op = "refresh" THEN "error" ELSE "partial"

Finish(c) ==
    /\ At(c, "between") /\ call[c].todo = {}
    /\ Return(c, Reply(call[c]))
    /\ UNCHANGED <<prov, paused, file, tmp, host, calls, faults>>

\* AWS deploys from the policy the tool has in memory
Render(c) ==
    /\ At(c, "render")
    /\ call' = [call EXCEPT ![c].at = "conf", ![c].eff = MergeForAgent(call[c].pf, call[c].a)]
    /\ UNCHANGED <<prov, paused, file, tmp, host, calls, faults>>

\* LoadEgressPolicy validates the file, and an error is a warning and no policy; loadRefreshPolicy
\* of AWS does not validate
LoadEgressPolicy(a) ==
    IF Readable(file) /\ (prov = "aws" \/ Valid(file)) THEN MergeForAgent(file, a) ELSE DenyAll

\* RefreshAgent refuses a paused agent, may fail in what it does first, and loads the file;
\* AWS leaves the proxy alone when it cannot be read
ReadPolicy(c) ==
    LET unreadable == prov = "aws" /\ file \in {Torn, Broken}
    IN  /\ At(c, "read")
        /\ \/ call[c].a \in paused /\ FailAgent(c) /\ UNCHANGED faults
           \/ Disturb /\ FailAgent(c)
           \/ call[c].a \notin paused /\ unreadable /\ FailDeploy(c) /\ UNCHANGED faults
           \/ /\ call[c].a \notin paused /\ ~unreadable
              /\ call' = [call EXCEPT ![c].at = Following[@], ![c].eff = LoadEgressPolicy(call[c].a)]
              /\ UNCHANGED faults
        /\ UNCHANGED <<prov, paused, file, tmp, host, calls>>

\* mutant: a config that is there is kept
WriteConfIfMissing(c) ==
    /\ At(c, "conf")
    /\ conf' = IF conf[call[c].a] # Nothing THEN conf
               ELSE [conf EXCEPT ![call[c].a] = GenerateProxyConf(call[c].eff)]
    /\ Proceed(c)
    /\ UNCHANGED <<prov, paused, file, tmp, manifest, proxy, calls, faults>>

WriteConf(c) ==
    /\ At(c, "conf")
    /\ \/ /\ conf' = [conf EXCEPT ![call[c].a] = GenerateProxyConf(call[c].eff)]
          /\ Proceed(c) /\ UNCHANGED faults
       \/ /\ Disturb
          /\ conf' \in {conf, [conf EXCEPT ![call[c].a] = Nothing]}
          /\ FailDeploy(c)
    /\ UNCHANGED <<prov, paused, file, tmp, manifest, proxy, calls>>

\* BuildManifest and its write, which is best effort but for the script of AWS: local has
\* removed the old manifest, remote still has it
WriteManifest(c) ==
    /\ At(c, "manifest")
    /\ \/ /\ manifest' = [manifest EXCEPT ![call[c].a] = call[c].eff]
          /\ Proceed(c) /\ UNCHANGED faults
       \/ /\ Disturb
          /\ \/ prov = "local" /\ manifest' = [manifest EXCEPT ![call[c].a] = Nothing] /\ Proceed(c)
             \/ prov = "remote" /\ UNCHANGED manifest /\ Proceed(c)
             \/ /\ prov = "aws"
                /\ manifest' \in {manifest, [manifest EXCEPT ![call[c].a] = Nothing]}
                /\ FailDeploy(c)
    /\ UNCHANGED <<prov, paused, file, tmp, conf, proxy, calls>>

\* only local notices that the old proxy was not removed; the script of AWS may fail before it
\* tries, when it builds the image
StopProxy(c) ==
    /\ At(c, "stop")
    /\ \/ proxy' = [proxy EXCEPT ![call[c].a] = Nothing] /\ Proceed(c) /\ UNCHANGED faults
       \/ /\ Disturb
          /\ IF prov = "local" THEN FailDeploy(c) ELSE Proceed(c)
          /\ UNCHANGED proxy
    /\ UNCHANGED <<prov, paused, file, tmp, conf, manifest, calls>>

\* mutant: the name conflict is taken for a proxy that runs
RunProxyIfAbsent(c) ==
    /\ At(c, "run")
    /\ \/ /\ proxy' = IF proxy[call[c].a] = Nothing THEN [proxy EXCEPT ![call[c].a] = conf[call[c].a]] ELSE proxy
          /\ Proceed(c) /\ UNCHANGED faults
       \/ proxy[call[c].a] = Nothing /\ Disturb /\ UNCHANGED proxy /\ FailDeploy(c)
    /\ UNCHANGED <<prov, paused, file, tmp, conf, manifest, calls>>

\* docker run: the name may still be taken
RunProxy(c) ==
    /\ At(c, "run")
    /\ \/ /\ proxy[call[c].a] = Nothing
          /\ proxy' = [proxy EXCEPT ![call[c].a] = conf[call[c].a]]
          /\ Proceed(c) /\ UNCHANGED faults
       \/ proxy[call[c].a] # Nothing /\ FailDeploy(c) /\ UNCHANGED <<proxy, faults>>
       \/ proxy[call[c].a] = Nothing /\ Disturb /\ UNCHANGED proxy /\ FailDeploy(c)
    /\ UNCHANGED <<prov, paused, file, tmp, conf, manifest, calls>>

\* mutant: the agent that is done stays among the targets
StartAgentAndStay(c) ==
    /\ At(c, "agent")
    /\ call' = [call EXCEPT ![c].at = "between", ![c].did = @ \cup {call[c].a}]
    /\ UNCHANGED <<prov, paused, file, tmp, host, calls, faults>>

\* the agent's container, with which its turn ends
StartAgent(c) ==
    /\ At(c, "agent")
    /\ \/ /\ call' = [call EXCEPT ![c].at = "between", ![c].todo = @ \ {call[c].a}, ![c].did = @ \cup {call[c].a}]
          /\ UNCHANGED faults
       \/ Disturb /\ FailDeploy(c)
    /\ UNCHANGED <<prov, paused, file, tmp, host, calls>>

--------------------------------------------------------------------------------
(* What may happen at any time. *)

\* the process dies, or is killed at the end of its time
Die(c) ==
    /\ ~Ready(c)
    /\ Disturb
    /\ Return(c, "died")
    /\ UNCHANGED <<prov, paused, file, tmp, host, calls>>

\* the host or its docker daemon restarts: only AWS starts its proxies again, with the config
\* that is there now
HostRestart ==
    /\ Disturb
    /\ proxy' = [a \in Agents |-> IF prov = "aws" /\ proxy[a] # Nothing THEN conf[a] ELSE Nothing]
    /\ UNCHANGED <<prov, paused, file, tmp, conf, manifest, call, calls>>

Targeted == {Agents} \cup {{a} : a \in Agents}

Next ==
    \/ \E c \in Callers, who \in Targeted, s \in Inputs \cup {Keep} : Save(c, who, s)
    \/ \E c \in Callers, who \in Targeted, s \in Inputs : SetAndDeploy(c, who, s)
    \/ \E c \in Callers, who \in Targeted : Deploy(c, who) \/ Refresh(c, who)
    \/ \E f \in {Nothing, Broken} \cup {[Skeleton EXCEPT !.global = s] : s \in Inputs} : Edit(f)
    \/ \E c \in Callers :
          \/ LoadPolicy(c) \/ WriteTemp(c) \/ RenameTemp(c) \/ FailRename(c)
          \/ Targets(c) \/ LoseList(c) \/ NextAgent(c) \/ Finish(c)
          \/ Render(c) \/ ReadPolicy(c) \/ WriteConf(c) \/ WriteManifest(c)
          \/ StopProxy(c) \/ RunProxy(c) \/ StartAgent(c)
          \/ Die(c)
    \/ HostRestart

Spec == Init /\ [][Next]_vars

--------------------------------------------------------------------------------
AllReady == \A c \in Callers : Ready(c)

Enforced(a) == GenerateProxyConf(MergeForAgent(file, a))

\* a save that dies or fails at any step leaves the policy file as it was before or as it is
\* after, never cut short
FileNeverTorn == file # Torn

\* the agents that the reply names as deployed: conga_policy_deploy names those it listed itself
\* when its RefreshAll ends without an error
Reported(k) == IF ByRefreshAll(k) THEN (IF k.res = "ok" THEN k.told ELSE {}) ELSE k.did

\* every agent that set_egress or conga_policy_deploy reports as deployed has the config of the
\* policy that was deployed, and its proxy enforces nothing else (it may be down after a restart
\* of the host), whatever earlier deploys left half done and whichever other agents failed; and a
\* reply that leaves nothing to deploy (deploy_required and partial_failure are false) has left out
\* no agent.  Excused in both are the agents that a list lost, of which the reply says nothing.
DeployedIsEnforced ==
    \A c \in Callers : call[c].op \in {"set", "deploy"} =>
        /\ \A a \in Reported(call[c]) \ call[c].lost :
               LET rule == GenerateProxyConf(MergeForAgent(call[c].pf, a))
               IN  conf[a] = rule /\ proxy[a] \in {Nothing, rule}
        /\ call[c].res = "ok" => Wanted(call[c]) \subseteq Reported(call[c]) \cup call[c].lost

\* as long as no step has failed, drift detection, which never looks at the proxy, is right:
\* an agent that is reported in sync has a running proxy that enforces the policy file, and one
\* that was just deployed is reported in sync
DriftIsHonest ==
    faults = 0 /\ AllReady =>
        /\ \A a \in Agents \ paused : InSync(a) => proxy[a] = Enforced(a)
        /\ \A c \in Callers : call[c].op \in {"set", "deploy"} =>
               \A a \in call[c].did : manifest[a] = MergeForAgent(call[c].pf, a)

\* a proxy that a call starts enforces the policy file as it is then, and denies everything when
\* there is no file, or none that it can use: no call starts the policy of an earlier time.  A host
\* that restarts may: it starts the proxies of AWS again with the config that is there, which the
\* file may have left behind.  Before the first failure that is what they enforced already, but for
\* an agent whose deployment is in progress with its new config written and its old proxy up.
StartsFromTheFile ==
    [][\A a \in Agents : proxy'[a] \notin {proxy[a], Nothing} =>
           IF faults' = faults
           THEN proxy'[a] = IF Readable(file) /\ (prov = "aws" \/ Valid(file))
                            THEN Enforced(a) ELSE GenerateProxyConf(DenyAll)
           ELSE /\ prov = "aws" /\ proxy'[a] = conf[a]
                /\ faults = 0 => \E c \in Callers : call[c].a = a /\ call[c].at \in {"manifest", "stop"}]_vars
================================================================================
