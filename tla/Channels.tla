------------------------------- MODULE Channels --------------------------------
(******************************************************************************)
(* Channel management: AddChannel, RemoveChannel, BindChannel and             *)
(* UnbindChannel of the local, remote and AWS providers (the channels.go of   *)
(* each), and ProvisionAgent as far as it binds a channel.                    *)
(*                                                                            *)
(* A method works on eight places that nothing keeps together: the agents'    *)
(* records, the shared secrets, router.env, routing.json, each agent's        *)
(* generated config, what each container was started with, and the Slack and  *)
(* Telegram router containers.  A call is at one of the steps of its method;  *)
(* each may fail, and the process may die between two of them.  What a failed *)
(* step means differs by provider and step: the method stops with an error,   *)
(* goes on with a warning, or goes on and reports an incomplete cleanup.  A   *)
(* few failures are not noticed at all: a list of agents that is lost is an   *)
(* empty list on the remote provider, a container that cannot be inspected    *)
(* is one that does not exist.                                                *)
(*                                                                            *)
(* A binding is its platform, since an agent has at most one binding of each. *)
(* Reloading of routing.json by a running router is the subject of            *)
(* RouteReload; here a router has the table it was started with.              *)
(******************************************************************************)
EXTENDS Naturals

CONSTANTS Agents,      \* the names agents may have
          Nobody,      \* not a name
          Providers,   \* the providers the instance covers
          Launches,    \* bound: the <<runtime, paused, bindings>> that agents are provisioned with
          MaxFaults    \* bound: failed steps and deaths of the process, in total

ASSUME ProvidersAssumption == Providers \subseteq {"local", "remote", "aws"}
ASSUME NobodyAssumption == Nobody \notin Agents
ASSUME FaultsAssumption == MaxFaults \in Nat

VARIABLES
    prov,       \* the provider: chosen once
    rec,        \* agent -> its record
    secrets,    \* platform -> the shared secrets that are stored
    env,        \* what router.env holds, in a set: the platforms whose variables it has, and
                \* "app" when Slack's app token is among them; {}: no file
    routing,    \* routing.json: pairs of an agent and a platform
    config,     \* agent -> the platforms its generated config and .env serve
    container,  \* agent -> the platforms of the config it was started with, in a set; {}: down
    router,     \* router container -> what it runs with, or Down; the Telegram router's table
                \* is left out
    call,       \* the call in progress
    faults      \* failures so far

disk == <<secrets, env, routing>>
agents == <<rec, config, container>>
vars == <<prov, rec, secrets, env, routing, config, container, router, call, faults>>

Platforms == {"slack", "telegram"}
Runtimes == {"openclaw", "hermes"}

\* SharedSecrets: the platform's secrets in their order; Slack's app token, its third, is optional
Known(p) == IF p = "slack" THEN 1 .. 3 ELSE 1 .. 1
Required(p) == IF p = "slack" THEN 1 .. 2 ELSE 1 .. 1
HasCredentials(p) == Required(p) \subseteq secrets[p]
SupportsRuntime(p, rt) == p = "slack" \/ rt = "hermes"

Record == [there : BOOLEAN, rt : Runtimes, paused : BOOLEAN, binds : SUBSET Platforms]
NoAgent == [there |-> FALSE, rt |-> "openclaw", paused |-> FALSE, binds |-> {}]
Present == {a \in Agents : rec[a].there}
Bound(p) == {a \in Present : p \in rec[a].binds}

Routers == Platforms
Down == [up |-> FALSE, of |-> {}, table |-> {}]

\* the container AddChannel starts and RemoveChannel removes for a platform
RouterOf(p) == IF prov = "local" THEN p ELSE "slack"

\* BuildRouterEnvContent: the variables of the platforms that have their credentials
Configured == {p \in Platforms : HasCredentials(p)}
Variables == Platforms \cup {"app"}
RouterEnv == Configured \cup {v \in {"app"} : HasCredentials("slack") /\ 3 \in secrets["slack"]}

\* the Slack router started with these variables: without its app token and signing secret its
\* process exits at once, though docker run has succeeded
SlackRouter(variables, table) ==
    IF {"slack", "app"} \subseteq variables THEN [up |-> TRUE, of |-> variables, table |-> table] ELSE Down

\* GenerateRoutingJSON for the agents that were listed
RoutingOf(listed) == UNION {{<<a, p>> : p \in rec[a].binds} : a \in {b \in listed : ~rec[b].paused}}

Labels == {"secret1", "secret2", "secret3", "instance", "env", "routing", "router", "telegram", "rmrouter", "list",
           "strip", "config", "unset1", "unset2", "unset3", "rmenv", "save", "refresh", "reconcile", "done"}

\* opt: AddChannel is given the optional secret; missed: the bound agents that RemoveChannel did
\* not list; clean: no step has failed; complete: none that the method reports at its end
Call == [op : {"none", "add", "remove", "bind", "unbind", "provision"}, p : Platforms, a : Agents \cup {Nobody},
         opt : BOOLEAN, at : Labels, todo : SUBSET Agents, did : SUBSET Agents, missed : SUBSET Agents,
         clean : BOOLEAN, complete : BOOLEAN, res : {"none", "ok", "error", "died"}]

Idle == [op |-> "none", p |-> "slack", a |-> Nobody, opt |-> FALSE, at |-> "done", todo |-> {}, did |-> {},
         missed |-> {}, clean |-> TRUE, complete |-> TRUE, res |-> "none"]

At(step) == call.at = step
Ready == At("done")

--------------------------------------------------------------------------------
(* The order of each method's steps: the step after each. *)

\* AWS looks for the instance before its first command there
Located(next) == IF prov = "aws" THEN "instance" ELSE next

\* RefreshAgent is called for an agent that is not paused
Refreshed(a, next) == IF rec[a].paused THEN next ELSE "refresh"

\* a platform with one required secret has no second step
Second(p, step, next) == IF 2 \in Required(p) THEN step ELSE next

\* the third secret is stored when AddChannel was given it
Third(step, next) == IF call.opt THEN step ELSE next

Started(p) == IF prov = "local" /\ p = "telegram" THEN "telegram" ELSE "router"

\* mutant: router.env is written before the secrets it is built from
AddStepsEnvFirst(p) ==
    [begin |-> "env", env |-> "secret1", secret1 |-> Second(p, "secret2", Started(p)),
     secret2 |-> Third("secret3", Started(p)), secret3 |-> Started(p), telegram |-> "done", router |-> "done"]

\* AddChannel
AddSteps(p) ==
    [begin |-> "secret1", secret1 |-> Second(p, "secret2", Located("env")),
     secret2 |-> Third("secret3", Located("env")), secret3 |-> Located("env"),
     instance |-> "env", env |-> IF prov = "aws" THEN "routing" ELSE Started(p), routing |-> "router",
     telegram |-> "done", router |-> "done"]

\* mutant: the secrets go before the bindings
RemoveStepsCleanupFirst(p) ==
    [begin |-> "rmrouter", rmrouter |-> "routing", routing |-> "unset1", unset1 |-> Second(p, "unset2", "rmenv"),
     unset2 |-> "unset3", unset3 |-> "rmenv", rmenv |-> "list", list |-> "strip", config |-> "strip", strip |-> "done"]

\* RemoveChannel; "config" is a step of the loop over the bound agents
RemoveSteps(p) ==
    [begin |-> Located("rmrouter"), instance |-> "rmrouter", rmrouter |-> "list", list |-> "strip",
     config |-> "strip", strip |-> "routing", routing |-> "unset1", unset1 |-> Second(p, "unset2", "rmenv"),
     unset2 |-> "unset3", unset3 |-> "rmenv", rmenv |-> "done"]

\* mutant: the router restarts before there is a route
BindStepsRouterFirst(a) ==
    [begin |-> "router", router |-> "save", save |-> Located("config"), instance |-> "config",
     config |-> "routing", routing |-> Refreshed(a, "done"),
     refresh |-> IF prov = "aws" THEN "reconcile" ELSE "done", reconcile |-> "done"]

\* BindChannel
BindSteps(a) ==
    [begin |-> "save", save |-> Located("config"), instance |-> "config", config |-> "routing",
     routing |-> IF prov = "local" THEN Refreshed(a, "router") ELSE "router",
     refresh |-> CASE prov = "local" -> "router" [] prov = "aws" -> "reconcile" [] prov = "remote" -> "done",
     router |-> IF prov = "local" THEN "telegram" ELSE Refreshed(a, "done"),
     telegram |-> "done", reconcile |-> "done"]

\* UnbindChannel
UnbindSteps(a) ==
    [begin |-> "save", save |-> Located("config"), instance |-> "config", config |-> "routing",
     routing |-> "router", router |-> Refreshed(a, "done"),
     refresh |-> IF prov = "aws" THEN "reconcile" ELSE "done", reconcile |-> "done"]

Following ==
    CASE call.op = "add"    -> AddSteps(call.p)[call.at]
      [] call.op = "remove" -> RemoveSteps(call.p)[call.at]
      [] call.op = "bind"   -> BindSteps(call.a)[call.at]
      [] call.op = "unbind" -> UnbindSteps(call.a)[call.at]

\* the steps whose failure AWS's RemoveChannel collects, and those that end with a warning
Collected ==
    prov = "aws" /\ call.op = "remove" /\ call.at \in {"config", "routing", "unset1", "unset2", "unset3", "rmenv"}
Warned ==
    /\ call.op \in {"bind", "unbind"}
    /\ \/ prov = "local" /\ call.at \in {"refresh", "router", "telegram"}
       \/ prov = "aws" /\ call.at = "reconcile"

\* mutant: the collected failures are not reported
ToleranceForgets == IF Collected \/ Warned THEN "warning" ELSE "error"

\* what the failure of a step leads to
Tolerance == IF Collected THEN "incomplete" ELSE IF Warned THEN "warning" ELSE "error"

--------------------------------------------------------------------------------
AtMostOne(S) == {{}} \cup {{x} : x \in S}

TypeOK ==
    /\ prov \in Providers
    /\ rec \in [Agents -> Record]
    /\ secrets \in [Platforms -> SUBSET (1 .. 3)] /\ \A p \in Platforms : secrets[p] \subseteq Known(p)
    /\ env \in AtMostOne(SUBSET Variables)
    /\ routing \subseteq Agents \X Platforms
    /\ config \in [Agents -> SUBSET Platforms]
    /\ container \in [Agents -> AtMostOne(SUBSET Platforms)]
    /\ router \in [Routers -> [up : BOOLEAN, of : SUBSET Variables, table : SUBSET (Agents \X Platforms)]]
    /\ call \in Call
    /\ faults \in 0 .. MaxFaults

Init ==
    /\ prov \in Providers
    /\ rec = [a \in Agents |-> NoAgent]
    /\ secrets = [p \in Platforms |-> {}]
    /\ env = (IF prov = "aws" THEN {{}} ELSE {}) /\ routing = {}   \* AWS's bootstrap writes one
    /\ config = [a \in Agents |-> {}] /\ container = [a \in Agents |-> {}]
    /\ router = [r \in Routers |-> Down]
    /\ call = Idle
    /\ faults = 0

--------------------------------------------------------------------------------
(* The calls.  A call that is refused changes nothing and is left out.  *)

Begin(op, p, a, opt, first) ==
    call' = [op |-> op, p |-> p, a |-> a, opt |-> opt, at |-> first, todo |-> {}, did |-> {}, missed |-> {},
             clean |-> TRUE, complete |-> TRUE, res |-> "none"]

AddChannel(p, opt) ==
    /\ Ready
    /\ opt => 3 \in Known(p)
    /\ Begin("add", p, Nobody, opt, AddSteps(p).begin)
    /\ UNCHANGED <<prov, agents, disk, router, faults>>

\* local and remote do nothing when the platform is not configured, AWS does not ask
RemoveChannel(p) ==
    /\ Ready
    /\ prov # "aws" => HasCredentials(p)
    /\ Begin("remove", p, Nobody, FALSE, RemoveSteps(p).begin)
    /\ UNCHANGED <<prov, agents, disk, router, faults>>

BindChannel(a, p) ==
    /\ Ready
    /\ HasCredentials(p)
    /\ rec[a].there
    /\ p \notin rec[a].binds
    /\ SupportsRuntime(p, rec[a].rt)
    /\ Begin("bind", p, a, FALSE, BindSteps(a).begin)
    /\ UNCHANGED <<prov, agents, disk, router, faults>>

UnbindChannel(a, p) ==
    /\ Ready
    /\ rec[a].there
    /\ p \in rec[a].binds
    /\ Begin("unbind", p, a, FALSE, UnbindSteps(a).begin)
    /\ UNCHANGED <<prov, agents, disk, router, faults>>

\* an agent provisioned with or without a binding that its front end has checked; the steps
\* are those of LocalAgents, RemoteAgents and ManagedHost.  On AWS the record has no runtime.
Saved(rt) == IF prov = "aws" THEN "openclaw" ELSE rt

Provision(a, rt, paused, binds) ==
    /\ Ready
    /\ ~rec[a].there
    /\ <<rt, paused, binds>> \in Launches
    /\ \A p \in binds : SupportsRuntime(p, rt)
    /\ rec' = [rec EXCEPT ![a] = [there |-> TRUE, rt |-> Saved(rt), paused |-> paused,
                                  binds |-> binds]]
    /\ routing' = IF paused THEN routing ELSE routing \cup {<<a, p>> : p \in binds}
    /\ config' = [config EXCEPT ![a] = binds \cap Configured]
    /\ container' = [container EXCEPT ![a] = IF paused THEN {} ELSE {binds \cap Configured}]
    /\ Begin("provision", "slack", a, FALSE, "done")
    /\ UNCHANGED <<prov, secrets, env, router, faults>>

--------------------------------------------------------------------------------
(* The steps. *)

Advance(clean, complete) ==
    call' = [call EXCEPT !.at = Following, !.clean = clean, !.complete = complete,
                         !.res = IF Following # "done" THEN "none" ELSE IF complete THEN "ok" ELSE "error"]

Proceed == Advance(call.clean, call.complete)

Stop(res) == call' = [call EXCEPT !.at = "done", !.clean = FALSE, !.res = res]

Disturb == faults < MaxFaults /\ faults' = faults + 1

\* where a failed step leads
GoOn == IF Tolerance = "error" THEN Stop("error")
                               ELSE Advance(FALSE, call.complete /\ Tolerance = "warning")

\* a step fails before it has an effect
Fail ==
    /\ ~Ready
    /\ Disturb
    /\ GoOn
    /\ UNCHANGED <<prov, agents, disk, router>>

\* the process dies, or is killed at the end of its time
Die ==
    /\ ~Ready
    /\ Disturb
    /\ Stop("died")
    /\ UNCHANGED <<prov, agents, disk, router>>

\* failures that the method takes for nothing to do: a router container that cannot be inspected
\* is not there to be removed (AWS's docker rm -f || true likewise) and, on the remote provider,
\* runs and is not restarted; shared secrets that cannot be read are not configured; AWS does not
\* look at the status of the command that removes router.env
Unnoticed ==
    \/ At("rmrouter")
    \/ prov = "remote" /\ At("router") /\ call.op \in {"bind", "unbind"} /\ router["slack"].up
    \/ prov = "local" /\ At("telegram")
    \/ prov = "aws" /\ At("rmenv")

Skip ==
    /\ Unnoticed
    /\ Disturb
    /\ Advance(FALSE, call.complete)
    /\ UNCHANGED <<prov, agents, disk, router>>

FindInstance ==
    /\ At("instance")
    /\ Proceed
    /\ UNCHANGED <<prov, agents, disk, router, faults>>

WriteSecret(n) ==
    /\ At(<<"secret1", "secret2", "secret3">>[n])
    /\ secrets' = [secrets EXCEPT ![call.p] = @ \cup {n}]
    /\ Proceed
    /\ UNCHANGED <<prov, agents, env, routing, router, faults>>

DeleteSecret(n) ==
    /\ At(<<"unset1", "unset2", "unset3">>[n])
    /\ secrets' = [secrets EXCEPT ![call.p] = @ \ {n}]
    /\ Proceed
    /\ UNCHANGED <<prov, agents, env, routing, router, faults>>

\* mutant: the new file is appended to the old one
AppendRouterEnv ==
    /\ At("env")
    /\ env' = env \cup {RouterEnv}
    /\ Proceed
    /\ UNCHANGED <<prov, agents, secrets, routing, router, faults>>

WriteRouterEnv ==
    /\ At("env")
    /\ env' = {RouterEnv}
    /\ Proceed
    /\ UNCHANGED <<prov, agents, secrets, routing, router, faults>>

\* local removes the old file first, and may fail to write the new one
LoseRouterEnv ==
    /\ At("env") /\ prov = "local"
    /\ Disturb
    /\ env' = {}
    /\ GoOn
    /\ UNCHANGED <<prov, agents, secrets, routing, router>>

RemoveRouterEnv ==
    /\ At("rmenv")
    /\ env' = {}
    /\ Proceed
    /\ UNCHANGED <<prov, agents, secrets, routing, router, faults>>

RegenerateRouting ==
    /\ At("routing")
    /\ routing' = RoutingOf(Present)
    /\ Proceed
    /\ UNCHANGED <<prov, agents, secrets, env, router, faults>>

\* remote ListAgents: a lost ls is an empty list, a lost record is skipped
LoseRoutes ==
    /\ At("routing") /\ prov = "remote"
    /\ Disturb
    /\ \E listed \in SUBSET Present : routing' = RoutingOf(listed)
    /\ Advance(FALSE, call.complete)
    /\ UNCHANGED <<prov, agents, secrets, env, router>>

\* ensureRouter(true), restartRouter, restartRouterOnInstance: the old container goes, the
\* new one is started with router.env and routing.json
RestartRouter ==
    /\ At("router") /\ env # {}
    /\ router' = [router EXCEPT !["slack"] = SlackRouter(UNION env, routing)]
    /\ Proceed
    /\ UNCHANGED <<prov, agents, disk, faults>>

\* AWS: conga-router.service has Restart=always and starts the router again, with its Slack
\* variables alone, whatever stopped it, as long as there is a router.env
UnitRestarts ==
    /\ prov = "aws" /\ env # {} /\ ~router["slack"].up
    /\ router' = [router EXCEPT !["slack"] = SlackRouter((UNION env) \ {"telegram"}, routing)]
    /\ UNCHANGED <<prov, agents, disk, call, faults>>

\* the old container is gone and the new one does not start
BreakRouter ==
    /\ At("router")
    /\ Disturb
    /\ router' = [router EXCEPT !["slack"] = Down]
    /\ GoOn
    /\ UNCHANGED <<prov, agents, disk>>

\* no router.env: on AWS the script leaves everything as it is, elsewhere it is an error,
\* raised once the old container has been removed
NoRouterEnv ==
    /\ At("router") /\ env = {}
    /\ IF prov = "aws" THEN Proceed /\ UNCHANGED router
                       ELSE GoOn /\ router' = [router EXCEPT !["slack"] = Down]
    /\ UNCHANGED <<prov, agents, disk, faults>>

\* ensureTelegramRouter(true): it writes its own env file, and is left alone without credentials
RestartTelegramRouter ==
    /\ At("telegram")
    /\ router' = IF HasCredentials("telegram")
                 THEN [router EXCEPT !["telegram"] = [up |-> TRUE, of |-> {"telegram"}, table |-> {}]]
                 ELSE router
    /\ Proceed
    /\ UNCHANGED <<prov, agents, disk, faults>>

BreakTelegramRouter ==
    /\ At("telegram") /\ HasCredentials("telegram")
    /\ Disturb
    /\ router' = [router EXCEPT !["telegram"] = Down]
    /\ GoOn
    /\ UNCHANGED <<prov, agents, disk>>

RemoveRouter ==
    /\ At("rmrouter")
    /\ router' = [router EXCEPT ![RouterOf(call.p)] = Down]
    /\ Proceed
    /\ UNCHANGED <<prov, agents, disk, faults>>

SaveBinding ==
    /\ At("save")
    /\ rec' = [rec EXCEPT ![call.a].binds = IF call.op = "bind" THEN @ \cup {call.p} ELSE @ \ {call.p}]
    /\ Proceed
    /\ UNCHANGED <<prov, config, container, disk, router, faults>>

\* what the generated config and .env serve: a platform without its credentials is left out
Generated(a) == rec[a].binds \cap Configured

\* GenerateConfig refuses a configured platform that the runtime does not support
Generable(a) == \A p \in Generated(a) : SupportsRuntime(p, rec[a].rt)

\* regenerateAgentConfig
RegenerateConfig ==
    /\ At("config")
    /\ IF Generable(call.a) THEN config' = [config EXCEPT ![call.a] = Generated(call.a)] /\ Proceed
                            ELSE GoOn /\ UNCHANGED config
    /\ UNCHANGED <<prov, rec, container, disk, router, faults>>

\* RefreshAgent: a config from the record, and a new container that reads it
RefreshAgent ==
    /\ At("refresh")
    /\ IF Generable(call.a)
       THEN /\ config' = [config EXCEPT ![call.a] = Generated(call.a)]
            /\ container' = [container EXCEPT ![call.a] = {Generated(call.a)}]
            /\ Proceed
       ELSE GoOn /\ UNCHANGED <<config, container>>
    /\ UNCHANGED <<prov, rec, disk, router, faults>>

\* the config is written, the old container is gone and the new one does not start
BreakAgent ==
    /\ At("refresh") /\ Generable(call.a)
    /\ Disturb
    /\ config' = [config EXCEPT ![call.a] = Generated(call.a)]
    /\ container' = [container EXCEPT ![call.a] = {}]
    /\ GoOn
    /\ UNCHANGED <<prov, rec, disk, router>>

\* the end of AWS's RefreshAgent: routing.json, then the router, with a warning
Reconcile ==
    /\ At("reconcile")
    /\ routing' = RoutingOf(Present)
    /\ router' = IF env = {} THEN router
                 ELSE [router EXCEPT !["slack"] = SlackRouter(UNION env, RoutingOf(Present))]
    /\ Proceed
    /\ UNCHANGED <<prov, agents, secrets, env, faults>>

BreakReconcile ==
    /\ At("reconcile")
    /\ Disturb
    /\ routing' = RoutingOf(Present)
    /\ router' \in {router, [router EXCEPT !["slack"] = Down]}
    /\ GoOn
    /\ UNCHANGED <<prov, agents, secrets, env>>

--------------------------------------------------------------------------------
(* RemoveChannel goes through the agents bound to the platform. *)

ListBound ==
    /\ At("list")
    /\ call' = [call EXCEPT !.at = Following, !.todo = Bound(call.p)]
    /\ UNCHANGED <<prov, agents, disk, router, faults>>

\* remote ListAgents: a lost ls is an empty list, a lost record is skipped, and no error is seen
LoseList ==
    /\ At("list") /\ prov = "remote"
    /\ Disturb
    /\ \E listed \in SUBSET Bound(call.p) :
           call' = [call EXCEPT !.at = Following, !.todo = listed, !.missed = Bound(call.p) \ listed,
                                !.clean = FALSE]
    /\ UNCHANGED <<prov, agents, disk, router>>

\* the record of the next agent; a paused agent's config is left to UnpauseAgent
StripRecord(a) ==
    /\ At("strip") /\ a \in call.todo
    /\ rec' = [rec EXCEPT ![a].binds = @ \ {call.p}]
    /\ call' = [call EXCEPT !.todo = @ \ {a}, !.did = @ \cup {a}, !.a = a,
                            !.at = IF rec[a].paused THEN "strip" ELSE "config"]
    /\ UNCHANGED <<prov, config, container, disk, router, faults>>

Stripped ==
    /\ At("strip") /\ call.todo = {}
    /\ Proceed
    /\ UNCHANGED <<prov, agents, disk, router, faults>>

Next ==
    \/ \E p \in Platforms, opt \in BOOLEAN : AddChannel(p, opt)
    \/ \E p \in Platforms : RemoveChannel(p)
    \/ \E a \in Agents, p \in Platforms : BindChannel(a, p) \/ UnbindChannel(a, p)
    \/ \E a \in Agents, rt \in Runtimes, paused \in BOOLEAN,
          binds \in {{}} \cup {{p} : p \in Platforms} : Provision(a, rt, paused, binds)
    \/ Fail \/ Die \/ Skip
    \/ FindInstance
    \/ \E n \in 1 .. 3 : WriteSecret(n) \/ DeleteSecret(n)
    \/ WriteRouterEnv \/ LoseRouterEnv \/ RemoveRouterEnv
    \/ RegenerateRouting \/ LoseRoutes
    \/ RestartRouter \/ UnitRestarts \/ BreakRouter \/ NoRouterEnv
    \/ RestartTelegramRouter \/ BreakTelegramRouter \/ RemoveRouter
    \/ SaveBinding \/ RegenerateConfig \/ RefreshAgent \/ BreakAgent
    \/ Reconcile \/ BreakReconcile
    \/ ListBound \/ LoseList
    \/ \E a \in Agents : StripRecord(a)
    \/ Stripped

Spec == Init /\ [][Next]_vars

--------------------------------------------------------------------------------
Returned(op) == Ready /\ call.op = op /\ call.res = "ok"

\* AddChannel that returns nil has repaired whatever earlier calls left half done: the secrets
\* are stored, router.env holds what is stored, and the router it starts runs with it.  That is
\* conga-router, for Telegram too on the remote provider and on AWS; it runs exactly when Slack has
\* its credentials and its app token, which SharedSecrets calls optional.  The local Telegram router
\* runs unless the secrets could not be read back, which is not an error.
AddRepairs ==
    Returned("add") =>
        /\ HasCredentials(call.p)
        /\ env = {RouterEnv}
        /\ IF RouterOf(call.p) = "telegram"
           THEN call.clean => router["telegram"].up
           ELSE /\ router["slack"].up <=> {"slack", "app"} \subseteq RouterEnv
                /\ router["slack"].up /\ prov # "aws" => router["slack"].of = RouterEnv

\* BindChannel and UnbindChannel that no failure disturbed leave the record, the generated
\* config, the container, routing.json and, where it runs, the Slack router in agreement: the
\* agent serves what its record binds among the platforms that have their credentials
BindingTakesEffect ==
    (\E op \in {"bind", "unbind"} : Returned(op)) /\ call.clean
        => LET a == call.a
           IN  /\ call.op = "bind" => call.p \in config[a]
               /\ config[a] = rec[a].binds \cap Configured
               /\ ~rec[a].paused => container[a] = {config[a]}
               /\ routing = RoutingOf(Present)
               /\ router["slack"].up /\ env # {} => router["slack"].table = routing

\* RemoveChannel that returns nil has left the platform nowhere, but for the agents that a lost list
\* of the remote provider hid from it: not in a record, the config of an agent it unbound that is
\* not paused, routing.json or the secrets, whatever earlier calls left half done.  Its router is
\* down when no failure went unnoticed, except on AWS, whose unit may have started it again before
\* router.env was removed.  (The config of an agent whose UnbindChannel failed after the record was
\* saved is not among them: the record no longer leads to it.)
RemovalComplete ==
    Returned("remove") => /\ Bound(call.p) \subseteq call.missed
                          /\ \A a \in call.did : rec[a].paused \/ call.p \notin config[a]
                          /\ \A a \in Agents \ call.missed : <<a, call.p>> \notin routing
                          /\ secrets[call.p] = {}
                          /\ call.clean => call.missed = {}
                          /\ call.clean /\ prov # "aws" => ~router[RouterOf(call.p)].up

\* the credentials of a platform go only after its last binding: no step takes them from a
\* platform that an agent is still bound to, other than an agent that a lost list of the remote
\* provider hid from RemoveChannel, so that a regenerated config never silently loses a channel
\* its record has
CredentialsOutliveBindings ==
    [][\A p \in Platforms : HasCredentials(p) /\ ~HasCredentials(p)' => Bound(p) \subseteq call.missed]_vars
================================================================================
