---------------------------- MODULE ChannelsProofs -----------------------------
(***************************************************************************)
(* Proofs about Channels, for every set of agents, every choice of         *)
(* providers and every number of faults.                                   *)
(***************************************************************************)
EXTENDS Channels, TLAPS

\* Which methods come to which steps, and for which platform and agent.
Road(f) ==
    /\ f.at # "done" => f.op \in {"add", "remove", "bind", "unbind"}
    /\ f.op = "add" => f.at \in {"secret1", "secret2", "secret3", "instance", "env", "routing", "router",
                                 "telegram", "done"}
    /\ f.op = "remove" => f.at \in {"instance", "rmrouter", "list", "strip", "config", "routing", "unset1", "unset2",
                                    "unset3", "rmenv", "done"}
    /\ f.op = "bind" => f.at \in {"save", "instance", "config", "routing", "router", "refresh", "telegram",
                                  "reconcile", "done"}
    /\ f.op = "unbind" => f.at \in {"save", "instance", "config", "routing", "router", "refresh", "reconcile", "done"}
    /\ f.at \in {"secret2", "secret3", "unset2", "unset3"} => 2 \in Required(f.p)
    /\ f.op = "add" /\ f.at \in {"router", "telegram"} => f.at = Started(f.p)
    /\ f.op = "add" /\ f.at = "routing" => prov = "aws"
    /\ f.op = "bind" /\ f.at = "telegram" => prov = "local"
    /\ f.at = "reconcile" => prov = "aws"
    /\ f.op \in {"bind", "unbind"} \/ f.at = "config" => f.a \in Agents

TypeInv == TypeOK /\ Road(call)

\* The method has got to one of these steps, or has returned success.
Past(steps) == call.at \in steps \/ (Ready /\ call.res = "ok")

--------------------------------------------------------------------------------
(* What each method has brought about, by the step it is at. *)

\* AddChannel: every failure but one ends it, so no more is needed than the step it is at.
Adding ==
    LET p == call.p
    IN  /\ call.at = "secret2" => 1 \in secrets[p]
        /\ Past({"secret3", "instance", "env", "routing", "router", "telegram"}) => HasCredentials(p)
        /\ Past({"routing", "router", "telegram"}) => env = {RouterEnv}
        /\ Past({}) => IF RouterOf(p) = "telegram"
                       THEN call.clean => router["telegram"].up
                       ELSE /\ router["slack"].up <=> {"slack", "app"} \subseteq RouterEnv
                            /\ router["slack"].up /\ prov # "aws" => router["slack"].of = RouterEnv

AddInv == call.op = "add" => Adding

\* BindChannel and UnbindChannel, while no step has failed.
Refreshes == call.op = "bind" /\ prov = "local"

Binding ==
    LET a == call.a
    IN  /\ call.op = "bind" => HasCredentials(call.p) /\ (call.at # "save" => call.p \in rec[a].binds)
        /\ Past({"routing", "router", "refresh", "telegram", "reconcile"}) => config[a] = Generated(a)
        /\ Past({"router", "refresh", "telegram", "reconcile"}) => routing = RoutingOf(Present)
        /\ Past(IF Refreshes THEN {"router", "telegram"} ELSE {"reconcile"})
               => rec[a].paused \/ container[a] = {Generated(a)}
        /\ Past(IF Refreshes THEN {"telegram"} ELSE {"refresh", "reconcile"})
               => (router["slack"].up /\ env # {} => router["slack"].table = routing)

BindInv == call.op \in {"bind", "unbind"} /\ call.clean => Binding

\* RemoveChannel: what it has done whatever AWS has collected of failures, and whatever went unnoticed...
Unbinding ==
    LET p == call.p
    IN  /\ call.at \in {"instance", "rmrouter", "list"} => call.did = {} /\ call.missed = {}
        /\ Past({"list", "strip", "config", "routing", "unset1", "unset2", "unset3", "rmenv"})
               => (call.clean /\ prov # "aws" => ~router[RouterOf(p)].up)
        /\ call.at \in {"strip", "config"} => Bound(p) \subseteq call.todo \cup call.missed
        /\ Past({"routing", "unset1", "unset2", "unset3", "rmenv"}) => Bound(p) \subseteq call.missed
        /\ call.at = "config" => p \notin rec[call.a].binds
        /\ call.clean => call.missed = {}

\* ...and while there is none to be reported.
Removing ==
    LET p == call.p
    IN  /\ \A a \in call.did : rec[a].paused \/ p \notin config[a] \/ (At("config") /\ call.a = a)
        /\ Past({"unset1", "unset2", "unset3", "rmenv"}) => \A a \in Agents \ call.missed : <<a, p>> \notin routing
        /\ call.at \in {"unset2", "unset3"} => 1 \notin secrets[p]
        /\ call.at = "unset3" => 2 \notin secrets[p]
        /\ Past({"rmenv"}) => secrets[p] = {}

UnbindInv == call.op = "remove" => Unbinding

Claims == (~Ready /\ call.complete) \/ (Ready /\ call.res = "ok")

RemoveInv == call.op = "remove" /\ Claims => Removing

--------------------------------------------------------------------------------
(* What a step does to the call. *)

Same ==
    /\ call'.op = call.op /\ call'.p = call.p /\ call'.a = call.a /\ call'.opt = call.opt
    /\ call'.todo = call.todo /\ call'.did = call.did /\ call'.missed = call.missed

\* A step that succeeds, or fails unnoticed.
Forth == Proceed \/ Advance(FALSE, call.complete)

\* The next step is one of the method's.
LEMMA NextStep ==
    ASSUME TypeInv, ~Ready
    PROVE  Following \in Labels /\ Road([call EXCEPT !.at = Following])
<1> DEFINE next == Following
<1>1. /\ call \in Call /\ Road(call) /\ call.at # "done" /\ prov \in {"local", "remote", "aws"}
      /\ call.p \in Platforms
  BY ProvidersAssumption DEF TypeInv, TypeOK, Ready, At, Call
<1>2. ASSUME NEW l \in Labels
      PROVE  LET f == [call EXCEPT !.at = l] IN f.op = call.op /\ f.p = call.p /\ f.a = call.a /\ f.at = l
  BY <1>1 DEF Call
<1>3. CASE call.op = "add"
  <2>1. next = AddSteps(call.p)[call.at]
    BY <1>3 DEF Following
  <2>2. /\ next \in {"secret2", "secret3", "instance", "env", "routing", "router", "telegram", "done"}
        /\ next \in {"secret2", "secret3"} => 2 \in Required(call.p)
        /\ next \in {"router", "telegram"} => next = Started(call.p)
        /\ next = "routing" => prov = "aws"
    BY <1>1, <1>3, <2>1 DEF AddSteps, Road, Second, Third, Located, Started
  <2> QED BY <1>1, <1>2, <1>3, <2>2 DEF Road, Labels
<1>4. CASE call.op = "remove"
  <2>1. next = RemoveSteps(call.p)[call.at]
    BY <1>4 DEF Following
  <2>2. /\ next \in {"rmrouter", "list", "strip", "routing", "unset1", "unset2", "unset3", "rmenv", "done"}
        /\ next \in {"unset2", "unset3"} => 2 \in Required(call.p)
    BY <1>1, <1>4, <2>1 DEF RemoveSteps, Road, Second
  <2> QED BY <1>1, <1>2, <1>4, <2>2 DEF Road, Labels
<1>5. CASE call.op = "bind"
  <2>1. next = BindSteps(call.a)[call.at]
    BY <1>5 DEF Following
  <2>2. /\ next \in {"instance", "config", "routing", "router", "refresh", "telegram", "reconcile", "done"}
        /\ (next = "telegram" => prov = "local") /\ (next = "reconcile" => prov = "aws")
    BY <1>1, <1>5, <2>1 DEF BindSteps, Road, Located, Refreshed
  <2> QED BY <1>1, <1>2, <1>5, <2>2 DEF Road, Labels
<1>6. CASE call.op = "unbind"
  <2>1. next = UnbindSteps(call.a)[call.at]
    BY <1>6 DEF Following
  <2>2. /\ next \in {"instance", "config", "routing", "router", "refresh", "reconcile", "done"}
        /\ next = "reconcile" => prov = "aws"
    BY <1>1, <1>6, <2>1 DEF UnbindSteps, Road, Located, Refreshed
  <2> QED BY <1>1, <1>2, <1>6, <2>2 DEF Road, Labels
<1> QED BY <1>1, <1>3, <1>4, <1>5, <1>6 DEF Road

\* A step that succeeds, or a failure that the method goes on after.
LEMMA Advanced ==
    ASSUME TypeInv, ~Ready, NEW clean \in BOOLEAN, NEW complete \in BOOLEAN, Advance(clean, complete)
    PROVE  /\ call' \in Call /\ Road(call') /\ Same
           /\ call'.at = Following /\ call'.clean = clean /\ call'.complete = complete
           /\ call'.res = "ok" => complete
<1> DEFINE next == Following
           r == IF next # "done" THEN "none" ELSE IF complete THEN "ok" ELSE "error"
<1>1. /\ call \in Call /\ next \in Labels /\ Road([call EXCEPT !.at = next])
      /\ r \in {"none", "ok", "error"} /\ (r = "ok" => complete)
  BY NextStep DEF TypeInv, TypeOK
<1>2. call' = [call EXCEPT !.at = next, !.clean = clean, !.complete = complete, !.res = r]
  BY DEF Advance
<1> HIDE DEF next, r
<1>3. /\ call' \in Call /\ Same /\ call'.at = next /\ call'.clean = clean /\ call'.complete = complete
      /\ call'.res = r
  BY <1>1, <1>2 DEF Call, Same
<1>4. Road(call')
  BY <1>1, <1>3 DEF Road, Call, Same
<1> QED BY <1>1, <1>3, <1>4 DEF next

\* A method that stops.
LEMMA Stopped ==
    ASSUME TypeInv, ~Ready, NEW res \in {"error", "died"}, Stop(res)
    PROVE  call' \in Call /\ Road(call') /\ Same /\ call'.at = "done" /\ call'.res # "ok" /\ ~call'.clean
<1>1. call \in Call /\ Road(call)
  BY DEF TypeInv, TypeOK
<1>2. /\ call' \in Call /\ Same /\ call'.at = "done" /\ call'.res = res /\ call'.clean = FALSE
  BY <1>1 DEF Stop, Call, Same, Labels
<1>3. Road(call')
  BY <1>1, <1>2 DEF Road, Same
<1> QED BY <1>2, <1>3

\* What every step leaves of a call, and what a failed one leaves.
Onward == call' \in Call /\ Road(call') /\ Same

Halted == call'.at = "done" /\ call'.res # "ok"

LEMMA Proceeds ==
    ASSUME TypeInv, ~Ready, Forth
    PROVE  /\ Onward /\ call'.at = Following
           /\ call'.complete = call.complete /\ (call'.res = "ok" => call.complete)
           /\ call'.clean => call.clean /\ Proceed
           /\ Proceed => call'.clean = call.clean
<1>1. call.clean \in BOOLEAN /\ call.complete \in BOOLEAN /\ FALSE \in BOOLEAN
  BY DEF TypeInv, TypeOK, Call
<1>2. CASE Proceed
  <2>1. Advance(call.clean, call.complete)
    BY <1>2 DEF Proceed
  <2> QED BY <1>1, <1>2, <2>1, Advanced DEF Onward
<1>3. CASE Advance(FALSE, call.complete)
  <2>1. Onward /\ call'.at = Following /\ call'.clean = FALSE /\ call'.complete = call.complete
        /\ (call'.res = "ok" => call.complete)
    BY <1>1, <1>3, Advanced DEF Onward
  <2>2. Proceed => call'.clean = call.clean
    BY <1>1, Advanced DEF Proceed
  <2> QED BY <2>1, <2>2
<1> QED BY <1>2, <1>3 DEF Forth

LEMMA GoesOn ==
    ASSUME TypeInv, ~Ready, GoOn
    PROVE  /\ Onward /\ ~call'.clean
           /\ \/ Halted
              \/ call'.at = Following /\ Warned
              \/ call'.at = Following /\ Collected /\ ~call'.complete /\ call'.res # "ok"
<1>1. CASE Tolerance = "error"
  BY <1>1, Stopped DEF GoOn, Onward, Halted
<1>2. CASE Tolerance # "error"
  <2> DEFINE complete == call.complete /\ Tolerance = "warning"
  <2>1. complete \in BOOLEAN /\ Advance(FALSE, complete)
    BY <1>2 DEF GoOn
  <2>2. Warned \/ (Collected /\ Tolerance = "incomplete")
    BY <1>2 DEF Tolerance
  <2> HIDE DEF complete
  <2>3. /\ call' \in Call /\ Road(call') /\ Same /\ call'.at = Following /\ call'.clean = FALSE
        /\ call'.complete = complete /\ (call'.res = "ok" => complete)
    BY <2>1, Advanced
  <2> QED BY <2>2, <2>3 DEF complete, Onward
<1> QED BY <1>1, <1>2

LEMMA Dies ==
    ASSUME TypeInv, ~Ready, Stop("died")
    PROVE  Onward /\ Halted /\ ~call'.clean
BY Stopped DEF Onward, Halted

--------------------------------------------------------------------------------
(* Type correctness. *)

\* The steps of a call in progress, and the steps that begin one.
Steps ==
    \/ Fail \/ Die \/ Skip \/ FindInstance
    \/ \E n \in 1 .. 3 : WriteSecret(n) \/ DeleteSecret(n)
    \/ WriteRouterEnv \/ LoseRouterEnv \/ RemoveRouterEnv \/ RegenerateRouting \/ LoseRoutes
    \/ RestartRouter \/ BreakRouter \/ NoRouterEnv
    \/ RestartTelegramRouter \/ BreakTelegramRouter \/ RemoveRouter
    \/ SaveBinding \/ RegenerateConfig \/ RefreshAgent \/ BreakAgent
    \/ Reconcile \/ BreakReconcile \/ ListBound \/ LoseList \/ Stripped
    \/ \E a \in Agents : StripRecord(a)

Begins ==
    \/ \E p \in Platforms, opt \in BOOLEAN : AddChannel(p, opt)
    \/ \E p \in Platforms : RemoveChannel(p)
    \/ \E a \in Agents, p \in Platforms : BindChannel(a, p) \/ UnbindChannel(a, p)

Provisions ==
    \E a \in Agents, rt \in Runtimes, paused \in BOOLEAN, binds \in {{}} \cup {{p} : p \in Platforms} :
        Provision(a, rt, paused, binds)

LEMMA NextIs == Next => Begins \/ Provisions \/ Steps \/ UnitRestarts
BY DEF Next, Begins, Provisions, Steps

\* The steps of the three secrets.
LEMMA SecretSteps ==
    ASSUME NEW n \in 1 .. 3
    PROVE  /\ WriteSecret(n) => call.at = (CASE n = 1 -> "secret1" [] n = 2 -> "secret2" [] n = 3 -> "secret3")
           /\ DeleteSecret(n) => call.at = (CASE n = 1 -> "unset1" [] n = 2 -> "unset2" [] n = 3 -> "unset3")
<1>1. n = 1 \/ n = 2 \/ n = 3
  OBVIOUS
<1>2. CASE n = 1
  BY <1>2 DEF WriteSecret, DeleteSecret, At
<1>3. CASE n = 2
  BY <1>3 DEF WriteSecret, DeleteSecret, At
<1>4. CASE n = 3
  BY <1>4 DEF WriteSecret, DeleteSecret, At
<1> QED BY <1>1, <1>2, <1>3, <1>4

\* A step of a call is where the call says it is.
LEMMA Working ==
    ASSUME Steps
    PROVE  ~Ready /\ UNCHANGED prov
<1>1. ASSUME NEW n \in 1 .. 3, WriteSecret(n) \/ DeleteSecret(n) PROVE ~Ready /\ UNCHANGED prov
  <2>1. UNCHANGED prov
    BY <1>1 DEF WriteSecret, DeleteSecret
  <2> QED BY <1>1, <2>1, SecretSteps DEF Ready, At
<1>2. Skip => ~Ready /\ UNCHANGED prov
  BY DEF Skip, Unnoticed, Ready, At
<1>3. LoseRoutes \/ LoseList => ~Ready /\ UNCHANGED prov
  BY DEF LoseRoutes, LoseList, Ready, At
<1> QED
  BY <1>1, <1>2, <1>3
     DEF Steps, Fail, Die, FindInstance, WriteRouterEnv, LoseRouterEnv, RemoveRouterEnv, RegenerateRouting,
         RestartRouter, BreakRouter, NoRouterEnv, RestartTelegramRouter, BreakTelegramRouter, RemoveRouter,
         SaveBinding, RegenerateConfig, RefreshAgent, BreakAgent, Reconcile, BreakReconcile, ListBound, Stripped,
         StripRecord, Ready, At

\* Only the steps of the secrets change them.
LEMMA SecretsMove ==
    ASSUME Steps
    PROVE  UNCHANGED secrets \/ \E n \in 1 .. 3 : WriteSecret(n) \/ DeleteSecret(n)
<1>1. Skip \/ LoseRoutes \/ LoseList => UNCHANGED secrets
  BY DEF Skip, LoseRoutes, LoseList, disk
<1> QED
  BY <1>1
     DEF Steps, Fail, Die, FindInstance, WriteRouterEnv, LoseRouterEnv, RemoveRouterEnv, RegenerateRouting,
         RestartRouter, BreakRouter, NoRouterEnv, RestartTelegramRouter, BreakTelegramRouter, RemoveRouter,
         SaveBinding, RegenerateConfig, RefreshAgent, BreakAgent, Reconcile, BreakReconcile, ListBound, Stripped,
         StripRecord, disk

\* Listing the agents and StripRecord change what the loop has to do and has done.
LEMMA Lists ==
    ASSUME TypeInv, NEW listed \in SUBSET Bound(call.p), NEW missed \in SUBSET Agents, NEW clean \in BOOLEAN,
           call.at = "list",
           call' = [call EXCEPT !.at = Following, !.todo = listed, !.missed = missed, !.clean = clean]
    PROVE  /\ call' \in Call /\ Road(call') /\ call.op = "remove" /\ call'.op = "remove" /\ call'.p = call.p
           /\ call'.at = "strip" /\ call'.todo = listed /\ call'.missed = missed /\ call'.did = call.did
           /\ call'.complete = call.complete /\ call'.clean = clean
<1>1. call \in Call /\ Road(call) /\ call.p \in Platforms
  BY DEF TypeInv, TypeOK, Call
<1>2. call.op = "remove" /\ Following = "strip"
  BY <1>1 DEF Road, Following, RemoveSteps
<1>3. listed \subseteq Agents
  BY DEF Bound, Present
<1>4. call' = [call EXCEPT !.at = "strip", !.todo = listed, !.missed = missed, !.clean = clean]
  BY <1>2
<1>5. /\ call' \in Call /\ call'.op = "remove" /\ call'.p = call.p /\ call'.a = call.a
      /\ call'.at = "strip" /\ call'.todo = listed /\ call'.missed = missed /\ call'.did = call.did
      /\ call'.complete = call.complete /\ call'.clean = clean
  BY <1>1, <1>2, <1>3, <1>4 DEF Call, Labels
<1> QED BY <1>1, <1>2, <1>5 DEF Road

\* The agents are listed, all of them or those that a lost list has left.
LEMMA Listings ==
    ASSUME TypeInv, ListBound \/ LoseList
    PROVE  /\ call' \in Call /\ Road(call') /\ call.op = "remove" /\ call'.op = "remove" /\ call'.p = call.p
           /\ call.at = "list" /\ call'.at = "strip" /\ call'.did = call.did
           /\ Bound(call.p) \subseteq call'.todo \cup call'.missed
           /\ call'.complete = call.complete
           /\ call'.clean => call.clean /\ call'.missed = call.missed
<1>1. call \in Call /\ Bound(call.p) \subseteq Agents
  BY DEF TypeInv, TypeOK, Bound, Present
<1>2. CASE ListBound
  <2> DEFINE listed == Bound(call.p)
             missed == call.missed
             clean == call.clean
  <2>1. /\ listed \in SUBSET Bound(call.p) /\ missed \in SUBSET Agents /\ clean \in BOOLEAN
        /\ call.at = "list"
    BY <1>1, <1>2 DEF ListBound, At, Call
  <2>2. call' = [call EXCEPT !.at = Following, !.todo = listed, !.missed = missed, !.clean = clean]
    BY <1>1, <1>2 DEF ListBound, Call
  <2>3. listed = Bound(call.p) /\ missed = call.missed /\ clean = call.clean
    OBVIOUS
  <2> HIDE DEF listed, missed, clean
  <2> QED BY <2>1, <2>2, <2>3, Lists
<1>3. CASE LoseList
  <2>1. PICK listed \in SUBSET Bound(call.p) :
            call' = [call EXCEPT !.at = Following, !.todo = listed, !.missed = Bound(call.p) \ listed, !.clean = FALSE]
    BY <1>3 DEF LoseList
  <2> DEFINE missed == Bound(call.p) \ listed
  <2>2. missed \in SUBSET Agents /\ call.at = "list" /\ Bound(call.p) \subseteq listed \cup missed
    BY <1>1, <1>3 DEF LoseList, At
  <2>3. call' = [call EXCEPT !.at = Following, !.todo = listed, !.missed = missed, !.clean = FALSE]
    BY <2>1
  <2> HIDE DEF missed
  <2> QED BY <2>2, <2>3, Lists
<1> QED BY <1>2, <1>3

LEMMA Strips ==
    ASSUME TypeInv, NEW a \in Agents, StripRecord(a)
    PROVE  /\ call' \in Call /\ Road(call') /\ call.op = "remove" /\ call'.op = "remove" /\ call'.p = call.p
           /\ call'.at = (IF rec[a].paused THEN "strip" ELSE "config") /\ call'.a = a
           /\ call'.todo = call.todo \ {a} /\ call'.did = call.did \cup {a} /\ call'.missed = call.missed
           /\ call'.complete = call.complete /\ call'.clean = call.clean
<1> DEFINE l == IF rec[a].paused THEN "strip" ELSE "config"
<1>1. call \in Call /\ Road(call) /\ call.at = "strip" /\ l \in {"strip", "config"}
  BY DEF TypeInv, TypeOK, StripRecord, At
<1>2. call.op = "remove"
  BY <1>1 DEF Road
<1>3. call' = [call EXCEPT !.todo = @ \ {a}, !.did = @ \cup {a}, !.a = a, !.at = l]
  BY DEF StripRecord
<1> HIDE DEF l
<1>4. /\ call' \in Call /\ call'.op = "remove" /\ call'.p = call.p /\ call'.a = a
      /\ call'.at = l /\ call'.todo = call.todo \ {a} /\ call'.did = call.did \cup {a} /\ call'.missed = call.missed
      /\ call'.complete = call.complete /\ call'.clean = call.clean
  BY <1>1, <1>2, <1>3 DEF Call, Labels
<1>5. Road(call')
  BY <1>1, <1>4 DEF Road
<1> QED BY <1>2, <1>4, <1>5 DEF l

\* What a step of a call does to the call: it goes on, or stops, or is one of those two.
LEMMA EveryStep ==
    ASSUME Steps
    PROVE  Forth \/ GoOn \/ Stop("died") \/ ListBound \/ LoseList \/ (\E a \in Agents : StripRecord(a))
BY DEF Steps, Fail, Die, Skip, FindInstance, WriteSecret, DeleteSecret, WriteRouterEnv, LoseRouterEnv, RemoveRouterEnv,
       RegenerateRouting, LoseRoutes, RestartRouter, BreakRouter, NoRouterEnv, RestartTelegramRouter,
       BreakTelegramRouter, RemoveRouter, SaveBinding, RegenerateConfig, RefreshAgent, BreakAgent, Reconcile,
       BreakReconcile, Stripped, Forth

LEMMA CallStays ==
    ASSUME TypeInv, Steps
    PROVE  call' \in Call /\ Road(call') /\ call'.op = call.op /\ call'.p = call.p
<1>1. ~Ready
  BY Working
<1>2. CASE Forth \/ GoOn \/ Stop("died")
  BY <1>1, <1>2, Proceeds, GoesOn, Dies DEF Onward, Same
<1>3. CASE ListBound \/ LoseList \/ (\E a \in Agents : StripRecord(a))
  BY <1>3, Listings, Strips
<1> QED BY <1>2, <1>3, EveryStep

\* A call that begins.
Fresh(op, p) ==
    /\ call' \in Call /\ Road(call')
    /\ call'.op = op /\ call'.p = p /\ call'.did = {} /\ call'.missed = {} /\ call'.res = "none"

LEMMA Begun ==
    ASSUME TypeInv, NEW op \in {"add", "remove", "bind", "unbind", "provision"}, NEW p \in Platforms,
           NEW a \in Agents \cup {Nobody}, NEW opt \in BOOLEAN, NEW first, Begin(op, p, a, opt, first),
           \/ op = "add" /\ first = "secret1"
           \/ op = "remove" /\ first \in {"instance", "rmrouter"}
           \/ op \in {"bind", "unbind"} /\ first = "save" /\ a \in Agents
           \/ op = "provision" /\ first = "done"
    PROVE  Fresh(op, p) /\ call'.at = first
<1>1. /\ call' \in Call /\ call'.op = op /\ call'.p = p /\ call'.did = {} /\ call'.missed = {} /\ call'.res = "none"
      /\ call'.at = first /\ call'.a = a
  BY DEF Begin, Call, Labels
<1>2. Road(call')
  BY <1>1 DEF Road
<1> QED BY <1>1, <1>2 DEF Fresh

\* The first steps.
LEMMA BeginsAt ==
    ASSUME TypeInv, Begins
    PROVE  /\ UNCHANGED <<prov, agents, disk, router, faults>>
           /\ \E p \in Platforms :
                 \/ Fresh("add", p) /\ call'.at = "secret1"
                 \/ Fresh("remove", p) /\ call'.at \in {"instance", "rmrouter"}
                 \/ \E op \in {"bind", "unbind"} :
                       Fresh(op, p) /\ call'.at = "save" /\ (op = "bind" => HasCredentials(p))
<1>1. UNCHANGED <<prov, agents, disk, router, faults>>
  BY DEF Begins, AddChannel, RemoveChannel, BindChannel, UnbindChannel
<1>2. ASSUME NEW p \in Platforms, NEW opt \in BOOLEAN, AddChannel(p, opt)
      PROVE  Fresh("add", p) /\ call'.at = "secret1"
  <2>1. Begin("add", p, Nobody, opt, "secret1")
    BY <1>2 DEF AddChannel, AddSteps
  <2> QED BY <2>1, Begun
<1>3. ASSUME NEW p \in Platforms, RemoveChannel(p)
      PROVE  Fresh("remove", p) /\ call'.at \in {"instance", "rmrouter"}
  <2> DEFINE first == RemoveSteps(p).begin
  <2>1. first \in {"instance", "rmrouter"} /\ Begin("remove", p, Nobody, FALSE, first)
    BY <1>3 DEF RemoveChannel, RemoveSteps, Located
  <2> HIDE DEF first
  <2> QED BY <2>1, Begun
<1>4. ASSUME NEW a \in Agents, NEW p \in Platforms, BindChannel(a, p)
      PROVE  Fresh("bind", p) /\ call'.at = "save" /\ HasCredentials(p)
  <2>1. Begin("bind", p, a, FALSE, "save") /\ HasCredentials(p)
    BY <1>4 DEF BindChannel, BindSteps
  <2> QED BY <2>1, Begun
<1>5. ASSUME NEW a \in Agents, NEW p \in Platforms, UnbindChannel(a, p)
      PROVE  Fresh("unbind", p) /\ call'.at = "save"
  <2>1. Begin("unbind", p, a, FALSE, "save")
    BY <1>5 DEF UnbindChannel, UnbindSteps
  <2> QED BY <2>1, Begun
<1> QED BY <1>1, <1>2, <1>3, <1>4, <1>5 DEF Begins

\* What routing.json is made to hold.
LEMMA RoutingPairs ==
    ASSUME TypeOK, NEW listed \in SUBSET Present
    PROVE  /\ RoutingOf(listed) \subseteq Agents \X Platforms
           /\ \A x : x \in RoutingOf(listed)
                        <=> \E a \in listed : ~rec[a].paused /\ \E p \in rec[a].binds : x = <<a, p>>
<1>1. \A a \in Agents : rec[a] \in Record
  BY DEF TypeOK
<1>2. \A x : x \in RoutingOf(listed)
                <=> \E a \in {b \in listed : ~rec[b].paused} : x \in {<<a, p>> : p \in rec[a].binds}
  BY DEF RoutingOf
<1>3. \A x : x \in RoutingOf(listed)
                <=> \E a \in listed : ~rec[a].paused /\ \E p \in rec[a].binds : x = <<a, p>>
  BY <1>2
<1> QED BY <1>1, <1>3 DEF Present, Record

\* What depends on the stored secrets alone.
LEMMA SameSecrets ==
    ASSUME UNCHANGED secrets
    PROVE  UNCHANGED <<Configured, RouterEnv>> /\ \A p : HasCredentials(p)' = HasCredentials(p)
BY DEF Configured, RouterEnv, HasCredentials

\* What the Slack router is started with.
LEMMA SlackRouterType ==
    ASSUME NEW variables \in SUBSET Variables, NEW table \in SUBSET (Agents \X Platforms)
    PROVE  /\ SlackRouter(variables, table) \in
                  [up : BOOLEAN, of : SUBSET Variables, table : SUBSET (Agents \X Platforms)]
           /\ SlackRouter(variables, table).up <=> {"slack", "app"} \subseteq variables
           /\ SlackRouter(variables, table).up => /\ SlackRouter(variables, table).of = variables
                                                 /\ SlackRouter(variables, table).table = table
BY DEF SlackRouter, Down

\* The places other than the call.
PlacesOK ==
    /\ prov \in Providers
    /\ rec \in [Agents -> Record]
    /\ secrets \in [Platforms -> SUBSET (1 .. 3)] /\ \A p \in Platforms : secrets[p] \subseteq Known(p)
    /\ env \in AtMostOne(SUBSET Variables)
    /\ routing \subseteq Agents \X Platforms
    /\ config \in [Agents -> SUBSET Platforms]
    /\ container \in [Agents -> AtMostOne(SUBSET Platforms)]
    /\ router \in [Routers -> [up : BOOLEAN, of : SUBSET Variables, table : SUBSET (Agents \X Platforms)]]
    /\ faults \in 0 .. MaxFaults

\* Provisioning writes a record, a route, a config and a container.
LEMMA ProvisionType ==
    ASSUME TypeInv, Provisions
    PROVE  PlacesOK' /\ call' \in Call /\ Road(call)' /\ call'.op = "provision" /\ call'.at = "done"
<1>1. PICK a \in Agents, rt \in Runtimes, paused \in BOOLEAN, binds \in {{}} \cup {{p} : p \in Platforms} :
          Provision(a, rt, paused, binds)
  BY DEF Provisions
<1>2. binds \in SUBSET Platforms /\ Saved(rt) \in Runtimes
  BY DEF Saved, Runtimes
<1>3. Fresh("provision", "slack") /\ call'.at = "done"
  BY <1>1, Begun DEF Provision, Platforms
<1>4. call' \in Call /\ Road(call)' /\ call'.op = "provision" /\ call'.at = "done"
  BY <1>1, <1>3 DEF Fresh, Road, Provision, Started
<1>5. rec' \in [Agents -> Record] /\ config' \in [Agents -> SUBSET Platforms]
  BY <1>1, <1>2 DEF Provision, TypeInv, TypeOK, Record
<1>6. container' \in [Agents -> AtMostOne(SUBSET Platforms)]
  <2> DEFINE x == IF paused THEN {} ELSE {binds \cap Configured}
  <2>1. x \in AtMostOne(SUBSET Platforms) /\ container' = [container EXCEPT ![a] = x]
    BY <1>1, <1>2 DEF Provision, AtMostOne, Configured
  <2> HIDE DEF x
  <2> QED BY <2>1 DEF TypeInv, TypeOK
<1>7. routing' \subseteq Agents \X Platforms
  BY <1>1, <1>2 DEF Provision, TypeInv, TypeOK
<1> QED BY <1>1, <1>4, <1>5, <1>6, <1>7 DEF Provision, PlacesOK, TypeInv, TypeOK

LEMMA FaultCount ==
    ASSUME TypeInv, Next
    PROVE  faults' \in 0 .. MaxFaults
<1>1. faults \in 0 .. MaxFaults /\ (faults' = faults \/ Disturb)
  BY DEF TypeInv, TypeOK, Next, AddChannel, RemoveChannel, BindChannel, UnbindChannel, Provision, Fail, Die, Skip,
         FindInstance, WriteSecret, DeleteSecret, WriteRouterEnv, LoseRouterEnv, RemoveRouterEnv,
         RegenerateRouting, LoseRoutes, RestartRouter, UnitRestarts, BreakRouter, NoRouterEnv, RestartTelegramRouter,
         BreakTelegramRouter, RemoveRouter, SaveBinding, RegenerateConfig, RefreshAgent, BreakAgent, Reconcile,
         BreakReconcile, ListBound, LoseList, Stripped, StripRecord
<1>2. faults' = faults \/ (faults < MaxFaults /\ faults' = faults + 1)
  BY <1>1 DEF Disturb
<1> QED BY <1>1, <1>2, FaultsAssumption

\* What is written is of its type.
LEMMA StepsType ==
    ASSUME TypeInv, Steps
    PROVE  PlacesOK'
<1> DEFINE Router == [up : BOOLEAN, of : SUBSET Variables, table : SUBSET (Agents \X Platforms)]
<1>1. PlacesOK /\ call \in Call /\ Road(call) /\ UNCHANGED prov
  BY Working DEF TypeInv, TypeOK, PlacesOK
<1>2. faults' \in 0 .. MaxFaults
  BY FaultCount DEF Next, Steps
<1>3. /\ RoutingOf(Present) \subseteq Agents \X Platforms /\ RouterEnv \subseteq Variables
      /\ UNION env \subseteq Variables /\ UNION env \ {"telegram"} \subseteq Variables
      /\ \A listed \in SUBSET Present : RoutingOf(listed) \subseteq Agents \X Platforms
  BY <1>1, RoutingPairs DEF TypeInv, Configured, RouterEnv, Variables, PlacesOK, AtMostOne
<1>4. Down \in Router
  BY DEF Down
<1>5. CASE Fail \/ Die \/ Skip \/ FindInstance \/ ListBound \/ LoseList \/ Stripped
  <2>1. UNCHANGED <<agents, disk, router>>
    BY <1>5 DEF Fail, Die, Skip, FindInstance, ListBound, LoseList, Stripped
  <2> QED BY <1>1, <1>2, <2>1 DEF PlacesOK, agents, disk
<1>6. ASSUME NEW n \in 1 .. 3, WriteSecret(n) \/ DeleteSecret(n) PROVE PlacesOK'
  <2>1. UNCHANGED <<agents, env, routing, router>>
    BY <1>6 DEF WriteSecret, DeleteSecret
  <2>2. n \in Known(call.p) /\ call.p \in Platforms
    BY <1>1, <1>6, SecretSteps DEF Road, Required, Known, Call
  <2>3. secrets' = [secrets EXCEPT ![call.p] = @ \cup {n}] \/ secrets' = [secrets EXCEPT ![call.p] = @ \ {n}]
    BY <1>6 DEF WriteSecret, DeleteSecret
  <2>4. /\ secrets' \in [Platforms -> SUBSET (1 .. 3)]
        /\ \A p \in Platforms : secrets'[p] \subseteq Known(p)
    BY <1>1, <2>2, <2>3 DEF PlacesOK
  <2> QED BY <1>1, <1>2, <2>1, <2>4 DEF PlacesOK, agents
<1>7. CASE WriteRouterEnv \/ LoseRouterEnv \/ RemoveRouterEnv
  <2>1. UNCHANGED <<agents, secrets, routing, router>> /\ env' \in {{}, {RouterEnv}}
    BY <1>7 DEF WriteRouterEnv, LoseRouterEnv, RemoveRouterEnv
  <2>2. env' \in AtMostOne(SUBSET Variables)
    BY <1>3, <2>1 DEF AtMostOne
  <2> QED BY <1>1, <1>2, <2>1, <2>2 DEF PlacesOK, agents
<1>8. CASE RegenerateRouting \/ LoseRoutes
  <2>1. /\ UNCHANGED <<agents, secrets, env, router>>
        /\ \E listed \in SUBSET Present : routing' = RoutingOf(listed)
    BY <1>8 DEF RegenerateRouting, LoseRoutes
  <2> QED BY <1>1, <1>2, <1>3, <2>1 DEF PlacesOK, agents
<1>9. CASE RestartRouter \/ BreakRouter \/ NoRouterEnv \/ RestartTelegramRouter \/ BreakTelegramRouter \/ RemoveRouter
  <2>1. UNCHANGED <<agents, disk>>
    BY <1>9 DEF RestartRouter, BreakRouter, NoRouterEnv, RestartTelegramRouter, BreakTelegramRouter, RemoveRouter
  <2>2. \/ UNCHANGED router
        \/ \E r \in Routers, x \in Router : router' = [router EXCEPT ![r] = x]
    <3>1. SlackRouter(UNION env, routing) \in Router
      BY <1>1, <1>3, SlackRouterType DEF PlacesOK
    <3>2. [up |-> TRUE, of |-> {"telegram"}, table |-> {}] \in Router
      BY DEF Platforms, Variables
    <3>3. RouterOf(call.p) \in Routers /\ {"slack", "telegram"} \subseteq Routers
      BY <1>1 DEF RouterOf, Call, Routers, Platforms
    <3> QED BY <1>4, <1>9, <3>1, <3>2, <3>3
          DEF RestartRouter, BreakRouter, NoRouterEnv, RestartTelegramRouter, BreakTelegramRouter, RemoveRouter
  <2>3. router' \in [Routers -> Router]
    BY <1>1, <2>2 DEF PlacesOK
  <2> QED BY <1>1, <1>2, <2>1, <2>3 DEF PlacesOK, agents, disk
<1>10. CASE SaveBinding \/ \E a \in Agents : StripRecord(a)
  <2>1. PICK a \in Agents, binds \in SUBSET Platforms : rec' = [rec EXCEPT ![a].binds = binds]
    <3>1. CASE SaveBinding
      <4>1. call.a \in Agents /\ call.p \in Platforms /\ rec[call.a].binds \subseteq Platforms
        BY <1>1, <3>1 DEF SaveBinding, At, Road, Call, PlacesOK, Record
      <4>2. /\ rec[call.a].binds \cup {call.p} \in SUBSET Platforms
            /\ rec[call.a].binds \ {call.p} \in SUBSET Platforms
        BY <4>1
      <4> QED BY <3>1, <4>1, <4>2 DEF SaveBinding
    <3>2. CASE \E a \in Agents : StripRecord(a)
      <4>1. PICK a \in Agents : StripRecord(a)
        BY <3>2
      <4>2. rec[a].binds \ {call.p} \in SUBSET Platforms
        BY <1>1, <4>1 DEF PlacesOK, Record
      <4> QED BY <4>1, <4>2 DEF StripRecord
    <3> QED BY <1>10, <3>1, <3>2
  <2>2. rec' \in [Agents -> Record]
    BY <1>1, <2>1 DEF PlacesOK, Record
  <2>3. UNCHANGED <<config, container, disk, router>>
    BY <1>10 DEF SaveBinding, StripRecord
  <2> QED BY <1>1, <1>2, <2>2, <2>3 DEF PlacesOK, disk
<1>11. CASE RegenerateConfig \/ RefreshAgent \/ BreakAgent
  <2>1. call.a \in Agents /\ Generated(call.a) \in SUBSET Platforms
    BY <1>1, <1>11 DEF RegenerateConfig, RefreshAgent, BreakAgent, At, Road, PlacesOK, Generated, Record
  <2>2. /\ config' \in {config, [config EXCEPT ![call.a] = Generated(call.a)]}
        /\ container' \in {container, [container EXCEPT ![call.a] = {}],
                          [container EXCEPT ![call.a] = {Generated(call.a)}]}
        /\ UNCHANGED <<rec, disk, router>>
    BY <1>11 DEF RegenerateConfig, RefreshAgent, BreakAgent
  <2>3. config' \in [Agents -> SUBSET Platforms]
    BY <1>1, <2>1, <2>2 DEF PlacesOK
  <2>4. container' \in [Agents -> AtMostOne(SUBSET Platforms)]
    <3>1. {} \in AtMostOne(SUBSET Platforms) /\ {Generated(call.a)} \in AtMostOne(SUBSET Platforms)
      BY <2>1 DEF AtMostOne
    <3> QED BY <1>1, <2>1, <2>2, <3>1 DEF PlacesOK
  <2> QED BY <1>1, <1>2, <2>2, <2>3, <2>4 DEF PlacesOK, disk
<1>12. CASE Reconcile \/ BreakReconcile
  <2>1. UNCHANGED <<agents, secrets, env>> /\ routing' = RoutingOf(Present)
    BY <1>12 DEF Reconcile, BreakReconcile
  <2>2. SlackRouter(UNION env, RoutingOf(Present)) \in Router
    BY <1>3, SlackRouterType
  <2>3. router' = router \/ \E x \in Router : router' = [router EXCEPT !["slack"] = x]
    BY <1>4, <1>12, <2>2 DEF Reconcile, BreakReconcile
  <2>4. router' \in [Routers -> Router]
    BY <1>1, <2>3 DEF PlacesOK
  <2> QED BY <1>1, <1>2, <1>3, <2>1, <2>4 DEF PlacesOK, agents
<1> QED BY <1>5, <1>6, <1>7, <1>8, <1>9, <1>10, <1>11, <1>12 DEF Steps

\* AWS's unit starts the router from what is on the disk, and from nothing else.
LEMMA UnitStarts ==
    ASSUME TypeInv, UnitRestarts
    PROVE  /\ PlacesOK' /\ UNCHANGED <<prov, rec, config, container, secrets, env, routing, call>>
           /\ prov = "aws" /\ env # {} /\ ~router["slack"].up
           /\ router'["slack"].up <=> {"slack", "app"} \subseteq UNION env
           /\ router'["slack"].up => router'["slack"].table = routing
<1> DEFINE x == SlackRouter((UNION env) \ {"telegram"}, routing)
           Router == [up : BOOLEAN, of : SUBSET Variables, table : SUBSET (Agents \X Platforms)]
           u == UNION env
<1>1. /\ u \ {"telegram"} \in SUBSET Variables /\ routing \in SUBSET (Agents \X Platforms)
      /\ PlacesOK
  <2>1. PlacesOK
    BY DEF TypeInv, TypeOK, PlacesOK
  <2>2. u \subseteq Variables
    BY <2>1 DEF PlacesOK, AtMostOne
  <2> QED BY <2>1, <2>2 DEF PlacesOK
<1>2. x \in Router /\ (x.up <=> {"slack", "app"} \subseteq u \ {"telegram"}) /\ (x.up => x.table = routing)
  BY <1>1, SlackRouterType
<1>3. /\ router' = [router EXCEPT !["slack"] = x] /\ UNCHANGED <<prov, agents, disk, call, faults>>
      /\ prov = "aws" /\ env # {} /\ ~router["slack"].up
  BY DEF UnitRestarts
<1> HIDE DEF x
<1>4. router' \in [Routers -> Router] /\ router'["slack"] = x
  <2>1. router \in [Routers -> Router] /\ "slack" \in Routers
    BY <1>1 DEF PlacesOK, Routers, Platforms
  <2>2. x \in Router
    BY <1>2
  <2> HIDE DEF Router
  <2> QED BY <1>3, <2>1, <2>2
<1>5. {"slack", "app"} \subseteq u \ {"telegram"} <=> {"slack", "app"} \subseteq u
  <2> HIDE DEF u
  <2>1. "slack" # "telegram" /\ "app" # "telegram"
    OBVIOUS
  <2> QED BY <2>1
<1>6. PlacesOK'
  BY <1>1, <1>3, <1>4 DEF PlacesOK, agents, disk
<1> QED BY <1>2, <1>3, <1>4, <1>5, <1>6 DEF agents, disk

LEMMA TypeInvStep ==
    ASSUME TypeInv, [Next]_vars
    PROVE  TypeInv'
<1>1. ASSUME PlacesOK', call' \in Call, Road(call)' PROVE TypeInv'
  BY <1>1 DEF TypeInv, TypeOK, PlacesOK
<1>2. ASSUME UNCHANGED prov, Road(call') PROVE Road(call)'
  BY <1>2 DEF Road, Started
<1>3. CASE Begins
  <2>1. PlacesOK'
    BY <1>3, BeginsAt DEF TypeInv, TypeOK, PlacesOK, agents, disk
  <2> QED BY <1>1, <1>2, <1>3, <2>1, BeginsAt DEF Fresh
<1>4. CASE Provisions
  BY <1>1, <1>4, ProvisionType
<1>5. CASE Steps
  BY <1>1, <1>2, <1>5, Working, StepsType, CallStays
<1>6. CASE UNCHANGED vars
  BY <1>6 DEF vars, TypeInv, TypeOK, Road, Started
<1>7. CASE UnitRestarts
  <2>1. PlacesOK' /\ UNCHANGED <<prov, call>> /\ call \in Call /\ Road(call)
    BY <1>7, UnitStarts DEF TypeInv, TypeOK
  <2> QED BY <1>1, <1>2, <2>1
<1> QED BY <1>3, <1>4, <1>5, <1>6, <1>7, NextIs

LEMMA TypeInvInit == Init => TypeInv
<1>1. Init => PlacesOK
  <2>1. {} \in AtMostOne(SUBSET Variables) /\ {{}} \in AtMostOne(SUBSET Variables)
    BY DEF AtMostOne
  <2>2. Init => env \in AtMostOne(SUBSET Variables)
    BY <2>1 DEF Init
  <2>3. Init => rec \in [Agents -> Record]
    BY DEF Init, NoAgent, Record, Runtimes
  <2>4. Init => container \in [Agents -> AtMostOne(SUBSET Platforms)]
    BY DEF Init, AtMostOne
  <2>5. Init => router \in [Routers -> [up : BOOLEAN, of : SUBSET Variables, table : SUBSET (Agents \X Platforms)]]
    BY DEF Init, Down
  <2>6. Init => /\ secrets \in [Platforms -> SUBSET (1 .. 3)]
                /\ \A p \in Platforms : secrets[p] \subseteq Known(p)
    BY DEF Init
  <2>7. Init => routing \subseteq Agents \X Platforms /\ config \in [Agents -> SUBSET Platforms]
    BY DEF Init
  <2>8. Init => prov \in Providers /\ faults \in 0 .. MaxFaults
    BY FaultsAssumption DEF Init
  <2> QED BY <2>2, <2>3, <2>4, <2>5, <2>6, <2>7, <2>8 DEF PlacesOK
<1>2. Init => call \in Call /\ Road(call)
  BY DEF Init, Idle, Call, Labels, Platforms, Road
<1> QED BY <1>1, <1>2 DEF TypeInv, TypeOK, PlacesOK

\* Every place holds a value of its type: router.env at most one content, a platform at most the
\* secrets it needs, a call a step of its method.
THEOREM TypeCorrect == Spec => []TypeOK
<1>1. TypeInv => TypeOK
  BY DEF TypeInv
<1> QED BY <1>1, TypeInvInit, TypeInvStep, PTL DEF Spec

--------------------------------------------------------------------------------
(* AddChannel. *)

\* No failure of a step of AddChannel is passed over.
LEMMA AddStops ==
    ASSUME TypeInv, ~Ready, call.op = "add", GoOn \/ Stop("died")
    PROVE  call'.at = "done" /\ call'.res # "ok"
BY GoesOn, Dies DEF Warned, Collected, Halted

LEMMA AddNext ==
    ASSUME TypeInv, call.op = "add", Forth, ~Ready
    PROVE  /\ call'.op = "add" /\ call'.p = call.p /\ call'.at = AddSteps(call.p)[call.at]
           /\ call.p \in Platforms /\ prov \in {"local", "remote", "aws"}
           /\ call.at \in {"secret1", "secret2", "secret3", "instance", "env", "routing", "router", "telegram"}
<1>1. call \in Call /\ Road(call) /\ prov \in {"local", "remote", "aws"}
  BY ProvidersAssumption DEF TypeInv, TypeOK
<1>2. Following = AddSteps(call.p)[call.at]
  BY DEF Following
<1>3. call'.at = Following /\ call'.op = call.op /\ call'.p = call.p
  BY Proceeds DEF Onward, Same
<1> QED BY <1>1, <1>2, <1>3 DEF Call, Road, Ready, At

LEMMA AddInvStep ==
    ASSUME TypeInv, AddInv, [Next]_vars
    PROVE  AddInv'
<1>1. ASSUME call'.op = "add", call'.at = "done" /\ call'.res # "ok" PROVE AddInv'
  BY <1>1 DEF AddInv, Adding, Past, Ready, At
<1>2. CASE Begins
  <2>1. call'.op = "add" => call'.at = "secret1"
    BY <1>2, BeginsAt DEF Fresh
  <2> QED BY <2>1 DEF AddInv, Adding, Past, Ready, At
<1>3. CASE Provisions
  BY <1>3, ProvisionType DEF AddInv
<1>4. CASE UNCHANGED vars
  <2>1. UNCHANGED <<prov, secrets, env, router, call>>
    BY <1>4 DEF vars
  <2> QED BY <2>1, SameSecrets DEF AddInv, Adding, Past, Ready, At, RouterOf
<1>5. CASE UnitRestarts
  <2>1. SUFFICES ASSUME call.op = "add" PROVE Adding'
    BY <1>5, UnitStarts DEF AddInv
  <2>2. /\ UNCHANGED <<prov, secrets, env, call>> /\ prov = "aws" /\ ~router["slack"].up /\ Adding
        /\ router'["slack"].up <=> {"slack", "app"} \subseteq UNION env
    BY <1>5, <2>1, UnitStarts DEF AddInv
  <2>3. Past({})' => router'["slack"].up <=> {"slack", "app"} \subseteq RouterEnv
    <3>1. SUFFICES ASSUME Past({}) PROVE ~router'["slack"].up /\ ~({"slack", "app"} \subseteq RouterEnv)
      BY <2>2 DEF Past, Ready, At
    <3>2. env = {RouterEnv} /\ ~({"slack", "app"} \subseteq RouterEnv)
      BY <2>2, <3>1 DEF Adding, Past, RouterOf
    <3> QED BY <2>2, <3>2
  <2>4. RouterOf(call.p)' = "slack"
    BY <2>2 DEF RouterOf
  <2>5. prov' = "aws" /\ RouterEnv' = RouterEnv /\ HasCredentials(call.p)' = HasCredentials(call.p)
    BY <2>2, SameSecrets
  <2> QED BY <2>2, <2>3, <2>4, <2>5 DEF Adding, Past, Ready, At
<1>6. CASE Steps
  <2>1. SUFFICES ASSUME call.op = "add" PROVE AddInv'
    BY <1>6, CallStays DEF AddInv
  <2>2. /\ ~Ready /\ Road(call) /\ call \in Call /\ Adding /\ secrets \in [Platforms -> SUBSET (1 .. 3)]
        /\ \A p \in Platforms : secrets[p] \subseteq Known(p)
        /\ UNCHANGED prov
    BY <1>6, <2>1, Working DEF TypeInv, TypeOK, AddInv
  <2>3. CASE GoOn \/ Stop("died")
    BY <1>1, <1>6, <2>1, <2>2, <2>3, AddStops, CallStays
  <2>4. ASSUME Forth
        PROVE  /\ call'.op = "add" /\ call'.p = call.p /\ call'.at = AddSteps(call.p)[call.at]
               /\ call.p \in Platforms /\ prov \in {"local", "remote", "aws"}
    BY <2>1, <2>2, <2>4, AddNext
  <2>5. ASSUME WriteSecret(1) PROVE AddInv'
    <3>1. call.at = "secret1" /\ Forth /\ secrets' = [secrets EXCEPT ![call.p] = @ \cup {1}]
      BY <2>5 DEF WriteSecret, At, Forth
    <3>2. call'.at = Second(call.p, "secret2", Located("env")) /\ call'.p = call.p /\ call.p \in Platforms
      BY <2>4, <3>1 DEF AddSteps
    <3>3. 1 \in secrets'[call.p]
      BY <2>2, <3>1, <3>2
    <3>4. call'.at \in {"secret2", "instance", "env"} /\ (call'.at # "secret2" => 2 \notin Required(call.p))
      BY <3>2 DEF Second, Located
    <3>5. call'.at # "secret2" => Required(call.p) \subseteq secrets'[call.p]
      BY <3>3, <3>4 DEF Required
    <3> QED BY <3>2, <3>3, <3>4, <3>5 DEF AddInv, Adding, Past, Ready, At, HasCredentials
  <2>6. ASSUME WriteSecret(2) PROVE AddInv'
    <3>1. call.at = "secret2" /\ Forth /\ secrets' = [secrets EXCEPT ![call.p] = @ \cup {2}]
      BY <2>6 DEF WriteSecret, At, Forth
    <3>2. call'.at \in {"secret3", "instance", "env"} /\ call'.p = call.p /\ call.p \in Platforms
      BY <2>4, <3>1 DEF AddSteps, Located, Third
    <3>3. 1 \in secrets[call.p]
      BY <2>2, <3>1 DEF Adding
    <3>4. Required(call.p) \subseteq secrets'[call.p]
      BY <2>2, <3>1, <3>2, <3>3 DEF Required
    <3> QED BY <3>2, <3>4 DEF AddInv, Adding, Past, Ready, At, HasCredentials
  <2>7. ASSUME WriteSecret(3) PROVE AddInv'
    <3>1. call.at = "secret3" /\ Forth /\ secrets' = [secrets EXCEPT ![call.p] = @ \cup {3}]
      BY <2>7 DEF WriteSecret, At, Forth
    <3>2. call'.at \in {"instance", "env"} /\ call'.p = call.p /\ call.p \in Platforms
      BY <2>4, <3>1 DEF AddSteps, Located
    <3>3. Required(call.p) \subseteq secrets[call.p]
      BY <2>2, <3>1 DEF Adding, Past, HasCredentials
    <3>4. Required(call.p) \subseteq secrets'[call.p]
      BY <2>2, <3>1, <3>2, <3>3
    <3> QED BY <3>2, <3>4 DEF AddInv, Adding, Past, Ready, At, HasCredentials
  <2>8. ASSUME FindInstance PROVE AddInv'
    <3>1. call.at = "instance" /\ call'.at = "env" /\ call'.p = call.p /\ UNCHANGED secrets
      BY <2>4, <2>8 DEF FindInstance, At, AddSteps, disk, Forth
    <3> QED BY <2>2, <3>1 DEF AddInv, Adding, Past, Ready, At, HasCredentials
  <2>9. ASSUME WriteRouterEnv PROVE AddInv'
    <3>1. /\ call.at = "env" /\ call'.at \in {"routing", "router", "telegram"} /\ call'.p = call.p
          /\ UNCHANGED secrets /\ env' = {RouterEnv}
      BY <2>4, <2>9 DEF WriteRouterEnv, At, AddSteps, Started, Forth
    <3>2. HasCredentials(call.p) /\ RouterEnv' = RouterEnv /\ HasCredentials(call.p)' = HasCredentials(call.p)
      BY <2>2, <3>1, SameSecrets DEF Adding, Past
    <3>3. env' = {RouterEnv'}
      BY <3>1, <3>2
    <3> QED BY <3>1, <3>2, <3>3 DEF AddInv, Adding, Past, Ready, At
  <2>10. ASSUME RegenerateRouting PROVE AddInv'
    <3>1. call.at = "routing" /\ call'.at = "router" /\ call'.p = call.p /\ UNCHANGED <<secrets, env>>
      BY <2>4, <2>10 DEF RegenerateRouting, At, AddSteps, Forth
    <3>2. HasCredentials(call.p) /\ env = {RouterEnv}
      BY <2>2, <3>1 DEF Adding, Past
    <3> QED BY <3>1, <3>2, SameSecrets DEF AddInv, Adding, Past, Ready, At
  <2>11. ASSUME RestartRouter PROVE AddInv'
    <3>1. /\ call.at = "router" /\ call'.at = "done" /\ call'.p = call.p /\ UNCHANGED <<secrets, env>>
          /\ router' = [router EXCEPT !["slack"] = SlackRouter(UNION env, routing)]
      BY <2>4, <2>11 DEF RestartRouter, At, AddSteps, disk, Forth
    <3>2. /\ RouterOf(call.p) = "slack" /\ "slack" \in Routers
          /\ router \in [Routers -> [up : BOOLEAN, of : SUBSET Variables, table : SUBSET (Agents \X Platforms)]]
      BY <2>1, <2>2, <3>1 DEF Road, Started, RouterOf, Call, Routers, Platforms, TypeInv, TypeOK
    <3>3. HasCredentials(call.p) /\ env = {RouterEnv}
      BY <2>2, <3>1 DEF Adding, Past
    <3>4. UNION env = RouterEnv /\ RouterEnv \in SUBSET Variables /\ routing \in SUBSET (Agents \X Platforms)
      BY <3>3 DEF TypeInv, TypeOK, AtMostOne
    <3>5. router'["slack"] = SlackRouter(RouterEnv, routing)
      BY <3>1, <3>2, <3>4
    <3>6. /\ router'["slack"].up <=> {"slack", "app"} \subseteq RouterEnv
          /\ router'["slack"].up => router'["slack"].of = RouterEnv
      BY <3>4, <3>5, SlackRouterType
    <3>7. RouterOf(call.p)' = "slack"
      BY <2>2, <3>1, <3>2 DEF RouterOf
    <3>8. RouterEnv' = RouterEnv /\ HasCredentials(call.p)' = HasCredentials(call.p)
      BY <3>1, SameSecrets
    <3> QED BY <3>1, <3>3, <3>6, <3>7, <3>8 DEF AddInv, Adding, Past, Ready, At
  <2>12. ASSUME NoRouterEnv PROVE AddInv'
    <3>1. call.at = "router" /\ env = {}
      BY <2>12 DEF NoRouterEnv, At
    <3> QED BY <2>2, <3>1 DEF Adding, Past
  <2>13. ASSUME RestartTelegramRouter \/ (Skip /\ call.at = "telegram") PROVE AddInv'
    <3>1. call.at = "telegram" /\ call'.at = "done" /\ call'.p = call.p /\ UNCHANGED <<secrets, env>>
      <4>1. call.at = "telegram" /\ Forth /\ UNCHANGED <<secrets, env>>
        <5>1. CASE RestartTelegramRouter
          BY <5>1 DEF RestartTelegramRouter, At, disk, Forth
        <5>2. CASE Skip /\ call.at = "telegram"
          BY <5>2 DEF Skip, disk, Forth
        <5> QED BY <2>13, <5>1, <5>2
      <4> QED BY <2>4, <4>1 DEF AddSteps
    <3>2. /\ call.p = "telegram" /\ prov = "local" /\ "telegram" \in Routers
          /\ router \in [Routers -> [up : BOOLEAN, of : SUBSET Variables, table : SUBSET (Agents \X Platforms)]]
      BY <2>1, <2>2, <3>1 DEF Road, Started, Routers, Platforms, TypeInv, TypeOK
    <3>3. HasCredentials(call.p) /\ env = {RouterEnv}
      BY <2>2, <3>1 DEF Adding, Past
    <3>4. RestartTelegramRouter => router'["telegram"].up
      BY <3>2, <3>3 DEF RestartTelegramRouter
    <3>5. Skip => ~call'.clean
      BY <2>2, Advanced DEF Skip, TypeInv, TypeOK, Call
    <3>6. RouterOf(call.p)' = "telegram"
      BY <2>2, <3>1, <3>2 DEF RouterOf
    <3>7. RouterEnv' = RouterEnv /\ HasCredentials(call.p)' = HasCredentials(call.p)
      BY <3>1, SameSecrets
    <3> QED BY <2>13, <3>1, <3>3, <3>4, <3>5, <3>6, <3>7 DEF AddInv, Adding, Past, Ready, At
  <2>14. ASSUME \/ Fail \/ Die \/ LoseRouterEnv \/ BreakRouter \/ BreakTelegramRouter
         PROVE  AddInv'
    BY <2>3, <2>14 DEF Fail, Die, LoseRouterEnv, BreakRouter, BreakTelegramRouter
  <2>15. ASSUME \/ RemoveRouterEnv \/ RemoveRouter \/ SaveBinding \/ RegenerateConfig \/ RefreshAgent \/ BreakAgent
                \/ Reconcile \/ BreakReconcile \/ ListBound \/ LoseList \/ Stripped \/ \E a \in Agents : StripRecord(a)
                \/ LoseRoutes \/ (Skip /\ call.at # "telegram")
         PROVE  AddInv'
    BY <2>1, <2>2, <2>15
       DEF Road, RemoveRouterEnv, RemoveRouter, SaveBinding, RegenerateConfig, RefreshAgent, BreakAgent, Reconcile,
           BreakReconcile, ListBound, LoseList, Stripped, StripRecord, LoseRoutes, Skip, Unnoticed, At
  <2>16. ASSUME NEW n \in 1 .. 3, DeleteSecret(n) PROVE AddInv'
    BY <2>1, <2>2, <2>16, SecretSteps DEF Road
  <2>17. ASSUME NEW n \in 1 .. 3, WriteSecret(n) PROVE AddInv'
    <3>1. n = 1 \/ n = 2 \/ n = 3
      OBVIOUS
    <3> QED BY <2>5, <2>6, <2>7, <2>17, <3>1
  <2> QED
    BY <1>6, <2>8, <2>9, <2>10, <2>11, <2>12, <2>13, <2>14, <2>15, <2>16, <2>17 DEF Steps
<1> QED BY <1>2, <1>3, <1>4, <1>5, <1>6, NextIs

\* AddChannel that returns nil has stored the secrets and written router.env with what is stored, whatever earlier
\* calls that failed or died left half done; the Slack router it started runs with that exactly when Slack has its
\* credentials and app token, and the local Telegram router runs unless its secrets could not be read back.
THEOREM AddingRepairs == Spec => []AddRepairs
<1>1. Init => AddInv
  BY DEF Init, AddInv, Idle
<1>2. AddInv => AddRepairs
  <2>1. ASSUME AddInv, Returned("add") PROVE HasCredentials(call.p) /\ env = {RouterEnv}
    BY <2>1 DEF AddInv, Adding, Past, Returned
  <2> QED BY <2>1 DEF AddInv, Adding, Past, Returned, AddRepairs
<1> QED BY <1>1, <1>2, TypeInvInit, TypeInvStep, AddInvStep, PTL DEF Spec
--------------------------------------------------------------------------------
(* BindChannel and UnbindChannel. *)

\* A step after which no step has failed is one that succeeded.
LEMMA CleanProceeds ==
    ASSUME TypeInv, ~Ready, Forth \/ GoOn \/ Stop("died"), call'.clean
    PROVE  Proceed /\ call.clean
BY GoesOn, Dies, Proceeds

\* The steps of the two methods, as far as BindInv tells them apart.
LEMMA BindNext ==
    ASSUME TypeInv, ~Ready, call.op \in {"bind", "unbind"}, Proceed
    PROVE  /\ call'.op = call.op /\ call'.p = call.p /\ call'.a = call.a /\ call'.a \in Agents
           /\ call.at = "save" => call'.at \in {"instance", "config"}
           /\ call.at = "instance" => call'.at = "config"
           /\ call.at = "config" => call'.at = "routing"
           /\ call.at = "routing" => \/ call'.at = "router" /\ (Refreshes => rec[call.a].paused)
                                     \/ call'.at = "refresh" /\ Refreshes
           /\ call.at = "router" => \/ call'.at = "telegram" /\ Refreshes
                                    \/ call'.at = "refresh" /\ ~Refreshes
                                    \/ call'.at = "done" /\ ~Refreshes /\ rec[call.a].paused
           /\ call.at = "refresh" => \/ call'.at = "router" /\ Refreshes
                                     \/ call'.at \in {"reconcile", "done"} /\ ~Refreshes
           /\ call.at = "telegram" => call'.at = "done" /\ Refreshes
           /\ call.at = "reconcile" => call'.at = "done" /\ ~Refreshes
<1>1. Road(call) /\ prov \in {"local", "remote", "aws"}
  BY ProvidersAssumption DEF TypeInv, TypeOK
<1>2. call'.at = Following /\ call'.op = call.op /\ call'.p = call.p /\ call'.a = call.a /\ call.a \in Agents
  BY <1>1, Proceeds DEF Onward, Same, Road, Forth
<1>3. CASE call.op = "bind"
  <2>1. Following = BindSteps(call.a)[call.at]
    BY <1>3 DEF Following
  <2>2. call.at \in {"telegram"} => prov = "local"
    BY <1>1, <1>3 DEF Road
  <2>3. call.at = "reconcile" => prov = "aws"
    BY <1>1 DEF Road
  <2> QED BY <1>1, <1>2, <1>3, <2>1, <2>2, <2>3 DEF BindSteps, Located, Refreshed, Refreshes
<1>4. CASE call.op = "unbind"
  <2>1. Following = UnbindSteps(call.a)[call.at]
    BY <1>4 DEF Following
  <2>2. call.at # "telegram"
    BY <1>1, <1>4 DEF Road
  <2> QED BY <1>1, <1>2, <1>4, <2>1, <2>2 DEF UnbindSteps, Located, Refreshed, Refreshes
<1> QED BY <1>3, <1>4

LEMMA BindInvStep ==
    ASSUME TypeInv, BindInv, [Next]_vars
    PROVE  BindInv'
<1>1. ASSUME UNCHANGED rec PROVE RoutingOf(Present)' = RoutingOf(Present)
  BY <1>1 DEF RoutingOf, Present
<1>2. CASE Begins
  <2>1. /\ call'.op \in {"bind", "unbind"} => call'.at = "save"
        /\ call'.op = "bind" => HasCredentials(call'.p)
        /\ UNCHANGED secrets
    BY <1>2, BeginsAt DEF Fresh, disk
  <2>2. call'.op = "bind" => HasCredentials(call.p)'
    BY <2>1 DEF HasCredentials
  <2> QED BY <2>1, <2>2 DEF BindInv, Binding, Past, Ready, At
<1>3. CASE Provisions
  BY <1>3, ProvisionType DEF BindInv
<1>5. CASE UNCHANGED vars \/ UnitRestarts
  <2>1. UNCHANGED <<prov, rec, config, container, secrets, env, routing, call>>
    BY <1>5, UnitStarts DEF vars
  <2>2. (router["slack"].up /\ env # {} => router["slack"].table = routing)
        => (router'["slack"].up /\ env' # {} => router'["slack"].table = routing')
    BY <1>5, <2>1, UnitStarts DEF vars
  <2>3. Generated(call.a)' = Generated(call.a)
    BY <2>1, SameSecrets DEF Generated
  <2>4. HasCredentials(call.p)' = HasCredentials(call.p)
    BY <2>1 DEF HasCredentials
  <2> QED BY <1>1, <2>1, <2>2, <2>3, <2>4 DEF BindInv, Binding, Past, Ready, At, Refreshes
<1>6. CASE Steps
  <2>1. SUFFICES ASSUME call.op \in {"bind", "unbind"}, call'.clean PROVE BindInv'
    BY <1>6, CallStays DEF BindInv
  <2>2. /\ ~Ready /\ Road(call) /\ call \in Call /\ UNCHANGED prov /\ PlacesOK
    BY <1>6, Working DEF TypeInv, TypeOK, PlacesOK
  <2>3. ~ListBound /\ ~LoseList /\ \A a \in Agents : ~StripRecord(a)
    BY <2>1, Listings, Strips
  <2>4. Proceed /\ call.clean
    BY <1>6, <2>1, <2>2, <2>3, EveryStep, CleanProceeds
  <2>5. Binding /\ ~Stop("died") /\ ~GoOn /\ ~Advance(FALSE, call.complete)
    BY <2>1, <2>2, <2>4, GoesOn, Dies, Advanced DEF BindInv, TypeInv, TypeOK, Call
  <2>6. Refreshes' = Refreshes /\ call'.a = call.a /\ call.a \in Agents /\ call'.op = call.op /\ call'.p = call.p
    BY <2>1, <2>2, <2>4, BindNext DEF Refreshes
  <2>20. UNCHANGED secrets
    BY <1>6, <2>1, <2>2, SecretSteps, SecretsMove DEF Road
  <2>21. ASSUME UNCHANGED rec
         PROVE  /\ Generated(call.a)' = Generated(call.a) /\ RoutingOf(Present)' = RoutingOf(Present)
                /\ call.op = "bind" /\ call.at # "save"
                      => HasCredentials(call.p)' /\ call'.p \in rec'[call'.a].binds
    <3>1. Generated(call.a)' = Generated(call.a)
      BY <2>6, <2>20, <2>21, SameSecrets DEF Generated
    <3>2. HasCredentials(call.p)' = HasCredentials(call.p)
      BY <2>6, <2>20 DEF HasCredentials
    <3> QED BY <1>1, <2>5, <2>6, <2>21, <3>1, <3>2 DEF Binding
  <2>8. CASE SaveBinding \/ FindInstance
    <3>1. call.at \in {"save", "instance"}
      BY <2>8 DEF SaveBinding, FindInstance, At
    <3>2. call'.at \in {"instance", "config"}
      BY <2>1, <2>2, <2>4, <3>1, BindNext
    <3>3. HasCredentials(call.p)' = HasCredentials(call.p)
      BY <2>6, <2>20 DEF HasCredentials
    <3>4. call.op = "bind" => HasCredentials(call.p)' /\ call'.p \in rec'[call'.a].binds
      <4>1. CASE SaveBinding
        <5>1. rec' = [rec EXCEPT ![call.a].binds = IF call.op = "bind" THEN @ \cup {call.p} ELSE @ \ {call.p}]
          BY <4>1 DEF SaveBinding
        <5>2. call.op = "bind" => call.p \in rec'[call.a].binds
          BY <2>2, <2>6, <5>1 DEF PlacesOK, Record
        <5> QED BY <2>5, <2>6, <3>3, <5>2 DEF Binding
      <4>2. CASE FindInstance
        BY <2>21, <4>2 DEF FindInstance, At, agents
      <4> QED BY <2>8, <4>1, <4>2
    <3> QED BY <2>6, <3>2, <3>4 DEF BindInv, Binding, Past, Ready, At
  <2>9. CASE RegenerateConfig
    <3>1. call.at = "config" /\ config' = [config EXCEPT ![call.a] = Generated(call.a)] /\ UNCHANGED rec
      BY <2>5, <2>9 DEF RegenerateConfig, At
    <3>2. call'.at = "routing" /\ config'[call.a] = Generated(call.a)
      BY <2>1, <2>2, <2>4, <2>6, <3>1, BindNext DEF PlacesOK
    <3> QED BY <2>6, <2>21, <3>1, <3>2 DEF BindInv, Binding, Past, Ready, At
  <2>10. CASE RegenerateRouting
    <3>1. call.at = "routing" /\ routing' = RoutingOf(Present) /\ UNCHANGED <<rec, config, container>>
      BY <2>10 DEF RegenerateRouting, At, agents
    <3>2. \/ call'.at = "router" /\ (Refreshes => rec[call.a].paused)
          \/ call'.at = "refresh" /\ Refreshes
      BY <2>1, <2>2, <2>4, <3>1, BindNext
    <3>3. config[call.a] = Generated(call.a) /\ RoutingOf(Present)' = RoutingOf(Present)
      BY <1>1, <2>5, <3>1 DEF Binding, Past
    <3> QED BY <2>6, <2>21, <3>1, <3>2, <3>3 DEF BindInv, Binding, Past, Ready, At
  <2>11. CASE RestartRouter \/ NoRouterEnv
    <3>1. call.at = "router" /\ UNCHANGED <<rec, config, container, secrets, env, routing>>
      BY <2>11 DEF RestartRouter, NoRouterEnv, At, agents, disk
    <3>2. \/ call'.at = "telegram" /\ Refreshes
          \/ call'.at = "refresh" /\ ~Refreshes
          \/ call'.at = "done" /\ ~Refreshes /\ rec[call.a].paused
      BY <2>1, <2>2, <2>4, <3>1, BindNext
    <3>3. /\ config[call.a] = Generated(call.a) /\ routing = RoutingOf(Present) /\ RoutingOf(Present)' = RoutingOf(Present)
          /\ Refreshes => rec[call.a].paused \/ container[call.a] = {Generated(call.a)}
      BY <1>1, <2>5, <3>1 DEF Binding, Past
    <3>4. env # {} /\ router'["slack"].up => router'["slack"].table = routing
      <4>1. CASE RestartRouter
        <5>1. /\ "slack" \in Routers
              /\ router' = [router EXCEPT !["slack"] = SlackRouter(UNION env, routing)]
          BY <4>1 DEF RestartRouter, Routers, Platforms
        <5>2. router'["slack"] = SlackRouter(UNION env, routing)
          BY <2>2, <5>1 DEF PlacesOK
        <5>3. UNION env \in SUBSET Variables /\ routing \in SUBSET (Agents \X Platforms)
          BY <2>2 DEF PlacesOK, AtMostOne
        <5> QED BY <5>2, <5>3, SlackRouterType
      <4>2. CASE NoRouterEnv
        BY <4>2 DEF NoRouterEnv
      <4> QED BY <2>11, <4>1, <4>2
    <3> QED BY <2>6, <2>21, <3>1, <3>2, <3>3, <3>4 DEF BindInv, Binding, Past, Ready, At
  <2>12. CASE RefreshAgent
    <3>1. /\ call.at = "refresh" /\ UNCHANGED <<rec, env, routing, router>>
          /\ config' = [config EXCEPT ![call.a] = Generated(call.a)]
          /\ container' = [container EXCEPT ![call.a] = {Generated(call.a)}]
      BY <2>5, <2>12 DEF RefreshAgent, At, disk
    <3>2. \/ call'.at = "router" /\ Refreshes
          \/ call'.at \in {"reconcile", "done"} /\ ~Refreshes
      BY <2>1, <2>2, <2>4, <3>1, BindNext
    <3>3. config'[call.a] = Generated(call.a) /\ container'[call.a] = {Generated(call.a)}
      BY <2>2, <2>6, <3>1 DEF PlacesOK
    <3>4. /\ routing = RoutingOf(Present) /\ RoutingOf(Present)' = RoutingOf(Present)
          /\ ~Refreshes /\ router["slack"].up /\ env # {} => router["slack"].table = routing
      BY <1>1, <2>5, <3>1 DEF Binding, Past
    <3> QED BY <2>6, <2>21, <3>1, <3>2, <3>3, <3>4 DEF BindInv, Binding, Past, Ready, At
  <2>13. CASE RestartTelegramRouter
    <3>1. /\ call.at = "telegram" /\ UNCHANGED <<rec, config, container, env, routing>>
          /\ router'["slack"] = router["slack"]
      BY <2>2, <2>13 DEF RestartTelegramRouter, At, agents, disk, PlacesOK
    <3>2. call'.at = "done" /\ Refreshes
      BY <2>1, <2>2, <2>4, <3>1, BindNext
    <3>3. /\ config[call.a] = Generated(call.a) /\ routing = RoutingOf(Present) /\ RoutingOf(Present)' = RoutingOf(Present)
          /\ rec[call.a].paused \/ container[call.a] = {Generated(call.a)}
          /\ router["slack"].up /\ env # {} => router["slack"].table = routing
      BY <1>1, <2>5, <3>1, <3>2 DEF Binding, Past
    <3> QED BY <2>6, <2>21, <3>1, <3>2, <3>3 DEF BindInv, Binding, Past, Ready, At
  <2>14. CASE Reconcile
    <3>1. /\ call.at = "reconcile" /\ UNCHANGED <<rec, config, container, env>> /\ routing' = RoutingOf(Present)
          /\ env # {} => router' = [router EXCEPT !["slack"] = SlackRouter(UNION env, RoutingOf(Present))]
      BY <2>14 DEF Reconcile, At, agents
    <3>2. call'.at = "done" /\ ~Refreshes
      BY <2>1, <2>2, <2>4, <3>1, BindNext
    <3>3. /\ config[call.a] = Generated(call.a) /\ RoutingOf(Present)' = RoutingOf(Present)
          /\ rec[call.a].paused \/ container[call.a] = {Generated(call.a)}
      BY <1>1, <2>2, <2>5, <3>1, <3>2 DEF Binding, Past
    <3>4. env # {} /\ router'["slack"].up => router'["slack"].table = RoutingOf(Present)
      <4>1. /\ UNION env \in SUBSET Variables /\ RoutingOf(Present) \in SUBSET (Agents \X Platforms)
            /\ "slack" \in Routers
        BY <2>2, RoutingPairs DEF PlacesOK, AtMostOne, TypeInv, Routers, Platforms
      <4>2. env # {} => router'["slack"] = SlackRouter(UNION env, RoutingOf(Present))
        BY <2>2, <3>1, <4>1 DEF PlacesOK
      <4> QED BY <4>1, <4>2, SlackRouterType
    <3> QED BY <2>6, <2>21, <3>1, <3>2, <3>3, <3>4 DEF BindInv, Binding, Past, Ready, At
  <2>15. ASSUME \/ Fail \/ Die \/ LoseRouterEnv \/ BreakRouter \/ BreakTelegramRouter \/ BreakAgent \/ BreakReconcile
                \/ Skip \/ LoseRoutes
         PROVE  BindInv'
    BY <2>5, <2>15 DEF Fail, Die, Skip, LoseRoutes, LoseRouterEnv, BreakRouter, BreakTelegramRouter, BreakAgent, BreakReconcile
  <2>16. ASSUME WriteRouterEnv \/ RemoveRouterEnv \/ RemoveRouter \/ Stripped
         PROVE  BindInv'
    BY <2>1, <2>2, <2>16 DEF Road, WriteRouterEnv, RemoveRouterEnv, RemoveRouter, Stripped, At
  <2>17. ASSUME NEW n \in 1 .. 3, WriteSecret(n) \/ DeleteSecret(n) PROVE BindInv'
    BY <2>1, <2>2, <2>17, SecretSteps DEF Road
  <2> QED
    BY <1>6, <2>3, <2>8, <2>9, <2>10, <2>11, <2>12, <2>13, <2>14, <2>15, <2>16, <2>17 DEF Steps
<1> QED BY <1>2, <1>3, <1>5, <1>6, NextIs

\* BindChannel and UnbindChannel that no failure disturbed leave the record, the config, the container,
\* routing.json and the table of the Slack router in agreement, on every provider.
THEOREM UndisturbedBindingTakesEffect == Spec => []BindingTakesEffect
<1>1. Init => BindInv
  BY DEF Init, BindInv, Idle
<1>2. TypeInv /\ BindInv => BindingTakesEffect
  <2>1. ASSUME BindInv, NEW op \in {"bind", "unbind"}, Returned(op), call.clean
        PROVE  LET a == call.a
               IN  /\ call.op = "bind" => HasCredentials(call.p) /\ call.p \in rec[a].binds
                   /\ config[a] = Generated(a)
                   /\ rec[a].paused \/ container[a] = {Generated(a)}
                   /\ routing = RoutingOf(Present)
                   /\ router["slack"].up /\ env # {} => router["slack"].table = routing
    BY <2>1 DEF BindInv, Binding, Past, Returned, Ready, At
  <2>2. ASSUME TypeInv, BindInv, NEW op \in {"bind", "unbind"}, Returned(op), call.clean
        PROVE  LET a == call.a
               IN  /\ call.op = "bind" => call.p \in config[a]
                   /\ config[a] = rec[a].binds \cap Configured
                   /\ ~rec[a].paused => container[a] = {config[a]}
                   /\ routing = RoutingOf(Present)
                   /\ router["slack"].up /\ env # {} => router["slack"].table = routing
    <3>1. call.p \in Platforms
      BY <2>2 DEF TypeInv, TypeOK, Call
    <3> QED BY <2>1, <2>2, <3>1 DEF Generated, Configured
  <2> QED BY <2>2 DEF BindingTakesEffect
<1> QED BY <1>1, <1>2, TypeInvInit, TypeInvStep, BindInvStep, PTL DEF Spec
--------------------------------------------------------------------------------
(* RemoveChannel. *)

LEMMA RemoveNext ==
    ASSUME TypeInv, ~Ready, call.op = "remove"
    PROVE  /\ call.p \in Platforms
           /\ call.at = "instance" => Following = "rmrouter"
           /\ call.at = "rmrouter" => Following = "list"
           /\ call.at = "config" => Following = "strip"
           /\ call.at = "strip" => Following = "routing"
           /\ call.at = "routing" => Following = "unset1"
           /\ call.at = "unset1" => \/ Following = "unset2" /\ 2 \in Required(call.p)
                                    \/ Following = "rmenv" /\ 2 \notin Required(call.p)
           /\ call.at = "unset2" => Following = "unset3"
           /\ call.at = "unset3" => Following = "rmenv"
           /\ call.at = "rmenv" => Following = "done"
<1>1. Following = RemoveSteps(call.p)[call.at] /\ call.p \in Platforms
  BY DEF Following, TypeInv, TypeOK, Call
<1> QED BY <1>1 DEF RemoveSteps, Second

\* RemoveChannel stops, or goes on with what it had listed; after a failure only with the cleanup.
LEMMA RemoveGoesOn ==
    ASSUME TypeInv, ~Ready, call.op = "remove", Forth \/ GoOn
    PROVE  \/ call'.at = "done" /\ call'.res # "ok"
           \/ /\ call'.at = Following /\ call'.did = call.did /\ call'.todo = call.todo /\ call'.a = call.a
              /\ call'.missed = call.missed /\ (call'.clean => call.clean)
              /\ Forth \/ call.at \in {"config", "routing", "unset1", "unset2", "unset3", "rmenv"}
<1>1. CASE Forth
  BY <1>1, Proceeds DEF Onward, Same
<1>2. CASE GoOn
  BY <1>2, GoesOn DEF Onward, Same, Warned, Collected, Halted
<1> QED BY <1>1, <1>2

\* A step after which no failure is to be reported is one that succeeded.
LEMMA ClaimProceeds ==
    ASSUME TypeInv, ~Ready, call.op = "remove", Forth \/ GoOn \/ Stop("died"), Claims'
    PROVE  Forth /\ Claims /\ ~GoOn
<1>1. ~Stop("died")
  BY Dies DEF Claims, Halted, Ready, At
<1>2. ~GoOn
  <2>1. SUFFICES ASSUME GoOn PROVE FALSE
    OBVIOUS
  <2>2. (call'.at = "done" /\ call'.res # "ok") \/ (~call'.complete /\ call'.res # "ok")
    BY <2>1, GoesOn DEF Halted, Warned
  <2> QED BY <2>2 DEF Claims, Ready, At
<1>3. Forth => Claims
  BY Proceeds DEF Claims, Ready, At
<1> QED BY <1>1, <1>2, <1>3

\* The steps that change neither a record nor a router: they find what the method has done as it was.
LEMMA UnbindKept ==
    ASSUME TypeInv, ~Ready, call.op = "remove", Unbinding, Forth \/ GoOn, UNCHANGED <<prov, rec, router>>,
           Forth => /\ call.at # "list" /\ (call.at = "rmrouter" => ~call'.clean)
                    /\ (call.at = "strip" => call.todo = {})
    PROVE  Unbinding'
<1>1. call'.p = call.p /\ Road(call)
  BY GoesOn, Proceeds DEF Onward, Same, TypeInv
<1>4. ASSUME call'.clean PROVE call.clean /\ call'.missed = {}
  <2>1. ~GoOn \/ call'.clean # TRUE
    BY <1>4, GoesOn
  <2>2. Forth
    BY <1>4, GoesOn
  <2> QED BY <1>4, <2>2, Proceeds DEF Onward, Same, Unbinding
<1>2. CASE call'.at = "done" /\ call'.res # "ok"
  BY <1>2, <1>4 DEF Unbinding, Past, Ready, At
<1>3. CASE /\ call'.at = Following /\ call'.did = call.did /\ call'.todo = call.todo /\ call'.a = call.a
           /\ call'.missed = call.missed /\ (call'.clean => call.clean)
           /\ Forth \/ call.at \in {"config", "routing", "unset1", "unset2", "unset3", "rmenv"}
  <2>1. Bound(call.p)' = Bound(call.p) /\ RouterOf(call.p)' = RouterOf(call.p)
    BY <1>1 DEF Bound, Present, RouterOf
  <2>2. /\ call.at \in {"instance", "rmrouter", "config", "strip", "routing", "unset1", "unset2", "unset3", "rmenv"}
        /\ call.at = "strip" => call.todo = {}
        /\ call.at = "rmrouter" => ~call'.clean
    BY <1>1, <1>3 DEF Road, Ready, At
  <2>3. call'.at \in {"rmrouter", "list", "strip", "routing", "unset1", "unset2", "unset3", "rmenv", "done"}
    BY <1>3, <2>2, RemoveNext
  <2>4. call'.at \in {"rmrouter", "list"} => call'.did = {} /\ call'.missed = {}
    BY <1>3, <2>2, RemoveNext DEF Unbinding
  <2>5. call'.at # "rmrouter" /\ call'.clean /\ prov # "aws" => ~router[RouterOf(call.p)].up
    BY <1>3, <2>2, RemoveNext DEF Unbinding, Past
  <2>6. call'.at = "strip" => Bound(call.p) \subseteq call.todo \cup call.missed
    BY <1>3, <2>2, RemoveNext DEF Unbinding
  <2>7. call'.at \in {"routing", "unset1", "unset2", "unset3", "rmenv", "done"} => Bound(call.p) \subseteq call.missed
    BY <1>3, <2>2, RemoveNext DEF Unbinding, Past
  <2>9. router'[RouterOf(call.p)'] = router[RouterOf(call.p)]
    BY <2>1
  <2>10. call'.at # "config"
    BY <2>3
  <2> HIDE DEF Unbinding
  <2> QED BY <1>1, <1>3, <1>4, <2>1, <2>3, <2>4, <2>5, <2>6, <2>7, <2>9, <2>10 DEF Unbinding, Past, Ready, At
<1> QED BY <1>2, <1>3, RemoveGoesOn

LEMMA UnbindInvStep ==
    ASSUME TypeInv, UnbindInv, [Next]_vars
    PROVE  UnbindInv'
<1>1. CASE Begins
  <2>1. /\ call'.op = "remove" => call'.at \in {"instance", "rmrouter"}
        /\ call'.did = {} /\ call'.missed = {}
    BY <1>1, BeginsAt DEF Fresh
  <2> QED BY <2>1 DEF UnbindInv, Unbinding, Past, Ready, At
<1>2. CASE Provisions
  BY <1>2, ProvisionType DEF UnbindInv
<1>3. CASE UNCHANGED vars
  <2>1. UNCHANGED <<prov, rec, router, call>>
    BY <1>3 DEF vars
  <2> QED BY <2>1 DEF UnbindInv, Unbinding, Past, Ready, At, Bound, Present, RouterOf
<1>4. CASE UnitRestarts
  <2>1. UNCHANGED <<prov, rec, call>> /\ prov = "aws"
    BY <1>4, UnitStarts
  <2> QED BY <2>1 DEF UnbindInv, Unbinding, Past, Ready, At, Bound, Present, RouterOf
<1>5. CASE Steps
  <2>1. SUFFICES ASSUME call.op = "remove" PROVE Unbinding'
    BY <1>5, CallStays DEF UnbindInv
  <2>2. /\ ~Ready /\ Road(call) /\ call \in Call /\ UNCHANGED prov /\ PlacesOK /\ Unbinding /\ call'.p = call.p
        /\ call.p \in Platforms
    BY <1>5, <2>1, Working, CallStays DEF TypeInv, TypeOK, PlacesOK, UnbindInv, Call
  <2>3. ASSUME call'.at = "done" /\ call'.res # "ok" /\ ~call'.clean PROVE Unbinding'
    BY <2>3 DEF Unbinding, Past, Ready, At
  <2>4. CASE Die
    BY <2>2, <2>3, <2>4, Dies DEF Die, Halted
  <2>5. CASE Fail
    <3>1. GoOn /\ UNCHANGED <<rec, router>>
      BY <2>5 DEF Fail, agents
    <3>2. CASE call.at \in {"rmrouter", "list", "strip"}
      BY <2>1, <2>2, <2>3, <3>1, <3>2, GoesOn DEF Halted, Warned, Collected
    <3>3. CASE call.at \notin {"rmrouter", "list", "strip"}
      BY <2>1, <2>2, <3>1, <3>3, UnbindKept
    <3> QED BY <3>2, <3>3
  <2>6. CASE Skip
    <3>1. Forth /\ UNCHANGED <<prov, rec, router>> /\ call.at \in {"rmrouter", "rmenv"}
      BY <2>1, <2>2, <2>6 DEF Skip, Unnoticed, Forth, agents, At, Road
    <3>2. ~call'.clean
      BY <2>2, <2>6, Advanced DEF Skip, TypeInv, TypeOK, Call
    <3> QED BY <2>1, <2>2, <3>1, <3>2, UnbindKept
  <2>7. CASE LoseRoutes
    <3>1. Forth /\ UNCHANGED <<prov, rec, router>> /\ call.at = "routing"
      BY <2>7 DEF LoseRoutes, Forth, agents, At
    <3> QED BY <2>1, <2>2, <3>1, UnbindKept
  <2>8. CASE \/ FindInstance \/ RemoveRouterEnv \/ RegenerateRouting \/ RegenerateConfig \/ Stripped
             \/ \E n \in 1 .. 3 : DeleteSecret(n)
    <3>1. /\ Forth \/ GoOn
          /\ UNCHANGED <<rec, router>>
      BY <2>8 DEF FindInstance, RemoveRouterEnv, RegenerateRouting, RegenerateConfig, Stripped, DeleteSecret, agents,
                  Forth
    <3>2. /\ call.at \in {"instance", "rmenv", "routing", "config", "unset1", "unset2", "unset3", "strip"}
          /\ call.at = "strip" => call.todo = {}
      <4>1. CASE \E n \in 1 .. 3 : DeleteSecret(n)
        BY <4>1, SecretSteps
      <4>2. CASE FindInstance \/ RemoveRouterEnv \/ RegenerateRouting \/ RegenerateConfig \/ Stripped
        BY <4>2 DEF FindInstance, RemoveRouterEnv, RegenerateRouting, RegenerateConfig, Stripped, At
      <4> QED BY <2>8, <4>1, <4>2
    <3> QED BY <2>1, <2>2, <3>1, <3>2, UnbindKept
  <2>9. CASE RemoveRouter
    <3>1. call.at = "rmrouter" /\ Forth /\ UNCHANGED rec /\ router' = [router EXCEPT ![RouterOf(call.p)] = Down]
      BY <2>9 DEF RemoveRouter, At, agents, Forth
    <3>2. call'.at = "list" /\ call'.did = {} /\ call'.missed = {}
      BY <2>1, <2>2, <3>1, Proceeds, RemoveNext DEF Onward, Same, Unbinding
    <3>3. ~router'[RouterOf(call.p)].up /\ RouterOf(call.p)' = RouterOf(call.p)
      BY <2>2, <3>1 DEF RouterOf, Routers, Platforms, Down, PlacesOK, Call
    <3> QED BY <2>2, <3>2, <3>3 DEF Unbinding, Past, Ready, At
  <2>10. CASE ListBound \/ LoseList
    <3>1. call.at = "list" /\ UNCHANGED <<rec, router>>
      BY <2>10 DEF ListBound, LoseList, At, agents
    <3>2. /\ call'.at = "strip" /\ Bound(call.p) \subseteq call'.todo \cup call'.missed
          /\ call'.clean => call.clean /\ call'.missed = call.missed
      BY <2>10, Listings
    <3>3. Bound(call.p)' = Bound(call.p) /\ RouterOf(call.p)' = RouterOf(call.p)
      BY <2>2, <3>1 DEF Bound, Present, RouterOf
    <3>4. call.missed = {} /\ (call.clean /\ prov # "aws" => ~router[RouterOf(call.p)].up)
      BY <2>2, <3>1 DEF Unbinding, Past
    <3> QED BY <2>2, <3>1, <3>2, <3>3, <3>4 DEF Unbinding, Past, Ready, At
  <2>11. CASE \E a \in Agents : StripRecord(a)
    <3>1. PICK a \in Agents : StripRecord(a)
      BY <2>11
    <3>2. call.at = "strip" /\ UNCHANGED router /\ rec' = [rec EXCEPT ![a].binds = @ \ {call.p}]
      BY <3>1 DEF StripRecord, At
    <3>3. /\ call'.at \in {"strip", "config"} /\ call'.todo = call.todo \ {a} /\ call'.a = a
          /\ call'.missed = call.missed /\ call'.clean = call.clean
      BY <3>1, Strips
    <3>4. Bound(call.p)' \subseteq Bound(call.p) \ {a} /\ call.p \notin rec'[a].binds
      BY <2>2, <3>2 DEF Bound, Present, PlacesOK, Record
    <3>5. /\ Bound(call.p) \subseteq call.todo \cup call.missed /\ RouterOf(call.p)' = RouterOf(call.p)
          /\ call.clean /\ prov # "aws" => ~router[RouterOf(call.p)].up
          /\ call.clean => call.missed = {}
      BY <2>2, <3>2 DEF Unbinding, Past, RouterOf
    <3> QED BY <2>2, <3>2, <3>3, <3>4, <3>5 DEF Unbinding, Past, Ready, At
  <2>12. ASSUME \/ LoseRouterEnv \/ WriteRouterEnv \/ RestartRouter \/ BreakRouter \/ NoRouterEnv
                \/ RestartTelegramRouter \/ BreakTelegramRouter \/ SaveBinding \/ RefreshAgent \/ BreakAgent
                \/ Reconcile \/ BreakReconcile
         PROVE  FALSE
    BY <2>1, <2>2, <2>12
       DEF Road, LoseRouterEnv, WriteRouterEnv, RestartRouter, BreakRouter, NoRouterEnv, RestartTelegramRouter,
           BreakTelegramRouter, SaveBinding, RefreshAgent, BreakAgent, Reconcile, BreakReconcile, At
  <2>13. ASSUME NEW n \in 1 .. 3, WriteSecret(n) PROVE FALSE
    BY <2>1, <2>2, <2>13, SecretSteps DEF Road
  <2> QED BY <1>5, <2>4, <2>5, <2>6, <2>7, <2>8, <2>9, <2>10, <2>11, <2>12, <2>13 DEF Steps
<1> QED BY <1>1, <1>2, <1>3, <1>4, <1>5, NextIs

LEMMA RemoveInvStep ==
    ASSUME TypeInv, UnbindInv, RemoveInv, [Next]_vars
    PROVE  RemoveInv'
<1>1. CASE Begins
  <2>1. call'.op = "remove" => call'.at \in {"instance", "rmrouter"} /\ call'.did = {}
    BY <1>1, BeginsAt DEF Fresh
  <2> QED BY <2>1 DEF RemoveInv, Removing, Past, Ready, At
<1>2. CASE Provisions
  BY <1>2, ProvisionType DEF RemoveInv
<1>3. CASE UNCHANGED vars
  <2>1. UNCHANGED <<rec, secrets, routing, config, call>>
    BY <1>3 DEF vars
  <2> QED BY <2>1 DEF RemoveInv, Removing, Claims, Past, Ready, At
<1>5. CASE UnitRestarts
  <2>1. UNCHANGED <<rec, secrets, routing, config, call>>
    BY <1>5, UnitStarts
  <2> QED BY <2>1 DEF RemoveInv, Removing, Claims, Past, Ready, At
<1>4. CASE Steps
  <2>1. SUFFICES ASSUME call.op = "remove", Claims' PROVE Removing'
    BY <1>4, CallStays DEF RemoveInv
  <2>2. ~Ready /\ Road(call) /\ call \in Call /\ PlacesOK /\ Unbinding /\ call'.p = call.p /\ call.p \in Platforms
    BY <1>4, <2>1, Working, CallStays DEF TypeInv, TypeOK, PlacesOK, UnbindInv, Call
  <2>3. ASSUME Forth \/ GoOn \/ Stop("died")
        PROVE  /\ Forth /\ ~GoOn /\ Removing
               /\ call'.at = Following /\ call'.did = call.did /\ call'.a = call.a /\ call'.missed = call.missed
    <3>1. Forth /\ Claims /\ ~GoOn
      BY <2>1, <2>2, <2>3, ClaimProceeds
    <3> QED BY <2>1, <2>2, <3>1, Proceeds DEF Onward, Same, RemoveInv
  <2>4. CASE FindInstance \/ RemoveRouter \/ (Skip /\ call.at = "rmrouter")
    <3>1. Forth /\ call.at \in {"instance", "rmrouter"}
      BY <2>4 DEF FindInstance, RemoveRouter, Skip, At, Forth
    <3>2. call'.at \in {"rmrouter", "list"} /\ call'.did = {}
      BY <2>1, <2>2, <2>3, <3>1, RemoveNext DEF Unbinding
    <3> QED BY <3>2 DEF Removing, Past, Ready, At
  <2>5. CASE ListBound \/ LoseList
    <3>1. call.at = "list" /\ call'.at = "strip" /\ call'.did = call.did
      BY <2>5, Listings
    <3>2. call'.did = {}
      BY <2>2, <3>1 DEF Unbinding
    <3> QED BY <3>1, <3>2 DEF Removing, Past, Ready, At
  <2>6. CASE \E a \in Agents : StripRecord(a)
    <3>1. PICK a \in Agents : StripRecord(a)
      BY <2>6
    <3>2. /\ call.at = "strip" /\ UNCHANGED config /\ rec' = [rec EXCEPT ![a].binds = @ \ {call.p}]
      BY <3>1 DEF StripRecord, At
    <3>3. /\ call'.at = (IF rec[a].paused THEN "strip" ELSE "config") /\ call'.did = call.did \cup {a} /\ call'.a = a
          /\ call'.complete = call.complete
      BY <3>1, Strips
    <3>4. Removing
      BY <2>1, <2>2, <3>3 DEF RemoveInv, Claims, Ready, At
    <3>5. call.did \subseteq Agents /\ \A b \in Agents : rec'[b].paused = rec[b].paused
      BY <2>2, <3>2 DEF PlacesOK, Record, Call
    <3>6. ASSUME NEW b \in call'.did
          PROVE  rec'[b].paused \/ call.p \notin config[b] \/ (call'.at = "config" /\ call'.a = b)
      BY <3>2, <3>3, <3>4, <3>5, <3>6 DEF Removing, At
    <3> QED BY <2>2, <3>2, <3>3, <3>6 DEF Removing, Past, Ready, At
  <2>7. CASE Stripped
    <3>1. call.at = "strip" /\ Forth /\ UNCHANGED <<rec, config>>
      BY <2>7 DEF Stripped, At, agents, Forth
    <3>2. call'.at = "routing"
      BY <2>1, <2>2, <2>3, <3>1, RemoveNext
    <3> QED BY <2>2, <2>3, <3>1, <3>2 DEF Removing, Past, Ready, At
  <2>8. CASE RegenerateConfig
    <3>1. call.at = "config" /\ UNCHANGED rec /\ (Forth \/ GoOn)
      BY <2>8 DEF RegenerateConfig, At, Forth
    <3>2. config' = [config EXCEPT ![call.a] = rec[call.a].binds \cap Configured]
      BY <2>3, <2>8, <3>1 DEF RegenerateConfig, Generated
    <3>3. call'.at = "strip" /\ call.a \in Agents /\ call.p \notin rec[call.a].binds /\ call.did \subseteq Agents
      BY <2>1, <2>2, <2>3, <3>1, RemoveNext DEF Unbinding, Road, Call
    <3>4. ASSUME NEW b \in call'.did PROVE rec'[b].paused \/ call.p \notin config'[b]
      <4>1. rec[b].paused \/ call.p \notin config[b] \/ call.a = b
        BY <2>3, <3>1, <3>4 DEF Removing
      <4> QED BY <2>2, <2>3, <3>1, <3>2, <3>3, <3>4, <4>1 DEF PlacesOK
    <3> QED BY <2>2, <3>3, <3>4 DEF Removing, Past, Ready, At
  <2>9. CASE RegenerateRouting \/ LoseRoutes
    <3>1. /\ call.at = "routing" /\ Forth /\ UNCHANGED <<rec, config>>
          /\ \E listed \in SUBSET Present : routing' = RoutingOf(listed)
      BY <2>9 DEF RegenerateRouting, LoseRoutes, At, agents, Forth
    <3>2. call'.at = "unset1"
      BY <2>1, <2>2, <2>3, <3>1, RemoveNext
    <3>3. Bound(call.p) \subseteq call.missed
      BY <2>2, <3>1 DEF Unbinding, Past
    <3>4. ASSUME NEW a \in Agents \ call.missed PROVE <<a, call.p>> \notin routing'
      <4>1. SUFFICES ASSUME <<a, call.p>> \in routing' PROVE FALSE
        OBVIOUS
      <4>2. PICK listed \in SUBSET Present : routing' = RoutingOf(listed)
        BY <3>1
      <4>3. PICK b \in listed : \E q \in rec[b].binds : <<a, call.p>> = <<b, q>>
        BY <4>1, <4>2, RoutingPairs DEF TypeInv
      <4> QED BY <3>3, <4>3 DEF Bound
    <3> QED BY <2>2, <2>3, <3>1, <3>2, <3>4 DEF Removing, Past, Ready, At
  <2>10. ASSUME DeleteSecret(1) PROVE Removing'
    <3>1. call.at = "unset1" /\ Forth /\ UNCHANGED <<rec, config, routing>>
          /\ secrets' = [secrets EXCEPT ![call.p] = @ \ {1}]
      BY <2>10 DEF DeleteSecret, At, agents, Forth
    <3>2. \/ call'.at = "unset2" /\ 2 \in Required(call.p)
          \/ call'.at = "rmenv" /\ 2 \notin Required(call.p)
      BY <2>1, <2>2, <2>3, <3>1, RemoveNext
    <3>3. 1 \notin secrets'[call.p] /\ (2 \notin Required(call.p) => secrets'[call.p] = {})
      BY <2>2, <3>1 DEF PlacesOK, Required, Known
    <3>4. \A a \in Agents \ call.missed : <<a, call.p>> \notin routing
      BY <2>3, <3>1 DEF Removing, Past
    <3> QED BY <2>2, <2>3, <3>1, <3>2, <3>3, <3>4 DEF Removing, Past, Ready, At
  <2>11. ASSUME DeleteSecret(2) PROVE Removing'
    <3>1. call.at = "unset2" /\ Forth /\ UNCHANGED <<rec, config, routing>>
          /\ secrets' = [secrets EXCEPT ![call.p] = @ \ {2}]
      BY <2>11 DEF DeleteSecret, At, agents, Forth
    <3>2. call'.at = "unset3"
      BY <2>1, <2>2, <2>3, <3>1, RemoveNext
    <3>3. 1 \notin secrets'[call.p] /\ 2 \notin secrets'[call.p]
      BY <2>2, <2>3, <3>1 DEF PlacesOK, Removing
    <3>4. \A a \in Agents \ call.missed : <<a, call.p>> \notin routing
      BY <2>3, <3>1 DEF Removing, Past
    <3> QED BY <2>2, <2>3, <3>1, <3>2, <3>3, <3>4 DEF Removing, Past, Ready, At
  <2>17. ASSUME DeleteSecret(3) PROVE Removing'
    <3>1. call.at = "unset3" /\ Forth /\ UNCHANGED <<rec, config, routing>>
          /\ secrets' = [secrets EXCEPT ![call.p] = @ \ {3}]
      BY <2>17 DEF DeleteSecret, At, agents, Forth
    <3>2. call'.at = "rmenv"
      BY <2>1, <2>2, <2>3, <3>1, RemoveNext
    <3>3. secrets'[call.p] = {}
      <4>1. secrets[call.p] \subseteq 1 .. 3 /\ 1 \notin secrets[call.p] /\ 2 \notin secrets[call.p]
        BY <2>2, <2>3, <3>1 DEF PlacesOK, Removing
      <4>2. secrets[call.p] \ {3} = {}
        BY <4>1
      <4> QED BY <2>2, <3>1, <4>2 DEF PlacesOK
    <3>4. \A a \in Agents \ call.missed : <<a, call.p>> \notin routing
      BY <2>3, <3>1 DEF Removing, Past
    <3> QED BY <2>2, <2>3, <3>1, <3>2, <3>3, <3>4 DEF Removing, Past, Ready, At
  <2>12. CASE RemoveRouterEnv \/ (Skip /\ call.at = "rmenv")
    <3>1. call.at = "rmenv" /\ Forth /\ UNCHANGED <<rec, config, routing, secrets>>
      <4>1. CASE RemoveRouterEnv
        BY <4>1 DEF RemoveRouterEnv, At, agents, Forth
      <4>2. CASE Skip /\ call.at = "rmenv"
        BY <4>2 DEF Skip, agents, disk, Forth
      <4> QED BY <2>12, <4>1, <4>2
    <3>2. call'.at = "done"
      BY <2>1, <2>2, <2>3, <3>1, RemoveNext
    <3>3. (\A a \in Agents \ call.missed : <<a, call.p>> \notin routing) /\ secrets[call.p] = {}
      BY <2>3, <3>1 DEF Removing, Past
    <3> QED BY <2>2, <2>3, <3>1, <3>2, <3>3 DEF Removing, Past, Ready, At
  <2>13. ASSUME Fail \/ Die PROVE FALSE
    BY <2>2, <2>3, <2>13, Dies, <2>1 DEF Fail, Die, Halted, Claims, Ready, At
  <2>14. ASSUME \/ LoseRouterEnv \/ WriteRouterEnv \/ RestartRouter \/ BreakRouter \/ NoRouterEnv
                \/ RestartTelegramRouter \/ BreakTelegramRouter \/ SaveBinding \/ RefreshAgent \/ BreakAgent
                \/ Reconcile \/ BreakReconcile \/ (Skip /\ call.at \notin {"rmrouter", "rmenv"})
         PROVE  FALSE
    BY <2>1, <2>2, <2>14
       DEF Road, LoseRouterEnv, WriteRouterEnv, RestartRouter, BreakRouter, NoRouterEnv, RestartTelegramRouter,
           BreakTelegramRouter, SaveBinding, RefreshAgent, BreakAgent, Reconcile, BreakReconcile, Skip, Unnoticed, At
  <2>15. ASSUME NEW n \in 1 .. 3, WriteSecret(n) PROVE FALSE
    BY <2>1, <2>2, <2>15, SecretSteps DEF Road
  <2>16. ASSUME NEW n \in 1 .. 3, DeleteSecret(n) PROVE Removing'
    <3>1. n = 1 \/ n = 2 \/ n = 3
      OBVIOUS
    <3> QED BY <2>10, <2>11, <2>16, <2>17, <3>1
  <2> QED
    BY <1>4, <2>4, <2>5, <2>6, <2>7, <2>8, <2>9, <2>12, <2>13, <2>14, <2>15, <2>16 DEF Steps
<1> QED BY <1>1, <1>2, <1>3, <1>4, <1>5, NextIs

\* RemoveChannel that returns nil has left the platform in no record, no config of an agent it unbound and that
\* runs, no route and no secret, but for the agents a lost list hid from it; when no failure went unnoticed there are
\* none and, except on AWS, the router is down.  What AWS collects of failures on the way is an error.
THEOREM RemovingIsComplete == Spec => []RemovalComplete
<1>1. Init => UnbindInv /\ RemoveInv
  BY DEF Init, UnbindInv, RemoveInv, Idle
<1>2. TypeInv /\ UnbindInv /\ RemoveInv => RemovalComplete
  <2>1. ASSUME UnbindInv, RemoveInv, Returned("remove") PROVE Unbinding /\ Removing
    BY <2>1 DEF UnbindInv, RemoveInv, Returned, Claims
  <2> QED BY <2>1 DEF Unbinding, Removing, Past, Returned, RemovalComplete, Ready, At
<1> QED BY <1>1, <1>2, TypeInvInit, TypeInvStep, UnbindInvStep, RemoveInvStep, PTL DEF Spec

\* No step takes a required secret from a platform while an agent is still bound to it that RemoveChannel had
\* listed: on every provider and after every failure it goes on after, it comes to the secrets with those bindings
\* gone, and only a lost list of the remote provider leaves one behind.
THEOREM CredentialsGoLast == Spec => CredentialsOutliveBindings
<1>1. Init => UnbindInv
  BY DEF Init, UnbindInv, Idle
<1>2. ASSUME TypeInv, UnbindInv, [Next]_vars, NEW p \in Platforms, HasCredentials(p), ~HasCredentials(p)'
      PROVE  Bound(p) \subseteq call.missed
  <2>1. call \in Call /\ Road(call) /\ secrets \in [Platforms -> SUBSET (1 .. 3)]
    BY <1>2 DEF TypeInv, TypeOK
  <2>2. ~UNCHANGED secrets
    BY <1>2 DEF HasCredentials
  <2>3. PICK n \in 1 .. 3 : WriteSecret(n) \/ DeleteSecret(n)
    <3>1. ~UNCHANGED vars /\ ~Begins /\ ~Provisions /\ ~UnitRestarts
      BY <1>2, <2>2, BeginsAt, UnitStarts DEF vars, disk, Provisions, Provision
    <3> QED BY <1>2, <2>2, <3>1, NextIs, SecretsMove
  <2>4. ~WriteSecret(n)
    <3>1. SUFFICES ASSUME WriteSecret(n) PROVE FALSE
      OBVIOUS
    <3>2. secrets' = [secrets EXCEPT ![call.p] = @ \cup {n}] /\ call.p \in Platforms
      BY <2>1, <3>1 DEF WriteSecret, Call
    <3> QED BY <1>2, <2>1, <3>2 DEF HasCredentials
  <2>5. call.at \in {"unset1", "unset2", "unset3"} /\ secrets' = [secrets EXCEPT ![call.p] = @ \ {n}]
    BY <2>3, <2>4, SecretSteps DEF DeleteSecret
  <2>6. call.p = p /\ call.op = "remove"
    BY <1>2, <2>1, <2>5 DEF HasCredentials, Road, Call
  <2> QED BY <1>2, <2>5, <2>6 DEF UnbindInv, Unbinding, Past
<1>3. TypeInv /\ UnbindInv /\ [Next]_vars
      => [\A p \in Platforms : HasCredentials(p) /\ ~HasCredentials(p)' => Bound(p) \subseteq call.missed]_vars
  BY <1>2
<1> QED BY <1>1, <1>3, TypeInvInit, TypeInvStep, UnbindInvStep, PTL DEF Spec, CredentialsOutliveBindings
================================================================================
