---- MODULE SlackRouterProofs ----
(***************************************************************************)
(* Proofs about SlackRouter, for every set of events and tables and every  *)
(* bound: an event is posted at most once while its ID is young, and a     *)
(* router that has settled routes by the file.                             *)
(***************************************************************************)
EXTENDS SlackRouter, TLAPS

----------------------------------------------------------------------------
(* At most once.                                                           *)

\* What makes AtMostOnce inductive: an event counted as posted is one whose entry
\* is held and young, and pruning takes old entries only.
OnceInv ==
  /\ posts \in [Events -> {0, 1}]
  /\ \A e \in Events : posts[e] = 1 => e \in recentEvents \ old

\* Whatever ends the process clears the counts with the memory.
LEMMA ForgetOnce == ASSUME Forget PROVE OnceInv'
BY DEF Forget, OnceInv

\* No step of the file, the container or the process touches the handler's state.
LEMMA KeepOnce == ASSUME OnceInv, UNCHANGED slackVars PROVE OnceInv'
BY DEF OnceInv, slackVars

\* Entering an ID keeps it, and every young one.
LEMMA RememberKeepsYoung ==
  ASSUME NEW e \in Events
  PROVE  /\ e \in Remember(e)
         /\ \A f \in recentEvents \ old : f \in Remember(e)
BY DEF Remember

LEMMA OnceStep == ASSUME OnceInv, [Next]_vars PROVE OnceInv'
<1>1. CASE UNCHANGED vars
  BY <1>1, KeepOnce DEF vars
<1>2. CASE KeepsProcess /\ UNCHANGED slackVars
  BY <1>2, KeepOnce
<1>3. CASE EndsProcess /\ Forget
  BY <1>3, ForgetOnce
<1>4. ASSUME NEW e \in Events, HandlerStep(e) PROVE OnceInv'
  <2>1. CASE Deliver(e) \/ Acked(e)
    BY <2>1 DEF Deliver, Acked, OnceInv
  <2>2. CASE AckRejected(e)
    BY <2>2, ForgetOnce DEF AckRejected
  <2>3. CASE Age(e)
    BY <2>3 DEF Age, OnceInv
  <2>4. CASE Handle(e)
    <3>1. CASE e \in recentEvents
      BY <2>4, <3>1 DEF Handle, OnceInv
    <3>2. CASE e \notin recentEvents
      <4>1. /\ recentEvents' = Remember(e)
            /\ old' = (old \ {e}) \cap recentEvents'
            /\ posts' = posts \/ posts' = [posts EXCEPT ![e] = @ + 1]
        BY <2>4, <3>2 DEF Handle
      <4>2. posts[e] = 0
        BY <3>2 DEF OnceInv
      <4>3. /\ posts' \in [Events -> {0, 1}]
            /\ \A f \in Events : posts'[f] = 1 => f = e \/ posts[f] = 1
        BY <4>1, <4>2 DEF OnceInv
      <4>4. \A f \in Events : posts'[f] = 1 => f \in recentEvents' /\ f \notin old'
        BY <4>1, <4>3, RememberKeepsYoung DEF OnceInv
      <4> QED BY <4>3, <4>4 DEF OnceInv
    <3> QED BY <3>1, <3>2
  <2> QED BY <1>4, <2>1, <2>2, <2>3, <2>4 DEF HandlerStep
<1> QED BY <1>1, <1>2, <1>3, <1>4 DEF Next

\* The Slack router posts an event at most once per life and per DEDUP_TTL_MS,
\* whatever Slack sends and however the handlers of index.js:150-189 interleave.
THEOREM PostedAtMostOnce == Spec => []AtMostOnce
<1>1. Init => OnceInv
  BY DEF Init, OnceInv
<1>2. OnceInv /\ [Next]_vars => OnceInv'
  BY OnceStep
<1>3. OnceInv => AtMostOnce
  BY DEF OnceInv, AtMostOnce
<1> QED BY <1>1, <1>2, <1>3, PTL DEF Spec

----------------------------------------------------------------------------
(* Settled routers are current.                                            *)

\* The mount: it shows the path's file unless the file was renamed away, and what
\* runs with an outdated mount was left so on purpose.
MountInv ==
  /\ attached => mounted = routingJSON
  /\ ~attached => ~InPlace
  /\ writer.step = "writing" => InPlace
  /\ ~attached /\ writer = Idle /\ router # "absent" => quiet

\* The process: what it holds is what it was mounted, or it is about to look again.
MemoryInv ==
  /\ router = "loaded" => config = mounted
  /\ router = "watching" /\ ~notified /\ ~reloadTimer
       => config = mounted \/ mounted = Torn

ReloadInv == MountInv /\ MemoryInv

\* A container started afresh has the path's file in its mount and nothing in memory.
LEMMA FreshReload ==
  ASSUME FreshContainer, routingJSON' = routingJSON, host' = host,
         writer' = Idle \/ writer' = writer, MountInv
  PROVE  ReloadInv'
BY DEF FreshContainer, ReloadInv, MountInv, MemoryInv, InPlace, Idle

\* A container that is gone holds nothing.
LEMMA GoneReload ==
  ASSUME NoContainer, routingJSON' = routingJSON, host' = host,
         writer' = Idle \/ writer' = writer, MountInv
  PROVE  ReloadInv'
BY DEF NoContainer, ReloadInv, MountInv, MemoryInv, InPlace, Idle

LEMMA KeepsProcessReload ==
  ASSUME ReloadInv, KeepsProcess, "gap" \notin Faults
  PROVE  ReloadInv'
<1>1. ASSUME NEW text \in Texts, NEW restart \in BOOLEAN, BeginWrite(text, restart)
      PROVE  ReloadInv'
  BY <1>1 DEF BeginWrite, Store, Unwatched, ReloadInv, MountInv, MemoryInv, InPlace, Idle
<1>2. ASSUME NEW text \in Texts, NEW restart \in BOOLEAN, Rename(text, restart)
      PROVE  ReloadInv'
  BY <1>2 DEF Rename, routerVars, ReloadInv, MountInv, MemoryInv, InPlace, Idle
<1>3. CASE EndWrite
  BY <1>3 DEF EndWrite, Store, Unwatched, ReloadInv, MountInv, MemoryInv, InPlace, Idle
<1>4. CASE WriterKilled
  BY <1>4 DEF WriterKilled, routerVars, ReloadInv, MountInv, MemoryInv, InPlace, Idle
<1>5. CASE BeginRestart
  BY <1>5 DEF BeginRestart, routerVars, ReloadInv, MountInv, MemoryInv, InPlace, Idle
<1>6. CASE RemoveFails
  BY <1>6 DEF RemoveFails, routerVars, ReloadInv, MountInv, MemoryInv, InPlace, Idle
<1>7. CASE LoadConfig \/ Watch
  BY <1>7 DEF LoadConfig, Watch, fileVars, ReloadInv, MountInv, MemoryInv, InPlace
<1>8. CASE OnChange \/ Reload
  BY <1>8 DEF OnChange, Reload, Reloaded, fileVars, ReloadInv, MountInv, MemoryInv, InPlace
<1> QED BY <1>1, <1>2, <1>3, <1>4, <1>5, <1>6, <1>7, <1>8 DEF KeepsProcess

LEMMA EndsProcessReload ==
  ASSUME ReloadInv, EndsProcess
  PROVE  ReloadInv'
<1>1. CASE RestartRouter
  BY <1>1, FreshReload DEF RestartRouter, ReloadInv
<1>2. CASE UnitStarts
  BY <1>2, FreshReload DEF UnitStarts, ReloadInv
<1>3. CASE EnsureRouter
  BY <1>3, FreshReload DEF EnsureRouter, ReloadInv
<1>4. CASE RestartFails
  BY <1>4, GoneReload DEF RestartFails, ReloadInv
<1>5. CASE LoadFails
  BY <1>5, GoneReload DEF LoadFails, Exit, ReloadInv
<1> QED BY <1>1, <1>2, <1>3, <1>4, <1>5 DEF EndsProcess

LEMMA ReloadStep ==
  ASSUME ReloadInv, [Next]_vars, "gap" \notin Faults
  PROVE  ReloadInv'
<1>1. CASE UNCHANGED reloadVars
  BY <1>1 DEF reloadVars, fileVars, routerVars, ReloadInv, MountInv, MemoryInv, InPlace, Idle
<1>2. CASE KeepsProcess
  BY <1>2, KeepsProcessReload
<1>3. CASE EndsProcess
  BY <1>3, EndsProcessReload
<1>4. ASSUME NEW e \in Events, HandlerStep(e) PROVE ReloadInv'
  <2>1. CASE AckRejected(e)
    BY <2>1, GoneReload DEF AckRejected, Exit, ReloadInv
  <2>2. CASE Deliver(e) \/ Acked(e) \/ Handle(e) \/ Age(e)
    BY <2>2, <1>1 DEF Deliver, Acked, Handle, Age
  <2> QED BY <1>4, <2>1, <2>2 DEF HandlerStep
<1> QED BY <1>1, <1>2, <1>3, <1>4 DEF Next, vars

\* A settled router routes by routing.json, by no half-written file, and is behind
\* only where an operation renamed the file and did not restart it; provided the file
\* does not change between a router's first load and its watch.
THEOREM SettledRouterIsCurrent ==
  ASSUME "gap" \notin Faults
  PROVE  Spec => []SettledIsCurrent
<1>1. Init => ReloadInv
  BY DEF Init, ReloadInit, ReloadInv, MountInv, MemoryInv, Idle
<1>2. ReloadInv /\ [Next]_vars => ReloadInv'
  BY ReloadStep
<1>3. ReloadInv => SettledIsCurrent
  BY DEF ReloadInv, MountInv, MemoryInv, SettledIsCurrent, Settled, Current, LeftStale
<1> QED BY <1>1, <1>2, <1>3, PTL DEF Spec

----------------------------------------------------------------------------
(* Types.                                                                  *)

\* Only a table that was generated is ever written to the end.
WriterInv == writer.step = "writing" => writer.text \in Texts

\* the types, the switches (which are Boolean) apart from the rest
Switches == attached \in BOOLEAN /\ quiet \in BOOLEAN /\ unitDue \in BOOLEAN
            /\ notified \in BOOLEAN /\ reloadTimer \in BOOLEAN

Values ==
  /\ host \in Hosts /\ routingJSON \in Texts \cup {Torn} /\ mounted \in Texts \cup {Torn}
  /\ writer \in [step : {"writing", "restart"}, text : Texts \cup {NoTable},
               restart : BOOLEAN] \cup {Idle}
  /\ writes \in 0 .. MaxWrites
  /\ router \in {"absent", "started", "loaded", "watching"}
  /\ config \in Texts \cup {NoTable}

LEMMA TypesApart == (ReloadTypeOK <=> Switches /\ Values) /\ (ReloadTypeOK' <=> Switches' /\ Values')
BY Zenon DEF ReloadTypeOK, Switches, Values

\* No handler runs that Slack has not sent an envelope for.
HandlersInv ==
  /\ sent \in [Events -> 0 .. MaxDeliveries]
  /\ acking \in [Events -> Nat] /\ resumed \in [Events -> Nat]
  /\ \A e \in Events : acking[e] + resumed[e] <= sent[e]
  /\ old \subseteq recentEvents /\ recentEvents \subseteq Events
  /\ \A e \in Events : posts[e] = 1 => sent[e] >= 1

TypeInv == ReloadTypeOK /\ WriterInv /\ HandlersInv /\ OnceInv

LEMMA FreshTyped ==
  ASSUME FreshContainer, ReloadTypeOK, UNCHANGED <<host, routingJSON, writes>>,
         writer' = Idle \/ writer' = writer, WriterInv, quiet' \in BOOLEAN, unitDue' \in BOOLEAN
  PROVE  ReloadTypeOK' /\ WriterInv'
<1>1. Switches'
  BY Zenon DEF FreshContainer, Switches
<1>2. Values'
  BY TypesApart DEF FreshContainer, Values
<1>3. WriterInv'
  BY DEF WriterInv, Idle
<1> QED BY <1>1, <1>2, <1>3, TypesApart

LEMMA GoneTyped ==
  ASSUME NoContainer, ReloadTypeOK, UNCHANGED <<host, routingJSON, writes>>,
         writer' = Idle \/ writer' = writer, WriterInv, quiet' \in BOOLEAN, unitDue' \in BOOLEAN
  PROVE  ReloadTypeOK' /\ WriterInv'
<1>1. Switches'
  BY TypesApart, Zenon DEF NoContainer, Switches
<1>2. Values'
  BY TypesApart DEF NoContainer, Values
<1>3. WriterInv'
  BY DEF WriterInv, Idle
<1> QED BY <1>1, <1>2, <1>3, TypesApart

LEMMA KeepsProcessTyped ==
  ASSUME ReloadTypeOK, WriterInv, KeepsProcess
  PROVE  ReloadTypeOK' /\ WriterInv'
<1>1. ASSUME NEW text \in Texts, NEW restart \in BOOLEAN, BeginWrite(text, restart)
      PROVE  ReloadTypeOK' /\ WriterInv'
  <2>1. Switches'
    BY <1>1, TypesApart, Zenon DEF BeginWrite, Store, Switches
  <2>2. Values'
    BY <1>1, TypesApart, MaxWritesAssumption DEF BeginWrite, Store, Values
  <2>3. WriterInv'
    BY <1>1 DEF BeginWrite, WriterInv
  <2> QED BY <2>1, <2>2, <2>3, TypesApart
<1>2. ASSUME NEW text \in Texts, NEW restart \in BOOLEAN, Rename(text, restart)
      PROVE  ReloadTypeOK' /\ WriterInv'
  <2>1. Switches'
    BY <1>2, TypesApart, Zenon DEF Rename, routerVars, Switches
  <2>2. writer' = Idle \/ writer' = [step |-> "restart", text |-> text, restart |-> TRUE]
    BY <1>2 DEF Rename
  <2>3. Values'
    BY <1>2, <2>2, TypesApart, MaxWritesAssumption DEF Rename, routerVars, Values
  <2>4. WriterInv'
    BY <2>2 DEF WriterInv, Idle
  <2> QED BY <2>1, <2>3, <2>4, TypesApart
<1>3. CASE EndWrite
  <2>1. writer.text \in Texts /\ writer # Idle
    BY <1>3 DEF EndWrite, WriterInv, Idle
  <2>2. /\ writer' \in [step : {"writing", "restart"}, text : Texts \cup {NoTable},
                        restart : BOOLEAN] \cup {Idle}
        /\ writer'.step # "writing"
    BY <1>3, <2>1 DEF EndWrite, ReloadTypeOK, Idle
  <2> QED BY <1>3, <2>1, <2>2 DEF EndWrite, Store, ReloadTypeOK, WriterInv
<1>4. CASE WriterKilled
  BY <1>4 DEF WriterKilled, routerVars, ReloadTypeOK, WriterInv, Idle
<1>5. CASE BeginRestart
  BY <1>5, MaxWritesAssumption DEF BeginRestart, routerVars, ReloadTypeOK, WriterInv, Idle
<1>6. CASE RemoveFails
  BY <1>6 DEF RemoveFails, routerVars, ReloadTypeOK, WriterInv, Idle
<1>7. CASE LoadConfig \/ Watch \/ OnChange \/ Reload
  BY <1>7 DEF LoadConfig, Watch, OnChange, Reload, Reloaded, fileVars, ReloadTypeOK, WriterInv
<1> QED BY <1>1, <1>2, <1>3, <1>4, <1>5, <1>6, <1>7 DEF KeepsProcess

LEMMA EndsProcessTyped ==
  ASSUME ReloadTypeOK, WriterInv, EndsProcess
  PROVE  ReloadTypeOK' /\ WriterInv'
<1>1. CASE RestartRouter \/ UnitStarts \/ EnsureRouter
  BY <1>1, FreshTyped DEF RestartRouter, UnitStarts, EnsureRouter, UnitNotices, ReloadTypeOK
<1>2. CASE RestartFails \/ LoadFails
  BY <1>2, GoneTyped DEF RestartFails, LoadFails, Exit, UnitNotices, ReloadTypeOK
<1> QED BY <1>1, <1>2 DEF EndsProcess

LEMMA ForgetTyped ==
  ASSUME Forget, HandlersInv
  PROVE  HandlersInv'
BY DEF Forget, HandlersInv

LEMMA HandlerTyped ==
  ASSUME TypeInv, NEW e \in Events, HandlerStep(e)
  PROVE  ReloadTypeOK' /\ WriterInv' /\ HandlersInv'
<1>1. CASE AckRejected(e)
  <2>1. ReloadTypeOK' /\ WriterInv'
    BY <1>1, GoneTyped DEF AckRejected, Exit, TypeInv, ReloadTypeOK
  <2> QED BY <1>1, <2>1, ForgetTyped DEF AckRejected, TypeInv
<1>2. CASE ~AckRejected(e)
  <2>1. UNCHANGED reloadVars
    BY <1>2 DEF HandlerStep, Deliver, Acked, Handle, Age
  <2>2. ReloadTypeOK' /\ WriterInv'
    BY <2>1 DEF TypeInv, reloadVars, fileVars, routerVars, ReloadTypeOK, WriterInv, Idle
  <2>3. CASE Deliver(e)
    BY <2>2, <2>3, BoundsAssumption DEF Deliver, TypeInv, HandlersInv
  <2>4. CASE Acked(e)
    BY <2>2, <2>4 DEF Acked, TypeInv, HandlersInv
  <2>5. CASE Age(e)
    BY <2>2, <2>5 DEF Age, TypeInv, HandlersInv, OnceInv
  <2>6. CASE Handle(e)
    <3>1. /\ resumed[e] > 0 /\ resumed' = [resumed EXCEPT ![e] = @ - 1]
          /\ UNCHANGED <<sent, acking>>
      BY <2>6 DEF Handle
    <3>2. /\ sent' \in [Events -> 0 .. MaxDeliveries]
          /\ acking' \in [Events -> Nat] /\ resumed' \in [Events -> Nat]
          /\ \A f \in Events : acking'[f] + resumed'[f] <= sent'[f]
      BY <3>1 DEF TypeInv, HandlersInv
    <3>3. old' \subseteq recentEvents' /\ recentEvents' \subseteq Events
      BY <2>6 DEF Handle, Remember, TypeInv, HandlersInv
    <3>4. sent[e] >= 1
      BY <3>1 DEF TypeInv, HandlersInv
    <3>5. posts' = posts \/ posts' = [posts EXCEPT ![e] = @ + 1]
      BY <2>6 DEF Handle
    <3>6. \A f \in Events : posts'[f] = 1 => sent'[f] >= 1
      BY <3>1, <3>4, <3>5 DEF TypeInv, HandlersInv, OnceInv
    <3> QED BY <2>2, <3>2, <3>3, <3>6 DEF HandlersInv
  <2> QED BY <1>2, <2>2, <2>3, <2>4, <2>5, <2>6 DEF HandlerStep
<1> QED BY <1>1, <1>2

LEMMA TypeStep == ASSUME TypeInv, [Next]_vars PROVE TypeInv'
<1>1. OnceInv'
  BY OnceStep DEF TypeInv
<1>2. CASE UNCHANGED vars
  BY <1>1, <1>2 DEF vars, reloadVars, fileVars, routerVars, slackVars, TypeInv, ReloadTypeOK,
                    WriterInv, HandlersInv
<1>3. CASE KeepsProcess /\ UNCHANGED slackVars
  BY <1>1, <1>3, KeepsProcessTyped DEF slackVars, TypeInv, HandlersInv
<1>4. CASE EndsProcess /\ Forget
  BY <1>1, <1>4, EndsProcessTyped, ForgetTyped DEF TypeInv
<1>5. ASSUME NEW e \in Events, HandlerStep(e) PROVE TypeInv'
  BY <1>1, <1>5, HandlerTyped DEF TypeInv
<1> QED BY <1>2, <1>3, <1>4, <1>5 DEF Next

\* Every variable has its type: no half-written file ever gets into the router's
\* memory, and no handler runs without an envelope of its own.
THEOREM TypeCorrect == Spec => []TypeOK
<1>1. Init => TypeInv
  <2> SUFFICES ASSUME Init PROVE TypeInv
    OBVIOUS
  <2>1. Switches
    BY Zenon DEF Init, ReloadInit, Switches
  <2>2. Values
    BY MaxWritesAssumption DEF Init, ReloadInit, Values
  <2>3. WriterInv
    BY DEF Init, ReloadInit, WriterInv, Idle
  <2>4. HandlersInv /\ OnceInv
    BY BoundsAssumption DEF Init, HandlersInv, OnceInv
  <2> QED BY <2>1, <2>2, <2>3, <2>4, TypesApart DEF TypeInv
<1>2. TypeInv /\ [Next]_vars => TypeInv'
  BY TypeStep
<1>3. TypeInv => TypeOK
  <2> SUFFICES ASSUME TypeInv PROVE TypeOK
    OBVIOUS
  <2>1. MaxDeliveries \in Nat
    BY BoundsAssumption
  <2>2. ASSUME NEW e \in Events
        PROVE  /\ acking[e] \in 0 .. MaxDeliveries /\ resumed[e] \in 0 .. MaxDeliveries
               /\ posts[e] \in 0 .. MaxDeliveries
    <3>1. /\ acking[e] \in Nat /\ resumed[e] \in Nat /\ sent[e] \in 0 .. MaxDeliveries
          /\ acking[e] + resumed[e] <= sent[e]
          /\ posts[e] \in {0, 1} /\ (posts[e] = 1 => sent[e] >= 1)
      BY DEF TypeInv, HandlersInv, OnceInv
    <3> QED BY <2>1, <3>1
  <2> QED BY <2>2 DEF TypeInv, HandlersInv, OnceInv, TypeOK
<1> QED BY <1>1, <1>2, <1>3, PTL DEF Spec

====
