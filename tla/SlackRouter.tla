---- MODULE SlackRouter ----
(***************************************************************************)
(* The Slack router: envelopes arrive over Socket Mode, each is            *)
(* acknowledged first, then matched against the event IDs seen lately,     *)
(* filtered, and posted to the agent its channel or sender is bound to.    *)
(*                                                                         *)
(* The handler of an envelope gives up the event loop once, while it waits *)
(* for its acknowledgement; handlers of several envelopes, of the same     *)
(* event too, are interleaved there with each other and with reloads.      *)
(* Whether a post succeeds changes nothing in the router: it only logs.    *)
(***************************************************************************)
EXTENDS RouteReload, FiniteSets

CONSTANTS
  Events,         \* event IDs
  Payload,        \* Payload[e]: [filtered, dm : BOOLEAN, channel, user : key or None]
  None,           \* no channel, no user
  MaxDeliveries,  \* bound: how often Slack sends one event
  DedupLimit      \* 500 in the code: beyond it old entries are pruned

SlackFaults == {"ack"}  \* ack: an acknowledgement rejects, which ends the process

ASSUME FaultsAssumption == Faults \subseteq ReloadFaults \cup SlackFaults
ASSUME BoundsAssumption == MaxDeliveries \in Nat /\ DedupLimit \in Nat

VARIABLES
  sent,          \* sent[e]: envelopes Slack sent for e
  acking,        \* acking[e]: handlers of e that wait for their acknowledgement
  resumed,       \* resumed[e]: handlers whose wait is over
  recentEvents,  \* event IDs the router remembers
  old,           \* those of them entered more than DEDUP_TTL_MS ago
  posts          \* ghost: posts[e]: posts of e since it was last entered and young

slackVars == <<sent, acking, resumed, recentEvents, old, posts>>
vars == <<reloadVars, slackVars>>

----------------------------------------------------------------------------
(* Deduplication and routing.                                              *)

\* Remember with the comparison of the cutoff turned round.
RememberPrunesYoung(e) ==
  LET held == recentEvents \cup {e}
      aged == old \ {e}
  IN IF Cardinality(held) > DedupLimit THEN held \cap aged ELSE held

\* Entering an ID prunes what is old once more than DedupLimit are held.
Remember(e) ==
  LET held == recentEvents \cup {e}
      aged == old \ {e}
  IN IF Cardinality(held) > DedupLimit THEN held \ aged ELSE held

\* Where an event goes: a direct message to its sender's agent, anything with a
\* channel to the channel's, and what is left to the sender's again.
ResolveTarget(e) ==
  LET p == Payload[e]
      ofChannel == IF p.channel \in DOMAIN config.channels
                   THEN {config.channels[p.channel]} ELSE {}
      ofUser    == IF p.user \in DOMAIN config.members
                   THEN {config.members[p.user]} ELSE {}
  IN IF (p.dm /\ ofUser # {}) \/ ofChannel = {} THEN ofUser ELSE ofChannel

----------------------------------------------------------------------------
(* Slack.                                                                  *)

\* Slack sends an envelope to a connected router, again if its acknowledgement got
\* lost, and now and then although it did not.
Deliver(e) ==
  /\ router = "watching" /\ sent[e] < MaxDeliveries
  /\ sent' = [sent EXCEPT ![e] = @ + 1]
  /\ acking' = [acking EXCEPT ![e] = @ + 1]
  /\ UNCHANGED <<reloadVars, resumed, recentEvents, old, posts>>

----------------------------------------------------------------------------
(* The handler.                                                            *)

\* The process and its memory are gone, and with it every event in hand.
Forget ==
  /\ acking' = [e \in Events |-> 0]
  /\ resumed' = [e \in Events |-> 0]
  /\ recentEvents' = {}
  /\ old' = {}
  /\ posts' = [e \in Events |-> 0]
  /\ UNCHANGED sent

\* Acked as if the handler's continuation could run more than once.
AckedAgain(e) ==
  /\ acking[e] > 0
  /\ resumed' = [resumed EXCEPT ![e] = @ + 1]
  /\ UNCHANGED <<reloadVars, sent, acking, recentEvents, old, posts>>

\* await ack() is over: the frame was written, whether or not it arrives.
Acked(e) ==
  /\ acking[e] > 0
  /\ acking' = [acking EXCEPT ![e] = @ - 1]
  /\ resumed' = [resumed EXCEPT ![e] = @ + 1]
  /\ UNCHANGED <<reloadVars, sent, recentEvents, old, posts>>

\* await ack() rejects (the socket is down): nothing catches it in the handler,
\* and an unhandled rejection ends a Node process.
AckRejected(e) ==
  /\ "ack" \in Faults /\ acking[e] > 0
  /\ Exit
  /\ Forget

\* The rest of the handler, without a break.
Handle(e) ==
  /\ resumed[e] > 0
  /\ resumed' = [resumed EXCEPT ![e] = @ - 1]
  /\ IF e \in recentEvents
       THEN UNCHANGED <<recentEvents, old, posts>>
       ELSE /\ recentEvents' = Remember(e)
            /\ old' = (old \ {e}) \cap recentEvents'
            /\ posts' = IF Payload[e].filtered \/ ResolveTarget(e) = {}
                        THEN posts ELSE [posts EXCEPT ![e] = @ + 1]
  /\ UNCHANGED <<reloadVars, sent, acking>>

\* DEDUP_TTL_MS pass: the entry may be pruned, and a later post is another one.
Age(e) ==
  /\ e \in recentEvents \ old
  /\ old' = old \cup {e}
  /\ posts' = [posts EXCEPT ![e] = 0]
  /\ UNCHANGED <<reloadVars, sent, acking, resumed, recentEvents>>

----------------------------------------------------------------------------

Init ==
  /\ ReloadInit
  /\ sent = [e \in Events |-> 0]
  /\ acking = [e \in Events |-> 0]
  /\ resumed = [e \in Events |-> 0]
  /\ recentEvents = {}
  /\ old = {}
  /\ posts = [e \in Events |-> 0]

HandlerStep(e) == Deliver(e) \/ Acked(e) \/ AckRejected(e) \/ Handle(e) \/ Age(e)

\* The event loop, the provider that began an operation, and systemd go on; Slack,
\* the passing of time and the start of another operation need not.
NodeStep     == (LoadConfig \/ Watch \/ OnChange) /\ UNCHANGED slackVars
TimerStep    == Reload /\ UNCHANGED slackVars
LoadFailStep == LoadFails /\ Forget
WriterStep   == (EndWrite /\ UNCHANGED slackVars) \/ (RestartRouter /\ Forget)
UnitStep     == UnitStarts /\ Forget

Next ==
  \/ KeepsProcess /\ UNCHANGED slackVars
  \/ EndsProcess /\ Forget
  \/ \E e \in Events : HandlerStep(e)

Fairness ==
  /\ WF_vars(NodeStep)
  /\ WF_vars(TimerStep)
  /\ WF_vars(LoadFailStep)
  /\ WF_vars(WriterStep)
  /\ WF_vars(UnitStep)

Spec == Init /\ [][Next]_vars /\ Fairness

----------------------------------------------------------------------------

TypeOK ==
  /\ ReloadTypeOK
  /\ sent \in [Events -> 0 .. MaxDeliveries]
  /\ acking \in [Events -> 0 .. MaxDeliveries]
  /\ resumed \in [Events -> 0 .. MaxDeliveries]
  /\ old \subseteq recentEvents /\ recentEvents \subseteq Events
  /\ posts \in [Events -> 0 .. MaxDeliveries]

\* However often Slack sends an event, and however the handlers of its envelopes
\* are interleaved, one life of the router posts it at most once in the time an
\* event ID is to be remembered.
AtMostOnce == \A e \in Events : posts[e] <= 1

====
