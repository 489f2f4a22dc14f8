---- MODULE RouteReload ----
(***************************************************************************)
(* How a running router comes by its routes.                               *)
(*                                                                         *)
(* A provider writes routing.json; the file is bind-mounted, as a single   *)
(* file, into the router's container; the router loads it at start and     *)
(* again, half a second after the last change it was told of.  The mount   *)
(* names an inode, not a path: a file written in place is seen by the      *)
(* running router, one renamed over the path is seen only by a container   *)
(* started afterwards.  The local provider writes in place; the remote and *)
(* AWS providers (and the pause script on the instance) rename, and restart*)
(* the router after some of their operations and not after others.         *)
(*                                                                         *)
(* The first 33 lines of router/slack and router/telegram are the same;    *)
(* SlackRouter adds what the Slack router does with the routes.            *)
(***************************************************************************)
EXTENDS Naturals

CONSTANTS
  Texts,      \* the routing tables a generation may produce
  NoTable,    \* what a router that has loaded nothing holds
  Torn,       \* a file truncated and not yet written: it does not parse
  Hosts,      \* the hosts looked at, among "local", "remote", "aws"
  MaxWrites,  \* bound: how often routing.json is regenerated
  Faults      \* what may go wrong, among ReloadFaults and the router's own

ReloadFaults == {"gap", "kill", "restart"}
  \* gap:     the file changes between the load at start and the watch
  \* kill:    the writing process dies between truncating and writing
  \* restart: restarting the router fails, before or after the old one was removed

ASSUME TablesAssumption == NoTable \notin Texts /\ Torn \notin Texts /\ NoTable # Torn
ASSUME HostsAssumption == Hosts \subseteq {"local", "remote", "aws"}
ASSUME MaxWritesAssumption == MaxWrites \in Nat

VARIABLES
  host,         \* which provider manages the router
  routingJSON,  \* what the path holds
  mounted,      \* what the inode in the router's mount holds
  attached,     \* that inode is the one at the path
  writer,       \* "idle", or what is left of the regeneration under way
  quiet,        \* ghost: the last regeneration left the router running as it was
  writes,       \* regenerations so far
  router,       \* the router: "absent", "started", "loaded" or "watching"
  unitDue,      \* the systemd unit's docker run ended: it starts another
  config,       \* the table in the router's memory
  notified,     \* a change of the inode not yet reported to the watcher
  reloadTimer   \* the debounce timer is armed

fileVars   == <<host, routingJSON, mounted, attached, writer, quiet, writes>>
routerVars == <<router, unitDue, config, notified, reloadTimer>>
reloadVars == <<fileVars, routerVars>>

Idle == [step |-> "idle", text |-> NoTable, restart |-> FALSE]

InPlace == host = "local"

----------------------------------------------------------------------------
(* The file.                                                               *)

\* A write through the inode: the running router's mount shows it if it is the
\* same inode, and a router that watches is told.
Store(text) ==
  /\ routingJSON' = text
  /\ mounted' = IF attached THEN text ELSE mounted
  /\ notified' = (notified \/ (attached /\ router = "watching"))

\* The window between loadConfig and watch is closed unless "gap" is looked at.
Unwatched == router = "loaded" /\ "gap" \notin Faults

\* os.WriteFile truncates first; every local regeneration goes through it.
\* restart: BindChannel and UnbindChannel restart the router afterwards, the
\* lifecycle operations do not.
BeginWrite(text, restart) ==
  /\ InPlace /\ writer = Idle /\ writes < MaxWrites /\ ~Unwatched
  /\ Store(Torn)
  /\ writer' = [step |-> "writing", text |-> text, restart |-> restart]
  /\ quiet' = ~restart
  /\ writes' = writes + 1
  /\ UNCHANGED <<host, attached, router, unitDue, config, reloadTimer>>

EndWrite ==
  /\ writer.step = "writing" /\ ~Unwatched
  /\ Store(writer.text)
  /\ writer' = IF writer.restart THEN [writer EXCEPT !.step = "restart"] ELSE Idle
  /\ UNCHANGED <<host, attached, quiet, writes, router, unitDue, config, reloadTimer>>

WriterKilled ==
  /\ "kill" \in Faults /\ writer.step = "writing"
  /\ writer' = Idle
  /\ UNCHANGED <<host, routingJSON, mounted, attached, quiet, writes, routerVars>>

\* Rename as it was until bind and unbind were made to restart the router.
RenameWithoutRestart(text, restart) ==
  /\ ~InPlace /\ writer = Idle /\ writes < MaxWrites
  /\ routingJSON' = text
  /\ attached' = FALSE
  /\ quiet' = ~restart
  /\ writes' = writes + 1
  /\ UNCHANGED <<host, mounted, writer, routerVars>>

\* The other providers stage a file and rename it over the path.  Restarting:
\* provision, remove, bind, unbind and refresh-all (remote), refresh, remove, bind
\* and unbind (AWS).  Quiet: pause, unpause and refresh (remote), pause (AWS).
Rename(text, restart) ==
  /\ ~InPlace /\ writer = Idle /\ writes < MaxWrites
  /\ routingJSON' = text
  /\ attached' = FALSE
  /\ writer' = IF restart THEN [step |-> "restart", text |-> text, restart |-> TRUE]
                          ELSE Idle
  /\ quiet' = ~restart
  /\ writes' = writes + 1
  /\ UNCHANGED <<host, mounted, routerVars>>

\* AddChannel restarts the router and regenerates nothing.
BeginRestart ==
  /\ writer = Idle /\ writes < MaxWrites
  /\ writer' = [step |-> "restart", text |-> NoTable, restart |-> TRUE]
  /\ writes' = writes + 1
  /\ UNCHANGED <<host, routingJSON, mounted, attached, quiet, routerVars>>

----------------------------------------------------------------------------
(* The container.                                                          *)

\* docker run resolves the path anew; what the old process held is gone.
FreshContainer ==
  /\ router' = "started"
  /\ mounted' = routingJSON
  /\ attached' = TRUE
  /\ config' = NoTable
  /\ notified' = FALSE
  /\ reloadTimer' = FALSE

NoContainer ==
  /\ router' = "absent"
  /\ config' = NoTable
  /\ notified' = FALSE
  /\ reloadTimer' = FALSE
  /\ UNCHANGED <<mounted, attached>>

\* On an instance the container removed by the restart script is the one the
\* systemd unit's docker run waits for: the unit (Restart=always) sees it end.
UnitNotices == unitDue' = (unitDue \/ (host = "aws" /\ router # "absent"))

\* ensureRouter(restart), restartRouter, restartRouterOnInstance: the old
\* container is removed and a new one is run.
RestartRouter ==
  /\ writer.step = "restart"
  /\ FreshContainer
  /\ UnitNotices
  /\ writer' = Idle
  /\ UNCHANGED <<host, routingJSON, quiet, writes>>

\* ... or not run; every caller warns or returns the error, none tries again.
RestartFails ==
  /\ "restart" \in Faults /\ writer.step = "restart"
  /\ NoContainer
  /\ UnitNotices
  /\ writer' = Idle
  /\ UNCHANGED <<host, routingJSON, quiet, writes>>

\* ... or not even removed, and goes on as it was.
RemoveFails ==
  /\ "restart" \in Faults /\ writer.step = "restart"
  /\ writer' = Idle
  /\ quiet' = TRUE
  /\ UNCHANGED <<host, routingJSON, mounted, attached, writes, routerVars>>

\* The unit's next docker run, five seconds later: it removes whatever has the
\* container's name, also the container the script just started.
UnitStarts ==
  /\ unitDue
  /\ FreshContainer
  /\ unitDue' = FALSE
  /\ UNCHANGED <<host, routingJSON, writer, quiet, writes>>

\* Provisioning (local) and cycling the host start a router that does not run.
EnsureRouter ==
  /\ host # "aws" /\ router = "absent"
  /\ FreshContainer
  /\ UNCHANGED <<host, routingJSON, writer, quiet, writes, unitDue>>

----------------------------------------------------------------------------
(* The process.                                                            *)

\* Exit under a unit that would not restart it.
ExitForGood ==
  /\ NoContainer
  /\ UNCHANGED <<host, routingJSON, writer, quiet, writes, unitDue>>

\* The process ends: the unit starts another; the containers of the local and
\* the remote provider have no restart policy.
Exit ==
  /\ NoContainer
  /\ unitDue' = (unitDue \/ host = "aws")
  /\ UNCHANGED <<host, routingJSON, writer, quiet, writes>>

\* The first load; a file that does not parse ends the process.
LoadConfig ==
  /\ router = "started" /\ mounted # Torn
  /\ config' = mounted
  /\ router' = "loaded"
  /\ UNCHANGED <<fileVars, unitDue, notified, reloadTimer>>

LoadFails ==
  /\ router = "started" /\ mounted = Torn
  /\ Exit

\* watch(CONFIG_PATH), the lines after it and client.start().
Watch ==
  /\ router = "loaded"
  /\ router' = "watching"
  /\ UNCHANGED <<fileVars, unitDue, config, notified, reloadTimer>>

\* The watcher's callback: clearTimeout, then setTimeout.
OnChange ==
  /\ router = "watching" /\ notified
  /\ notified' = FALSE
  /\ reloadTimer' = TRUE
  /\ UNCHANGED <<fileVars, router, unitDue, config>>

\* What a reload leaves in memory: a file that does not parse changes nothing.
Reloaded == IF mounted = Torn THEN config ELSE mounted

Reload ==
  /\ router = "watching" /\ reloadTimer
  /\ reloadTimer' = FALSE
  /\ config' = Reloaded
  /\ UNCHANGED <<fileVars, router, unitDue, notified>>

----------------------------------------------------------------------------

ReloadInit ==
  /\ host \in Hosts
  /\ routingJSON \in Texts
  /\ mounted = routingJSON
  /\ attached = TRUE
  /\ writer = Idle
  /\ quiet = FALSE
  /\ writes = 0
  /\ router = "started"
  /\ unitDue = FALSE
  /\ config = NoTable
  /\ notified = FALSE
  /\ reloadTimer = FALSE

\* Steps that leave the process, and what it holds besides its routes, alone.
KeepsProcess ==
  \/ \E text \in Texts, restart \in BOOLEAN :
       BeginWrite(text, restart) \/ Rename(text, restart)
  \/ BeginRestart
  \/ EndWrite
  \/ WriterKilled
  \/ RemoveFails
  \/ LoadConfig
  \/ Watch
  \/ OnChange
  \/ Reload

\* Steps that end it.
EndsProcess ==
  \/ RestartRouter
  \/ RestartFails
  \/ UnitStarts
  \/ EnsureRouter
  \/ LoadFails

ReloadTypeOK ==
  /\ host \in Hosts
  /\ routingJSON \in Texts \cup {Torn}
  /\ mounted \in Texts \cup {Torn}
  /\ attached \in BOOLEAN
  /\ writer \in [step : {"writing", "restart"}, text : Texts \cup {NoTable},
               restart : BOOLEAN] \cup {Idle}
  /\ quiet \in BOOLEAN
  /\ writes \in 0 .. MaxWrites
  /\ router \in {"absent", "started", "loaded", "watching"}
  /\ unitDue \in BOOLEAN
  /\ config \in Texts \cup {NoTable}
  /\ notified \in BOOLEAN
  /\ reloadTimer \in BOOLEAN

\* Nothing is under way that could still change the router's table.
Settled ==
  /\ writer = Idle
  /\ router = "watching" /\ ~unitDue
  /\ ~notified /\ ~reloadTimer

\* The last regeneration renamed the file and left the router as it was.
LeftStale == quiet /\ ~InPlace

\* The table in memory is the file's, or the file cannot be read, or it was renamed
\* behind the router's back.
Current == config = routingJSON \/ routingJSON = Torn \/ LeftStale

\* Once things have settled, the router (index.js:22-33) routes by what routing.json
\* says, however writes, changes of the watched inode, the debounce timer and
\* restarts were interleaved, and never by half a file.
SettledIsCurrent == Settled => Current

\* A router that runs ends up with what routing.json ends up holding, whatever
\* reloads hit a half-written file on the way; one on an instance does run, whoever
\* removed its container last (user-data.sh.tftpl:229-250).
RoutesConverge ==
  <>[](IF router = "watching" THEN Current ELSE host # "aws")

\* What "watch for config changes and hot-reload" (router/slack/src/index.js:22) and
\* the reason the remote provider gives for regenerating routing.json in a refresh
\* (provider.go:926) promise: a router that runs ends up with the current table.
RoutesFollowFile ==
  <>[](router = "watching" => config = routingJSON)

====
