# Verification of Conga Line

TLA+ modules, TLC configurations and TLAPS proofs for the parts of
[Conga Line](../src/README.md) that decide what runs on a host: the lifecycle of
an agent under its providers, the files and containers it consists of, and the
routes that lead to it. Everything here is translated from the source; line
numbers are in `PROJECT.json` under `map`.

```
cd tla
tlc -workers 2 -config LocalFaults.cfg MCLocalAgents      # one run
tlapm LocalAgentsProofs.tla                                # the proofs
```

## 1. The system

Conga Line runs one agent (OpenClaw or Hermes) per person or team, each in a
container of its own. A *provider* does the work on a laptop (`local`), a VPS over
SSH (`remote`) or an EC2 instance through SSM (`aws`). The CLI, an MCP server and
a manifest bootstrap call the provider. A router per chat platform receives the
platform's events and posts each to the agent bound to its sender or channel.

| Component | State | Operations | Interacts with |
|---|---|---|---|
| Local provider (`pkg/provider/localprovider`) | `agents/<name>.json`, generated files, containers, networks, iptables rules, `routing.json` | provision, remove, pause, unpause, refresh, refresh-all, cycle, teardown, status | docker CLI, iptables in a helper container; routers read `routing.json` |
| Ports and routes (`pkg/common/ports.go`, `routing.go`) | none (pure) | `NextAvailablePort`, `GenerateRoutingJSON` | every provider |
| AWS provider (`pkg/provider/awsprovider`) | `/conga/agents/<name>` in SSM | the same, and `DeployEgress` | Run Command on the instance, SSM, Secrets Manager |
| Managed-host engine (`pkg/provider/managedhost`) | systemd unit, container, network of an agent | `ReconcileAgentNetwork`, `DefineService`, `Restart` | called by the AWS provider through a transport |
| Instance scripts, bootstrap (`scripts/`, `terraform/.../user-data*.tftpl`) | the same as the engine's, `routing.json` | add, pause, remove, deploy-egress; set-up at every boot | run by Run Command and by cloud-init |
| Channel management (`*/channels.go`) | shared secrets, `router.env`, bindings in the records | add, remove, bind, unbind | lifecycle (refresh), routers |
| Slack router (`router/slack`) | routes in memory, event IDs seen | event, reload, forward | Socket Mode, agents' ports |
| Telegram router (`router/telegram`) | the same, polling offset | poll or webhook, forward, reply | Bot API, agents' ports |
| Remote provider (`pkg/provider/remoteprovider`) | as local, on the VPS | as local | one reconnecting SSH client |
| SSH client (`remoteprovider/ssh.go`) | the connection, its mutex | run, upload, download, reconnect | every operation of the remote provider |
| Manifest bootstrap (`pkg/manifest`) | none of its own | seven steps, each skipped if its result seems there | any provider |
| Policy (`pkg/policy`, `mcpserver/tools_policy.go`) | `conga-policy.yaml`; per agent the proxy's configuration and a manifest | save, merge, effective domains, deploy, drift | providers, MCP tools, proxies |
| iptables rules (`pkg/provider/iptables`) | `DOCKER-USER` chain | add, remove, check | local provider, unit hooks |
| Integrity (`*/integrity.go`, `managedhost/guard.go`) | baseline hashes | baseline, check, guard | lifecycle |
| Configuration, overlays, behaviour files (`pkg/common`, `pkg/runtime`, `cmd/agent_behavior.go`) | `openclaw.json`, the included files, behaviour files in three places, their manifest | generate, compose, add, remove, reset | lifecycle, the operator's repository, the agent's workspace |
| MCP OAuth (`internal/mcpoauth`) | token blobs as secrets | capture, restore | lifecycle |

Hard behaviours, in short (each with its line under `hazards`):

* No operation is atomic. Each is up to a dozen docker commands and file writes,
  and some callers collect errors, some return at the first, some go on with a warning.
* Nothing locks the data directory; a CLI process and MCP tool calls interleave.
* A flag saved first makes the retry of a half-done operation a no-op.
* Ports, addresses and iptables rules are reused: what is left behind by a failed
  call may belong to somebody else later.
* On the managed host a command can outlive its caller, systemd and Docker act on
  their own, and the bootstrap sets everything up again, in its own way, at every boot.
* The routers acknowledge before they deliver and remember what they saw in memory.
* Over SSH an error says nothing about what happened, and much of the remote provider
  takes an error for absence.
* Operator, agent and Conga write the same files, and each keeps a copy somewhere: a
  hash, a manifest, a snapshot of the repository.

What makes the components correct:

* *Local provider.* Two agents never share a port unless the operator names one that is in
  use; otherwise an event never reaches a container other than the one its route was
  written for; no route outlives its agent; success means a serving agent; no agent runs before its proxy.
* *Managed host.* A refresh repairs whatever earlier calls, crashes and boots left
  behind; a migration that cannot finish leaves the agent alone, and one that tore
  the proxy down does not report success without one; a paused agent is down.
* *SSH.* A command takes effect at most once; an answer means that it did; every request
  returns; a connection that died unused is replaced without a word.
* *Remote provider.* As local, with success told apart from a lost answer, and an
  undisturbed call as the way out of whatever a disturbed one left.
* *Channels.* A binding is in the record, in the agent's configuration, in its container and in the
  routes once a call about it has ended undisturbed; credentials go last, as far as the list of
  agents can be had; adding and removing again repair.
* *Policy.* The file is never torn; what is reported as deployed is enforced, as far as the list
  of agents can be had; no call starts a proxy with the rule of an earlier time.
* *Files.* A deployment reported done is what the operator last said, where his command
  reached the source; what the admin wrote is not lost but to an edit in a short window; the
  gateway token changes only when somebody touched the config or it could not be compared.
* *Routers.* An event is handed to at most one agent and at most once within the
  window; a reload ends with the routes of the last write.
* *Bootstrap.* A second run ends where an undisturbed first run ends.

## 2. Modules

| Module | What it is | Checked by | Proved in |
|---|---|---|---|
| `LocalAgents` | the agent lifecycle of the local provider | `MCLocalAgents` | `LocalAgentsProofs` |
| `AgentRegistry` | what the records promise, abstractly | as a property of `LocalAgents` | refinement in `LocalAgentsProofs` and `RemoteAgentsProofs` |
| `ManagedHost` | AWS provider, engine, scripts, bootstrap | `MCManagedHost` | `ManagedHostProofs` |
| `RemoteCommand` | what a command over SSH promises, abstractly | as a property of `SSHClient` | refinement in `SSHClientProofs` |
| `SSHClient` | the reconnecting client under concurrent callers | `MCSSHClient` | `SSHClientProofs` |
| `RemoteAgents` | the agent lifecycle of the remote provider, over `RemoteCommand`'s outcomes | `MCRemoteAgents` | `RemoteAgentsProofs` |
| `Channels` | channel management of the three providers | `MCChannels` | `ChannelsProofs` |
| `EgressPolicy` | the policy file, its rules, deployment and drift | `MCEgressPolicy` | `EgressPolicyProofs` |
| `AgentFiles` | config, token, baseline, includes and behaviour files | `MCAgentFiles` | `AgentFilesProofs` |
| `RouteReload` | how a router comes by its routes: file, mount, container, watcher | through `SlackRouter` | through `SlackRouter` |
| `SlackRouter` | `RouteReload` and the handler of Slack's envelopes | `MCSlackRouter` | `SlackRouterProofs` |

### LocalAgents

One variable per thing the provider changes, by agent: `rec` (the JSON record, which
may be missing or torn), `ctr` and `pub` (the container and the loopback port it
publishes), `proxy`, `net`, `rules` (the agents whose current address has its egress
rules), `stale` (the agents that left rules for an address they lost), and `routing`
(per channel ID the port, with the agent it was written for as history). `given` is history too:
the agents for which the operator ever named a port. `call[c]` is the frame of the
method that caller `c` runs: which one, the label of the next step, the copy of the
record it read, the agents it still has to visit, whether it collected an error.

A step is one docker command or one file write with all its outcomes. The actions
named after methods (`ProvisionAgent(c, a, id)`, `PauseAgent(c, a)`, ...) begin a
call; `ProvisionAgent` takes the next port (`NextPort`), or one that the operator names (`--gateway-port`,
`gateway_port`), which neither `resolveGatewayPort`, the MCP tool nor the provider compares with
those in use: `Named` is the bound of what he names; `ReadRecord`, `SaveRecord`, ..., `AddRules` are the steps, shared by the methods
that have them; the label after a step depends on the method, as the order of
statements does in the code. `Fail` has what a failure means per method: `RemoveAgent`
and `PauseAgent` collect it, `Teardown` ignores it, `CycleHost` warns and takes the
next agent, the others return. `GetStatus` is its side effect only. `AgentExits`,
`Crash` (of a caller) and `Reboot` (of the host) are the environment.

Details kept on purpose: docker inspect that fails looks like absence; `docker rm -f`
takes a running container; a network with a running container is not removed;
`docker run` that loses its port leaves a created container; a new container may be
given an address that still has rules; a torn record is skipped by `ListAgents` and
refused by `GetAgent`; two records with one channel ID give the entry to the last in
the sorted list.

Left out: the content of generated files, secrets, behaviour files and the integrity
baseline (one step, `WriteFiles`, that can fail before anything that runs is touched);
the containers of the channel routers; `Setup`.

### AgentRegistry

Records and nothing else: a caller registers an agent (anew or over an older record)
with the port the operator named for it or else with one above all others, sets or clears the
flag, deletes, or is cut short and leaves any set of the records torn or gone. `given` are the
agents whose port may have been named. `LocalAgents` implements it with one
caller at a time, by the identity on `rec` and `given`: steps that touch the host are stutters,
loading and saving a record together are one step of the registry. With two callers
it does not: see section 3.

### ManagedHost

`param` is the parameter in SSM. On the instance: `unit` (none, the bootstrap's without
`--ip`, or the engine's with `--ip .2`), `wanted` (what systemd keeps up), `agentAt` and
`proxyAt` (the address each container holds, 0 when it is not up), `net` (no network, one on Docker's
subnet, or on the planned one), `ghosts` (networks with an endpoint that cannot be
disconnected), `route` (the entry in `routing.json`: the bootstrap's bridge URL or the
engine's loopback URL). `boot` is the bootstrap, `late` are the commands whose caller
has given up, `call[c]` is a frame as above; its `migrated` is the value that
`defineAndStartAgentService` returns, and `since` the count of faults when the call
began (history, read by one property only).

A step is one call of the parameter store or one command on the instance. The long
commands are *jobs* (`InfraJob`, `HaltJob`, `RemoveJob`, `DeployJob`, `StartJob`), each with
the outcomes of its script: `Command` lets the caller wait for one, or give up on it,
in which case the job stays in `late` and `LateCommand` runs it at any later time.
`PrepareNetwork`, `CommitNetwork` and `CreateNetwork` are the phases of
`ReconcileAgentNetwork`. `PowerCycle` is what a restart of the instance does;
`BootClear`, `BootSetup`, `BootStart` are the bootstrap, which runs at every boot
(`user-data-shim.sh.tftpl` has `[scripts-user, always]`). `Retry` and `GiveUp` are systemd.

`AddressOf` is the one rule about addresses: with `--ip` the address must be free and
the subnet static, without it Docker hands out the lowest that is free.

Taken for granted: agents have ports of their own, and so subnets (`network.go:25` calls the port unique), within the
range of `PlanAgentNetwork`; nothing checks that of a port the operator names.

Left out: an instance that was stopped and does not start again, the router container
and the dashboard (no property here depends on them), configuration and secrets (one
step, `WriteConfig`, that can fail). Agents do not interact on the host except through
`routing.json`, so one agent and one caller carry the properties in the run; the proofs are for any number
of agents, and all but one of them for any number of callers.

### RouteReload and SlackRouter

`routing.json` is mounted as a single file into the router's container, so the router
sees an inode: `routingJSON` is what the path holds, `mounted` what that inode holds,
`attached` whether they are the same. The local provider truncates and writes in place
(`BeginWrite`, `EndWrite`); the remote one (`SSHClient.Upload`) and the AWS one
(`uploadFile`, and the pause script) rename (`Rename`). The parameter `restart` is whether
the operation restarts the router afterwards, which bind and unbind do everywhere,
provision and remove on a VPS, refresh and remove on an instance, and pause nowhere. `quiet`
is history: the last regeneration left the router as it was. Host `"local"` also
stands for a VPS without SFTP, where `Upload` falls back to `cat >`.

`FreshContainer` is every `docker run` of a router; `UnitStarts` the one of the systemd unit,
whose `docker run` ends when the restart script removes the container and which then
removes the script's. `LoadConfig`, `Watch`, `OnChange`, `Reload` are lines 5-33 of the
routers' `index.js`, step by step as the event loop can be interrupted.

`SlackRouter` adds what one life of the process remembers. A handler gives up the event
loop once, at `await ack()`: `acking` counts the handlers of an event that wait there,
`resumed` those whose wait is over, `Handle` is the rest of the handler. `Age` is the
passing of `DEDUP_TTL_MS` for one entry; `posts` is history, the posts since an entry was
made and young. Slack is external: it sends an event up to `MaxDeliveries` times.

Left out: what becomes of a post (it is only logged), signatures, and events without
an ID, which the code never takes for duplicates.

### RemoteCommand and SSHClient

`RemoteCommand` is a command's life as its caller sees it: asked, perhaps in effect (once),
answered or failed. `SSHClient` is `ssh.go` under any number of callers: `conn` is the
number of the connection the client holds, `alive` whether it works, `mu` the mutex of
`reconnect`, `req[c]` the request of a caller with the label of its next step and the
connection its session is on. `Open`, `Close`, `Dial`, `OpenAgain` are the first attempt, the two halves of
`reconnect` and the second attempt; `Execute`, `Answer`, `Break`, `Cancel` are the fate of
the command; `Refuse` has the shell fallback of `Upload` and `Download`, with a
reconnection of its own. Nobody looks again, once it holds the mutex, whether the
connection it found dead has been replaced, so a second caller closes the connection the
first is using: that is in the model, and why `StaleIsTransparent` is of callers that are alone.
The status mapping of the refinement is `Status`.

### RemoteAgents

`LocalAgents` again for a host behind SSH, but with the remote provider's own order and
own treatment of errors. Its steps are commands with the outcomes `RemoteCommand` has: done,
done or not with an error (`lost`), or not done (`drop`). `docker inspect` that fails is absence,
`ls` that fails is no agents, `Teardown`, `RemoveAgent` and `PauseAgent` look at no error.
`ProvisionAgent` lists the agents for a port (`PickPort`), `ProvisionWithPort` takes the one the operator
names (`Named`). `router` is the Slack router's container and the table it was started with, `ready` what `Setup`
leaves, `link` whether the host can be reached. `call.clean` is history: nothing has
disturbed the call. One method runs at a time, which `ssh.go` demands of its callers.

Left out: the wizard of `Setup` and its installation of Docker, `GetStatus`, file contents.

### Channels

Eight places that nothing keeps together: `rec`, `secrets`, `env` (`router.env`), `routing`, `config`,
`container`, and the two router containers in `router`. A call is at a step of its method;
`AddSteps`, `RemoveSteps`, `BindSteps`, `UnbindSteps` give the step after each, which depends on the provider. A
step is an action (`WriteSecret`, `RestartRouter`, `RefreshAgent`, ...); `Fail` is any step that fails
without an effect, `Break...` and `Lose...` are those that fail half way, `Die` is the end of the process. `Tolerance` is
what a failed step leads to: an error at once, a warning (`Warned`), or an error at the end of the method, by which AWS's
`RemoveChannel` reports what it has `Collected`. Some failures are not noticed by anybody: `Skip` is a step that is
passed over (`Unnoticed`: a router container whose inspection fails is neither stopped nor replaced), `LoseList` and
`LoseRoutes` are a list of the agents that is lost on the way from a VPS and taken for a shorter one. `call.clean` is history and
says that no step has failed, `call.missed` the bound agents such a list hid. `ListBound` and
`StripRecord` are the loop of `RemoveChannel` over the bound agents. `RouterEnv` is what the secrets give
`router.env`, and `SlackRouter` what becomes of a router started with it: without Slack's app token, which is
optional, and its signing secret the process exits although `docker run` succeeded. `UnitRestarts` is the systemd
unit of an instance, which starts the router again as long as there is a `router.env`. A binding is its platform, since an agent
has at most one of each; a router has the table it was started with. AWS stores a record without the agent's
runtime (`Saved`), and a configuration cannot be generated for a platform the runtime does not
support (`Generable`); a configuration has only the platforms that have their credentials (`Generated`;
Hermes' webhook adapter, which is on for any binding, is not told apart). `Launches` bounds the agents that are provisioned.

Left out: records cut short while they are written (`LocalAgents`), the text of `router.env`, the Telegram router's own table and token, and calls
that are refused before they change anything.

### EgressPolicy

`file` and `tmp` are the policy file and its temporary copy (a policy, missing, torn, or not valid),
`conf`, `manifest` and `proxy` per agent the proxy's configuration on the host, the drift manifest, and
what the running proxy enforces. `MergeForAgent`, `EffectiveAllowedDomains`, `GenerateProxyConf`,
`DiffManifests` are the pure algorithms. A call is `set_egress` (`Save`, or `SetAndDeploy`: load, change,
write, rename, and with `deploy` read again and deploy), `conga_policy_deploy` (`Deploy`) or the
lifecycle's refresh (`Refresh`); `Following` has the order of its steps, by provider: the local and remote ones
start a proxy with deny-all when the file cannot be used, AWS deploys what it reads. `Edit` is the
operator with an editor, `HostRestart` and `Die` are the environment; which agents are paused is
chosen once. A deployment to all agents has a list of its own (`told`), and on a laptop or VPS
`conga_policy_deploy` works by `RefreshAll`, which makes another (`ByRefreshAll`); `Reported` are the agents the
reply names. `LoseList` is a record that cannot be read, or `ls` lost on the way from a VPS: a shorter list, in the one
place or the other, and no error; `lost` are the agents it hid. There is one policy file: the MCP tools read
`~/.conga/conga-policy.yaml` (`tools_policy.go:18`), a provider the one in its data directory, which is
the same unless `--data-dir` says otherwise. Domains have no structure: an allowed
wildcard does not cover a blocked name, in the model as in the code's comparison.

### AgentFiles

What a refresh writes and what others write between its steps. Behaviour files are in three
places: the operator's repository (`repo`), the local provider's copy (`snapshot`), the agent's
workspace (`work`), and `manifest` says what was deployed. `config` is `openclaw.json` as its
gateway token and the settings it came from, `baseline` its hash (a hash is the content hashed),
`admin` and `managed` the included files. A call is its label in `Following`: the order of
`ProvisionAgent`, `RefreshAgent`, rebaseline and `regenerateAgentConfig`. The operator, the agent and
the admin edit between any two steps. A write may fail, a read over SSH may be lost, the
process may die; files are written whole, except for the manifest.

The methods that write over `agent-custom.json` look at it first, and look and write are steps of their own: a
reset is `ReadCustom`, `BackUpCustom`, `EmptyCustom`, then a refresh, and `ensureAgentCustomConfig` is `EnsureCustom` and
`CreateCustom`. `admin` is the edit in which the admin wrote the file, `backups` the edits of which there is a backup.

`said`, `astray`, `doubt`, `applied`, `outside`, `exposed` are history: what the operator's last
command or edit says of each file, the files which that command wrote where nothing is deployed from, the
files about which a step failed, whether a deployment was reported, whether the config has been touched,
or could not be read or compared, since its baseline was saved, and the admin's edits that came while a call was about to write over the
file or that a VPS could not copy. No guard reads them.

Left out: AWS, whose files are made by the scripts and whose check is a timer on the instance, and
the text of the generated config.

### Composition

`SlackRouter` extends `RouteReload`. `RemoteAgents` rests on `RemoteCommand`, which `SSHClient`
is shown to implement. The providers meet the other modules in files: `routing.json`
(`LocalAgents`, `RemoteAgents`, `ManagedHost`, `Channels` write it, `RouteReload` reads it), the
records (`AgentRegistry`), and the proxy's configuration (`EgressPolicy` writes it, the lifecycle starts
it). Each module has its neighbour's step as one step that can fail.

## 3. Runs

| Run | Instance | Asks |
|---|---|---|
| `local_faults` | 2 agents, 1 caller, 1 channel ID, 2 ports, one in use named, 2 faults of the kinds `HostFaults` | `TypeOK`, `PortsHeld`, `NoMisdelivery`, `NoRouteToDeparted` |
| `local_crash` | 2 agents, 1 caller, 2 ports, one in use named, 2 faults of the kinds `AllFaults` | `ServingOnSuccess`, `PortsDistinct`, `ProxyBeforeAgent`, `RecordsRefineRegistry` |
| `local_pause_retry` | 2 agents, 1 caller, 1 crash | `PauseTruthful`, violated |
| `managed_faults` | 1 agent, 1 caller, all methods, 2 faults of all kinds | `TypeOK`, `RefreshRepairs`, `MigratedProxy`, `GhostSafe` |
| `slack_router` | all three hosts, 2 events sent twice, 2 tables, 2 regenerations, pruning beyond 1 entry, faults `ack`, `kill`, `restart` without bound | `TypeOK`, `SettledIsCurrent`, `AtMostOnce`, `RoutesConverge` |
| `ssh_client` | 2 callers, 4 dials, 2 faults | `TypeOK`, `StaleIsTransparent`, `ImplementsCommand`, `RequestsReturn` |
| `remote_faults` | 2 agents, 1 channel ID, 2 ports, one in use named, 1 fault of all kinds | `TypeOK`, `ServingOnSuccess`, `RefreshRepairs`, `RemovalComplete`, `RouterCurrent`, `ProxyBeforeAgent` |
| `channels` | 2 agents (symmetric), 2 platforms, 3 providers, 2 kinds of launch, 1 fault | `TypeOK`, `AddRepairs`, `BindingTakesEffect`, `RemovalComplete`, `CredentialsOutliveBindings` |
| `egress_policy` | 2 agents (symmetric), 1 caller, 1 domain, 3 providers, 3 calls, 2 faults | `TypeOK`, `FileNeverTorn`, `DeployedIsEnforced`, `DriftIsHonest`, `StartsFromTheFile` |
| `agent_files` | 2 files, 2 texts, 2 settings, local and remote, 5 calls, 1 edit, 1 fault | `TypeOK`, `AppliedWhenDone`, `TokenKept`, `AdminKept` |
| `agent_token` | the same, remote only, 2 calls, 1 lost read | `GatewayHasToken`, violated |
| `slack_stale` | the remote host, 3 regenerations, no fault | `RoutesFollowFile`, violated |

A run that passes explores every reachable state of its instance. The bounds are the constants
`MaxPort`, `Named` and `MaxFaults` (and, in the managed host, the set of requests); calls are
not bounded, so sequences of calls of any length are in. Two agents are what ports,
routes and sweeps need to conflict; two faults let one fault hit a call and another
hit the call that should repair it. Port numbers do not run out in the code: with
`MaxPort = 2` a `ProvisionAgent` that would need port 3 is not begun, while
removing and provisioning again, and so reuse of ports, is. `Named` lets the operator provision the second agent with
the port that the first is given (`PortInUse`). `PortsDistinct`, `PortsHeld` and `NoMisdelivery` say nothing of
an agent whose port was ever named; that such an agent does not take away what they say of the others takes
three agents to show and is what the proofs do. `ServingOnSuccess` and `RefreshRepairs` are of all agents.

`HostFaults` of `local_faults` are commands that fail with the container or the network
left as docker leaves them, files that cannot be written, and containers that exit.
The other kinds are not in it because they defeat its properties, and TLC says how
(each by itself, one fault is enough):

| Kind | Defeats | How |
|---|---|---|
| `inspect` | `PortsHeld` | a removal takes the container for absent, deletes the record, and the container goes on holding a port that is handed out again |
| `torn` | `PortsHeld`, `NoRouteToDeparted` | the record cannot be read, so its port is not counted while the container runs |
| `crash`, `reboot` | `NoMisdelivery`, `NoRouteToDeparted` | a removal dies between deleting the record and writing `routing.json`; the port goes to the next agent, and so do the events of the first |
| `route` | the same | `routing.json` cannot be written, which is a warning |
| `wipe` | the same | a teardown that deletes the records and not `routing.json` |
| `stop`, `rm` together | `PortsHeld` | a removal that could do neither deletes the record all the same (and returns an error) |

The repository promises nothing about these, so they are no findings; they are what a
change to the order of `RemoveAgent` (routes first, record last) would have to be
checked against. `local_crash` has every kind but `exit` and `iptables`, which
`local_faults` has and which excuse an agent that is down or without rules; a proxy that fails is in
`local_crash` only, since no property of `local_faults` reads it. It has
no channel ID, which none of its properties reads.

In `slack_router` two deliveries of an event are what it takes for two handlers of one event
to overlap, two events what it takes to prune, and two regenerations what it takes for one
to overlap the reload or the restart of the other. Its fault kind `gap`, a change of the file
between the first load and the watch, is not in it: it defeats `SettledIsCurrent`, since
nobody tells the router. The window is the rest of one pass of the event loop.

In `ssh_client` two callers are what a race for the mutex takes, and four dials let both lose a connection
and one lose it twice; `StaleIsTransparent` says where the bound would show. In `remote_faults` one fault is
enough for a call that leaves something behind and another that meets it: calls are not
bounded there, nor in `channels`, where agents start as one without a channel and a paused one bound to Telegram (`SomeLaunches`)
and come to the other bindings by `BindChannel` and `UnbindChannel`. In `egress_policy` three calls are a deployment that half fails, another policy saved, and a
retry or refresh; in `agent_files` five are provision, add, refresh, remove, refresh, with an edit
and a fault anywhere. One domain is enough, since no definition relates two; of sections there are
one that allows, one that blocks without enforcing, one that is not valid. A file with a
shipped default and one without behave differently, so there are two.

Deadlock is checked except where calls, deliveries or regenerations are
counted and may be used up (`egress_policy`, `agent_files`, the router runs); no state of the other systems is terminal. Every property
of a passing run has a mutant, a plausible slip in the code under which TLC finds the
property violated; they are the definitions marked *mutant* in the modules.

### What the violated runs show

Each states what the repository says in so many words, and TLC gives the steps that
lead elsewhere (`findings` has quotes and lines).

* `PauseTruthful`: a pause dies after the flag is saved; the retry says the agent is
  already paused, while its container runs.
* `RoutesFollowFile`: a pause, an unpause or a refresh on a VPS renames `routing.json` and does
  not restart the router; its mount keeps the old file, so hot-reload sees nothing, and
  a paused agent's events go on to its port. `PauseAgent` on an instance does the same.
* `GatewayHasToken`: a refresh on a VPS downloads `openclaw.json` once to check it and once more
  for its token; when the second download is lost the token is the empty string, the config
  is written with it and becomes the baseline, and later refreshes keep it so.

### What does not hold

Met while modelling, in the modules unless a line says otherwise, and kept here rather than as
runs, most of them because nothing in the repository promises otherwise:

* A port the operator names is taken as it is (`resolveGatewayPort`, `admin_provision.go:294`, and `tools_lifecycle.go:66`): one
  call without a fault can give an agent the port of another's record. While the other runs, `docker run` fails on it; while it is
  down, it does not. Both entries of `routing.json` then name one port, and the router posts the events
  of the one to the container of the other, whichever runs (`PortsDistinct`, `PortsHeld`, `NoMisdelivery` without `given`).
  On an instance the same port is the same subnet, and a port more than 255 above the base has none (`network.go:36`).
  Ports outside the range that `NextAvailablePort` hands out are not in the models.
* Two callers of the local provider that provision at once list the agents before either
  saves, and take one port (`PortsDistinct` with two callers).
* `CycleHost` stops containers before `RefreshAgent` can ask for the address whose rules it
  removes; the rules stay (`stale` of `LocalAgents`), against the comment at line 913.
* An unpause on an instance migrates the network and starts the unit; the last step fails, the
  flag goes back to paused, the unit stays up and routed.
* A refresh on an instance that does not migrate takes a failure of the last step for a warning, but
  the script has removed the proxy by then, against the comment at line 607.
* The bootstrap starts the proxy without `--ip` after every boot, so it takes the agent's
  address, against `network.go` line 14; `RefreshRepairs` names it as one of three ways out.
* `RemoveChannel` deletes `router.env` while the other platform is configured; the requirements of
  channel management have it regenerated.
* `AddChannel` returns nil with no Slack router running if the app token was not given, or, for Telegram on a VPS or an
  instance, if Slack is not configured: the router it starts exits at `index.js:37` (`AddRepairs` says when it is up).
* After one lost answer to `ls` a `RemoveChannel` on a VPS strips nobody, deletes the secrets and returns nil while
  agents are still bound (`call.missed` in `RemovalComplete` and `CredentialsOutliveBindings`).
* A router container whose `docker inspect` fails is not stopped by `RemoveChannel` (`localprovider/channels.go:112`,
  `remoteprovider/channels.go:134`), nor replaced by a bind on a VPS. On an instance `docker rm -f` (`awsprovider/channels.go:96`) is
  undone by the unit's `Restart=always` as long as `router.env` is there, so `RemoveChannel` may end with a router that runs on
  secrets that are gone.
* `ensureTelegramRouter` takes secrets it cannot read for none and returns nil without a router.
* After one lost answer on a VPS (to `ls`, or for one record) `RefreshAll` refreshes fewer agents and returns nil, and
  `conga_policy_deploy` reports every agent of its own earlier list as deployed (`tools_policy.go:713`); `set_egress` with `deploy`
  says that nothing is left to deploy, having deployed to the agents of the shorter list, or to nobody (`lost` in `DeployedIsEnforced`).
* A host of AWS that restarts starts its proxies with the configuration that is there, which may be older than the policy
  file, or from a deployment that was reported as failed (`StartsFromTheFile` says which).
* `conga agent add` and `rm` for an agent on a VPS write the data directory of the operator's machine, from which nothing is deployed,
  though the help says the file is deployed on the next refresh (`agent_behavior.go:43`, `402`); local `--role` fills the repository
  and not the copy that a provision deploys (`localprovider/provider.go:1872`), though `admin_provision.go:76` says the overlay
  loader picks it up (`astray` in `AppliedWhenDone`).
* A baseline whose download is lost and that cannot be uploaded again in the same outage counts as tampering
  (`integrity.go:29`), and a refresh gives an untouched config a new token (`outside` in `TokenKept`).
* An edit of `agent-custom.json` between a call's look at it, or its backup, and its write is lost, though the comment of `ensureAgentCustomConfig`
  says it never overwrites (`exposed` in `AdminKept`).
* After one lost answer to `ls` the remote provider hands out a port twice, or writes an empty
  `routing.json` (`PortsAreDistinct` of `RemoteAgentsProofs` is therefore for a link that holds).
* Two `set_egress` calls share one temporary file: a save may publish the other's policy, and,
  written in two halves, a torn one (`FileNeverTorn` is for one caller).
* Drift reads a manifest that is written before the proxy is replaced: after a failed
  replacement an agent can be in sync whose proxy enforces an older rule (`DriftIsHonest` is without failures).
* On a VPS a reset of `agent-custom.json` empties it also when the copy failed (`exposed` again). Backups are named by the
  second, so of two resets in one second only the second's is kept, on both providers; this is not in the model, where each
  backup has a name of its own.
* A behaviour file whose removal failed, or that was written by a deployment that died before its
  manifest, stays for good: the manifest no longer lists it (`doubt` in `AppliedWhenDone`),
  against section 3.4 of the overlay's spec.

## 4. Fairness

`LocalAgents`, `ManagedHost`, `RemoteAgents`, `Channels`, `EgressPolicy` and `AgentFiles` state safety only.
Their operations are sequential callers that a person starts and may stop; nothing in the code retries or reconciles on its own, so
there is no fairness of the callers to rely on.

`SSHClient` has weak fairness of each caller's own steps: opening a session and dialling end with an answer or an
error, the host answers or the connection breaks and TCP notices. That a dial ends is idealised: `ClientConfig.Timeout`
bounds the TCP connect and not the handshake after it. `Close`, which
takes the mutex, has strong fairness: Go's mutex passes to a waiter that has starved for a millisecond. Nothing
is assumed of the network: `Drop`, `HostDown` and `HostUp` may come or not. Under it
`RequestsReturn` holds.

`SlackRouter` has weak fairness of what goes on by itself: the event loop (`LoadConfig`, `Watch`,
`OnChange`, the exit after a failed load), the debounce timer, the second half of an
operation that has begun (`EndWrite`, `RestartRouter`; a killed writer is a step of its
own that disables the first), and the systemd unit with `Restart=always`. Slack, time,
further operations and `EnsureRouter` get none: they may stop at any point. Under that
fairness `RoutesConverge` holds, the unit's part of it being that a router on an instance
is up in the end.

## 5. Proofs

`LocalAgentsProofs` proves for every finite or infinite set of agents (as positive
numbers), callers and channel IDs, every bound and every set of fault kinds:

* `TypeCorrect`: `Spec => []TypeOK`. `TypeOK` alone is not inductive: `RunAgent`
  publishes the port of the copy in the frame, and for the container to be running
  exactly while it publishes a port that copy must hold one. The
  invariant `Inv` adds `HasPort`: from the save onwards, the frame of a call that will run the container
  holds a port from 1 up.
* `PortsAreDistinct` (with `OneCaller`): `Spec => []PortsDistinct`, of the agents whose port was never named. The port chosen
  at the start of a provision is above every listed port, named or not, unless it is named; the proof must carry that from the list
  to the save. `SnapCurrent` says it: while a frame is about to save, its copy is
  above the others (provision) or is the record on disk but for the flag (pause,
  unpause). One caller is what keeps it true: no other step writes a record between.
* `RegistryRefined` (with `OneCaller`): `Spec => Registry!Spec`, from the same
  invariant: `SaveRecord` is `Register` or `SetPaused`, `DeleteFiles` is `Delete`,
  `WipeData` and a torn save are `CutShort`, the rest stutters.
* `NoAgentBeforeItsProxy` (with `OneCaller`): `Spec => ProxyBeforeAgent`. `ProxyInv` says which
  frames count on the proxy: those at `docker run`, and those of a provision, which starts the proxy first, while it
  removes the old container. With two callers the other may stop it in between.

Assumptions are those of the module, each a fact of the code or of the encoding:
agents are positive numbers (their rank in the list's order), `NoID`, `NoRec` and
`Torn` are not members of what they stand beside, bounds are numbers.
`OneCaller` is a hypothesis of three theorems and not an assumption of the model: with two callers
they do not hold.

Its second part rests on these invariants and proves, with `OneCaller`, the rest of what the local runs check. `RoadInv`
says which methods come to which labels and that a method that builds an agent has an active record of it, of which
its copy is current; `StepsLead` and `RoadOn` show it of fifteen actions at once.

* `SuccessIsServing`, for `"exit"` and `"iptables"` not in `Faults`: `Spec => []ServingOnSuccess`. `ServeInv` carries
  what `RunAgent` and `AddRules` brought about to the end of the call; that the proxy runs when the container is
  started is `ProxyInv` again. A container may exit at any moment and the rules are best effort, hence the hypotheses; crashes,
  restarts and containers that cannot be removed are all allowed.
* `PortsAreHeld`, `RoutesReachTheirAgent`, `DepartedAreUnrouted`, for `Faults \subseteq CallFaults`: `Spec => []PortsHeld`,
  `[]NoMisdelivery`, `[]NoRouteToDeparted`. None is inductive. `PortInv` adds `Published` (a published port was handed to that agent, now or
  earlier, so a port above all listed ones is above all published ones), `Routed` (the same of `routing.json`),
  all but for agents whose port was named; `EmptyInv` (the container is gone before its record is) and `Departing` (an entry for an agent out of service is one a
  call is on its way to take out). `CallFaults` are the faults of `local_faults`. The others break a part of it:
  a caller that dies between the record and `routing.json`, a `docker rm` or `inspect` that fails and leaves the container, a
  `routing.json` that cannot be written.

`SlackRouterProofs` proves for every set of events, payloads, tables and hosts:

* `PostedAtMostOnce`: `Spec => []AtMostOnce`. The invariant `OnceInv` ties the history to
  the memory: an event that counts as posted has an entry that is held and young. Pruning
  takes old entries only, so a handler that finds no entry finds the count at zero; that
  the check comes after the `await` and entry and post follow without a break is what
  makes `Handle` one step.
* `SettledRouterIsCurrent`, for `"gap" \notin Faults`: `Spec => []SettledIsCurrent`. `MountInv`
  says that an attached mount shows the path's file and that only a quiet rename leaves a
  running router detached; `MemoryInv` that a router holds what its mount shows, or
  shows half a file, or is about to look again.
* `TypeCorrect`: `Spec => []TypeOK`. `TypeOK` alone is not inductive: that handlers never
  outnumber the envelopes, and that what a writer is about to install is a whole table,
  are conjuncts of `TypeInv`.

`EgressPolicyProofs` proves for every set of agents, callers and domains:

* `BlockedTakesPrecedence`: a domain that the fleet's or the agent's section blocks is not open in the rule
  generated from the merge, about the algorithms alone.
* `TypeCorrect`: `Spec => []TypeOK`, from lemmas on what each algorithm returns.
* `FileIsNeverTorn` and `DeployedIsAlwaysEnforced` (one caller), from one inductive invariant,
  `DeployInv`: the temporary file a call is about to rename is its own and whole; the policy it deploys
  is the file and stays so; the configuration of the agent it works at is written before the proxy is started;
  and an agent among those it has done keeps the configuration of that policy and a proxy that is down or enforces it. What the call
  still has to do, has done and a list lost makes up what it was asked to do, so a reply that leaves nothing to deploy left out nobody.
* `ProxiesStartFromTheFile` (one caller): `Spec => StartsFromTheFile`. `CurrentInv` says that the section
  a call is about to start a proxy with is what the file says now; only `RunProxy` starts one in a call. `HostRestart`
  starts what is configured, and `Held` in `RecordInv` says that before the first failure this is what the proxy
  enforced, but for the agent a deployment on AWS is working at.
* `DriftIsAlwaysHonest` (one caller): `Spec => []DriftIsHonest`. `RecordInv` claims something only while no step has
  failed: a manifest then tells what the proxy beside it enforces, except for the agent a call is
  working at, whose manifest is written before its proxy is started (on AWS before the old one is stopped). With
  two callers it does not hold: one may save another policy in the middle of the other's deployment.

`AgentFilesProofs` proves for every set of files, texts and settings, both providers and every kind of fault:

* `TypeCorrect`: `Spec => []TypeOK`, strengthened by: files still to be written have an entry in the plan.
* `TokenIsKept`: `Spec => TokenKept`. That the config written holds the token of the one on disk was
  decided steps before, when the baseline was compared. `TokenInv` carries it: a config nobody has touched
  since its baseline was saved is that baseline, and a call about to write over such a config carries its token.
* `AdminIsKept`: `Spec => AdminKept`, both providers. `AdminInv` carries what a call has seen from its look at the file to its write: at
  `backup` it holds the content, at `empty` that is in a backup, at `create` there was none, unless the admin wrote since.
* `BehaviorIsApplied`: `Spec => []AppliedWhenDone`, which speaks of the last deployment that was reported done. Its
  parts in `FilesInv`, of a file about which nothing failed: the source holds what the operator said, unless his command went astray; the manifest, or the
  plan of a deployment that is done with the file, tells what stands in the workspace unless the agent wrote
  since; and what was applied is what the source asks for. `EntryAssumption` says that "no entry" is not an entry.

`SSHClientProofs` proves for every set of callers and every bound:

* `TypeCorrect`: `Spec => []TypeOK`, which has the mutex in it: a caller holds it exactly while its
  request is at `dial`.
* `ClientImplementsCommand`: `Spec => ImplementsCommand`, from `EffectInv`: no effect before a command
  is sent, one from then on. `EachStep` says that a step moves at most one request; the
  refinement looks at that request's labels only.
* `StaleIsAlwaysTransparent`: `Spec => []StaleIsTransparent`. `AloneInv` (who is alone is the
  only one, who is clean has a host that answers) makes `LinkInv` inductive: what an undisturbed request has opened
  still works. With a second caller it may not: its `Close` is unconditional.

`ManagedHostProofs` proves for every set of agents, callers, requests and fault kinds:

* `TypeCorrect`: `Spec => []TypeOK`, in which the host is in a state Docker can report: a container
  runs for a unit that is up, on a network that is there, at an address that is not its proxy's. `JobHost` shows it
  of every outcome of every long command, so it holds too of the ones that run on after their callers gave up.
* `MigrationEndsWithProxy`: `Spec => MigratedProxy`. `Remembers` carries `migrated` from COMMIT
  to the end of the call, so that a deployment that fails five steps later is still an error.
* `GhostsLeftAlone`: `Spec => GhostSafe`. `GhostsHold` (an endpoint that cannot be disconnected is on the
  bootstrap's network) and `Unhaunted` (once the network was looked at, the agent has none) make
  it hold between the look and the COMMIT, also with other callers, late commands and reboots in between,
  since endpoints only go away.
* `UndisturbedRefreshRepairs` (one caller): `Spec => []RefreshRepairs`. `Progress` says label by label what a
  refresh in which nothing has failed has brought about; `RepairInv` that it began on a host at
  rest, which still is; `SinceInv` that a count of faults once passed does not come back. systemd's own steps
  (`Retry`, `GiveUp`) go on beside it. A second caller could remove the agent in between.

`RemoteAgentsProofs` proves every property of `remote_faults`, for every set of agents and channel IDs and every
kind and number of faults (one method at a time, as the module has it):

* `TypeCorrect`: `Spec => []TypeOK`. `PathOK` says which methods come to which labels, `HeldOK` and
  `RecordedOK` that a method that builds an agent has an active record of it: without them `RunAgent` could publish
  no port.
* `NoAgentBeforeItsProxy` and `SuccessMeansServing`, from `ServeInv`: at `docker run` the proxy runs
  on the agent's network, and from then to the end of a provision or refresh the agent serves. Both hold whatever
  was lost, since the provider returns the errors of exactly these steps.
* `UndisturbedRefreshRepairs` and `UndisturbedRemovalIsComplete`, from `GoneInv`: the provider looks at hardly
  any error of stopping and removing, so what is gone at a label is claimed only while `clean`, which every
  outcome other than "done" resets.
* `UndisturbedRouterIsCurrent`, from `RouteInv`.
* `RegistryRefined` and `PortsAreDistinct`, when neither `lost`, `drop` nor `torn` is among the faults: the records
  implement `AgentRegistry`, as the local ones do with one caller, so no two agents have one port. `RegistryInv`
  says that what is about to be saved was decided by the records as they are now. The hypothesis is needed:
  an error of `ls` is an empty list to `resolveGatewayPort`, which then hands out the first port again.
  `docker` failures, crashes and reboots are allowed, and ports that the operator names: `PortsDistinct` there is of the agents outside `Named`. No run checks these two, since `remote_faults` has the faults they exclude.

`OffStage` names the frames of which these three say nothing, so that half of the actions share one lemma.

`ChannelsProofs` proves every property of `channels`, for every set of agents, choice of providers and number of
faults (one method at a time, as the module has it):

* `TypeCorrect`: `Spec => []TypeOK`. `Road` says which methods come to which steps on which provider; without it a call could
  be at a step its method does not have, and the second secret be written for a platform that needs one.
* `AddingRepairs`: `Spec => []AddRepairs`, from `AddInv`: what each step has brought about stays true to
  the end, and since every failure that is noticed ends the method the step it is at is all that needs to be known. Whether
  `conga-router` is up follows from what the secrets put in `router.env`.
* `UndisturbedBindingTakesEffect`: `Spec => []BindingTakesEffect`, from `BindInv`. The container and the router's table
  change places in it: the local `BindChannel` refreshes the agent first and restarts the router after, every other
  method does it the other way round.
* `RemovingIsComplete`: `Spec => []RemovalComplete`. `UnbindInv` holds whatever AWS goes on after: the agents still bound are among those the
  loop has to do or a lost list hid, and once it has ended only those are. `RemoveInv` adds what the cleanup has done, and
  claims it only while there is no failure to report.
* `CredentialsGoLast`: `Spec => CredentialsOutliveBindings`, from `UnbindInv`: of the failures only a lost list of a VPS leaves
  somebody bound, and only those it hid.

Each action has a lemma or step of its own, or shares one with the actions that leave the
same variables alone. In `LocalAgentsProofs`, steps that leave the records alone share the
lemmas `HostKept`, `PortKept`, `GotoKept`, `FailKept`.

Every safety property of the passing runs is proved, under the hypotheses named above. Out of the prover's reach and left to TLC: liveness under fairness (`RoutesConverge`, `RequestsReturn`),
and what a recursive definition computes for every input.

## 6. Not modelled

* The Telegram router's polling and forwarding. It shares `RouteReload` with the Slack router; its own
  hazard, the offset and the memory of updates that a restart loses, is listed.
* The manifest bootstrap: the order of its seven steps, each skipped when its result seems to
  be there. The operations it calls are modelled.
* The integrity timer on a managed host: an upload of the config and of its baseline are two commands
  with the timer's check possibly in between.
* Torn writes of `openclaw.json` and of behaviour files (`os.WriteFile` is not atomic): only records, the policy
  file, `routing.json` and the manifest can be torn in these models.
* Secrets, OAuth blobs: copies of single values with no state between them.
* Runtimes: only `Channels` tells OpenClaw from Hermes, and only by the platforms each supports.
* Generation of file content (templates, envoy configuration), terraform, the terminal UI, tunnels
  (`pkg/tunnel`), and platform SDKs: pure formatting, declarative, or pure I/O.

What would come next: `TelegramRouter` over `RouteReload`; `Bootstrap` over an abstract
provider that can fail.
