------------------------------- MODULE AgentFiles -------------------------------
(******************************************************************************)
(* What Conga puts in an agent's data directory, local and remote provider:   *)
(* the generated config with its gateway token, the baseline hash of it, the  *)
(* included files, and the behaviour files (SOUL.md, AGENTS.md, USER.md) with *)
(* the manifest that says which of them were deployed.                        *)
(*                                                                            *)
(* Three parties write the same files: Conga, the operator (the repository,   *)
(* agent-custom.json) and the agent (its workspace, its config).  A refresh   *)
(* must replace what Conga owns, keep what the others own and the token, and  *)
(* do so again after a step that failed or a process that died.               *)
(*                                                                            *)
(* A hash is the content hashed.  One call runs at a time; the operator's     *)
(* edits and the agent's come between any two of its steps.  The container's  *)
(* part of the calls is in LocalAgents and RemoteAgents.  A file is written   *)
(* whole or not at all, but for the manifest.                                 *)
(******************************************************************************)
EXTENDS Naturals

CONSTANTS Files,       \* the names of behaviour files
          Shipped,     \* the files with a shipped default (USER.md by a template)
          Texts,       \* what operators write in a behaviour file
          RoleText,    \* what a role package holds
          Settings,    \* what the config and the managed includes are generated from
          Reserved,    \* the settings whose include source declares a key Conga owns
          Absent,      \* a file, an entry or an argument that is not there
          Default,     \* the shipped text
          Edited,      \* what the agent, or somebody on the host, writes
          Providers,   \* the providers the instance covers
          FaultKinds,  \* "write", "read", "death": what may go wrong
          MaxCalls,    \* bound: calls
          MaxEdits,    \* bound: edits by the operator, the agent or on the host
          MaxFaults    \* bound: failures

ASSUME FilesAssumption == Shipped \subseteq Files /\ Shipped # {} /\ RoleText \in Texts
ASSUME SettingsAssumption == Reserved \subseteq Settings
ASSUME NamesAssumption ==
    /\ Absent # Default /\ Absent # Edited /\ Default # Edited
    /\ {Absent, Default, Edited} \cap (Texts \cup Settings \cup Files \cup Nat) = {}
ASSUME FaultsAssumption == FaultKinds \subseteq {"write", "read", "death"}
ASSUME BoundsAssumption == MaxCalls \in Nat /\ MaxEdits \in Nat /\ MaxFaults \in Nat

VARIABLES
    prov,      \* the provider: chosen once
    repo,      \* agents/<name>/ of the repository checkout
    snapshot,  \* agents/<name>/ of the data directory
    there,     \* the agent's record is saved
    settings,  \* what the operator asks the config to say
    work,      \* the agent's workspace
    manifest,  \* file -> its entry in the overlay manifest
    config,    \* openclaw.json
    baseline,  \* <agent>.sha256
    admin,     \* agent-custom.json: absent, empty, or the edit in which the admin wrote it
    backups,   \* the edits that its backups hold, each backup under a name of its own
    managed,   \* fleet-custom.json and agent-managed-custom.json
    call,      \* the call in progress
    said,      \* history: what the operator's last command or edit says of each file
    astray,    \* history: the files of which the last command wrote where nothing is deployed from
    doubt,     \* history: the files about which some step failed
    applied,   \* history: a deployment of the current source was reported done
    outside,   \* history: the config was changed, or could not be read or compared, and its
               \* baseline not saved since
    exposed,   \* history: the admin's edits that came while a call was about to write over the
               \* file, or that a VPS could not copy
    calls, edits, faults

behaviour == <<repo, snapshot, work, manifest, said, astray, doubt, applied>>
configured == <<config, baseline, admin, backups, managed, outside, exposed>>
custom == <<admin, backups, exposed>>
bounds == <<calls, edits, faults>>
vars == <<prov, there, settings, behaviour, configured, call, bounds>>

--------------------------------------------------------------------------------
(* The algorithms. *)

Tree == [Files -> Texts \cup {Absent}]
Entry == [text : Texts \cup {Default}, agent : BOOLEAN]
ASSUME EntryAssumption == Absent \notin Entry
Manifest == [Files -> Entry \cup {Absent}]
Nowhere == [f \in Files |-> Absent]

NoToken == 0
Config == [tok : 0 .. MaxCalls, text : Settings \cup {Edited}]

\* resolveBehaviorFiles: the agent's file, else the default of its runtime and type
Resolve(tree) ==
    [f \in Files |-> IF tree[f] # Absent THEN [text |-> tree[f], agent |-> TRUE]
                     ELSE IF f \in Shipped THEN [text |-> Default, agent |-> FALSE]
                     ELSE Absent]

TextOf(entry) == IF entry = Absent THEN Absent ELSE entry.text

\* where deployBehavior reads: the local provider's snapshot, the repository elsewhere
Source == IF prov = "local" THEN snapshot ELSE repo

\* mutant: a file that is still supplied is deleted with the others
ReconcileAll(prev, plan) ==
    {f \in Files : prev[f] # Absent /\ prev[f].agent /\ work[f] = prev[f].text}

\* reconcileDeletions: what an operator supplied, supplies no more, and nobody changed
ReconcileDeletions(prev, plan) ==
    {f \in Files : /\ prev[f] # Absent /\ prev[f].agent
                   /\ plan[f] = Absent
                   /\ work[f] = prev[f].text}

--------------------------------------------------------------------------------
(* The steps of a call. *)

Ops == {"none", "add", "provision", "refresh", "rebaseline", "bind"}
Places == {"sync", "reset", "backup", "empty", "check", "token", "config", "include", "create",
           "managed", "baseline", "compose", "write", "delete", "done"}

\* RefreshAgent saves the baseline before the behaviour files, ProvisionAgent at its end
Following(op) ==
    [backup |-> "empty",
     check |-> "config", token |-> "config",
     config |-> "include", include |-> "managed", create |-> "managed",
     managed |-> IF op = "provision" THEN "compose" ELSE "baseline",
     baseline |-> IF op \in {"provision", "bind"} THEN "done" ELSE "compose",
     compose |-> "write", write |-> "delete",
     delete |-> IF op = "provision" THEN "baseline" ELSE "done"]

\* agent-custom.json, empty or as the admin wrote it, one value per edit
Versions == 1 .. MaxEdits
Custom == {Absent, Default} \cup Versions

Call == [op : Ops, at : Places, tok : 0 .. MaxCalls, saw : Custom, plan : Manifest,
         put : SUBSET Files, gone : SUBSET Files]

Idle == [op |-> "none", at |-> "done", tok |-> NoToken, saw |-> Absent, plan |-> Nowhere,
         put |-> {}, gone |-> {}]

Ready == call.at = "done"
At(place) == call.at = place
Return == call' = Idle

GoOn(place) == call' = IF place = "done" THEN Idle ELSE [call EXCEPT !.at = place]
Proceed == GoOn(Following(call.op)[call.at])

Begin(op, at, tok) ==
    /\ Ready /\ calls < MaxCalls
    /\ calls' = calls + 1
    /\ call' = [Idle EXCEPT !.op = op, !.at = at, !.tok = tok]
    /\ UNCHANGED <<edits, faults>>

Fault(kind) ==
    /\ kind \in FaultKinds /\ faults < MaxFaults
    /\ faults' = faults + 1
    /\ UNCHANGED <<calls, edits>>

\* reads over SSH fail, local reads do not
LostRead == prov = "remote" /\ Fault("read")

\* the entries that the manifest still owes when a deployment ends before it is written
Owed == {f \in Files : call.plan[f] # manifest[f]}

--------------------------------------------------------------------------------
TypeOK ==
    /\ prov \in Providers /\ there \in BOOLEAN
    /\ repo \in Tree /\ snapshot \in Tree /\ said \in Tree
    /\ settings \in Settings
    /\ work \in [Files -> Texts \cup {Absent, Default, Edited}]
    /\ manifest \in Manifest
    /\ config \in Config \cup {Absent} /\ baseline \in Config \cup {Absent}
    /\ admin \in Custom /\ managed \in Settings \cup {Absent}
    /\ backups \subseteq Versions /\ exposed \subseteq Versions
    /\ call \in Call
    /\ \A f \in call.gone : call.plan[f] = Absent
    /\ (call.put # {} => At("write")) /\ (call.gone # {} => call.at \in {"write", "delete"})
    /\ doubt \subseteq Files /\ astray \subseteq Files
    /\ applied \in BOOLEAN /\ outside \in BOOLEAN
    /\ calls \in 0 .. MaxCalls /\ edits \in 0 .. MaxEdits /\ faults \in 0 .. MaxFaults

\* after Setup, before the agent is provisioned
Init ==
    /\ prov \in Providers /\ there = FALSE
    /\ repo = Nowhere /\ snapshot = Nowhere /\ said = Nowhere /\ work = Nowhere
    /\ settings \in Settings \ Reserved
    /\ manifest = Nowhere
    /\ config = Absent /\ baseline = Absent /\ admin = Absent /\ managed = Absent
    /\ backups = {} /\ exposed = {}
    /\ call = Idle
    /\ doubt = {} /\ astray = {} /\ applied = FALSE /\ outside = FALSE
    /\ calls = 0 /\ edits = 0 /\ faults = 0

--------------------------------------------------------------------------------
(* The commands that change the behaviour files' source. *)

\* agentBehaviorDir: the repository if local-config.json names one, which the setup of the
\* local provider writes; for the remote provider, the data directory
CliTree == IF prov = "local" THEN repo ELSE snapshot

\* a command that writes where nothing is deployed from
Astray(f, text) ==
    /\ snapshot' = [snapshot EXCEPT ![f] = text]
    /\ said' = [said EXCEPT ![f] = text]
    /\ astray' = astray \cup {f} /\ applied' = FALSE
    /\ UNCHANGED <<repo, doubt>>

\* agentBehaviorAddRun
AddFile(f, t) ==
    /\ there
    /\ IF prov = "local"
       THEN /\ Begin("add", "sync", NoToken)
            /\ repo' = [repo EXCEPT ![f] = t]
            /\ UNCHANGED <<snapshot, said, astray, doubt, applied>>
       ELSE /\ Ready /\ calls < MaxCalls /\ calls' = calls + 1
            /\ Astray(f, t)
            /\ UNCHANGED <<call, edits, faults>>
    /\ UNCHANGED <<prov, there, settings, work, manifest, configured>>

\* syncBehaviorToDeployed: the whole tree, files that are gone included; a file that cannot be
\* copied or removed is passed over
SyncBehavior ==
    /\ At("sync")
    /\ \E missed \in SUBSET Files :
         /\ IF missed = {} THEN UNCHANGED bounds ELSE Fault("write")
         /\ snapshot' = [f \in Files |-> IF f \in missed THEN snapshot[f] ELSE repo[f]]
         /\ doubt' = doubt \cup missed
    /\ said' = repo /\ astray' = {} /\ applied' = FALSE
    /\ Return
    /\ UNCHANGED <<prov, there, settings, repo, work, manifest, configured>>

\* mutant: the copy in the data directory is left
RemoveFromRepository(f) ==
    /\ Ready /\ calls < MaxCalls /\ calls' = calls + 1
    /\ CliTree[f] # Absent
    /\ IF prov = "local"
       THEN /\ repo' = [repo EXCEPT ![f] = Absent]
            /\ said' = [said EXCEPT ![f] = Absent]
            /\ astray' = astray \ {f} /\ applied' = FALSE
            /\ UNCHANGED <<faults, snapshot, doubt>>
       ELSE Astray(f, Absent) /\ UNCHANGED faults
    /\ UNCHANGED <<prov, there, settings, work, manifest, configured, call, edits>>

\* agentBehaviorRmRun: from the repository, then from the data directory, where a failure is
\* ignored and after which a second rm is refused
RemoveFile(f) ==
    /\ Ready /\ calls < MaxCalls /\ calls' = calls + 1
    /\ CliTree[f] # Absent
    /\ IF prov = "local"
       THEN /\ repo' = [repo EXCEPT ![f] = Absent]
            /\ said' = [said EXCEPT ![f] = Absent]
            /\ astray' = astray \ {f} /\ applied' = FALSE
            /\ \/ /\ snapshot' = [snapshot EXCEPT ![f] = Absent]
                  /\ UNCHANGED <<faults, doubt>>
               \/ /\ {"write", "death"} \cap FaultKinds # {} /\ faults < MaxFaults
                  /\ faults' = faults + 1
                  /\ doubt' = doubt \cup {f}
                  /\ UNCHANGED snapshot
       ELSE Astray(f, Absent) /\ UNCHANGED faults
    /\ UNCHANGED <<prov, there, settings, work, manifest, configured, call, edits>>

\* the local Setup's copyDir: nothing is removed, and the first failure ends the copy
Setup ==
    /\ prov = "local" /\ Ready /\ calls < MaxCalls /\ calls' = calls + 1
    /\ \E missed \in SUBSET {f \in Files : repo[f] # Absent} :
         /\ IF missed = {} THEN UNCHANGED faults
            ELSE /\ "write" \in FaultKinds /\ faults < MaxFaults /\ faults' = faults + 1
         /\ snapshot' = [f \in Files |-> IF repo[f] = Absent \/ f \in missed THEN snapshot[f]
                                         ELSE repo[f]]
         /\ doubt' = doubt \cup missed
    /\ said' = [f \in Files |-> IF repo[f] = Absent THEN said[f] ELSE repo[f]]
    /\ astray' = {f \in astray : repo[f] = Absent} /\ applied' = FALSE
    /\ UNCHANGED <<prov, there, settings, repo, work, manifest, configured, call, edits>>

--------------------------------------------------------------------------------
(* The calls that write the agent's files. *)

\* ApplyRolePackage, then ProvisionAgent, which always makes a token.  What the operator has
\* in the repository wins; the local provider's copy of it is not refreshed
Provision(role) ==
    LET filled == {f \in role : repo[f] = Absent}
        With(tree) == [f \in Files |-> IF f \in filled THEN RoleText ELSE tree[f]]
    IN  /\ Begin("provision", "config", calls + 1)
        /\ repo' = With(repo) /\ said' = With(said)
        /\ astray' = IF prov = "local" THEN astray \cup filled ELSE astray \ filled
        /\ applied' = (applied /\ filled = {})
        /\ there' = TRUE
        /\ UNCHANGED <<prov, settings, snapshot, work, manifest, doubt, configured>>

RefreshAgent ==
    /\ there /\ Begin("refresh", "check", NoToken)
    /\ UNCHANGED <<prov, there, settings, behaviour, configured>>

\* agentRebaselineRun, toolRebaselineAgent
Rebaseline ==
    /\ there /\ Begin("rebaseline", "reset", NoToken)
    /\ UNCHANGED <<prov, there, settings, behaviour, configured>>

\* the calls that end in regenerateAgentConfig
RegenerateAgentConfig ==
    /\ there /\ Begin("bind", "token", NoToken)
    /\ UNCHANGED <<prov, there, settings, behaviour, configured>>

\* ResetAgentCustomConfig, in three steps: the local provider reads the file, writes the backup
\* and empties the file; the script on a VPS tests, copies and empties.  RefreshAgent comes next
ReadCustom ==
    /\ At("reset")
    /\ \/ /\ call' = [call EXCEPT !.saw = admin, !.at = IF admin = Absent THEN "empty" ELSE "backup"]
          /\ UNCHANGED bounds
       \/ LostRead /\ Return
    /\ UNCHANGED <<prov, there, settings, behaviour, configured>>

\* mutant: the local provider goes on as well
BackUpAnyway ==
    /\ At("backup")
    /\ \/ /\ backups' = backups \cup ({IF prov = "local" THEN call.saw ELSE admin} \cap Versions)
          /\ Proceed /\ UNCHANGED <<exposed, bounds>>
       \/ /\ Fault("write") /\ Proceed
          /\ exposed' = exposed \cup IF prov = "local" THEN {} ELSE {admin} \cap Versions
          /\ UNCHANGED backups
    /\ UNCHANGED <<prov, there, settings, behaviour, config, baseline, admin, managed, outside>>

\* a backup that fails stops the local provider; the script goes on and empties the file
BackUpCustom ==
    /\ At("backup")
    /\ \/ /\ backups' = backups \cup ({IF prov = "local" THEN call.saw ELSE admin} \cap Versions)
          /\ Proceed /\ UNCHANGED <<exposed, bounds>>
       \/ /\ prov = "local" /\ Fault("write")
          /\ Return /\ UNCHANGED <<backups, exposed>>
       \/ /\ prov = "remote" /\ Fault("write")
          /\ exposed' = exposed \cup ({admin} \cap Versions)
          /\ Proceed /\ UNCHANGED backups
    /\ UNCHANGED <<prov, there, settings, behaviour, config, baseline, admin, managed, outside>>

EmptyCustom ==
    /\ At("empty")
    /\ \/ /\ admin' = Default
          /\ call' = [Idle EXCEPT !.op = "refresh", !.at = "check"]
          /\ UNCHANGED bounds
       \/ Fault("write") /\ Return /\ UNCHANGED admin
    /\ UNCHANGED <<prov, there, settings, behaviour, config, baseline, backups, managed, outside,
                   exposed>>

TakeToken(tok) == call' = [call EXCEPT !.tok = tok, !.at = Following(call.op)[call.at]]
Fresh == calls
TokenOf(c) == IF c = Absent THEN NoToken ELSE c.tok

\* checkConfigIntegrity and what RefreshAgent makes of it: a config that is not the baseline's
\* gets a fresh token.  A baseline that is absent, or whose download failed, is saved; if it
\* cannot be, the config counts as tampered with
CheckConfig ==
    /\ At("check")
    /\ \/ /\ baseline' = IF baseline = Absent THEN config ELSE baseline
          /\ TakeToken(IF config # Absent /\ baseline' = config THEN config.tok ELSE Fresh)
          /\ UNCHANGED <<outside, bounds>>
       \/ \* the baseline that is absent cannot be saved
          /\ Fault("write") /\ baseline = Absent
          /\ TakeToken(Fresh) /\ UNCHANGED <<baseline, outside>>
       \/ \* the download of the config is lost, in the check
          /\ LostRead /\ outside' = TRUE
          /\ TakeToken(Fresh) /\ UNCHANGED baseline
       \/ \* the download of the baseline is lost
          /\ LostRead /\ config # Absent
          /\ baseline' = config
          /\ TakeToken(config.tok) /\ UNCHANGED outside
       \/ \* the download of the baseline is lost, and the upload of a new one in the same outage
          /\ LostRead /\ config # Absent /\ outside' = TRUE
          /\ TakeToken(Fresh) /\ UNCHANGED baseline
       \/ \* readExistingGatewayToken: the second download of the config is lost
          /\ LostRead /\ config # Absent /\ baseline \in {Absent, config}
          /\ baseline' = config /\ outside' = TRUE
          /\ TakeToken(NoToken)
    /\ UNCHANGED <<prov, there, settings, behaviour, config, custom, managed>>

\* regenerateAgentConfig: the token of the config on disk, a fresh one if there is none
ReadToken ==
    /\ At("token")
    /\ \/ /\ TakeToken(IF TokenOf(config) = NoToken THEN Fresh ELSE config.tok)
          /\ outside' = (outside \/ TokenOf(config) = NoToken)
          /\ UNCHANGED bounds
       \/ LostRead /\ TakeToken(Fresh) /\ outside' = TRUE
    /\ UNCHANGED <<prov, there, settings, behaviour, config, baseline, custom, managed>>

WriteConfig ==
    /\ At("config")
    /\ \/ /\ config' = [tok |-> call.tok, text |-> settings]
          /\ outside' = TRUE
          /\ Proceed /\ UNCHANGED bounds
       \/ /\ Fault("write")
          /\ Return /\ UNCHANGED <<config, outside>>
    /\ UNCHANGED <<prov, there, settings, behaviour, baseline, custom, managed>>

\* ensureAgentCustomConfig: what is there is not touched
EnsureCustom ==
    /\ At("include")
    /\ \/ GoOn(IF admin = Absent THEN "create" ELSE "managed") /\ UNCHANGED bounds
       \/ Fault("write") /\ Return
    /\ UNCHANGED <<prov, there, settings, behaviour, configured>>

CreateCustom ==
    /\ At("create")
    /\ \/ admin' = Default /\ Proceed /\ UNCHANGED bounds
       \/ Fault("write") /\ Return /\ UNCHANGED admin
    /\ UNCHANGED <<prov, there, settings, behaviour, config, baseline, backups, managed, outside,
                   exposed>>

\* ValidateManagedConfigSources
Refused == settings \in Reserved

\* deployManagedCustomConfig, which refuses a reserved key; the config is written by then
DeployManaged ==
    /\ At("managed")
    /\ \/ /\ IF Refused THEN Return /\ UNCHANGED managed
             ELSE Proceed /\ managed' = settings
          /\ UNCHANGED bounds
       \/ Fault("write") /\ Return /\ UNCHANGED managed
    /\ UNCHANGED <<prov, there, settings, behaviour, config, baseline, custom, outside>>

\* mutant: a baseline that is there is kept
SaveBaselineOnce ==
    /\ At("baseline")
    /\ baseline' = IF baseline = Absent THEN config ELSE baseline
    /\ outside' = FALSE
    /\ Proceed /\ UNCHANGED bounds
    /\ UNCHANGED <<prov, there, settings, behaviour, config, custom, managed>>

\* saveConfigBaseline, whose error every caller ignores
SaveBaseline ==
    /\ At("baseline")
    /\ \/ /\ baseline' = config /\ outside' = FALSE
          /\ UNCHANGED bounds
       \/ /\ Fault("write") \/ LostRead
          /\ UNCHANGED <<baseline, outside>>
    /\ Proceed
    /\ UNCHANGED <<prov, there, settings, behaviour, config, custom, managed>>

--------------------------------------------------------------------------------
(* deployBehavior; an error in it is a warning of its callers. *)

Plan(gone) ==
    LET plan == Resolve(Source)
    IN  call' = [call EXCEPT !.at = "write", !.plan = plan, !.gone = gone,
                             !.put = {f \in Files : plan[f] # Absent}]

\* ComposeAgentWorkspaceFiles.  An entry whose file cannot be hashed is not deleted, none is
\* when the manifest cannot be read, and the next manifest does not list them
Compose ==
    /\ At("compose")
    /\ LET gone == ReconcileDeletions(manifest, Resolve(Source))
       IN  \/ Plan(gone) /\ UNCHANGED <<doubt, bounds>>
           \/ /\ LostRead
              /\ \E missed \in {gone} \cup {{f} : f \in gone} :
                   /\ missed # {}
                   /\ Plan(gone \ missed)
                   /\ doubt' = doubt \cup missed
    /\ UNCHANGED <<prov, there, settings, repo, snapshot, work, manifest, said, astray, applied, configured>>

EndDeploy ==
    LET place == Following(call.op)["delete"]
    IN  call' = IF place = "done" THEN Idle
                ELSE [Idle EXCEPT !.op = call.op, !.tok = call.tok, !.at = place]

WriteFile(f) ==
    /\ At("write") /\ f \in call.put
    /\ \/ /\ work' = [work EXCEPT ![f] = call.plan[f].text]
          /\ call' = [call EXCEPT !.put = @ \ {f},
                                  !.at = IF call.put = {f} THEN "delete" ELSE "write"]
          /\ UNCHANGED <<doubt, bounds>>
       \/ /\ Fault("write")
          /\ doubt' = doubt \cup Owed
          /\ EndDeploy /\ UNCHANGED work
    /\ UNCHANGED <<prov, there, settings, repo, snapshot, manifest, said, astray, applied, configured>>

\* the hash was taken in Compose; a removal that fails is ignored
DeleteFile(f) ==
    /\ At("delete") /\ f \in call.gone
    /\ call' = [call EXCEPT !.gone = @ \ {f}]
    /\ \/ /\ work' = [work EXCEPT ![f] = Absent]
          /\ UNCHANGED <<doubt, bounds>>
       \/ /\ Fault("write")
          /\ doubt' = doubt \cup {f} /\ UNCHANGED work
    /\ UNCHANGED <<prov, there, settings, repo, snapshot, manifest, said, astray, applied, configured>>

WriteManifest ==
    /\ At("delete") /\ call.gone = {}
    /\ \/ /\ manifest' = call.plan
          /\ applied' = (call.plan = Resolve(Source))
          /\ EndDeploy /\ UNCHANGED <<doubt, bounds>>
       \/ /\ Fault("write")
          /\ doubt' = doubt \cup Owed
          /\ EndDeploy /\ UNCHANGED <<manifest, applied>>
       \/ \* a torn manifest counts as empty: ParseOverlayManifest
          /\ Fault("death")
          /\ manifest' = Nowhere
          /\ doubt' = doubt \cup Owed \cup {f \in Files : manifest[f] # Absent}
          /\ Return /\ UNCHANGED applied
    /\ UNCHANGED <<prov, there, settings, repo, snapshot, work, said, astray, configured>>

\* the process dies between two steps
Die ==
    /\ ~Ready /\ Fault("death")
    /\ doubt' = IF call.at \in {"write", "delete"} THEN doubt \cup Owed ELSE doubt
    /\ Return
    /\ UNCHANGED <<prov, there, settings, repo, snapshot, work, manifest, said, astray, applied, configured>>

--------------------------------------------------------------------------------
(* What others do, at any time. *)

Edit == edits < MaxEdits /\ edits' = edits + 1 /\ UNCHANGED <<calls, faults>>

\* the operator edits the repository, without a command
EditRepository(f) ==
    /\ Edit
    /\ \E t \in (Texts \cup {Absent}) \ {repo[f]} : repo' = [repo EXCEPT ![f] = t]
    /\ IF prov = "local" THEN UNCHANGED <<said, astray, applied>>
       ELSE said' = [said EXCEPT ![f] = repo'[f]] /\ astray' = astray \ {f} /\ applied' = FALSE
    /\ UNCHANGED <<prov, there, settings, snapshot, work, manifest, doubt, configured, call>>

\* secrets, overlay, bindings, custom-config sources
ChangeSettings ==
    /\ Edit
    /\ settings' \in Settings \ {settings}
    /\ UNCHANGED <<prov, there, behaviour, configured, call>>

\* the agent, in its workspace
AgentWrites(f) ==
    /\ Edit /\ config # Absent
    /\ work' = [work EXCEPT ![f] = Edited]
    /\ UNCHANGED <<prov, there, settings, repo, snapshot, manifest, said, astray, doubt, applied,
                   configured, call>>

\* the agent or somebody on the host, in openclaw.json
ConfigEdited ==
    /\ Edit /\ config # Absent
    /\ config' = [config EXCEPT !.text = Edited] /\ outside' = TRUE
    /\ UNCHANGED <<prov, there, settings, behaviour, baseline, custom, managed, call>>

\* a call has looked at agent-custom.json and is about to write over it
Exposing == call.at \in {"empty", "create"} \/ (At("backup") /\ prov = "local")

\* the admin, in agent-custom.json
AdminWrites ==
    /\ Edit /\ config # Absent
    /\ admin' = edits'
    /\ exposed' = exposed \cup IF Exposing THEN {edits'} ELSE {}
    /\ UNCHANGED <<prov, there, settings, behaviour, config, baseline, backups, managed, outside, call>>

Commands ==
    \/ \E f \in Files : (\E t \in Texts : AddFile(f, t)) \/ RemoveFile(f)
    \/ Setup \/ RefreshAgent \/ Rebaseline \/ RegenerateAgentConfig
    \/ \E role \in SUBSET Files : Provision(role)

Steps ==
    \/ SyncBehavior \/ ReadCustom \/ BackUpCustom \/ EmptyCustom \/ CheckConfig \/ ReadToken
    \/ WriteConfig \/ EnsureCustom \/ CreateCustom \/ DeployManaged \/ SaveBaseline \/ Compose
    \/ \E f \in Files : WriteFile(f) \/ DeleteFile(f)
    \/ WriteManifest \/ Die

Others ==
    \/ \E f \in Files : EditRepository(f) \/ AgentWrites(f)
    \/ ChangeSettings \/ ConfigEdited \/ AdminWrites

Next == Commands \/ Steps \/ Others

Spec == Init /\ [][Next]_vars

--------------------------------------------------------------------------------
(* Properties. *)

\* A refresh that reports the behaviour files deployed has put in the workspace, for each file,
\* what the operator's last command or edit says: the file it supplied, else the shipped default,
\* else nothing.  The agent's own text may stand where it wrote since.  Of a file that the last
\* command wrote where nothing is deployed from, what the source holds stands all the same; of a
\* file about which some step failed too, or a leftover if the source holds nothing
\* (deployBehavior, reconcileDeletions, syncBehaviorToDeployed, agentBehaviorAddRun).
AppliedWhenDone ==
    applied =>
        \A f \in Files :
            \/ work[f] \in {Edited, TextOf(Resolve(said)[f])}
            \/ f \in astray /\ work[f] = TextOf(Resolve(Source)[f])
            \/ f \in doubt /\ TextOf(Resolve(Source)[f]) \in {Absent, work[f]}

\* The gateway token of a provisioned agent changes only after the config was changed outside
\* a completed call, was left without its baseline by a call that failed or died, or could not
\* be read or compared with its baseline: else a rebind, a refresh and a rebaseline keep it
\* (checkConfigIntegrity, saveConfigBaseline, RefreshAgent).
TokenKept ==
    [][config # Absent /\ config'.tok # config.tok => outside \/ call.op = "provision"]_vars

\* What the admin wrote in agent-custom.json is taken away only when a backup holds it, whatever
\* failed or died before, and however often: but for an edit that came between a call's look at
\* the file and its write, and on a VPS for one that could not be copied
\* (ensureAgentCustomConfig, ResetAgentCustomConfig).
AdminKept ==
    [][(admin \in Versions /\ admin' \notin Versions) => admin \in backups \cup exposed]_vars

\* A generated config has a gateway token: without one the gateway does not bind
\* (ProvisionAgent's comment on the token).
GatewayHasToken == config # Absent => config.tok # NoToken
================================================================================
