---------------------------- MODULE AgentFilesProofs ----------------------------
(******************************************************************************)
(* Proofs about AgentFiles, for every set of files, texts and settings, both  *)
(* providers and every kind of fault.                                         *)
(*                                                                            *)
(* TokenKept is not inductive: that the config written holds the token of the *)
(* one on disk was decided some steps before, when the baseline was compared. *)
(* TokenInv adds what the comparison rests on and what it leaves in the call. *)
(* In the same way AdminInv says what a reset holds when it empties the file. *)
(******************************************************************************)
EXTENDS AgentFiles, TLAPS

\* TypeOK in parts, and that the files still to be written have an entry in the plan.
CallOK == /\ call \in Call
          /\ \A f \in call.gone : call.plan[f] = Absent
          /\ \A f \in call.put : call.plan[f] # Absent
          /\ call.put # {} => At("write")
          /\ call.gone # {} => call.at \in {"write", "delete"}

BoundsOK == calls \in 0 .. MaxCalls /\ edits \in 0 .. MaxEdits /\ faults \in 0 .. MaxFaults

BehaviorOK ==
    /\ repo \in Tree /\ snapshot \in Tree /\ said \in Tree
    /\ work \in [Files -> Texts \cup {Absent, Default, Edited}]
    /\ manifest \in Manifest
    /\ astray \subseteq Files /\ doubt \subseteq Files /\ applied \in BOOLEAN

ConfiguredOK ==
    /\ config \in Config \cup {Absent} /\ baseline \in Config \cup {Absent}
    /\ admin \in Custom /\ managed \in Settings \cup {Absent}
    /\ backups \subseteq Versions /\ exposed \subseteq Versions
    /\ outside \in BOOLEAN

\* the steps of a call that write the config and what belongs to it
CustomSteps ==
    \/ ReadCustom \/ BackUpCustom \/ EmptyCustom \/ EnsureCustom \/ CreateCustom \/ DeployManaged
TokenSteps == CheckConfig \/ ReadToken \/ WriteConfig \/ SaveBaseline

RestOK == prov \in Providers /\ there \in BOOLEAN /\ settings \in Settings

TypeInv == CallOK /\ BoundsOK /\ BehaviorOK /\ ConfiguredOK /\ RestOK

LEMMA TypeInvImplies == TypeInv => TypeOK
  BY DEF TypeInv, TypeOK, CallOK, BoundsOK, BehaviorOK, ConfiguredOK, RestOK

LEMMA PlanType == ASSUME NEW tree \in Tree PROVE Resolve(tree) \in Manifest
  BY DEF Tree, Resolve, Manifest, Entry

LEMMA SourceType == ASSUME BehaviorOK PROVE Source \in Tree
  BY DEF BehaviorOK, Source

LEMMA FollowingType ==
  ASSUME NEW op, NEW at \in Places \ {"sync", "reset", "empty", "done"} PROVE Following(op)[at] \in Places
  BY DEF Following, Places

LEMMA IdleType == Idle \in Call /\ Idle.put = {} /\ Idle.gone = {} /\ Idle.at = "done"
  BY BoundsAssumption DEF Idle, Call, Ops, Places, NoToken, Nowhere, Manifest, Custom

LEMMA InitType == Init => TypeInv
  <1> SUFFICES ASSUME Init PROVE TypeInv
    OBVIOUS
  <1>1. CallOK
    BY IdleType DEF Init, CallOK
  <1>2. BoundsOK
    BY BoundsAssumption DEF Init, BoundsOK
  <1>3. Nowhere \in Tree /\ Nowhere \in Manifest /\ Nowhere \in [Files -> {Absent}]
    BY DEF Nowhere, Tree, Manifest
  <1>4. BehaviorOK
    BY <1>3 DEF Init, BehaviorOK
  <1>5. ConfiguredOK /\ RestOK
    BY DEF Init, ConfiguredOK, RestOK, Custom
  <1> QED
    BY <1>1, <1>2, <1>4, <1>5 DEF TypeInv

LEMMA ReturnOK == Return => CallOK'
  BY IdleType DEF Return, CallOK, At

LEMMA BeginOK ==
  ASSUME TypeInv, NEW op \in Ops, NEW at \in Places, NEW tok \in 0 .. MaxCalls, Begin(op, at, tok)
  PROVE  CallOK' /\ BoundsOK'
  <1>1. call' \in Call /\ call'.put = {} /\ call'.gone = {}
    BY IdleType DEF Begin, Call
  <1>2. BoundsOK'
    BY BoundsAssumption DEF Begin, BoundsOK, TypeInv
  <1> QED
    BY <1>1, <1>2 DEF CallOK

LEMMA FaultOK == ASSUME TypeInv, NEW kind, Fault(kind) PROVE BoundsOK'
  BY BoundsAssumption DEF Fault, BoundsOK, TypeInv

\* a step of a call that is not about to write or delete goes on to the next
LEMMA ProceedOK ==
  ASSUME TypeInv, Proceed, call.at \in Places \ {"sync", "reset", "empty", "write", "delete", "done"}
  PROVE  CallOK'
  <1>1. Following(call.op)[call.at] \in Places
    BY FollowingType
  <1>2. call.put = {} /\ call.gone = {} /\ call \in Call
    BY DEF TypeInv, CallOK, At
  <1>3. CASE call' = Idle
    BY <1>3, IdleType DEF CallOK, At
  <1>4. CASE call' = [call EXCEPT !.at = Following(call.op)[call.at]]
    <2>1. call' \in Call /\ call'.put = {} /\ call'.gone = {}
      BY <1>1, <1>2, <1>4 DEF Call
    <2> QED
      BY <2>1 DEF CallOK
  <1> QED
    BY <1>3, <1>4 DEF Proceed, GoOn

LEMMA TakeTokenOK ==
  ASSUME TypeInv, NEW tok \in 0 .. MaxCalls, TakeToken(tok), At("check") \/ At("token")
  PROVE  CallOK'
  <1>1. Following(call.op)[call.at] \in Places
    BY FollowingType DEF At, Places
  <1>2. call.put = {} /\ call.gone = {} /\ call \in Call
    BY DEF TypeInv, CallOK, At
  <1>3. call' \in Call /\ call'.put = {} /\ call'.gone = {}
    BY <1>1, <1>2 DEF TakeToken, Call
  <1> QED
    BY <1>3 DEF CallOK

--------------------------------------------------------------------------------
(* The steps keep their types. *)

LEMMA CommandType == TypeInv /\ Commands => TypeInv'
  <1> SUFFICES ASSUME TypeInv, Commands PROVE TypeInv'
    OBVIOUS
  <1> USE DEF behaviour, configured, bounds
  <1>1. CallOK /\ BoundsOK /\ BehaviorOK /\ ConfiguredOK /\ RestOK
    BY DEF TypeInv
  <1>2. NoToken \in 0 .. MaxCalls
    BY BoundsAssumption DEF NoToken
  <1>3. \A b \in {"sync", "reset", "check", "token", "config"} : b \in Places
    BY DEF Places
  <1>4. ASSUME NEW f \in Files, NEW t \in Texts, AddFile(f, t) PROVE TypeInv'
    <2>1. BehaviorOK' /\ ConfiguredOK' /\ RestOK'
      BY <1>1, <1>4 DEF AddFile, Astray, BehaviorOK, ConfiguredOK, RestOK, Tree
    <2>2. CASE prov = "local"
      <3>1. Begin("add", "sync", NoToken)
        BY <1>4, <2>2 DEF AddFile
      <3> QED
        BY <1>2, <1>3, <2>1, <3>1, BeginOK DEF Ops, TypeInv
    <2>3. CASE prov # "local"
      BY <1>1, <1>4, <2>1, <2>3, BoundsAssumption DEF TypeInv, AddFile, Astray, CallOK, BoundsOK, At
    <2> QED
      BY <2>2, <2>3
  <1>5. ASSUME NEW f \in Files, RemoveFile(f) PROVE TypeInv'
    <2>1. BehaviorOK'
      BY <1>1, <1>5 DEF RemoveFile, Astray, BehaviorOK, Tree
    <2>2. ConfiguredOK' /\ RestOK' /\ CallOK'
      BY <1>1, <1>5 DEF RemoveFile, Astray, ConfiguredOK, RestOK, CallOK, At
    <2>3. BoundsOK'
      BY <1>1, <1>5, BoundsAssumption DEF RemoveFile, BoundsOK
    <2> QED
      BY <2>1, <2>2, <2>3 DEF TypeInv
  <1>6. ASSUME Setup PROVE TypeInv'
    <2>1. BehaviorOK'
      BY <1>1, <1>6 DEF Setup, BehaviorOK, Tree
    <2>2. ConfiguredOK' /\ RestOK' /\ CallOK'
      BY <1>1, <1>6 DEF Setup, ConfiguredOK, RestOK, CallOK, At
    <2>3. BoundsOK'
      BY <1>1, <1>6, BoundsAssumption DEF Setup, BoundsOK
    <2> QED
      BY <2>1, <2>2, <2>3 DEF TypeInv
  <1>7. ASSUME RefreshAgent \/ Rebaseline \/ RegenerateAgentConfig PROVE TypeInv'
    <2>1. BehaviorOK' /\ ConfiguredOK' /\ RestOK'
      BY <1>1, <1>7 DEF RefreshAgent, Rebaseline, RegenerateAgentConfig,
                        BehaviorOK, ConfiguredOK, RestOK
    <2>2. \/ Begin("refresh", "check", NoToken) \/ Begin("rebaseline", "reset", NoToken)
          \/ Begin("bind", "token", NoToken)
      BY <1>7 DEF RefreshAgent, Rebaseline, RegenerateAgentConfig
    <2>3. CallOK' /\ BoundsOK'
      BY <1>2, <1>3, <2>2, BeginOK DEF Ops
    <2> QED
      BY <2>1, <2>3 DEF TypeInv
  <1>8. ASSUME NEW role \in SUBSET Files, Provision(role) PROVE TypeInv'
    <2>1. repo' \in Tree /\ said' \in Tree
      BY <1>1, <1>8, FilesAssumption DEF Provision, BehaviorOK, Tree
    <2>2. BehaviorOK' /\ ConfiguredOK' /\ RestOK'
      BY <1>1, <1>8, <2>1 DEF Provision, BehaviorOK, ConfiguredOK, RestOK
    <2>3. Begin("provision", "config", calls + 1) /\ calls + 1 \in 0 .. MaxCalls
      BY <1>1, <1>8, BoundsAssumption DEF Provision, Begin, BoundsOK
    <2>4. CallOK' /\ BoundsOK'
      BY <1>3, <2>3, BeginOK DEF Ops
    <2> QED
      BY <2>2, <2>4 DEF TypeInv
  <1> QED
    BY <1>4, <1>5, <1>6, <1>7, <1>8 DEF Commands

\* the bounds after a step that may fail
LEMMA StepBounds ==
  ASSUME TypeInv, UNCHANGED bounds \/ LostRead \/ \E kind : Fault(kind)
  PROVE  BoundsOK'
  <1>1. CASE UNCHANGED bounds
    BY <1>1 DEF bounds, TypeInv, BoundsOK
  <1>2. CASE LostRead \/ \E kind : Fault(kind)
    BY <1>2, FaultOK DEF LostRead
  <1> QED
    BY <1>1, <1>2

LEMMA CustomStepType == TypeInv /\ CustomSteps => TypeInv'
  <1> SUFFICES ASSUME TypeInv, CustomSteps PROVE TypeInv'
    OBVIOUS
  <1> USE DEF behaviour, configured, custom
  <1>1. CallOK /\ BoundsOK /\ BehaviorOK /\ ConfiguredOK /\ RestOK /\ call \in Call
    BY DEF TypeInv, CallOK
  <1>2. BehaviorOK' /\ RestOK'
    BY <1>1 DEF CustomSteps, ReadCustom, BackUpCustom, EmptyCustom, EnsureCustom, CreateCustom,
                DeployManaged, BehaviorOK, RestOK
  <1>3. BoundsOK'
    BY StepBounds DEF CustomSteps, ReadCustom, BackUpCustom, EmptyCustom, EnsureCustom,
                      CreateCustom, DeployManaged
  <1>4. ConfiguredOK'
    BY <1>1 DEF CustomSteps, ReadCustom, BackUpCustom, EmptyCustom, EnsureCustom, CreateCustom,
                DeployManaged, ConfiguredOK, RestOK, Custom, Versions
  <1>5. CASE ReadCustom
    <2>1. CASE Return
      BY <1>2, <1>3, <1>4, <2>1, ReturnOK DEF TypeInv
    <2>2. CASE call' = [call EXCEPT !.saw = admin, !.at = IF admin = Absent THEN "empty" ELSE "backup"]
      <3> DEFINE place == IF admin = Absent THEN "empty" ELSE "backup"
      <3>1. admin \in Custom /\ place \in Places /\ call.put = {} /\ call.gone = {}
        BY <1>1, <1>5 DEF ConfiguredOK, Places, ReadCustom, CallOK, At
      <3> HIDE DEF place
      <3>2. call' \in Call /\ call'.put = {} /\ call'.gone = {}
        BY <1>1, <2>2, <3>1 DEF Call, place
      <3>3. CallOK'
        BY <3>2 DEF CallOK
      <3> QED
        BY <1>2, <1>3, <1>4, <3>3 DEF TypeInv
    <2> QED
      BY <1>5, <2>1, <2>2 DEF ReadCustom
  <1>6. CASE EmptyCustom
    <2>1. CASE Return
      BY <1>2, <1>3, <1>4, <2>1, ReturnOK DEF TypeInv
    <2>2. CASE call' = [Idle EXCEPT !.op = "refresh", !.at = "check"]
      <3>1. call' \in Call /\ call'.put = {} /\ call'.gone = {}
        BY <2>2, IdleType DEF Call, Ops, Places
      <3>2. CallOK'
        BY <3>1 DEF CallOK
      <3> QED
        BY <1>2, <1>3, <1>4, <3>2 DEF TypeInv
    <2> QED
      BY <1>6, <2>1, <2>2 DEF EmptyCustom
  <1>7. CASE EnsureCustom
    <2>1. CASE Return
      BY <1>2, <1>3, <1>4, <2>1, ReturnOK DEF TypeInv
    <2>2. CASE GoOn(IF admin = Absent THEN "create" ELSE "managed")
      <3>1. PICK place \in {"create", "managed"} : call' = [call EXCEPT !.at = place]
        BY <2>2 DEF GoOn
      <3>2. call' \in Call /\ call'.put = {} /\ call'.gone = {}
        BY <1>1, <1>7, <3>1 DEF Call, Places, EnsureCustom, CallOK, At
      <3>3. CallOK'
        BY <3>2 DEF CallOK
      <3> QED
        BY <1>2, <1>3, <1>4, <3>3 DEF TypeInv
    <2> QED
      BY <1>7, <2>1, <2>2 DEF EnsureCustom
  <1>8. CASE BackUpCustom \/ CreateCustom \/ DeployManaged
    <2>1. Return \/ Proceed
      BY <1>8 DEF BackUpCustom, CreateCustom, DeployManaged
    <2>2. call.at \in Places \ {"sync", "reset", "empty", "write", "delete", "done"}
      BY <1>8 DEF BackUpCustom, CreateCustom, DeployManaged, At, Places
    <2>3. CallOK'
      BY <2>1, <2>2, ProceedOK, ReturnOK
    <2> QED
      BY <1>2, <1>3, <1>4, <2>3 DEF TypeInv
  <1> QED
    BY <1>5, <1>6, <1>7, <1>8 DEF CustomSteps

LEMMA TokenStepType == TypeInv /\ TokenSteps => TypeInv'
  <1> SUFFICES ASSUME TypeInv, TokenSteps PROVE TypeInv'
    OBVIOUS
  <1> USE DEF behaviour, custom
  <1>1. CallOK /\ BoundsOK /\ BehaviorOK /\ ConfiguredOK /\ RestOK
    BY DEF TypeInv
  <1>2. BehaviorOK' /\ RestOK'
    BY <1>1 DEF TokenSteps, CheckConfig, ReadToken, WriteConfig, SaveBaseline, BehaviorOK, RestOK
  <1>3. BoundsOK'
    BY StepBounds DEF TokenSteps, CheckConfig, ReadToken, WriteConfig, SaveBaseline
  <1>4. Fresh \in 0 .. MaxCalls /\ NoToken \in 0 .. MaxCalls
    BY <1>1, BoundsAssumption DEF Fresh, NoToken, BoundsOK
  <1>5. config # Absent => config.tok \in 0 .. MaxCalls
    BY <1>1 DEF ConfiguredOK, Config
  <1>6. CASE CheckConfig
    <2>1. ConfiguredOK'
      BY <1>1, <1>6 DEF CheckConfig, ConfiguredOK
    <2>2. PICK tok \in 0 .. MaxCalls : TakeToken(tok)
      BY <1>4, <1>5, <1>6 DEF CheckConfig
    <2>3. CallOK'
      BY <1>6, <2>2, TakeTokenOK DEF CheckConfig
    <2> QED
      BY <1>2, <1>3, <2>1, <2>3 DEF TypeInv
  <1>7. CASE ReadToken
    <2>1. ConfiguredOK'
      BY <1>1, <1>7 DEF ReadToken, ConfiguredOK
    <2>2. PICK tok \in 0 .. MaxCalls : TakeToken(tok)
      BY <1>4, <1>5, <1>7 DEF ReadToken, TokenOf
    <2>3. CallOK'
      BY <1>7, <2>2, TakeTokenOK DEF ReadToken
    <2> QED
      BY <1>2, <1>3, <2>1, <2>3 DEF TypeInv
  <1>8. CASE WriteConfig
    <2>1. [tok |-> call.tok, text |-> settings] \in Config
      BY <1>1 DEF CallOK, Call, RestOK, Config
    <2>2. ConfiguredOK'
      BY <1>1, <1>8, <2>1 DEF WriteConfig, ConfiguredOK
    <2>3. CallOK'
      BY <1>8, ProceedOK, ReturnOK DEF WriteConfig, At, Places
    <2> QED
      BY <1>2, <1>3, <2>2, <2>3 DEF TypeInv
  <1>9. CASE SaveBaseline
    <2>1. ConfiguredOK'
      BY <1>1, <1>9 DEF SaveBaseline, ConfiguredOK
    <2>2. CallOK'
      BY <1>9, ProceedOK DEF SaveBaseline, At, Places
    <2> QED
      BY <1>2, <1>3, <2>1, <2>2 DEF TypeInv
  <1> QED
    BY <1>6, <1>7, <1>8, <1>9 DEF TokenSteps

\* a deployment that ends
LEMMA EndDeployOK == ASSUME TypeInv, EndDeploy PROVE CallOK'
  <1>1. Following(call.op)["delete"] \in Places
    BY FollowingType DEF Places
  <1>2. call.op \in Ops /\ call.tok \in 0 .. MaxCalls
    BY DEF TypeInv, CallOK, Call
  <1>3. call' \in Call /\ call'.put = {} /\ call'.gone = {}
    BY <1>1, <1>2, IdleType DEF EndDeploy, Call
  <1> QED
    BY <1>3 DEF CallOK

LEMMA DeployStepType ==
  TypeInv /\ (SyncBehavior \/ Compose \/ (\E f \in Files : WriteFile(f) \/ DeleteFile(f))
                 \/ WriteManifest \/ Die)
      => TypeInv'
  <1> SUFFICES ASSUME TypeInv,
                      SyncBehavior \/ Compose \/ (\E f \in Files : WriteFile(f) \/ DeleteFile(f))
                          \/ WriteManifest \/ Die
               PROVE  TypeInv'
    OBVIOUS
  <1> USE DEF configured, bounds
  <1>1. CallOK /\ BoundsOK /\ BehaviorOK /\ ConfiguredOK /\ RestOK
    BY DEF TypeInv
  <1>2. ConfiguredOK' /\ RestOK'
    BY <1>1 DEF SyncBehavior, Compose, WriteFile, DeleteFile, WriteManifest, Die, ConfiguredOK, RestOK
  <1>3. ASSUME NEW kind, Fault(kind) \/ LostRead PROVE BoundsOK'
    BY <1>3, FaultOK DEF LostRead
  <1>4. UNCHANGED bounds => BoundsOK'
    BY <1>1 DEF BoundsOK
  <1>5. BoundsOK'
    BY <1>3, <1>4 DEF SyncBehavior, Compose, WriteFile, DeleteFile, WriteManifest, Die
  <1>6. Owed \subseteq Files
    BY DEF Owed
  <1>7. CASE SyncBehavior
    <2>1. BehaviorOK'
      BY <1>1, <1>7 DEF SyncBehavior, BehaviorOK, Tree
    <2>2. CallOK'
      BY <1>7, ReturnOK DEF SyncBehavior
    <2> QED
      BY <1>2, <1>5, <2>1, <2>2 DEF TypeInv
  <1>8. CASE Compose
    <2> DEFINE plan == Resolve(Source)
    <2> DEFINE gone == ReconcileDeletions(manifest, plan)
    <2>1. plan \in Manifest
      BY <1>1, SourceType, PlanType
    <2>2. gone \subseteq Files /\ \A f \in gone : plan[f] = Absent
      BY DEF ReconcileDeletions
    <2>3. ASSUME NEW some \in SUBSET gone, Plan(some) PROVE CallOK'
      <3>1. call' = [call EXCEPT !.at = "write", !.plan = plan, !.gone = some,
                                 !.put = {f \in Files : plan[f] # Absent}]
        BY <2>3 DEF Plan
      <3>2. call \in Call /\ "write" \in Places
        BY <1>1 DEF CallOK, Places
      <3> HIDE DEF plan, gone
      <3>3. call' \in Call /\ call'.at = "write" /\ call'.plan = plan /\ call'.gone = some
            /\ call'.put = {f \in Files : plan[f] # Absent}
        BY <2>1, <2>2, <3>1, <3>2 DEF Call
      <3> QED
        BY <2>2, <3>3 DEF CallOK, At
    <2>4. \E some \in SUBSET gone : Plan(some)
      BY <1>8 DEF Compose
    <2>5. BehaviorOK'
      <3>1. doubt' = doubt \/ \E missed \in {gone} \cup {{f} : f \in gone} : doubt' = doubt \cup missed
        BY <1>8 DEF Compose
      <3>2. doubt' \subseteq Files
        BY <1>1, <2>2, <3>1 DEF BehaviorOK
      <3> QED
        BY <1>1, <1>8, <3>2 DEF Compose, BehaviorOK
    <2> QED
      BY <1>2, <1>5, <2>3, <2>4, <2>5 DEF TypeInv
  <1>9. ASSUME NEW f \in Files, WriteFile(f) PROVE TypeInv'
    <2>1. call \in Call /\ f \in call.put /\ call.plan[f] # Absent /\ At("write")
      BY <1>1, <1>9 DEF WriteFile, CallOK
    <2>2. call.plan[f].text \in Texts \cup {Default}
      BY <2>1 DEF Call, Manifest, Entry
    <2>3. BehaviorOK'
      BY <1>1, <1>6, <1>9, <2>2 DEF WriteFile, BehaviorOK
    <2>4. CASE EndDeploy
      BY <1>2, <1>5, <2>3, <2>4, EndDeployOK DEF TypeInv
    <2>5. CASE call' = [call EXCEPT !.put = @ \ {f},
                                    !.at = IF call.put = {f} THEN "delete" ELSE "write"]
      <3>1. call' \in Call /\ call'.plan = call.plan /\ call'.gone = call.gone
            /\ call'.put = call.put \ {f}
            /\ call'.at = IF call.put = {f} THEN "delete" ELSE "write"
        BY <2>1, <2>5 DEF Call, Places
      <3>2. CallOK'
        BY <1>1, <2>1, <3>1 DEF CallOK, At
      <3> QED
        BY <1>2, <1>5, <2>3, <3>2 DEF TypeInv
    <2> QED
      BY <1>9, <2>4, <2>5 DEF WriteFile
  <1>10. ASSUME NEW f \in Files, DeleteFile(f) PROVE TypeInv'
    <2>1. BehaviorOK'
      BY <1>1, <1>10 DEF DeleteFile, BehaviorOK
    <2>2. call' = [call EXCEPT !.gone = @ \ {f}] /\ At("delete")
      BY <1>10 DEF DeleteFile
    <2>3. call' \in Call /\ call'.plan = call.plan /\ call'.gone = call.gone \ {f}
          /\ call'.put = call.put /\ call'.at = call.at
      BY <1>1, <2>2 DEF CallOK, Call
    <2>4. CallOK'
      BY <1>1, <2>2, <2>3 DEF CallOK, At
    <2> QED
      BY <1>2, <1>5, <2>1, <2>4 DEF TypeInv
  <1>11. CASE WriteManifest
    <2>1. call.plan \in Manifest /\ Nowhere \in Manifest
      BY <1>1 DEF CallOK, Call, Nowhere, Manifest
    <2>2. BehaviorOK'
      BY <1>1, <1>6, <1>11, <2>1 DEF WriteManifest, BehaviorOK
    <2>3. CallOK'
      BY <1>11, EndDeployOK, ReturnOK DEF WriteManifest
    <2> QED
      BY <1>2, <1>5, <2>2, <2>3 DEF TypeInv
  <1>12. CASE Die
    <2>1. BehaviorOK'
      BY <1>1, <1>6, <1>12 DEF Die, BehaviorOK
    <2>2. CallOK'
      BY <1>12, ReturnOK DEF Die
    <2> QED
      BY <1>2, <1>5, <2>1, <2>2 DEF TypeInv
  <1> QED
    BY <1>7, <1>8, <1>9, <1>10, <1>11, <1>12

LEMMA OthersType == TypeInv /\ Others => TypeInv'
  <1> SUFFICES ASSUME TypeInv, Others PROVE TypeInv'
    OBVIOUS
  <1> USE DEF behaviour, configured
  <1>1. CallOK /\ BoundsOK /\ BehaviorOK /\ ConfiguredOK /\ RestOK
    BY DEF TypeInv
  <1>2. CallOK' /\ BoundsOK'
    BY <1>1, BoundsAssumption DEF Others, EditRepository, ChangeSettings, AgentWrites, ConfigEdited,
                AdminWrites, Edit, CallOK, BoundsOK, At
  <1>3. BehaviorOK'
    <2>1. ASSUME NEW f \in Files, EditRepository(f) PROVE BehaviorOK'
      <3>1. PICK t \in Texts \cup {Absent} : repo' = [repo EXCEPT ![f] = t]
        BY <2>1 DEF EditRepository
      <3>2. repo' \in Tree
        BY <1>1, <3>1 DEF BehaviorOK, Tree
      <3>3. said' \in Tree
        BY <1>1, <2>1, <3>2 DEF EditRepository, BehaviorOK, Tree
      <3> QED
        BY <1>1, <2>1, <3>2, <3>3 DEF EditRepository, BehaviorOK
    <2>2. CASE \E f \in Files : AgentWrites(f)
      BY <1>1, <2>2 DEF AgentWrites, BehaviorOK
    <2>3. CASE ChangeSettings \/ ConfigEdited \/ AdminWrites
      BY <1>1, <2>3 DEF ChangeSettings, ConfigEdited, AdminWrites, BehaviorOK
    <2> QED
      BY <2>1, <2>2, <2>3 DEF Others
  <1>4. ConfiguredOK' /\ RestOK'
    <2>1. ASSUME ConfigEdited PROVE config' \in Config
      BY <1>1, <2>1 DEF ConfigEdited, ConfiguredOK, Config
    <2>2. ASSUME AdminWrites PROVE edits' \in Versions
      BY <1>1, <2>2, BoundsAssumption DEF AdminWrites, Edit, BoundsOK, Versions
    <2> USE DEF custom, Custom
    <2> QED
      BY <1>1, <2>1, <2>2 DEF Others, EditRepository, ChangeSettings, AgentWrites, ConfigEdited,
                        AdminWrites, ConfiguredOK, RestOK
  <1> QED
    BY <1>2, <1>3, <1>4 DEF TypeInv

LEMMA TypeStep == TypeInv /\ [Next]_vars => TypeInv'
  <1>1. TypeInv /\ UNCHANGED vars => TypeInv'
    BY DEF vars, behaviour, configured, bounds, TypeInv, CallOK, BoundsOK, BehaviorOK,
           ConfiguredOK, RestOK, At
  <1> QED
    BY <1>1, CommandType, CustomStepType, TokenStepType, DeployStepType, OthersType
       DEF Next, Steps, CustomSteps, TokenSteps

\* Every variable has its type, a file is written only for a deployment that plans it, and
\* none is deleted that the deployment supplies.
THEOREM TypeCorrect == Spec => []TypeOK
  <1>1. Spec => []TypeInv
    BY InitType, TypeStep, PTL DEF Spec
  <1> QED
    BY <1>1, TypeInvImplies, PTL

--------------------------------------------------------------------------------
(* The token. *)

\* A config that nobody changed since its baseline was saved is the baseline, and a call that
\* is about to write over such a config carries its token.
TokenInv ==
    /\ TypeInv
    /\ (config # Absent /\ ~outside) => baseline = config
    /\ (At("config") /\ call.op # "provision" /\ config # Absent /\ ~outside)
           => call.tok = config.tok

\* The places from which a call goes on to write the config.
LEMMA LeadsToConfig ==
  ASSUME NEW op, NEW at \in Places \ {"sync", "done", "reset", "empty", "check", "token"}
  PROVE  Following(op)[at] # "config"
  BY DEF Following, Places

LEMMA TokenConfigStep == TokenInv /\ (CustomSteps \/ TokenSteps) => TokenInv'
  <1> SUFFICES ASSUME TokenInv, CustomSteps \/ TokenSteps PROVE TokenInv'
    OBVIOUS
  <1>1. TypeInv'
    BY CustomStepType, TokenStepType DEF TokenInv
  <1>2. call \in Call
    BY DEF TokenInv, TypeInv, CallOK
  <1>3. ASSUME Return PROVE ~At("config")'
    BY <1>3 DEF Return, Idle, At
  <1>4. ASSUME Proceed, call.at \in Places \ {"sync", "done", "reset", "empty", "check", "token"}
        PROVE  ~At("config")'
    BY <1>2, <1>4, LeadsToConfig DEF Proceed, GoOn, Idle, At, Call
  <1>5. ASSUME NEW tok, TakeToken(tok) PROVE call'.op = call.op /\ call'.tok = tok
    BY <1>2, <1>5 DEF TakeToken, Call
  <1>6. CASE CustomSteps
    <2>1. UNCHANGED <<config, baseline, outside>>
      BY <1>6 DEF CustomSteps, ReadCustom, BackUpCustom, EmptyCustom, EnsureCustom, CreateCustom,
                  DeployManaged, configured
    <2>2. ~At("config")'
      <3>1. CASE ReadCustom
        BY <1>2, <1>3, <3>1 DEF ReadCustom, At, Call
      <3>2. CASE EmptyCustom
        BY <1>3, <3>2 DEF EmptyCustom, Idle, At
      <3>3. CASE EnsureCustom
        BY <1>2, <1>3, <3>3 DEF EnsureCustom, GoOn, At, Call
      <3>4. CASE BackUpCustom \/ CreateCustom \/ DeployManaged
        BY <1>3, <1>4, <3>4 DEF BackUpCustom, CreateCustom, DeployManaged, At, Places
      <3> QED
        BY <1>6, <3>1, <3>2, <3>3, <3>4 DEF CustomSteps
    <2> QED
      BY <1>1, <2>1, <2>2 DEF TokenInv, At
  <1>7. CASE CheckConfig
    <2>1. (config # Absent /\ ~outside)' => (baseline = config)' /\ (config # Absent /\ ~outside)
      BY <1>7 DEF CheckConfig, TokenInv
    <2>2. (config # Absent /\ ~outside)' => call'.tok = config'.tok
      BY <1>5, <1>7, <2>1 DEF CheckConfig, TokenInv
    <2> QED
      BY <1>1, <2>1, <2>2 DEF TokenInv
  <1>8. CASE ReadToken
    <2>1. (config # Absent /\ ~outside)' => config # Absent /\ ~outside /\ TokenOf(config) # NoToken
      BY <1>8 DEF ReadToken
    <2>2. (config # Absent /\ ~outside)' => call'.tok = config'.tok
      BY <1>5, <1>8, <2>1 DEF ReadToken
    <2> QED
      BY <1>1, <1>8, <2>1, <2>2 DEF ReadToken, TokenInv
  <1>9. CASE WriteConfig
    BY <1>1, <1>3, <1>4, <1>9 DEF WriteConfig, TokenInv, At, Places
  <1>10. CASE SaveBaseline
    BY <1>1, <1>4, <1>10 DEF SaveBaseline, TokenInv, At, Places, bounds
  <1> QED
    BY <1>6, <1>7, <1>8, <1>9, <1>10 DEF TokenSteps

LEMMA TokenStep == TokenInv /\ [Next]_vars => TokenInv'
  <1> SUFFICES ASSUME TokenInv, [Next]_vars PROVE TokenInv'
    OBVIOUS
  <1>1. TypeInv'
    BY TypeStep DEF TokenInv
  <1>2. call \in Call
    BY DEF TokenInv, TypeInv, CallOK
  <1>3. ASSUME UNCHANGED configured,
               UNCHANGED call \/ ~At("config")' \/ call'.op = "provision"
        PROVE  TokenInv'
    BY <1>1, <1>3 DEF configured, TokenInv, At
  <1>4. CASE Commands
    <2>1. UNCHANGED configured
      BY <1>4 DEF Commands, AddFile, RemoveFile, Setup, RefreshAgent, Rebaseline,
                  RegenerateAgentConfig, Provision
    <2>2. ASSUME NEW op, NEW at, NEW tok, Begin(op, at, tok) PROVE call'.at = at /\ call'.op = op
      BY <2>2 DEF Begin, Idle
    <2>3. UNCHANGED call \/ ~At("config")' \/ call'.op = "provision"
      BY <1>4, <2>2 DEF Commands, AddFile, RemoveFile, Setup, RefreshAgent, Rebaseline,
                        RegenerateAgentConfig, Provision, At
    <2> QED
      BY <1>3, <2>1, <2>3
  <1>5. CASE SyncBehavior \/ Compose \/ (\E f \in Files : WriteFile(f) \/ DeleteFile(f))
                 \/ WriteManifest \/ Die
    <2>1. UNCHANGED configured
      BY <1>5 DEF SyncBehavior, Compose, WriteFile, DeleteFile, WriteManifest, Die
    <2>2. ASSUME Return \/ EndDeploy PROVE ~At("config")'
      <3>1. Following(call.op)["delete"] # "config"
        BY LeadsToConfig DEF Places
      <3>2. \/ call' = Idle
            \/ call' = [Idle EXCEPT !.op = call.op, !.tok = call.tok,
                                    !.at = Following(call.op)["delete"]]
        BY <2>2, Zenon DEF Return, EndDeploy
      <3>3. ASSUME NEW op, NEW tok, NEW at, call' = [Idle EXCEPT !.op = op, !.tok = tok, !.at = at]
            PROVE  call'.at = at
        BY <3>3 DEF Idle
      <3>4. call' = Idle => call'.at = "done"
        BY DEF Idle
      <3> QED
        BY <3>1, <3>2, <3>3, <3>4 DEF At
    <2>3. ASSUME NEW gone, Plan(gone) PROVE ~At("config")'
      BY <1>2, <2>3 DEF Plan, At, Call
    <2>4. ASSUME NEW f \in Files, WriteFile(f) \/ DeleteFile(f) PROVE ~At("config")'
      BY <1>2, <2>2, <2>4 DEF WriteFile, DeleteFile, At, Call
    <2>5. ~At("config")'
      BY <1>5, <2>2, <2>3, <2>4 DEF SyncBehavior, Compose, WriteManifest, Die
    <2> QED
      BY <1>3, <2>1, <2>5
  <1>6. CASE Others
    <2>1. UNCHANGED call
      BY <1>6 DEF Others, EditRepository, AgentWrites, ChangeSettings, ConfigEdited, AdminWrites
    <2>2. UNCHANGED <<config, baseline, outside>> \/ outside'
      BY <1>6 DEF Others, EditRepository, AgentWrites, ChangeSettings, ConfigEdited, AdminWrites,
                  configured
    <2> QED
      BY <1>1, <2>1, <2>2 DEF TokenInv, At
  <1>7. CASE UNCHANGED vars
    BY <1>3, <1>7 DEF vars
  <1> QED
    BY <1>4, <1>5, <1>6, <1>7, TokenConfigStep DEF Next, Steps, CustomSteps, TokenSteps

\* Whatever fails and whoever edits in between, a refresh, a rebaseline and a rebind write the
\* config with the token it has, unless it was changed outside, left without its baseline, or
\* could not be read or compared with its baseline.
THEOREM TokenIsKept == Spec => TokenKept
  <1>1. Init => TokenInv
    BY InitType DEF Init, TokenInv, At, Idle
  <1>2. ASSUME TokenInv, [Next]_vars
        PROVE  config # Absent /\ config'.tok # config.tok => outside \/ call.op = "provision"
    <2> SUFFICES ASSUME config # Absent, config'.tok # config.tok
                 PROVE  outside \/ call.op = "provision"
      OBVIOUS
    <2>1. config \in Config
      BY <1>2 DEF TokenInv, TypeInv, ConfiguredOK
    <2>2. ASSUME ConfigEdited PROVE config'.tok = config.tok
      BY <2>1, <2>2 DEF ConfigEdited, Config
    <2>3. CASE WriteConfig
      BY <1>2, <2>3 DEF WriteConfig, TokenInv
    <2>4. CASE ~WriteConfig /\ ~ConfigEdited
      <3>1. UNCHANGED config
        BY <1>2, <2>4 DEF Next, Commands, Steps, Others, AddFile, RemoveFile, Setup, RefreshAgent,
              Rebaseline, RegenerateAgentConfig, Provision, SyncBehavior, ReadCustom, BackUpCustom,
              EmptyCustom, CheckConfig, ReadToken, EnsureCustom, CreateCustom, DeployManaged,
              SaveBaseline, Compose, WriteFile, DeleteFile, WriteManifest, Die, EditRepository, AgentWrites, ChangeSettings, AdminWrites, configured, vars
      <3> QED
        BY <3>1
    <2> QED
      BY <2>2, <2>3, <2>4
  <1> QED
    BY <1>1, <1>2, TokenStep, PTL DEF Spec, TokenKept

--------------------------------------------------------------------------------
(* The admin's file. *)

\* A call that is about to write over agent-custom.json holds what is in it, or has it in a
\* backup, unless the admin wrote since the call looked.
AdminInv ==
    /\ TypeInv
    /\ (At("backup") /\ prov = "local" /\ admin \in Versions) => admin = call.saw \/ admin \in exposed
    /\ (At("empty") /\ admin \in Versions) => admin \in backups \cup exposed
    /\ (At("create") /\ admin \in Versions) => admin \in exposed

Kept == (admin \in Versions /\ admin' \notin Versions) => admin \in backups \cup exposed

\* a step that leaves the file alone and does not come to write over it
LEMMA AdminQuiet ==
  ASSUME AdminInv, TypeInv', UNCHANGED <<prov, custom>>,
         UNCHANGED call \/ call'.at \notin {"backup", "empty", "create"}
  PROVE  AdminInv' /\ Kept
  BY DEF AdminInv, Kept, custom, At

\* the places from which a call comes to write over the file
LEMMA LeadsToExposing ==
  ASSUME NEW op
  PROVE  /\ \A at \in Places \ {"sync", "done", "reset", "empty", "backup"} :
                Following(op)[at] \notin {"backup", "empty", "create"}
         /\ Following(op)["backup"] = "empty"
  BY DEF Following, Places

LEMMA AdminCustomStep == ASSUME AdminInv, CustomSteps PROVE AdminInv' /\ Kept
  <1>1. TypeInv /\ TypeInv' /\ call \in Call
    BY CustomStepType DEF AdminInv, TypeInv, CallOK
  <1>2. Absent \notin Versions
    BY NamesAssumption, BoundsAssumption DEF Versions
  <1>3. Return => call'.at = "done"
    BY DEF Return, Idle
  <1>4. CASE ReadCustom
    <2>1. UNCHANGED <<prov, custom>>
      BY <1>4 DEF ReadCustom, configured, custom
    <2>2. CASE Return
      BY <1>1, <1>3, <2>1, <2>2, AdminQuiet
    <2>3. CASE ~Return
      <3>1. call' = [call EXCEPT !.saw = admin, !.at = IF admin = Absent THEN "empty" ELSE "backup"]
        BY <1>4, <2>3 DEF ReadCustom
      <3>2. call'.saw = admin /\ call'.at = IF admin = Absent THEN "empty" ELSE "backup"
        BY <1>1, <3>1 DEF Call
      <3> QED
        BY <1>1, <1>2, <2>1, <3>2 DEF AdminInv, Kept, custom, At
    <2> QED
      BY <2>2, <2>3
  <1>5. CASE BackUpCustom
    <2>1. UNCHANGED <<prov, admin>> /\ At("backup")
      BY <1>5 DEF BackUpCustom
    <2>2. CASE Return
      BY <1>1, <1>3, <2>1, <2>2 DEF AdminInv, Kept, At
    <2>3. CASE ~Return
      <3>1. Proceed
        BY <1>5, <2>3 DEF BackUpCustom
      <3>2. call'.at = "empty"
        BY <1>1, <2>1, <3>1, LeadsToExposing DEF Proceed, GoOn, At, Call
      <3>3. admin \in Versions => admin \in backups' \cup exposed'
        BY <1>5, <2>1, <2>3 DEF BackUpCustom, AdminInv
      <3> QED
        BY <1>1, <2>1, <3>2, <3>3 DEF AdminInv, Kept, At
    <2> QED
      BY <2>2, <2>3
  <1>6. CASE EmptyCustom
    <2>1. call'.at \in {"check", "done"}
      BY <1>3, <1>6 DEF EmptyCustom, Idle
    <2>2. At("empty")
      BY <1>6 DEF EmptyCustom
    <2> QED
      BY <1>1, <2>1, <2>2 DEF AdminInv, Kept, At
  <1>7. CASE EnsureCustom
    <2>1. UNCHANGED <<prov, custom>>
      BY <1>7 DEF EnsureCustom, configured, custom
    <2>2. CASE Return
      BY <1>1, <1>3, <2>1, <2>2, AdminQuiet
    <2>3. CASE ~Return
      <3>1. call'.at = IF admin = Absent THEN "create" ELSE "managed"
        BY <1>1, <1>7, <2>3 DEF EnsureCustom, GoOn, Call
      <3> QED
        BY <1>1, <1>2, <2>1, <3>1 DEF AdminInv, Kept, custom, At
    <2> QED
      BY <2>2, <2>3
  <1>8. CASE CreateCustom \/ DeployManaged
    <2>1. call.at \in {"create", "managed"} /\ (Return \/ Proceed)
      BY <1>8 DEF CreateCustom, DeployManaged, At
    <2>2. call.at \in Places \ {"sync", "done", "reset", "empty", "backup"}
      BY <2>1 DEF Places
    <2>3. call'.at \notin {"backup", "empty", "create"}
      BY <1>1, <1>3, <2>1, <2>2, LeadsToExposing DEF Proceed, GoOn, Idle, Call
    <2>4. UNCHANGED <<custom, prov>> \/ At("create")
      BY <1>8 DEF CreateCustom, DeployManaged
    <2>5. Kept
      BY <2>4 DEF AdminInv, Kept, custom
    <2> QED
      BY <1>1, <2>3, <2>5 DEF AdminInv, At
  <1> QED
    BY <1>4, <1>5, <1>6, <1>7, <1>8 DEF CustomSteps

LEMMA AdminStep == ASSUME AdminInv, [Next]_vars PROVE AdminInv' /\ Kept
  <1>1. TypeInv /\ TypeInv' /\ call \in Call
    BY TypeStep DEF AdminInv, TypeInv, CallOK
  <1>2. Return => call'.at = "done"
    BY DEF Return, Idle
  <1>3. CASE TokenSteps
    <2>1. UNCHANGED <<prov, custom>>
      BY <1>3 DEF TokenSteps, CheckConfig, ReadToken, WriteConfig, SaveBaseline, behaviour
    <2>2. call.at \in {"check", "token", "config", "baseline"}
      BY <1>3 DEF TokenSteps, CheckConfig, ReadToken, WriteConfig, SaveBaseline, At
    <2>3. call.at \in Places \ {"sync", "done", "reset", "empty", "backup"}
      BY <2>2 DEF Places
    <2>4. Return \/ Proceed \/ \E tok : TakeToken(tok)
      BY <1>3 DEF TokenSteps, CheckConfig, ReadToken, WriteConfig, SaveBaseline
    <2>5. call'.at \notin {"backup", "empty", "create"}
      <3>1. ASSUME Proceed PROVE call'.at \notin {"backup", "empty", "create"}
        BY <1>1, <2>3, <3>1, LeadsToExposing DEF Proceed, GoOn, Idle, Call
      <3>2. ASSUME NEW tok, TakeToken(tok) PROVE call'.at \notin {"backup", "empty", "create"}
        BY <1>1, <2>3, <3>2, LeadsToExposing DEF TakeToken, Call
      <3> QED
        BY <1>2, <2>4, <3>1, <3>2
    <2> QED
      BY <1>1, <2>1, <2>5, AdminQuiet
  <1>4. CASE Commands
    <2>1. UNCHANGED <<prov, custom>>
      BY <1>4 DEF Commands, AddFile, RemoveFile, Setup, RefreshAgent, Rebaseline,
                  RegenerateAgentConfig, Provision, configured, custom
    <2>2. ASSUME NEW op, NEW at, NEW tok, Begin(op, at, tok) PROVE call'.at = at
      BY <2>2 DEF Begin, Idle
    <2>3. UNCHANGED call \/ call'.at \in {"sync", "check", "reset", "token", "config"}
      BY <1>4, <2>2 DEF Commands, AddFile, RemoveFile, Setup, RefreshAgent, Rebaseline,
                        RegenerateAgentConfig, Provision
    <2> QED
      BY <1>1, <2>1, <2>3, AdminQuiet
  <1>5. CASE SyncBehavior \/ Compose \/ (\E f \in Files : WriteFile(f) \/ DeleteFile(f))
                 \/ WriteManifest \/ Die
    <2>1. UNCHANGED <<prov, custom>>
      BY <1>5 DEF SyncBehavior, Compose, WriteFile, DeleteFile, WriteManifest, Die, configured, custom
    <2>2. ASSUME EndDeploy PROVE call'.at \notin {"backup", "empty", "create"}
      <3>1. Following(call.op)["delete"] \notin {"backup", "empty", "create"}
        BY LeadsToExposing DEF Places
      <3>2. \/ call' = Idle
            \/ call' = [Idle EXCEPT !.op = call.op, !.tok = call.tok,
                                    !.at = Following(call.op)["delete"]]
        BY <2>2, Zenon DEF EndDeploy
      <3>3. ASSUME NEW op, NEW tok, NEW at, call' = [Idle EXCEPT !.op = op, !.tok = tok, !.at = at]
            PROVE  call'.at = at
        BY <3>3 DEF Idle
      <3>4. call' = Idle => call'.at = "done"
        BY DEF Idle
      <3> QED
        BY <3>1, <3>2, <3>3, <3>4
    <2>3. ASSUME NEW gone, Plan(gone) PROVE call'.at \notin {"backup", "empty", "create"}
      BY <1>1, <2>3 DEF Plan, Call
    <2>4. ASSUME NEW f \in Files, WriteFile(f) \/ DeleteFile(f)
          PROVE  call'.at \notin {"backup", "empty", "create"}
      BY <1>1, <2>2, <2>4 DEF WriteFile, DeleteFile, At, Call
    <2>5. call'.at \notin {"backup", "empty", "create"}
      BY <1>2, <1>5, <2>2, <2>3, <2>4 DEF SyncBehavior, Compose, WriteManifest, Die
    <2> QED
      BY <1>1, <2>1, <2>5, AdminQuiet
  <1>6. CASE Others
    <2>1. UNCHANGED <<prov, call>>
      BY <1>6 DEF Others, EditRepository, AgentWrites, ChangeSettings, ConfigEdited, AdminWrites
    <2>2. CASE UNCHANGED custom
      BY <1>1, <2>1, <2>2, AdminQuiet
    <2>3. CASE AdminWrites
      <3>1. edits' \in Versions
        BY <1>1, <2>3, BoundsAssumption DEF AdminWrites, Edit, TypeInv, BoundsOK, Versions
      <3>2. admin' = edits' /\ (Exposing => edits' \in exposed')
        BY <2>3 DEF AdminWrites
      <3>3. Versions' = Versions
        BY DEF Versions
      <3> QED
        BY <1>1, <2>1, <3>1, <3>2, <3>3 DEF AdminInv, Kept, Exposing, At
    <2> QED
      BY <1>6, <2>2, <2>3 DEF Others, EditRepository, AgentWrites, ChangeSettings, ConfigEdited,
                              configured, custom
  <1>7. CASE UNCHANGED vars
    BY <1>1, <1>7, AdminQuiet DEF vars, configured, custom
  <1> QED
    BY <1>3, <1>4, <1>5, <1>6, <1>7, AdminCustomStep DEF Next, Steps, CustomSteps, TokenSteps

\* Whatever fails, dies or is tried again, no call takes away what the admin wrote in
\* agent-custom.json before a backup holds it, but for an edit that came between the call's
\* look at the file and its write and one a VPS could not copy.
THEOREM AdminIsKept == Spec => AdminKept
  <1>1. Init => AdminInv
    BY InitType, IdleType DEF Init, AdminInv, At
  <1>2. ASSUME AdminInv, [Next]_vars
        PROVE  (admin \in Versions /\ admin' \notin Versions) => admin \in backups \cup exposed
    BY <1>2, AdminStep DEF Kept
  <1>3. AdminInv /\ [Next]_vars => AdminInv'
    BY AdminStep
  <1> QED
    BY <1>1, <1>2, <1>3, PTL DEF Spec, AdminKept

--------------------------------------------------------------------------------
(* The behaviour files. *)

Deploying == call.at \in {"write", "delete"}

\* what stands in the workspace of a file about which nothing failed: what the manifest says,
\* and what the deployment in progress says as soon as it is done with the file
Standing(f) == IF Deploying /\ f \notin call.put \cup call.gone THEN call.plan[f] ELSE manifest[f]

\* only what has a shipped default is in a manifest without the operator having supplied it
Supplied(entries) == \A f \in Files \ Shipped : entries[f] = Absent \/ entries[f].agent

\* AppliedWhenDone speaks of the last deployment that was reported done; what makes it true is
\* spread over four places and a deployment in progress.  Its parts: the source holds what was
\* said, unless the last command wrote elsewhere; the manifest tells what stands in the workspace, unless the agent wrote since; what was
\* applied is what the source asks for, and a deployment that finds it applied plans the same;
\* what a deployment has written stands.
SourceInv == \A f \in Files \ (doubt \cup astray) : Source[f] = said[f]

WorkInv == \A f \in Files \ doubt : work[f] \in {Edited, TextOf(Standing(f))}

PlanInv ==
    /\ Supplied(manifest) /\ (Deploying => Supplied(call.plan))
    /\ Deploying =>
           \A f \in Files \ call.put : call.plan[f] # Absent => work[f] \in {Edited, call.plan[f].text}
    /\ At("sync") => prov = "local"

AppliedInv ==
    applied => /\ \A f \in Files \ doubt : manifest[f] = Resolve(Source)[f]
               /\ Deploying => call.plan = Resolve(Source)
               /\ \A f \in Files : \/ Resolve(Source)[f] = Absent
                                   \/ work[f] \in {Edited, Resolve(Source)[f].text}

FilesInv == TypeInv /\ SourceInv /\ WorkInv /\ PlanInv /\ AppliedInv

\* the plan made of a tree supplies only what an operator supplied or what is shipped
LEMMA ResolveSupplied ==
  ASSUME NEW tree \in Tree
  PROVE  /\ Supplied(Resolve(tree))
         /\ \A f \in Shipped : Resolve(tree)[f] # Absent
  <1>1. ASSUME NEW f \in Files
        PROVE  Resolve(tree)[f] = IF tree[f] # Absent THEN [text |-> tree[f], agent |-> TRUE]
                                  ELSE IF f \in Shipped THEN [text |-> Default, agent |-> FALSE]
                                  ELSE Absent
    BY DEF Resolve
  <1>2. Absent \notin Entry
    BY EntryAssumption
  <1>3. ASSUME NEW f \in Files, tree[f] # Absent
        PROVE  [text |-> tree[f], agent |-> TRUE] \in Entry
    BY <1>3 DEF Tree, Entry
  <1>4. [text |-> Default, agent |-> FALSE] \in Entry
    BY DEF Entry
  <1>5. ASSUME NEW f \in Files \ Shipped
        PROVE  Resolve(tree)[f] = Absent \/ Resolve(tree)[f].agent
    <2>1. CASE tree[f] # Absent
      <3>1. Resolve(tree)[f] = [text |-> tree[f], agent |-> TRUE]
        BY <1>1, <2>1
      <3> QED
        BY <3>1
    <2>2. CASE tree[f] = Absent
      BY <1>1, <2>2
    <2> QED
      BY <2>1, <2>2
  <1>6. ASSUME NEW f \in Shipped PROVE Resolve(tree)[f] # Absent
    BY <1>1, <1>2, <1>3, <1>4, FilesAssumption
  <1> QED
    BY <1>5, <1>6 DEF Supplied

\* a step that leaves the workspace and the manifest alone, and a deployment in progress too
LEMMA QuietStep ==
  ASSUME FilesInv, TypeInv', UNCHANGED <<prov, work, manifest>>,
         UNCHANGED call \/ (~Deploying /\ ~Deploying'),
         At("sync")' => At("sync") \/ prov = "local",
         doubt \subseteq doubt', SourceInv',
         applied' => applied /\ Source' = Source
  PROVE  FilesInv'
  <1> USE DEF FilesInv
  <1>1. WorkInv'
    BY DEF WorkInv, Standing, Deploying, TypeInv, BehaviorOK
  <1>2. PlanInv'
    BY DEF PlanInv, Supplied, Deploying, At
  <1>3. AppliedInv'
    <2> SUFFICES ASSUME applied' PROVE AppliedInv'
      BY DEF AppliedInv
    <2>1. Resolve(Source)' = Resolve(Source)
      BY DEF Resolve
    <2>2. /\ \A f \in Files \ doubt' : manifest[f] = Resolve(Source)[f]
          /\ Deploying' => call'.plan = Resolve(Source)
          /\ \A f \in Files : \/ Resolve(Source)[f] = Absent
                              \/ work[f] \in {Edited, Resolve(Source)[f].text}
      BY DEF AppliedInv, Deploying, TypeInv, BehaviorOK
    <2> HIDE DEF FilesInv
    <2> QED
      BY <2>1, <2>2 DEF AppliedInv
  <1> QED
    BY <1>1, <1>2, <1>3

\* the places that a call reaches when it is at none of the steps of a deployment
LEMMA FollowingPlaces ==
  ASSUME NEW op
  PROVE  /\ \A at \in {"backup", "check", "token", "config", "include", "create",
                      "managed", "baseline"} :
                Following(op)[at] \notin {"write", "delete", "sync"}
         /\ Following(op)["delete"] \in {"done", "baseline"}
  BY DEF Following

LEMMA QuietCall ==
  ASSUME TypeInv
  PROVE  /\ Return => call'.at = "done"
         /\ EndDeploy => call'.at \in {"done", "baseline"}
         /\ Proceed /\ call.at \in {"backup", "check", "token", "config", "include", "create",
                                    "managed", "baseline"}
                => call'.at \notin {"write", "delete", "sync"}
         /\ \A tok : TakeToken(tok) /\ call.at \in {"check", "token"}
                => call'.at \notin {"write", "delete", "sync"}
         /\ \A op, at, tok : Begin(op, at, tok) => call'.at = at
  <1>1. call \in Call
    BY DEF TypeInv, CallOK
  <1>2. Return => call'.at = "done"
    BY DEF Return, Idle
  <1>3. ASSUME EndDeploy PROVE call'.at \in {"done", "baseline"}
    <2> DEFINE place == Following(call.op)["delete"]
    <2>1. place \in {"done", "baseline"}
      BY FollowingPlaces
    <2>2. \/ call' = Idle
          \/ call' = [Idle EXCEPT !.op = call.op, !.tok = call.tok, !.at = place]
      BY <1>3, Zenon DEF EndDeploy
    <2>3. ASSUME NEW op, NEW tok, NEW at, call' = [Idle EXCEPT !.op = op, !.tok = tok, !.at = at]
          PROVE  call'.at = at
      BY <2>3 DEF Idle
    <2>4. call' = Idle => call'.at = "done"
      BY DEF Idle
    <2> HIDE DEF place
    <2>5. call' = Idle \/ call'.at = place
      BY <2>2, <2>3, Zenon
    <2> QED
      BY <2>1, <2>4, <2>5
  <1>4. ASSUME Proceed,
               call.at \in {"backup", "check", "token", "config", "include", "create", "managed",
                            "baseline"}
        PROVE  call'.at \notin {"write", "delete", "sync"}
    <2> DEFINE place == Following(call.op)[call.at]
    <2>1. place \notin {"write", "delete", "sync"}
      BY <1>4, FollowingPlaces
    <2>2. call' = IF place = "done" THEN Idle ELSE [call EXCEPT !.at = place]
      BY <1>4 DEF Proceed, GoOn
    <2>3. call' = Idle => call'.at = "done"
      BY DEF Idle
    <2>4. ASSUME NEW at, call' = [call EXCEPT !.at = at] PROVE call'.at = at
      BY <1>1, <2>4 DEF Call
    <2> HIDE DEF place
    <2> QED
      BY <2>1, <2>2, <2>3, <2>4
  <1>5. ASSUME NEW tok, TakeToken(tok), call.at \in {"check", "token"}
        PROVE  call'.at \notin {"write", "delete", "sync"}
    <2>1. Following(call.op)[call.at] \notin {"write", "delete", "sync"}
      BY <1>5, FollowingPlaces
    <2> QED
      BY <1>1, <1>5, <2>1 DEF TakeToken, Call
  <1>6. \A op, at, tok : Begin(op, at, tok) => call'.at = at
    BY DEF Begin, Idle
  <1> QED
    BY <1>2, <1>3, <1>4, <1>5, <1>6

LEMMA FilesCommand == ASSUME FilesInv, Commands PROVE FilesInv'
  <1> USE DEF behaviour, configured, bounds
  <1>1. TypeInv /\ TypeInv' /\ BehaviorOK /\ SourceInv
    BY CommandType DEF FilesInv, TypeInv
  <1>2. \A op, at, tok : Begin(op, at, tok) => call'.at = at
    BY <1>1, QuietCall
  <1>3. ~Deploying /\ ~Deploying'
    <2>1. \A op, at, tok : Begin(op, at, tok) => Ready
      BY DEF Begin
    <2>2. Ready
      BY <2>1 DEF Commands, AddFile, RemoveFile, Setup, RefreshAgent, Rebaseline,
                  RegenerateAgentConfig, Provision
    <2>3. UNCHANGED call \/ call'.at \in {"sync", "check", "reset", "token", "config"}
      BY <1>2 DEF Commands, AddFile, RemoveFile, Setup, RefreshAgent, Rebaseline,
                  RegenerateAgentConfig, Provision
    <2> QED
      BY <2>2, <2>3 DEF Ready, Deploying
  <1>4. UNCHANGED <<prov, work, manifest>> /\ doubt \subseteq doubt'
    BY DEF Commands, AddFile, RemoveFile, Astray, Setup, RefreshAgent, Rebaseline,
           RegenerateAgentConfig, Provision
  <1>5. At("sync")' => At("sync") \/ prov = "local"
    BY <1>2 DEF Commands, AddFile, RemoveFile, Setup, RefreshAgent, Rebaseline,
                RegenerateAgentConfig, Provision, At
  <1>6. applied' => applied /\ Source' = Source
    <2>1. ASSUME NEW role \in SUBSET Files, Provision(role) PROVE applied' => applied /\ Source' = Source
      <3>1. applied' => applied /\ {f \in role : repo[f] = Absent} = {}
        BY <2>1 DEF Provision
      <3>2. {f \in role : repo[f] = Absent} = {} => repo' = repo
        BY <1>1, <2>1 DEF Provision, BehaviorOK, Tree
      <3> QED
        BY <2>1, <3>1, <3>2 DEF Provision, Source
    <2> QED
      BY <2>1 DEF Commands, AddFile, RemoveFile, Astray, Setup, RefreshAgent, Rebaseline,
                  RegenerateAgentConfig, Source
  <1>7. SourceInv'
    <2>1. ASSUME UNCHANGED <<said, astray>>, Source' = Source PROVE SourceInv'
      BY <1>1, <1>4, <2>1 DEF SourceInv
    <2>2. ASSUME NEW f \in Files, NEW t \in Texts, AddFile(f, t) PROVE SourceInv'
      BY <1>1, <2>1, <2>2 DEF AddFile, Astray, Source, SourceInv, BehaviorOK, Tree
    <2>3. ASSUME NEW f \in Files, RemoveFile(f) PROVE SourceInv'
      BY <1>1, <2>1, <2>3 DEF RemoveFile, Astray, Source, SourceInv, BehaviorOK, Tree
    <2>4. CASE Setup
      BY <1>1, <2>4 DEF Setup, Source, SourceInv, BehaviorOK, Tree
    <2>5. CASE RefreshAgent \/ Rebaseline \/ RegenerateAgentConfig
      BY <2>1, <2>5 DEF RefreshAgent, Rebaseline, RegenerateAgentConfig, Source
    <2>6. ASSUME NEW role \in SUBSET Files, Provision(role) PROVE SourceInv'
      BY <1>1, <2>6 DEF Provision, Source, SourceInv, BehaviorOK, Tree
    <2> QED
      BY <2>2, <2>3, <2>4, <2>5, <2>6 DEF Commands
  <1> QED
    BY <1>1, <1>3, <1>4, <1>5, <1>6, <1>7, QuietStep

LEMMA FilesConfigStep == ASSUME FilesInv, CustomSteps \/ TokenSteps PROVE FilesInv'
  <1> USE DEF CustomSteps, TokenSteps, ReadCustom, BackUpCustom, EmptyCustom, EnsureCustom,
              CreateCustom, DeployManaged, CheckConfig, ReadToken, WriteConfig, SaveBaseline
  <1>1. TypeInv /\ TypeInv' /\ SourceInv /\ call \in Call
    BY CustomStepType, TokenStepType DEF FilesInv, TypeInv, CallOK
  <1>2. /\ UNCHANGED <<prov, behaviour>>
        /\ call.at \in {"reset", "backup", "empty", "check", "token", "config", "include", "create",
                        "managed", "baseline"}
    BY DEF At
  <1>3. \/ Return \/ (Proceed /\ call.at \notin {"reset", "empty"})
        \/ \E tok : TakeToken(tok) /\ call.at \in {"check", "token"}
        \/ ReadCustom \/ EmptyCustom \/ EnsureCustom
    BY DEF At
  <1>4. ASSUME ReadCustom \/ EmptyCustom \/ EnsureCustom PROVE call'.at \notin {"write", "delete", "sync"}
    <2>1. Return => call'.at = "done"
      BY DEF Return, Idle
    <2>2. CASE ReadCustom
      BY <1>1, <2>1, <2>2 DEF Call
    <2>3. CASE EmptyCustom
      BY <2>1, <2>3 DEF Idle
    <2>4. CASE EnsureCustom
      BY <1>1, <2>1, <2>4 DEF GoOn, Call
    <2> QED
      BY <1>4, <2>2, <2>3, <2>4
  <1> HIDE DEF CustomSteps, TokenSteps, ReadCustom, BackUpCustom, EmptyCustom, EnsureCustom,
               CreateCustom, DeployManaged, CheckConfig, ReadToken, WriteConfig, SaveBaseline
  <1>5. call'.at \notin {"write", "delete", "sync"}
    BY <1>1, <1>2, <1>3, <1>4, QuietCall
  <1>6. ~Deploying /\ ~Deploying' /\ ~At("sync")'
    BY <1>2, <1>5 DEF Deploying, At
  <1>7. Source' = Source
    BY <1>2 DEF behaviour, Source
  <1>8. SourceInv'
    BY <1>1, <1>2, <1>7 DEF behaviour, SourceInv
  <1> QED
    BY <1>1, <1>2, <1>6, <1>7, <1>8, QuietStep DEF behaviour

LEMMA FilesOthers == ASSUME FilesInv, Others PROVE FilesInv'
  <1> USE DEF behaviour, configured
  <1>1. TypeInv /\ TypeInv' /\ BehaviorOK /\ SourceInv
    BY OthersType DEF FilesInv, TypeInv
  <1>2. CASE ChangeSettings \/ ConfigEdited \/ AdminWrites \/ \E f \in Files : EditRepository(f)
    <2>1. UNCHANGED <<prov, work, manifest, call, doubt>> /\ (applied' => applied /\ Source' = Source)
      BY <1>2 DEF ChangeSettings, ConfigEdited, AdminWrites, EditRepository, Source
    <2>2. ASSUME UNCHANGED <<repo, snapshot, said, astray>> PROVE SourceInv'
      BY <1>1, <2>1, <2>2 DEF Source, SourceInv
    <2>3. ASSUME NEW f \in Files, EditRepository(f) PROVE SourceInv'
      <3>1. CASE prov = "local"
        BY <1>1, <2>1, <2>3, <3>1 DEF EditRepository, Source, SourceInv
      <3>2. CASE prov # "local"
        <4>1. said' = [said EXCEPT ![f] = repo'[f]] /\ astray' = astray \ {f}
          BY <2>3, <3>2 DEF EditRepository
        <4>2. \A g \in Files \ {f} : repo'[g] = repo[g]
          BY <1>1, <2>3 DEF EditRepository, BehaviorOK, Tree
        <4> QED
          BY <1>1, <2>1, <3>2, <4>1, <4>2 DEF Source, SourceInv, BehaviorOK, Tree
      <3> QED
        BY <3>1, <3>2
    <2>4. SourceInv'
      BY <1>2, <2>2, <2>3 DEF ChangeSettings, ConfigEdited, AdminWrites
    <2> QED
      BY <1>1, <2>1, <2>4, QuietStep DEF At
  <1>3. ASSUME NEW f \in Files, AgentWrites(f) PROVE FilesInv'
    <2>1. /\ UNCHANGED <<prov, repo, snapshot, manifest, said, astray, doubt, applied, call>>
          /\ \A g \in Files : work'[g] \in {work[g], Edited}
      BY <1>1, <1>3 DEF AgentWrites, BehaviorOK
    <2>2. Source' = Source
      BY <2>1 DEF Source
    <2>3. Resolve(Source)' = Resolve(Source)
      BY <2>2 DEF Resolve
    <2>4. SourceInv'
      BY <1>1, <2>1, <2>2 DEF SourceInv
    <2>5. WorkInv'
      BY <2>1 DEF FilesInv, WorkInv, Standing, Deploying
    <2>6. PlanInv'
      BY <2>1 DEF FilesInv, PlanInv, Supplied, Deploying, At
    <2>7. AppliedInv'
      BY <2>1, <2>3 DEF FilesInv, AppliedInv, Deploying
    <2> QED
      BY <1>1, <2>4, <2>5, <2>6, <2>7 DEF FilesInv
  <1> QED
    BY <1>2, <1>3 DEF Others

LEMMA FilesDeployStep ==
  ASSUME FilesInv,
         SyncBehavior \/ Compose \/ (\E f \in Files : WriteFile(f) \/ DeleteFile(f))
             \/ WriteManifest \/ Die
  PROVE  FilesInv'
  <1>1. /\ TypeInv /\ TypeInv' /\ BehaviorOK /\ CallOK /\ call \in Call
        /\ SourceInv /\ WorkInv /\ PlanInv /\ AppliedInv
    BY DeployStepType DEF FilesInv, TypeInv, CallOK
  <1>2. CASE SyncBehavior
    <2>1. prov = "local" /\ call.at = "sync"
      BY <1>1, <1>2 DEF SyncBehavior, PlanInv, At
    <2>2. call'.at = "done"
      BY <1>1, <1>2, QuietCall DEF SyncBehavior
    <2>3. UNCHANGED <<prov, work, manifest>> /\ doubt \subseteq doubt' /\ ~applied'
      BY <1>2 DEF SyncBehavior
    <2>4. SourceInv'
      BY <1>1, <1>2, <2>1 DEF SyncBehavior, SourceInv, Source, BehaviorOK
    <2>5. ~Deploying /\ ~Deploying' /\ ~At("sync")'
      BY <2>1, <2>2 DEF Deploying, At
    <2> QED
      BY <1>1, <2>3, <2>4, <2>5, QuietStep
  <1>3. ASSUME ~SyncBehavior
        PROVE  /\ UNCHANGED <<prov, repo, snapshot, said, astray>> /\ doubt \subseteq doubt'
               /\ Source' = Source /\ Resolve(Source)' = Resolve(Source) /\ SourceInv'
    <2>1. UNCHANGED <<prov, repo, snapshot, said, astray>> /\ doubt \subseteq doubt'
      BY <1>3 DEF Compose, WriteFile, DeleteFile, WriteManifest, Die
    <2>2. Source' = Source
      BY <2>1 DEF Source
    <2> QED
      BY <1>1, <2>1, <2>2 DEF SourceInv, Resolve
  \* a deployment that ends before its manifest is written leaves in doubt what it owes
  <1>4. ASSUME ~SyncBehavior, Deploying, UNCHANGED <<work, manifest, applied>>,
               call'.at \in {"done", "baseline"}, Owed \subseteq doubt'
        PROVE  FilesInv'
    <2>1. ~Deploying' /\ ~At("sync")'
      BY <1>4 DEF Deploying, At
    <2>2. \A f \in Files \ doubt' : call.plan[f] = manifest[f]
      BY <1>4 DEF Owed
    <2>3. WorkInv'
      BY <1>1, <1>3, <1>4, <2>1, <2>2 DEF WorkInv, Standing
    <2>4. PlanInv'
      BY <1>1, <1>4, <2>1 DEF PlanInv, Supplied
    <2>5. AppliedInv'
      BY <1>1, <1>3, <1>4, <2>1 DEF AppliedInv
    <2> QED
      BY <1>1, <1>3, <1>4, <2>3, <2>4, <2>5 DEF FilesInv
  <1>5. CASE Compose
    <2> DEFINE plan == Resolve(Source)
               gone == ReconcileDeletions(manifest, plan)
    <2>1. call.at = "compose" /\ ~Deploying /\ ~SyncBehavior /\ UNCHANGED <<work, manifest, applied>>
      BY <1>5 DEF Compose, At, Deploying, SyncBehavior
    <2>2. PICK some \in SUBSET gone : Plan(some) /\ gone \ some \subseteq doubt'
      <3>1. CASE Plan(gone)
        BY <3>1
      <3>2. ASSUME NEW missed, Plan(gone \ missed), doubt' = doubt \cup missed
            PROVE  \E some \in SUBSET gone : Plan(some) /\ gone \ some \subseteq doubt'
        <4>1. gone \ missed \in SUBSET gone /\ gone \ (gone \ missed) \subseteq doubt'
          BY <3>2
        <4> HIDE DEF gone
        <4> QED
          BY <3>2, <4>1
      <3> QED
        BY <1>5, <3>1, <3>2 DEF Compose
    <2>3. /\ call'.at = "write" /\ call'.plan = plan /\ call'.gone = some
          /\ call'.put = {f \in Files : plan[f] # Absent}
      <3>1. call' = [call EXCEPT !.at = "write", !.plan = plan, !.gone = some,
                                 !.put = {f \in Files : plan[f] # Absent}]
        BY <2>2 DEF Plan
      <3> HIDE DEF plan, gone
      <3> QED
        BY <1>1, <3>1 DEF Call
    <2>4. Supplied(plan) /\ \A f \in Shipped : plan[f] # Absent
      BY <1>1, SourceType, ResolveSupplied
    <2> HIDE DEF plan
    <2>5. ASSUME NEW f \in Files \ doubt', f \notin call'.put \cup call'.gone
          PROVE  work[f] \in {Edited, TextOf(plan[f])}
      <3>1. plan[f] = Absent /\ f \notin gone
        BY <2>2, <2>3, <2>5
      <3>2. f \notin Shipped
        BY <2>4, <3>1
      <3>3. manifest[f] = Absent \/ manifest[f].agent
        BY <1>1, <3>2 DEF PlanInv, Supplied
      <3>4. work[f] \in {Edited, TextOf(manifest[f])}
        BY <1>1, <1>3, <2>1 DEF WorkInv, Standing
      <3>5. manifest[f] # Absent => work[f] # manifest[f].text
        BY <3>1, <3>3 DEF ReconcileDeletions
      <3> QED
        BY <3>1, <3>4, <3>5 DEF TextOf
    <2>6. WorkInv'
      <3>1. \A f \in Files \ doubt' : work[f] \in {Edited, TextOf(manifest[f])}
        BY <1>1, <1>3, <2>1 DEF WorkInv, Standing
      <3>2. \A f \in Files \ doubt' : Standing(f)' \in {manifest[f], plan[f]}
                                       /\ (Standing(f)' = manifest[f] \/ f \notin call'.put \cup call'.gone)
        BY <2>1, <2>3 DEF Standing
      <3>3. ASSUME NEW f \in Files \ doubt' PROVE work'[f] \in {Edited, TextOf(Standing(f))'}
        BY <2>1, <2>5, <3>1, <3>2 DEF TextOf
      <3> QED
        BY <3>3 DEF WorkInv
    <2>7. PlanInv'
      BY <1>1, <2>1, <2>3, <2>4 DEF PlanInv, Supplied, At
    <2>8. AppliedInv'
      BY <1>1, <1>3, <2>1, <2>3 DEF AppliedInv, plan
    <2> QED
      BY <1>1, <1>3, <2>1, <2>6, <2>7, <2>8 DEF FilesInv
  <1>6. ASSUME NEW f \in Files, WriteFile(f) PROVE FilesInv'
    <2>1. call.at = "write" /\ Deploying /\ ~SyncBehavior /\ f \in call.put /\ UNCHANGED <<manifest, applied>>
      BY <1>6 DEF WriteFile, At, Deploying, SyncBehavior
    <2>2. CASE EndDeploy
      <3>1. call.plan[f] # Absent
        BY <1>1, <2>1 DEF CallOK
      <3>2. CASE UNCHANGED work /\ Owed \subseteq doubt'
        BY <1>1, <1>4, <2>1, <2>2, <3>2, QuietCall
      <3>3. CASE ~(UNCHANGED work /\ Owed \subseteq doubt')
        <4>1. call' = [call EXCEPT !.put = @ \ {f}, !.at = IF call.put = {f} THEN "delete" ELSE "write"]
          BY <1>6, <3>3 DEF WriteFile
        <4>2. call'.at \in {"delete", "write"}
          BY <1>1, <4>1 DEF Call
        <4> QED
          BY <1>1, <2>2, <4>2, QuietCall
      <3> QED
        BY <3>2, <3>3
    <2>3. CASE ~EndDeploy
      <3>1. /\ work' = [work EXCEPT ![f] = call.plan[f].text]
            /\ call' = [call EXCEPT !.put = @ \ {f}, !.at = IF call.put = {f} THEN "delete" ELSE "write"]
            /\ UNCHANGED doubt
        BY <1>6, <2>3 DEF WriteFile
      <3>2. /\ call'.at \in {"delete", "write"} /\ call'.put = call.put \ {f}
            /\ call'.plan = call.plan /\ call'.gone = call.gone
        BY <1>1, <3>1 DEF Call
      <3>3. call.plan[f] # Absent /\ f \notin call.gone
        BY <1>1, <2>1 DEF CallOK
      <3>4. work'[f] = TextOf(call.plan[f]) /\ \A g \in Files \ {f} : work'[g] = work[g]
        BY <1>1, <3>1, <3>3 DEF BehaviorOK, TextOf
      <3>5. Deploying' /\ ~At("sync")'
        BY <3>2 DEF Deploying, At
      <3>6. WorkInv'
        <4>1. ASSUME NEW g \in Files \ doubt PROVE work'[g] \in {Edited, TextOf(Standing(g))'}
          <5>1. CASE g = f
            BY <2>1, <3>2, <3>3, <3>4, <3>5, <5>1 DEF Standing, TextOf
          <5>2. CASE g # f
            <6>1. Standing(g)' = Standing(g)
              BY <2>1, <3>2, <3>5, <5>2 DEF Standing
            <6> QED
              BY <1>1, <3>4, <5>2, <6>1 DEF WorkInv, TextOf
          <5> QED
            BY <5>1, <5>2
        <4> QED
          BY <3>1, <4>1 DEF WorkInv
      <3>7. PlanInv'
        BY <1>1, <2>1, <3>2, <3>3, <3>4, <3>5 DEF PlanInv, Supplied, TextOf
      <3>8. AppliedInv'
        BY <1>1, <1>3, <2>1, <3>1, <3>2, <3>3, <3>4 DEF AppliedInv, TextOf
      <3> QED
        BY <1>1, <1>3, <2>1, <3>6, <3>7, <3>8 DEF FilesInv
    <2> QED
      BY <2>2, <2>3
  <1>7. ASSUME NEW f \in Files, DeleteFile(f) PROVE FilesInv'
    <2>1. /\ call.at = "delete" /\ Deploying /\ ~SyncBehavior /\ f \in call.gone
          /\ UNCHANGED <<manifest, applied>> /\ call' = [call EXCEPT !.gone = @ \ {f}]
      BY <1>7 DEF DeleteFile, At, Deploying, SyncBehavior
    <2>2. /\ call'.at = call.at /\ call'.put = call.put /\ call'.plan = call.plan
          /\ call'.gone = call.gone \ {f}
      BY <1>1, <2>1 DEF Call
    <2>3. call.plan[f] = Absent /\ f \notin call.put
      BY <1>1, <2>1 DEF CallOK
    <2>4. /\ \A g \in Files \ {f} : work'[g] = work[g]
          /\ work'[f] = Absent \/ f \in doubt'
      BY <1>1, <1>7 DEF DeleteFile, BehaviorOK
    <2>5. Deploying' /\ ~At("sync")'
      BY <2>1, <2>2 DEF Deploying, At
    <2>6. WorkInv'
      <3>1. ASSUME NEW g \in Files \ doubt' PROVE work'[g] \in {Edited, TextOf(Standing(g))'}
        <4>1. CASE g = f
          BY <2>1, <2>2, <2>3, <2>4, <2>5, <3>1, <4>1 DEF Standing, TextOf
        <4>2. CASE g # f
          <5>1. Standing(g)' = Standing(g)
            BY <2>1, <2>2, <2>5, <4>2 DEF Standing
          <5> QED
            BY <1>1, <1>3, <2>1, <2>4, <3>1, <4>2, <5>1 DEF WorkInv, TextOf
        <4> QED
          BY <4>1, <4>2
      <3> QED
        BY <3>1 DEF WorkInv
    <2>7. PlanInv'
      BY <1>1, <2>1, <2>2, <2>3, <2>4, <2>5 DEF PlanInv, Supplied
    <2>8. AppliedInv'
      BY <1>1, <1>3, <2>1, <2>2, <2>3, <2>4 DEF AppliedInv
    <2> QED
      BY <1>1, <1>3, <2>1, <2>6, <2>7, <2>8 DEF FilesInv
  <1>8. CASE WriteManifest
    <2>1. /\ call.at = "delete" /\ Deploying /\ ~SyncBehavior /\ call.gone = {} /\ call.put = {}
          /\ UNCHANGED work
      BY <1>1, <1>8 DEF WriteManifest, At, Deploying, SyncBehavior, CallOK
    <2>2. call'.at \in {"done", "baseline"}
      BY <1>1, <1>8, QuietCall DEF WriteManifest
    <2>3. ~Deploying' /\ ~At("sync")'
      BY <2>2 DEF Deploying, At
    <2>4. CASE UNCHANGED <<manifest, applied>> /\ Owed \subseteq doubt'
      BY <1>4, <2>1, <2>2, <2>4
    <2>5. CASE manifest' = call.plan /\ applied' = (call.plan = Resolve(Source))
      <3>1. WorkInv'
        BY <1>1, <1>3, <2>1, <2>3, <2>5 DEF WorkInv, Standing
      <3>2. PlanInv'
        BY <1>1, <2>1, <2>3, <2>5 DEF PlanInv, Supplied
      <3>3. AppliedInv'
        BY <1>1, <1>3, <2>1, <2>3, <2>5 DEF AppliedInv, PlanInv
      <3> QED
        BY <1>1, <1>3, <2>1, <3>1, <3>2, <3>3 DEF FilesInv
    <2>6. CASE /\ manifest' = Nowhere /\ UNCHANGED applied
               /\ Owed \cup {f \in Files : manifest[f] # Absent} \subseteq doubt'
      <3>1. \A f \in Files : manifest'[f] = Absent
        BY <2>6 DEF Nowhere
      <3>2. \A f \in Files \ doubt' : manifest[f] = Absent /\ call.plan[f] = Absent
        BY <2>6 DEF Owed
      <3>3. WorkInv'
        BY <1>1, <1>3, <2>1, <2>3, <3>1, <3>2 DEF WorkInv, Standing
      <3>4. PlanInv'
        BY <2>3, <3>1 DEF PlanInv, Supplied
      <3>5. AppliedInv'
        BY <1>1, <1>3, <2>1, <2>3, <2>6, <3>1, <3>2 DEF AppliedInv
      <3> QED
        BY <1>1, <1>3, <2>1, <3>3, <3>4, <3>5 DEF FilesInv
    <2> QED
      BY <1>8, <2>4, <2>5, <2>6 DEF WriteManifest
  <1>9. CASE Die
    <2>1. /\ UNCHANGED <<prov, repo, snapshot, said, astray, work, manifest, applied>>
          /\ call'.at = "done" /\ doubt \subseteq doubt'
      BY <1>1, <1>9, QuietCall DEF Die
    <2>2. CASE Deploying
      <3>1. Owed \subseteq doubt' /\ ~SyncBehavior
        BY <1>9, <2>2 DEF Die, Deploying, SyncBehavior, At
      <3> QED
        BY <1>4, <2>1, <2>2, <3>1
    <2>3. CASE ~Deploying
      <3>1. Source' = Source /\ ~Deploying' /\ ~At("sync")'
        BY <2>1 DEF Source, Deploying, At
      <3>2. SourceInv'
        BY <1>1, <2>1, <3>1 DEF SourceInv
      <3> QED
        BY <1>1, <2>1, <2>3, <3>1, <3>2, QuietStep
    <2> QED
      BY <2>2, <2>3
  <1> QED
    BY <1>2, <1>5, <1>6, <1>7, <1>8, <1>9

LEMMA FilesInit == Init => FilesInv
  <1> SUFFICES ASSUME Init PROVE FilesInv
    OBVIOUS
  <1>1. TypeInv
    BY InitType
  <1>2. ~Deploying /\ ~At("sync") /\ ~applied
    BY IdleType DEF Init, Deploying, At
  <1>3. \A f \in Files : /\ manifest[f] = Absent /\ work[f] = Absent
                         /\ said[f] = Absent /\ Source[f] = Absent
    BY DEF Init, Nowhere, Source
  <1>4. SourceInv /\ WorkInv
    BY <1>2, <1>3 DEF SourceInv, WorkInv, Standing, TextOf
  <1>5. PlanInv /\ AppliedInv
    BY <1>2, <1>3 DEF PlanInv, Supplied, AppliedInv
  <1> QED
    BY <1>1, <1>4, <1>5 DEF FilesInv

LEMMA FilesStep == FilesInv /\ [Next]_vars => FilesInv'
  <1> SUFFICES ASSUME FilesInv, [Next]_vars PROVE FilesInv'
    OBVIOUS
  <1>1. CASE UNCHANGED vars
    <2>1. TypeInv' /\ SourceInv
      BY TypeStep DEF FilesInv
    <2>2. UNCHANGED <<prov, repo, snapshot, said, astray, work, manifest, call, doubt, applied>>
      BY <1>1 DEF vars, behaviour
    <2>3. Source' = Source
      BY <2>2 DEF Source
    <2>4. SourceInv'
      BY <2>1, <2>2, <2>3 DEF SourceInv
    <2> QED
      BY <2>1, <2>2, <2>3, <2>4, QuietStep DEF At
  <1> QED
    BY <1>1, FilesCommand, FilesConfigStep, FilesDeployStep, FilesOthers
       DEF Next, Steps, CustomSteps, TokenSteps

\* After a refresh that is reported done, every behaviour file is what the operator's last
\* command or edit says, or what the agent wrote since; but for one that the last command wrote
\* where nothing is deployed from, which is what the source says, and one about which some step
\* failed and whose source says the same or nothing: whatever the order of commands, edits and
\* failures, for every set of files.
THEOREM BehaviorIsApplied == Spec => []AppliedWhenDone
  <1>1. FilesInv => AppliedWhenDone
    <2> SUFFICES ASSUME FilesInv, applied, NEW f \in Files
                 PROVE  \/ work[f] \in {Edited, TextOf(Resolve(said)[f])}
                        \/ f \in astray /\ work[f] = TextOf(Resolve(Source)[f])
                        \/ f \in doubt /\ TextOf(Resolve(Source)[f]) \in {Absent, work[f]}
      BY DEF AppliedWhenDone
    <2>1. CASE f \in doubt
      BY <2>1 DEF FilesInv, AppliedInv, TextOf
    <2>2. CASE f \notin doubt
      <3>1. work[f] \in {Edited, TextOf(Resolve(Source)[f])}
        BY <2>2 DEF FilesInv, AppliedInv, Standing, WorkInv
      <3>2. CASE f \in astray
        BY <3>1, <3>2
      <3>3. CASE f \notin astray
        <4>1. Source[f] = said[f]
          BY <2>2, <3>3 DEF FilesInv, SourceInv
        <4>2. Resolve(Source)[f] = Resolve(said)[f]
          BY <4>1 DEF Resolve
        <4> QED
          BY <3>1, <4>2
      <3> QED
        BY <3>2, <3>3
    <2> QED
      BY <2>1, <2>2
  <1> QED
    BY <1>1, FilesInit, FilesStep, PTL DEF Spec
================================================================================
