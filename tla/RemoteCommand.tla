----------------------------- MODULE RemoteCommand -----------------------------
(***************************************************************************)
(* What a command given to the SSH client promises (SSHClient.Run, Upload  *)
(* and Download of pkg/provider/remoteprovider/ssh.go), whatever the link  *)
(* does: it takes effect at most once, and an answer means that it did.    *)
(* An error means nothing: the command may have taken effect or not.       *)
(* RemoteAgents is written against these outcomes.                         *)
(***************************************************************************)
EXTENDS Naturals

CONSTANTS Callers

VARIABLES
    status,   \* per caller: "idle", "asked", "answered" or "failed"
    effects   \* per caller: how often its present command took effect

vars == <<status, effects>>

Init == /\ status = [c \in Callers |-> "idle"]
        /\ effects = [c \in Callers |-> 0]

Ask(c) == /\ status[c] = "idle"
          /\ status' = [status EXCEPT ![c] = "asked"]
          /\ UNCHANGED effects

TakeEffect(c) == /\ status[c] = "asked" /\ effects[c] = 0
                 /\ effects' = [effects EXCEPT ![c] = 1]
                 /\ UNCHANGED status

Answer(c) == /\ status[c] = "asked" /\ effects[c] = 1
             /\ status' = [status EXCEPT ![c] = "answered"]
             /\ UNCHANGED effects

Fail(c) == /\ status[c] = "asked"
           /\ status' = [status EXCEPT ![c] = "failed"]
           /\ UNCHANGED effects

\* the caller goes on
Return(c) == /\ status[c] \in {"answered", "failed"}
             /\ status' = [status EXCEPT ![c] = "idle"]
             /\ effects' = [effects EXCEPT ![c] = 0]

Next == \E c \in Callers : Ask(c) \/ TakeEffect(c) \/ Answer(c) \/ Fail(c) \/ Return(c)

Spec == Init /\ [][Next]_vars
================================================================================
