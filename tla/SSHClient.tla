------------------------------- MODULE SSHClient -------------------------------
(***************************************************************************)
(* The SSH client every operation of the remote provider goes through      *)
(* (pkg/provider/remoteprovider/ssh.go).                                   *)
(*                                                                         *)
(* A caller opens a session on the one connection, and when that fails for *)
(* any reason but a refused channel it dials again, once, and opens the    *)
(* session on the new connection.  Only the opening is tried again, never  *)
(* the command.  A file transfer whose SFTP session cannot be opened is    *)
(* tried through a shell.  The mutex is held while a connection is         *)
(* replaced, and nobody looks again, once it holds the mutex, whether the  *)
(* connection it found dead has been replaced in the meantime.             *)
(*                                                                         *)
(* Connections are numbered in the order they were dialled; conn is the    *)
(* one the client holds.                                                   *)
(***************************************************************************)
EXTENDS Naturals

CONSTANTS
    Callers,     \* tool calls that use the client at the same time
    Nobody,      \* the mutex is free
    MaxFaults,   \* bound: faults in a behaviour
    MaxDials     \* bound: connections dialled in a behaviour

ASSUME NobodyAssumption == Nobody \notin Callers
ASSUME BoundAssumption == MaxFaults \in Nat /\ MaxDials \in Nat \ {0}

VARIABLES
    conn,        \* the connection the client holds
    alive,       \* it still works
    reachable,   \* the host answers a dial
    mu,          \* who holds the mutex
    req,         \* per caller its request
    faults       \* how many faults there were

vars == <<conn, alive, reachable, mu, req, faults>>

Kinds == {"run", "upload", "download"}

Labels == {"idle", "open", "lock", "dial", "again", "send", "wait", "done", "failed"}

\* clean: no fault since the request was made, and the host answered; alone: no
\* other request was under way at the same time
Request == [kind : Kinds, pc : Labels, shell : BOOLEAN, on : 0 .. MaxDials, effects : Nat,
            torn : BOOLEAN, clean : BOOLEAN, alone : BOOLEAN]

NoRequest == [kind |-> "run", pc |-> "idle", shell |-> FALSE, on |-> 0, effects |-> 0,
              torn |-> FALSE, clean |-> TRUE, alone |-> TRUE]

Init == /\ conn = 1
        /\ alive = TRUE
        /\ reachable = TRUE
        /\ mu = Nobody
        /\ req = [c \in Callers |-> NoRequest]
        /\ faults = 0

At(c, l) == req[c].pc = l
Busy(c) == ~At(c, "idle")
Goto(c, l) == req' = [req EXCEPT ![c].pc = l]

\* a session opened on connection n still works
Works(n) == n = conn /\ alive

\* every request under way is disturbed
Disturbed(r) == [c \in Callers |-> [r[c] EXCEPT !.clean = FALSE]]

Fault == faults < MaxFaults /\ faults' = faults + 1

--------------------------------------------------------------------------------
(* A request and its session. *)

Ask(c, kind) ==
    LET others == {d \in Callers \ {c} : Busy(d)}
    IN  /\ At(c, "idle")
        /\ req' = [d \in Callers |->
                     IF d = c THEN [NoRequest EXCEPT !.kind = kind, !.pc = "open",
                                                     !.clean = reachable, !.alone = others = {}]
                     ELSE [req[d] EXCEPT !.alone = FALSE]]
        /\ UNCHANGED <<conn, alive, reachable, mu, faults>>

\* The session cannot be had.  Upload and Download fall back to a shell session
\* when SFTP cannot be had, with a reconnection of its own.
Refuse(c) ==
    IF req[c].kind # "run" /\ ~req[c].shell
    THEN req' = [req EXCEPT ![c].pc = "open", ![c].shell = TRUE]
    ELSE Goto(c, "failed")

\* (mutant of Open: a dead connection is an error)
OpenOnce(c) ==
    /\ At(c, "open")
    /\ IF alive THEN req' = [req EXCEPT ![c].pc = "send", ![c].on = conn] ELSE Goto(c, "failed")
    /\ UNCHANGED <<conn, alive, reachable, mu, faults>>

\* session and sftpClient: the first attempt
Open(c) ==
    /\ At(c, "open")
    /\ IF alive THEN req' = [req EXCEPT ![c].pc = "send", ![c].on = conn] ELSE Goto(c, "lock")
    /\ UNCHANGED <<conn, alive, reachable, mu, faults>>

\* The server refuses the channel ("administratively prohibited", "too many open
\* sessions"), on either attempt, or any other error comes back, which counts as a
\* dead connection although it need not be one.
OpenRefused(c) ==
    /\ \/ At(c, "open") /\ alive
       \/ At(c, "again")
    /\ Fault
    /\ LET r == [req EXCEPT ![c].clean = FALSE]
       IN  \/ IF req[c].kind # "run" /\ ~req[c].shell
              THEN req' = [r EXCEPT ![c].pc = "open", ![c].shell = TRUE]
              ELSE req' = [r EXCEPT ![c].pc = "failed"]
           \/ At(c, "open") /\ req' = [r EXCEPT ![c].pc = "lock"]
    /\ UNCHANGED <<conn, alive, reachable, mu>>

\* (mutant of Close: the mutex is taken without waiting for it)
CloseUnguarded(c) ==
    /\ At(c, "lock")
    /\ mu' = c
    /\ alive' = FALSE
    /\ Goto(c, "dial")
    /\ UNCHANGED <<conn, reachable, faults>>

\* reconnect takes the mutex and closes the connection it finds, dead or not
Close(c) ==
    /\ At(c, "lock")
    /\ mu = Nobody
    /\ mu' = c
    /\ alive' = FALSE
    /\ Goto(c, "dial")
    /\ UNCHANGED <<conn, reachable, faults>>

\* (mutant of Dial: a dial that fails is tried again, for as long as it fails)
DialUntilReachable(c) ==
    /\ At(c, "dial")
    /\ mu' = Nobody
    /\ \/ /\ reachable /\ conn < MaxDials
          /\ conn' = conn + 1
          /\ alive' = TRUE
          /\ Goto(c, "again")
       \/ /\ ~reachable \/ conn = MaxDials
          /\ Goto(c, "lock")
          /\ UNCHANGED <<conn, alive>>
    /\ UNCHANGED <<reachable, faults>>

\* reconnect dials with the stored parameters; the mutex is released either way
Dial(c) ==
    /\ At(c, "dial")
    /\ mu' = Nobody
    /\ \/ /\ reachable /\ conn < MaxDials
          /\ conn' = conn + 1
          /\ alive' = TRUE
          /\ Goto(c, "again")
       \/ /\ ~reachable \/ conn = MaxDials
          /\ Refuse(c)
          /\ UNCHANGED <<conn, alive>>
    /\ UNCHANGED <<reachable, faults>>

\* the second attempt, on whatever connection the client holds by now
OpenAgain(c) ==
    /\ At(c, "again")
    /\ IF alive THEN req' = [req EXCEPT ![c].pc = "send", ![c].on = conn] ELSE Refuse(c)
    /\ UNCHANGED <<conn, alive, reachable, mu, faults>>

--------------------------------------------------------------------------------
(* The command itself. *)

\* The host runs the command, or renames the uploaded file into place.
Execute(c) ==
    /\ At(c, "send") /\ Works(req[c].on)
    /\ req' = [req EXCEPT ![c].effects = @ + 1, ![c].pc = "wait"]
    /\ UNCHANGED <<conn, alive, reachable, mu, faults>>

Answer(c) ==
    /\ At(c, "wait") /\ Works(req[c].on)
    /\ Goto(c, "done")
    /\ UNCHANGED <<conn, alive, reachable, mu, faults>>

\* (mutant of Break: the command is given again on a new connection)
BreakAndRetry(c) ==
    /\ req[c].pc \in {"send", "wait"} /\ ~Works(req[c].on)
    /\ Goto(c, "lock")
    /\ UNCHANGED <<conn, alive, reachable, mu, faults>>

\* The connection goes away under the session.  A file that was being written
\* through `cat >` is left cut short; over SFTP only its temporary copy is.
Break(c) ==
    /\ req[c].pc \in {"send", "wait"} /\ ~Works(req[c].on)
    /\ \E torn \in {FALSE, At(c, "send") /\ req[c].kind = "upload" /\ req[c].shell} :
          req' = [req EXCEPT ![c].pc = "failed", ![c].torn = torn]
    /\ UNCHANGED <<conn, alive, reachable, mu, faults>>

\* The context of a Run ends: SIGKILL is sent, and the caller does not wait.
Cancel(c) ==
    /\ req[c].pc \in {"send", "wait"} /\ req[c].kind = "run"
    /\ Fault
    /\ req' = [req EXCEPT ![c].pc = "failed", ![c].clean = FALSE]
    /\ UNCHANGED <<conn, alive, reachable, mu>>

Return(c) ==
    /\ req[c].pc \in {"done", "failed"}
    /\ req' = [req EXCEPT ![c] = NoRequest]
    /\ UNCHANGED <<conn, alive, reachable, mu, faults>>

--------------------------------------------------------------------------------
(* The network. *)

\* An idle timeout, a NAT table, sshd restarting: the connection is gone.
Drop == /\ alive
        /\ Fault
        /\ alive' = FALSE
        /\ req' = Disturbed(req)
        /\ UNCHANGED <<conn, reachable, mu>>

HostDown == /\ reachable
            /\ Fault
            /\ reachable' = FALSE
            /\ alive' = FALSE
            /\ req' = Disturbed(req)
            /\ UNCHANGED <<conn, mu>>

HostUp == /\ ~reachable
          /\ reachable' = TRUE
          /\ UNCHANGED <<conn, alive, mu, req, faults>>

Step(c) ==
    \/ Open(c) \/ Close(c) \/ Dial(c) \/ OpenAgain(c)
    \/ Execute(c) \/ Answer(c) \/ Break(c) \/ Return(c)

Next ==
    \/ \E c \in Callers :
          \/ \E kind \in Kinds : Ask(c, kind)
          \/ Step(c)
          \/ OpenRefused(c) \/ Cancel(c)
    \/ Drop \/ HostDown \/ HostUp

\* A caller goes on when it can: NewSession and Dial end with an answer or an
\* error (the dial has a timeout of 15 s), a broken connection is noticed by TCP.
\* A lock is passed on to a waiting goroutine: a mutex of Go starves nobody.
Fairness == \A c \in Callers :
               /\ WF_vars(Open(c) \/ Dial(c) \/ OpenAgain(c) \/ Execute(c) \/ Answer(c)
                          \/ Break(c) \/ Return(c))
               /\ SF_vars(Close(c))

Spec == Init /\ [][Next]_vars /\ Fairness

--------------------------------------------------------------------------------
(* Properties. *)

\* Every variable has its type; whoever replaces the connection holds the mutex,
\* and nobody else does.
TypeOK ==
    /\ conn \in 1 .. MaxDials
    /\ alive \in BOOLEAN /\ reachable \in BOOLEAN
    /\ mu \in Callers \cup {Nobody}
    /\ req \in [Callers -> Request]
    /\ faults \in 0 .. MaxFaults
    /\ \A c \in Callers : At(c, "dial") <=> mu = c

\* A command takes effect at most once, whatever is dialled and opened again, and
\* an answer means that it took effect: the client implements RemoteCommand.
Status(c) == IF At(c, "idle") THEN "idle"
             ELSE IF At(c, "done") THEN "answered"
             ELSE IF At(c, "failed") THEN "failed" ELSE "asked"
Command == INSTANCE RemoteCommand
              WITH Callers <- Callers,
                   status  <- [c \in Callers |-> Status(c)],
                   effects <- [c \in Callers |-> req[c].effects]
ImplementsCommand == Command!Spec

\* "Transparently reconnect on stale connections": a request made alone, while the
\* host answers, and that meets no fault of its own, is answered, also when the
\* connection was dead before it was made.  (conn < MaxDials: the bound.)
StaleIsTransparent ==
    \A c \in Callers : (At(c, "failed") /\ req[c].clean /\ req[c].alone) => conn = MaxDials

\* Every request returns: nobody waits for the mutex for ever.
RequestsReturn == \A c \in Callers : Busy(c) ~> At(c, "idle")
================================================================================
