---------------------------- MODULE SSHClientProofs ----------------------------
(***************************************************************************)
(* What is proved of SSHClient, for every set of callers and every bound:  *)
(* its types, that the client implements RemoteCommand, and that a stale   *)
(* connection is replaced without a word.                                  *)
(***************************************************************************)
EXTENDS SSHClient, TLAPS

\* A command has no effect until it is sent, one once it is, and nothing takes it back.
EffectInv ==
    \A c \in Callers : /\ req[c].effects \in {0, 1}
                       /\ req[c].pc \in {"idle", "open", "lock", "dial", "again", "send"}
                             => req[c].effects = 0
                       /\ req[c].pc \in {"wait", "done"} => req[c].effects = 1

\* A request that is alone is the only one, one that is clean has a host that answers.
AloneInv ==
    \A c \in Callers : Busy(c) => /\ req[c].alone => \A d \in Callers \ {c} : ~Busy(d)
                                  /\ req[c].clean => reachable

\* What nobody but its own caller could break is whole.
Undisturbed(c) == req[c].clean /\ req[c].alone
LinkInv ==
    \A c \in Callers : Undisturbed(c) =>
        /\ At(c, "again") => alive
        /\ req[c].pc \in {"send", "wait"} => Works(req[c].on)
        /\ At(c, "failed") => conn = MaxDials

--------------------------------------------------------------------------------
(* What each step does to the requests. *)

\* a step of caller c on its own request, which keeps what it has achieved
Moves(c) == req'[c] \in Request /\ req' = [req EXCEPT ![c] = req'[c]]
Kept(c) == /\ req'[c].effects = req[c].effects
           /\ req'[c].alone = req[c].alone
           /\ req'[c].clean => req[c].clean
To(c, labels) == Moves(c) /\ Kept(c) /\ req'[c].pc \in labels

LEMMA OwnSteps ==
  ASSUME TypeOK, NEW c \in Callers
  PROVE  /\ Open(c) => To(c, {"send", "lock"}) /\ (req'[c].pc = "send" => alive /\ req'[c].on = conn)
         /\ Close(c) => To(c, {"dial"})
         /\ Dial(c) => To(c, {"again", "open", "failed"})
         /\ OpenAgain(c) => /\ To(c, {"send", "open", "failed"})
                            /\ req'[c].pc = "send" => alive /\ req'[c].on = conn
                            /\ req'[c].pc # "send" => ~alive
         /\ Execute(c) => /\ Moves(c) /\ req'[c].pc = "wait"
                          /\ req'[c].effects = req[c].effects + 1
                          /\ req'[c].alone = req[c].alone /\ req'[c].clean = req[c].clean
                          /\ req'[c].on = req[c].on
         /\ Answer(c) => To(c, {"done"})
         /\ Break(c) => To(c, {"failed"})
         /\ OpenRefused(c) => To(c, {"open", "failed", "lock"}) /\ ~req'[c].clean
         /\ Cancel(c) => To(c, {"failed"}) /\ ~req'[c].clean
         /\ Return(c) => Moves(c) /\ req'[c].pc = "idle" /\ req'[c].effects = 0
  <1> USE DEF At, Goto
  <1>0. req \in [Callers -> Request] /\ conn \in 1 .. MaxDials
    BY DEF TypeOK
  <1>1. ASSUME Open(c)
        PROVE  To(c, {"send", "lock"}) /\ (req'[c].pc = "send" => alive /\ req'[c].on = conn)
    BY <1>0, <1>1 DEF Open, Moves, Kept, To, Request, Labels
  <1>2. ASSUME Close(c) PROVE To(c, {"dial"})
    BY <1>0, <1>2 DEF Close, Moves, Kept, To, Request, Labels
  <1>3. ASSUME Dial(c) PROVE To(c, {"again", "open", "failed"})
    BY <1>0, <1>3 DEF Dial, Refuse, Moves, Kept, To, Request, Labels
  <1>4. ASSUME OpenAgain(c)
        PROVE  /\ To(c, {"send", "open", "failed"})
               /\ req'[c].pc = "send" => alive /\ req'[c].on = conn
               /\ req'[c].pc # "send" => ~alive
    BY <1>0, <1>4 DEF OpenAgain, Refuse, Moves, Kept, To, Request, Labels
  <1>5. ASSUME Execute(c)
        PROVE  /\ Moves(c) /\ req'[c].pc = "wait"
               /\ req'[c].effects = req[c].effects + 1
               /\ req'[c].alone = req[c].alone /\ req'[c].clean = req[c].clean
               /\ req'[c].on = req[c].on
    BY <1>0, <1>5 DEF Execute, Moves, Request, Labels
  <1>6. ASSUME Answer(c) PROVE To(c, {"done"})
    BY <1>0, <1>6 DEF Answer, Moves, Kept, To, Request, Labels
  <1>7. ASSUME Break(c) PROVE To(c, {"failed"})
    <2>1. PICK torn \in BOOLEAN : req' = [req EXCEPT ![c].pc = "failed", ![c].torn = torn]
      BY <1>7 DEF Break
    <2> QED
      BY <1>0, <2>1 DEF Moves, Kept, To, Request, Labels
  <1>8. ASSUME OpenRefused(c) PROVE To(c, {"open", "failed", "lock"}) /\ ~req'[c].clean
    BY <1>0, <1>8 DEF OpenRefused, Moves, Kept, To, Request, Labels
  <1>9. ASSUME Cancel(c) PROVE To(c, {"failed"}) /\ ~req'[c].clean
    BY <1>0, <1>9 DEF Cancel, Moves, Kept, To, Request, Labels
  <1>10. ASSUME Return(c) PROVE Moves(c) /\ req'[c].pc = "idle" /\ req'[c].effects = 0
    <2>1. NoRequest \in Request
      BY BoundAssumption DEF NoRequest, Request, Labels, Kinds
    <2>2. req' = [req EXCEPT ![c] = NoRequest]
      BY <1>10 DEF Return
    <2> QED
      BY <1>0, <2>1, <2>2 DEF Moves, NoRequest
  <1> QED
    BY <1>1, <1>2, <1>3, <1>4, <1>5, <1>6, <1>7, <1>8, <1>9, <1>10

\* what Ask does to the requests
Asked(c, q) ==
    /\ req[c].pc = "idle"
    /\ q \in Request
    /\ q.pc = "open" /\ q.effects = 0 /\ q.clean = reachable
    /\ q.alone => \A d \in Callers \ {c} : ~Busy(d)
    /\ req' = [d \in Callers |-> IF d = c THEN q ELSE [req[d] EXCEPT !.alone = FALSE]]

LEMMA AskMoves ==
  ASSUME TypeOK, NEW c \in Callers, NEW kind \in Kinds, Ask(c, kind)
  PROVE  \E q : Asked(c, q)
  <1> DEFINE single == {d \in Callers \ {c} : Busy(d)} = {}
             q == [NoRequest EXCEPT !.kind = kind, !.pc = "open", !.clean = reachable,
                                    !.alone = single]
  <1>1. /\ req[c].pc = "idle"
        /\ req' = [d \in Callers |-> IF d = c THEN q ELSE [req[d] EXCEPT !.alone = FALSE]]
    BY DEF Ask, At
  <1>2. single \in BOOLEAN /\ (single => \A d \in Callers \ {c} : ~Busy(d))
    OBVIOUS
  <1>3. reachable \in BOOLEAN
    BY DEF TypeOK
  <1> HIDE DEF single
  <1>4. q.pc = "open" /\ q.effects = 0 /\ q.clean = reachable /\ q.alone = single
    BY DEF NoRequest
  <1>5. q \in Request
    <2>1. NoRequest \in Request
      BY BoundAssumption DEF NoRequest, Request, Labels, Kinds
    <2> QED
      BY <1>2, <1>3, <2>1 DEF Request, Labels
  <1> HIDE DEF q
  <1> QED
    BY <1>1, <1>2, <1>4, <1>5 DEF Asked

--------------------------------------------------------------------------------
(* Types. *)

\* a caller's own step keeps the types, when the mutex goes with the label "dial"
LEMMA MoveType ==
  ASSUME TypeOK, NEW c \in Callers, Moves(c),
         conn' \in 1 .. MaxDials, alive' \in BOOLEAN, reachable' \in BOOLEAN,
         faults' \in 0 .. MaxFaults,
         \/ mu' = mu /\ (req'[c].pc = "dial" <=> req[c].pc = "dial")
         \/ mu = Nobody /\ mu' = c /\ req'[c].pc = "dial"
         \/ mu = c /\ mu' = Nobody /\ req'[c].pc # "dial"
  PROVE  TypeOK'
  BY NobodyAssumption DEF TypeOK, Moves, At

LEMMA TypeInit == Init => TypeOK
  BY NobodyAssumption, BoundAssumption DEF Init, TypeOK, NoRequest, Request, Labels, Kinds, At

LEMMA TypeStep == TypeOK /\ [Next]_vars => TypeOK'
  <1> SUFFICES ASSUME TypeOK, [Next]_vars PROVE TypeOK'
    OBVIOUS
  <1> USE DEF Goto, At
  <1>0. /\ req \in [Callers -> Request] /\ conn \in 1 .. MaxDials /\ faults \in 0 .. MaxFaults
        /\ alive \in BOOLEAN /\ reachable \in BOOLEAN
        /\ \A c \in Callers : req[c].pc = "dial" <=> mu = c
    BY DEF TypeOK
  <1>1. ASSUME NEW c \in Callers, NEW kind \in Kinds, Ask(c, kind) PROVE TypeOK'
    <2>1. PICK q : Asked(c, q)
      BY <1>1, AskMoves
    <2>2. \A d \in Callers : /\ req'[d] \in Request
                             /\ req'[d].pc = "dial" <=> req[d].pc = "dial"
      BY <1>0, <2>1 DEF Asked, Request
    <2>3. req' \in [Callers -> Request]
      BY <2>1, <2>2 DEF Asked
    <2> QED
      BY <1>0, <1>1, <2>2, <2>3 DEF Ask, TypeOK
  <1>2. ASSUME NEW c \in Callers, Open(c) \/ OpenAgain(c) \/ Execute(c) \/ Answer(c)
                                  \/ Break(c) \/ Return(c)
        PROVE  TypeOK'
    <2>1. Moves(c) /\ req[c].pc # "dial" /\ req'[c].pc # "dial"
      BY <1>2, OwnSteps DEF To, Open, OpenAgain, Execute, Answer, Break, Return
    <2>2. UNCHANGED <<conn, alive, reachable, mu, faults>>
      BY <1>2 DEF Open, OpenAgain, Execute, Answer, Break, Return
    <2> QED
      BY <1>0, <2>1, <2>2, MoveType
  <1>3. ASSUME NEW c \in Callers, Close(c) PROVE TypeOK'
    BY <1>0, <1>3, OwnSteps, MoveType DEF To, Close
  <1>4. ASSUME NEW c \in Callers, Dial(c) PROVE TypeOK'
    <2>1. Moves(c) /\ req'[c].pc # "dial" /\ mu = c /\ mu' = Nobody
      BY <1>0, <1>4, OwnSteps DEF To, Dial
    <2>2. /\ conn' = conn \/ (conn < MaxDials /\ conn' = conn + 1)
          /\ alive' = alive \/ alive' = TRUE
          /\ reachable' = reachable /\ faults' = faults
      BY <1>4 DEF Dial
    <2>3. conn' \in 1 .. MaxDials
      BY <1>0, <2>2, BoundAssumption
    <2>4. alive' \in BOOLEAN /\ reachable' \in BOOLEAN /\ faults' \in 0 .. MaxFaults
      BY <1>0, <2>2
    <2> QED
      BY <2>1, <2>3, <2>4, MoveType
  <1>5. ASSUME NEW c \in Callers, OpenRefused(c) \/ Cancel(c) PROVE TypeOK'
    <2>1. Moves(c) /\ req[c].pc # "dial" /\ req'[c].pc # "dial"
      BY <1>5, OwnSteps DEF To, OpenRefused, Cancel
    <2>2. UNCHANGED <<conn, alive, reachable, mu>> /\ faults' \in 0 .. MaxFaults
      BY <1>0, <1>5, BoundAssumption DEF OpenRefused, Cancel, Fault
    <2> QED
      BY <1>0, <2>1, <2>2, MoveType
  <1>6. CASE Drop \/ HostDown
    <2>1. req' = Disturbed(req) /\ mu' = mu /\ conn' = conn
      BY <1>6 DEF Drop, HostDown
    <2>2. req' \in [Callers -> Request] /\ \A c \in Callers : req'[c].pc = req[c].pc
      BY <1>0, <2>1 DEF Disturbed, Request
    <2>3. alive' \in BOOLEAN /\ reachable' \in BOOLEAN /\ faults' \in 0 .. MaxFaults
      <3>1. faults < MaxFaults /\ faults' = faults + 1
        BY <1>6 DEF Drop, HostDown, Fault
      <3>2. /\ alive' = FALSE /\ (reachable' = reachable \/ reachable' = FALSE)
        BY <1>6 DEF Drop, HostDown
      <3>3. faults' \in 0 .. MaxFaults
        BY <1>0, <3>1, BoundAssumption
      <3> QED
        BY <1>0, <3>2, <3>3
    <2> QED
      BY <1>0, <2>1, <2>2, <2>3 DEF TypeOK
  <1>7. CASE HostUp \/ UNCHANGED vars
    BY <1>7 DEF HostUp, vars, TypeOK
  <1> QED
    BY <1>1, <1>2, <1>3, <1>4, <1>5, <1>6, <1>7 DEF Next, Step

\* every variable keeps its type, and who replaces the connection holds the mutex, alone
THEOREM TypeCorrect == Spec => []TypeOK
  BY TypeInit, TypeStep, PTL DEF Spec

--------------------------------------------------------------------------------
(* The refinement. *)

\* one caller's own step, by its labels and what it does to the effects
Asks(c) == req[c].pc = "idle" /\ req'[c].pc = "open" /\ req[c].effects = 0 /\ req'[c].effects = 0
Tries(c) == /\ req[c].pc \in {"open", "lock", "dial", "again"}
            /\ req'[c].pc \in {"open", "lock", "dial", "again", "send", "failed"}
            /\ req'[c].effects = req[c].effects
Executes(c) == req[c].pc = "send" /\ req'[c].pc = "wait" /\ req'[c].effects = req[c].effects + 1
Answers(c) == req[c].pc = "wait" /\ req'[c].pc = "done" /\ req'[c].effects = req[c].effects
Fails(c) == /\ req[c].pc \in {"send", "wait"} /\ req'[c].pc = "failed"
            /\ req'[c].effects = req[c].effects
Returns(c) == req[c].pc \in {"done", "failed"} /\ req'[c].pc = "idle" /\ req'[c].effects = 0
Same(c) == req'[c].pc = req[c].pc /\ req'[c].effects = req[c].effects

\* a step moves at most one request
LEMMA EachStep ==
  ASSUME TypeOK, EffectInv, [Next]_vars
  PROVE  \/ \A c \in Callers : Same(c)
         \/ \E c \in Callers : /\ \/ Asks(c) \/ Tries(c) \/ Executes(c) \/ Answers(c)
                                  \/ Fails(c) \/ Returns(c)
                               /\ \A d \in Callers \ {c} : Same(d)
  <1>0. req \in [Callers -> Request]
    BY DEF TypeOK
  <1>1. ASSUME NEW c \in Callers, NEW kind \in Kinds, Ask(c, kind)
        PROVE  Asks(c) /\ \A d \in Callers \ {c} : Same(d)
    <2>1. PICK q : Asked(c, q)
      BY <1>1, AskMoves
    <2>2. req[c].effects = 0
      BY <2>1 DEF Asked, EffectInv
    <2>3. \A d \in Callers \ {c} : Same(d)
      BY <1>0, <2>1 DEF Asked, Same, Request
    <2> QED
      BY <2>1, <2>2, <2>3 DEF Asked, Asks
  <1>2. ASSUME NEW c \in Callers, Step(c) \/ OpenRefused(c) \/ Cancel(c)
        PROVE  /\ \/ Tries(c) \/ Executes(c) \/ Answers(c) \/ Fails(c) \/ Returns(c)
               /\ \A d \in Callers \ {c} : Same(d)
    <2>1. Moves(c)
      BY <1>2, OwnSteps DEF Step, To
    <2>2. \A d \in Callers \ {c} : Same(d)
      BY <1>0, <2>1 DEF Moves, Same
    <2>3. CASE Open(c) \/ Close(c) \/ Dial(c) \/ OpenAgain(c) \/ OpenRefused(c)
      <3>1. req[c].pc \in {"open", "lock", "dial", "again"}
        BY <2>3 DEF Open, Close, Dial, OpenAgain, OpenRefused, At
      <3>2. Tries(c)
        BY <2>3, <3>1, OwnSteps DEF To, Kept, Tries
      <3> QED
        BY <2>2, <3>2
    <2>4. CASE Execute(c)
      BY <2>2, <2>4, OwnSteps DEF Execute, At, Executes
    <2>5. CASE Answer(c)
      BY <2>2, <2>5, OwnSteps DEF Answer, At, To, Kept, Answers
    <2>6. CASE Break(c) \/ Cancel(c)
      BY <2>2, <2>6, OwnSteps DEF Break, Cancel, To, Kept, Fails
    <2>7. CASE Return(c)
      BY <2>2, <2>7, OwnSteps DEF Return, Returns
    <2> QED
      BY <1>2, <2>3, <2>4, <2>5, <2>6, <2>7 DEF Step
  <1>3. CASE Drop \/ HostDown
    <2>1. req' = Disturbed(req)
      BY <1>3 DEF Drop, HostDown
    <2> QED
      BY <1>0, <2>1 DEF Disturbed, Same, Request
  <1>4. CASE HostUp \/ UNCHANGED vars
    BY <1>4 DEF HostUp, vars, Same
  <1> QED
    BY <1>1, <1>2, <1>3, <1>4 DEF Next

LEMMA EffectInit == Init => EffectInv
  <1>1. NoRequest.effects = 0 /\ NoRequest.pc = "idle"
    BY DEF NoRequest
  <1> QED
    BY <1>1 DEF Init, EffectInv

LEMMA EffectStep == TypeOK /\ EffectInv /\ [Next]_vars => EffectInv'
  <1> SUFFICES ASSUME TypeOK, EffectInv, [Next]_vars, NEW c \in Callers
               PROVE  /\ req'[c].effects \in {0, 1}
                      /\ req'[c].pc \in {"idle", "open", "lock", "dial", "again", "send"}
                            => req'[c].effects = 0
                      /\ req'[c].pc \in {"wait", "done"} => req'[c].effects = 1
    BY DEF EffectInv
  <1>1. \/ Same(c) \/ Asks(c) \/ Tries(c) \/ Executes(c) \/ Answers(c) \/ Fails(c) \/ Returns(c)
    BY EachStep
  <1> QED
    BY <1>1 DEF EffectInv, Same, Asks, Tries, Executes, Answers, Fails, Returns

\* what the abstract command sees of the requests
status == [c \in Callers |-> Status(c)]
effects == [c \in Callers |-> req[c].effects]

LEMMA InitRefines == Init => Command!Init
  BY DEF Init, Command!Init, Status, At, NoRequest

LEMMA StepRefines == TypeOK /\ EffectInv /\ [Next]_vars => [Command!Next]_(Command!vars)
  <1> SUFFICES ASSUME TypeOK, EffectInv, [Next]_vars PROVE [Command!Next]_(Command!vars)
    OBVIOUS
  <1> USE DEF Status, At
  <1>1. CASE \A c \in Callers : Same(c)
    BY <1>1 DEF Same, Command!vars
  <1>2. ASSUME NEW c \in Callers,
               Asks(c) \/ Tries(c) \/ Executes(c) \/ Answers(c) \/ Fails(c) \/ Returns(c),
               \A d \in Callers \ {c} : Same(d)
        PROVE  [Command!Next]_(Command!vars)
    <2>0. /\ status' = [status EXCEPT ![c] = Status(c)']
          /\ effects' = [effects EXCEPT ![c] = req'[c].effects]
      BY <1>2 DEF status, effects, Same
    <2>1. CASE Asks(c)
      <3>1. effects' = effects
        BY <2>0, <2>1 DEF Asks, effects
      <3>2. status[c] = "idle" /\ status' = [status EXCEPT ![c] = "asked"]
        BY <2>0, <2>1 DEF Asks, status
      <3>3. Command!Ask(c)
        BY <3>1, <3>2 DEF Command!Ask, status, effects
      <3> QED
        BY <3>3 DEF Command!Next
    <2>2. CASE Tries(c)
      <3>1. CASE req'[c].pc = "failed"
        <4>1. Command!Fail(c)
          BY <2>0, <2>2, <3>1 DEF Tries, Command!Fail, status, effects
        <4> QED
          BY <4>1 DEF Command!Next
      <3>2. CASE req'[c].pc # "failed"
        BY <2>0, <2>2, <3>2 DEF Tries, Command!vars, status, effects
      <3> QED
        BY <3>1, <3>2
    <2>3. CASE Executes(c)
      <3>1. effects[c] = 0 /\ effects' = [effects EXCEPT ![c] = 1]
        <4>1. req[c].effects = 0 /\ req'[c].effects = 1
          BY <2>3 DEF Executes, EffectInv
        <4> QED
          BY <2>0, <4>1 DEF effects
      <3>2. status[c] = "asked" /\ status' = status
        BY <2>0, <2>3 DEF Executes, status
      <3>3. Command!TakeEffect(c)
        BY <3>1, <3>2 DEF Command!TakeEffect, status, effects
      <3> QED
        BY <3>3 DEF Command!Next
    <2>4. CASE Answers(c)
      <3>1. Command!Answer(c)
        BY <2>0, <2>4 DEF Answers, EffectInv, Command!Answer, status, effects
      <3> QED
        BY <3>1 DEF Command!Next
    <2>5. CASE Fails(c)
      <3>1. Command!Fail(c)
        BY <2>0, <2>5 DEF Fails, Command!Fail, status, effects
      <3> QED
        BY <3>1 DEF Command!Next
    <2>6. CASE Returns(c)
      <3>1. Command!Return(c)
        BY <2>0, <2>6 DEF Returns, Command!Return, status, effects
      <3> QED
        BY <3>1 DEF Command!Next
    <2> QED
      BY <1>2, <2>1, <2>2, <2>3, <2>4, <2>5, <2>6
  <1> QED
    BY <1>1, <1>2, EachStep

\* a command takes effect at most once and an answer means that it did, for any number of
\* callers that race for the connection: the client implements RemoteCommand
THEOREM ClientImplementsCommand == Spec => ImplementsCommand
  <1>1. Spec => []EffectInv
    BY EffectInit, EffectStep, TypeCorrect, PTL DEF Spec
  <1> QED
    BY <1>1, InitRefines, StepRefines, TypeCorrect, PTL DEF Spec, ImplementsCommand, Command!Spec

--------------------------------------------------------------------------------
(* Stale connections. *)

LEMMA AloneStep == TypeOK /\ AloneInv /\ [Next]_vars => AloneInv'
  <1> SUFFICES ASSUME TypeOK, AloneInv, [Next]_vars PROVE AloneInv'
    OBVIOUS
  <1> USE DEF Busy, At
  <1>0. req \in [Callers -> Request]
    BY DEF TypeOK
  <1>1. ASSUME NEW c \in Callers, NEW kind \in Kinds, Ask(c, kind) PROVE AloneInv'
    <2>1. PICK q : Asked(c, q)
      BY <1>1, AskMoves
    <2>2. reachable' = reachable
      BY <1>1 DEF Ask
    <2>3. \A d \in Callers \ {c} : /\ req'[d].pc = req[d].pc /\ ~req'[d].alone
                                   /\ req'[d].clean = req[d].clean
      BY <1>0, <2>1 DEF Asked, Request
    <2>4. req'[c] = q
      BY <1>0, <2>1 DEF Asked
    <2> QED
      BY <2>1, <2>2, <2>3, <2>4 DEF Asked, AloneInv
  <1>2. ASSUME NEW c \in Callers, Step(c) \/ OpenRefused(c) \/ Cancel(c) PROVE AloneInv'
    <2>1. /\ Moves(c) /\ Busy(c)
          /\ Busy(c)' => /\ req'[c].alone = req[c].alone
                         /\ req'[c].clean => req[c].clean
      BY <1>2, OwnSteps
         DEF Step, To, Kept, Open, Close, Dial, OpenAgain, Execute, Answer, Break, Return,
             OpenRefused, Cancel
    <2>2. reachable' = reachable
      BY <1>2 DEF Step, Open, Close, Dial, OpenAgain, Execute, Answer, Break, Return,
                  OpenRefused, Cancel
    <2>3. \A d \in Callers \ {c} : req'[d] = req[d]
      BY <1>0, <2>1 DEF Moves
    <2> QED
      BY <2>1, <2>2, <2>3 DEF AloneInv
  <1>3. CASE Drop \/ HostDown
    <2>1. req' = Disturbed(req)
      BY <1>3 DEF Drop, HostDown
    <2>2. \A c \in Callers : /\ req'[c].pc = req[c].pc /\ ~req'[c].clean
                             /\ req'[c].alone = req[c].alone
      BY <1>0, <2>1 DEF Disturbed, Request
    <2> QED
      BY <2>2 DEF AloneInv
  <1>4. CASE HostUp \/ UNCHANGED vars
    BY <1>4 DEF HostUp, vars, AloneInv
  <1> QED
    BY <1>1, <1>2, <1>3, <1>4 DEF Next

LEMMA LinkStep == TypeOK /\ AloneInv /\ LinkInv /\ [Next]_vars => LinkInv'
  <1> SUFFICES ASSUME TypeOK, AloneInv, LinkInv, [Next]_vars PROVE LinkInv'
    OBVIOUS
  <1> USE DEF At
  <1>0. req \in [Callers -> Request] /\ conn \in 1 .. MaxDials
    BY DEF TypeOK
  <1>1. ASSUME NEW c \in Callers, NEW kind \in Kinds, Ask(c, kind) PROVE LinkInv'
    <2>1. PICK q : Asked(c, q)
      BY <1>1, AskMoves
    <2>2. \A d \in Callers \ {c} : ~req'[d].alone
      BY <1>0, <2>1 DEF Asked, Request
    <2>3. req'[c].pc = "open"
      BY <1>0, <2>1 DEF Asked
    <2> QED
      BY <2>2, <2>3 DEF LinkInv, Undisturbed
  <1>2. ASSUME NEW c \in Callers, Step(c) \/ OpenRefused(c) \/ Cancel(c) PROVE LinkInv'
    <2>1. Moves(c) /\ Busy(c) /\ \A d \in Callers \ {c} : req'[d] = req[d]
      BY <1>0, <1>2, OwnSteps
         DEF Step, To, Moves, Busy, Open, Close, Dial, OpenAgain, Execute, Answer, Break, Return,
             OpenRefused, Cancel
    <2>2. ASSUME NEW d \in Callers \ {c}, Undisturbed(d)'
          PROVE  ~Busy(d)
      BY <2>1, <2>2 DEF AloneInv, Undisturbed
    <2>3. \A d \in Callers \ {c} : Undisturbed(d)' => req'[d].pc = "idle"
      BY <2>1, <2>2 DEF Busy
    <2>4. ASSUME Undisturbed(c)'
          PROVE  /\ req'[c].pc = "again" => alive'
                 /\ req'[c].pc \in {"send", "wait"} => req'[c].on = conn' /\ alive'
                 /\ req'[c].pc = "failed" => conn' = MaxDials
      <3>1. CASE Open(c)
        BY <3>1, OwnSteps DEF To, Open
      <3>2. CASE Close(c)
        BY <3>2, OwnSteps DEF To
      <3>3. CASE Dial(c)
        <4>1. req[c].clean /\ reachable
          BY <2>1, <2>4, <3>3, OwnSteps DEF To, Kept, Undisturbed, AloneInv
        <4>2. CASE conn < MaxDials
          BY <1>0, <3>3, <4>1, <4>2 DEF Dial, Goto, Request
        <4>3. CASE conn = MaxDials
          BY <1>0, <3>3, <4>1, <4>3, OwnSteps DEF Dial, Goto, Request, Refuse
        <4> QED
          BY <1>0, <4>2, <4>3, BoundAssumption
      <3>4. CASE OpenAgain(c)
        <4>1. alive
          BY <2>4, <3>4, OwnSteps DEF To, Kept, Undisturbed, LinkInv, OpenAgain
        <4> QED
          BY <3>4, <4>1, OwnSteps DEF To, OpenAgain
      <3>5. CASE Execute(c)
        BY <2>4, <3>5, OwnSteps DEF Execute, Works
      <3>6. CASE Answer(c)
        BY <3>6, OwnSteps DEF To
      <3>7. CASE Break(c)
        BY <2>4, <3>7, OwnSteps DEF To, Kept, Undisturbed, LinkInv, Break
      <3>8. CASE OpenRefused(c) \/ Cancel(c)
        BY <2>4, <3>8, OwnSteps DEF Undisturbed
      <3>9. CASE Return(c)
        BY <3>9, OwnSteps
      <3> QED
        BY <1>2, <3>1, <3>2, <3>3, <3>4, <3>5, <3>6, <3>7, <3>8, <3>9 DEF Step
    <2> QED
      BY <2>3, <2>4 DEF LinkInv, Works
  <1>3. CASE Drop \/ HostDown
    <2>1. req' = Disturbed(req)
      BY <1>3 DEF Drop, HostDown
    <2>2. \A c \in Callers : ~req'[c].clean
      BY <1>0, <2>1 DEF Disturbed, Request
    <2> QED
      BY <2>2 DEF LinkInv, Undisturbed
  <1>4. CASE HostUp \/ UNCHANGED vars
    BY <1>4 DEF HostUp, vars, LinkInv, Undisturbed, Works
  <1> QED
    BY <1>1, <1>2, <1>3, <1>4 DEF Next

\* a request made alone, while the host answers, that meets no fault of its own does not fail,
\* whatever state the connection was in (but for the bound on the dials)
THEOREM StaleIsAlwaysTransparent == Spec => []StaleIsTransparent
  <1>1. Init => AloneInv /\ LinkInv
    <2>1. NoRequest.pc = "idle"
      BY DEF NoRequest
    <2> QED
      BY <2>1 DEF Init, AloneInv, LinkInv, Busy, At
  <1>2. LinkInv => StaleIsTransparent
    BY DEF LinkInv, StaleIsTransparent, Undisturbed
  <1> QED
    BY <1>1, <1>2, AloneStep, LinkStep, TypeCorrect, PTL DEF Spec
================================================================================
