----------------------------- MODULE Agent_proofs -----------------------------
(***************************************************************************)
(* Proofs about the agent of a run: about AppServerTurn and RunStream, for *)
(* every number of requests, messages, events and breaks, and about        *)
(* AgentSessions, for every set of runs, revisions, sessions and threads,  *)
(* and about ContextAssembly, for all sizes of parts and every budget.     *)
(*                                                                         *)
(* The inductive invariant of a turn follows a request from the pipe to    *)
(* the row, the human, the answer and the outcome: the agent's requests    *)
(* are handled in the order it made them, an answer is the decision of its *)
(* row, only a runner that failed or died leaves a row without an answer,  *)
(* and a success comes of a turn that no answer has stopped.               *)
(*                                                                         *)
(* That of a page ties what is on the wire to both its ends: it begins at  *)
(* most one event after the cursor of the page and ends at the cursor of   *)
(* the handler.  That of the sessions says what the unique indexes and the *)
(* callers of the store keep: a row names a thread of its own, a run       *)
(* refers to a row that exists, and a resumed run that failed is on its    *)
(* way to drop its session.                                                *)
(*                                                                         *)
(* That of a prompt says that each part that may not be absent was read,   *)
(* and that the manifest is what Assemble makes of the parts.  What the    *)
(* loops of Assemble compute is proved by induction over their iterations, *)
(* stated of sets of numbers; for that, the folds of the model are shown   *)
(* to visit the parts in their order.                                      *)
(***************************************************************************)
EXTENDS MCAgent, TLAPS, NaturalsInduction, WellFoundedInduction, FiniteSetTheorems

-----------------------------------------------------------------------------
(* The inductive invariant of a turn.                                      *)

\* A row of approval_requests.
Row == [state : {"NONE", "OPEN", "RESOLVED", "CLEARED"}, decision : Decisions \cup {"NONE"}]

\* No answer has stopped the turn.
Unstopped == \A i \in Asks \ Permissions : answer[i] # "CANCEL_RUN"

\* The agent ended its turn with every answer, and none that stopped it.
Satisfied == agent # "ALIVE" /\ Unstopped /\ \A i \in 1..asked : answer[i] # "NONE"

\* What the agent said and the runner has not handled: it asks in order.
PipeFits ==
    /\ \A p \in DOMAIN pipe :
         /\ pipe[p].kind = "ASK" => current < pipe[p].of /\ pipe[p].of <= asked
         /\ pipe[p].kind = "COMPLETED" => Satisfied
         /\ pipe[p].kind = "INTERRUPTED" => Stopped
    /\ \A p, q \in DOMAIN pipe :
         p < q /\ pipe[p].kind = "ASK" /\ pipe[q].kind = "ASK" => pipe[p].of < pipe[q].of

\* The requests up to the one the runner is at, and the answers to them.
AsksFit ==
    /\ current <= asked
    /\ \A i \in Asks : i > current => request[i].state = "NONE" /\ answer[i] = "NONE"
    /\ \A i \in Asks : request[i].state = "RESOLVED" <=> request[i].decision # "NONE"
    /\ pc \in {"ASK", "WAIT", "REPLY", "CLEAR"} => current >= 1 /\ answer[current] = "NONE"
    /\ pc = "ASK" => request[current].state = "NONE"
    /\ pc = "REPLY" => request[current].state = "RESOLVED"
    /\ pc = "INTERRUPT" => current >= 1 /\ answer[current] = "CANCEL_RUN"
    /\ \A i \in Asks : request[i].state \in {"OPEN", "RESOLVED"} /\ answer[i] = "NONE" =>
         pc = "GONE" \/ failed \/ (pc \in {"WAIT", "REPLY"} /\ current = i)

\* How far the turn is, and what it has come to.
TurnFits ==
    /\ failed => /\ pc \in {"CLEAR", "CLOSE", "RELEASE", "REPORT", "DONE", "GONE"}
                 /\ outcome # "SUCCEEDED"
    /\ pc = "CLEAR" => failed
    /\ pc \in {"CLEAR", "CLOSE", "RELEASE", "REPORT", "DONE"} => outcome # "NONE"
    /\ outcome = "SUCCEEDED" => /\ pc \in {"CLOSE", "RELEASE", "REPORT", "DONE", "GONE"}
                                /\ Unstopped
    /\ status = "SUCCEEDED" => pc = "DONE" /\ \A i \in Asks : request[i].state # "OPEN"

\* Why a turn is cancelled.
CausesFit ==
    /\ \A i \in Asks : request[i].decision = "CANCEL_RUN" => cancel \/ status # "RUNNING"
    /\ interrupted => cancel \/ status # "RUNNING"
    /\ context = "CANCELLED" => cancel \/ checkFailed \/ unleased
    /\ outcome = "CANCELLED" => cancel \/ checkFailed \/ status # "RUNNING"

\* The types, by whose they are.
TablesFit ==
    /\ status \in Outcomes \cup {"RUNNING", "LOST"} /\ cancel \in BOOLEAN
    /\ request \in [Asks -> Row]
    /\ lease \in {"NONE", "ACTIVE", "RELEASED", "ABANDONED"}
AgentFits ==
    /\ agent \in {"ALIVE", "ENDED", "DEAD"} /\ answered \in 0..3 /\ asked \in 0..MaxAsks
    /\ answer \in [Asks -> Decisions \cup {"NONE"}] /\ interrupted \in BOOLEAN
MessagesFit == pipe \in Seq(Message) /\ Len(pipe) <= MaxPipe
RunnerFits ==
    /\ pc \in {"WRITE", "REQUEST", "TURN", "ASK", "WAIT", "REPLY", "INTERRUPT", "CLEAR",
               "CLOSE", "RELEASE", "REPORT", "DONE", "GONE"}
    /\ step \in 1..3 /\ current \in 0..MaxAsks
    /\ outcome \in Outcomes \cup {"NONE"} /\ failed \in BOOLEAN
ContextFits ==
    /\ context \in {"LIVE", "CANCELLED", "EXPIRED"}
    /\ unleased \in BOOLEAN /\ checkFailed \in BOOLEAN /\ storeFails \in BOOLEAN

\* That the ends of the pipes are open or not stands apart: no other type rests on it.
EndsFit == jammed \in BOOLEAN /\ heir \in BOOLEAN

\* What the run checks, apart from types.
Promises ==
    /\ AgentIsToldTheDecision /\ OpenRequestIsAwaited /\ EndedRunAsksNothing
    /\ StoppedRunFails /\ CancelledForAReason

\* The inductive invariant of a turn.
IInv == /\ TablesFit /\ AgentFits /\ MessagesFit /\ RunnerFits /\ ContextFits
        /\ PipeFits /\ AsksFit /\ TurnFits /\ CausesFit /\ Promises

\* The invariant has the types of the module.
LEMMA Types ==
    TypeOK <=> TablesFit /\ AgentFits /\ MessagesFit /\ RunnerFits /\ ContextFits /\ EndsFit
BY DEF TypeOK, TablesFit, AgentFits, MessagesFit, RunnerFits, ContextFits, EndsFit, Row

\* A turn that an answer or an interrupt has stopped is one that somebody cancelled.
LEMMA StoppedByRequest ==
    ASSUME IInv, Stopped
    PROVE  cancel \/ status # "RUNNING"
<1>1. CASE interrupted
  BY <1>1 DEF IInv, CausesFit
<1>2. ASSUME NEW i \in Asks, answer[i] = "CANCEL_RUN"
      PROVE  cancel \/ status # "RUNNING"
  <2>1. request[i] = [state |-> "RESOLVED", decision |-> "CANCEL_RUN"]
    BY <1>2 DEF IInv, Promises, AgentIsToldTheDecision
  <2>2. request[i].decision = "CANCEL_RUN"
    BY <2>1
  <2> QED
    BY <2>2 DEF IInv, CausesFit
<1> QED
  BY <1>1, <1>2 DEF Stopped

\* What the proofs use of the bounds.
LEMMA Bounds == MaxAsks \in Nat /\ MaxPipe \in Nat /\ Asks = 1..MaxAsks
BY TurnAssumption DEF Asks

-----------------------------------------------------------------------------
(* The pipe.                                                               *)

\* A message more.
LEMMA Said ==
    ASSUME MessagesFit, NEW m \in Message, Len(pipe) < MaxPipe, pipe' = Append(pipe, m)
    PROVE  /\ MessagesFit' /\ Len(pipe) \in Nat
           /\ DOMAIN pipe = 1..Len(pipe) /\ DOMAIN pipe' = 1..Len(pipe) + 1
           /\ pipe'[Len(pipe) + 1] = m
           /\ \A p \in 1..Len(pipe) : pipe'[p] = pipe[p]
<1>1. Len(pipe') = Len(pipe) + 1 /\ Len(pipe) \in Nat
  BY DEF MessagesFit
<1> QED
  BY <1>1, TurnAssumption DEF MessagesFit

\* A message less.
LEMMA Taken ==
    ASSUME MessagesFit, pipe # <<>>, pipe' = Tail(pipe)
    PROVE  /\ MessagesFit' /\ Head1 \in Message /\ 1 \in DOMAIN pipe /\ Head1 = pipe[1]
           /\ \A p \in DOMAIN pipe' : /\ p \in Nat /\ p >= 1 /\ p + 1 \in DOMAIN pipe
                                      /\ pipe'[p] = pipe[p + 1]
<1>1. Len(pipe') = Len(pipe) - 1 /\ Len(pipe) \in Nat /\ Len(pipe) > 0
  BY DEF MessagesFit
<1> QED
  BY <1>1, TurnAssumption DEF MessagesFit, Head1

\* Nothing is said, and the agent may have died.
LEMMA PipeKept ==
    ASSUME PipeFits, UNCHANGED <<pipe, asked, answer, current, interrupted>>, agent' \in {agent, "DEAD"}
    PROVE  PipeFits'
<1>1. (Satisfied => Satisfied') /\ (Stopped' <=> Stopped)
  BY DEF Satisfied, Unstopped, Stopped
<1> QED
  BY <1>1 DEF PipeFits

\* A message is taken that is no request.
LEMMA PipeTaken ==
    ASSUME PipeFits, MessagesFit, pipe # <<>>, pipe' = Tail(pipe),
           UNCHANGED <<asked, answer, current, interrupted, agent>>
    PROVE  PipeFits'
<1>1. \A p \in DOMAIN pipe' : /\ p \in Nat /\ p >= 1 /\ p + 1 \in DOMAIN pipe
                              /\ pipe'[p] = pipe[p + 1]
  BY Taken
<1>2. \A p, q \in DOMAIN pipe' : p < q => p + 1 < q + 1
  BY <1>1
<1>3. (Satisfied' <=> Satisfied) /\ (Stopped' <=> Stopped)
  BY DEF Satisfied, Unstopped, Stopped
<1> QED
  BY <1>1, <1>2, <1>3 DEF PipeFits

-----------------------------------------------------------------------------
(* The agent.                                                              *)

\* What it does changes neither the tables nor the runner.
AgentStep ==
    \/ AgentAnswers \/ AgentAsks \/ AgentWorks \/ AgentEndsTurn \/ AgentDies
    \/ StopsReading \/ LeavesHeir \/ OutputIsLost

\* The invariant, where only the agent and the pipe have moved.
LEMMA AgentStepKeeps ==
    ASSUME IInv, UNCHANGED <<tables, runner, causes, answer, interrupted>>, asked' >= asked,
           AgentFits', MessagesFit', PipeFits'
    PROVE  IInv'
<1>0. TablesFit /\ RunnerFits /\ ContextFits /\ AgentFits /\ AsksFit /\ TurnFits /\ CausesFit /\ Promises
  BY DEF IInv
<1>1. /\ UNCHANGED <<status, cancel, request, lease, pc, step, current, outcome, failed>>
      /\ UNCHANGED <<context, unleased, checkFailed, storeFails, answer, interrupted>>
  BY DEF tables, runner, causes
<1>2. TablesFit' /\ RunnerFits' /\ ContextFits'
  BY <1>0, <1>1 DEF TablesFit, RunnerFits, ContextFits
<1>3. current' <= asked'
  BY <1>0, <1>1, Bounds DEF AsksFit, AgentFits, RunnerFits
<1>4. AsksFit'
  BY <1>0, <1>1, <1>3 DEF AsksFit
<1>5. TurnFits' /\ CausesFit'
  BY <1>0, <1>1 DEF TurnFits, Unstopped, CausesFit
<1>6. Promises'
  BY <1>0, <1>1 DEF Promises, AgentIsToldTheDecision, OpenRequestIsAwaited,
     EndedRunAsksNothing,
                    StoppedRunFails, CancelledForAReason
<1> QED
  BY <1>2, <1>4, <1>5, <1>6 DEF IInv

\* The agent answers, asks, works, ends its turn, dies or leaves its pipes.
LEMMA AgentKeeps ==
    ASSUME IInv, AgentStep
    PROVE  IInv'
<1>0. AgentFits /\ MessagesFit /\ PipeFits /\ RunnerFits /\ AsksFit
  BY DEF IInv
<1>1. ASSUME NEW kind, NEW i, Says(kind, i), [kind |-> kind, of |-> i] \in Message,
             kind \notin {"ASK", "COMPLETED", "INTERRUPTED"},
             UNCHANGED <<agent, asked, answer, interrupted, current>>
      PROVE  MessagesFit' /\ PipeFits'
  <2> DEFINE m == [kind |-> kind, of |-> i]
  <2>1. m \in Message /\ m.kind = kind /\ pipe' = Append(pipe, m) /\ Len(pipe) < MaxPipe
    BY <1>1 DEF Says
  <2> HIDE DEF m
  <2>2. /\ MessagesFit' /\ Len(pipe) \in Nat
        /\ DOMAIN pipe = 1..Len(pipe) /\ DOMAIN pipe' = 1..Len(pipe) + 1
        /\ pipe'[Len(pipe) + 1] = m
        /\ \A p \in 1..Len(pipe) : pipe'[p] = pipe[p]
    BY <1>0, <2>1, Said
  <2>3. (Satisfied' <=> Satisfied) /\ (Stopped' <=> Stopped)
    BY <1>1 DEF Satisfied, Unstopped, Stopped
  <2>4. \A p \in DOMAIN pipe' : pipe'[p].kind \in {"ASK", "COMPLETED", "INTERRUPTED"} =>
          p \in DOMAIN pipe /\ pipe'[p] = pipe[p]
    BY <1>1, <2>1, <2>2
  <2>5. PipeFits'
    BY <1>0, <1>1, <2>3, <2>4 DEF PipeFits
  <2> QED
    BY <2>2, <2>5
<1>2. CASE AgentAnswers
  <2>1. /\ Says("OK", step) \/ Says("ERROR", step)
        /\ answered' = step /\ UNCHANGED <<tables, agent, asked, answer, interrupted, runner, causes>>
    BY <1>2 DEF AgentAnswers
  <2>2. [kind |-> "OK", of |-> step] \in Message /\ [kind |-> "ERROR", of |-> step] \in Message
    BY <1>0 DEF RunnerFits, Message
  <2>3. MessagesFit' /\ PipeFits'
    BY <1>1, <2>1, <2>2 DEF runner
  <2>4. AgentFits' /\ asked' >= asked
    BY <1>0, <2>1, Bounds DEF AgentFits, RunnerFits
  <2> QED
    BY <2>1, <2>3, <2>4, AgentStepKeeps
<1>3. CASE AgentAsks
  <2>1. /\ agent = "ALIVE" /\ asked < MaxAsks /\ Says("ASK", asked + 1)
        /\ asked' = asked + 1
        /\ UNCHANGED <<tables, agent, answered, answer, interrupted, runner, causes>>
    BY <1>3 DEF AgentAsks, InTurn
  <2>2. AgentFits' /\ asked' >= asked /\ asked \in Nat /\ current \in Nat /\ current <= asked
    BY <1>0, <2>1, Bounds DEF AgentFits, RunnerFits, AsksFit
  <2> DEFINE m == [kind |-> "ASK", of |-> asked + 1]
  <2>3. m \in Message /\ m.kind = "ASK" /\ m.of = asked + 1
    BY <2>1, <2>2, Bounds DEF Message
  <2>4. pipe' = Append(pipe, m) /\ Len(pipe) < MaxPipe
    BY <2>1 DEF Says
  <2> HIDE DEF m
  <2>5. /\ MessagesFit' /\ Len(pipe) \in Nat
        /\ DOMAIN pipe = 1..Len(pipe) /\ DOMAIN pipe' = 1..Len(pipe) + 1
        /\ pipe'[Len(pipe) + 1] = m
        /\ \A p \in 1..Len(pipe) : pipe'[p] = pipe[p]
    BY <1>0, <2>3, <2>4, Said
  <2>6. ~Satisfied
    BY <2>1 DEF Satisfied
  <2>7. \A p \in DOMAIN pipe : pipe[p].of \in Int /\ (pipe[p].kind = "ASK" => pipe[p].of <= asked)
    <3>1. \A m1 \in Message : m1.of \in Int
      BY Bounds DEF Message
    <3>2. \A p \in DOMAIN pipe : pipe[p] \in Message
      BY <1>0 DEF MessagesFit
    <3> QED
      BY <1>0, <3>1, <3>2 DEF PipeFits
  <2>8. UNCHANGED current /\ (Stopped' <=> Stopped)
    BY <2>1 DEF runner, Stopped
  <2>9. ASSUME NEW p \in DOMAIN pipe'
        PROVE  /\ pipe'[p].kind = "ASK" => current' < pipe'[p].of /\ pipe'[p].of <= asked'
               /\ pipe'[p].kind = "COMPLETED" => Satisfied'
               /\ pipe'[p].kind = "INTERRUPTED" => Stopped'
    <3>1. CASE p \in DOMAIN pipe
      <4>1. pipe'[p] = pipe[p]
        BY <2>5, <3>1
      <4>2. pipe[p].kind = "ASK" => current < pipe[p].of /\ pipe[p].of <= asked /\ pipe[p].of \in Int
        BY <1>0, <2>7, <3>1 DEF PipeFits
      <4>3. pipe[p].kind # "COMPLETED" /\ (pipe[p].kind = "INTERRUPTED" => Stopped)
        BY <1>0, <2>6, <3>1 DEF PipeFits
      <4> QED
        BY <2>1, <2>2, <2>8, <4>1, <4>2, <4>3
    <3>2. CASE p = Len(pipe) + 1
      BY <2>1, <2>2, <2>3, <2>5, <2>8, <3>2
    <3> QED
      BY <2>5, <3>1, <3>2
  <2>10. ASSUME NEW p \in DOMAIN pipe', NEW q \in DOMAIN pipe', p < q,
                pipe'[p].kind = "ASK", pipe'[q].kind = "ASK"
         PROVE  pipe'[p].of < pipe'[q].of
    <3>1. p \in DOMAIN pipe /\ pipe'[p] = pipe[p]
      BY <2>5, <2>10
    <3>2. CASE q \in DOMAIN pipe
      BY <1>0, <2>5, <2>10, <3>1, <3>2 DEF PipeFits
    <3>3. CASE q = Len(pipe) + 1
      BY <2>2, <2>3, <2>5, <2>7, <2>10, <3>1, <3>3
    <3> QED
      BY <2>5, <3>2, <3>3
  <2>11. PipeFits'
    BY <2>9, <2>10 DEF PipeFits
  <2> QED
    BY <2>1, <2>2, <2>5, <2>11, AgentStepKeeps
<1>4. CASE AgentWorks
  <2>1. /\ Says("OTHER", 0) \/ Says("BROWSER", 0)
        /\ UNCHANGED <<tables, agency, runner, causes>>
    BY <1>4 DEF AgentWorks
  <2>2. [kind |-> "OTHER", of |-> 0] \in Message /\ [kind |-> "BROWSER", of |-> 0] \in Message
    BY DEF Message
  <2>3. UNCHANGED <<agent, answered, asked, answer, interrupted, current>>
    BY <2>1 DEF agency, runner
  <2>4. MessagesFit' /\ PipeFits'
    BY <1>1, <2>1, <2>2, <2>3
  <2>5. AgentFits' /\ asked' >= asked
    BY <1>0, <2>3, Bounds DEF AgentFits
  <2> QED
    BY <2>1, <2>3, <2>4, <2>5, AgentStepKeeps
<1>5. CASE AgentEndsTurn
  <2>1. PICK kind \in {"COMPLETED", "INTERRUPTED", "FAILED"} :
          /\ Says(kind, 0)
          /\ kind = "INTERRUPTED" => Stopped
          /\ kind = "COMPLETED" => Unstopped /\ \A i \in 1..asked : answer[i] # "NONE"
    BY <1>5 DEF AgentEndsTurn, Stopped, Unstopped
  <2>2. /\ agent = "ALIVE" /\ agent' = "ENDED"
        /\ UNCHANGED <<tables, answered, asked, answer, interrupted, runner, causes>>
    BY <1>5 DEF AgentEndsTurn, InTurn
  <2> DEFINE m == [kind |-> kind, of |-> 0]
  <2>3. m \in Message /\ m.kind = kind
    BY DEF Message
  <2>4. pipe' = Append(pipe, m) /\ Len(pipe) < MaxPipe
    BY <2>1 DEF Says
  <2> HIDE DEF m
  <2>5. /\ MessagesFit' /\ Len(pipe) \in Nat
        /\ DOMAIN pipe = 1..Len(pipe) /\ DOMAIN pipe' = 1..Len(pipe) + 1
        /\ pipe'[Len(pipe) + 1] = m
        /\ \A p \in 1..Len(pipe) : pipe'[p] = pipe[p]
    BY <1>0, <2>3, <2>4, Said
  <2>6. ~Satisfied /\ (kind = "COMPLETED" => Satisfied') /\ (Stopped' <=> Stopped)
    BY <2>1, <2>2 DEF Satisfied, Unstopped, Stopped
  <2>7. UNCHANGED current
    BY <2>2 DEF runner
  <2>8. ASSUME NEW p \in DOMAIN pipe'
        PROVE  /\ pipe'[p].kind = "ASK" => p \in DOMAIN pipe /\ pipe'[p] = pipe[p]
               /\ pipe'[p].kind = "COMPLETED" => Satisfied'
               /\ pipe'[p].kind = "INTERRUPTED" => Stopped'
    <3>1. CASE p \in DOMAIN pipe
      BY <1>0, <2>2, <2>5, <2>6, <3>1 DEF PipeFits
    <3>2. CASE p = Len(pipe) + 1
      BY <2>1, <2>2, <2>3, <2>5, <2>6, <3>2
    <3> QED
      BY <2>5, <3>1, <3>2
  <2>9. PipeFits'
    BY <1>0, <2>2, <2>7, <2>8 DEF PipeFits
  <2>10. AgentFits' /\ asked' >= asked
    BY <1>0, <2>2, Bounds DEF AgentFits
  <2> QED
    BY <2>2, <2>5, <2>9, <2>10, AgentStepKeeps
<1>6. CASE AgentDies
  <2>1. /\ agent' = "DEAD"
        /\ UNCHANGED <<tables, answered, asked, answer, interrupted, pipe, runner, causes>>
    BY <1>6 DEF AgentDies
  <2>2. PipeFits' /\ MessagesFit'
    BY <1>0, <2>1, PipeKept DEF runner, MessagesFit
  <2>3. AgentFits' /\ asked' >= asked
    BY <1>0, <2>1, Bounds DEF AgentFits
  <2> QED
    BY <2>1, <2>2, <2>3, AgentStepKeeps
<1>7. CASE StopsReading \/ LeavesHeir
  <2>1. UNCHANGED <<tables, agent, answered, asked, answer, interrupted, pipe, runner, causes>>
    BY <1>7 DEF StopsReading, LeavesHeir
  <2>2. PipeFits' /\ MessagesFit'
    BY <1>0, <2>1, PipeKept DEF runner, MessagesFit
  <2>3. AgentFits' /\ asked' >= asked
    BY <1>0, <2>1, Bounds DEF AgentFits
  <2> QED
    BY <2>1, <2>2, <2>3, AgentStepKeeps
<1>8. CASE OutputIsLost
  <2>1. pipe' = <<>> /\ UNCHANGED <<tables, agent, answered, asked, answer, interrupted, runner, causes>>
    BY <1>8 DEF OutputIsLost, agency
  <2>2. PipeFits' /\ MessagesFit'
    BY <2>1, Bounds DEF PipeFits, MessagesFit
  <2>3. AgentFits' /\ asked' >= asked
    BY <1>0, <2>1, Bounds DEF AgentFits
  <2> QED
    BY <2>1, <2>2, <2>3, AgentStepKeeps
<1> QED
  BY <1>2, <1>3, <1>4, <1>5, <1>6, <1>7, <1>8 DEF AgentStep

-----------------------------------------------------------------------------
(* The context, the humans, the recovery.                                  *)

\* A cause that ends the context.
ContextStep == MonitorSeesCancel \/ MonitorFails \/ HeartbeatStops \/ Expires

\* The context ends with a cause.
LEMMA ContextKeeps ==
    ASSUME IInv, ContextStep
    PROVE  IInv'
<1>0. /\ TablesFit /\ AgentFits /\ MessagesFit /\ RunnerFits /\ ContextFits
      /\ PipeFits /\ AsksFit /\ TurnFits /\ CausesFit /\ Promises
  BY DEF IInv
<1>1. UNCHANGED <<tables, agency, pipe, runner, storeFails>>
  BY DEF ContextStep, MonitorSeesCancel, MonitorFails, HeartbeatStops, Expires, Cancels
<1>2. /\ UNCHANGED <<status, cancel, request, lease, pc, step, current, outcome, failed>>
      /\ UNCHANGED <<agent, answered, asked, answer, interrupted, pipe, storeFails>>
  BY <1>1 DEF tables, runner, agency
<1>3. TablesFit' /\ AgentFits' /\ MessagesFit' /\ RunnerFits'
  BY <1>0, <1>2 DEF TablesFit, AgentFits, MessagesFit, RunnerFits
<1>4. PipeFits' /\ AsksFit' /\ TurnFits'
  BY <1>0, <1>2, PipeKept DEF AsksFit, TurnFits, Unstopped
<1>5. ContextFits' /\ CausesFit'
  BY <1>0, <1>2 DEF ContextFits, CausesFit, ContextStep, MonitorSeesCancel, MonitorFails,
     HeartbeatStops,
                    Expires, Cancels
<1>6. checkFailed => checkFailed'
  <2>1. CASE HeartbeatStops
    BY <2>1 DEF HeartbeatStops
  <2>2. CASE MonitorSeesCancel
    BY <2>2 DEF MonitorSeesCancel
  <2>3. CASE MonitorFails
    BY <2>3 DEF MonitorFails
  <2>4. CASE Expires
    BY <2>4 DEF Expires
  <2> QED
    BY <2>1, <2>2, <2>3, <2>4 DEF ContextStep
<1>7. Promises'
  BY <1>0, <1>2, <1>6 DEF Promises, AgentIsToldTheDecision, OpenRequestIsAwaited,
     EndedRunAsksNothing,
                    StoppedRunFails, CancelledForAReason
<1> QED
  BY <1>3, <1>4, <1>5, <1>7 DEF IInv

\* Open requests that are closed.
LEMMA ClosedShape ==
    ASSUME request \in [Asks -> Row]
    PROVE  /\ Closed(request) \in [Asks -> Row]
           /\ \A i \in Asks : /\ Closed(request)[i].decision = request[i].decision
                              /\ Closed(request)[i].state = IF request[i].state = "OPEN" THEN "CLEARED"
                                                            ELSE request[i].state
BY DEF Closed, Row

\* A decision, or a request to cancel.
HumanStep == (\E i \in Asks : ResolveApprovalRequest(i)) \/ RequestCancel

\* A decision is about an open request, and one that stops the run asks for its end.
LEMMA HumanKeeps ==
    ASSUME IInv, HumanStep
    PROVE  IInv'
<1>0. /\ TablesFit /\ AgentFits /\ MessagesFit /\ RunnerFits /\ ContextFits
      /\ PipeFits /\ AsksFit /\ TurnFits /\ CausesFit /\ Promises
  BY DEF IInv
<1>1. UNCHANGED <<status, lease, agency, pipe, runner, causes>>
  BY DEF HumanStep, ResolveApprovalRequest, RequestCancel
<1>2. /\ UNCHANGED <<status, lease, pc, step, current, outcome, failed>>
      /\ UNCHANGED <<agent, answered, asked, answer, interrupted, pipe>>
      /\ UNCHANGED <<context, unleased, checkFailed, storeFails>>
  BY <1>1 DEF causes, runner, agency
<1>3. AgentFits' /\ MessagesFit' /\ RunnerFits' /\ ContextFits' /\ PipeFits'
  BY <1>0, <1>2, PipeKept DEF AgentFits, MessagesFit, RunnerFits, ContextFits
<1>4. CASE RequestCancel
  <2>1. cancel' = TRUE /\ UNCHANGED request
    BY <1>4 DEF RequestCancel
  <2>2. TablesFit' /\ AsksFit' /\ TurnFits' /\ CausesFit'
    BY <1>0, <1>2, <2>1 DEF TablesFit, AsksFit, TurnFits, Unstopped, CausesFit
  <2>3. Promises'
    BY <1>0, <1>2, <2>1 DEF Promises, AgentIsToldTheDecision, OpenRequestIsAwaited,
       EndedRunAsksNothing,
                      StoppedRunFails, CancelledForAReason
  <2> QED
    BY <1>3, <2>2, <2>3 DEF IInv
<1>5. ASSUME NEW i \in Asks, ResolveApprovalRequest(i)
      PROVE  IInv'
  <2>1. PICK d \in Decisions :
          /\ request' = [request EXCEPT ![i] = [state |-> "RESOLVED", decision |-> d]]
          /\ cancel' = (cancel \/ (d = "CANCEL_RUN" /\ status = "RUNNING"))
    BY <1>5 DEF ResolveApprovalRequest
  <2>2. request[i].state = "OPEN" /\ [state |-> "RESOLVED", decision |-> d] \in Row /\ d # "NONE"
    BY <1>5 DEF ResolveApprovalRequest, Row, Decisions
  <2>3. /\ request' \in [Asks -> Row]
        /\ request'[i].state = "RESOLVED" /\ request'[i].decision = d
        /\ \A j \in Asks : j # i => request'[j] = request[j]
    BY <1>0, <2>1, <2>2 DEF TablesFit
  <2>4. TablesFit'
    BY <1>0, <1>2, <2>1, <2>3 DEF TablesFit
  <2>5. AsksFit'
    <3>1. /\ pc = "ASK" => request[current].state = "NONE" /\ current \in Asks
          /\ pc = "REPLY" => request[current].state = "RESOLVED" /\ current \in Asks
      BY <1>0, Bounds DEF AsksFit, AgentFits, RunnerFits
    <3>2. /\ pc' = "ASK" => request'[current'].state = "NONE"
          /\ pc' = "REPLY" => request'[current'].state = "RESOLVED"
      BY <1>2, <2>2, <2>3, <3>1
    <3>3. \A j \in Asks : j > current => request'[j].state = "NONE" /\ answer[j] = "NONE"
      BY <1>0, <2>2, <2>3 DEF AsksFit
    <3>4. \A j \in Asks : request'[j].state = "RESOLVED" <=> request'[j].decision # "NONE"
      BY <1>0, <2>2, <2>3 DEF AsksFit
    <3>5. \A j \in Asks : request'[j].state \in {"OPEN", "RESOLVED"} =>
            request[j].state \in {"OPEN", "RESOLVED"}
      BY <2>2, <2>3
    <3> QED
      BY <1>0, <1>2, <3>2, <3>3, <3>4, <3>5 DEF AsksFit
  <2>6. TurnFits'
    BY <1>0, <1>2, <2>2, <2>3 DEF TurnFits, Unstopped
  <2>7. CausesFit'
    BY <1>0, <1>2, <2>1, <2>2, <2>3 DEF CausesFit
  <2>8. status # "SUCCEEDED"
    BY <1>0, <2>2 DEF TurnFits
  <2>9. answer[i] = "NONE"
    <3> SUFFICES ASSUME answer[i] # "NONE"
                 PROVE  FALSE
      OBVIOUS
    <3>1. request[i] = [state |-> "RESOLVED", decision |-> answer[i]]
      BY <1>0 DEF Promises, AgentIsToldTheDecision
    <3>2. request[i].state = "RESOLVED"
      BY <3>1
    <3> QED
      BY <2>2, <3>2
  <2>10. AgentIsToldTheDecision' /\ OpenRequestIsAwaited' /\ EndedRunAsksNothing'
    BY <1>0, <1>2, <2>3, <2>9 DEF Promises, AgentIsToldTheDecision, OpenRequestIsAwaited,
       EndedRunAsksNothing
  <2>11. StoppedRunFails' /\ CancelledForAReason'
    BY <1>0, <1>2, <2>1, <2>8 DEF Promises, StoppedRunFails, CancelledForAReason
  <2> QED
    BY <1>3, <2>4, <2>5, <2>6, <2>7, <2>10, <2>11 DEF IInv, Promises
<1> QED
  BY <1>4, <1>5 DEF HumanStep

\* The status of the run changes, and open requests are closed.
LEMMA RecoverKeeps ==
    ASSUME IInv, RecoverLost
    PROVE  IInv'
<1>0. /\ TablesFit /\ AgentFits /\ MessagesFit /\ RunnerFits /\ ContextFits
      /\ PipeFits /\ AsksFit /\ TurnFits /\ CausesFit /\ Promises
  BY DEF IInv
<1>1. /\ status = "RUNNING" /\ status' = "LOST" /\ request' = Closed(request)
      /\ UNCHANGED <<cancel, lease, pc, step, current, outcome, failed>>
      /\ UNCHANGED <<agent, answered, asked, answer, interrupted, pipe>>
      /\ UNCHANGED <<context, unleased, checkFailed, storeFails>>
  BY DEF RecoverLost, causes, runner, agency
<1>2. AgentFits' /\ MessagesFit' /\ RunnerFits' /\ ContextFits' /\ PipeFits'
  BY <1>0, <1>1, PipeKept DEF AgentFits, MessagesFit, RunnerFits, ContextFits
<1>3. /\ request' \in [Asks -> Row]
      /\ \A i \in Asks : /\ request'[i].decision = request[i].decision
                         /\ request'[i].state = IF request[i].state = "OPEN" THEN "CLEARED"
                                                ELSE request[i].state
  BY <1>0, <1>1, ClosedShape DEF TablesFit
<1>4. TablesFit' /\ TurnFits' /\ CausesFit'
  BY <1>0, <1>1, <1>3 DEF TablesFit, TurnFits, Unstopped, CausesFit
<1>5. AsksFit'
  <2>1. pc' = "ASK" => request'[current'].state = "NONE"
    BY <1>0, <1>1, <1>3, Bounds DEF AsksFit, AgentFits, RunnerFits
  <2>2. pc' = "REPLY" => request'[current'].state = "RESOLVED"
    BY <1>0, <1>1, <1>3, Bounds DEF AsksFit, AgentFits, RunnerFits
  <2> QED
    BY <1>0, <1>1, <1>3, <2>1, <2>2 DEF AsksFit
<1>6. \A i \in Asks : request'[i].state # "OPEN"
  BY <1>3
<1>7. ASSUME NEW i \in Asks, answer[i] # "NONE"
      PROVE  request'[i] = [state |-> "RESOLVED", decision |-> answer[i]]
  <2>1. request[i] = [state |-> "RESOLVED", decision |-> answer[i]]
    BY <1>0, <1>7 DEF Promises, AgentIsToldTheDecision
  <2>2. request'[i] = request[i]
    BY <1>1, <2>1 DEF Closed
  <2> QED
    BY <2>1, <2>2
<1>8. Promises'
  BY <1>0, <1>1, <1>6, <1>7 DEF Promises, AgentIsToldTheDecision, OpenRequestIsAwaited,
     EndedRunAsksNothing,
                    StoppedRunFails, CancelledForAReason
<1> QED
  BY <1>2, <1>4, <1>5, <1>8 DEF IInv

-----------------------------------------------------------------------------
(* The turn.                                                               *)

\* What the runner does to the tables of the run, but not to the requests.
LEMMA RunnerKeeps ==
    ASSUME IInv, UNCHANGED <<status, cancel, request, answered, asked, answer, interrupted>>,
           UNCHANGED causes, lease' \in {"NONE", "ACTIVE", "RELEASED", "ABANDONED"}, agent' \in {agent, "DEAD"},
           MessagesFit', RunnerFits', PipeFits', AsksFit', TurnFits',
           outcome' = "CANCELLED" => outcome = "CANCELLED" \/ Stopped \/ (context = "CANCELLED" /\ ~unleased),
           \A i \in Asks : request[i].state = "OPEN" /\ (pc = "GONE" \/ (pc \in {"WAIT", "CLEAR"} /\ current = i)) =>
             pc' = "GONE" \/ (pc' \in {"WAIT", "CLEAR"} /\ current' = i)
    PROVE  IInv'
<1>0. /\ TablesFit /\ AgentFits /\ ContextFits /\ CausesFit /\ Promises
  BY DEF IInv
<1>1. UNCHANGED <<context, unleased, checkFailed, storeFails>>
  BY DEF causes
<1>2. TablesFit' /\ AgentFits' /\ ContextFits'
  BY <1>0, <1>1 DEF TablesFit, AgentFits, ContextFits
<1>3. CausesFit'
  BY <1>0, <1>1, StoppedByRequest DEF CausesFit
<1>4. OpenRequestIsAwaited'
  BY <1>0, <1>1 DEF Promises, OpenRequestIsAwaited
<1>5. Promises'
  BY <1>0, <1>1, <1>4 DEF Promises, AgentIsToldTheDecision, EndedRunAsksNothing,
     StoppedRunFails,
                          CancelledForAReason
<1> QED
  BY <1>2, <1>3, <1>5 DEF IInv

\* The turn fails.
LEMMA FailsKeeps ==
    ASSUME IInv, NEW to \in {"CLOSE", "CLEAR", "RELEASE"}, Fails(to),
           pc \notin {"DONE", "GONE"}, pc = "WAIT" <=> to = "CLEAR", pc # "CLEAR",
           UNCHANGED <<status, cancel, request, answered, asked, answer, interrupted>>,
           UNCHANGED causes, lease' \in {"NONE", "ACTIVE", "RELEASED", "ABANDONED"}, agent' \in {agent, "DEAD"},
           MessagesFit', PipeFits'
    PROVE  IInv'
<1>0. RunnerFits /\ AsksFit /\ TurnFits
  BY DEF IInv
<1>1. /\ pc' = to /\ outcome' = "FAILED" /\ failed' = TRUE /\ UNCHANGED <<step, current>>
  BY DEF Fails
<1>2. RunnerFits'
  BY <1>0, <1>1 DEF RunnerFits, Outcomes
<1>3. AsksFit'
  BY <1>0, <1>1 DEF AsksFit
<1>4. TurnFits'
  BY <1>0, <1>1 DEF TurnFits
<1> QED
  BY <1>1, <1>2, <1>3, <1>4, RunnerKeeps

\* A request of the handshake is written.
LEMMA WriteKeeps ==
    ASSUME IInv, WriteRequest
    PROVE  IInv'
<1>0. MessagesFit /\ PipeFits /\ RunnerFits /\ AsksFit /\ TurnFits /\ TablesFit
  BY DEF IInv
<1>1. /\ pc = "WRITE"
      /\ UNCHANGED <<status, cancel, request, lease, agent, answered, asked, answer, interrupted, pipe>>
      /\ UNCHANGED causes
      /\ Goes("REQUEST") \/ Fails("CLOSE")
  BY DEF WriteRequest, tables, agency
<1>2. UNCHANGED current
  BY <1>1 DEF Goes, Fails
<1>3. MessagesFit' /\ PipeFits'
  BY <1>0, <1>1, <1>2, PipeKept DEF MessagesFit
<1>4. CASE Fails("CLOSE")
  BY <1>0, <1>1, <1>3, <1>4, FailsKeeps DEF TablesFit
<1>5. CASE Goes("REQUEST")
  <2>1. pc' = "REQUEST" /\ UNCHANGED <<step, outcome, failed>>
    BY <1>5 DEF Goes
  <2>2. RunnerFits' /\ AsksFit' /\ TurnFits'
    BY <1>0, <1>1, <1>2, <2>1 DEF RunnerFits, AsksFit, TurnFits
  <2> QED
    BY <1>0, <1>1, <1>2, <1>3, <2>1, <2>2, RunnerKeeps DEF TablesFit
<1> QED
  BY <1>1, <1>4, <1>5

\* A message of the handshake.
LEMMA HandshakeKeeps ==
    ASSUME IInv, Handshake
    PROVE  IInv'
<1>0. MessagesFit /\ PipeFits /\ RunnerFits /\ AsksFit /\ TurnFits /\ TablesFit
  BY DEF IInv
<1>1. /\ pc = "REQUEST" /\ pipe # <<>> /\ pipe' = Tail(pipe)
      /\ UNCHANGED <<status, cancel, request, lease, agent, answered, asked, answer, interrupted>>
      /\ UNCHANGED causes
  BY DEF Handshake, tables, agency
<1>2. \/ pc' = "TURN" /\ UNCHANGED <<step, current, outcome, failed>>
      \/ step # 3 /\ step' = step + 1 /\ pc' = "WRITE" /\ UNCHANGED <<current, outcome, failed>>
      \/ Fails("CLOSE")
      \/ UNCHANGED <<pc, step, current, outcome, failed>>
  BY DEF Handshake, runner
<1>3. UNCHANGED current
  BY <1>2 DEF Fails
<1>4. MessagesFit' /\ PipeFits'
  BY <1>0, <1>1, <1>3, Taken, PipeTaken
<1>5. CASE Fails("CLOSE")
  BY <1>0, <1>1, <1>4, <1>5, FailsKeeps DEF TablesFit
<1>6. CASE pc' \in {"WRITE", "REQUEST", "TURN"} /\ step' \in 1..3 /\ UNCHANGED <<current, outcome, failed>>
  <2>1. RunnerFits'
    BY <1>0, <1>6 DEF RunnerFits
  <2>2. AsksFit'
    BY <1>0, <1>1, <1>6 DEF AsksFit
  <2>3. TurnFits'
    BY <1>0, <1>1, <1>6 DEF TurnFits
  <2> QED
    BY <1>0, <1>1, <1>4, <1>6, <2>1, <2>2, <2>3, RunnerKeeps DEF TablesFit
<1> QED
  <2>1. step \in 1..3
    BY <1>0 DEF RunnerFits
  <2>2. step # 3 => step + 1 \in 1..3
    BY <2>1
  <2> QED
    BY <1>1, <1>2, <1>5, <1>6, <2>1, <2>2

\* Handshake, turn or wait break off.
LEMMA BreaksKeeps ==
    ASSUME IInv, HandshakeBreaks \/ TurnBreaks \/ WaitEnds
    PROVE  IInv'
<1>0. MessagesFit /\ PipeFits /\ TablesFit
  BY DEF IInv
<1>1. /\ UNCHANGED <<status, cancel, request, lease, agent, answered, asked, answer, interrupted, pipe>>
      /\ UNCHANGED causes
      /\ \/ pc \in {"REQUEST", "TURN"} /\ Fails("CLOSE")
         \/ pc = "WAIT" /\ Fails("CLEAR")
  BY DEF HandshakeBreaks, TurnBreaks, WaitEnds, tables, agency
<1>2. UNCHANGED current
  BY <1>1 DEF Fails
<1>3. MessagesFit' /\ PipeFits'
  BY <1>0, <1>1, <1>2, PipeKept DEF MessagesFit
<1> QED
  BY <1>0, <1>1, <1>3, FailsKeeps DEF TablesFit

\* A tool call is audited.
LEMMA EventKeeps ==
    ASSUME IInv, HandleMCPEvent
    PROVE  IInv'
<1>0. MessagesFit /\ PipeFits /\ RunnerFits /\ AsksFit /\ TurnFits /\ TablesFit
  BY DEF IInv
<1>1. /\ pc = "TURN" /\ pipe # <<>> /\ pipe' = Tail(pipe)
      /\ UNCHANGED <<status, cancel, request, agent, answered, asked, answer, interrupted>>
      /\ UNCHANGED causes
      /\ lease' \in {"ACTIVE", lease}
      /\ Fails("CLOSE") \/ UNCHANGED <<pc, step, current, outcome, failed>>
  BY DEF HandleMCPEvent, TakeMessage, agency, runner
<1>2. UNCHANGED current
  BY <1>1 DEF Fails
<1>3. MessagesFit' /\ PipeFits'
  BY <1>0, <1>1, <1>2, Taken, PipeTaken
<1>4. CASE Fails("CLOSE")
  BY <1>0, <1>1, <1>3, <1>4, FailsKeeps DEF TablesFit
<1>5. CASE UNCHANGED <<pc, step, current, outcome, failed>>
  <2>1. RunnerFits' /\ AsksFit' /\ TurnFits'
    BY <1>0, <1>1, <1>5 DEF RunnerFits, AsksFit, TurnFits
  <2> QED
    BY <1>0, <1>1, <1>3, <1>5, <2>1, RunnerKeeps DEF TablesFit
<1> QED
  BY <1>1, <1>4, <1>5

\* A turn that completes was not interrupted, one that was is cancelled.
LEMMA CompletesKeeps ==
    ASSUME IInv, TurnCompletes
    PROVE  IInv'
<1>0. MessagesFit /\ PipeFits /\ RunnerFits /\ AsksFit /\ TurnFits /\ TablesFit
  BY DEF IInv
<1>1. /\ pc = "TURN" /\ pipe # <<>> /\ pipe' = Tail(pipe) /\ Head1.kind \in {"COMPLETED", "INTERRUPTED", "FAILED"}
      /\ UNCHANGED <<status, cancel, request, lease, agent, answered, asked, answer, interrupted>>
      /\ UNCHANGED causes
      /\ \/ Fails("CLOSE")
         \/ /\ Head1.kind # "FAILED" /\ pc' = "CLOSE"
            /\ outcome' = IF Head1.kind = "COMPLETED" THEN "SUCCEEDED" ELSE "CANCELLED"
            /\ UNCHANGED <<step, current, failed>>
  BY DEF TurnCompletes, TakeMessage, tables, agency
<1>2. UNCHANGED current
  BY <1>1 DEF Fails
<1>3. MessagesFit' /\ PipeFits' /\ 1 \in DOMAIN pipe /\ Head1 = pipe[1]
  BY <1>0, <1>1, <1>2, Taken, PipeTaken
<1>4. CASE Fails("CLOSE")
  BY <1>0, <1>1, <1>3, <1>4, FailsKeeps DEF TablesFit
<1>5. CASE ~Fails("CLOSE")
  <2>1. /\ pc' = "CLOSE" /\ UNCHANGED <<step, current, failed>>
        /\ \/ outcome' = "SUCCEEDED" /\ Satisfied
           \/ outcome' = "CANCELLED" /\ Stopped
    BY <1>0, <1>1, <1>3, <1>5 DEF PipeFits
  <2>2. ~failed
    BY <1>0, <1>1 DEF TurnFits
  <2>3. RunnerFits'
    BY <1>0, <2>1 DEF RunnerFits, Outcomes
  <2>4. AsksFit'
    BY <1>0, <1>1, <2>1 DEF AsksFit
  <2>5. TurnFits'
    BY <1>0, <1>1, <2>1, <2>2 DEF TurnFits, Satisfied, Unstopped
  <2> QED
    BY <1>0, <1>1, <1>3, <2>1, <2>3, <2>4, <2>5, RunnerKeeps DEF TablesFit
<1> QED
  BY <1>4, <1>5

\* The next request is a new one.
LEMMA ApprovalKeeps ==
    ASSUME IInv, HandleApproval
    PROVE  IInv'
<1>0. MessagesFit /\ PipeFits /\ RunnerFits /\ AsksFit /\ TurnFits /\ TablesFit /\ AgentFits
  BY DEF IInv
<1>1. /\ pc = "TURN" /\ pipe # <<>> /\ pipe' = Tail(pipe) /\ Head1.kind = "ASK"
      /\ pc' = "ASK" /\ current' = Head1.of
      /\ UNCHANGED <<status, cancel, request, lease, agent, answered, asked, answer, interrupted>>
      /\ UNCHANGED causes /\ UNCHANGED <<step, outcome, failed>>
  BY DEF HandleApproval, TakeMessage, tables, agency
<1>2. /\ MessagesFit' /\ Head1 \in Message /\ 1 \in DOMAIN pipe /\ Head1 = pipe[1]
      /\ \A p \in DOMAIN pipe' : /\ p \in Nat /\ p >= 1 /\ p + 1 \in DOMAIN pipe
                                 /\ pipe'[p] = pipe[p + 1]
  BY <1>0, <1>1, Taken
<1>3. current < current' /\ current' <= asked /\ current' \in Int
  BY <1>0, <1>1, <1>2, Bounds DEF PipeFits, Message
<1>4. current' \in Asks /\ current' >= 1
  BY <1>0, <1>3, Bounds DEF RunnerFits, AgentFits
<1>5. request[current'].state = "NONE" /\ answer[current'] = "NONE"
  BY <1>0, <1>3, <1>4 DEF AsksFit
<1>6. PipeFits'
  <2>1. ASSUME NEW p \in DOMAIN pipe'
        PROVE  /\ pipe'[p].kind = "ASK" => current' < pipe'[p].of /\ pipe'[p].of <= asked'
               /\ pipe'[p].kind = "COMPLETED" => Satisfied'
               /\ pipe'[p].kind = "INTERRUPTED" => Stopped'
    <3>1. /\ p + 1 \in DOMAIN pipe /\ pipe'[p] = pipe[p + 1] /\ 1 < p + 1
      BY <1>2
    <3>2. pipe'[p].kind = "ASK" => current' < pipe'[p].of
      BY <1>0, <1>1, <1>2, <3>1 DEF PipeFits
    <3>3. (Satisfied' <=> Satisfied) /\ (Stopped' <=> Stopped)
      BY <1>1 DEF Satisfied, Unstopped, Stopped
    <3> QED
      BY <1>0, <1>1, <3>1, <3>2, <3>3 DEF PipeFits
  <2>2. \A p, q \in DOMAIN pipe' : p < q => p + 1 < q + 1
    BY <1>2
  <2> QED
    BY <1>0, <1>2, <2>1, <2>2 DEF PipeFits
<1>7. RunnerFits'
  BY <1>0, <1>1, <1>4, Bounds DEF RunnerFits
<1>8. AsksFit'
  <2>1. \A i \in Asks : i > current' => i > current
    BY <1>0, <1>3, Bounds DEF RunnerFits
  <2> QED
    BY <1>0, <1>1, <1>3, <1>4, <1>5, <2>1 DEF AsksFit
<1>9. TurnFits'
  BY <1>0, <1>1 DEF TurnFits
<1> QED
  BY <1>0, <1>1, <1>2, <1>6, <1>7, <1>8, <1>9, RunnerKeeps DEF TablesFit

\* The request becomes a row, or the turn fails.
LEMMA CreateKeeps ==
    ASSUME IInv, CreateApprovalRequest
    PROVE  IInv'
<1>0. /\ TablesFit /\ AgentFits /\ MessagesFit /\ RunnerFits /\ ContextFits
      /\ PipeFits /\ AsksFit /\ TurnFits /\ CausesFit /\ Promises
  BY DEF IInv
<1>1. /\ pc = "ASK"
      /\ UNCHANGED <<status, cancel, lease, agent, answered, asked, answer, interrupted, pipe>>
      /\ UNCHANGED causes
  BY DEF CreateApprovalRequest, agency
<1>2. UNCHANGED current
  BY DEF CreateApprovalRequest, Goes, Fails
<1>3. MessagesFit' /\ PipeFits'
  BY <1>0, <1>1, <1>2, PipeKept DEF MessagesFit
<1>4. CASE Fails("CLOSE") /\ UNCHANGED request
  BY <1>0, <1>1, <1>3, <1>4, FailsKeeps DEF TablesFit
<1>5. CASE /\ status = "RUNNING" /\ request' = [request EXCEPT ![current].state = "OPEN"] /\ Goes("WAIT")
  <2>1. /\ pc' = "WAIT" /\ UNCHANGED <<step, outcome, failed>>
        /\ UNCHANGED <<context, unleased, checkFailed, storeFails>>
    BY <1>1, <1>5 DEF Goes, causes
  <2>2. /\ current \in Asks /\ current >= 1 /\ answer[current] = "NONE" /\ request[current].state = "NONE"
    BY <1>0, <1>1, Bounds DEF AsksFit, RunnerFits, AgentFits
  <2>3. request[current].decision = "NONE"
    BY <1>0, <2>2 DEF AsksFit, TablesFit, Row
  <2>4. /\ request' \in [Asks -> Row]
        /\ request'[current].state = "OPEN" /\ request'[current].decision = "NONE"
        /\ \A i \in Asks : i # current => request'[i] = request[i]
    BY <1>0, <1>5, <2>2, <2>3 DEF TablesFit, Row
  <2>5. TablesFit' /\ AgentFits' /\ ContextFits' /\ RunnerFits'
    BY <1>0, <1>1, <1>2, <2>1, <2>4 DEF TablesFit, AgentFits, ContextFits, RunnerFits
  <2>6. AsksFit'
    <3>1. \A i \in Asks : i > current => i # current
      BY <2>2, Bounds
    <3> QED
      BY <1>0, <1>1, <1>2, <2>1, <2>2, <2>4, <3>1 DEF AsksFit
  <2>7. TurnFits' /\ CausesFit'
    BY <1>0, <1>1, <1>5, <2>1, <2>3, <2>4 DEF TurnFits, CausesFit
  <2>8. AgentIsToldTheDecision' /\ OpenRequestIsAwaited' /\ EndedRunAsksNothing'
    BY <1>0, <1>1, <1>2, <1>5, <2>1, <2>2, <2>4
       DEF Promises, AgentIsToldTheDecision, OpenRequestIsAwaited, EndedRunAsksNothing
  <2>9. StoppedRunFails' /\ CancelledForAReason'
    BY <1>0, <1>1, <1>5, <2>1, <2>4 DEF Promises, StoppedRunFails, CancelledForAReason
  <2> QED
    BY <1>3, <2>5, <2>6, <2>7, <2>8, <2>9 DEF IInv, Promises
<1> QED
  BY <1>4, <1>5 DEF CreateApprovalRequest

\* The row is read again.
LEMMA PollKeeps ==
    ASSUME IInv, PollDecision
    PROVE  IInv'
<1>0. MessagesFit /\ PipeFits /\ RunnerFits /\ AsksFit /\ TurnFits /\ TablesFit /\ AgentFits
  BY DEF IInv
<1>1. /\ pc = "WAIT"
      /\ UNCHANGED <<status, cancel, request, lease, agent, answered, asked, answer, interrupted, pipe>>
      /\ UNCHANGED causes
      /\ \/ request[current].state = "RESOLVED" /\ Goes("REPLY")
         \/ Fails("CLEAR")
  BY DEF PollDecision, tables, agency
<1>2. UNCHANGED current
  BY <1>1 DEF Goes, Fails
<1>3. MessagesFit' /\ PipeFits'
  BY <1>0, <1>1, <1>2, PipeKept DEF MessagesFit
<1>4. CASE Fails("CLEAR")
  BY <1>0, <1>1, <1>3, <1>4, FailsKeeps DEF TablesFit
<1>5. CASE request[current].state = "RESOLVED" /\ Goes("REPLY")
  <2>1. pc' = "REPLY" /\ UNCHANGED <<step, outcome, failed>>
    BY <1>5 DEF Goes
  <2>2. RunnerFits' /\ AsksFit' /\ TurnFits'
    BY <1>0, <1>1, <1>2, <1>5, <2>1 DEF RunnerFits, AsksFit, TurnFits
  <2> QED
    BY <1>0, <1>1, <1>2, <1>3, <1>5, <2>1, <2>2, RunnerKeeps DEF TablesFit
<1> QED
  BY <1>1, <1>4, <1>5

\* An open row is closed, one that was decided stays.
LEMMA ClearKeeps ==
    ASSUME IInv, ClearApprovalRequest
    PROVE  IInv'
<1>0. /\ TablesFit /\ AgentFits /\ MessagesFit /\ RunnerFits /\ ContextFits
      /\ PipeFits /\ AsksFit /\ TurnFits /\ CausesFit /\ Promises
  BY DEF IInv
<1>1. /\ pc = "CLEAR" /\ pc' = "CLOSE" /\ UNCHANGED <<step, current, outcome, failed>>
      /\ UNCHANGED <<status, cancel, lease, agent, answered, asked, answer, interrupted, pipe>>
      /\ UNCHANGED <<context, unleased, checkFailed, storeFails>>
  BY DEF ClearApprovalRequest, Goes, agency, causes
<1>2. failed /\ current \in Asks
  BY <1>0, <1>1, Bounds DEF TurnFits, AsksFit, RunnerFits, AgentFits
<1>3. /\ request' \in [Asks -> Row]
      /\ \A i \in Asks : /\ request'[i].decision = request[i].decision
                         /\ request'[i] = request[i] \/ (request[i].state = "OPEN" /\ request'[i].state = "CLEARED")
      /\ ~storeFails => request'[current].state # "OPEN"
  <2>1. CASE UNCHANGED request /\ storeFails
    BY <1>0, <2>1 DEF TablesFit
  <2>2. CASE request' = [request EXCEPT ![current].state = IF @ = "OPEN" THEN "CLEARED" ELSE @]
    <3> DEFINE s == IF request[current].state = "OPEN" THEN "CLEARED" ELSE request[current].state
    <3>0. request \in [Asks -> Row] /\ request[current] \in Row
      BY <1>0, <1>2 DEF TablesFit
    <3>a. /\ DOMAIN request' = Asks
          /\ request'[current] = [request[current] EXCEPT !.state = s]
          /\ \A i \in Asks : i # current => request'[i] = request[i]
      <4>1. \A i \in DOMAIN request : request'[i] = IF i = current THEN [request[current] EXCEPT !.state = s] ELSE request[i]
        BY <2>2, Zenon
      <4>2. DOMAIN request' = DOMAIN request
        BY <2>2, Zenon
      <4> QED
        BY <3>0, <4>1, <4>2, <1>2
    <3>b. [request[current] EXCEPT !.state = s] = [state |-> s, decision |-> request[current].decision]
      BY <3>0 DEF Row
    <3>c. request' = [i \in Asks |-> request'[i]]
      BY <2>2, <3>0, Zenon
    <3>1. /\ request' = [i \in Asks |-> request'[i]]
          /\ request'[current] = [state |-> s, decision |-> request[current].decision]
          /\ \A i \in Asks : i # current => request'[i] = request[i]
      BY <3>a, <3>b, <3>c
    <3>2. s \in {"NONE", "OPEN", "RESOLVED", "CLEARED"} /\ s # "OPEN"
          /\ (request[current].state # "OPEN" => s = request[current].state)
          /\ (request[current].state = "OPEN" => s = "CLEARED")
      BY <1>0, <1>2 DEF TablesFit, Row
    <3> HIDE DEF s
    <3>3. request[current] \in Row /\ (request[current].state # "OPEN" =>
            request[current] = [state |-> s, decision |-> request[current].decision])
      BY <1>0, <1>2, <3>2 DEF TablesFit, Row
    <3>4. [state |-> s, decision |-> request[current].decision] \in Row
      BY <3>2, <3>3 DEF Row
    <3> QED
      BY <1>0, <1>2, <3>1, <3>2, <3>3, <3>4 DEF TablesFit
  <2> QED
    BY <2>1, <2>2 DEF ClearApprovalRequest
<1>4. TablesFit' /\ AgentFits' /\ ContextFits' /\ RunnerFits' /\ MessagesFit' /\ PipeFits'
  BY <1>0, <1>1, <1>3, PipeKept DEF TablesFit, AgentFits, ContextFits, RunnerFits,
     MessagesFit
<1>5. AsksFit'
  BY <1>0, <1>1, <1>2, <1>3 DEF AsksFit
<1>6. TurnFits' /\ CausesFit'
  BY <1>0, <1>1, <1>2, <1>3 DEF TurnFits, CausesFit
<1>7. AgentIsToldTheDecision'
  <2>1. ASSUME NEW i \in Asks, answer[i] # "NONE"
        PROVE  request'[i] = [state |-> "RESOLVED", decision |-> answer[i]]
    <3>1. request[i] = [state |-> "RESOLVED", decision |-> answer[i]]
      BY <1>0, <2>1 DEF Promises, AgentIsToldTheDecision
    <3>2. request[i].state = "RESOLVED"
      BY <3>1
    <3> QED
      BY <1>3, <3>1, <3>2
  <2> QED
    BY <1>1, <2>1 DEF AgentIsToldTheDecision
<1>8. OpenRequestIsAwaited' /\ EndedRunAsksNothing'
  BY <1>0, <1>1, <1>3 DEF Promises, OpenRequestIsAwaited, EndedRunAsksNothing
<1>9. StoppedRunFails' /\ CancelledForAReason'
  BY <1>0, <1>1, <1>3 DEF Promises, StoppedRunFails, CancelledForAReason
<1> QED
  BY <1>4, <1>5, <1>6, <1>7, <1>8, <1>9 DEF IInv, Promises

\* The agent is told what was decided.
LEMMA ReplyKeeps ==
    ASSUME IInv, Reply
    PROVE  IInv'
<1>0. /\ TablesFit /\ AgentFits /\ MessagesFit /\ RunnerFits /\ ContextFits
      /\ PipeFits /\ AsksFit /\ TurnFits /\ CausesFit /\ Promises
  BY DEF IInv
<1>1. /\ pc = "REPLY"
      /\ UNCHANGED <<status, cancel, request, lease, agent, answered, asked, interrupted, pipe>>
      /\ UNCHANGED causes
  BY DEF Reply, tables
<1>2. UNCHANGED current
  BY DEF Reply, Goes, Fails
<1>3. CASE Fails("CLOSE") /\ UNCHANGED answer
  <2>1. MessagesFit' /\ PipeFits'
    BY <1>0, <1>1, <1>2, <1>3, PipeKept DEF MessagesFit
  <2> QED
    BY <1>0, <1>1, <1>3, <2>1, FailsKeeps DEF TablesFit
<1>4. CASE ~(Fails("CLOSE") /\ UNCHANGED answer)
  <2> DEFINE d == request[current].decision
  <2>1. /\ answer' = [answer EXCEPT ![current] = d]
        /\ pc' = IF d = "CANCEL_RUN" THEN "INTERRUPT" ELSE "TURN"
        /\ UNCHANGED <<step, outcome, failed>>
        /\ UNCHANGED <<context, unleased, checkFailed, storeFails>>
    BY <1>1, <1>4 DEF Reply, Goes, causes
  <2>2. /\ current \in Asks /\ current >= 1 /\ current <= asked /\ answer[current] = "NONE"
        /\ request[current].state = "RESOLVED"
    BY <1>0, <1>1, Bounds DEF AsksFit, RunnerFits, AgentFits
  <2>3. d \in Decisions /\ request[current] = [state |-> "RESOLVED", decision |-> d] /\ d # "NONE"
    BY <1>0, <2>2 DEF AsksFit, TablesFit, Row
  <2> HIDE DEF d
  <2>5. /\ answer' \in [Asks -> Decisions \cup {"NONE"}] /\ answer'[current] = d
        /\ \A i \in Asks : i # current => answer'[i] = answer[i]
    BY <1>0, <2>1, <2>2, <2>3 DEF AgentFits
  <2>7. TablesFit' /\ AgentFits' /\ ContextFits' /\ RunnerFits' /\ MessagesFit'
    BY <1>0, <1>1, <1>2, <2>1, <2>5 DEF TablesFit, AgentFits, ContextFits,
       RunnerFits, MessagesFit
  <2>8. ~Satisfied
    BY <1>0, <2>2, Bounds DEF Satisfied, AgentFits, RunnerFits
  <2>9. PipeFits'
    <3>1. Stopped => Stopped'
      BY <1>1, <2>2, <2>5 DEF Stopped
    <3> QED
      BY <1>0, <1>1, <1>2, <2>1, <2>8, <3>1 DEF PipeFits
  <2>10. AsksFit'
    <3>1. \A i \in Asks : i > current => i # current
      BY <2>2, Bounds
    <3> QED
      BY <1>0, <1>1, <1>2, <2>1, <2>2, <2>3, <2>5, <3>1 DEF AsksFit
  <2>11. TurnFits' /\ CausesFit'
    BY <1>0, <1>1, <2>1 DEF TurnFits, CausesFit
  <2>12. AgentIsToldTheDecision'
    BY <1>0, <1>1, <2>3, <2>5 DEF Promises, AgentIsToldTheDecision
  <2>13. OpenRequestIsAwaited' /\ EndedRunAsksNothing' /\ StoppedRunFails' /\ CancelledForAReason'
    <3>1. OpenRequestIsAwaited'
      BY <1>0, <1>1, <1>2, <2>1, <2>2 DEF Promises, OpenRequestIsAwaited
    <3> QED
      BY <1>0, <1>1, <2>1, <3>1 DEF Promises, EndedRunAsksNothing, StoppedRunFails,
         CancelledForAReason
  <2> QED
    BY <2>7, <2>9, <2>10, <2>11, <2>12, <2>13 DEF IInv, Promises
<1> QED
  BY <1>3, <1>4

\* Its turn is interrupted, because somebody cancelled the run.
LEMMA InterruptKeeps ==
    ASSUME IInv, Interrupt
    PROVE  IInv'
<1>0. /\ TablesFit /\ AgentFits /\ MessagesFit /\ RunnerFits /\ ContextFits
      /\ PipeFits /\ AsksFit /\ TurnFits /\ CausesFit /\ Promises
  BY DEF IInv
<1>1. /\ pc = "INTERRUPT"
      /\ UNCHANGED <<status, cancel, request, lease, agent, answered, asked, answer, pipe>>
      /\ UNCHANGED causes
  BY DEF Interrupt, tables
<1>2. UNCHANGED current
  BY DEF Interrupt, Goes, Fails
<1>3. CASE Fails("CLOSE") /\ UNCHANGED interrupted
  <2>1. MessagesFit' /\ PipeFits'
    BY <1>0, <1>1, <1>2, <1>3, PipeKept DEF MessagesFit
  <2> QED
    BY <1>0, <1>1, <1>3, <2>1, FailsKeeps DEF TablesFit
<1>4. CASE ~(Fails("CLOSE") /\ UNCHANGED interrupted)
  <2>1. /\ interrupted' = TRUE /\ pc' = "TURN" /\ UNCHANGED <<step, outcome, failed>>
        /\ UNCHANGED <<context, unleased, checkFailed, storeFails>>
    BY <1>1, <1>4 DEF Interrupt, Goes, causes
  <2>2. /\ current \in Asks /\ answer[current] = "CANCEL_RUN"
    BY <1>0, <1>1, Bounds DEF AsksFit, RunnerFits
  <2>3. request[current] = [state |-> "RESOLVED", decision |-> "CANCEL_RUN"]
    BY <1>0, <2>2 DEF Promises, AgentIsToldTheDecision
  <2>4. request[current].decision = "CANCEL_RUN"
    BY <2>3
  <2>5. cancel \/ status # "RUNNING"
    BY <1>0, <2>2, <2>4 DEF CausesFit
  <2>6. TablesFit' /\ AgentFits' /\ ContextFits' /\ RunnerFits' /\ MessagesFit'
    BY <1>0, <1>1, <1>2, <2>1 DEF TablesFit, AgentFits, ContextFits, RunnerFits, MessagesFit
  <2>7. PipeFits'
    <3>1. Stopped' /\ (Satisfied' <=> Satisfied)
      BY <1>1, <2>1 DEF Stopped, Satisfied, Unstopped
    <3> QED
      BY <1>0, <1>1, <1>2, <3>1 DEF PipeFits
  <2>8. AsksFit' /\ TurnFits' /\ CausesFit'
    BY <1>0, <1>1, <1>2, <2>1, <2>5 DEF AsksFit, TurnFits, CausesFit, Unstopped
  <2>9. Promises'
    BY <1>0, <1>1, <1>2, <2>1 DEF Promises, AgentIsToldTheDecision, OpenRequestIsAwaited,
       EndedRunAsksNothing, StoppedRunFails, CancelledForAReason
  <2> QED
    BY <2>6, <2>7, <2>8, <2>9 DEF IInv
<1> QED
  BY <1>3, <1>4

\* The agent is made to leave.
LEMMA CloseKeeps ==
    ASSUME IInv, Close
    PROVE  IInv'
<1>0. MessagesFit /\ PipeFits /\ RunnerFits /\ AsksFit /\ TurnFits /\ TablesFit
  BY DEF IInv
<1>1. /\ pc = "CLOSE" /\ agent' = "DEAD" /\ lease' \in {lease, "RELEASED", "ABANDONED"}
      /\ UNCHANGED <<status, cancel, request, answered, asked, answer, interrupted, pipe>>
      /\ UNCHANGED causes
      /\ Goes("RELEASE") \/ Fails("RELEASE")
  BY DEF Close
<1>2. UNCHANGED current
  BY <1>1 DEF Goes, Fails
<1>3. MessagesFit' /\ PipeFits'
  BY <1>0, <1>1, <1>2, PipeKept DEF MessagesFit
<1>4. CASE Fails("RELEASE")
  BY <1>0, <1>1, <1>3, <1>4, FailsKeeps DEF TablesFit
<1>5. CASE Goes("RELEASE")
  <2>1. pc' = "RELEASE" /\ UNCHANGED <<step, outcome, failed>>
    BY <1>5 DEF Goes
  <2>2. RunnerFits' /\ AsksFit' /\ TurnFits'
    BY <1>0, <1>1, <1>2, <2>1 DEF RunnerFits, AsksFit, TurnFits, Unstopped
  <2> QED
    BY <1>0, <1>1, <1>2, <1>3, <2>1, <2>2, RunnerKeeps DEF TablesFit
<1> QED
  BY <1>1, <1>4, <1>5

\* The causes decide over the outcome.
LEMMA ClassifyKeeps ==
    ASSUME IInv, Classify
    PROVE  IInv'
<1>0. MessagesFit /\ PipeFits /\ RunnerFits /\ AsksFit /\ TurnFits /\ TablesFit
  BY DEF IInv
<1>1. /\ pc = "RELEASE" /\ pc' = "REPORT" /\ UNCHANGED <<step, current, failed>>
      /\ UNCHANGED <<status, cancel, request, lease, agent, answered, asked, answer, interrupted, pipe>>
      /\ UNCHANGED causes
      /\ \/ outcome' \in {"FAILED", "TIMED_OUT", outcome}
         \/ outcome' = "CANCELLED" /\ context = "CANCELLED" /\ ~unleased
  BY DEF Classify, tables, agency
<1>2. MessagesFit' /\ PipeFits'
  BY <1>0, <1>1, PipeKept DEF MessagesFit
<1>3. RunnerFits'
  BY <1>0, <1>1 DEF RunnerFits, Outcomes
<1>4. AsksFit' /\ TurnFits'
  BY <1>0, <1>1 DEF AsksFit, TurnFits, Unstopped
<1> QED
  BY <1>0, <1>1, <1>2, <1>3, <1>4, RunnerKeeps DEF TablesFit

\* A success leaves no request open.
LEMMA ReportKeeps ==
    ASSUME IInv, Report
    PROVE  IInv'
<1>0. /\ TablesFit /\ AgentFits /\ MessagesFit /\ RunnerFits /\ ContextFits
      /\ PipeFits /\ AsksFit /\ TurnFits /\ CausesFit /\ Promises
  BY DEF IInv
<1>1. /\ pc = "REPORT" /\ pc' = "DONE" /\ UNCHANGED <<step, current, outcome, failed>>
      /\ UNCHANGED <<cancel, lease, agent, answered, asked, answer, interrupted, pipe>>
      /\ UNCHANGED <<context, unleased, checkFailed, storeFails>>
  BY DEF Report, Goes, agency, causes
<1>2. \/ status = "RUNNING" /\ status' = outcome /\ request' = Closed(request)
      \/ status = "RUNNING" /\ status' = "FAILED" /\ UNCHANGED request
      \/ status # "RUNNING" /\ UNCHANGED <<status, request>>
  BY DEF Report
<1>3. AgentFits' /\ MessagesFit' /\ RunnerFits' /\ ContextFits' /\ PipeFits'
  BY <1>0, <1>1, PipeKept DEF AgentFits, MessagesFit, RunnerFits, ContextFits
<1>4. /\ request' \in [Asks -> Row]
      /\ \A i \in Asks : /\ request'[i].decision = request[i].decision
                         /\ request'[i] = request[i] \/ (request[i].state = "OPEN" /\ request'[i].state = "CLEARED")
      /\ request' = Closed(request) => \A i \in Asks : request'[i].state # "OPEN"
  <2>1. request \in [Asks -> Row]
    BY <1>0 DEF TablesFit
  <2>2. \A i \in Asks : request[i].state # "OPEN" => Closed(request)[i] = request[i]
    BY DEF Closed
  <2> QED
    BY <1>2, <2>1, <2>2, ClosedShape
<1>5. outcome # "NONE"
  BY <1>0, <1>1 DEF TurnFits
<1>6. TablesFit'
  BY <1>0, <1>1, <1>2, <1>4, <1>5 DEF TablesFit, RunnerFits, Outcomes
<1>7. AsksFit'
  BY <1>0, <1>1, <1>4 DEF AsksFit
<1>8. TurnFits'
  BY <1>0, <1>1, <1>2, <1>4 DEF TurnFits, Unstopped
<1>9. CausesFit'
  BY <1>0, <1>1, <1>2, <1>4, <1>5 DEF CausesFit
<1>10. AgentIsToldTheDecision'
  <2>1. ASSUME NEW i \in Asks, answer[i] # "NONE"
        PROVE  request'[i] = [state |-> "RESOLVED", decision |-> answer[i]]
    <3>1. request[i] = [state |-> "RESOLVED", decision |-> answer[i]]
      BY <1>0, <2>1 DEF Promises, AgentIsToldTheDecision
    <3>2. request[i].state = "RESOLVED"
      BY <3>1
    <3> QED
      BY <1>4, <3>1, <3>2
  <2> QED
    BY <1>1, <2>1 DEF AgentIsToldTheDecision
<1>11. ~storeFails => \A i \in Asks : request'[i].state # "OPEN"
  BY <1>0, <1>1, <1>4 DEF Promises, OpenRequestIsAwaited
<1>12. OpenRequestIsAwaited' /\ EndedRunAsksNothing'
  BY <1>1, <1>11 DEF OpenRequestIsAwaited, EndedRunAsksNothing
<1>13. StoppedRunFails'
  <2>1. SUFFICES ASSUME status' = "SUCCEEDED", NEW i \in Asks \ Permissions,
                        request[i].decision = "CANCEL_RUN"
                 PROVE  FALSE
    BY <1>4 DEF StoppedRunFails
  <2>2. outcome = "SUCCEEDED" /\ Unstopped /\ ~failed
    BY <1>0, <1>1, <1>2, <2>1 DEF TurnFits
  <2>3. request[i].state = "RESOLVED"
    BY <1>0, <2>1 DEF AsksFit
  <2>4. answer[i] # "NONE"
    BY <1>0, <1>1, <2>2, <2>3 DEF AsksFit
  <2>5. request[i] = [state |-> "RESOLVED", decision |-> answer[i]]
    BY <1>0, <2>4 DEF Promises, AgentIsToldTheDecision
  <2>6. answer[i] = "CANCEL_RUN"
    BY <2>1, <2>5
  <2> QED
    BY <2>2, <2>6 DEF Unstopped
<1>14. CancelledForAReason'
  BY <1>0, <1>1, <1>2 DEF Promises, CancelledForAReason, CausesFit
<1> QED
  BY <1>3, <1>6, <1>7, <1>8, <1>9, <1>10, <1>12, <1>13, <1>14 DEF IInv, Promises

\* The runner dies where it is.
LEMMA CrashKeeps ==
    ASSUME IInv, CrashRunner
    PROVE  IInv'
<1>0. MessagesFit /\ PipeFits /\ RunnerFits /\ AsksFit /\ TurnFits /\ TablesFit
  BY DEF IInv
<1>1. /\ pc \notin {"DONE", "GONE"} /\ pc' = "GONE" /\ UNCHANGED <<step, current, outcome, failed>>
      /\ UNCHANGED <<status, cancel, request, lease, agent, answered, asked, answer, interrupted, pipe>>
      /\ UNCHANGED causes
  BY DEF CrashRunner, Goes, tables, agency
<1>2. MessagesFit' /\ PipeFits'
  BY <1>0, <1>1, PipeKept DEF MessagesFit
<1>3. RunnerFits' /\ AsksFit' /\ TurnFits'
  BY <1>0, <1>1 DEF RunnerFits, AsksFit, TurnFits, Unstopped
<1> QED
  BY <1>0, <1>1, <1>2, <1>3, RunnerKeeps DEF TablesFit

-----------------------------------------------------------------------------
(* The theorems about the turn.                                            *)

\* A turn that has not begun.
LEMMA InitIInv ==
    ASSUME Init
    PROVE  IInv
<1>1. /\ status = "RUNNING" /\ cancel = FALSE /\ lease = "NONE"
      /\ request = [i \in Asks |-> NoAsk]
      /\ agent = "ALIVE" /\ answered = 0 /\ asked = 0
      /\ answer = [i \in Asks |-> "NONE"] /\ interrupted = FALSE
      /\ pipe = <<>>
      /\ pc = "WRITE" /\ step = 1 /\ current = 0
      /\ context = "LIVE" /\ unleased = FALSE /\ checkFailed = FALSE /\ storeFails \in BOOLEAN
      /\ outcome = "NONE" /\ failed = FALSE
  BY DEF Init
<1>3. NoAsk \in Row /\ NoAsk.state = "NONE" /\ NoAsk.decision = "NONE"
  BY DEF NoAsk, Row
<1>4. TablesFit /\ AgentFits /\ RunnerFits /\ ContextFits
  <2>1. TablesFit
    BY <1>1, <1>3 DEF TablesFit
  <2>2. AgentFits
    <3>1. answer \in [Asks -> Decisions \cup {"NONE"}]
      BY <1>1
    <3>2. answered \in 0..3 /\ asked \in 0..MaxAsks
      BY <1>1, Bounds
    <3> QED
      BY <1>1, <3>1, <3>2 DEF AgentFits
  <2>3. RunnerFits
    <3>1. step \in 1..3 /\ current \in 0..MaxAsks
      BY <1>1, Bounds
    <3> QED
      BY <1>1, <3>1 DEF RunnerFits
  <2>4. ContextFits
    BY <1>1 DEF ContextFits
  <2> QED
    BY <2>1, <2>2, <2>3, <2>4
<1>5. MessagesFit /\ PipeFits
  BY <1>1, Bounds DEF MessagesFit, PipeFits
<1>6. AsksFit /\ TurnFits /\ CausesFit
  BY <1>1, <1>3 DEF AsksFit, TurnFits, CausesFit
<1>7. Promises
  BY <1>1, <1>3 DEF Promises, AgentIsToldTheDecision, OpenRequestIsAwaited,
     EndedRunAsksNothing,
                    StoppedRunFails, CancelledForAReason
<1> QED
  BY <1>4, <1>5, <1>6, <1>7 DEF IInv

\* Each step keeps the invariant.
LEMMA NextIInv ==
    ASSUME IInv, [Next]_vars
    PROVE  IInv'
<1>1. CASE Turn
  BY <1>1, WriteKeeps, HandshakeKeeps, InterruptKeeps, BreaksKeeps, EventKeeps, CompletesKeeps, ApprovalKeeps,
     CreateKeeps, PollKeeps,
     ClearKeeps, ReplyKeeps, CloseKeeps, ClassifyKeeps, ReportKeeps DEF Turn
<1>2. CASE UNCHANGED vars
  <2>1. UNCHANGED <<tables, runner, causes, agency, pipe>>
    BY <1>2 DEF vars
  <2>2. UNCHANGED <<agent, answered, asked, answer, interrupted, current>>
    BY <2>1 DEF agency, runner
  <2>3. AgentFits /\ MessagesFit /\ PipeFits
    BY DEF IInv
  <2>4. AgentFits' /\ MessagesFit' /\ PipeFits' /\ asked' >= asked
    BY <2>1, <2>2, <2>3, PipeKept, Bounds DEF AgentFits, MessagesFit
  <2> QED
    BY <2>1, <2>2, <2>4, AgentStepKeeps
<1> QED
  BY <1>1, <1>2, AgentKeeps, ContextKeeps, HumanKeeps, RecoverKeeps, CrashKeeps
     DEF Next, AgentStep, ContextStep, HumanStep

\* The inductive invariant holds in every reachable state.
THEOREM TurnInvariance == Spec => []IInv
<1>1. Init => IInv
  BY InitIInv
<1>2. IInv /\ [Next]_vars => IInv'
  BY NextIInv
<1> QED
  BY <1>1, <1>2, PTL DEF Spec

\* An end of a pipe is open or not, whatever happens.
LEMMA EndsKeep ==
    ASSUME EndsFit, [Next]_vars
    PROVE  EndsFit'
<1>1. CASE StopsReading \/ LeavesHeir
  BY <1>1 DEF StopsReading, LeavesHeir, EndsFit
<1>2. CASE ~(StopsReading \/ LeavesHeir)
  <2>1. UNCHANGED <<jammed, heir>>
    <3>1. CASE AgentStep
      BY <1>2, <3>1 DEF AgentStep, AgentAnswers, AgentAsks, AgentWorks, AgentEndsTurn, AgentDies,
         OutputIsLost, agency
    <3>2. CASE ContextStep \/ HumanStep \/ RecoverLost \/ CrashRunner
      BY <3>2 DEF ContextStep, MonitorSeesCancel, MonitorFails, HeartbeatStops, Expires, Cancels,
         HumanStep, ResolveApprovalRequest, RequestCancel, RecoverLost, CrashRunner, agency
    <3>3. CASE Turn
      BY <3>3 DEF Turn, WriteRequest, Handshake, HandshakeBreaks, TurnBreaks, HandleMCPEvent,
         TurnCompletes, HandleApproval, CreateApprovalRequest, PollDecision, WaitEnds,
         ClearApprovalRequest, Reply, Interrupt, Close, Classify, Report, agency
    <3>4. CASE UNCHANGED vars
      BY <3>4 DEF vars, agency
    <3> QED
      BY <3>1, <3>2, <3>3, <3>4 DEF Next, AgentStep, ContextStep, HumanStep
  <2> QED
    BY <2>1 DEF EndsFit
<1> QED
  BY <1>1, <1>2

\* What the agent is told is what a human decided about that very request, nobody is
\* asked about what nobody waits for, and a run ends stopped or cancelled only because
\* somebody or something did that.
THEOREM TurnIsSafe == Spec => []TurnInvariant
<1>1. IInv /\ EndsFit => TurnInvariant
  BY Types DEF IInv, TurnInvariant, Promises
<1>2. Init => EndsFit
  BY DEF Init, EndsFit
<1> QED
  BY <1>1, <1>2, TurnInvariance, EndsKeep, PTL DEF Spec

-----------------------------------------------------------------------------
(* A page and its stream.                                                  *)

\* The page is no further than the run, and its source no further than the page.
CursorsFit == cursor <= count /\ source.url <= cursor

\* Only an open source has a handler, or something on the wire.
ConnectionFits ==
    /\ source.state # "OPEN" => conn.at = "CLOSED" /\ wire = <<>>
    /\ conn.at # "CLOSED" =>
         /\ conn.after <= count
         /\ IF wire = <<>> THEN conn.after <= cursor ELSE wire[Len(wire)] = conn.after

\* What is on the wire is no further than the run.
WireFits == Page!NoGapOnTheWire /\ \A i \in 1..Len(wire) : wire[i] <= count

\* The inductive invariant of page and stream.
StreamInv == Page!TypeOK /\ CursorsFit /\ ConnectionFits /\ WireFits

\* A handler, and a source.
Conn == [at : {"CLOSED", "EMIT", "CHECK"}, after : 0..MaxEvents, emitted : BOOLEAN]
Source == [state : {"CLOSED", "CONNECTING", "OPEN", "REFUSED"}, url : 0..MaxEvents]

\* What the proofs use of the bounds.
LEMMA StreamBounds == MaxEvents \in Nat \ {0} /\ Limit \in Nat \ {0} /\ MaxBreaks \in Nat
BY AgentConstants DEF Page!RunStreamAssumption

\* The elements of a sequence.
LEMMA SequenceIs ==
    ASSUME NEW S, NEW s \in Seq(S)
    PROVE  /\ Len(s) \in Nat /\ (s = <<>> <=> Len(s) = 0)
           /\ \A i \in 1..Len(s) : s[i] \in S
OBVIOUS

\* All but the first element.
LEMMA TailIs ==
    ASSUME NEW S, NEW s \in Seq(S), s # <<>>
    PROVE  /\ Len(s) > 0 /\ Head(s) = s[1] /\ s[1] \in S
           /\ Tail(s) \in Seq(S) /\ Len(Tail(s)) = Len(s) - 1
           /\ \A i \in 1..(Len(s) - 1) : Tail(s)[i] = s[i + 1]
OBVIOUS

\* Two sequences in a row.
LEMMA ConcatIs ==
    ASSUME NEW S, NEW s \in Seq(S), NEW t \in Seq(S)
    PROVE  /\ s \o t \in Seq(S) /\ Len(s \o t) = Len(s) + Len(t)
           /\ \A i \in 1..Len(s) + Len(t) : (s \o t)[i] = IF i <= Len(s) THEN s[i] ELSE t[i - Len(s)]
OBVIOUS

\* What the handler sends.
LEMMA SentIs ==
    ASSUME NEW n \in Nat, NEW k \in Nat, n + k <= MaxEvents
    PROVE  /\ [i \in 1..n |-> k + i] \in Seq(1..MaxEvents) /\ Len([i \in 1..n |-> k + i]) = n
           /\ \A j \in 1..n : [i \in 1..n |-> k + i][j] = k + j
<1>1. \A i \in 1..n : k + i \in 1..MaxEvents
  BY StreamBounds
<1>2. [i \in 1..n |-> k + i] \in [1..n -> 1..MaxEvents]
  BY <1>1
<1> QED
  BY <1>2

\* No handler.
LEMMA NoConnIsConn == Page!NoConn \in Conn /\ Page!NoConn.at = "CLOSED"
BY StreamBounds DEF Page!NoConn, Conn

\* Nobody sends and nobody has received: what is left of the wire fits.
LEMMA Closes ==
    ASSUME StreamInv, conn' = Page!NoConn, wire' = <<>>, source' \in Source, source'.url <= cursor',
           count' \in 0..MaxEvents, ended' \in BOOLEAN, cursor' \in 0..count', breaks' \in 0..MaxBreaks,
           shown' \in {"LOADING", "ACTIVE", "TERMINAL", "ERROR"}, load' \in {"NONE", "ASKED", "ACTIVE", "TERMINAL"}
    PROVE  StreamInv'
<1>1. Page!TypeOK'
  BY NoConnIsConn, StreamBounds DEF Page!TypeOK, Source, Conn
<1>2. CursorsFit'
  BY StreamBounds DEF CursorsFit
<1>3. ConnectionFits' /\ WireFits'
  BY NoConnIsConn DEF ConnectionFits, WireFits, Page!NoGapOnTheWire
<1> QED
  BY <1>1, <1>2, <1>3 DEF StreamInv

\* The connection rests while the run, the list or the page around it moves.
LEMMA Rests ==
    ASSUME StreamInv, UNCHANGED <<conn, wire, source, cursor>>,
           count' \in 0..MaxEvents, count' >= count, ended' \in BOOLEAN, breaks' \in 0..MaxBreaks,
           shown' \in {"LOADING", "ACTIVE", "TERMINAL", "ERROR"}, load' \in {"NONE", "ASKED", "ACTIVE", "TERMINAL"}
    PROVE  StreamInv'
<1>0. /\ count \in Nat /\ cursor \in Nat /\ conn.after \in Nat /\ wire \in Seq(1..MaxEvents)
      /\ Len(wire) \in Nat /\ \A i \in 1..Len(wire) : wire[i] \in Nat
  BY StreamBounds DEF StreamInv, Page!TypeOK
<1>1. Page!TypeOK'
  BY DEF StreamInv, Page!TypeOK
<1>2. CursorsFit'
  BY <1>0, StreamBounds DEF StreamInv, CursorsFit
<1>3. ConnectionFits'
  BY <1>0, StreamBounds DEF StreamInv, ConnectionFits
<1>4. WireFits'
  BY <1>0, StreamBounds DEF StreamInv, WireFits, Page!NoGapOnTheWire
<1> QED
  BY <1>1, <1>2, <1>3, <1>4 DEF StreamInv

\* The run goes on, or the list is asked for.
LEMMA RunKeepsStream ==
    ASSUME StreamInv, Page!AppendRunEvent \/ Page!ReadList \/ Page!ClickReload \/ UNCHANGED Page!vars
    PROVE  StreamInv'
<1>1. UNCHANGED <<conn, wire, source, cursor>>
  BY DEF Page!AppendRunEvent, Page!ReadList, Page!ClickReload, Page!vars, Page!page,
     Page!dbVars
<1>2. count' \in 0..MaxEvents /\ count' >= count /\ ended' \in BOOLEAN /\ breaks' \in 0..MaxBreaks
  <2>1. count \in 0..MaxEvents /\ ended \in BOOLEAN /\ breaks \in 0..MaxBreaks
    BY DEF StreamInv, Page!TypeOK
  <2>2. UNCHANGED breaks /\ (UNCHANGED <<count, ended>> \/ (count < MaxEvents /\ count' = count + 1 /\ ended' \in {FALSE, TRUE}))
    BY DEF Page!AppendRunEvent, Page!ReadList, Page!ClickReload, Page!vars, Page!dbVars
  <2>3. CASE UNCHANGED <<count, ended>>
    BY <2>1, <2>2, <2>3, StreamBounds
  <2>4. CASE count < MaxEvents /\ count' = count + 1 /\ ended' \in {FALSE, TRUE}
    <3>1. count' \in 0..MaxEvents /\ count' >= count
      BY <2>1, <2>4, StreamBounds
    <3> QED
      BY <2>1, <2>2, <2>4, <3>1
  <2> QED
    BY <2>2, <2>3, <2>4
<1>3. shown' \in {"LOADING", "ACTIVE", "TERMINAL", "ERROR"} /\ load' \in {"NONE", "ASKED", "ACTIVE", "TERMINAL"}
  BY DEF StreamInv, Page!TypeOK, Page!AppendRunEvent, Page!ReadList, Page!ClickReload,
     Page!vars, Page!page, Page!dbVars
<1> QED
  BY <1>1, <1>2, <1>3, Rests

\* The end of what is sent is the handler's cursor.
LEMMA EmitKeeps ==
    ASSUME StreamInv, Page!EmitRunEvents
    PROVE  StreamInv'
<1> DEFINE upTo == IF count < conn.after + Limit THEN count ELSE conn.after + Limit
           n == upTo - conn.after
           sent == [i \in 1..n |-> conn.after + i]
<1>0. Page!TypeOK /\ CursorsFit /\ ConnectionFits /\ WireFits /\ Page!NoGapOnTheWire
  BY DEF StreamInv, WireFits
<1>1. /\ conn.at = "EMIT" /\ wire' = wire \o sent
      /\ conn' = [at |-> "CHECK", after |-> upTo, emitted |-> upTo > conn.after]
      /\ UNCHANGED <<count, ended, source, cursor, shown, load, breaks>>
  BY DEF Page!EmitRunEvents, Page!dbVars, Page!page
<1>2. /\ conn.after \in 0..MaxEvents /\ count \in 0..MaxEvents /\ cursor \in 0..MaxEvents
      /\ conn.after <= count /\ source.state = "OPEN"
  BY <1>0, <1>1 DEF Page!TypeOK, ConnectionFits
<1>3. /\ upTo \in 0..MaxEvents /\ upTo <= count /\ n \in Nat /\ upTo = conn.after + n
      /\ (n = 0 => upTo = conn.after)
  BY <1>2, StreamBounds
<1>4. wire \in Seq(1..MaxEvents) /\ Len(wire) \in Nat
  BY <1>0 DEF Page!TypeOK
<1>5. sent \in Seq(1..MaxEvents) /\ Len(sent) = n /\ \A i \in 1..n : sent[i] = conn.after + i
  <2>1. conn.after \in Nat /\ n + conn.after <= MaxEvents
    BY <1>2, <1>3, StreamBounds
  <2> QED
    BY <2>1, <1>3, SentIs
<1> HIDE DEF upTo, n, sent
<1>6. /\ wire' \in Seq(1..MaxEvents) /\ Len(wire') = Len(wire) + n
      /\ \A i \in 1..Len(wire) + n :
           wire'[i] = IF i <= Len(wire) THEN wire[i] ELSE conn.after + (i - Len(wire))
  <2>1. wire' \in Seq(1..MaxEvents) /\ Len(wire') = Len(wire) + Len(sent)
    BY <1>1, <1>4, <1>5, ConcatIs
  <2>2. \A i \in 1..Len(wire) + Len(sent) :
          wire'[i] = IF i <= Len(wire) THEN wire[i] ELSE sent[i - Len(wire)]
    BY <1>1, <1>4, <1>5, ConcatIs
  <2>3. \A i \in 1..Len(wire) + n : i > Len(wire) => i - Len(wire) \in 1..n
    BY <1>3, <1>4
  <2> QED
    BY <2>1, <2>2, <2>3, <1>5
<1>8. (wire = <<>> <=> Len(wire) = 0) /\ (wire' = <<>> <=> Len(wire') = 0)
  BY <1>4, <1>6, SequenceIs
<1>a. Page!TypeOK'
  <2>1. conn' \in Conn
    BY <1>1, <1>3 DEF Conn
  <2> QED
    BY <1>0, <1>1, <1>6, <2>1 DEF Page!TypeOK, Conn
<1>b. CursorsFit'
  BY <1>0, <1>1 DEF CursorsFit
<1>c. ConnectionFits'
  <2>1. conn'.after = upTo /\ conn'.at = "CHECK"
    BY <1>1
  <2>2. CASE n = 0
    <3>1. wire' = wire
      BY <1>5, <1>1, <1>4, <2>2
    <3> QED
      BY <2>1, <2>2, <3>1, <1>0, <1>1, <1>2, <1>3 DEF ConnectionFits
  <2>3. CASE n # 0
    <3>1. Len(wire') # 0 /\ Len(wire') > Len(wire) /\ Len(wire') \in 1..Len(wire) + n
      BY <2>3, <1>3, <1>4, <1>6
    <3>2. wire'[Len(wire')] = conn.after + n
      BY <3>1, <1>2, <1>3, <1>4, <1>6
    <3> QED
      BY <2>1, <3>1, <3>2, <1>0, <1>1, <1>2, <1>3, <1>8 DEF ConnectionFits
  <2> QED
    BY <2>2, <2>3
<1>d. WireFits'
  <2>1. ASSUME NEW i \in 1..Len(wire')
        PROVE  wire'[i] <= count'
    BY <1>0, <1>1, <1>2, <1>3, <1>4, <1>6 DEF WireFits
  <2>2. ASSUME wire' # <<>>
        PROVE  Head(wire') <= cursor' + 1
    <3>1. Head(wire') = wire'[1] /\ 1 \in 1..Len(wire) + n
      BY <2>2, <1>3, <1>4, <1>6, <1>8
    <3>2. CASE Len(wire) = 0
      <4>1. wire'[1] = conn.after + 1
        BY <3>1, <3>2, <1>2, <1>6
      <4>2. conn.after <= cursor
        BY <3>2, <1>0, <1>1, <1>8 DEF ConnectionFits
      <4>3. Head(wire') = conn.after + 1 /\ cursor' = cursor
        BY <3>1, <4>1, <1>1
      <4>4. conn.after \in Nat /\ cursor \in Nat
        BY <1>2, StreamBounds
      <4> QED
        BY <4>2, <4>3, <4>4
    <3>3. CASE Len(wire) # 0
      <4>1. wire'[1] = wire[1] /\ Head(wire) = wire[1] /\ wire # <<>>
        BY <3>1, <3>3, <1>4, <1>6
      <4> QED
        BY <4>1, <3>1, <1>0, <1>1 DEF Page!NoGapOnTheWire
    <3> QED
      BY <3>2, <3>3
  <2>3. ASSUME NEW i \in 1..(Len(wire') - 1)
        PROVE  wire'[i + 1] = wire'[i] + 1
    <3>1. i \in Nat /\ i \in 1..Len(wire) + n /\ i + 1 \in 1..Len(wire) + n
      BY <1>3, <1>4, <1>6
    <3>2. CASE i < Len(wire)
      <4>1. wire'[i] = wire[i] /\ wire'[i + 1] = wire[i + 1] /\ i \in 1..(Len(wire) - 1) /\ wire # <<>>
        BY <3>1, <3>2, <1>4, <1>6
      <4> QED
        BY <4>1, <1>0 DEF Page!NoGapOnTheWire
    <3>3. CASE i = Len(wire)
      <4>1. wire'[i] = wire[i] /\ wire'[i + 1] = conn.after + 1 /\ wire # <<>>
        BY <3>1, <3>3, <1>2, <1>4, <1>6
      <4> QED
        BY <4>1, <3>3, <1>0, <1>1 DEF ConnectionFits
    <3>4. CASE i > Len(wire)
      <4>1. wire'[i] = conn.after + (i - Len(wire)) /\ wire'[i + 1] = conn.after + (i + 1 - Len(wire))
        BY <3>1, <3>4, <1>4, <1>6
      <4> QED
        BY <4>1, <3>1, <1>2, <1>4
    <3> QED
      BY <3>1, <3>2, <3>3, <3>4, <1>4
  <2> QED
    BY <2>1, <2>2, <2>3 DEF WireFits, Page!NoGapOnTheWire
<1> QED
  BY <1>a, <1>b, <1>c, <1>d DEF StreamInv

\* The handler looks at the status.
LEMMA CheckKeeps ==
    ASSUME StreamInv, Page!Check
    PROVE  StreamInv'
<1>0. Page!TypeOK /\ CursorsFit /\ ConnectionFits /\ WireFits
  BY DEF StreamInv
<1>1. conn.at = "CHECK" /\ UNCHANGED <<count, ended, wire, source, cursor, shown, load, breaks>>
  BY DEF Page!Check, Page!dbVars, Page!page
<1>2. /\ conn' \in Conn
      /\ conn'.at = "CLOSED" \/ (conn'.at = "EMIT" /\ conn'.after = conn.after)
  BY <1>0, NoConnIsConn DEF Page!Check, Page!TypeOK, Conn
<1>3. Page!TypeOK'
  BY <1>0, <1>1, <1>2 DEF Page!TypeOK, Conn
<1>4. CursorsFit' /\ WireFits'
  BY <1>0, <1>1 DEF CursorsFit, WireFits, Page!NoGapOnTheWire
<1>5. ConnectionFits'
  BY <1>0, <1>1, <1>2 DEF ConnectionFits
<1> QED
  BY <1>3, <1>4, <1>5 DEF StreamInv

\* The browser connects, at a cursor the page had.
LEMMA ConnectKeeps ==
    ASSUME StreamInv, Page!Connect
    PROVE  StreamInv'
<1>0. Page!TypeOK /\ CursorsFit /\ ConnectionFits /\ WireFits
  BY DEF StreamInv
<1>1. /\ source.state = "CONNECTING" /\ source' = [source EXCEPT !.state = "OPEN"]
      /\ conn' = [at |-> "EMIT", after |-> Page!RunEventCursor, emitted |-> FALSE]
      /\ UNCHANGED <<count, ended, wire, cursor, shown, load, breaks>>
  BY DEF Page!Connect, Page!dbVars
<1>2. wire = <<>>
  BY <1>0, <1>1 DEF ConnectionFits
<1>3. Page!RunEventCursor \in 0..MaxEvents /\ Page!RunEventCursor <= cursor /\ cursor <= count
  BY <1>0, StreamBounds DEF Page!TypeOK, CursorsFit, Page!RunEventCursor
<1>4. source' \in Source /\ source'.state = "OPEN" /\ source'.url = source.url
  BY <1>0, <1>1 DEF Page!TypeOK, Source
<1>5. Page!TypeOK'
  BY <1>0, <1>1, <1>3, <1>4 DEF Page!TypeOK, Source
<1>6. CursorsFit' /\ WireFits'
  BY <1>0, <1>1, <1>4 DEF CursorsFit, WireFits, Page!NoGapOnTheWire
<1>7. ConnectionFits'
  <2>1. conn'.after = Page!RunEventCursor /\ wire' = <<>>
    BY <1>1, <1>2
  <2>2. Page!RunEventCursor <= count /\ Page!RunEventCursor \in Nat
    BY <1>0, <1>3, StreamBounds DEF Page!TypeOK
  <2> QED
    BY <1>1, <1>3, <1>4, <2>1, <2>2 DEF ConnectionFits
<1> QED
  BY <1>5, <1>6, <1>7 DEF StreamInv

\* A statement of the handler fails.
LEMMA StreamFailsKeeps ==
    ASSUME StreamInv, Page!StreamFails
    PROVE  StreamInv'
<1>0. Page!TypeOK /\ CursorsFit /\ ConnectionFits /\ WireFits
  BY DEF StreamInv
<1>1. /\ conn' = Page!NoConn /\ breaks < MaxBreaks /\ breaks' = breaks + 1
      /\ UNCHANGED <<count, ended, wire, source, cursor, shown, load>>
  BY DEF Page!StreamFails, Page!dbVars, Page!page
<1>2. breaks' \in 0..MaxBreaks
  BY <1>0, <1>1, StreamBounds DEF Page!TypeOK
<1>3. Page!TypeOK'
  BY <1>0, <1>1, <1>2, NoConnIsConn DEF Page!TypeOK, Conn
<1>4. CursorsFit' /\ WireFits'
  BY <1>0, <1>1 DEF CursorsFit, WireFits, Page!NoGapOnTheWire
<1>5. ConnectionFits'
  BY <1>0, <1>1, NoConnIsConn DEF ConnectionFits
<1> QED
  BY <1>3, <1>4, <1>5 DEF StreamInv

\* The server refuses the stream.
LEMMA RefusedKeeps ==
    ASSUME StreamInv, Page!ConnectRefused
    PROVE  StreamInv'
<1>0. Page!TypeOK /\ CursorsFit /\ ConnectionFits /\ WireFits
  BY DEF StreamInv
<1>1. /\ source.state = "CONNECTING" /\ conn.at = "CLOSED"
      /\ source' = [source EXCEPT !.state = "REFUSED"]
      /\ breaks < MaxBreaks /\ breaks' = breaks + 1
      /\ UNCHANGED <<count, ended, conn, wire, cursor, shown, load>>
  BY DEF Page!ConnectRefused, Page!dbVars
<1>2. breaks' \in 0..MaxBreaks /\ wire = <<>>
  BY <1>0, <1>1, StreamBounds DEF Page!TypeOK, ConnectionFits
<1>3. source' \in Source /\ source'.url = source.url
  BY <1>0, <1>1 DEF Page!TypeOK, Source
<1>4. Page!TypeOK'
  BY <1>0, <1>1, <1>2, <1>3 DEF Page!TypeOK, Source
<1>5. CursorsFit' /\ WireFits' /\ ConnectionFits'
  BY <1>0, <1>1, <1>2, <1>3 DEF CursorsFit, WireFits, Page!NoGapOnTheWire, ConnectionFits
<1> QED
  BY <1>4, <1>5 DEF StreamInv

\* The browser notices the end of a stream.
LEMMA NoticeKeeps ==
    ASSUME StreamInv, Page!NoticeEnd
    PROVE  StreamInv'
<1>0. Page!TypeOK /\ CursorsFit /\ ConnectionFits /\ WireFits
  BY DEF StreamInv
<1>1. /\ conn.at = "CLOSED" /\ wire = <<>> /\ source' = [source EXCEPT !.state = "CONNECTING"]
      /\ UNCHANGED <<count, ended, conn, wire, cursor, shown, load, breaks>>
  BY DEF Page!NoticeEnd, Page!dbVars
<1>4. source' \in Source /\ source'.url = source.url
  BY <1>0, <1>1 DEF Page!TypeOK, Source
<1>5. Page!TypeOK'
  BY <1>0, <1>1, <1>4 DEF Page!TypeOK, Source
<1>6. CursorsFit' /\ WireFits' /\ ConnectionFits'
  BY <1>0, <1>1, <1>4 DEF CursorsFit, WireFits, Page!NoGapOnTheWire, ConnectionFits
<1> QED
  BY <1>5, <1>6 DEF StreamInv

\* The connection breaks, or the page opens another source.
LEMMA BreakKeeps ==
    ASSUME StreamInv, Page!Break \/ Page!Reopen
    PROVE  StreamInv'
<1>0. Page!TypeOK /\ CursorsFit
  BY DEF StreamInv
<1>1. /\ conn' = Page!NoConn /\ wire' = <<>> /\ breaks < MaxBreaks /\ breaks' = breaks + 1
      /\ UNCHANGED <<count, ended, cursor, shown, load>>
      /\ \/ source' = [source EXCEPT !.state = "CONNECTING"]
         \/ source' = [state |-> "CONNECTING", url |-> cursor]
  BY DEF Page!Break, Page!Reopen, Page!dbVars
<1>2. source' \in Source /\ source'.url <= cursor /\ cursor \in 0..count /\ breaks' \in 0..MaxBreaks
  BY <1>0, <1>1, StreamBounds DEF Page!TypeOK, Source, CursorsFit
<1> QED
  BY <1>0, <1>1, <1>2, Closes DEF Page!TypeOK

\* The page opens, keeps or closes its source with the list.
LEMMA FollowKeeps ==
    ASSUME StreamInv, NEW s, Page!Follow(s), UNCHANGED <<count, ended, cursor>>, breaks' \in 0..MaxBreaks,
           shown' \in {"LOADING", "ACTIVE", "TERMINAL", "ERROR"}, load' \in {"NONE", "ASKED", "ACTIVE", "TERMINAL"}
    PROVE  StreamInv'
<1>0. Page!TypeOK /\ CursorsFit /\ ConnectionFits /\ WireFits
  BY DEF StreamInv
<1>1. CASE UNCHANGED <<source, conn, wire>>
  BY <1>0, <1>1, Rests DEF Page!TypeOK
<1>2. CASE source.state = "CLOSED" /\ source' = [state |-> "CONNECTING", url |-> cursor] /\ UNCHANGED <<conn, wire>>
  <2>1. conn'.at = "CLOSED" /\ wire' = <<>> /\ wire = <<>>
    BY <1>0, <1>2 DEF ConnectionFits
  <2>2. Page!TypeOK'
    BY <1>0, <1>2 DEF Page!TypeOK
  <2>3. CursorsFit'
    BY <1>0, <1>2, StreamBounds DEF CursorsFit, Page!TypeOK
  <2>4. ConnectionFits' /\ WireFits'
    BY <2>1 DEF ConnectionFits, WireFits, Page!NoGapOnTheWire
  <2> QED
    BY <2>2, <2>3, <2>4 DEF StreamInv
<1>3. CASE source' = [source EXCEPT !.state = "CLOSED"] /\ conn' = Page!NoConn /\ wire' = <<>>
  <2>1. source' \in Source /\ source'.url <= cursor /\ cursor \in 0..count
    BY <1>0, <1>3, StreamBounds DEF Page!TypeOK, Source, CursorsFit
  <2> QED
    BY <1>0, <1>3, <2>1, Closes DEF Page!TypeOK
<1> QED
  BY <1>1, <1>2, <1>3 DEF Page!Follow

\* The list arrives, or does not.
LEMMA ListKeeps ==
    ASSUME StreamInv, Page!ListArrives \/ Page!ListFails
    PROVE  StreamInv'
<1>0. Page!TypeOK
  BY DEF StreamInv
<1>1. /\ UNCHANGED <<count, ended, cursor>> /\ breaks' \in 0..MaxBreaks
      /\ shown' \in {"LOADING", "ACTIVE", "TERMINAL", "ERROR"} /\ load' = "NONE"
  BY <1>0, StreamBounds DEF Page!ListArrives, Page!ListFails, Page!dbVars, Page!TypeOK
<1>2. Page!Follow(load) \/ Page!Follow("ERROR")
  BY DEF Page!ListArrives, Page!ListFails
<1> QED
  BY <1>1, <1>2, FollowKeeps

\* What is received next, and what is left after it.
LEMMA FirstOfWire ==
    ASSUME StreamInv, wire # <<>>
    PROVE  /\ Head(wire) = wire[1] /\ wire[1] \in 1..MaxEvents /\ wire[1] <= cursor + 1 /\ wire[1] <= count
           /\ Tail(wire) \in Seq(1..MaxEvents) /\ Len(wire) \in Nat /\ Len(wire) > 0
           /\ Len(Tail(wire)) = Len(wire) - 1
           /\ \A i \in 1..(Len(wire) - 1) : Tail(wire)[i] = wire[i + 1] /\ wire[i + 1] = wire[i] + 1
<1>1. wire \in Seq(1..MaxEvents) /\ Page!NoGapOnTheWire /\ \A i \in 1..Len(wire) : wire[i] <= count
  BY DEF StreamInv, Page!TypeOK, WireFits
<1>2. Len(wire) \in Nat /\ Len(wire) > 0 /\ Head(wire) = wire[1] /\ wire[1] \in 1..MaxEvents
  BY <1>1, SequenceIs, TailIs
<1>3. /\ Tail(wire) \in Seq(1..MaxEvents) /\ Len(Tail(wire)) = Len(wire) - 1
      /\ \A i \in 1..(Len(wire) - 1) : Tail(wire)[i] = wire[i + 1]
  BY <1>1, TailIs
<1>4. 1 \in 1..Len(wire)
  BY <1>2
<1> QED
  BY <1>1, <1>2, <1>3, <1>4 DEF Page!NoGapOnTheWire

\* The page skips what it had, or goes on by one event.
LEMMA ReceiveKeeps ==
    ASSUME StreamInv, Page!Receive
    PROVE  StreamInv' /\ (cursor' = cursor \/ cursor' = cursor + 1)
<1> DEFINE e == Head(wire)
<1>0. Page!TypeOK /\ CursorsFit /\ ConnectionFits /\ WireFits
  BY DEF StreamInv
<1>1. source.state = "OPEN" /\ wire # <<>> /\ UNCHANGED <<count, ended, shown, breaks>>
  BY DEF Page!Receive, Page!dbVars
<1>2. /\ e = wire[1] /\ e \in 1..MaxEvents /\ e <= cursor + 1 /\ e <= count
      /\ Tail(wire) \in Seq(1..MaxEvents) /\ Len(wire) \in Nat /\ Len(wire) > 0
      /\ Len(Tail(wire)) = Len(wire) - 1
      /\ \A i \in 1..(Len(wire) - 1) : Tail(wire)[i] = wire[i + 1] /\ wire[i + 1] = wire[i] + 1
  BY <1>1, FirstOfWire
<1>3. cursor \in 0..MaxEvents /\ count \in 0..MaxEvents /\ source \in Source
      /\ \A i \in 1..Len(wire) : wire[i] \in 1..MaxEvents /\ wire[i] <= count
  BY <1>0, SequenceIs DEF Page!TypeOK, WireFits, Source
<1> HIDE DEF e
<1>4. ASSUME wire' = Tail(wire), UNCHANGED <<source, conn>>, cursor' \in 0..count, e <= cursor', cursor' >= cursor,
             load' \in {"NONE", "ASKED", "ACTIVE", "TERMINAL"}
      PROVE  StreamInv'
  <2>1. Page!TypeOK'
    <3>1. cursor' \in 0..MaxEvents
      BY <1>3, <1>4, StreamBounds
    <3>2. wire' \in Seq(1..MaxEvents)
      BY <1>2, <1>4
    <3> QED
      BY <3>1, <3>2, <1>0, <1>1, <1>4 DEF Page!TypeOK
  <2>2. CursorsFit'
    BY <1>0, <1>1, <1>3, <1>4 DEF CursorsFit, Source
  <2>3. wire' = <<>> <=> Len(wire) = 1
    <3>1. wire' = <<>> <=> Len(wire') = 0
      BY <1>2, <1>4, SequenceIs
    <3> QED
      BY <3>1, <1>2, <1>4
  <2>4. ASSUME wire' # <<>>
        PROVE  /\ Len(wire') \in 1..(Len(wire) - 1) /\ wire'[Len(wire')] = wire[Len(wire)]
               /\ Head(wire') = wire[2] /\ wire[2] = e + 1
    <3>1. Len(wire') = Len(wire) - 1 /\ Len(wire) > 1 /\ 1 \in 1..(Len(wire) - 1) /\ Head(wire') = wire'[1]
      BY <2>3, <2>4, <1>2, <1>4
    <3> QED
      BY <3>1, <1>2, <1>4
  <2>5. ConnectionFits'
    <3>1. conn.at # "CLOSED" => wire[Len(wire)] = conn.after /\ conn.after <= count
      BY <1>0, <1>1 DEF ConnectionFits
    <3>2. CASE wire' = <<>>
      BY <3>1, <3>2, <2>3, <1>1, <1>2, <1>4 DEF ConnectionFits
    <3>3. CASE wire' # <<>>
      BY <3>1, <3>3, <2>4, <1>1, <1>4 DEF ConnectionFits
    <3> QED
      BY <3>2, <3>3
  <2>6. WireFits'
    <3>1. ASSUME NEW i \in 1..Len(wire')
          PROVE  wire'[i] <= count'
      BY <1>1, <1>2, <1>3, <1>4
    <3>2. wire' # <<>> => Head(wire') <= cursor' + 1
      BY <2>4, <1>2, <1>3, <1>4
    <3>3. ASSUME NEW i \in 1..(Len(wire') - 1)
          PROVE  wire'[i + 1] = wire'[i] + 1
      <4>1. i \in 1..(Len(wire) - 1) /\ i + 1 \in 1..(Len(wire) - 1)
        BY <1>2, <1>4
      <4> QED
        BY <4>1, <1>2, <1>4
    <3> QED
      BY <3>1, <3>2, <3>3 DEF WireFits, Page!NoGapOnTheWire
  <2> QED
    BY <2>1, <2>2, <2>5, <2>6 DEF StreamInv
<1>5. CASE e <= cursor /\ wire' = Tail(wire) /\ UNCHANGED <<source, cursor, load, conn>>
  <2>1. cursor' \in 0..count /\ load' \in {"NONE", "ASKED", "ACTIVE", "TERMINAL"}
    BY <1>0, <1>3, <1>5 DEF Page!TypeOK, CursorsFit
  <2> QED
    BY <2>1, <1>3, <1>4, <1>5
<1>6. CASE ~(e <= cursor) /\ cursor' = e /\ load' = "ASKED"
  <2>1. e = cursor + 1 /\ cursor' \in 0..count /\ cursor' >= cursor
    BY <1>2, <1>3, <1>6
  <2>2. CASE wire' = Tail(wire) /\ UNCHANGED <<source, conn>>
    BY <2>1, <2>2, <1>4, <1>6
  <2>3. CASE source' = [source EXCEPT !.state = "CLOSED"] /\ conn' = Page!NoConn /\ wire' = <<>>
    <3>1. source' \in Source /\ source'.url <= cursor'
      BY <2>1, <2>3, <1>0, <1>3, StreamBounds DEF Source, CursorsFit
    <3>2. UNCHANGED <<count, ended, breaks, shown>>
      BY <1>1
    <3>3. StreamInv'
      BY <2>1, <2>3, <3>1, <3>2, <1>0, <1>6, Closes DEF Page!TypeOK
    <3> QED
      BY <2>1, <3>3, <1>6
  <2> QED
    BY <2>1, <2>2, <2>3, <1>6 DEF Page!Receive, e
<1> QED
  BY <1>5, <1>6 DEF Page!Receive, e

\* Each step keeps the invariant.
LEMMA NextStream ==
    ASSUME StreamInv, [Page!Next]_Page!vars
    PROVE  StreamInv'
BY RunKeepsStream, EmitKeeps, CheckKeeps, StreamFailsKeeps, ConnectKeeps, RefusedKeeps, NoticeKeeps, BreakKeeps,
   ListKeeps, ReceiveKeeps
   DEF Page!Next

\* A page before its first list.
LEMMA InitStream == Page!Init => StreamInv
<1> SUFFICES ASSUME Page!Init PROVE StreamInv
  OBVIOUS
<1>1. Page!TypeOK
  <2>1. 0 \in 0..MaxEvents /\ 0 \in 0..MaxBreaks /\ <<>> \in Seq(1..MaxEvents)
    BY StreamBounds
  <2>2. conn \in Conn /\ source \in Source
    BY <2>1, NoConnIsConn DEF Page!Init, Source
  <2> QED
    BY <2>1, <2>2 DEF Page!Init, Page!TypeOK, Conn, Source
<1>2. CursorsFit /\ ConnectionFits /\ WireFits
  BY DEF Page!Init, CursorsFit, ConnectionFits, WireFits, Page!NoGapOnTheWire, Page!NoConn
<1> QED
  BY <1>1, <1>2 DEF StreamInv

\* The inductive invariant holds in every reachable state.
THEOREM StreamInvariance == Page!Spec => []StreamInv
<1>1. StreamInv /\ [Page!Next]_Page!vars => StreamInv'
  BY NextStream
<1> QED
  BY <1>1, InitStream, PTL DEF Page!Spec

\* The page handles every event of the run once and in order, whatever is sent again.
THEOREM EventsComeInOrder == Page!Spec => EventsAreHandledInOrder
<1>1. StreamInv /\ [Page!Next]_Page!vars => [cursor' # cursor => cursor' = cursor + 1]_cursor
  <2> SUFFICES ASSUME StreamInv, [Page!Next]_Page!vars, cursor' # cursor
               PROVE  cursor' = cursor + 1
    OBVIOUS
  <2>1. Page!Receive
    BY DEF Page!Next, Page!vars, Page!page, Page!AppendRunEvent, Page!EmitRunEvents,
       Page!Check, Page!StreamFails, Page!Connect, Page!ConnectRefused, Page!NoticeEnd, Page!Break, Page!Reopen,
           Page!ReadList, Page!ListArrives, Page!ListFails, Page!ClickReload
  <2> QED
    BY <2>1, ReceiveKeeps
<1> QED
  BY <1>1, StreamInvariance, PTL DEF Page!Spec, EventsAreHandledInOrder,
     Page!EventsAreHandledInOrder

-----------------------------------------------------------------------------
(* Sessions.                                                               *)

\* What the proofs use of the constants.
LEMMA SessionsAssumed == None \notin Runs \cup Revisions \cup Sessions \cup Threads
BY AgentConstants DEF Session!SessionsAssumption

Exists(s) == session[s].status # "ABSENT"

\* A row names a revision and a thread, and no other row names that thread.
RowsNameThreads ==
    /\ \A s \in Sessions :
         IF Exists(s) THEN session[s].thread # None
         ELSE session[s].thread = None
    /\ \A s, q \in Sessions :
         Exists(s) /\ Exists(q) /\ session[s].thread = session[q].thread => s = q

\* A run that resumes has the session it resumes; a session that a run has
\* exists and is of the revision of the run.
RunsFitSessions ==
    \A r \in Runs :
        /\ run[r].resumed => run[r].session # None
        /\ run[r].session # None => /\ Exists(run[r].session)
                                    /\ session[run[r].session].revision = run[r].revision
        /\ run[r].status = "ABSENT" => ~run[r].resumed /\ run[r].session = None

\* A runner works for a run that was claimed, has a result once its agent ended,
\* and goes by way of INVALIDATE when it failed in a session it resumed.
TalksFitRuns ==
    \A r \in Runs :
        /\ run[r].status = "ABSENT" => talk[r].at = "NONE"
        /\ talk[r].at \in {"RECORD", "INVALIDATE", "FINISH"} => talk[r].result \in Session!Results
        /\ talk[r].at = "INVALIDATE" => run[r].resumed

SessionsInv == Session!TypeOK /\ RowsNameThreads /\ RunsFitSessions /\ TalksFitRuns /\ Session!FailedResumeIsDropped

-----------------------------------------------------------------------------
(* Types of sessions, runs and their runners.                              *)

\* A runner that is moved, with a result or without one, is a runner.
LEMMA TalkMoves ==
    ASSUME talk \in [Runs -> Session!RunnerRecord], NEW r \in Runs,
           NEW to \in {"NONE", "AGENT", "RECORD", "INVALIDATE", "FINISH", "GONE"}
    PROVE  /\ [talk EXCEPT ![r].at = to] \in [Runs -> Session!RunnerRecord]
           /\ [talk EXCEPT ![r].at = to, ![r].result = "FAILED"] \in [Runs -> Session!RunnerRecord]
BY DEF Session!RunnerRecord, Session!Results

\* What follows the record of a session.
LEMMA ContinuesOrRefused ==
    ASSUME Session!TypeOK, NEW r \in Runs
    PROVE  Session!Continues(r) \in [Runs -> Session!RunnerRecord] /\ Session!Refused(r) \in [Runs -> Session!RunnerRecord]
<1>1. PICK to \in {"INVALIDATE", "FINISH"} : Session!Continues(r) = [talk EXCEPT ![r].at = to]
  BY DEF Session!Continues
<1>2. Session!Continues(r) \in [Runs -> Session!RunnerRecord]
  <2>1. [talk EXCEPT ![r].at = to] \in [Runs -> Session!RunnerRecord]
    BY TalkMoves DEF Session!TypeOK
  <2> QED
    BY <1>1, <2>1
<1>3. Session!Refused(r) \in [Runs -> Session!RunnerRecord]
  BY TalkMoves DEF Session!TypeOK, Session!Refused
<1> QED
  BY <1>2, <1>3

\* A claim.
LEMMA ClaimTypes ==
    ASSUME SessionsInv, NEW r \in Runs, Session!ClaimNextTask(r)
    PROVE  Session!TypeOK'
<1> USE DEF SessionsInv, Session!TypeOK
<1>1. PICK s \in Sessions \cup {None}, b \in BOOLEAN :
        run' = [run EXCEPT ![r] = [status |-> "ACTIVE", revision |-> revision, session |-> s,
                                   resumed |-> b]]
  BY DEF Session!ClaimNextTask, Session!FindCompatibleAgentSession
<1>2. run' \in [Runs -> Session!RunRecord]
  BY <1>1 DEF Session!RunRecord
<1> QED
  BY <1>2, TalkMoves DEF Session!ClaimNextTask

\* The end of the agent.
LEMMA AgentEndsTypes ==
    ASSUME SessionsInv, NEW r \in Runs, Session!AgentEnds(r)
    PROVE  Session!TypeOK'
<1> USE DEF SessionsInv, Session!TypeOK
<1>1. run[r].resumed => session[run[r].session].thread \in Threads \cup {None}
  BY DEF RunsFitSessions, Session!RunRecord, Session!SessionRecord
<1>2. PICK result \in Session!Results, t \in Threads \cup {None} :
        talk' = [talk EXCEPT ![r] = [at |-> "RECORD", result |-> result, thread |-> t]]
  BY <1>1 DEF Session!AgentEnds
<1>3. talk' \in [Runs -> Session!RunnerRecord]
  BY <1>2 DEF Session!RunnerRecord
<1> QED
  BY <1>3 DEF Session!AgentEnds

\* A new session.
LEMMA CreateTypes ==
    ASSUME SessionsInv, NEW r \in Runs, Session!CreateAgentSession(r), UNCHANGED revision
    PROVE  Session!TypeOK'
<1> USE DEF SessionsInv, Session!TypeOK
<1>1. CASE UNCHANGED <<session, run>> /\ talk' = Session!Refused(r)
  BY <1>1, ContinuesOrRefused
<1>2. ASSUME NEW s \in Sessions,
             session' = [session EXCEPT ![s] = [status |-> "ACTIVE", thread |-> talk[r].thread,
                              revision |-> run[r].revision, lastRun |-> r]],
             run' = [run EXCEPT ![r].session = s],
             talk' = Session!Continues(r)
      PROVE  Session!TypeOK'
  <2>1. session' \in [Sessions -> Session!SessionRecord]
    BY <1>2 DEF Session!SessionRecord, Session!RunnerRecord, Session!RunRecord
  <2>2. run' \in [Runs -> Session!RunRecord]
    BY <1>2 DEF Session!RunRecord
  <2> QED
    BY <1>2, <2>1, <2>2, ContinuesOrRefused
<1> QED
  BY <1>1, <1>2 DEF Session!CreateAgentSession

\* The record of a session.
LEMMA RecordTypes ==
    ASSUME SessionsInv, NEW r \in Runs, Session!RecordAgentSession(r)
    PROVE  Session!TypeOK'
<1> USE DEF SessionsInv, Session!TypeOK
<1>1. CASE talk[r].thread = None
  BY <1>1, ContinuesOrRefused DEF Session!RecordAgentSession
<1>2. CASE talk[r].thread # None /\ run[r].session # None
  <2>1. run[r].session \in Sessions
    BY <1>2 DEF Session!RunRecord
  <2>2. [session EXCEPT ![run[r].session].lastRun = r] \in [Sessions -> Session!SessionRecord]
    BY <2>1 DEF Session!SessionRecord
  <2> QED
    BY <1>2, <2>2, ContinuesOrRefused DEF Session!RecordAgentSession,
       Session!UpdateResumedSession
<1>3. CASE talk[r].thread # None /\ run[r].session = None
  BY <1>3, CreateTypes DEF Session!RecordAgentSession
<1> QED
  BY <1>1, <1>2, <1>3

\* What is left of a run.
LEMMA EndTypes ==
    ASSUME SessionsInv, NEW r \in Runs,
           \/ Session!InvalidateAgentSessionForRun(r) \/ Session!Finish(r) \/ Session!CrashRunner(r) \/ Session!RecoverLost(r)
    PROVE  Session!TypeOK'
<1> USE DEF SessionsInv, Session!TypeOK
<1>1. CASE Session!InvalidateAgentSessionForRun(r)
  <2>1. run[r].session \in Sessions
    BY <1>1 DEF Session!InvalidateAgentSessionForRun, TalksFitRuns, RunsFitSessions,
       Session!RunRecord
  <2>2. session' \in [Sessions -> Session!SessionRecord]
    BY <1>1, <2>1 DEF Session!InvalidateAgentSessionForRun, Session!SessionRecord
  <2> QED
    BY <1>1, <2>2, TalkMoves DEF Session!InvalidateAgentSessionForRun
<1>2. CASE Session!Finish(r)
  <2>1. talk[r].result \in Session!Results
    BY <1>2 DEF Session!Finish, TalksFitRuns
  <2>2. run' \in [Runs -> Session!RunRecord]
    BY <1>2, <2>1 DEF Session!Finish, Session!RunRecord
  <2> QED
    BY <1>2, <2>2, TalkMoves DEF Session!Finish
<1>3. CASE Session!CrashRunner(r)
  BY <1>3, TalkMoves DEF Session!CrashRunner
<1>4. CASE Session!RecoverLost(r)
  <2>1. run' \in [Runs -> Session!RunRecord]
    BY <1>4 DEF Session!RecoverLost, Session!RunRecord
  <2> QED
    BY <1>4, <2>1 DEF Session!RecoverLost
<1> QED
  BY <1>1, <1>2, <1>3, <1>4

\* Every step keeps the types.
LEMMA NextTypes == SessionsInv /\ [Session!Next]_Session!vars => Session!TypeOK'
<1>1. ASSUME SessionsInv, Session!UpdateProfile \/ UNCHANGED Session!vars
      PROVE  Session!TypeOK'
  BY <1>1 DEF SessionsInv, Session!TypeOK, Session!UpdateProfile, Session!vars
<1> QED
  BY <1>1, ClaimTypes, AgentEndsTypes, RecordTypes, EndTypes DEF Session!Next

-----------------------------------------------------------------------------
(* Sessions, runs and runners fit each other.                              *)

\* A session that a run may take is one that exists under its revision.
LEMMA ClaimFits ==
    ASSUME SessionsInv, NEW r \in Runs, Session!ClaimNextTask(r)
    PROVE  SessionsInv'
<1>1. Session!TypeOK'
  BY ClaimTypes
<1> USE DEF SessionsInv, Session!TypeOK, Session!RunRecord, Session!SessionRecord, Session!RunnerRecord, Exists
<1>2. PICK s \in Sessions \cup {None}, b \in BOOLEAN :
        /\ run' = [run EXCEPT ![r] = [status |-> "ACTIVE", revision |-> revision, session |-> s,
                                     resumed |-> b]]
        /\ s = None <=> ~b
        /\ s # None => session[s].status = "ACTIVE" /\ session[s].revision = revision
  BY SessionsAssumed DEF Session!ClaimNextTask, Session!FindCompatibleAgentSession
<1>3. talk' = [talk EXCEPT ![r].at = "AGENT"] /\ UNCHANGED <<revision, session>>
  BY DEF Session!ClaimNextTask
<1>4. RowsNameThreads'
  BY <1>3 DEF RowsNameThreads
<1>5. RunsFitSessions'
  BY <1>2, <1>3 DEF RunsFitSessions
<1>6. TalksFitRuns'
  BY <1>2, <1>3 DEF TalksFitRuns
<1>7. Session!FailedResumeIsDropped'
  BY <1>2, <1>3 DEF Session!FailedResumeIsDropped
<1> QED
  BY <1>1, <1>4, <1>5, <1>6, <1>7

\* The end of the agent.
LEMMA AgentEndsFits ==
    ASSUME SessionsInv, NEW r \in Runs, Session!AgentEnds(r)
    PROVE  SessionsInv'
<1>1. Session!TypeOK'
  BY AgentEndsTypes
<1> USE DEF SessionsInv, Session!TypeOK, Session!RunRecord, Session!SessionRecord, Session!RunnerRecord, Exists
<1>2. PICK result, t :
        /\ result \in Session!Results
        /\ talk' = [talk EXCEPT ![r] = [at |-> "RECORD", result |-> result, thread |-> t]]
  BY DEF Session!AgentEnds
<1>3. UNCHANGED <<revision, run, session>> /\ run[r].status # "ABSENT"
  BY DEF Session!AgentEnds, TalksFitRuns
<1>4. RowsNameThreads' /\ RunsFitSessions'
  BY <1>3 DEF RowsNameThreads, RunsFitSessions
<1>5. TalksFitRuns'
  BY <1>2, <1>3 DEF TalksFitRuns
<1>6. Session!FailedResumeIsDropped'
  BY <1>2, <1>3 DEF Session!FailedResumeIsDropped
<1> QED
  BY <1>1, <1>4, <1>5, <1>6

\* A resumed session is recorded for the run, or its runner is refused: then the
\* session is invalid or the thread is another one.
LEMMA UpdateFits ==
    ASSUME SessionsInv, Session!TypeOK', NEW r \in Runs, talk[r].at = "RECORD", run[r].session # None,
           Session!UpdateResumedSession(r)
    PROVE  SessionsInv'
<1> USE DEF SessionsInv, Session!TypeOK, Session!RunRecord, Session!SessionRecord, Session!RunnerRecord, Exists
<1>1. /\ run[r].session \in Sessions /\ session[run[r].session].status # "ABSENT"
      /\ run[r].status # "ABSENT"
  BY DEF RunsFitSessions
<1>2. UNCHANGED run
  BY DEF Session!UpdateResumedSession
<1>3. \A s \in Sessions : /\ session'[s].status = session[s].status
                          /\ session'[s].thread = session[s].thread
                          /\ session'[s].revision = session[s].revision
  BY <1>1 DEF Session!UpdateResumedSession
<1>4. RowsNameThreads'
  BY <1>3 DEF RowsNameThreads
<1>5. RunsFitSessions'
  BY <1>2, <1>3 DEF RunsFitSessions
<1>6. \A q \in Runs \ {r} : talk'[q] = talk[q]
  BY DEF Session!UpdateResumedSession, Session!Continues, Session!Refused
<1>7. /\ talk'[r].thread = talk[r].thread /\ talk'[r].result \in Session!Results
      /\ \/ talk'[r].at = "INVALIDATE" /\ run[r].resumed
         \/ talk'[r].at = "FINISH" /\ (talk'[r].result # "FAILED" \/ ~run[r].resumed)
         \/ talk'[r].at = "FINISH" /\ ~(session[run[r].session].status = "ACTIVE"
                                         /\ session[run[r].session].thread = talk[r].thread)
  BY DEF Session!UpdateResumedSession, Session!Continues, Session!Refused, TalksFitRuns,
     Session!Results
<1>8. TalksFitRuns'
  BY <1>1, <1>2, <1>6, <1>7 DEF TalksFitRuns
<1>9. Session!FailedResumeIsDropped'
  <2>1. ASSUME NEW q \in Runs, q # r, talk'[q].at = "FINISH", talk'[q].result = "FAILED",
               run'[q].resumed, talk'[q].thread = session'[run'[q].session].thread
        PROVE  session'[run'[q].session].status = "INVALID"
    <3>1. run[q].session \in Sessions
      BY <1>2, <2>1 DEF RunsFitSessions
    <3> QED
      BY <1>2, <1>3, <1>6, <2>1, <3>1 DEF Session!FailedResumeIsDropped
  <2>2. ASSUME talk'[r].at = "FINISH", talk'[r].result = "FAILED",
               run'[r].resumed, talk'[r].thread = session'[run'[r].session].thread
        PROVE  session'[run'[r].session].status = "INVALID"
    BY <1>1, <1>2, <1>3, <1>7, <2>2
  <2> QED
    BY <2>1, <2>2 DEF Session!FailedResumeIsDropped
<1> QED
  BY <1>4, <1>5, <1>8, <1>9

\* A new session names a thread that no other one names.
LEMMA CreateFits ==
    ASSUME SessionsInv, Session!TypeOK', NEW r \in Runs, talk[r].at = "RECORD", run[r].session = None,
           talk[r].thread # None, Session!CreateAgentSession(r)
    PROVE  SessionsInv'
<1> USE DEF SessionsInv, Session!TypeOK, Session!RunRecord, Session!SessionRecord, Session!RunnerRecord, Exists
<1>1. run[r].status # "ABSENT" /\ ~run[r].resumed /\ talk[r].result \in Session!Results
  BY DEF RunsFitSessions, TalksFitRuns
<1>2. /\ \A q \in Runs \ {r} : talk'[q] = talk[q]
      /\ talk'[r].at = "FINISH" /\ talk'[r].result \in Session!Results
  BY <1>1 DEF Session!CreateAgentSession, Session!Continues, Session!Refused,
     Session!Results
<1>3. CASE UNCHANGED <<session, run>>
  <2>1. RowsNameThreads' /\ RunsFitSessions'
    BY <1>3 DEF RowsNameThreads, RunsFitSessions
  <2>2. TalksFitRuns' /\ Session!FailedResumeIsDropped'
    BY <1>1, <1>2, <1>3 DEF TalksFitRuns, Session!FailedResumeIsDropped
  <2> QED
    BY <2>1, <2>2
<1>4. ASSUME NEW s \in Sessions, ~Session!Known(talk[r].thread), session[s].status = "ABSENT",
             session' = [session EXCEPT ![s] = [status |-> "ACTIVE", thread |-> talk[r].thread,
                              revision |-> run[r].revision, lastRun |-> r]],
             run' = [run EXCEPT ![r].session = s]
      PROVE  SessionsInv'
  <2>1. RowsNameThreads'
    BY <1>4 DEF RowsNameThreads, Session!Known
  <2>2. RunsFitSessions'
    BY <1>1, <1>4, SessionsAssumed DEF RunsFitSessions
  <2>3. TalksFitRuns'
    BY <1>1, <1>2, <1>4 DEF TalksFitRuns
  <2>4. Session!FailedResumeIsDropped'
    BY <1>1, <1>2, <1>4 DEF Session!FailedResumeIsDropped, RunsFitSessions
  <2> QED
    BY <2>1, <2>2, <2>3, <2>4
<1> QED
  BY <1>3, <1>4 DEF Session!CreateAgentSession

\* The record of a session, of whichever kind.
LEMMA RecordFits ==
    ASSUME SessionsInv, NEW r \in Runs, Session!RecordAgentSession(r)
    PROVE  SessionsInv'
<1>1. Session!TypeOK'
  BY RecordTypes
<1>2. CASE talk[r].thread = None
  <2> USE DEF SessionsInv, Session!TypeOK, Session!RunRecord, Session!SessionRecord, Session!RunnerRecord, Exists
  <2>1. talk' = Session!Continues(r) /\ UNCHANGED <<session, run>>
    BY <1>2 DEF Session!RecordAgentSession
  <2>2. RowsNameThreads' /\ RunsFitSessions'
    BY <2>1 DEF RowsNameThreads, RunsFitSessions
  <2>3. TalksFitRuns'
    BY <2>1 DEF Session!Continues, TalksFitRuns, Session!RecordAgentSession
  <2>4. Session!FailedResumeIsDropped'
    BY <2>1 DEF Session!Continues, Session!FailedResumeIsDropped
  <2> QED
    BY <1>1, <2>2, <2>3, <2>4
<1> QED
  BY <1>1, <1>2, UpdateFits, CreateFits DEF Session!RecordAgentSession

\* A failed resume drops its session; the rest ends runs and runners.
LEMMA EndFits ==
    ASSUME SessionsInv, NEW r \in Runs,
           \/ Session!InvalidateAgentSessionForRun(r) \/ Session!Finish(r) \/ Session!CrashRunner(r) \/ Session!RecoverLost(r)
    PROVE  SessionsInv'
<1>1. Session!TypeOK'
  BY EndTypes
<1> USE DEF SessionsInv, Session!TypeOK, Session!RunRecord, Session!SessionRecord, Session!RunnerRecord, Exists
<1>2. CASE Session!InvalidateAgentSessionForRun(r)
  <2>1. run[r].session \in Sessions /\ Exists(run[r].session)
    BY <1>2 DEF Session!InvalidateAgentSessionForRun, TalksFitRuns, RunsFitSessions
  <2>2. \A s \in Sessions :
          /\ session'[s].thread = session[s].thread /\ session'[s].revision = session[s].revision
          /\ session[s].status # "ACTIVE" => session'[s].status = session[s].status
          /\ session[s].status = "ACTIVE" => session'[s].status \in {"ACTIVE", "INVALID"}
    BY <1>2 DEF Session!InvalidateAgentSessionForRun
  <2>3. session'[run[r].session].status = "INVALID"
    BY <1>2, <2>1 DEF Session!InvalidateAgentSessionForRun
  <2>4. RowsNameThreads' /\ RunsFitSessions'
    BY <1>2, <2>2 DEF Session!InvalidateAgentSessionForRun, RowsNameThreads, RunsFitSessions
  <2>5. TalksFitRuns'
    BY <1>2 DEF Session!InvalidateAgentSessionForRun, TalksFitRuns
  <2>6. Session!FailedResumeIsDropped'
    BY <1>2, <2>2, <2>3 DEF Session!InvalidateAgentSessionForRun,
       Session!FailedResumeIsDropped, RunsFitSessions
  <2> QED
    BY <1>1, <2>4, <2>5, <2>6
<1>3. CASE Session!Finish(r)
  BY <1>1, <1>3 DEF Session!Finish, RowsNameThreads, RunsFitSessions, TalksFitRuns,
                    Session!FailedResumeIsDropped, Session!Results
<1>4. CASE Session!CrashRunner(r)
  BY <1>1, <1>4 DEF Session!CrashRunner, RowsNameThreads, RunsFitSessions, TalksFitRuns,
                    Session!FailedResumeIsDropped
<1>5. CASE Session!RecoverLost(r)
  BY <1>1, <1>5 DEF Session!RecoverLost, RowsNameThreads, RunsFitSessions, TalksFitRuns,
                    Session!FailedResumeIsDropped
<1> QED
  BY <1>2, <1>3, <1>4, <1>5

-----------------------------------------------------------------------------
(* The theorems about sessions.                                            *)

\* Every step keeps the invariant.
LEMMA NextSessions == SessionsInv /\ [Session!Next]_Session!vars => SessionsInv'
<1>1. ASSUME SessionsInv, Session!UpdateProfile \/ UNCHANGED Session!vars
      PROVE  SessionsInv'
  <2>1. Session!TypeOK' /\ UNCHANGED <<run, session, talk>>
    BY <1>1, NextTypes DEF Session!Next, Session!UpdateProfile, Session!vars
  <2> QED
    BY <1>1, <2>1 DEF SessionsInv, RowsNameThreads, RunsFitSessions, TalksFitRuns,
                      Session!FailedResumeIsDropped, Exists
<1> QED
  BY <1>1, ClaimFits, AgentEndsFits, RecordFits, EndFits DEF Session!Next

\* The inductive invariant holds in every reachable state.
THEOREM SessionsInvariance == Session!Spec => []SessionsInv
<1>1. Session!Init => SessionsInv
  BY DEF Session!Init, SessionsInv, Session!TypeOK, RowsNameThreads, RunsFitSessions,
     TalksFitRuns,
         Session!FailedResumeIsDropped, Exists, Session!NoRow, Session!NoSession,
         Session!NoRunner, Session!RunRecord, Session!SessionRecord,
         Session!RunnerRecord, Session!Results
<1> QED
  BY <1>1, NextSessions, PTL DEF Session!Spec

\* A run talks only in a session of its own profile revision, and a resumed
\* conversation in which the run failed is not resumed again.
THEOREM SessionsAreWorthResuming == Session!Spec => []SessionInvariant
<1>1. SessionsInv => SessionInvariant
  BY DEF SessionsInv, SessionInvariant, Session!SessionInvariant,
     Session!SessionFitsRevision, RunsFitSessions
<1> QED
  BY <1>1, SessionsInvariance, PTL

\* A row of agent_sessions keeps its thread, shares it with no other row and
\* stays invalid, even when two runners record what their agents told them.
THEOREM ThreadsAreKept == Session!Spec => SessionsKeepThreads
<1> DEFINE Kept == \A s \in Sessions :
        /\ session[s].status # "ABSENT" => session'[s].thread = session[s].thread
        /\ session[s].status = "INVALID" => session'[s].status = "INVALID"
        /\ \A q \in Sessions \ {s} : session'[s].thread = None
                                     \/ session'[s].thread # session'[q].thread
<1>1. SessionsInv /\ [Session!Next]_Session!vars => [Kept]_Session!vars
  <2> SUFFICES ASSUME SessionsInv, SessionsInv', Session!Next
               PROVE  Kept
    BY NextSessions
  <2>1. \A s \in Sessions : \A q \in Sessions \ {s} :
          session'[s].thread = None \/ session'[s].thread # session'[q].thread
    BY DEF SessionsInv, RowsNameThreads, Exists
  <2> DEFINE Stays(s) == /\ session[s].status # "ABSENT" => session'[s].thread = session[s].thread
                         /\ session[s].status = "INVALID" => session'[s].status = "INVALID"
  <2>2. ASSUME NEW s \in Sessions
        PROVE  Stays(s)
    <3> USE DEF SessionsInv, Session!TypeOK, Session!SessionRecord
    <3>1. CASE UNCHANGED session
      BY <3>1
    <3>2. ASSUME NEW r \in Runs, Session!RecordAgentSession(r)
          PROVE  Stays(s)
      BY <3>2 DEF Session!RecordAgentSession, Session!UpdateResumedSession,
         Session!CreateAgentSession
    <3>3. ASSUME NEW r \in Runs, Session!InvalidateAgentSessionForRun(r)
          PROVE  Stays(s)
      BY <3>3 DEF Session!InvalidateAgentSessionForRun
    <3> QED
      BY <3>1, <3>2, <3>3
         DEF Session!Next, Session!UpdateProfile, Session!ClaimNextTask,
         Session!AgentEnds, Session!Finish, Session!CrashRunner, Session!RecoverLost
  <2> QED
    BY <2>1, <2>2
<1> QED
  BY <1>1, SessionsInvariance, PTL DEF Session!Spec, SessionsKeepThreads,
     Session!SessionsKeepThreads

-----------------------------------------------------------------------------
(* Loops.                                                                  *)

\* A set of numbers has a least one.
LEMMA LeastOf ==
    ASSUME NEW S \in SUBSET Nat, S # {}
    PROVE  \E m \in S : \A n \in S : m <= n
<1> DEFINE R == {ss \in Nat \X Nat : ss[1] < ss[2]}
<1>1. IsWellFoundedOn(R, Nat)
  BY NatLessThanWellFounded DEF OpToRel
<1>2. \A n, m \in Nat : n < m => <<n, m>> \in R
  OBVIOUS
<1> HIDE DEF R
<1>3. PICK m \in S : \A n \in S : <<n, m>> \notin R
  BY <1>1, WFMin
<1>4. ASSUME NEW n \in S
      PROVE  m <= n
  <2>1. n \in Nat /\ m \in Nat /\ ~(n < m)
    BY <1>2, <1>3
  <2> QED
    BY <2>1
<1> QED
  BY <1>4

\* What holds before a loop and is kept by its steps holds after each of them.
LEMMA ByInduction ==
    ASSUME NEW N \in Nat, NEW S, 0 \in S, \A n \in 1..N : n - 1 \in S => n \in S
    PROVE  0..N \subseteq S
<1> DEFINE T == {n \in 0..N : n \notin S}
<1>1. SUFFICES T = {}
  OBVIOUS
<1>2. CASE T # {}
  <2>1. PICK m \in T : \A n \in T : m <= n
    BY <1>2, LeastOf, T \subseteq Nat
  <2>2. m \in 1..N
    BY <2>1
  <2>3. m - 1 \in S
    BY <2>1, <2>2
  <2> QED
    BY <2>1, <2>2, <2>3
<1> QED
  BY <1>2

\* h is the fold from b over the first N numbers of the steps G.
FoldsTo(h, b, N, G) ==
    \A T \in SUBSET (1..N) :
       h[T] = IF T = {} THEN b ELSE G[<<Prompt!Max(T), h[T \ {Prompt!Max(T)}]>>]

\* A fold over the first N numbers visits them in their order.
LEMMA FoldExists ==
    ASSUME NEW V, NEW b \in V, NEW N \in Nat, NEW G \in [(1..N) \X V -> V]
    PROVE  \E h \in [SUBSET (1..N) -> V] : FoldsTo(h, b, N, G)
<1> DEFINE Is(h, n) == FoldsTo(h, b, n, G)
           Built == {n \in 0..N : \E h \in [SUBSET (1..n) -> V] : Is(h, n)}
<1>1. 0 \in Built
  <2>1. [T \in SUBSET (1..0) |-> b] \in [SUBSET (1..0) -> V]
    OBVIOUS
  <2>2. Is([T \in SUBSET (1..0) |-> b], 0)
    BY 1..0 = {} DEF FoldsTo
  <2> HIDE DEF Is
  <2> QED
    BY <2>1, <2>2
<1>2. ASSUME NEW n \in 1..N, n - 1 \in Built
      PROVE  n \in Built
  <2>1. PICK h \in [SUBSET (1..n-1) -> V] : Is(h, n - 1)
    BY <1>2
  <2> DEFINE g == [T \in SUBSET (1..n) |-> IF n \in T THEN G[<<n, h[T \ {n}]>>] ELSE h[T]]
  <2>2. \A T \in SUBSET (1..n) :
           /\ n \in T => T \ {n} \in SUBSET (1..n-1) /\ n \notin T \ {n}
           /\ n \notin T => T \in SUBSET (1..n-1)
    BY SMT
  <2>3. g \in [SUBSET (1..n) -> V]
    BY <2>2
  <2>4. ASSUME NEW T \in SUBSET (1..n)
        PROVE  g[T] = IF T = {} THEN b ELSE G[<<Prompt!Max(T), g[T \ {Prompt!Max(T)}]>>]
    <3>1. CASE n \in T
      <4>1. Prompt!Max(T) = n
        <5>1. \A x \in T : (\A y \in T : x >= y) <=> x = n
          BY <3>1
        <5> QED
          BY <3>1, <5>1 DEF Prompt!Max
      <4>2. g[T \ {n}] = h[T \ {n}]
        BY <2>2, <3>1
      <4> QED
        BY <3>1, <4>1, <4>2
    <3>2. CASE n \notin T
      <4>1. g[T] = h[T] /\ T \in SUBSET (1..n-1)
        BY <2>2, <3>2
      <4>2. g[T \ {Prompt!Max(T)}] = h[T \ {Prompt!Max(T)}]
        BY <3>2
      <4> QED
        BY <2>1, <4>1, <4>2 DEF FoldsTo
    <3> QED
      BY <3>1, <3>2
  <2> HIDE DEF g
  <2>5. Is(g, n)
    BY <2>4 DEF FoldsTo
  <2> HIDE DEF Is
  <2> QED
    BY <2>3, <2>5
<1> HIDE DEF Built
<1>3. N \in Built
  BY <1>1, <1>2, ByInduction
<1> QED
  BY <1>3 DEF Built

\* The greatest of some of the first numbers is one of them.
LEMMA GreatestOf ==
    ASSUME NEW N \in Nat, NEW T \in SUBSET (1..N), T # {}
    PROVE  Prompt!Max(T) \in T
<1> DEFINE S == {N - x : x \in T}
<1>1. PICK m \in S : \A n \in S : m <= n
  <2>1. \A x \in T : N - x \in Nat
    OBVIOUS
  <2>2. S \in SUBSET Nat /\ S # {}
    BY <2>1
  <2> QED
    BY <2>2, LeastOf
<1>2. PICK x \in T : m = N - x
  BY <1>1
<1>3. \A y \in T : x >= y
  <2>1. ASSUME NEW y \in T
        PROVE  x >= y
    <3>1. m <= N - y
      BY <1>1
    <3> QED
      BY <1>2, <3>1
  <2> QED
    BY <2>1
<1> QED
  BY <1>2, <1>3 DEF Prompt!Max

\* That of all of them is the last, and before it come the others.
LEMMA GreatestOfAll ==
    ASSUME NEW n \in Nat, n # 0
    PROVE  Prompt!Max(1..n) = n /\ (1..n) \ {n} = 1..n-1
<1>1. \A x \in 1..n : (\A y \in 1..n : x >= y) <=> x = n
  OBVIOUS
<1> QED
  BY <1>1 DEF Prompt!Max

\* iter takes the steps G where it is in V before.
FoldsWithin(iter, V, b, N, G) ==
    /\ iter[{}] = b
    /\ \A T \in SUBSET (1..N) :
         T # {} /\ iter[T \ {Prompt!Max(T)}] \in V =>
           iter[T] = G[<<Prompt!Max(T), iter[T \ {Prompt!Max(T)}]>>]

\* k is what the steps G have made of b after each of the first N numbers, e at the end.
Walks(k, b, N, G, e) == k[0] = b /\ k[N] = e /\ \A n \in 1..N : k[n] = G[<<n, k[n - 1]>>]

\* What such a fold has computed after each of the numbers.
LEMMA FoldWalks ==
    ASSUME NEW V, NEW b \in V, NEW N \in Nat, NEW G \in [(1..N) \X V -> V], NEW iter,
           FoldsWithin(iter, V, b, N, G)
    PROVE  \E k \in [0..N -> V] : Walks(k, b, N, G, iter[1..N])
<1> DEFINE k == [n \in 0..N |-> iter[1..n]]
<1>1. k[0] = b /\ k[N] = iter[1..N]
  BY 1..0 = {} DEF FoldsWithin
<1>2. ASSUME NEW n \in 1..N, k[n - 1] \in V
      PROVE  k[n] = G[<<n, k[n - 1]>>]
  <2>1. 1..n \in SUBSET (1..N) /\ 1..n # {}
    OBVIOUS
  <2>2. Prompt!Max(1..n) = n /\ (1..n) \ {n} = 1..n-1
    BY GreatestOfAll
  <2>3. k[n] = iter[1..n] /\ k[n - 1] = iter[1..n-1]
    OBVIOUS
  <2> HIDE DEF k
  <2> QED
    BY <1>2, <2>1, <2>2, <2>3 DEF FoldsWithin
<1> DEFINE S == {n \in 0..N : k[n] \in V}
<1>3. 0..N \subseteq S
  <2> HIDE DEF k
  <2>1. 0 \in S
    BY <1>1
  <2>2. ASSUME NEW n \in 1..N, n - 1 \in S
        PROVE  n \in S
    <3>1. k[n] = G[<<n, k[n - 1]>>]
      BY <1>2, <2>2
    <3>2. <<n, k[n - 1]>> \in (1..N) \X V
      BY <2>2
    <3>3. G[<<n, k[n - 1]>>] \in V
      BY <3>2
    <3> QED
      BY <3>1, <3>3
  <2> HIDE DEF S
  <2> QED
    BY <2>1, <2>2, ByInduction
<1>4. k \in [0..N -> V]
  BY <1>3
<1>5. \A n \in 1..N : k[n] = G[<<n, k[n - 1]>>]
  <2> HIDE DEF k
  <2>1. \A n \in 1..N : n - 1 \in 0..N
    OBVIOUS
  <2> QED
    BY <1>2, <1>3, <2>1
<1> HIDE DEF k
<1> QED
  BY <1>1, <1>4, <1>5 DEF Walks

-----------------------------------------------------------------------------
(* What the operators of a prompt compute.                                 *)

\* Chunks, by what the choice among them looks at.
Counted(C) == \A c \in C : c.text.size \in Nat

\* k has the totals of the beginnings of s.
TotalWalk(k, s) ==
    /\ k[0] = 0 /\ k[Len(s)] = Prompt!Total(s)
    /\ \A n \in 1..Len(s) : k[n] = k[n - 1] + s[n].text.size

\* A total is the sum of the sizes, in the order of the chunks.
LEMMA TotalWalks ==
    ASSUME NEW C, Counted(C), NEW s \in Seq(C)
    PROVE  \E k \in [0..Len(s) -> Nat] : TotalWalk(k, s)
<1> DEFINE N == Len(s)
           G == [nv \in (1..N) \X Nat |-> nv[2] + s[nv[1]].text.size]
           Eq(h) == h = [S \in SUBSET DOMAIN s |->
                           IF S = {} THEN 0
                           ELSE h[S \ {Prompt!Max(S)}] + s[Prompt!Max(S)].text.size]
           iter == CHOOSE h : Eq(h)
<1>1. /\ N \in Nat /\ DOMAIN s = 1..N /\ 0 \in Nat
      /\ \A n \in 1..N : s[n].text.size \in Nat
  BY DEF Counted
<1>2. Prompt!Total(s) = iter[DOMAIN s]
  BY DEF Prompt!Total, Prompt!FoldLeft, Prompt!MapThenFoldSet
<1> HIDE DEF N
<1>3. G \in [(1..N) \X Nat -> Nat]
  BY <1>1
<1>4. \A n \in 1..N, v \in Nat : G[<<n, v>>] = v + s[n].text.size
  OBVIOUS
<1> HIDE DEF G
<1>5. Eq(iter)
  <2>1. PICK h \in [SUBSET (1..N) -> Nat] : FoldsTo(h, 0, N, G)
    BY <1>1, <1>3, FoldExists
  <2>2. ASSUME NEW T \in SUBSET (1..N), T # {}
        PROVE  h[T] = h[T \ {Prompt!Max(T)}] + s[Prompt!Max(T)].text.size
    <3>1. Prompt!Max(T) \in 1..N
      BY <1>1, <2>2, GreatestOf
    <3>2. h[T \ {Prompt!Max(T)}] \in Nat
      OBVIOUS
    <3> QED
      BY <1>4, <2>1, <2>2, <3>1, <3>2 DEF FoldsTo
  <2>3. h[{}] = 0
    BY <2>1 DEF FoldsTo
  <2>4. Eq(h)
    BY <1>1, <2>2, <2>3
  <2> HIDE DEF Eq
  <2> QED
    BY <2>4
<1> HIDE DEF iter
<1>6. iter[{}] = 0
  BY <1>5
<1>7. FoldsWithin(iter, Nat, 0, N, G)
  <2> SUFFICES ASSUME NEW T \in SUBSET (1..N), T # {}, iter[T \ {Prompt!Max(T)}] \in Nat
               PROVE  iter[T] = G[<<Prompt!Max(T), iter[T \ {Prompt!Max(T)}]>>]
    BY <1>6 DEF FoldsWithin
  <2>1. Prompt!Max(T) \in 1..N
    BY <1>1, GreatestOf
  <2> QED
    BY <1>1, <1>4, <1>5, <2>1
<1> HIDE DEF Eq
<1>8. PICK k \in [0..N -> Nat] : Walks(k, 0, N, G, iter[1..N])
  BY <1>1, <1>3, <1>7, FoldWalks
<1>9. \A n \in 1..N : k[n - 1] \in Nat
  BY <1>1
<1> QED
  BY <1>1, <1>2, <1>4, <1>8, <1>9 DEF N, Walks, TotalWalk

\* Where takes a chunk of S.
Takes(S, kept, c) == IF c \in S THEN Append(kept, c) ELSE kept

\* k has what is taken of R from the beginnings of s.
WhereWalk(k, s, R) ==
    /\ k[0] = <<>> /\ k[Len(s)] = Prompt!Where(s, R)
    /\ \A n \in 1..Len(s) : k[n] = Takes(R, k[n - 1], s[n])

\* How the chunks of a set are taken from a sequence.
LEMMA WhereWalks ==
    ASSUME NEW C, NEW s \in Seq(C), NEW R
    PROVE  \E k \in [0..Len(s) -> Seq(C)] : WhereWalk(k, s, R)
<1> DEFINE N == Len(s)
           G == [nv \in (1..N) \X Seq(C) |-> Takes(R, nv[2], s[nv[1]])]
           Eq(h) == h = [S \in SUBSET DOMAIN s |->
                           IF S = {} THEN <<>>
                           ELSE Takes(R, h[S \ {Prompt!Max(S)}], s[Prompt!Max(S)])]
           iter == CHOOSE h : Eq(h)
<1>1. /\ N \in Nat /\ DOMAIN s = 1..N /\ <<>> \in Seq(C)
      /\ \A n \in 1..N : s[n] \in C
  OBVIOUS
<1>2. Prompt!Where(s, R) = iter[DOMAIN s]
  BY DEF Prompt!Where, Takes, Prompt!FoldLeft, Prompt!MapThenFoldSet
<1> HIDE DEF N
<1>3. G \in [(1..N) \X Seq(C) -> Seq(C)]
  BY <1>1 DEF Takes
<1>4. \A n \in 1..N, v \in Seq(C) : G[<<n, v>>] = Takes(R, v, s[n])
  OBVIOUS
<1> HIDE DEF G
<1>5. Eq(iter)
  <2>1. PICK h \in [SUBSET (1..N) -> Seq(C)] : FoldsTo(h, <<>>, N, G)
    BY <1>1, <1>3, FoldExists
  <2>2. ASSUME NEW T \in SUBSET (1..N), T # {}
        PROVE  h[T] = Takes(R, h[T \ {Prompt!Max(T)}], s[Prompt!Max(T)])
    <3>1. Prompt!Max(T) \in 1..N
      BY <1>1, <2>2, GreatestOf
    <3>2. h[T \ {Prompt!Max(T)}] \in Seq(C)
      OBVIOUS
    <3> QED
      BY <1>4, <2>1, <2>2, <3>1, <3>2 DEF FoldsTo
  <2>3. h[{}] = <<>>
    BY <2>1 DEF FoldsTo
  <2>4. Eq(h)
    BY <1>1, <2>2, <2>3
  <2> HIDE DEF Eq
  <2> QED
    BY <2>4
<1> HIDE DEF iter
<1>6. iter[{}] = <<>>
  BY <1>5
<1>7. FoldsWithin(iter, Seq(C), <<>>, N, G)
  <2> SUFFICES ASSUME NEW T \in SUBSET (1..N), T # {}, iter[T \ {Prompt!Max(T)}] \in Seq(C)
               PROVE  iter[T] = G[<<Prompt!Max(T), iter[T \ {Prompt!Max(T)}]>>]
    BY <1>6 DEF FoldsWithin
  <2>1. Prompt!Max(T) \in 1..N
    BY <1>1, GreatestOf
  <2> QED
    BY <1>1, <1>4, <1>5, <2>1
<1> HIDE DEF Eq
<1>8. PICK k \in [0..N -> Seq(C)] : Walks(k, <<>>, N, G, iter[1..N])
  BY <1>1, <1>3, <1>7, FoldWalks
<1>9. \A n \in 1..N : k[n - 1] \in Seq(C)
  BY <1>1
<1> QED
  BY <1>1, <1>2, <1>4, <1>8, <1>9 DEF N, Walks, WhereWalk

\* Deduplicate takes a chunk with a text it has not met.
TakesNew(kept, c) ==
    IF c.text.size = 0 \/ c.text \in Prompt!Texts(kept) THEN kept ELSE Append(kept, c)

\* k has what is left of the beginnings of s without equal texts.
DeduplicateWalk(k, s) ==
    /\ k[0] = <<>> /\ k[Len(s)] = Prompt!Deduplicate(s)
    /\ \A n \in 1..Len(s) : k[n] = TakesNew(k[n - 1], s[n])

\* How equal texts are found.
LEMMA DeduplicateWalks ==
    ASSUME NEW C, NEW s \in Seq(C)
    PROVE  \E k \in [0..Len(s) -> Seq(C)] : DeduplicateWalk(k, s)
<1> DEFINE N == Len(s)
           G == [nv \in (1..N) \X Seq(C) |-> TakesNew(nv[2], s[nv[1]])]
           Eq(h) == h = [S \in SUBSET DOMAIN s |->
                           IF S = {} THEN <<>>
                           ELSE TakesNew(h[S \ {Prompt!Max(S)}], s[Prompt!Max(S)])]
           iter == CHOOSE h : Eq(h)
<1>1. /\ N \in Nat /\ DOMAIN s = 1..N /\ <<>> \in Seq(C)
      /\ \A n \in 1..N : s[n] \in C
  OBVIOUS
<1>2. Prompt!Deduplicate(s) = iter[DOMAIN s]
  BY DEF Prompt!Deduplicate, TakesNew, Prompt!FoldLeft, Prompt!MapThenFoldSet
<1> HIDE DEF N
<1>3. G \in [(1..N) \X Seq(C) -> Seq(C)]
  BY <1>1 DEF TakesNew
<1>4. \A n \in 1..N, v \in Seq(C) : G[<<n, v>>] = TakesNew(v, s[n])
  OBVIOUS
<1> HIDE DEF G
<1>5. Eq(iter)
  <2>1. PICK h \in [SUBSET (1..N) -> Seq(C)] : FoldsTo(h, <<>>, N, G)
    BY <1>1, <1>3, FoldExists
  <2>2. ASSUME NEW T \in SUBSET (1..N), T # {}
        PROVE  h[T] = TakesNew(h[T \ {Prompt!Max(T)}], s[Prompt!Max(T)])
    <3>1. Prompt!Max(T) \in 1..N
      BY <1>1, <2>2, GreatestOf
    <3>2. h[T \ {Prompt!Max(T)}] \in Seq(C)
      OBVIOUS
    <3> QED
      BY <1>4, <2>1, <2>2, <3>1, <3>2 DEF FoldsTo
  <2>3. h[{}] = <<>>
    BY <2>1 DEF FoldsTo
  <2>4. Eq(h)
    BY <1>1, <2>2, <2>3
  <2> HIDE DEF Eq
  <2> QED
    BY <2>4
<1> HIDE DEF iter
<1>6. iter[{}] = <<>>
  BY <1>5
<1>7. FoldsWithin(iter, Seq(C), <<>>, N, G)
  <2> SUFFICES ASSUME NEW T \in SUBSET (1..N), T # {}, iter[T \ {Prompt!Max(T)}] \in Seq(C)
               PROVE  iter[T] = G[<<Prompt!Max(T), iter[T \ {Prompt!Max(T)}]>>]
    BY <1>6 DEF FoldsWithin
  <2>1. Prompt!Max(T) \in 1..N
    BY <1>1, GreatestOf
  <2> QED
    BY <1>1, <1>4, <1>5, <2>1
<1> HIDE DEF Eq
<1>8. PICK k \in [0..N -> Seq(C)] : Walks(k, <<>>, N, G, iter[1..N])
  BY <1>1, <1>3, <1>7, FoldWalks
<1>9. \A n \in 1..N : k[n - 1] \in Seq(C)
  BY <1>1
<1> QED
  BY <1>1, <1>2, <1>4, <1>8, <1>9 DEF N, Walks, DeduplicateWalk

\* Selected takes a chunk that still fits.
TakesFitting(kept, c) == IF Prompt!Fits(kept, c) THEN Append(kept, c) ELSE kept

\* k has what is chosen after each of the optional chunks of s.
SelectedWalk(k, s) ==
    /\ k[0] = Prompt!RequiredOf(s) /\ k[Len(Prompt!OptionalOf(s))] = Prompt!Selected(s)
    /\ \A n \in 1..Len(Prompt!OptionalOf(s)) : k[n] = TakesFitting(k[n - 1], Prompt!OptionalOf(s)[n])

\* How the optional chunks are chosen.
LEMMA SelectedWalks ==
    ASSUME NEW C, NEW s \in Seq(C),
           Prompt!RequiredOf(s) \in Seq(C), Prompt!OptionalOf(s) \in Seq(C)
    PROVE  \E k \in [0..Len(Prompt!OptionalOf(s)) -> Seq(C)] : SelectedWalk(k, s)
<1> DEFINE r == Prompt!RequiredOf(s)
           o == Prompt!OptionalOf(s)
           N == Len(o)
           G == [nv \in (1..N) \X Seq(C) |-> TakesFitting(nv[2], o[nv[1]])]
           Eq(h) == h = [S \in SUBSET DOMAIN o |->
                           IF S = {} THEN r
                           ELSE TakesFitting(h[S \ {Prompt!Max(S)}], o[Prompt!Max(S)])]
           iter == CHOOSE h : Eq(h)
<1>1. /\ N \in Nat /\ DOMAIN o = 1..N /\ r \in Seq(C)
      /\ \A n \in 1..N : o[n] \in C
  OBVIOUS
<1>2. Prompt!Selected(s) = iter[DOMAIN o]
  BY DEF Prompt!Selected, TakesFitting, Prompt!FoldLeft, Prompt!MapThenFoldSet
<1> HIDE DEF N
<1>3. G \in [(1..N) \X Seq(C) -> Seq(C)]
  BY <1>1 DEF TakesFitting
<1>4. \A n \in 1..N, v \in Seq(C) : G[<<n, v>>] = TakesFitting(v, o[n])
  OBVIOUS
<1> HIDE DEF G
<1>5. Eq(iter)
  <2>1. PICK h \in [SUBSET (1..N) -> Seq(C)] : FoldsTo(h, r, N, G)
    BY <1>1, <1>3, FoldExists
  <2>2. ASSUME NEW T \in SUBSET (1..N), T # {}
        PROVE  h[T] = TakesFitting(h[T \ {Prompt!Max(T)}], o[Prompt!Max(T)])
    <3>1. Prompt!Max(T) \in 1..N
      BY <1>1, <2>2, GreatestOf
    <3>2. h[T \ {Prompt!Max(T)}] \in Seq(C)
      OBVIOUS
    <3> QED
      BY <1>4, <2>1, <2>2, <3>1, <3>2 DEF FoldsTo
  <2>3. h[{}] = r
    BY <2>1 DEF FoldsTo
  <2>4. Eq(h)
    BY <1>1, <2>2, <2>3
  <2> HIDE DEF Eq
  <2> QED
    BY <2>4
<1> HIDE DEF iter
<1>6. iter[{}] = r
  BY <1>5
<1>7. FoldsWithin(iter, Seq(C), r, N, G)
  <2> SUFFICES ASSUME NEW T \in SUBSET (1..N), T # {}, iter[T \ {Prompt!Max(T)}] \in Seq(C)
               PROVE  iter[T] = G[<<Prompt!Max(T), iter[T \ {Prompt!Max(T)}]>>]
    BY <1>6 DEF FoldsWithin
  <2>1. Prompt!Max(T) \in 1..N
    BY <1>1, GreatestOf
  <2> QED
    BY <1>1, <1>4, <1>5, <2>1
<1> HIDE DEF Eq
<1>8. PICK k \in [0..N -> Seq(C)] : Walks(k, r, N, G, iter[1..N])
  BY <1>1, <1>3, <1>7, FoldWalks
<1>9. \A n \in 1..N : k[n - 1] \in Seq(C)
  BY <1>1
<1> QED
  BY <1>1, <1>2, <1>4, <1>8, <1>9 DEF N, Walks, SelectedWalk

\* No chunk is twice in s.
NoRepeat(s) == \A i, j \in DOMAIN s : s[i] = s[j] => i = j

\* What is in a sequence to which a chunk, or another sequence, is added.
LEMMA AppendAdds ==
    ASSUME NEW C, NEW s \in Seq(C), NEW c \in C
    PROVE  /\ Prompt!ToSet(Append(s, c)) = Prompt!ToSet(s) \cup {c}
           /\ NoRepeat(s) /\ c \notin Prompt!ToSet(s) => NoRepeat(Append(s, c))
<1> DEFINE t == Append(s, c)
<1>1. /\ DOMAIN s = 1..Len(s) /\ DOMAIN t = 1..Len(s) + 1 /\ Len(s) \in Nat
      /\ t[Len(s) + 1] = c /\ \A i \in 1..Len(s) : t[i] = s[i]
  OBVIOUS
<1> HIDE DEF t
<1>2. Prompt!ToSet(t) = Prompt!ToSet(s) \cup {c}
  <2>1. Prompt!ToSet(t) \subseteq Prompt!ToSet(s) \cup {c}
    BY <1>1 DEF Prompt!ToSet
  <2>2. Prompt!ToSet(s) \cup {c} \subseteq Prompt!ToSet(t)
    <3>1. \A i \in DOMAIN s : i \in DOMAIN t /\ t[i] = s[i]
      BY <1>1
    <3>2. Len(s) + 1 \in DOMAIN t
      BY <1>1
    <3> QED
      BY <1>1, <3>1, <3>2 DEF Prompt!ToSet
  <2> QED
    BY <2>1, <2>2
<1>3. NoRepeat(s) /\ c \notin Prompt!ToSet(s) => NoRepeat(t)
  BY <1>1 DEF NoRepeat, Prompt!ToSet
<1> QED
  BY <1>2, <1>3 DEF t

LEMMA ConcatJoins ==
    ASSUME NEW C, NEW s \in Seq(C), NEW t \in Seq(C)
    PROVE  /\ s \o t \in Seq(C)
           /\ Prompt!ToSet(s \o t) = Prompt!ToSet(s) \cup Prompt!ToSet(t)
           /\ NoRepeat(s) /\ NoRepeat(t) /\ Prompt!ToSet(s) \cap Prompt!ToSet(t) = {} =>
                NoRepeat(s \o t)
<1> DEFINE u == s \o t
<1>1. /\ DOMAIN s = 1..Len(s) /\ DOMAIN t = 1..Len(t) /\ DOMAIN u = 1..Len(s) + Len(t)
      /\ Len(s) \in Nat /\ Len(t) \in Nat /\ u \in Seq(C)
      /\ \A i \in 1..Len(s) : u[i] = s[i]
      /\ \A i \in 1..Len(t) : u[Len(s) + i] = t[i]
  OBVIOUS
<1> HIDE DEF u
<1>2. \A i \in DOMAIN u :
        \/ i \in DOMAIN s /\ u[i] = s[i]
        \/ i - Len(s) \in DOMAIN t /\ i > Len(s) /\ u[i] = t[i - Len(s)]
  BY <1>1
<1>3. /\ \A i \in DOMAIN s : i \in DOMAIN u /\ u[i] = s[i]
      /\ \A i \in DOMAIN t : Len(s) + i \in DOMAIN u /\ u[Len(s) + i] = t[i]
  BY <1>1
<1>4. Prompt!ToSet(u) = Prompt!ToSet(s) \cup Prompt!ToSet(t)
  <2>1. Prompt!ToSet(u) \subseteq Prompt!ToSet(s) \cup Prompt!ToSet(t)
    BY <1>2 DEF Prompt!ToSet
  <2>2. Prompt!ToSet(s) \cup Prompt!ToSet(t) \subseteq Prompt!ToSet(u)
    BY <1>3 DEF Prompt!ToSet
  <2> QED
    BY <2>1, <2>2
<1>5. ASSUME NoRepeat(s), NoRepeat(t), Prompt!ToSet(s) \cap Prompt!ToSet(t) = {}
      PROVE  NoRepeat(u)
  <2>1. ASSUME NEW i \in DOMAIN u, NEW j \in DOMAIN u, u[i] = u[j]
        PROVE  i = j
    <3>1. \A x \in DOMAIN s, y \in DOMAIN t : s[x] # t[y]
      BY <1>5 DEF Prompt!ToSet
    <3>2. i \in Nat /\ j \in Nat
      BY <1>1
    <3> QED
      BY <1>1, <1>2, <1>5, <2>1, <3>1, <3>2 DEF NoRepeat
  <2> QED
    BY <2>1 DEF NoRepeat
<1> QED
  BY <1>1, <1>4, <1>5 DEF u

\* The chunks of a set, each as often as it was there.
LEMMA WhereTakes ==
    ASSUME NEW C, NEW s \in Seq(C), NEW R
    PROVE  /\ Prompt!Where(s, R) \in Seq(C)
           /\ Prompt!ToSet(Prompt!Where(s, R)) = Prompt!ToSet(s) \cap R
           /\ NoRepeat(s) => NoRepeat(Prompt!Where(s, R))
<1>1. PICK k \in [0..Len(s) -> Seq(C)] : WhereWalk(k, s, R)
  BY WhereWalks
<1> DEFINE Read(n) == {s[i] : i \in 1..n}
           S == {n \in 0..Len(s) : /\ Prompt!ToSet(k[n]) = Read(n) \cap R
                                   /\ NoRepeat(s) => NoRepeat(k[n])}
<1>2. Len(s) \in Nat /\ DOMAIN s = 1..Len(s) /\ \A n \in 1..Len(s) : s[n] \in C
  OBVIOUS
<1>3. 0 \in S
  BY <1>1, <1>2 DEF WhereWalk, Prompt!ToSet, NoRepeat
<1>4. ASSUME NEW n \in 1..Len(s), n - 1 \in S
      PROVE  n \in S
  <2>1. n - 1 \in 0..Len(s) /\ n \in 0..Len(s) /\ k[n - 1] \in Seq(C) /\ s[n] \in C
    BY <1>2
  <2>2. Read(n) = Read(n - 1) \cup {s[n]}
    <3>1. 1..n = (1..n-1) \cup {n}
      OBVIOUS
    <3> QED
      BY <3>1
  <2>3. Prompt!ToSet(k[n - 1]) = Read(n - 1) \cap R /\ (NoRepeat(s) => NoRepeat(k[n - 1]))
    BY <1>4
  <2>4. NoRepeat(s) => s[n] \notin Read(n - 1)
    BY <1>2 DEF NoRepeat
  <2> HIDE DEF Read
  <2>5. CASE s[n] \in R
    <3>1. k[n] = Append(k[n - 1], s[n])
      BY <1>1, <2>5 DEF WhereWalk, Takes
    <3>2. Prompt!ToSet(k[n]) = Prompt!ToSet(k[n - 1]) \cup {s[n]}
      BY <2>1, <3>1, AppendAdds
    <3>3. NoRepeat(k[n - 1]) /\ s[n] \notin Prompt!ToSet(k[n - 1]) => NoRepeat(k[n])
      BY <2>1, <3>1, AppendAdds
    <3> QED
      BY <2>1, <2>2, <2>3, <2>4, <2>5, <3>2, <3>3
  <2>6. CASE s[n] \notin R
    <3>1. k[n] = k[n - 1]
      BY <1>1, <2>6 DEF WhereWalk, Takes
    <3> QED
      BY <2>1, <2>2, <2>3, <2>6, <3>1
  <2> QED
    BY <2>5, <2>6
<1>5. Len(s) \in S
  <2> HIDE DEF S
  <2>1. 0..Len(s) \subseteq S
    BY <1>2, <1>3, <1>4, ByInduction
  <2> QED
    BY <1>2, <2>1
<1>6. Read(Len(s)) = Prompt!ToSet(s)
  BY <1>2 DEF Prompt!ToSet
<1> QED
  BY <1>1, <1>2, <1>5, <1>6 DEF WhereWalk

\* No two chunks of s have one text.
OneEach(s) == \A i, j \in DOMAIN s : s[i].text = s[j].text => i = j

\* Every text that is not empty, once.
LEMMA DeduplicateKeeps ==
    ASSUME NEW C, NEW s \in Seq(C)
    PROVE  /\ Prompt!Deduplicate(s) \in Seq(C)
           /\ Prompt!ToSet(Prompt!Deduplicate(s)) \subseteq Prompt!ToSet(s)
           /\ Prompt!Texts(Prompt!Deduplicate(s)) = {t \in Prompt!Texts(s) : t.size # 0}
           /\ OneEach(Prompt!Deduplicate(s))
<1>1. PICK k \in [0..Len(s) -> Seq(C)] : DeduplicateWalk(k, s)
  BY DeduplicateWalks
<1> DEFINE Read(n) == {s[i] : i \in 1..n}
           Is(d, n) == /\ Prompt!ToSet(d) \subseteq Read(n)
                       /\ \A t : t \in Prompt!Texts(d) <=>
                                   t.size # 0 /\ \E c \in Read(n) : t = c.text
                       /\ OneEach(d)
           S == {n \in 0..Len(s) : Is(k[n], n)}
<1>2. Len(s) \in Nat /\ DOMAIN s = 1..Len(s) /\ \A n \in 1..Len(s) : s[n] \in C
  OBVIOUS
<1>3. 0 \in S
  <2>1. k[0] = <<>> /\ Read(0) = {}
    BY <1>1, <1>2 DEF DeduplicateWalk
  <2> HIDE DEF Read
  <2> QED
    BY <1>2, <2>1 DEF Prompt!ToSet, Prompt!Texts, OneEach
<1>4. ASSUME NEW n \in 1..Len(s), n - 1 \in S
      PROVE  n \in S
  <2>1. n - 1 \in 0..Len(s) /\ n \in 0..Len(s) /\ k[n - 1] \in Seq(C) /\ s[n] \in C
    BY <1>2
  <2>2. Read(n) = Read(n - 1) \cup {s[n]}
    <3>1. 1..n = (1..n-1) \cup {n}
      OBVIOUS
    <3> QED
      BY <3>1
  <2>3. Is(k[n - 1], n - 1)
    BY <1>4
  <2> HIDE DEF Read
  <2>4. CASE s[n].text.size = 0 \/ s[n].text \in Prompt!Texts(k[n - 1])
    <3>1. k[n] = k[n - 1]
      BY <1>1, <2>4 DEF DeduplicateWalk, TakesNew
    <3>2. Is(k[n], n)
      BY <2>2, <2>3, <2>4, <3>1
    <3> QED
      BY <2>1, <3>2
  <2>5. CASE s[n].text.size # 0 /\ s[n].text \notin Prompt!Texts(k[n - 1])
    <3> DEFINE d == k[n - 1]
    <3>1. k[n] = Append(d, s[n])
      BY <1>1, <2>5 DEF DeduplicateWalk, TakesNew
    <3>2. /\ DOMAIN d = 1..Len(d) /\ DOMAIN Append(d, s[n]) = 1..Len(d) + 1 /\ Len(d) \in Nat
          /\ Append(d, s[n])[Len(d) + 1] = s[n]
          /\ \A i \in 1..Len(d) : Append(d, s[n])[i] = d[i]
      BY <2>1
    <3>3. Prompt!ToSet(k[n]) = Prompt!ToSet(d) \cup {s[n]}
      BY <2>1, <3>1, AppendAdds
    <3>4. Prompt!Texts(k[n]) = Prompt!Texts(d) \cup {s[n].text}
      <4>1. \A u : Prompt!Texts(u) = {c.text : c \in Prompt!ToSet(u)}
        BY DEF Prompt!Texts, Prompt!ToSet
      <4> QED
        BY <3>3, <4>1
    <3>5. OneEach(k[n])
      BY <2>3, <2>5, <3>1, <3>2 DEF OneEach, Prompt!Texts
    <3>6. Is(k[n], n)
      BY <2>2, <2>3, <2>5, <3>3, <3>4, <3>5
    <3> QED
      BY <2>1, <3>6
  <2> QED
    BY <2>4, <2>5
<1>5. Len(s) \in S
  <2> HIDE DEF S
  <2>1. 0..Len(s) \subseteq S
    BY <1>2, <1>3, <1>4, ByInduction
  <2> QED
    BY <1>2, <2>1
<1>6. Read(Len(s)) = Prompt!ToSet(s)
  BY <1>2 DEF Prompt!ToSet
<1>7. \A t : t \in Prompt!Texts(s) <=> \E c \in Prompt!ToSet(s) : t = c.text
  BY DEF Prompt!Texts, Prompt!ToSet
<1>8. k[Len(s)] = Prompt!Deduplicate(s) /\ k[Len(s)] \in Seq(C)
  BY <1>1, <1>2 DEF DeduplicateWalk
<1> HIDE DEF Read
<1>9. Is(Prompt!Deduplicate(s), Len(s))
  BY <1>5, <1>8
<1>10. Prompt!Texts(Prompt!Deduplicate(s)) = {t \in Prompt!Texts(s) : t.size # 0}
  BY <1>6, <1>7, <1>9
<1> QED
  BY <1>6, <1>8, <1>9, <1>10

\* All optional chunks are sorted.
LEMMA OptionalSorted ==
    ASSUME NEW C, NEW s \in Seq(C),
           \A c \in Prompt!ToSet(s) : c.required \/ c.priority \in {5, 10, 15, 20}
    PROVE  /\ Prompt!OptionalOf(s) \in Seq(C)
           /\ Prompt!ToSet(Prompt!OptionalOf(s)) = {c \in Prompt!ToSet(s) : ~c.required}
           /\ NoRepeat(s) => NoRepeat(Prompt!OptionalOf(s))
<1> DEFINE w(p) == Prompt!WithPriority(s, p)
           O(p) == {c \in Prompt!ToSet(s) : ~c.required /\ c.priority = p}
<1>1. ASSUME NEW p
      PROVE  w(p) \in Seq(C) /\ Prompt!ToSet(w(p)) = O(p) /\ (NoRepeat(s) => NoRepeat(w(p)))
  <2>1. Prompt!ToSet(s) \cap O(p) = O(p)
    OBVIOUS
  <2> DEFINE R == O(p)
  <2>2. w(p) = Prompt!Where(s, R)
    BY DEF Prompt!WithPriority
  <2> HIDE DEF R, w
  <2>3. /\ Prompt!Where(s, R) \in Seq(C)
        /\ Prompt!ToSet(Prompt!Where(s, R)) = Prompt!ToSet(s) \cap R
        /\ NoRepeat(s) => NoRepeat(Prompt!Where(s, R))
    BY WhereTakes
  <2> QED
    BY <2>1, <2>2, <2>3 DEF R
<1>2. \A p, q : p # q => O(p) \cap O(q) = {}
  OBVIOUS
<1>3. {c \in Prompt!ToSet(s) : ~c.required} = ((O(5) \cup O(10)) \cup O(15)) \cup O(20)
  OBVIOUS
<1> DEFINE two == w(5) \o w(10)
           three == two \o w(15)
           all == three \o w(20)
<1>4. Prompt!OptionalOf(s) = all
  BY DEF Prompt!OptionalOf
<1> HIDE DEF w, O
<1>5. /\ two \in Seq(C) /\ Prompt!ToSet(two) = O(5) \cup O(10)
      /\ NoRepeat(s) => NoRepeat(two)
  BY <1>1, <1>2, ConcatJoins
<1>6. /\ three \in Seq(C) /\ Prompt!ToSet(three) = (O(5) \cup O(10)) \cup O(15)
      /\ NoRepeat(s) => NoRepeat(three)
  <2>1. (O(5) \cup O(10)) \cap O(15) = {}
    BY <1>2
  <2> HIDE DEF two
  <2> QED
    BY <1>1, <1>5, <2>1, ConcatJoins
<1>7. /\ all \in Seq(C) /\ Prompt!ToSet(all) = ((O(5) \cup O(10)) \cup O(15)) \cup O(20)
      /\ NoRepeat(s) => NoRepeat(all)
  <2>1. ((O(5) \cup O(10)) \cup O(15)) \cap O(20) = {}
    BY <1>2
  <2> HIDE DEF three
  <2> QED
    BY <1>1, <1>6, <2>1, ConcatJoins
<1> QED
  BY <1>3, <1>4, <1>7

\* One more chunk counts with its size.
LEMMA TotalOfAppend ==
    ASSUME NEW C, Counted(C), NEW s \in Seq(C), NEW c \in C
    PROVE  /\ Prompt!Total(s) \in Nat
           /\ Prompt!Total(Append(s, c)) = Prompt!Total(s) + c.text.size
<1> DEFINE t == Append(s, c)
           N == Len(s)
<1>1. /\ t \in Seq(C) /\ Len(t) = N + 1 /\ N \in Nat
      /\ t[N + 1] = c /\ \A i \in 1..N : t[i] = s[i]
  OBVIOUS
<1>2. PICK k \in [0..N -> Nat] : TotalWalk(k, s)
  BY TotalWalks
<1> HIDE DEF t
<1>3. PICK l \in [0..Len(t) -> Nat] : TotalWalk(l, t)
  BY <1>1, TotalWalks
<1> DEFINE S == {n \in 0..N : l[n] = k[n]}
<1>4. 0 \in S
  BY <1>1, <1>2, <1>3 DEF TotalWalk
<1>5. ASSUME NEW n \in 1..N, n - 1 \in S
      PROVE  n \in S
  <2>1. k[n] = k[n - 1] + s[n].text.size
    BY <1>2 DEF TotalWalk
  <2>2. n \in 1..Len(t)
    BY <1>1
  <2>3. l[n] = l[n - 1] + t[n].text.size
    BY <1>3, <2>2 DEF TotalWalk
  <2>4. n \in 0..N /\ t[n] = s[n] /\ l[n - 1] = k[n - 1]
    BY <1>1, <1>5
  <2> QED
    BY <2>1, <2>3, <2>4
<1>6. N \in S
  <2> HIDE DEF S
  <2>1. 0..N \subseteq S
    BY <1>1, <1>4, <1>5, ByInduction
  <2> QED
    BY <1>1, <2>1
<1>7. N + 1 \in 1..Len(t) /\ N \in 0..N
  BY <1>1
<1>8. l[N + 1] = l[N] + t[N + 1].text.size
  <2>1. l[N + 1] = l[N + 1 - 1] + t[N + 1].text.size
    BY <1>3, <1>7 DEF TotalWalk
  <2>2. N + 1 - 1 = N
    BY <1>1
  <2> QED
    BY <2>1, <2>2
<1>9. Prompt!Total(s) = k[N] /\ k[N] \in Nat
  BY <1>2, <1>7 DEF TotalWalk
<1>10. Prompt!Total(t) = l[N + 1]
  BY <1>1, <1>3 DEF TotalWalk
<1> QED
  BY <1>1, <1>6, <1>8, <1>9, <1>10 DEF t

\* What is chosen: all that is required, and of what is optional all that still fits.
LEMMA SelectedFits ==
    ASSUME NEW C, Counted(C), NEW s \in Seq(C), Budget \in Nat,
           NoRepeat(s),
           \A c \in Prompt!ToSet(s) : c.required \/ c.priority \in {5, 10, 15, 20}
    PROVE  LET kept == Prompt!Selected(s) IN
             /\ kept \in Seq(C) /\ NoRepeat(kept)
             /\ Prompt!ToSet(kept) \subseteq Prompt!ToSet(s)
             /\ \A c \in Prompt!ToSet(s) : c.required => c \in Prompt!ToSet(kept)
             /\ \A c \in Prompt!ToSet(s) \ Prompt!ToSet(kept) : ~Prompt!Fits(kept, c)
             /\ Prompt!Total(kept) > Budget => kept = Prompt!RequiredOf(s)
<1> DEFINE r == Prompt!RequiredOf(s)
           o == Prompt!OptionalOf(s)
           N == Len(o)
           A == Prompt!ToSet(s)
<1>1. /\ r \in Seq(C) /\ NoRepeat(r)
      /\ Prompt!ToSet(r) = {c \in A : c.required}
  <2> DEFINE R == {c \in A : c.required}
  <2>1. Prompt!RequiredOf(s) = Prompt!Where(s, R)
    BY DEF Prompt!RequiredOf
  <2>2. A \cap R = R
    OBVIOUS
  <2> HIDE DEF R
  <2>3. /\ Prompt!Where(s, R) \in Seq(C)
        /\ Prompt!ToSet(Prompt!Where(s, R)) = Prompt!ToSet(s) \cap R
        /\ NoRepeat(s) => NoRepeat(Prompt!Where(s, R))
    BY WhereTakes
  <2> QED
    BY <2>1, <2>2, <2>3 DEF R
<1>2. o \in Seq(C) /\ NoRepeat(o) /\ Prompt!ToSet(o) = {c \in A : ~c.required}
  BY OptionalSorted
<1>3. PICK k \in [0..N -> Seq(C)] : SelectedWalk(k, s)
  BY <1>1, <1>2, SelectedWalks
<1>4. /\ k[0] = r /\ k[N] = Prompt!Selected(s)
      /\ \A n \in 1..N : k[n] = TakesFitting(k[n - 1], o[n])
  BY <1>3 DEF SelectedWalk
<1> HIDE DEF r, o, A
<1>5. N \in Nat /\ DOMAIN o = 1..N /\ \A n \in 1..N : o[n] \in C
  BY <1>2
<1>6. \A n \in 1..N : o[n] \in A /\ ~o[n].required /\ o[n] \notin Prompt!ToSet(r)
  BY <1>1, <1>2, <1>5 DEF Prompt!ToSet
<1> HIDE DEF N
<1> DEFINE Read(n) == {o[i] : i \in 1..n}
           Is(d, n) == /\ NoRepeat(d)
                       /\ Prompt!ToSet(r) \subseteq Prompt!ToSet(d)
                       /\ Prompt!ToSet(d) \subseteq Prompt!ToSet(r) \cup Read(n)
                       /\ \A c \in Read(n) \ Prompt!ToSet(d) : ~Prompt!Fits(d, c)
                       /\ Prompt!Total(d) > Budget => d = r
           S == {n \in 0..N : Is(k[n], n)}
<1>7. 0 \in S
  <2>1. Read(0) = {}
    OBVIOUS
  <2> HIDE DEF Read
  <2> QED
    BY <1>1, <1>4, <1>5, <2>1
<1>8. ASSUME NEW n \in 1..N, n - 1 \in S
      PROVE  n \in S
  <2> DEFINE d == k[n - 1]
  <2>1. n - 1 \in 0..N /\ n \in 0..N /\ d \in Seq(C) /\ o[n] \in C
    BY <1>5
  <2>2. Read(n) = Read(n - 1) \cup {o[n]}
    <3>1. 1..n = (1..n-1) \cup {n}
      BY <1>5
    <3> QED
      BY <3>1
  <2>3. Is(d, n - 1)
    BY <1>8
  <2>4. o[n] \notin Read(n - 1)
    <3>1. \A i \in 1..n-1 : i \in DOMAIN o /\ n \in DOMAIN o /\ i # n
      BY <1>5
    <3> QED
      BY <1>2, <3>1 DEF NoRepeat
  <2>5. Read(n - 1) \subseteq C
    BY <1>5
  <2>6. k[n] = TakesFitting(d, o[n])
    BY <1>4
  <2> HIDE DEF Read, d
  <2>7. CASE Prompt!Fits(d, o[n])
    <3>1. k[n] = Append(d, o[n])
      BY <2>6, <2>7 DEF TakesFitting
    <3>2. /\ Prompt!ToSet(k[n]) = Prompt!ToSet(d) \cup {o[n]}
          /\ o[n] \notin Prompt!ToSet(d) => (NoRepeat(d) => NoRepeat(k[n]))
      BY <2>1, <3>1, AppendAdds
    <3>3. Prompt!Total(d) \in Nat /\ Prompt!Total(k[n]) = Prompt!Total(d) + o[n].text.size
      BY <2>1, <3>1, TotalOfAppend
    <3>4. Prompt!Total(k[n]) <= Budget
      BY <2>1, <2>7, <3>3 DEF Prompt!Fits, Counted
    <3>5. ASSUME NEW c \in Read(n) \ Prompt!ToSet(k[n])
          PROVE  ~Prompt!Fits(k[n], c)
      <4>1. c \in Read(n - 1) \ Prompt!ToSet(d)
        BY <2>2, <3>2, <3>5
      <4>2. ~Prompt!Fits(d, c)
        BY <2>3, <4>1
      <4>3. c.text.size \in Nat /\ o[n].text.size \in Nat
        BY <2>1, <2>5, <4>1 DEF Counted
      <4> QED
        BY <3>3, <4>2, <4>3 DEF Prompt!Fits
    <3>6. NoRepeat(k[n])
      BY <1>6, <2>3, <2>4, <3>2
    <3>7. ~(Prompt!Total(k[n]) > Budget)
      BY <2>1, <3>3, <3>4 DEF Counted
    <3>8. Is(k[n], n)
      BY <2>2, <2>3, <3>2, <3>5, <3>6, <3>7
    <3> HIDE DEF Is
    <3> QED
      BY <2>1, <3>8
  <2>8. CASE ~Prompt!Fits(d, o[n])
    <3>1. k[n] = d
      BY <2>6, <2>8 DEF TakesFitting
    <3>2. Is(k[n], n)
      BY <2>2, <2>3, <2>8, <3>1
    <3> HIDE DEF Is
    <3> QED
      BY <2>1, <3>2
  <2> QED
    BY <2>7, <2>8
<1>9. N \in S
  <2> HIDE DEF S
  <2>1. 0..N \subseteq S
    BY <1>5, <1>7, <1>8, ByInduction
  <2> QED
    BY <1>5, <2>1
<1>10. Read(N) = Prompt!ToSet(o)
  BY <1>5 DEF Prompt!ToSet
<1> HIDE DEF Read
<1>11. Is(Prompt!Selected(s), N) /\ Prompt!Selected(s) \in Seq(C)
  BY <1>4, <1>5, <1>9
<1>12. A = Prompt!ToSet(r) \cup Prompt!ToSet(o)
  BY <1>1, <1>2
<1> QED
  BY <1>1, <1>2, <1>10, <1>11, <1>12 DEF r, A

-----------------------------------------------------------------------------
(* The prompt.                                                             *)

\* What may be read for the purpose of the run.
Readable == UNION {Prompt!Readings(p) : p \in Prompt!ToSet(Prompt!Parts)}

\* What Assemble makes of what was read.
Made ==
    LET unique == Prompt!Deduplicate(chunks)
        kept   == Prompt!Selected(unique)
    IN  [done     |-> TRUE,
         included |-> kept,
         omitted  |-> Prompt!Where(Prompt!OptionalOf(unique),
                                   Prompt!ToSet(unique) \ Prompt!ToSet(kept)),
         tokens   |-> Prompt!Accounted(kept),
         over     |-> Prompt!Accounted(Prompt!RequiredOf(unique)) > Budget]

\* Every part that may not be absent was read as far as the parts were looked at.
PartsAreThere ==
    \A i \in 1..at : ~Prompt!MayBeAbsent(Prompt!Parts[i]) =>
       \E c \in Prompt!ToSet(chunks) : c \in Prompt!Readings(Prompt!Parts[i])

PromptInv ==
    /\ purpose \in Prompt!Purposes /\ cause \in Prompt!Causes /\ continued \in BOOLEAN
    /\ at \in 0..Len(Prompt!Parts)
    /\ chunks \in Seq(Readable)
    /\ PartsAreThere
    /\ manifest = Prompt!NoManifest \/ (at = Len(Prompt!Parts) /\ manifest = Made)

\* The names of the parts.
LEMMA PartsAreNamed ==
    /\ Len(Prompt!Parts) \in 0..Len(Prompt!TaskParts)
    /\ Prompt!ToSet(Prompt!Parts) \subseteq
         {"Base", "Skill", "Instructions", "Experience", "Workspace", "Quality", "Reviews",
          "Integration", "Question", "Discussion", "Plan", "Clarification"}
<1> DEFINE Names == {"Base", "Skill", "Instructions", "Experience", "Workspace", "Quality",
                     "Reviews", "Integration", "Question", "Discussion", "Plan",
                     "Clarification"}
<1>1. /\ Prompt!TaskParts \in Seq(Names) /\ Len(Prompt!TaskParts) = 11
      /\ Prompt!PlanningParts \in Seq(Names) /\ Len(Prompt!PlanningParts) = 7
  BY DEF Prompt!PlanningParts, Prompt!TaskParts
<1>2. Prompt!Parts \in Seq(Names) /\ Len(Prompt!Parts) \in {7, 11}
  BY <1>1 DEF Prompt!Parts
<1> HIDE DEF Names
<1>3. \A i \in DOMAIN Prompt!Parts : Prompt!Parts[i] \in Names
  BY <1>2
<1> QED
  BY <1>1, <1>2, <1>3 DEF Names, Prompt!ToSet

\* What a part may be.
LEMMA ReadingsAreChunks ==
    ASSUME NEW p \in {"Base", "Skill", "Instructions", "Experience", "Workspace", "Quality",
                      "Reviews", "Integration", "Question", "Discussion", "Plan",
                      "Clarification"},
           NEW c \in Prompt!Readings(p)
    PROVE  /\ c.source = p /\ c.required \in BOOLEAN
           /\ c.text.size \in Sizes \cup {0, Needed} /\ c.text.size \in Nat
           /\ c.text.size = 0 <=> c.text = Prompt!Empty
           /\ c.text.name \in {p, "Shared", "Empty"}
           /\ c.priority \in {0, 5, 10, 15, 20}
           /\ c.required \/ c.priority \in {5, 10, 15, 20}
           /\ p \in {"Integration", "Question", "Clarification"} => c.required
           /\ p = "Reviews" /\ purpose = "REVISION" => c.required
           /\ p \in {"Integration", "Question", "Clarification", "Reviews"} =>
                c.text.name = p /\ c.text.size # 0
<1>1. Needed \in Nat \ {0} /\ Sizes \subseteq Nat \ {0}
  BY AgentConstants DEF Prompt!ContextAssumption
<1> DEFINE IsText(t, names) ==
      /\ t.size \in Sizes \cup {0, Needed} /\ t.size \in Nat /\ t.name \in names
      /\ t.size = 0 <=> t = Prompt!Empty
<1>2. \A q : \A t \in Prompt!Own(q) : IsText(t, {q}) /\ t.size # 0
  BY <1>1 DEF Prompt!Own, Prompt!Empty
<1>3. \A q : \A t \in Prompt!File(q) \cup {Prompt!Empty} : IsText(t, {q, "Shared", "Empty"})
  <2>1. IsText(Prompt!Empty, {"Empty"})
    BY DEF Prompt!Empty
  <2>2. \A t \in {[name |-> "Shared", size |-> n] : n \in Sizes} : IsText(t, {"Shared"})
    BY <1>1 DEF Prompt!Empty
  <2> HIDE DEF IsText
  <2>3. \A q : \A t \in Prompt!File(q) \cup {Prompt!Empty} :
          IsText(t, {q}) \/ IsText(t, {"Shared"}) \/ IsText(t, {"Empty"})
    BY <1>2, <2>1, <2>2 DEF Prompt!File
  <2> QED
    BY <2>3 DEF IsText
<1>5. IsText([name |-> p, size |-> Needed], {p}) /\ Needed # 0
  BY <1>1 DEF Prompt!Empty
<1> HIDE DEF IsText
<1>6. CASE p = "Skill"
  <2>1. PICK t \in Prompt!File(p), req \in BOOLEAN : c = Prompt!Chunk(p, t, req, 5)
    BY <1>6 DEF Prompt!Readings
  <2>2. c.source = p /\ c.text = t /\ c.required = req /\ c.priority = 5
    BY <2>1 DEF Prompt!Chunk
  <2> QED
    BY <1>3, <1>6, <2>2 DEF IsText
<1>7. CASE p = "Instructions"
  <2>1. Prompt!Readings(p) = {Prompt!Chunk(p, t, TRUE, 0) : t \in Prompt!File(p) \cup {Prompt!Empty}}
    BY <1>7 DEF Prompt!Readings
  <2>2. PICK t \in Prompt!File(p) \cup {Prompt!Empty} : c = Prompt!Chunk(p, t, TRUE, 0)
    BY <2>1
  <2>3. c.source = p /\ c.text = t /\ c.required = TRUE /\ c.priority = 0
    BY <2>2 DEF Prompt!Chunk
  <2>4. IsText(t, {p, "Shared", "Empty"})
    BY <1>3
  <2> QED
    BY <1>7, <2>3, <2>4 DEF IsText
<1>8. CASE p = "Experience"
  <2>1. Prompt!Readings(p) = {Prompt!Chunk(p, t, FALSE, 15) : t \in Prompt!Own(p)}
    BY <1>8 DEF Prompt!Readings
  <2>2. PICK t \in Prompt!Own(p) : c = Prompt!Chunk(p, t, FALSE, 15)
    BY <2>1
  <2>3. c.source = p /\ c.text = t /\ c.required = FALSE /\ c.priority = 15
    BY <2>2 DEF Prompt!Chunk
  <2>4. IsText(t, {p}) /\ t.size # 0
    BY <1>2
  <2> QED
    BY <1>8, <2>3, <2>4 DEF IsText
<1>9. CASE p = "Reviews"
  <2>1. Prompt!Readings(p) = {Prompt!Chunk(p, t, purpose = "REVISION", 10) : t \in Prompt!Own(p)}
    BY <1>9 DEF Prompt!Readings, Prompt!ReviewChunks
  <2>2. PICK t \in Prompt!Own(p) : c = Prompt!Chunk(p, t, purpose = "REVISION", 10)
    BY <2>1
  <2>3. c.source = p /\ c.text = t /\ c.required = (purpose = "REVISION") /\ c.priority = 10
    BY <2>2 DEF Prompt!Chunk
  <2>4. IsText(t, {p}) /\ t.size # 0
    BY <1>2
  <2> QED
    BY <1>9, <2>3, <2>4 DEF IsText
<1>10. CASE p = "Discussion"
  <2>1. Prompt!Readings(p) = {Prompt!Chunk(p, t, purpose = "PLANNING", IF purpose = "PLANNING" THEN 0 ELSE 20) : t \in Prompt!Own(p)}
    BY <1>10 DEF Prompt!Readings, Prompt!DiscussionChunks
  <2>2. PICK t \in Prompt!Own(p) : c = Prompt!Chunk(p, t, purpose = "PLANNING", IF purpose = "PLANNING" THEN 0 ELSE 20)
    BY <2>1
  <2>3. c.source = p /\ c.text = t /\ c.required = (purpose = "PLANNING") /\ c.priority = IF purpose = "PLANNING" THEN 0 ELSE 20
    BY <2>2 DEF Prompt!Chunk
  <2>4. IsText(t, {p}) /\ t.size # 0
    BY <1>2
  <2> QED
    BY <1>10, <2>3, <2>4 DEF IsText
<1>11. CASE p \notin {"Skill", "Instructions", "Experience", "Reviews", "Discussion"}
  <2> DEFINE t == [name |-> p, size |-> Needed]
  <2>1. Prompt!Readings(p) = {Prompt!Chunk(p, t, TRUE, 0)}
    <3>1. /\ p # "Skill" /\ p # "Instructions" /\ p # "Experience" /\ p # "Reviews"
          /\ p # "Discussion"
      BY <1>11
    <3> QED
      BY <3>1 DEF Prompt!Readings
  <2>2. c.source = p /\ c.text = t /\ c.required = TRUE /\ c.priority = 0
    BY <2>1 DEF Prompt!Chunk
  <2>3. IsText(t, {p}) /\ t.size # 0
    BY <1>5
  <2> HIDE DEF t
  <2> QED
    BY <1>11, <2>2, <2>3 DEF IsText
<1> QED
  BY <1>6, <1>7, <1>8, <1>9, <1>10, <1>11

LEMMA PromptStarts == Prompt!Init => PromptInv
<1> SUFFICES ASSUME Prompt!Init PROVE PromptInv
  OBVIOUS
<1>1. purpose \in Prompt!Purposes /\ cause \in Prompt!Causes /\ continued \in BOOLEAN
  BY DEF Prompt!Init, Prompt!Causes
<1>2. at = 0 /\ chunks = <<>> /\ manifest = Prompt!NoManifest
  BY DEF Prompt!Init
<1>3. Len(Prompt!Parts) \in Nat
  BY PartsAreNamed
<1> QED
  BY <1>1, <1>2, <1>3 DEF PromptInv, PartsAreThere

LEMMA PromptKeeps == PromptInv /\ [Prompt!Next]_Prompt!vars => PromptInv'
<1> SUFFICES ASSUME PromptInv, [Prompt!Next]_Prompt!vars PROVE PromptInv'
  OBVIOUS
<1>1. UNCHANGED <<purpose, cause, continued>>
  BY DEF Prompt!Next, Prompt!ReadPart, Prompt!Assemble, Prompt!vars
<1>2. Prompt!Parts' = Prompt!Parts
  BY <1>1 DEF Prompt!Parts
<1>3. \A p : Prompt!Readings(p)' = Prompt!Readings(p)
  BY <1>1 DEF Prompt!Readings, Prompt!ReviewChunks, Prompt!DiscussionChunks
<1>4. \A p : Prompt!MayBeAbsent(p)' <=> Prompt!MayBeAbsent(p)
  BY <1>1 DEF Prompt!MayBeAbsent
<1>5. Readable' = Readable
  BY <1>2, <1>3 DEF Readable
<1>6. /\ Len(Prompt!Parts) \in Nat
      /\ \A i \in 1..Len(Prompt!Parts) : Prompt!Parts[i] \in Prompt!ToSet(Prompt!Parts)
  BY PartsAreNamed DEF Prompt!ToSet
<1>7. CASE Prompt!ReadPart
  <2> DEFINE q == Prompt!Parts[at + 1]
  <2>1. at + 1 \in 1..Len(Prompt!Parts) /\ at' = at + 1 /\ UNCHANGED manifest
        /\ at # Len(Prompt!Parts)
    BY <1>6, <1>7 DEF Prompt!ReadPart, PromptInv
  <2>2. \/ \E c \in Prompt!Readings(q) : chunks' = Append(chunks, c)
        \/ Prompt!MayBeAbsent(q) /\ UNCHANGED chunks
    BY <1>7 DEF Prompt!ReadPart
  <2>3. Prompt!Readings(q) \subseteq Readable
    BY <1>6, <2>1 DEF Readable
  <2>4. /\ chunks' \in Seq(Readable)
        /\ Prompt!ToSet(chunks) \subseteq Prompt!ToSet(chunks')
        /\ ~Prompt!MayBeAbsent(q) => \E c \in Prompt!ToSet(chunks') : c \in Prompt!Readings(q)
    <3>1. CASE \E c \in Prompt!Readings(q) : chunks' = Append(chunks, c)
      <4>1. PICK c \in Prompt!Readings(q) : chunks' = Append(chunks, c)
        BY <3>1
      <4>2. c \in Readable /\ chunks \in Seq(Readable)
        BY <2>3 DEF PromptInv
      <4>3. Prompt!ToSet(chunks') = Prompt!ToSet(chunks) \cup {c}
        BY <4>1, <4>2, AppendAdds
      <4> QED
        BY <4>1, <4>2, <4>3
    <3>2. CASE Prompt!MayBeAbsent(q) /\ UNCHANGED chunks
      BY <3>2 DEF PromptInv
    <3> QED
      BY <2>2, <3>1, <3>2
  <2>5. ASSUME NEW i \in 1..at + 1, ~Prompt!MayBeAbsent(Prompt!Parts[i])
        PROVE  \E c \in Prompt!ToSet(chunks') : c \in Prompt!Readings(Prompt!Parts[i])
    <3>1. CASE i = at + 1
      BY <2>4, <2>5, <3>1
    <3>2. CASE i # at + 1
      <4>1. i \in 1..at
        BY <3>2 DEF PromptInv
      <4> QED
        BY <2>4, <2>5, <4>1 DEF PromptInv, PartsAreThere
    <3> QED
      BY <3>1, <3>2
  <2>6. PartsAreThere'
    BY <1>2, <1>3, <1>4, <2>1, <2>5 DEF PartsAreThere
  <2>7. manifest' = Prompt!NoManifest
    BY <2>1 DEF PromptInv
  <2> QED
    BY <1>1, <1>2, <1>5, <2>1, <2>4, <2>6, <2>7 DEF PromptInv, Prompt!NoManifest
<1>8. CASE Prompt!Assemble \/ UNCHANGED Prompt!vars
  <2>1. UNCHANGED <<at, chunks>>
    BY <1>8 DEF Prompt!Assemble, Prompt!vars
  <2>2. PartsAreThere'
    BY <1>2, <1>3, <1>4, <2>1 DEF PromptInv, PartsAreThere
  <2>3. Made' = Made
    BY <2>1 DEF Made
  <2>4. manifest' = manifest \/ (at = Len(Prompt!Parts) /\ manifest' = Made)
    BY <1>8 DEF Prompt!Assemble, Prompt!vars, Made
  <2>5. Prompt!NoManifest' = Prompt!NoManifest
    BY DEF Prompt!NoManifest
  <2> QED
    BY <1>1, <1>2, <1>5, <2>1, <2>2, <2>3, <2>4, <2>5 DEF PromptInv
<1> QED
  BY <1>7, <1>8 DEF Prompt!Next

\* What was read is what the lemmas on the choice are about.
LEMMA ReadableIsCounted ==
    /\ Counted(Readable) /\ Budget \in Nat
    /\ \A c \in Readable :
         /\ c.required \in BOOLEAN
         /\ c.required \/ c.priority \in {5, 10, 15, 20}
         /\ c.text.size = 0 <=> c.text = Prompt!Empty
         /\ c.text.size \in Sizes \cup {0, Needed} /\ c.priority \in {0, 5, 10, 15, 20}
<1>1. Budget \in Nat
  BY AgentConstants DEF Prompt!ContextAssumption
<1> QED
  BY <1>1, PartsAreNamed, ReadingsAreChunks DEF Readable, Counted

\* What is chosen of a prompt, and what is left.
LEMMA MadeOf ==
    ASSUME PromptInv
    PROVE  LET u == Prompt!Deduplicate(chunks)
               k == Made.included
               o == Made.omitted IN
             /\ u \in Seq(Readable) /\ k \in Seq(Readable) /\ o \in Seq(Readable)
             /\ OneEach(u) /\ NoRepeat(k) /\ NoRepeat(o)
             /\ Prompt!ToSet(k) \cap Prompt!ToSet(o) = {}
             /\ Prompt!ToSet(k) \cup Prompt!ToSet(o) = Prompt!ToSet(u)
             /\ Prompt!Texts(u) = {t \in Prompt!Texts(chunks) : t.size # 0}
             /\ \A c \in Prompt!ToSet(u) : c.required => c \in Prompt!ToSet(k)
             /\ \A c \in Prompt!ToSet(o) : ~Prompt!Fits(k, c)
             /\ Prompt!Total(k) > Budget =>
                  Made.over /\ \A c \in Prompt!ToSet(k) : c.required
             /\ Made.tokens = Prompt!Total(k)
<1> DEFINE u == Prompt!Deduplicate(chunks)
           k == Prompt!Selected(u)
           R == Prompt!ToSet(u) \ Prompt!ToSet(k)
           opt == Prompt!OptionalOf(u)
           o == Prompt!Where(opt, R)
           req == {c \in Prompt!ToSet(u) : c.required}
<1>1. /\ Made.included = k /\ Made.omitted = o /\ Made.tokens = Prompt!Total(k)
      /\ Made.over = (Prompt!Total(Prompt!RequiredOf(u)) > Budget)
  BY DEF Made, Prompt!Accounted
<1>2. chunks \in Seq(Readable)
  BY DEF PromptInv
<1>3. /\ u \in Seq(Readable) /\ OneEach(u)
      /\ Prompt!Texts(u) = {t \in Prompt!Texts(chunks) : t.size # 0}
  BY <1>2, DeduplicateKeeps
<1> HIDE DEF u
<1>4. NoRepeat(u) /\ Prompt!ToSet(u) \subseteq Readable
  BY <1>3 DEF OneEach, NoRepeat, Prompt!ToSet
<1>5. \A c \in Prompt!ToSet(u) : c.required \/ c.priority \in {5, 10, 15, 20}
  BY <1>4, ReadableIsCounted
<1>6. /\ k \in Seq(Readable) /\ NoRepeat(k)
      /\ Prompt!ToSet(k) \subseteq Prompt!ToSet(u)
      /\ \A c \in Prompt!ToSet(u) : c.required => c \in Prompt!ToSet(k)
      /\ \A c \in Prompt!ToSet(u) \ Prompt!ToSet(k) : ~Prompt!Fits(k, c)
      /\ Prompt!Total(k) > Budget => k = Prompt!RequiredOf(u)
  BY <1>3, <1>4, <1>5, ReadableIsCounted, SelectedFits
<1>7. /\ opt \in Seq(Readable) /\ NoRepeat(opt)
      /\ Prompt!ToSet(opt) = {c \in Prompt!ToSet(u) : ~c.required}
  BY <1>3, <1>4, <1>5, OptionalSorted
<1> HIDE DEF k, opt
<1>8. /\ o \in Seq(Readable) /\ NoRepeat(o)
      /\ Prompt!ToSet(o) = Prompt!ToSet(opt) \cap R
  <2> HIDE DEF R
  <2> QED
    BY <1>7, WhereTakes
<1>9. Prompt!ToSet(o) = R
  BY <1>6, <1>7, <1>8
<1>10. \A c \in Prompt!ToSet(Prompt!RequiredOf(u)) : c.required
  <2>1. Prompt!RequiredOf(u) = Prompt!Where(u, req)
    BY DEF Prompt!RequiredOf
  <2> HIDE DEF req
  <2>2. Prompt!ToSet(Prompt!Where(u, req)) = Prompt!ToSet(u) \cap req
    BY <1>3, WhereTakes
  <2> QED
    BY <2>1, <2>2 DEF req
<1> HIDE DEF o
<1> QED
  BY <1>1, <1>3, <1>6, <1>8, <1>9, <1>10 DEF u

\* There are as many texts as chunks.
LEMMA TextsOfOneEach ==
    ASSUME NEW C, NEW s \in Seq(C), OneEach(s)
    PROVE  Cardinality(Prompt!Texts(s)) = Len(s)
<1> DEFINE f == [i \in 1..Len(s) |-> s[i].text]
<1>1. DOMAIN s = 1..Len(s) /\ Len(s) \in Nat
  OBVIOUS
<1>2. f \in Bijection(1..Len(s), Prompt!Texts(s))
  BY <1>1 DEF OneEach, Prompt!Texts, Bijection, Injection, Surjection, IsInjective
<1>3. ExistsBijection(1..Len(s), Prompt!Texts(s))
  BY <1>2 DEF ExistsBijection
<1> QED
  BY <1>1, <1>3, FS_CountingElements

\* Of what the run was started for, what was read is chosen.
LEMMA ReasonIsChosen ==
    ASSUME PromptInv,
           NEW p \in {"Reviews", "Integration", "Question", "Clarification"},
           p = "Reviews" => purpose = "REVISION",
           NEW c \in Prompt!ToSet(chunks), c \in Prompt!Readings(p)
    PROVE  \E d \in Prompt!ToSet(Made.included) : d.source = p
<1> DEFINE u == Prompt!Deduplicate(chunks)
<1>1. c.text.name = p /\ c.text.size # 0
  BY ReadingsAreChunks
<1>2. c.text \in Prompt!Texts(u)
  <2>1. c.text \in Prompt!Texts(chunks)
    BY DEF Prompt!Texts, Prompt!ToSet
  <2> QED
    BY <1>1, <2>1, MadeOf
<1>3. PICK d \in Prompt!ToSet(u) : d.text = c.text
  BY <1>2 DEF Prompt!Texts, Prompt!ToSet
<1> HIDE DEF u
<1>4. d \in Readable
  <2>1. u \in Seq(Readable)
    BY MadeOf DEF u
  <2> QED
    BY <2>1 DEF Prompt!ToSet
<1>5. PICK q \in Prompt!ToSet(Prompt!Parts) : d \in Prompt!Readings(q)
  BY <1>4 DEF Readable
<1>6. d.source = q /\ d.text.name \in {q, "Shared", "Empty"}
  BY <1>5, PartsAreNamed, ReadingsAreChunks
<1>7. q = p
  BY <1>1, <1>3, <1>6
<1>8. d.required
  BY <1>5, <1>7, ReadingsAreChunks
<1>9. d \in Prompt!ToSet(Made.included)
  BY <1>3, <1>8, MadeOf DEF u
<1> QED
  BY <1>6, <1>7, <1>9

\* What the invariant says of a prompt.
LEMMA PromptIsSound == PromptInv => PromptInvariant
<1> SUFFICES ASSUME PromptInv PROVE PromptInvariant
  OBVIOUS
<1> DEFINE u == Prompt!Deduplicate(chunks)
           k == Made.included
           o == Made.omitted
<1>1. /\ chunks \in Seq(Readable) /\ \A i \in DOMAIN chunks : chunks[i] \in Readable
      /\ manifest = Prompt!NoManifest \/ (at = Len(Prompt!Parts) /\ manifest = Made)
  BY DEF PromptInv
<1>2. Prompt!Total(<<>>) = 0
  <2>1. PICK t \in [0..Len(<<>>) -> Nat] : TotalWalk(t, <<>>)
    <3>1. <<>> \in Seq(Readable) /\ Counted(Readable)
      BY ReadableIsCounted
    <3> QED
      BY <3>1, TotalWalks
  <2> QED
    BY <2>1 DEF TotalWalk
<1>3. \/ manifest = Made
      \/ /\ manifest.included = <<>> /\ manifest.omitted = <<>> /\ manifest.tokens = 0
         /\ ~manifest.done
  BY <1>1 DEF Prompt!NoManifest
<1>4. Prompt!TypeOK
  <2>1. at \in 0..Len(Prompt!TaskParts)
    BY PartsAreNamed DEF PromptInv
  <2>2. manifest.tokens = Prompt!Total(manifest.included)
    BY <1>2, <1>3, MadeOf
  <2>3. \A i \in DOMAIN chunks :
           /\ chunks[i].text.size \in Sizes \cup {0, Needed} /\ chunks[i].required \in BOOLEAN
           /\ chunks[i].priority \in {0, 5, 10, 15, 20}
    BY <1>1, ReadableIsCounted
  <2> QED
    BY <2>1, <2>2, <2>3 DEF Prompt!TypeOK, PromptInv
<1>5. Prompt!OnlyRequiredExceeds
  <2>1. CASE manifest = Made
    BY <2>1, MadeOf DEF Prompt!OnlyRequiredExceeds, Prompt!ToSet
  <2>2. CASE manifest # Made
    <3>1. ~(Prompt!Total(manifest.included) > Budget)
      BY <1>2, <1>3, <2>2, ReadableIsCounted
    <3> QED
      BY <3>1 DEF Prompt!OnlyRequiredExceeds
  <2> QED
    BY <2>1, <2>2
<1>6. Prompt!OmissionIsForced
  BY <1>3, MadeOf DEF Prompt!OmissionIsForced, Prompt!ToSet
<1>7. ASSUME manifest = Made
      PROVE  Prompt!EveryTextIsAccounted
  <2> DEFINE all == k \o o
  <2>1. /\ all \in Seq(Readable) /\ NoRepeat(all) /\ Prompt!ToSet(all) = Prompt!ToSet(u)
    BY MadeOf, ConcatJoins
  <2>2. \A c, d \in Prompt!ToSet(u) : c.text = d.text => c = d
    BY MadeOf DEF OneEach, Prompt!ToSet
  <2>3. \A s : Prompt!Texts(s) = {c.text : c \in Prompt!ToSet(s)}
    BY DEF Prompt!Texts, Prompt!ToSet
  <2> HIDE DEF all, u
  <2>4. OneEach(all)
    BY <2>1, <2>2 DEF OneEach, NoRepeat, Prompt!ToSet
  <2>5. Prompt!Texts(all) = Prompt!Texts(u)
    BY <2>1, <2>3
  <2>6. Prompt!Texts(u) = Prompt!Texts(chunks) \ {Prompt!Empty}
    <3>1. Prompt!Texts(u) = {t \in Prompt!Texts(chunks) : t.size # 0}
      BY MadeOf DEF u
    <3>2. \A t \in Prompt!Texts(chunks) : t.size = 0 <=> t = Prompt!Empty
      BY <1>1, ReadableIsCounted DEF Prompt!Texts
    <3> QED
      BY <3>1, <3>2
  <2>7. Cardinality(Prompt!Texts(all)) = Len(all)
    BY <2>1, <2>4, TextsOfOneEach
  <2> QED
    <3>1. manifest.included \o manifest.omitted = all
      BY <1>7 DEF all
    <3> HIDE DEF k, o
    <3> QED
      BY <2>5, <2>6, <2>7, <3>1 DEF Prompt!EveryTextIsAccounted, Cardinality,
         Prompt!Cardinality
<1>8. ASSUME manifest = Made, at = Len(Prompt!Parts)
      PROVE  Prompt!ReasonIsIncluded
  <2>1. ASSUME NEW p \in {"Reviews", "Integration", "Question", "Clarification"},
               p = "Reviews" => purpose = "REVISION",
               NEW i \in 1..Len(Prompt!Parts), Prompt!Parts[i] = p, ~Prompt!MayBeAbsent(p)
        PROVE  p \in {manifest.included[j].source : j \in DOMAIN manifest.included}
    <3>1. PICK c \in Prompt!ToSet(chunks) : c \in Prompt!Readings(p)
      BY <1>8, <2>1 DEF PromptInv, PartsAreThere
    <3>2. PICK d \in Prompt!ToSet(Made.included) : d.source = p
      BY <2>1, <3>1, ReasonIsChosen
    <3> QED
      BY <1>8, <3>2 DEF Prompt!ToSet
  <2>2. purpose # "PLANNING" =>
           /\ Prompt!Parts[7] = "Reviews" /\ Prompt!Parts[8] = "Integration"
           /\ Prompt!Parts[9] = "Question" /\ Prompt!Parts[11] = "Clarification"
           /\ Len(Prompt!Parts) = 11
    BY DEF Prompt!Parts, Prompt!TaskParts
  <2>3. purpose = "PLANNING" => Prompt!Parts[7] = "Clarification" /\ Len(Prompt!Parts) = 7
    BY DEF Prompt!Parts, Prompt!PlanningParts
  <2> DEFINE sources == {manifest.included[j].source : j \in DOMAIN manifest.included}
  <2>4. purpose = "REVISION" /\ cause = "REVIEW" => "Reviews" \in sources
    <3>1. purpose = "REVISION" /\ cause = "REVIEW" => ~Prompt!MayBeAbsent("Reviews")
      BY DEF Prompt!MayBeAbsent
    <3> HIDE DEF sources
    <3> QED
      BY <2>1, <2>2, <3>1 DEF sources
  <2>5. purpose = "REVISION" /\ cause = "SYNC" => "Integration" \in sources
    <3>1. purpose = "REVISION" /\ cause = "SYNC" => ~Prompt!MayBeAbsent("Integration")
      BY DEF Prompt!MayBeAbsent
    <3> QED
      BY <2>1, <2>2, <3>1
  <2>6. purpose = "REVIEW" => "Question" \in sources
    <3>1. purpose = "REVIEW" => ~Prompt!MayBeAbsent("Question")
      BY DEF Prompt!MayBeAbsent
    <3> QED
      BY <2>1, <2>2, <3>1
  <2>7. continued => "Clarification" \in sources
    <3>1. continued => ~Prompt!MayBeAbsent("Clarification")
      BY DEF Prompt!MayBeAbsent
    <3> QED
      BY <2>1, <2>2, <2>3, <3>1
  <2> QED
    BY <2>4, <2>5, <2>6, <2>7 DEF Prompt!ReasonIsIncluded
<1>9. manifest # Made => Prompt!EveryTextIsAccounted /\ Prompt!ReasonIsIncluded
  BY <1>3 DEF Prompt!EveryTextIsAccounted, Prompt!ReasonIsIncluded
<1>10. manifest = Made => at = Len(Prompt!Parts)
  BY <1>1 DEF Made, Prompt!NoManifest
<1> QED
  BY <1>4, <1>5, <1>6, <1>7, <1>8, <1>9, <1>10 DEF PromptInvariant, Prompt!PromptInvariant

\* The invariant of a prompt is inductive.
THEOREM PromptInvariance == Prompt!Spec => []PromptInv
<1> QED
  BY PromptStarts, PromptKeeps, PTL DEF Prompt!Spec

\* A prompt has what the run needs, and nothing is left out without a reason.
THEOREM PromptsSayWhatMatters == Prompt!Spec => []PromptInvariant
  BY PromptInvariance, PromptIsSound, PTL

-----------------------------------------------------------------------------
(* Together.                                                               *)

\* Where they take turns, each is what it is alone.
THEOREM AgentsAreServed ==
    AgentSpec => /\ [](TurnAndPageInvariant /\ SessionInvariant /\ PromptInvariant)
                 /\ EventsAreHandledInOrder /\ SessionsKeepThreads
<1>1. AgentInit => Init /\ Page!Init /\ Session!Init /\ Prompt!Init
  BY DEF AgentInit
<1>2. [AgentNext]_<<part, vars, sessionVars, promptVars, pageVars>> =>
        /\ [Next]_vars /\ [Page!Next]_Page!vars
        /\ [Session!Next]_Session!vars /\ [Prompt!Next]_Prompt!vars
  BY DEF AgentNext, vars, sessionVars, promptVars, pageVars, Page!vars, Session!vars,
     Prompt!vars
<1>3. AgentSpec => Spec /\ Page!Spec /\ Session!Spec /\ Prompt!Spec
  BY <1>1, <1>2, PTL DEF AgentSpec, Spec, Page!Spec, Session!Spec, Prompt!Spec
<1>4. TurnInvariant /\ StreamInv => TurnAndPageInvariant
  BY DEF TurnAndPageInvariant, StreamInv, WireFits
<1> QED
  BY <1>3, <1>4, TurnIsSafe, StreamInvariance, EventsComeInOrder, SessionsAreWorthResuming,
     ThreadsAreKept, PromptsSayWhatMatters, PTL
=============================================================================
