---------------------------- MODULE AppServerTurn ----------------------------
(***************************************************************************)
(* One turn of an agent behind the app server protocol: the runner talks   *)
(* to the agent over pipes, asks the humans to decide what the agent wants *)
(* to be allowed, and watches for a cancel request, the loss of its lease  *)
(* and the timeout of the run.  Humans answer in another process, through  *)
(* the table approval_requests.                                            *)
(* (src/internal/runner/codex_app_server.go,                               *)
(* src/internal/storage/approval_request.go.)                              *)
(*                                                                         *)
(* The agent is external: it answers the handshake, asks, works and ends   *)
(* its turn, in any order the protocol allows, and may die at any point.   *)
(* Told to cancel, or interrupted, it ends its turn as interrupted.  It    *)
(* may stop reading, so that a write to it does not return, and may leave  *)
(* a process behind that keeps its pipes open.                             *)
(***************************************************************************)
EXTENDS Integers, Sequences, FiniteSets

CONSTANTS
    MaxAsks,        \* bound on what one agent asks for
    MaxPipe,        \* bound on the messages the runner has not read
    Permissions     \* asks for permissions: an answer grants or refuses, no more

Asks == 1..MaxAsks

ASSUME TurnAssumption ==
    MaxAsks \in Nat /\ MaxPipe \in Nat \ {0} /\ Permissions \subseteq Asks

Decisions == {"ACCEPT_ONCE", "ACCEPT_SESSION", "DECLINE", "CANCEL_RUN"}
Outcomes  == {"SUCCEEDED", "FAILED", "CANCELLED", "TIMED_OUT"}

VARIABLES
    \* tables
    status,         \* of the run
    cancel,         \* cancel_requested_at of the run
    request,        \* approval_requests, by what the agent asked
    lease,          \* run_resource_leases
    \* the agent and the pipes
    agent,
    answered,       \* handshake requests the agent has answered
    asked,          \* how many times the agent asked
    answer,         \* what the agent was told
    interrupted,    \* turn/interrupt was written
    jammed,         \* its input takes no more (stalls that pass are delays)
    heir,           \* a process outside its group has inherited its pipes
    pipe,           \* messages of the agent the runner has not handled
    \* the runner
    pc, step,       \* where it is; the handshake request it waits for
    current,        \* what it is deciding about
    context,        \* of the turn: the first cause that ended it counts
    unleased,       \* the heartbeat failed
    checkFailed,    \* the cancel check failed
    storeFails,     \* statements of the store may fail, or none does
    outcome, failed \* status of the turn; it ended with an error

tables == <<status, cancel, request, lease>>
agency == <<agent, answered, asked, answer, interrupted, jammed, heir>>
runner == <<pc, step, current, outcome, failed>>
causes == <<context, unleased, checkFailed, storeFails>>
vars   == <<tables, agency, pipe, runner, causes>>

NoAsk   == [state |-> "NONE", decision |-> "NONE"]
Message == [kind : {"OK", "ERROR", "ASK", "BROWSER", "OTHER", "COMPLETED", "INTERRUPTED",
                    "FAILED"}, of : 0..3 \cup Asks]

TypeOK ==
    /\ status \in Outcomes \cup {"RUNNING", "LOST"}
    /\ cancel \in BOOLEAN
    /\ request \in [Asks -> [state : {"NONE", "OPEN", "RESOLVED", "CLEARED"},
                             decision : Decisions \cup {"NONE"}]]
    /\ lease \in {"NONE", "ACTIVE", "RELEASED", "ABANDONED"}
    /\ agent \in {"ALIVE", "ENDED", "DEAD"}
    /\ answered \in 0..3 /\ asked \in 0..MaxAsks
    /\ answer \in [Asks -> Decisions \cup {"NONE"}]
    /\ interrupted \in BOOLEAN /\ jammed \in BOOLEAN /\ heir \in BOOLEAN
    /\ pipe \in Seq(Message) /\ Len(pipe) =< MaxPipe
    /\ pc \in {"WRITE", "REQUEST", "TURN", "ASK", "WAIT", "REPLY", "INTERRUPT", "CLEAR",
               "CLOSE", "RELEASE", "REPORT", "DONE", "GONE"}
    /\ step \in 1..3 /\ current \in 0..MaxAsks
    /\ context \in {"LIVE", "CANCELLED", "EXPIRED"}
    /\ unleased \in BOOLEAN /\ checkFailed \in BOOLEAN /\ storeFails \in BOOLEAN
    /\ outcome \in Outcomes \cup {"NONE"} /\ failed \in BOOLEAN

Init ==
    /\ status = "RUNNING" /\ cancel = FALSE /\ lease = "NONE"
    /\ request = [i \in Asks |-> NoAsk]
    /\ agent = "ALIVE" /\ answered = 0 /\ asked = 0
    /\ answer = [i \in Asks |-> "NONE"] /\ interrupted = FALSE
    /\ jammed = FALSE /\ heir = FALSE /\ pipe = <<>>
    /\ pc = "WRITE" /\ step = 1 /\ current = 0
    /\ context = "LIVE" /\ unleased = FALSE /\ checkFailed = FALSE /\ storeFails \in BOOLEAN
    /\ outcome = "NONE" /\ failed = FALSE

\* The reader hands over one message at a time; it reports the end of the
\* output only when every message has been taken.
Head1     == Head(pipe)
EndOfFile == agent = "DEAD" /\ ~heir /\ pipe = <<>>
Done      == context # "LIVE"

\* A write returns once the input takes it, or fails when nobody holds the other
\* end; it watches neither the context nor the clock.
Writable == ~jammed /\ (agent # "DEAD" \/ heir)
Refused  == agent = "DEAD" /\ ~heir

Goes(to)  == pc' = to /\ UNCHANGED <<step, current, outcome, failed>>
Fails(to) == /\ pc' = to
             /\ outcome' = "FAILED" /\ failed' = TRUE
             /\ UNCHANGED <<step, current>>

\* Mutant: the statement has lost its condition on the status.
Closed_Decided(rows) == [i \in Asks |-> IF rows[i].state # "NONE"
                                        THEN [rows[i] EXCEPT !.state = "CLEARED"] ELSE rows[i]]

Closed(rows) == [i \in Asks |-> IF rows[i].state = "OPEN"
                                THEN [rows[i] EXCEPT !.state = "CLEARED"] ELSE rows[i]]

-----------------------------------------------------------------------------
(* The agent.                                                              *)

Says(kind, i) == /\ Len(pipe) < MaxPipe
                 /\ pipe' = Append(pipe, [kind |-> kind, of |-> i])

InTurn == agent = "ALIVE" /\ answered = 3

\* It was told to cancel what it asked about, or interrupted.
Stopped == interrupted \/ \E i \in Asks \ Permissions : answer[i] = "CANCEL_RUN"

\* It answers the handshake request the runner is waiting on.
AgentAnswers ==
    /\ agent = "ALIVE" /\ pc = "REQUEST" /\ answered = step - 1
    /\ Says("OK", step) \/ Says("ERROR", step)
    /\ answered' = step
    /\ UNCHANGED <<tables, agent, asked, answer, interrupted, jammed, heir, runner, causes>>

AgentAsks ==
    /\ InTurn /\ asked < MaxAsks /\ ~Stopped
    /\ Says("ASK", asked + 1)
    /\ asked' = asked + 1
    /\ UNCHANGED <<tables, agent, answered, answer, interrupted, jammed, heir, runner, causes>>

\* Notifications may come before the turn too, among the answers of the handshake.
AgentWorks ==
    /\ agent = "ALIVE"
    /\ Says("OTHER", 0) \/ (InTurn /\ Says("BROWSER", 0))
    /\ UNCHANGED <<tables, agency, runner, causes>>

\* A turn ends once every ask was answered, or as interrupted.
AgentEndsTurn ==
    /\ InTurn
    /\ \/ Stopped /\ Says("INTERRUPTED", 0)
       \/ /\ ~Stopped
          /\ \A i \in 1..asked : answer[i] # "NONE"
          /\ Says("COMPLETED", 0) \/ Says("FAILED", 0)
    /\ agent' = "ENDED"
    /\ UNCHANGED <<tables, answered, asked, answer, interrupted, jammed, heir, runner, causes>>

AgentDies ==
    /\ agent # "DEAD"
    /\ agent' = "DEAD"
    /\ UNCHANGED <<tables, answered, asked, answer, interrupted, jammed, heir, pipe, runner,
                   causes>>

\* It reads no more: it hangs, or is itself blocked on the output nobody takes.
StopsReading ==
    /\ ~jammed /\ jammed' = TRUE
    /\ UNCHANGED <<tables, agent, answered, asked, answer, interrupted, heir, pipe, runner,
                   causes>>

LeavesHeir ==
    /\ agent = "ALIVE" /\ ~heir /\ heir' = TRUE
    /\ UNCHANGED <<tables, agent, answered, asked, answer, interrupted, jammed, pipe, runner,
                   causes>>

\* Once the agent is gone its output is closed, whatever of it was not read yet.
OutputIsLost ==
    /\ agent = "DEAD" /\ ~heir /\ pipe # <<>>
    /\ pipe' = <<>>
    /\ UNCHANGED <<tables, agency, runner, causes>>

-----------------------------------------------------------------------------
(* What ends the context of the turn.                                      *)

Polling == pc \notin {"REPORT", "DONE", "GONE"}

Cancels == /\ context' = "CANCELLED"
           /\ UNCHANGED <<tables, agency, pipe, runner>>

MonitorSeesCancel ==
    /\ Polling /\ ~Done /\ cancel
    /\ Cancels /\ UNCHANGED <<unleased, checkFailed, storeFails>>

\* A cancel check that fails is taken for a request.
MonitorFails ==
    /\ Polling /\ ~Done /\ storeFails
    /\ Cancels /\ checkFailed' = TRUE /\ UNCHANGED <<unleased, storeFails>>

\* The run is not active any more, or its lease could not be renewed.
HeartbeatStops ==
    /\ Polling /\ ~unleased
    /\ status # "RUNNING" \/ storeFails
    /\ context' = IF Done THEN context ELSE "CANCELLED"
    /\ unleased' = TRUE
    /\ UNCHANGED <<tables, agency, pipe, runner, checkFailed, storeFails>>

Expires ==
    /\ Polling /\ ~Done
    /\ context' = "EXPIRED"
    /\ UNCHANGED <<tables, agency, pipe, runner, unleased, checkFailed, storeFails>>

-----------------------------------------------------------------------------
(* The turn.                                                               *)

\* A handshake request is written; that the first is done is told with the second.
WriteRequest ==
    /\ pc = "WRITE"
    /\ \/ Writable /\ Goes("REQUEST")
       \/ Refused /\ Fails("CLOSE")
    /\ UNCHANGED <<tables, agency, pipe, causes>>

\* Mutant: one request too many is waited for.
Handshake_Fourth ==
    /\ pc = "REQUEST" /\ pipe # <<>>
    /\ pipe' = Tail(pipe)
    /\ CASE Head1 = [kind |-> "OK", of |-> step] ->
              /\ IF step = 4 THEN pc' = "TURN" /\ UNCHANGED step
                             ELSE step' = step + 1 /\ pc' = "WRITE"
              /\ UNCHANGED <<current, outcome, failed>>
         [] Head1 = [kind |-> "ERROR", of |-> step] -> Fails("CLOSE")
         [] OTHER -> UNCHANGED runner
    /\ UNCHANGED <<tables, agency, causes>>

\* Messages are dropped until the response to the request comes.
Handshake ==
    /\ pc = "REQUEST" /\ pipe # <<>>
    /\ pipe' = Tail(pipe)
    /\ CASE Head1 = [kind |-> "OK", of |-> step] ->
              /\ IF step = 3 THEN pc' = "TURN" /\ UNCHANGED step
                             ELSE step' = step + 1 /\ pc' = "WRITE"
              /\ UNCHANGED <<current, outcome, failed>>
         [] Head1 = [kind |-> "ERROR", of |-> step] -> Fails("CLOSE")
         [] OTHER -> UNCHANGED runner
    /\ UNCHANGED <<tables, agency, causes>>

\* The context of the turn or the output of the agent has ended.
HandshakeBreaks ==
    /\ pc = "REQUEST" /\ (Done \/ EndOfFile)
    /\ Fails("CLOSE")
    /\ UNCHANGED <<tables, agency, pipe, causes>>

TurnBreaks ==
    /\ pc = "TURN" /\ (Done \/ EndOfFile)
    /\ Fails("CLOSE")
    /\ UNCHANGED <<tables, agency, pipe, causes>>

TakeMessage(kinds) == /\ pc = "TURN" /\ pipe # <<>> /\ Head1.kind \in kinds
                      /\ pipe' = Tail(pipe)

\* Tool calls are audited; a browser among them is a resource of the run.  The
\* audit of a cancelled turn fails.
HandleMCPEvent ==
    /\ TakeMessage({"BROWSER", "OTHER"})
    /\ \/ /\ Head1.kind = "BROWSER" /\ (Done \/ storeFails)
          /\ Fails("CLOSE") /\ UNCHANGED lease
       \/ /\ lease' = IF Head1.kind = "BROWSER" THEN "ACTIVE" ELSE lease
          /\ UNCHANGED runner
    /\ UNCHANGED <<status, cancel, request, agency, causes>>

\* The final message may be no valid result.
TurnCompletes ==
    /\ TakeMessage({"COMPLETED", "INTERRUPTED", "FAILED"})
    /\ \/ Fails("CLOSE")
       \/ /\ Head1.kind # "FAILED"
          /\ pc' = "CLOSE"
          /\ outcome' = IF Head1.kind = "COMPLETED" THEN "SUCCEEDED" ELSE "CANCELLED"
          /\ UNCHANGED <<step, current, failed>>
    /\ UNCHANGED <<tables, agency, causes>>

HandleApproval ==
    /\ TakeMessage({"ASK"})
    /\ pc' = "ASK" /\ current' = Head1.of
    /\ UNCHANGED <<step, outcome, failed, tables, agency, causes>>

\* Only a RUNNING run may ask, and only for one thing at a time.
CreateApprovalRequest ==
    /\ pc = "ASK"
    /\ \/ /\ status = "RUNNING" /\ ~Done
          /\ \A i \in Asks : request[i].state # "OPEN"
          /\ request' = [request EXCEPT ![current].state = "OPEN"]
          /\ Goes("WAIT")
       \/ /\ \/ status # "RUNNING" \/ Done \/ storeFails
             \/ \E i \in Asks : request[i].state = "OPEN"
          /\ Fails("CLOSE") /\ UNCHANGED request
    /\ UNCHANGED <<status, cancel, lease, agency, pipe, causes>>

PollDecision ==
    /\ pc = "WAIT" /\ ~Done
    /\ \/ request[current].state = "RESOLVED" /\ Goes("REPLY")
       \/ request[current].state = "CLEARED" /\ Fails("CLEAR")
       \/ storeFails /\ Fails("CLEAR")
    /\ UNCHANGED <<tables, agency, pipe, causes>>

\* Mutant: the wait for a human does not look at the context.
WaitEnds_HumansOnly ==
    /\ pc = "WAIT" /\ EndOfFile
    /\ Fails("CLEAR")
    /\ UNCHANGED <<tables, agency, pipe, causes>>

\* The wait for a human ends with the context or the output of the agent.
WaitEnds ==
    /\ pc = "WAIT" /\ (Done \/ EndOfFile)
    /\ Fails("CLEAR")
    /\ UNCHANGED <<tables, agency, pipe, causes>>

\* Mutant: the request is left to the end of the run.
ClearApprovalRequest_Later ==
    /\ pc = "CLEAR"
    /\ Goes("CLOSE")
    /\ UNCHANGED <<tables, agency, pipe, causes>>

\* The request is closed unless a human was faster; an error is ignored.
ClearApprovalRequest ==
    /\ pc = "CLEAR"
    /\ \/ request' = [request EXCEPT ![current].state = IF @ = "OPEN" THEN "CLEARED" ELSE @]
       \/ storeFails /\ UNCHANGED request
    /\ Goes("CLOSE")
    /\ UNCHANGED <<status, cancel, lease, agency, pipe, causes>>

\* Mutant: the agent is told no, and the interrupt is left to do the rest.
Reply_Declines ==
    /\ pc = "REPLY"
    /\ \/ /\ Writable
          /\ answer' = [answer EXCEPT ![current] =
               IF request[current].decision = "CANCEL_RUN" THEN "DECLINE"
                                                           ELSE request[current].decision]
          /\ Goes(IF request[current].decision = "CANCEL_RUN" THEN "INTERRUPT" ELSE "TURN")
       \/ Refused /\ Fails("CLOSE") /\ UNCHANGED answer
    /\ UNCHANGED <<tables, agent, answered, asked, interrupted, jammed, heir, pipe, causes>>

Reply ==
    /\ pc = "REPLY"
    /\ \/ /\ Writable
          /\ answer' = [answer EXCEPT ![current] = request[current].decision]
          /\ Goes(IF request[current].decision = "CANCEL_RUN" THEN "INTERRUPT" ELSE "TURN")
       \/ Refused /\ Fails("CLOSE") /\ UNCHANGED answer
    /\ UNCHANGED <<tables, agent, answered, asked, interrupted, jammed, heir, pipe, causes>>

Interrupt ==
    /\ pc = "INTERRUPT"
    /\ \/ Writable /\ interrupted' = TRUE /\ Goes("TURN")
       \/ Refused /\ Fails("CLOSE") /\ UNCHANGED interrupted
    /\ UNCHANGED <<tables, agent, answered, asked, answer, jammed, heir, pipe, causes>>

-----------------------------------------------------------------------------
(* The end of the turn.                                                    *)

\* The agent is asked to leave, then its group made to: afterwards it is dead,
\* with an exit that may be an error.  Its resources are closed with it.  The wait
\* for it is also one for the end of its error output, and has no limit.
Close ==
    /\ pc = "CLOSE" /\ ~heir
    /\ agent' = "DEAD"
    /\ \E clean \in BOOLEAN :
         /\ lease' = IF lease # "ACTIVE" THEN lease ELSE IF clean THEN "RELEASED" ELSE "ABANDONED"
         /\ IF failed \/ clean THEN Goes("RELEASE") ELSE Fails("RELEASE")
    /\ UNCHANGED <<status, cancel, request, answered, asked, answer, interrupted, jammed, heir,
                   pipe, causes>>

\* Mutant: whatever ended the context counts as a request of the user.
Classify_AnyCause ==
    /\ pc = "RELEASE"
    /\ pc' = "REPORT"
    /\ outcome' = IF context = "EXPIRED" THEN "TIMED_OUT"
                  ELSE IF context = "CANCELLED" /\ failed THEN "CANCELLED"
                  ELSE outcome
    /\ UNCHANGED <<step, current, failed, tables, agency, pipe, causes>>

\* The context decides over the turn; a lost lease decides over both.
Classify ==
    /\ pc = "RELEASE"
    /\ pc' = "REPORT"
    /\ outcome' = IF unleased THEN "FAILED"
                  ELSE IF context = "EXPIRED" THEN "TIMED_OUT"
                  ELSE IF context = "CANCELLED" /\ failed THEN "CANCELLED"
                  ELSE outcome
    /\ UNCHANGED <<step, current, failed, tables, agency, pipe, causes>>

\* The run ends with the outcome of the turn, and what is still open is closed;
\* when the workspace cannot be finalized the run is failed, and nothing closed.
Report ==
    /\ pc = "REPORT"
    /\ \/ status = "RUNNING" /\ status' = outcome /\ request' = Closed(request)
       \/ status = "RUNNING" /\ status' = "FAILED" /\ UNCHANGED request
       \/ status # "RUNNING" /\ UNCHANGED <<status, request>>
    /\ Goes("DONE")
    /\ UNCHANGED <<cancel, lease, agency, pipe, causes>>

\* The runner dies; the agent is left to the recovery.
CrashRunner ==
    /\ pc \notin {"DONE", "GONE"}
    /\ Goes("GONE")
    /\ UNCHANGED <<tables, agency, pipe, causes>>

\* Mutant: the recovery forgets the open requests.
RecoverLost_KeepsRequests ==
    /\ status = "RUNNING"
    /\ status' = "LOST"
    /\ UNCHANGED <<cancel, request, lease, agency, pipe, runner, causes>>

\* The recovery may end the run even of a runner that is alive.
RecoverLost ==
    /\ status = "RUNNING"
    /\ status' = "LOST"
    /\ request' = Closed(request)
    /\ UNCHANGED <<cancel, lease, agency, pipe, runner, causes>>

-----------------------------------------------------------------------------
(* The humans.                                                             *)

\* A decision on an open request, at the version the human saw.
ResolveApprovalRequest(i) ==
    /\ request[i].state = "OPEN"
    /\ \E d \in Decisions :
         /\ request' = [request EXCEPT ![i] = [state |-> "RESOLVED", decision |-> d]]
         /\ cancel' = (cancel \/ (d = "CANCEL_RUN" /\ status = "RUNNING"))
    /\ UNCHANGED <<status, lease, agency, pipe, runner, causes>>

RequestCancel ==
    /\ status = "RUNNING" /\ ~cancel
    /\ cancel' = TRUE
    /\ UNCHANGED <<status, request, lease, agency, pipe, runner, causes>>

-----------------------------------------------------------------------------

Turn == \/ WriteRequest \/ Handshake \/ HandshakeBreaks \/ TurnBreaks
        \/ HandleMCPEvent \/ TurnCompletes \/ HandleApproval \/ CreateApprovalRequest
        \/ PollDecision \/ WaitEnds \/ ClearApprovalRequest
        \/ Reply \/ Interrupt \/ Close \/ Classify \/ Report

Next ==
    \/ AgentAnswers \/ AgentAsks \/ AgentWorks \/ AgentEndsTurn \/ AgentDies
    \/ StopsReading \/ LeavesHeir \/ OutputIsLost
    \/ MonitorSeesCancel \/ MonitorFails \/ HeartbeatStops \/ Expires
    \/ Turn \/ CrashRunner \/ RecoverLost
    \/ (\E i \in Asks : ResolveApprovalRequest(i)) \/ RequestCancel

Spec == Init /\ [][Next]_vars

\* The runner goes on and polls, and a select that may leave a wait takes that
\* case in the end; nothing is assumed of the agent or the humans, not even that
\* what is written to the agent is read.
Fairness == /\ WF_vars(Turn) /\ WF_vars(HandshakeBreaks) /\ WF_vars(TurnBreaks)
            /\ WF_vars(WaitEnds) /\ WF_vars(MonitorSeesCancel)

\* The deadline of the context of the turn fires.
TimedFairness == Fairness /\ WF_vars(Expires)

TimedSpec == Spec /\ TimedFairness

-----------------------------------------------------------------------------
(* Properties.                                                             *)

\* What the agent is told is what a human decided about that very request,
\* whatever was asked, cleared or recovered in the meantime.
AgentIsToldTheDecision ==
    \A i \in Asks : answer[i] # "NONE" =>
        request[i] = [state |-> "RESOLVED", decision |-> answer[i]]

\* An open request is one that a living runner waits on or is about to close, or
\* one of a runner that died: humans are not asked about what nobody waits for,
\* unless the statement that closes it fails.
OpenRequestIsAwaited ==
    ~storeFails => \A i \in Asks : request[i].state = "OPEN" =>
        pc = "GONE" \/ (pc \in {"WAIT", "CLEAR"} /\ current = i)

\* No request of an ended run is open, however the run ended, unless the statement
\* that closes it fails.
EndedRunAsksNothing ==
    status # "RUNNING" /\ ~storeFails => \A i \in Asks : request[i].state # "OPEN"

\* A run whose human decided to stop it at a request never ends as a success, unless
\* that was one for permissions: its answer only refuses them, and the agent may be
\* done before the interrupt reaches it.
StoppedRunFails ==
    (\E i \in Asks \ Permissions : request[i].decision = "CANCEL_RUN") => status # "SUCCEEDED"

\* A run ends CANCELLED when a human asked for it or the check for that failed;
\* the loss of the lease is never reported as a cancellation.
CancelledForAReason == status = "CANCELLED" => cancel \/ checkFailed

\* Humans, runner and agent agree on every request for approval, and the outcome
\* of the turn on what they did.
TurnInvariant ==
    /\ TypeOK
    /\ AgentIsToldTheDecision /\ OpenRequestIsAwaited /\ EndedRunAsksNothing
    /\ StoppedRunFails /\ CancelledForAReason

\* The runner is in a write to an agent that does not read, or waits for the pipes of
\* an agent that is gone and has left them to another process: neither cancel nor
\* deadline gets it out of there.
Held == \/ pc \in {"WRITE", "REPLY", "INTERRUPT"} /\ jammed /\ ~Refused
        \/ pc = "CLOSE" /\ heir

\* The turn ends, whatever the agent and the humans do or leave undone, or it is held
\* for good in a write to the agent or in the wait for its pipes: everywhere else
\* the deadline ends it, in the handshake, in the turn and in the wait for a human.
TurnEnds == <>(pc \in {"DONE", "GONE"}) \/ <>[]Held
=============================================================================
