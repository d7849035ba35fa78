------------------------------- MODULE MCAgent -------------------------------
(***************************************************************************)
(* The agent of a run and the people around it: the conversation that the  *)
(* run continues, the parts of its prompt, its turn with the requests for  *)
(* approval, and the page that follows its events.  One of them is at      *)
(* work, the others rest in an initial state.                              *)
(***************************************************************************)
EXTENDS AppServerTurn, TLC

CONSTANTS
    AtWork,         \* which of them an instance sets to work
    Runs, Revisions, Sessions, Threads, None,
    Sizes, Needed, Budget,
    MaxEvents, Limit, MaxBreaks

VARIABLES
    part,
    revision, run, session, talk,
    purpose, cause, continued, at, chunks, manifest,
    count, ended, conn, wire, source, cursor, shown, load, breaks

sessionVars == <<revision, run, session, talk>>
promptVars  == <<purpose, cause, continued, at, chunks, manifest>>
pageVars    == <<count, ended, conn, wire, source, cursor, shown, load, breaks>>

Session == INSTANCE AgentSessions WITH runner <- talk
Prompt  == INSTANCE ContextAssembly
Page    == INSTANCE RunStream

ASSUME AgentConstants ==
    /\ AtWork \subseteq {"session", "prompt", "turn", "page"}
    /\ Session!SessionsAssumption /\ Prompt!ContextAssumption /\ Page!RunStreamAssumption

AgentInit ==
    /\ part \in AtWork
    /\ Init /\ Session!Init /\ Prompt!Init /\ Page!Init
    /\ part # "turn" => ~storeFails
    /\ part # "session" => revision = CHOOSE p \in Revisions : TRUE
    /\ part # "prompt" => purpose = "REVIEW" /\ ~continued

\* Bound: the store fails, the agent stops reading or it leaves an heir, one of
\* them in a turn.  No step that a fairness condition names brings one about.
OneTrouble == ~(storeFails /\ jammed) /\ ~(storeFails /\ heir) /\ ~(jammed /\ heir)

AgentNext ==
    /\ UNCHANGED part
    /\ \/ part = "turn" /\ Next /\ UNCHANGED <<sessionVars, promptVars, pageVars>>
       \/ part = "session" /\ Session!Next /\ UNCHANGED <<vars, promptVars, pageVars>>
       \/ part = "prompt" /\ Prompt!Next /\ UNCHANGED <<vars, sessionVars, pageVars>>
       \/ part = "page" /\ Page!Next /\ UNCHANGED <<vars, sessionVars, promptVars>>
    /\ OneTrouble'

AgentSpec == AgentInit /\ [][AgentNext]_<<part, vars, sessionVars, promptVars, pageVars>>

\* Turn or page under the fairness that its module states and justifies.
FairAgentSpec ==
    /\ AgentSpec
    /\ \/ part = "turn" /\ TimedFairness
       \/ part = "page" /\ Page!Fairness

SessionSymmetry == Permutations(Runs) \cup Permutations(Threads) \cup Permutations(Sessions)

\* What the parts say of a state: the prompt; the session; turn and page, and what
\* goes over the connection between run and page has no gap.
PromptInvariant      == Prompt!PromptInvariant
SessionInvariant     == Session!SessionInvariant
TurnAndPageInvariant == TurnInvariant /\ Page!TypeOK /\ Page!NoGapOnTheWire

\* What they say of steps and behaviours.
SessionsKeepThreads     == Session!SessionsKeepThreads
TurnEndsInTime          == part = "turn" => TurnEnds
EventsAreHandledInOrder == Page!EventsAreHandledInOrder
EndReachesEverybody     == Page!EndReachesEverybody
=============================================================================
