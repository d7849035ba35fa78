--------------------------- MODULE ContextAssembly ---------------------------
(***************************************************************************)
(* The prompt of a run: the parts that the runner reads for its purpose,   *)
(* one after the other (src/internal/runner/runner.go buildTaskPrompt,     *)
(* buildPlanningPrompt), and the choice among them under a budget of       *)
(* tokens (src/internal/contextbuilder/builder.go).                        *)
(*                                                                         *)
(* A text is a name and a number of tokens.  The five parts every prompt   *)
(* begins with (rules, role, subject, contract, tool policy) are one here. *)
(* The text of a skill may be that of the instructions of the project:     *)
(* both are files of the project.                                          *)
(***************************************************************************)
EXTENDS Naturals, Sequences, SequencesExt, FiniteSets

CONSTANTS
    Sizes,          \* tokens of a text that is not empty
    Needed,         \* tokens of a part that is always required
    Budget          \* tokens of input less those reserved for the answer

ContextAssumption == Sizes \cup {Needed} \subseteq Nat \ {0} /\ Budget \in Nat \ {0}

VARIABLES
    purpose,        \* of the run
    cause,          \* why a REVISION run has to revise
    continued,      \* the run continues one that asked a question
    at,             \* number of parts looked at
    chunks,         \* what was read so far
    manifest        \* what Assemble made of it

vars == <<purpose, cause, continued, at, chunks, manifest>>

Purposes == {"PLANNING", "TRIAGE", "IMPLEMENTATION", "REVISION", "REVIEW"}
\* A review that rejects, a change requested in the discussion of a task in review
\* (stored as such a review too), one requested in any other state of the task,
\* a synchronization with the target branch.
Causes == {"REVIEW", "REQUEST", "SYNC"}

\* The order in which the parts are read.
TaskParts == <<"Base", "Skill", "Instructions", "Experience", "Workspace", "Quality",
               "Reviews", "Integration", "Question", "Discussion", "Clarification">>
PlanningParts == <<"Base", "Skill", "Instructions", "Experience", "Discussion", "Plan",
                   "Clarification">>
Parts == IF purpose = "PLANNING" THEN PlanningParts ELSE TaskParts

Empty == [name |-> "Empty", size |-> 0]
Chunk(source, text, required, priority) ==
    [source |-> source, text |-> text, required |-> required, priority |-> priority]
NoManifest == [done |-> FALSE, included |-> <<>>, omitted |-> <<>>, tokens |-> 0, over |-> FALSE]

Init ==
    /\ purpose \in Purposes
    /\ cause \in IF purpose = "REVISION" THEN Causes ELSE {"REVIEW"}
    /\ continued \in BOOLEAN
    /\ at = 0 /\ chunks = <<>> /\ manifest = NoManifest

-----------------------------------------------------------------------------
(* Reading.                                                                *)

Own(part) == {[name |-> part, size |-> n] : n \in Sizes}
\* One file of the project may hold the text of another.
File(part) == Own(part) \cup {[name |-> "Shared", size |-> n] : n \in Sizes}

\* The discussion of a topic is needed to plan it.
DiscussionChunks ==
    {Chunk("Discussion", t, purpose = "PLANNING", IF purpose = "PLANNING" THEN 0 ELSE 20) :
       t \in Own("Discussion")}

\* Mutant: the reviews are always optional.
ReviewChunks_Optional == {Chunk("Reviews", t, FALSE, 10) : t \in Own("Reviews")}

\* The reviews of a task are needed to revise it.
ReviewChunks == {Chunk("Reviews", t, purpose = "REVISION", 10) : t \in Own("Reviews")}

\* The chunks that reading a part may give, and whether it may give none.
Readings(part) ==
    CASE part = "Skill"         -> {Chunk(part, t, r, 5) : t \in File(part), r \in BOOLEAN}
      [] part = "Instructions"  -> {Chunk(part, t, TRUE, 0) : t \in File(part) \cup {Empty}}
      [] part = "Experience"    -> {Chunk(part, t, FALSE, 15) : t \in Own(part)}
      [] part = "Reviews"       -> ReviewChunks
      [] part = "Discussion"    -> DiscussionChunks
      [] OTHER                  -> {Chunk(part, [name |-> part, size |-> Needed], TRUE, 0)}

MayBeAbsent(part) ==
    \/ part \in {"Skill", "Instructions", "Experience", "Plan", "Quality"}
    \/ part = "Workspace" /\ purpose \notin {"IMPLEMENTATION", "REVISION"}
    \/ part = "Reviews" /\ ~(purpose = "REVISION" /\ cause \in {"REVIEW", "SYNC"})
    \/ part = "Integration" /\ ~(purpose = "REVISION" /\ cause = "SYNC")
    \/ part = "Question" /\ purpose # "REVIEW"
    \/ part = "Discussion" /\ ~(purpose = "REVISION" /\ cause = "REQUEST") /\ purpose # "REVIEW"
    \/ part = "Clarification" /\ ~continued

MayBePresent(part) ==
    /\ part = "Workspace" => purpose \in {"IMPLEMENTATION", "REVISION"}
    /\ part = "Integration" => purpose = "REVISION"
    /\ part = "Question" => purpose = "REVIEW"
    /\ part = "Clarification" => continued

ReadPart ==
    /\ at < Len(Parts)
    /\ LET part == Parts[at + 1] IN
         \/ MayBePresent(part) /\ \E c \in Readings(part) : chunks' = Append(chunks, c)
         \/ MayBeAbsent(part) /\ UNCHANGED chunks
    /\ at' = at + 1
    /\ UNCHANGED <<purpose, cause, continued, manifest>>

-----------------------------------------------------------------------------
(* Choosing.                                                               *)

Texts(s) == {s[i].text : i \in DOMAIN s}
Total(s) == FoldLeft(LAMBDA n, c : n + c.text.size, 0, s)

\* Mutant: texts are compared with those of the same source only.
Deduplicate_BySource(s) ==
    FoldLeft(LAMBDA kept, c : IF c.text.size = 0 THEN kept ELSE Append(kept, c), <<>>, s)

\* The first of equal texts stays, whether it is required or not.
Deduplicate(s) ==
    FoldLeft(LAMBDA kept, c : IF c.text.size = 0 \/ c.text \in Texts(kept)
                              THEN kept ELSE Append(kept, c), <<>>, s)

\* The chunks of s that are in S, in their order.
Where(s, S) == FoldLeft(LAMBDA kept, c : IF c \in S THEN Append(kept, c) ELSE kept, <<>>, s)

RequiredOf(s) == Where(s, {c \in ToSet(s) : c.required})
WithPriority(s, p) == Where(s, {c \in ToSet(s) : ~c.required /\ c.priority = p})

\* The optional chunks by priority, those of one priority in the order read.
OptionalOf(s) ==
    WithPriority(s, 5) \o WithPriority(s, 10) \o WithPriority(s, 15) \o WithPriority(s, 20)

Fits(kept, c) == Total(kept) + c.text.size <= Budget

\* Mutant: what follows a chunk that does not fit is left out too.
Selected_Stops(s) ==
    FoldLeft(LAMBDA kept, c : IF Fits(kept.chunks, c) /\ kept.open
                              THEN [kept EXCEPT !.chunks = Append(@, c)] ELSE [kept EXCEPT !.open = FALSE],
             [chunks |-> RequiredOf(s), open |-> TRUE], OptionalOf(s)).chunks

\* Required chunks whatever they cost, then each optional chunk that still fits.
Selected(s) ==
    FoldLeft(LAMBDA kept, c : IF Fits(kept, c) THEN Append(kept, c) ELSE kept,
             RequiredOf(s), OptionalOf(s))

\* Mutant: the tokens of required chunks are not counted.
Accounted_Optional(kept) == Total(Where(kept, {c \in ToSet(kept) : ~c.required}))

Accounted(kept) == Total(kept)

Assemble ==
    /\ at = Len(Parts) /\ ~manifest.done
    /\ LET unique == Deduplicate(chunks)
           kept   == Selected(unique)
       IN  manifest' = [done     |-> TRUE,
                        included |-> kept,
                        omitted  |-> Where(OptionalOf(unique), ToSet(unique) \ ToSet(kept)),
                        tokens   |-> Accounted(kept),
                        over     |-> Accounted(RequiredOf(unique)) > Budget]
    /\ UNCHANGED <<purpose, cause, continued, at, chunks>>

Next == ReadPart \/ Assemble
Spec == Init /\ [][Next]_vars

-----------------------------------------------------------------------------
(* Properties.                                                             *)

TypeOK ==
    /\ purpose \in Purposes /\ cause \in Causes /\ continued \in BOOLEAN
    /\ at \in 0..Len(TaskParts)
    /\ \A i \in DOMAIN chunks :
         /\ chunks[i].text.size \in Sizes \cup {0, Needed} /\ chunks[i].required \in BOOLEAN
         /\ chunks[i].priority \in {0, 5, 10, 15, 20}
    /\ manifest.tokens = Total(manifest.included)

\* Only required context may exceed the budget, and then nothing else is included
\* (builder_test.go TestAssembleTreatsBudgetAsSoftLimitForRequiredContext).
OnlyRequiredExceeds ==
    Total(manifest.included) > Budget =>
       manifest.over /\ \A i \in DOMAIN manifest.included : manifest.included[i].required

\* What was left out could not have been included in addition to what was.
OmissionIsForced ==
    \A i \in DOMAIN manifest.omitted : ~Fits(manifest.included, manifest.omitted[i])

\* Every text that was read is in the prompt or in the list of omitted ones, once.
EveryTextIsAccounted ==
    manifest.done =>
      LET all == manifest.included \o manifest.omitted IN
        /\ Texts(all) = Texts(chunks) \ {Empty}
        /\ Cardinality(Texts(all)) = Len(all)

\* Whatever the budget, the run is told what it was started for: the review or the
\* synchronization to revise for, the question to answer, the answer to go on with.
ReasonIsIncluded ==
    manifest.done =>
      LET sources == {manifest.included[i].source : i \in DOMAIN manifest.included} IN
        /\ (purpose = "REVISION" /\ cause = "REVIEW") => "Reviews" \in sources
        /\ (purpose = "REVISION" /\ cause = "SYNC") => "Integration" \in sources
        /\ purpose = "REVIEW" => "Question" \in sources
        /\ continued => "Clarification" \in sources

\* What is in a prompt, and what is not, is there or not for a reason.
PromptInvariant ==
    /\ TypeOK
    /\ OnlyRequiredExceeds /\ OmissionIsForced /\ EveryTextIsAccounted
    /\ ReasonIsIncluded
=============================================================================
