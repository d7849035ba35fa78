----------------------------- MODULE RunPolicy -----------------------------
(***************************************************************************)
(* What an agent may use. People register skills (directories with a      *)
(* SKILL.md) and MCP servers of the local Codex configuration in a        *)
(* catalogue, and bind them to an agent profile by immutable revisions.   *)
(* A claim freezes the catalogue's view of the current revision into the  *)
(* run; the runner compares it with the files and with Codex when the run *)
(* starts.  Files, catalogue, profiles and Codex change at any time, by   *)
(* people who do not wait for each other.                                  *)
(***************************************************************************)
EXTENDS Integers, Sequences, SequencesExt

CONSTANTS
    Profiles,      \* agent profiles, one per role
    Skills,        \* directories that may be registered as skills
    Servers,       \* names that may appear in the Codex configuration
    Texts,         \* contents of a SKILL.md; equal hashes are equal contents
    Unreadable,    \* no regular SKILL.md of at most 1 MiB in the directory
    People,        \* those who edit profiles and refresh skills
    Bindings,      \* how a form may bind a capability
    MaxRuns,       \* bound on the runs claimed
    MaxRevisions,  \* bound on the revisions of a profile
    MaxEdits,      \* bound on the edits of a SKILL.md
    MaxVersion     \* bound on the catalogue version of a skill

PolicyAssumption ==
    /\ MaxRuns \in Nat /\ MaxRevisions \in Nat \ {0}
    /\ MaxEdits \in Nat /\ MaxVersion \in Nat
    /\ Unreadable \notin Texts
    /\ Bindings \subseteq {"unbound", "optional", "required"}

VARIABLES
    file,       \* each SKILL.md: its content, and how often it was edited
    codex,      \* the servers the Codex configuration of the machine holds
    catalogue,  \* project_skills: recorded content, version (0: no row), and the
                \* number of edits the content was read after, which the code lacks
    registered, \* project_mcp_servers
    revisions,  \* agent_profile_revisions of each profile; the last is current
    form,       \* what each person has open: a profile and the revision it shows
    reading,    \* a refresh of a skill between the read of the file and its update
    runs        \* runs: revision, frozen policy, what the runner made of it

vars == <<file, codex, catalogue, registered, revisions, form, reading, runs>>

Run == 1..MaxRuns
Idle == [state |-> "idle"]

NoRun == [status |-> "ABSENT"]

(* A revision without command is not configured: nothing is claimed for it. *)
Unconfigured == [adapter |-> "none",
                 skills  |-> [k \in Skills |-> "unbound"],
                 servers |-> [m \in Servers |-> "unbound"]]

Current(p) == Last(revisions[p])

Bound(policy) == {c \in DOMAIN policy : policy[c] # "unbound"}
Required(policy) == {c \in DOMAIN policy : policy[c] = "required"}

Text     == Texts \cup {Unreadable}
Policy   == {"unbound", "optional", "required"}
Revision == [adapter : {"none", "generic", "codex"},
             skills : [Skills -> Policy], servers : [Servers -> Policy]]
Form     == {Idle} \cup [state : {"open"}, profile : Profiles, base : Nat]
Reading  == {Idle} \cup [state : {"read"}, skill : Skills, version : 0..MaxVersion,
                         text : Texts, edits : 0..MaxEdits]

TypeOK ==
    /\ file \in [Skills -> [text : Text, edits : 0..MaxEdits]]
    /\ codex \subseteq Servers
    /\ catalogue \in [Skills -> [text : Text, version : 0..MaxVersion, edits : 0..MaxEdits]]
    /\ \A k \in Skills : (catalogue[k].version = 0) <=> (catalogue[k].text = Unreadable)
    /\ registered \subseteq Servers
    /\ revisions \in [Profiles -> Seq(Revision)]
    /\ \A p \in Profiles :
          /\ Len(revisions[p]) \in 1..MaxRevisions
          /\ \A n \in 1..Len(revisions[p]) :
                /\ \A k \in Bound(revisions[p][n].skills) : catalogue[k].version > 0
                /\ Bound(revisions[p][n].servers) \subseteq registered
                /\ revisions[p][n].adapter = "generic" => Bound(revisions[p][n].servers) = {}
    /\ form \in [People -> Form]
    /\ \A x \in People : form[x] = Idle \/ form[x].base \in 1..Len(revisions[form[x].profile])
    /\ reading \in [People -> Reading]
    /\ DOMAIN runs = Run
    /\ \A r \in Run : runs[r].status \in {"ABSENT", "CLAIMED", "SKILLS", "LISTED", "AGENT", "FAILED"}

-----------------------------------------------------------------------------
(* The world outside: files, and Codex's own configuration. *)

EditFile(k) ==
    /\ file[k].edits < MaxEdits
    /\ \E t \in (Texts \cup {Unreadable}) \ {file[k].text} :
          file' = [file EXCEPT ![k] = [text |-> t, edits |-> @.edits + 1]]
    /\ UNCHANGED <<codex, catalogue, registered, revisions, form, reading, runs>>

ConfigureCodexServer(m) ==
    /\ codex' = IF m \in codex THEN codex \ {m} ELSE codex \cup {m}
    /\ UNCHANGED <<file, catalogue, registered, revisions, form, reading, runs>>

-----------------------------------------------------------------------------
(* The catalogue. *)

(* Registering and refreshing a skill read the file first.  A refresh carries   *)
(* the version of the row that its person saw, at this moment or before it.      *)
ReadSkill(x, k, v) ==
    /\ reading[x] = Idle
    /\ v \in 0..catalogue[k].version
    /\ file[k].text # Unreadable
    /\ reading' = [reading EXCEPT ![x] = [state |-> "read", skill |-> k, version |-> v,
                                          text |-> file[k].text, edits |-> file[k].edits]]
    /\ UNCHANGED <<file, codex, catalogue, registered, revisions, form, runs>>

(* Mutant: the refresh is not conditional on the version. *)
VersionMatches_Mutant(k, v) == (v = 0) <=> (catalogue[k].version = 0)

(* A path is registered once; a row is updated at the version it was seen at. *)
VersionMatches(k, v) == catalogue[k].version = v

StoreSkill(x) ==
    /\ reading[x] # Idle
    /\ reading' = [reading EXCEPT ![x] = Idle]
    /\ LET k == reading[x].skill IN
       IF VersionMatches(k, reading[x].version)
         THEN /\ catalogue[k].version < MaxVersion
              /\ catalogue' = [catalogue EXCEPT ![k] =
                    [text |-> reading[x].text, version |-> @.version + 1,
                     edits |-> reading[x].edits]]
         ELSE UNCHANGED catalogue
    /\ UNCHANGED <<file, codex, registered, revisions, form, runs>>

(* A server is registered if Codex knows it now; Codex may forget it later. *)
AddMCPServer(m) ==
    /\ m \in codex
    /\ m \notin registered
    /\ registered' = registered \cup {m}
    /\ UNCHANGED <<file, codex, catalogue, revisions, form, reading, runs>>

-----------------------------------------------------------------------------
(* Profiles. *)

OpenForm(x, p) ==
    /\ form[x] = Idle
    /\ form' = [form EXCEPT ![x] = [state |-> "open", profile |-> p, base |-> Len(revisions[p])]]
    /\ UNCHANGED <<file, codex, catalogue, registered, revisions, reading, runs>>

(* What a person may make of the revision in the form: an adapter and one binding. *)
Edited(shown) ==
    {[adapter |-> a, skills |-> [shown.skills EXCEPT ![k] = b], servers |-> shown.servers] :
        a \in {"generic", "codex"}, k \in Skills, b \in Bindings}
    \cup {[adapter |-> a, skills |-> shown.skills, servers |-> [shown.servers EXCEPT ![m] = b]] :
        a \in {"generic", "codex"}, m \in Servers, b \in Bindings}

(* Mutant: any adapter may be combined with MCP servers. *)
Valid_Mutant(input) == input.adapter # "none"

(* Only Codex can be told which servers to leave alone. *)
Valid(input) ==
    /\ input.adapter # "none"
    /\ input.adapter = "codex" \/ Bound(input.servers) = {}

(* The whole form becomes the next revision of whatever is current by now. *)
CreateRevision(x) ==
    /\ form[x] # Idle
    /\ LET p == form[x].profile IN
       /\ Len(revisions[p]) < MaxRevisions
       /\ \E input \in Edited(revisions[p][form[x].base]) :
             /\ Valid(input)
             /\ \A k \in Bound(input.skills) : catalogue[k].version > 0
             /\ Bound(input.servers) \subseteq registered
             /\ revisions' = [revisions EXCEPT ![p] = Append(@, input)]
    /\ form' = [form EXCEPT ![x] = Idle]
    /\ UNCHANGED <<file, codex, catalogue, registered, reading, runs>>

(* One transaction gives every profile without a command a Codex revision. *)
ConfigureCodexDefaults ==
    LET candidates == {p \in Profiles : Current(p).adapter = "none"} IN
    /\ candidates # {}
    /\ \A p \in candidates : Len(revisions[p]) < MaxRevisions
    /\ revisions' = [p \in Profiles |->
                        IF p \in candidates
                          THEN Append(revisions[p], [Current(p) EXCEPT !.adapter = "codex"])
                          ELSE revisions[p]]
    /\ UNCHANGED <<file, codex, catalogue, registered, form, reading, runs>>

-----------------------------------------------------------------------------
(* Runs. *)

Snapshot(revision) ==
    [skills  |-> [k \in Bound(revision.skills) |->
                    [text |-> catalogue[k].text, required |-> revision.skills[k] = "required"]],
     servers |-> revision.servers]

ClaimRun(r, p) ==
    /\ runs[r].status = "ABSENT"
    /\ \A q \in 1..(r - 1) : runs[q].status # "ABSENT"
    /\ Current(p).adapter # "none"
    /\ runs' = [runs EXCEPT ![r] = [status |-> "CLAIMED", profile |-> p,
                                    revision |-> Len(revisions[p]),
                                    policy |-> Snapshot(Current(p))]]
    /\ UNCHANGED <<file, codex, catalogue, registered, revisions, form, reading>>

(* Mutant: the runner takes the profile's current revision. *)
RevisionOf_Mutant(r) == Current(runs[r].profile)

RevisionOf(r) == revisions[runs[r].profile][runs[r].revision]

(* Mutant: any readable file will do. *)
Usable_Mutant(k, frozen) == file[k].text # Unreadable

Usable(k, frozen) == file[k].text = frozen.text

(* The required skills whose content is not the frozen one. *)
Missing(skills) == {k \in DOMAIN skills : skills[k].required /\ ~Usable(k, skills[k])}

LoadSkills(r) ==
    /\ runs[r].status = "CLAIMED"
    /\ LET skills == runs[r].policy.skills IN
       runs' = [runs EXCEPT ![r] =
          IF Missing(skills) # {}
            THEN [status |-> "FAILED", profile |-> @.profile, revision |-> @.revision]
            ELSE [status |-> "SKILLS", profile |-> @.profile, revision |-> @.revision,
                  policy |-> @.policy,
                  prompt |-> [k \in {j \in DOMAIN skills : Usable(j, skills[j])} |-> file[k].text]]]
    /\ UNCHANGED <<file, codex, catalogue, registered, revisions, form, reading>>

(* Mutant: servers outside the policy are left as they are. *)
Overrides_Mutant(listed, policy) ==
    [m \in listed \cap Bound(policy) |-> "on"]

(* One override for every server Codex listed: on for those of the policy, off for *)
(* the others.                                                                        *)
Overrides(listed, policy) ==
    [m \in listed |-> IF m \in Bound(policy) THEN "on" ELSE "off"]

(* The runner asks Codex for its servers; other adapters must not have any. *)
ListServers(r) ==
    /\ runs[r].status = "SKILLS"
    /\ LET policy == runs[r].policy.servers
           isCodex == RevisionOf(r).adapter = "codex"
           refused == IF isCodex THEN ~(Required(policy) \subseteq codex) ELSE Bound(policy) # {}
       IN runs' = [runs EXCEPT ![r] =
             IF refused
               THEN [status |-> "FAILED", profile |-> @.profile, revision |-> @.revision]
               ELSE [status |-> "LISTED", profile |-> @.profile, revision |-> @.revision,
                     policy |-> @.policy, prompt |-> @.prompt, listed |-> codex,
                     overrides |-> IF isCodex THEN Overrides(codex, policy) ELSE <<>>]]
    /\ UNCHANGED <<file, codex, catalogue, registered, revisions, form, reading>>

(* Codex reads its configuration itself, with the overrides on its command line. *)
Launch(r) ==
    /\ runs[r].status = "LISTED"
    /\ runs' = [runs EXCEPT ![r] =
          [status |-> "AGENT", profile |-> @.profile, revision |-> @.revision,
           policy |-> @.policy, prompt |-> @.prompt, listed |-> @.listed,
           overrides |-> @.overrides, adapter |-> RevisionOf(r).adapter,
           tools |-> IF RevisionOf(r).adapter = "codex"
                       THEN {m \in codex : m \in DOMAIN runs[r].overrides
                                              => runs[r].overrides[m] = "on"}
                       ELSE {}]]
    /\ UNCHANGED <<file, codex, catalogue, registered, revisions, form, reading>>

-----------------------------------------------------------------------------
Init ==
    /\ file \in [Skills -> {[text |-> t, edits |-> 0] : t \in Texts}]
    /\ codex = {}
    /\ catalogue = [k \in Skills |-> [text |-> Unreadable, version |-> 0, edits |-> 0]]
    /\ registered = {}
    /\ revisions = [p \in Profiles |-> <<Unconfigured>>]
    /\ form = [x \in People |-> Idle]
    /\ reading = [x \in People |-> Idle]
    /\ runs = [r \in Run |-> NoRun]

Next ==
    \/ \E k \in Skills : EditFile(k)
    \/ \E m \in Servers : ConfigureCodexServer(m) \/ AddMCPServer(m)
    \/ \E x \in People, k \in Skills, v \in 0..MaxVersion : ReadSkill(x, k, v)
    \/ \E x \in People : StoreSkill(x) \/ CreateRevision(x)
    \/ \E x \in People, p \in Profiles : OpenForm(x, p)
    \/ ConfigureCodexDefaults
    \/ \E r \in Run, p \in Profiles : ClaimRun(r, p)
    \/ \E r \in Run : LoadSkills(r) \/ ListServers(r) \/ Launch(r)

Spec == Init /\ [][Next]_vars

-----------------------------------------------------------------------------
(* An agent that works has the policy of the revision its run was claimed with,   *)
(* whatever became current since: nothing in its prompt that the revision does     *)
(* not bind, everything it requires, and the adapter of that revision.             *)
AgentHasItsRevision ==
    \A r \in Run : runs[r].status = "AGENT" =>
        LET claimed == revisions[runs[r].profile][runs[r].revision] IN
        /\ runs[r].adapter = claimed.adapter
        /\ DOMAIN runs[r].prompt \subseteq Bound(claimed.skills)
        /\ Required(claimed.skills) \subseteq DOMAIN runs[r].prompt
        /\ \A m \in Required(claimed.servers) :
              m \in DOMAIN runs[r].overrides /\ runs[r].overrides[m] = "on"

(* The text of a skill in a prompt is the one the catalogue held when the run was *)
(* claimed, through edits of the file and refreshes of the catalogue in between.   *)
SkillTextIsFrozen ==
    \A r \in Run : runs[r].status \in {"SKILLS", "LISTED", "AGENT"} =>
        \A k \in DOMAIN runs[r].prompt : runs[r].prompt[k] = runs[r].policy.skills[k].text

(* Of the servers Codex had when the runner asked, an agent reaches none that the *)
(* revision of its run does not bind.                                              *)
ListedServersAreInPolicy ==
    \A r \in Run : runs[r].status = "AGENT" =>
        runs[r].tools \cap runs[r].listed \subseteq Bound(RevisionOf(r).servers)

(* The catalogue never returns to a content read before the one it holds, however *)
(* slow a refresh is and whoever else refreshes the skill meanwhile.                *)
CatalogueMovesForward ==
    [][\A k \in Skills : catalogue'[k].edits >= catalogue[k].edits]_vars

(* A run works under the policy that was frozen for it, in all its parts.          *)
PolicyInvariant ==
    /\ TypeOK
    /\ AgentHasItsRevision /\ SkillTextIsFrozen /\ ListedServersAreInPolicy
=============================================================================
