------------------------------- MODULE ToolRows -------------------------------
(***************************************************************************)
(* The frozen shell and web rows, driven and scored.                       *)
(*                                                                         *)
(* tasks/frozen_tool_rows.py runs the samples of a draw one after another  *)
(* through the pod, each in a workspace of its own, but scores and cleans  *)
(* them up whenever Inspect gets to it, also while another sample runs.    *)
(* "left" is how a sample's own agent left its task when it returned.      *)
(***************************************************************************)
EXTENDS GeneratedRows

LOCAL INSTANCE FiniteSetsExt
LOCAL INSTANCE SequencesExt
LOCAL INSTANCE Functions

CONSTANTS
    Draws,        \* row -> the draws of its seed, one for each position
    Selections,   \* the positions a task may be given
    MaxWrites     \* what an agent does to its workspace

ASSUME ToolRowConstants == MaxWrites \in Nat

Uuids == {1, 2}   \* the samples of an evaluation, epochs included

VARIABLES
    samples,      \* uuid -> [row, phase, writes, reply, verdict, left]
    workspaces,   \* the directories: name -> files
    holder        \* the sample that holds the pod, 0 for none

toolVars == <<samples, workspaces, holder>>

ToolKinds == {"shell_use", "web_fetch"}

(* Mutant of ParsePositions: a position may be repeated.                   *)
AnyPositions(positions) == positions # <<>>

ParsePositions(positions) == positions # <<>> /\ IsInjective(positions)

SelectedRows(row, positions) ==
    LET generated == GenerateRows(row, Draws[row], Max(ToSet(positions)) + 1) IN
    [i \in DOMAIN positions |-> generated[positions[i] + 1]]

(* Mutant of Workspace: the workspace is named after the sample.           *)
WorkspaceOfSample(u) == samples[u].row.id

(* A workspace belongs to one invocation, not to one sample.               *)
Workspace(u) == u

Fresh(row) ==
    [row |-> row, phase |-> "waiting", writes |-> 0, reply |-> <<>>, verdict |-> "none", left |-> FALSE]

NoRow == [id |-> 0, row |-> "none"]

ToolInit ==
    /\ samples = [u \in Uuids |-> [Fresh(NoRow) EXCEPT !.phase = "undrawn"]]
    /\ workspaces = <<>> /\ holder = 0

(* The task is built: the rows of two positions, or two epochs of one.     *)
DrawsRows ==
    /\ \A u \in Uuids : samples[u].phase = "undrawn"
    /\ \E row \in ToolKinds, positions \in Selections :
        /\ ParsePositions(positions)
        /\ LET rows == SelectedRows(row, positions) IN
            samples' = [u \in Uuids |-> Fresh(IF Len(rows) = 1 THEN rows[1] ELSE rows[u])]
    /\ UNCHANGED <<workspaces, holder>>

At(u, phase) == samples[u].phase = phase

Removed(name) == [f \in DOMAIN workspaces \ {name} |-> workspaces[f]]

(* The workspace is emptied and seeded, and the pod is the sample's.       *)
MaterializesSetup(u) ==
    /\ At(u, "waiting") /\ holder = 0 /\ holder' = u
    /\ workspaces' = [f \in {Workspace(u)} |-> samples[u].row.made.setup] @@ Removed(Workspace(u))
    /\ samples' = [samples EXCEPT ![u].phase = "running"]

(* The files the text speaks of, and what an agent may put into them.      *)
Paths(r) == DOMAIN r.made.setup \cup {c.path : c \in r.made.checks}
Contents(r) == {OneLine(0)} \cup {c.content : c \in r.made.checks}

(* The agent writes a file, or removes one.                                *)
AgentWrites(u) ==
    LET r == samples[u].row
        files == workspaces[Workspace(u)] IN
    /\ At(u, "running") /\ r.row = "shell_use" /\ samples[u].writes < MaxWrites
    /\ \E path \in Paths(r) :
        \E after \in {[f \in {path} |-> content] @@ files : content \in Contents(r)}
                         \cup {[f \in DOMAIN files \ {path} |-> files[f]]} :
            workspaces' = [workspaces EXCEPT ![Workspace(u)] = after]
    /\ samples' = [samples EXCEPT ![u].writes = @ + 1]
    /\ UNCHANGED holder

Candidates(r) == {r.made.oracle.answer, 0} \cup r.made.oracle.distractors

(* Whether the sample's agent did what its text asks: the workspace is as  *)
(* asked, or the reply ends in the number or names the one candidate.      *)
DidAsAsked(u, reply) ==
    LET r == samples[u].row
        answer == WebAsked(r.template, r.made.setup, r.draw.names[r.draw.target]) IN
    IF r.row = "shell_use"
    THEN ShellAsked(r.template, r.made.setup, r.draw, workspaces[Workspace(u)])
    ELSE /\ reply # <<>>
         /\ IF r.made.oracle.kind = "integer" THEN Last(reply) = answer
            ELSE ToSet(reply) \ {0} = {answer}

(* The pod answers.  A web sample reads its pages from a server that lives *)
(* as long as the run; the reply is the words or numbers it names.         *)
PodReturns(u) ==
    /\ At(u, "running") /\ holder' = 0
    /\ \E reply \in (IF samples[u].row.row = "shell_use" THEN {<<>>}
                     ELSE UNION {[1..n -> Candidates(samples[u].row)] : n \in 0..2}) :
        samples' = [samples EXCEPT ![u].phase = "ran", ![u].reply = reply,
                                   ![u].left = DidAsAsked(u, reply)]
    /\ UNCHANGED workspaces

(* The request fails, cannot be scored, or the sources have changed.       *)
PodFails(u) ==
    /\ At(u, "running") /\ holder' = 0
    /\ samples' = [samples EXCEPT ![u].phase = "failed"]
    /\ UNCHANGED workspaces

CheckWorkspace(files, checks) ==
    \A c \in checks :
        IF c.absent THEN c.path \notin DOMAIN files
        ELSE c.path \in DOMAIN files /\ files[c.path] = c.content

(* Mutant of CheckAnswer: any mention of the answer will do.               *)
MentionsAnswer(reply, oracle) == oracle.answer \in ToSet(reply)

CheckAnswer(reply, oracle) ==
    IF oracle.kind = "integer" THEN reply # <<>> /\ Last(reply) = oracle.answer
    ELSE oracle.answer \in ToSet(reply) /\ ToSet(reply) \cap oracle.distractors = {}

(* The scorer reads the workspace, or the reply.  A workspace that is not  *)
(* there has none of its files.                                            *)
Scores(u) ==
    LET r == samples[u].row
        files == IF Workspace(u) \in DOMAIN workspaces THEN workspaces[Workspace(u)] ELSE <<>>
        ok == IF r.row = "shell_use" THEN CheckWorkspace(files, r.made.checks)
                                     ELSE CheckAnswer(samples[u].reply, r.made.oracle) IN
    /\ At(u, "ran")
    /\ samples' = [samples EXCEPT ![u].phase = "scored", ![u].verdict = IF ok THEN "C" ELSE "I"]
    /\ UNCHANGED <<workspaces, holder>>

CleansUp(u) ==
    /\ samples[u].phase \in {"scored", "failed"}
    /\ workspaces' = Removed(Workspace(u))
    /\ samples' = [samples EXCEPT ![u].phase = "cleaned"]
    /\ UNCHANGED holder

ToolNext ==
    \/ DrawsRows
    \/ \E u \in Uuids :
        \/ MaterializesSetup(u) \/ AgentWrites(u) \/ PodReturns(u) \/ PodFails(u)
        \/ Scores(u) \/ CleansUp(u)

-----------------------------------------------------------------------------
(* A sample is correct exactly when its own agent did what its text asks,  *)
(* whatever the samples beside it do; no workspace outlives the evaluation; *)
(* and the oracle of every row of the seed agrees with the row's text.     *)
ToolRowsEarned ==
    /\ \A u \in Uuids : samples[u].verdict # "none" => (samples[u].verdict = "C" <=> samples[u].left)
    /\ (\A u \in Uuids : At(u, "cleaned")) => workspaces = <<>>
    /\ (\A u \in Uuids : At(u, "undrawn")) =>
        \A row \in DOMAIN Draws :
            \A r \in ToSet(GenerateRows(row, Draws[row], Len(Draws[row]))) : OracleAgrees(r)
=============================================================================
