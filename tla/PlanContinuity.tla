---------------------------- MODULE PlanContinuity ----------------------------
(***************************************************************************)
(* A plan that survives a restart of the pod.                              *)
(*                                                                         *)
(* planning.py drives two phases with a restart between them and judges    *)
(* the episode from a snapshot of the plan's steps, whose instants it      *)
(* compares with the one it read on its own clock between the phases, and  *)
(* from the rows the agent evaluated, of which it reads only the source.   *)
(* Here the agent plans, works and closes steps while the clock runs, in   *)
(* forms that may do otherwise than their source looks; several things may *)
(* happen in one millisecond, and the cluster may come back without its    *)
(* database.                                                               *)
(***************************************************************************)
EXTENDS Integers, Sequences, FiniteSets, FiniteSetsExt

CONSTANTS
    Plans,        \* the plans an episode may open with: [steps, evals]
    PlanForms,    \* the rows an agent's evaluation may leave
    MaxSteps,     \* steps of the plan
    MaxActs,      \* evaluations after the opening
    MaxClock,     \* milliseconds of the episode
    MinPreSteps   \* steps the task requires before the restart

ASSUME PlanConstants ==
    /\ MaxSteps \in Nat /\ MaxActs \in Nat /\ MaxClock \in Nat
    /\ MinPreSteps \in Nat \ {0}

PlanSteps ==
    [parent : Nat, created : Nat, status : {"open", "done"}, completed : Nat, message : BOOLEAN]

(* What the classifier can tell of a row: what its source begins with,     *)
(* whether it names plan! or step! anywhere, whether its narration calls   *)
(* it prose, and its outcome; and, which it cannot, what the row did.      *)
PlanRows == [head : {"done", "chatter", "work"}, names : BOOLEAN, prose : BOOLEAN, ok : BOOLEAN,
             does : SUBSET {"authors", "works", "closes"}]

(* What an episode opens with happened before the millisecond it opens in. *)
ASSUME PlansAreEarlier ==
    \A plan \in Plans :
        /\ plan.steps \in Seq(PlanSteps) /\ plan.evals \in Seq(PlanRows)
        /\ \A s \in DOMAIN plan.steps : plan.steps[s].created < 2 /\ plan.steps[s].completed < 2
ASSUME PlanFormsAreRows == PlanForms \subseteq PlanRows

Never == 0      \* a step that is not completed; the clock starts at 1
NoParent == 0   \* the parent of a root

VARIABLES
    planPhase,    \* "phase1", "interrupted", "phase2" or "read"
    clock,        \* milliseconds, of the pod and the harness
    steps,        \* the plan's steps: number -> what the database holds of it
    rowsRun,      \* the agent's rows
    interruptedAt,\* the instant the harness read, Never before
    acts,         \* evaluations and messages so far
    finishedAfter,\* steps closed after the restart
    laid,         \* steps the agent had authored when the first phase returned
    wiped,        \* the restarted cluster had lost its database
    manner        \* how the agent went about it: what it began with, how it closes

planVars == <<planPhase, clock, steps, rowsRun, interruptedAt, acts, finishedAfter, laid,
              wiped, manner>>

Authored(snapshot) == {s \in DOMAIN snapshot : ~snapshot[s].message}

Open(plan) == {s \in DOMAIN plan : plan[s].status # "done"}

(* What a row did, for the episode's course: to author is to plan, however *)
(* much else it does; to close is to do nothing but that.                  *)
Deed(row) ==
    IF "authors" \in row.does THEN "author"
    ELSE IF row.does = {"closes"} THEN "close"
    ELSE IF "works" \in row.does THEN "work" ELSE "other"

(* A row whose source looks like what it did.                              *)
AsItLooks(row) ==
    IF row.prose \/ ~row.ok THEN row.does = {}
    ELSE /\ row.head = "done" <=> row.does = {"closes"}
         /\ row.head # "done" => (row.names <=> "authors" \in row.does)
         /\ row.head = "chatter" => "works" \notin row.does
         /\ row.head = "work" /\ ~row.names => "works" \in row.does

(* What began the episode, the closes since the last other thing done,     *)
(* whether more than two of them ever came together, and whether a row     *)
(* ever did otherwise than it looks.                                       *)
Manner(before, row) ==
    LET deed == IF row.ok THEN Deed(row) ELSE "none" IN
    [began    |-> IF before.began = "nothing" /\ deed \in {"author", "work"} THEN deed ELSE before.began,
     together |-> CASE deed = "none" -> before.together
                    [] deed = "close" -> before.together + 1
                    [] OTHER -> 0,
     dumped   |-> before.dumped \/ (deed = "close" /\ before.together = 2),
     misled   |-> before.misled \/ ~AsItLooks(row)]

FreshManner == [began |-> "nothing", together |-> 0, dumped |-> FALSE, misled |-> FALSE]

MannerOf(rows) ==
    LET after[i \in 0..Len(rows)] == IF i = 0 THEN FreshManner ELSE Manner(after[i - 1], rows[i])
    IN  after[Len(rows)]

PlanInit ==
    /\ planPhase = "phase1" /\ clock = 2 /\ interruptedAt = Never /\ acts = 0
    /\ \E plan \in Plans : steps = plan.steps /\ rowsRun = plan.evals
    /\ finishedAfter = {} /\ laid = {} /\ wiped = FALSE
    /\ manner = MannerOf(rowsRun)

Acting == planPhase \in {"phase1", "phase2"} /\ acts < MaxActs

(* An evaluation, with all that its form does: a step is authored, open    *)
(* steps are closed.                                                       *)
Grown(row, parent) ==
    IF "authors" \in row.does
    THEN Append(steps, [parent |-> parent, created |-> clock, status |-> "open", completed |-> Never,
                        message |-> FALSE])
    ELSE steps

ClosedAt(plan, closing) ==
    [s \in DOMAIN plan |-> IF s \in closing THEN [plan[s] EXCEPT !.status = "done", !.completed = clock]
                           ELSE plan[s]]

RunsForm ==
    /\ Acting
    /\ \E row \in PlanForms, parent \in {NoParent} \cup DOMAIN steps :
        /\ IF "authors" \in row.does THEN Len(steps) < MaxSteps ELSE parent = NoParent
        /\ \E closing \in SUBSET Open(Grown(row, parent)) :
            /\ closing # {} <=> "closes" \in row.does
            /\ steps' = ClosedAt(Grown(row, parent), closing)
            /\ finishedAfter' = IF planPhase = "phase2" THEN finishedAfter \cup closing ELSE finishedAfter
        /\ rowsRun' = Append(rowsRun, row)
        /\ manner' = Manner(manner, row)
    /\ acts' = acts + 1
    /\ UNCHANGED <<planPhase, clock, interruptedAt, laid, wiped>>

(* A step is minted for a message the agent received.                      *)
Mints ==
    /\ Acting /\ Len(steps) < MaxSteps
    /\ steps' = Append(steps, [parent |-> NoParent, created |-> clock, status |-> "open",
                               completed |-> Never, message |-> TRUE])
    /\ acts' = acts + 1
    /\ UNCHANGED <<planPhase, clock, rowsRun, interruptedAt, finishedAfter, laid, wiped, manner>>

PlanTicks ==
    /\ clock < MaxClock /\ planPhase # "read"
    /\ clock' = clock + 1
    /\ UNCHANGED <<planPhase, steps, rowsRun, interruptedAt, acts, finishedAfter, laid, wiped, manner>>

(* run_planning_sample: the first phase returns and the instant is read,   *)
Interrupts ==
    /\ planPhase = "phase1" /\ planPhase' = "interrupted"
    /\ interruptedAt' = clock
    /\ laid' = Authored(steps)
    /\ UNCHANGED <<clock, steps, rowsRun, acts, finishedAfter, wiped, manner>>

(* the pod is restarted, perhaps over an empty database,                   *)
Restarts ==
    /\ planPhase = "interrupted" /\ planPhase' = "phase2"
    /\ wiped' \in BOOLEAN
    /\ steps' = IF wiped' THEN <<>> ELSE steps
    /\ rowsRun' = IF wiped' THEN <<>> ELSE rowsRun
    /\ UNCHANGED <<clock, interruptedAt, acts, finishedAfter, laid, manner>>

(* the second phase returns, and the steps and the rows are fetched.       *)
Fetches ==
    /\ planPhase = "phase2" /\ planPhase' = "read"
    /\ UNCHANGED <<clock, steps, rowsRun, interruptedAt, acts, finishedAfter, laid, wiped, manner>>

PlanNext ==
    RunsForm \/ Mints \/ PlanTicks \/ Interrupts \/ Restarts \/ Fetches

-----------------------------------------------------------------------------
(* The oracle.                                                             *)

LeafIds(snapshot) ==
    Authored(snapshot) \ {snapshot[s].parent : s \in Authored(snapshot)}

Pre(snapshot, t) == {s \in Authored(snapshot) : snapshot[s].created < t}

(* Mutant of Resumed: a step that was completed is a step resumed.         *)
ResumedWhenever(snapshot, t) == {s \in Pre(snapshot, t) : snapshot[s].status = "done"}

Resumed(snapshot, t) ==
    {s \in Pre(snapshot, t) : snapshot[s].status = "done" /\ snapshot[s].completed >= t}

PlanTrajectory(snapshot, t) ==
    /\ Cardinality(Pre(snapshot, t)) >= MinPreSteps
    /\ Resumed(snapshot, t) # {}
    /\ \A s \in Authored(snapshot) : snapshot[s].parent = NoParent => snapshot[s].created < t
    /\ \A s \in Pre(snapshot, t) \cap LeafIds(snapshot) : snapshot[s].status = "done"

(* _classify: by the first of these, whatever the row did.  A form that    *)
(* works and closes begins with neither; one that only mentions plan! is   *)
(* authoring.                                                              *)
Classify(row) ==
    IF row.prose THEN "prose"
    ELSE IF row.head = "done" THEN "close"
    ELSE IF row.names THEN "author"
    ELSE IF row.head = "chatter" THEN "other" ELSE "work"

Successful(rows, kind) == {i \in DOMAIN rows : rows[i].ok /\ Classify(rows[i]) = kind}

DecomposeFirst(rows) ==
    LET authors == Successful(rows, "author")
        works == Successful(rows, "work") IN
    authors # {} /\ (works # {} => Min(authors) < Min(works))

(* No three closes with nothing else that succeeded between them, prose    *)
(* included.                                                               *)
CloseAdjacency(rows) ==
    LET closes == Successful(rows, "close") IN
    /\ closes # {}
    /\ ~\E i, j, k \in closes : i < j /\ j < k /\ \A l \in i..k : rows[l].ok => l \in closes

CheckPlanning(answered, snapshot, t, rows) ==
    /\ answered
    /\ PlanTrajectory(snapshot, t)
    /\ DecomposeFirst(rows) /\ CloseAdjacency(rows)

-----------------------------------------------------------------------------
(* Continuity is credited only to a plan that was laid before the restart, *)
(* survived it, and of which a step was finished after it, with no plan    *)
(* made anew; and to an agent that planned before it worked and closed as  *)
(* it worked.  Two exceptions.  A step closed in the very millisecond of   *)
(* the interruption counts as finished after it, though planning.py has    *)
(* every write of the first phase strictly before.  And the course of the  *)
(* episode is told from the sources, so it is not assured once a form did  *)
(* otherwise than it looks: one that begins with done! and goes on, that   *)
(* only mentions plan!, that closes or authors unseen, that fails after    *)
(* its effect.                                                             *)
ContinuityEarned ==
    (planPhase = "read" /\ CheckPlanning(TRUE, steps, interruptedAt, rowsRun)) =>
        /\ ~wiped /\ Cardinality(laid) >= MinPreSteps
        /\ \E s \in laid :
              /\ steps[s].status = "done"
              /\ s \in finishedAfter \/ steps[s].completed = interruptedAt
        /\ \A s \in Authored(steps) : steps[s].parent = NoParent => s \in laid
        /\ ~manner.misled => manner.began = "author" /\ ~manner.dumped

(* The offline goldens tell the oracle's verdicts apart.                   *)
Step(parent, created, completed) ==
    [parent |-> parent, created |-> created, completed |-> completed, message |-> FALSE,
     status |-> IF completed = Never THEN "open" ELSE "done"]
PlainRow(does) ==
    [head |-> CASE does = "works" -> "work" [] does = "closes" -> "done" [] OTHER -> "chatter",
     names |-> does = "authors", prose |-> FALSE, ok |-> TRUE, does |-> {does}]
Rows(deeds) == [i \in DOMAIN deeds |-> PlainRow(deeds[i])]
GoodSteps == <<Step(NoParent, 100, 1100), Step(1, 110, 300), Step(1, 120, 1050), Step(1, 130, 1100)>>
GoodRows == Rows(<<"authors", "works", "closes", "works", "closes", "works", "closes">>)
BadSteps == <<Step(NoParent, 100, Never), Step(NoParent, 1200, Never)>>
BadRows == Rows(<<"works", "closes", "closes", "closes">>)

ASSUME PlanGoldensDiscriminate ==
    /\ MinPreSteps = 2 =>
        CheckPlanning(TRUE, GoodSteps, 1000, GoodRows)
    /\ ~CheckPlanning(FALSE, BadSteps, 1000, BadRows)
    /\ ~PlanTrajectory(BadSteps, 1000) /\ ~DecomposeFirst(BadRows) /\ ~CloseAdjacency(BadRows)
=============================================================================
