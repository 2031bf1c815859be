--------------------------- MODULE ProductScenarios ---------------------------
(***************************************************************************)
(* The product scenarios: collaboration and recovery in a leased branch.   *)
(*                                                                         *)
(* A scenario opens a branch, drives two phases in its pod, reads the      *)
(* evidence of its claim from the database (and, for the recovered child,  *)
(* from the host's processes), and closes the branch.  The readers of      *)
(* product_scenarios.py refuse to answer when the evidence is incomplete   *)
(* or ambiguous, and the checks judge what they return.  "branch" is what  *)
(* happened there; the agents do what they like between the steps of the   *)
(* solver.                                                                 *)
(***************************************************************************)
EXTENDS Integers, Sequences, FiniteSets, FiniteSetsExt, SequencesExt

CONSTANTS
    Agents,       \* the agents of the branch besides root
    MaxEvents     \* what happens in the branch during the phases

ASSUME ProductConstants == MaxEvents \in Nat

VARIABLES
    scenario,     \* the scenario of the sample
    stage,        \* the solver's next step
    lease,        \* the branch: "none", "open" or "closed"
    branch,       \* what happened in it
    events,       \* how much
    found,        \* what the database query returned: at most one evidence
    productSnapshot \* what the scorer is given: at most one

productVars == <<scenario, stage, lease, branch, events, found, productSnapshot>>

Scenarios == {"namespace", "reuse_repair", "child_recovery", "pod_restart"}

EmptyBranch ==
    [live |-> {}, messages |-> <<>>, evals |-> <<>>,          \* the namespace's residents
     versions |-> <<>>, calls |-> {}, repairs |-> {}, tested |-> FALSE, parallel |-> FALSE,
     crashes |-> <<>>, processes |-> {[pid |-> 1, digest |-> 1, ready |-> TRUE]},
     later |-> FALSE, sibling |-> FALSE,
     pod |-> 1, database |-> 1, value |-> "none"]

ProductInit ==
    /\ scenario \in Scenarios
    /\ stage = "acquire" /\ lease = "none"
    /\ branch = EmptyBranch /\ events = 0 /\ found = {} /\ productSnapshot = {}

-----------------------------------------------------------------------------
(* What happens in the branch while a phase runs.                          *)

Happens(set) ==
    /\ stage \in {"first phase", "second phase"} /\ events < MaxEvents
    /\ events' = events + 1
    /\ branch' \in set
    /\ UNCHANGED <<scenario, stage, lease, found, productSnapshot>>

(* Root's message goes to a resident of the namespace, or starts one.      *)
Addressed ==
    /\ scenario = "namespace"
    /\ Happens({[branch EXCEPT !.messages = Append(@, a), !.live = @ \cup {a}] : a \in Agents})

Resident ==
    /\ scenario = "namespace"
    /\ Happens({[branch EXCEPT !.evals = Append(@, [agent |-> a, inside |-> inside])] :
                    a \in branch.live, inside \in BOOLEAN}
               \cup {[branch EXCEPT !.live = @ \ {a}] : a \in branch.live})

(* The function is published, called by its name, repaired in place or     *)
(* elsewhere, doubled under another name, and tested.                      *)
Shared ==
    /\ scenario = "reuse_repair"
    /\ Happens({[branch EXCEPT !.versions = Append(@, "draft")]}
               \cup {[branch EXCEPT !.calls = @ \cup {a}] : a \in {b \in Agents : branch.versions # <<>>}}
               \cup {[branch EXCEPT !.repairs = @ \cup {a}, !.versions = Append(@, "repaired")] : a \in Agents}
               \cup {[branch EXCEPT !.parallel = TRUE]}
               \cup {[branch EXCEPT !.tested = @ \/ (branch.versions # <<>>
                                                     /\ Last(branch.versions) = "repaired")]})

(* Root's process runs the crashing form and dies with it; the crash is    *)
(* recorded; processes are started, become ready and die.                  *)
Pids == 1..4
Started(b) ==
    {[b EXCEPT !.processes = @ \cup {[pid |-> pid, digest |-> digest, ready |-> FALSE]}] :
        digest \in {1, 2},
        pid \in {p \in Pids : p = Max({1} \cup {q.pid : q \in b.processes}
                                          \cup {c.pid : c \in ToSet(b.crashes)}) + 1}}
Hosted(b) ==
    Started(b)
        \cup {[b EXCEPT !.processes = (@ \ {p}) \cup {[p EXCEPT !.ready = TRUE]}] : p \in b.processes}
        \cup {[b EXCEPT !.processes = @ \ {p}] : p \in b.processes}

Crashed ==
    /\ scenario = "child_recovery"
    /\ Happens({[branch EXCEPT !.processes = @ \ {p},
                               !.crashes = Append(@, [pid |-> p.pid, digest |-> p.digest,
                                                      recorded |-> FALSE])] :
                    p \in {p \in branch.processes : p.ready}}
               \cup {[branch EXCEPT !.crashes[i].recorded = TRUE] : i \in DOMAIN branch.crashes}
               \cup {[branch EXCEPT !.later = \E c \in ToSet(branch.crashes) : c.recorded] :
                         p \in {p \in branch.processes : p.ready}}
               \cup {[branch EXCEPT !.sibling = TRUE]}
               \cup Hosted(branch))

Commits ==
    /\ scenario = "pod_restart" /\ stage = "first phase"
    /\ Happens({[branch EXCEPT !.value = "committed"]})

-----------------------------------------------------------------------------
(* The solver.                                                             *)

Proceeds(next) == stage' = next /\ UNCHANGED <<scenario, events>>

(* The branch is opened before its status is read: a branch that is not    *)
(* ready is left open.                                                     *)
AcquireBranchLease ==
    /\ stage = "acquire"
    /\ \/ Proceeds("raised") /\ lease' \in {"none", "open"}
       \/ Proceeds("first phase") /\ lease' = "open"
    /\ UNCHANGED <<branch, found, productSnapshot>>

(* A phase returns, or its request fails.                                  *)
FirstRun ==
    /\ stage = "first phase"
    /\ \/ Proceeds(IF scenario = "pod_restart" THEN "restart" ELSE "second phase")
       \/ Proceeds("failed")
    /\ UNCHANGED <<lease, branch, found, productSnapshot>>

SecondRun ==
    /\ stage = "second phase"
    /\ Proceeds("read") \/ Proceeds("failed")
    /\ UNCHANGED <<lease, branch, found, productSnapshot>>

(* The restart replaces the pod, or leaves it as it is: then it is         *)
(* refused, because the status it reads is the one it knew.                *)
RestartBranchLease ==
    /\ stage = "restart"
    /\ \E replaced, wipes \in BOOLEAN :
        /\ branch' = [branch EXCEPT !.pod = IF replaced THEN 2 ELSE 1,
                                    !.database = IF wipes THEN 2 ELSE 1,
                                    !.value = IF wipes THEN "none" ELSE @]
        /\ Proceeds(IF replaced THEN "second phase" ELSE "failed")
    /\ UNCHANGED <<lease, found, productSnapshot>>

(* What the queries find; nothing, when the evidence is not complete or    *)
(* not one.                                                                *)
ReadNamespace(b) ==
    LET addressed == {a \in b.live : /\ \E m \in DOMAIN b.messages : b.messages[m] = a
                                     /\ \E e \in DOMAIN b.evals : b.evals[e].agent = a} IN
    {[to |-> a,
      messages |-> Cardinality({m \in DOMAIN b.messages : b.messages[m] = a}),
      inside |-> b.evals[Min({e \in DOMAIN b.evals : b.evals[e].agent = a})].inside] :
        a \in {a \in addressed : Cardinality(addressed) = 1}}

(* Mutant of ReadReuseRepair: caller and repairer may be the same agent.   *)
ReadReuseRepairAlone(b) ==
    IF Cardinality(b.calls) = 1 /\ Cardinality(b.repairs) = 1 /\ b.tested
    THEN {[versions |-> Len(b.versions), parallel |-> b.parallel]} ELSE {}

ReadReuseRepair(b) ==
    IF /\ Cardinality(b.calls) = 1 /\ Cardinality(b.repairs) = 1
       /\ b.calls # b.repairs /\ b.tested
    THEN {[versions |-> Len(b.versions), parallel |-> b.parallel]} ELSE {}

ReadChildRecovery(b) ==
    {[pid |-> c.pid, digest |-> c.digest] :
        c \in {c \in ToSet(b.crashes) :
                 Len(b.crashes) = 1 /\ c.recorded /\ b.later /\ b.sibling}}

ReadPodRestart(b) == {[pod |-> b.pod, database |-> b.database, value |-> b.value]}

ProductEvidence(name, b) ==
    CASE name = "namespace"      -> ReadNamespace(b)
      [] name = "reuse_repair"   -> ReadReuseRepair(b)
      [] name = "child_recovery" -> ReadChildRecovery(b)
      [] OTHER                   -> ReadPodRestart(b)

QueryProductEvidence ==
    /\ stage = "read"
    /\ found' = ProductEvidence(scenario, branch)
    /\ Proceeds(IF found' = {} THEN "failed"
                ELSE IF scenario = "child_recovery" THEN "processes" ELSE "release")
    /\ productSnapshot' = IF scenario = "child_recovery" THEN {} ELSE found'
    /\ UNCHANGED <<lease, branch>>

(* Meanwhile the host goes on, and its processes are read a moment later.  *)
HostGoesOn ==
    /\ stage = "processes" /\ events < MaxEvents /\ events' = events + 1
    /\ branch' \in Hosted(branch)
    /\ UNCHANGED <<scenario, stage, lease, found, productSnapshot>>

QueryExecutionProcesses ==
    /\ stage = "processes"
    /\ productSnapshot' = {[pid |-> r.pid, digest |-> r.digest, processes |-> branch.processes] : r \in found}
    /\ Proceeds("release") \/ Proceeds("failed")
    /\ UNCHANGED <<lease, branch, found>>

(* The branch is closed whatever happened; a failure of the close is the   *)
(* sample's failure too.                                                   *)
ReleaseBranchLease ==
    /\ stage \in {"release", "failed"}
    /\ \/ lease' = "closed" /\ Proceeds(IF stage = "failed" THEN "raised" ELSE "record")
       \/ lease' = lease /\ Proceeds("raised")
    /\ UNCHANGED <<branch, found, productSnapshot>>

(* Each phase's response must be one that can be scored.                   *)
RecordResults ==
    /\ stage = "record"
    /\ Proceeds("scored") \/ Proceeds("raised")
    /\ UNCHANGED <<lease, branch, found, productSnapshot>>

ProductNext ==
    \/ Addressed \/ Resident \/ Shared \/ Crashed \/ Commits
    \/ AcquireBranchLease \/ FirstRun \/ SecondRun \/ RestartBranchLease
    \/ QueryProductEvidence \/ HostGoesOn \/ QueryExecutionProcesses
    \/ ReleaseBranchLease \/ RecordResults

-----------------------------------------------------------------------------
(* The checks.                                                             *)

CheckNamespace(s) == s.messages = 2 /\ s.inside

(* Mutant of CheckReuseRepair: a function of another name will do.         *)
CheckReuseRepairDoubled(s) == s.versions >= 2

CheckReuseRepair(s) == s.versions >= 2 /\ ~s.parallel

CheckChildRecovery(s) ==
    LET replacements == {p \in s.processes : p.pid # s.pid} IN
    /\ Cardinality(replacements) = 1
    /\ \A p \in replacements : p.ready /\ p.digest = s.digest

CheckPodRestart(s) == s.pod # 1 /\ s.database = 1 /\ s.value = "committed"

CheckProduct(name, s) ==
    CASE name = "namespace"      -> CheckNamespace(s)
      [] name = "reuse_repair"   -> CheckReuseRepair(s)
      [] name = "child_recovery" -> CheckChildRecovery(s)
      [] OTHER                   -> CheckPodRestart(s)

-----------------------------------------------------------------------------
(* What each scenario claims of its branch: both messages went to the one  *)
(* resident that works there; one agent called the function and its peer   *)
(* repaired it in place, and it passed its test; root crashed once, was    *)
(* recovered and runs again in a process of the same artifact; the value   *)
(* outlived its pod.                                                       *)
Happened ==
    [namespace |->
        \E a \in branch.live :
            /\ \E m, n \in DOMAIN branch.messages :
                m # n /\ branch.messages[m] = a /\ branch.messages[n] = a
            /\ \A b \in branch.live \ {a}, m \in DOMAIN branch.messages, e \in DOMAIN branch.evals :
                branch.messages[m] # b \/ branch.evals[e].agent # b,
     reuse_repair |->
        /\ \E a \in branch.calls, b \in branch.repairs : a # b
        /\ "repaired" \in ToSet(branch.versions) /\ Len(branch.versions) > 1
        /\ branch.tested /\ ~branch.parallel,
     child_recovery |->
        /\ Len(branch.crashes) = 1 /\ branch.later /\ branch.sibling
        /\ \E c \in ToSet(branch.crashes) :
            /\ c.recorded
            /\ \E p \in branch.processes : p.ready /\ p.digest = c.digest /\ p.pid # c.pid,
     pod_restart |->
        branch.pod = 2 /\ branch.database = 1 /\ branch.value = "committed"]

(* A scenario is credited only when what it claims had happened in the     *)
(* branch it judged, and that branch was closed.                           *)
ProductEarned ==
    stage = "scored" =>
        /\ lease = "closed"
        /\ \A s \in productSnapshot : CheckProduct(scenario, s) => Happened[scenario]
=============================================================================
