---------------------------- MODULE PlanExperiment ----------------------------
(***************************************************************************)
(* The plan-preload experiment.                                            *)
(*                                                                         *)
(* An agent starts with a plan the harness transacted, with one it has to  *)
(* author, or with none.  What an arm was is never taken from its label:   *)
(* planning.py derives it from one bounded read of the database after the  *)
(* run, the roots at that basis and the history since the first turn.      *)
(* Roots come and go here while "everHad" and "everMade" remember them;    *)
(* a root is a record of who created it and when.                          *)
(***************************************************************************)
EXTENDS Integers, Sequences, FiniteSets

CONSTANTS
    MaxTx,       \* transactions that touch the roots, and the first turn's
    MaxReports   \* messages to the user and closings of the run

ASSUME ExperimentConstants == MaxTx \in Nat /\ MaxReports \in Nat

Arms == {"pretransacted", "model_authored", "no_plan"}

VARIABLES
    arm,          \* the arm of the sample
    tx,           \* the last of the transactions the contract tells apart
    firstTurn,    \* the transaction of the first turn, 0 before it
    harnessTxs,   \* transactions the harness reported for its plan
    planRoots,    \* the roots in the database
    everHad,      \* roots present at the first turn or asserted since
    closes,       \* steps closed in this run: the outcome was verified or not
    addressing,   \* the observations of the address step: active, plan open
    reports,      \* messages to the user and the closing of the run, in order
    stored,       \* the answer in the database: "right" or "wrong"
    evidence      \* the evidence read after the run: at most one record

experimentVars == <<arm, tx, firstTurn, harnessTxs, planRoots, everHad, closes, addressing,
                    reports, stored, evidence>>

ExperimentInit ==
    /\ arm \in Arms
    /\ tx = 0 /\ firstTurn = 0
    /\ harnessTxs = {} /\ planRoots = {} /\ everHad = {}
    /\ closes = {} /\ addressing = {} /\ reports = <<>> /\ stored = "wrong" /\ evidence = {}

Transacts == evidence = {} /\ tx < MaxTx /\ tx' = tx + 1

InRun == evidence = {} /\ firstTurn # 0

(* The harness transacts its plan before the first turn.                   *)
HarnessPlans ==
    /\ Transacts /\ firstTurn = 0
    /\ planRoots' = planRoots \cup {[at |-> tx', by |-> "harness"]}
    /\ harnessTxs' = harnessTxs \cup {tx'}
    /\ UNCHANGED <<arm, firstTurn, everHad, closes, addressing, reports, stored, evidence>>

TakesFirstTurn ==
    /\ Transacts /\ firstTurn = 0
    /\ firstTurn' = tx' /\ everHad' = planRoots
    /\ UNCHANGED <<arm, harnessTxs, planRoots, closes, addressing, reports, stored, evidence>>

(* During the run the agent, or another of its cluster, plans,             *)
PlansInRun(who) ==
    /\ Transacts /\ firstTurn # 0
    /\ planRoots' = planRoots \cup {[at |-> tx', by |-> who]}
    /\ everHad' = everHad \cup {[at |-> tx', by |-> who]}
    /\ UNCHANGED <<arm, firstTurn, harnessTxs, closes, addressing, reports, stored, evidence>>

(* and a root is retracted again.                                          *)
Retracts ==
    /\ Transacts
    /\ \E root \in planRoots : planRoots' = planRoots \ {root}
    /\ UNCHANGED <<arm, firstTurn, harnessTxs, everHad, closes, addressing, reports, stored, evidence>>

ClosesStep ==
    /\ InRun /\ planRoots # {}
    /\ \E verified, addressActive \in BOOLEAN :
        /\ closes' = closes \cup {verified}
        /\ addressing' = addressing \cup {[active |-> addressActive, open |-> TRUE]}
    /\ UNCHANGED <<arm, tx, firstTurn, harnessTxs, planRoots, everHad, reports, stored, evidence>>

Answers ==
    /\ InRun
    /\ stored' = "right"
    /\ UNCHANGED <<arm, tx, firstTurn, harnessTxs, planRoots, everHad, closes, addressing, reports, evidence>>

Reports ==
    /\ InRun /\ Len(reports) < MaxReports
    /\ \E event \in {"right", "wrong", "run_closed"} : reports' = Append(reports, event)
    /\ UNCHANGED <<arm, tx, firstTurn, harnessTxs, planRoots, everHad, closes, addressing, stored, evidence>>

(* The adapter reads the database.  The history may not have been read, or *)
(* not every close observed.                                               *)
ReadsEvidence ==
    /\ evidence = {} /\ firstTurn # 0
    /\ \E historyRead, coverage \in BOOLEAN :
        evidence' = {[observedAt |-> tx, firstTurn |-> firstTurn, roots |-> planRoots,
                      harnessTxs |-> harnessTxs, historyRead |-> historyRead,
                      history  |-> IF historyRead THEN everHad ELSE {},
                      created  |-> IF historyRead THEN {r.at : r \in {r \in everHad : r.at >= firstTurn}}
                                                  ELSE {},
                      coverage |-> coverage, observations |-> addressing]}
    /\ UNCHANGED <<arm, tx, firstTurn, harnessTxs, planRoots, everHad, closes, addressing,
                   reports, stored>>

ExperimentNext ==
    \/ HarnessPlans \/ TakesFirstTurn \/ PlansInRun("agent") \/ PlansInRun("another") \/ Retracts
    \/ ClosesStep \/ Answers \/ Reports \/ ReadsEvidence

-----------------------------------------------------------------------------
(* The oracle.                                                             *)

Source(root, e) ==
    IF root.at \in e.harnessTxs THEN "harness" ELSE IF root.by = "agent" THEN "model" ELSE "unknown"

Sufficient(e) ==
    /\ e.historyRead /\ e.observedAt >= e.firstTurn
    /\ \A root \in e.roots :
        /\ root.at <= e.observedAt
        /\ root.at >= e.firstTurn => root.at \in e.created

(* Mutant of ArmContract: the control arm has no plan when it is read.     *)
ArmContractAtTheEnd(a, e) ==
    CASE a = "pretransacted" ->
            e.roots # {} /\ \A root \in e.roots : Source(root, e) = "harness" /\ root.at < e.firstTurn
      [] a = "model_authored" ->
            e.roots # {} /\ \A root \in e.roots : Source(root, e) = "model"
      [] OTHER -> e.roots = {}

ArmContract(a, e) ==
    CASE a = "pretransacted" ->
            /\ e.roots # {} /\ e.roots \subseteq e.history
            /\ \A root \in e.roots : Source(root, e) = "harness" /\ root.at < e.firstTurn
      [] a = "model_authored" ->
            /\ e.roots # {} /\ e.roots \subseteq e.history
            /\ \A root \in e.roots :
                /\ Source(root, e) = "model"
                /\ root.at \in e.firstTurn..e.observedAt /\ root.at \in e.created
      [] OTHER -> e.roots = {} /\ e.history = {} /\ e.created = {}

PlanArmEvidence(a, e) == Sufficient(e) /\ ArmContract(a, e)

(* Mutant of DatabaseOutcome: a plausible answer will do.                  *)
DatabaseOutcomePlausible(answer) == answer \in {"right", "wrong"}

DatabaseOutcome(answer) == answer = "right"

(* Every close was verified; the control arm has none.                     *)
PlanIntegrity(verified, required) == IF required THEN verified = {TRUE} ELSE verified = {}

(* The answer was reported before the run closed for the first time.       *)
ReportDelivery(events) ==
    \E c \in DOMAIN events :
        /\ events[c] = "run_closed" /\ \A i \in 1..(c - 1) : events[i] # "run_closed"
        /\ \E i \in 1..(c - 1) : events[i] = "right"

AddressStepDiscipline(e, required) ==
    /\ IF required THEN e.coverage /\ e.observations # {} ELSE Sufficient(e) /\ e.roots = {}
    /\ \A o \in e.observations : ~(o.active /\ o.open)

CheckPlanExperiment(a, e) ==
    LET required == a # "no_plan" IN
    /\ DatabaseOutcome(stored)
    /\ PlanIntegrity(closes, required)
    /\ ReportDelivery(reports)
    /\ PlanArmEvidence(a, e)
    /\ required => AddressStepDiscipline(e, required)

-----------------------------------------------------------------------------
(* An arm's credit is for what happened in it: the preloaded plan was the  *)
(* one the agent found at its first turn, the authored one is the agent's  *)
(* own of this run, the control saw no plan at any moment of it; and the   *)
(* right answer was stored, and reported while the run was open.           *)
ExperimentEarned ==
    \A e \in evidence : CheckPlanExperiment(arm, e) =>
        /\ stored = "right"
        /\ \E i \in DOMAIN reports : reports[i] = "right" /\ \A j \in 1..i : reports[j] # "run_closed"
        /\ FALSE \notin closes
        /\ CASE arm = "pretransacted" -> planRoots # {} /\ planRoots \subseteq
                                             {[at |-> t, by |-> "harness"] : t \in 1..(firstTurn - 1)}
             [] arm = "model_authored" -> planRoots # {} /\ planRoots \subseteq
                                             {[at |-> t, by |-> "agent"] : t \in firstTurn..tx}
             [] OTHER -> everHad = {} /\ closes = {}
=============================================================================
