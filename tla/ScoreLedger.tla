----------------------------- MODULE ScoreLedger -----------------------------
(***************************************************************************)
(* The scorecard: rows of metrics reduced from native logs, and the        *)
(* regression alarm over them.                                             *)
(*                                                                         *)
(* An episode ends in one of several ways, and a run is several episodes   *)
(* of its samples.  scorecard.py turns the log of a run into executions,   *)
(* the executions into one row, refuses the id of a row it has, and looks  *)
(* for a drop below the earlier rows of the same capability and arm.       *)
(* "history" is what the runs of those rows really were.  Means are in     *)
(* sixtieths, medians in half sixtieths.                                   *)
(***************************************************************************)
EXTENDS Integers, Sequences, FiniteSets, TLC

LOCAL INSTANCE FiniteSetsExt
LOCAL INSTANCE SequencesExt

CONSTANTS
    Samples,      \* sample -> how many epochs of it the run has
    Fates,        \* how an episode ends: [end, right, guarded]
    LedgerArms,   \* the arms a run may be under
    MaxRows       \* rows of the ledger

ASSUME LedgerConstants == MaxRows \in Nat /\ DOMAIN Samples # {}

VARIABLES
    ledger,       \* the rows, in the order they were appended
    history       \* for each row, how the episodes of its run ended

ledgerVars == <<ledger, history>>

Executions == UNION {{<<s, e>> : e \in 1..Samples[s]} : s \in DOMAIN Samples}

(* The agent itself brought the episode to its end, or ran out of turns.   *)
Concluded(fate) == fate.end \in {"answered", "silent", "bounds"}

-----------------------------------------------------------------------------
(* A sample of the log: the pod's evidence, the native error, the score.   *)
(* The capability guard raises for a run that ended without an answer      *)
(* ("guarded"); an older log may carry the score instead.                  *)
Logged(fate) ==
    [timedOut |-> fate.end = "clock",
     closed   |-> IF fate.end \in {"error", "quiesced", "bounds"} THEN fate.end ELSE "completed",
     error    |-> fate.end = "harness" \/ (fate.guarded /\ fate.end \in {"clock", "error", "quiesced"}),
     score    |-> IF fate.right THEN "C" ELSE "I",
     reply    |-> fate.end # "silent"]

BehaviorMiss(sample) == sample.closed = "bounds" \/ ~sample.reply

(* Mutant of Outcome: the native error is read first, and the pod's end    *)
(* never.                                                                  *)
NativeOutcome(sample) ==
    CASE sample.error         -> "harness_error"
      [] BehaviorMiss(sample) -> "fail"
      [] OTHER                -> IF sample.score = "C" THEN "pass" ELSE "fail"

Outcome(sample) ==
    CASE sample.timedOut             -> "solve_timeout"
      [] sample.closed = "error"     -> "run_error"
      [] sample.closed = "quiesced"  -> "run_quiesced"
      [] sample.error                -> "harness_error"
      [] BehaviorMiss(sample)        -> "fail"
      [] OTHER                       -> IF sample.score = "C" THEN "pass" ELSE "fail"

Scored == {"pass", "fail"}

Ratio(part, whole) == IF whole = {} THEN 0 ELSE (60 * Cardinality(part)) \div Cardinality(whole)

ComputeMetrics(outcomes) ==
    LET scored == {e \in Executions : outcomes[e] \in Scored}
        of(s) == {e \in Executions : e[1] = s}
        k == Max({Samples[s] : s \in DOMAIN Samples})
        clean == {s \in DOMAIN Samples : Samples[s] = k /\ of(s) \subseteq scored} IN
    [mean     |-> Ratio({e \in scored : outcomes[e] = "pass"}, scored),
     passAtK  |-> Ratio({s \in clean : \E e \in of(s) : outcomes[e] = "pass"}, clean),
     passHatK |-> Ratio({s \in clean : \A e \in of(s) : outcomes[e] = "pass"}, clean),
     flakes   |-> Cardinality(Executions \ scored)]

Median(means) ==
    LET sorted == SortSeq(means, <)
        n == Len(means) IN
    IF n % 2 = 1 THEN 2 * sorted[n \div 2 + 1] ELSE sorted[n \div 2] + sorted[n \div 2 + 1]

Drop == 6      \* a tenth
Window == 7

(* Mutant of Entries: the arms share one history.                          *)
EntriesOfAnyArm(rows, arm) == SelectSeq(rows, LAMBDA row : row.tier = "dev")

Entries(rows, arm) == SelectSeq(rows, LAMBDA row : row.tier = "dev" /\ row.arm = arm)

RegressionFailures(rows) ==
    {arm \in LedgerArms :
        LET entries == Entries(rows, arm)
            n == Len(entries)
            earlier == SubSeq(entries, Max({1, n - Window}), n - 1) IN
        /\ n >= 2
        /\ Median([i \in DOMAIN earlier |-> earlier[i].mean]) - 2 * entries[n].mean > 2 * Drop}

-----------------------------------------------------------------------------
LedgerInit == ledger = <<>> /\ history = <<>>

(* A run ends and its row is appended.  A run repeated under the id it had *)
(* is refused, and the ledger stays as it is.                              *)
AppendRow ==
    /\ Len(ledger) < MaxRows
    /\ \E fates \in [Executions -> Fates], arm \in LedgerArms, tier \in {"dev", "milestone"},
          run \in {Len(ledger), Len(ledger) + 1} :
        /\ \A row \in ToSet(ledger) : row.run # run
        /\ ledger' = Append(ledger,
                        [run |-> run, arm |-> arm, tier |-> tier]
                            @@ ComputeMetrics([e \in Executions |-> Outcome(Logged(fates[e]))]))
        /\ history' = Append(history,
                        [concluded |-> Cardinality({e \in Executions : Concluded(fates[e])}),
                         right     |-> Cardinality({e \in Executions : Concluded(fates[e])
                                                        /\ fates[e].end = "answered"
                                                        /\ fates[e].right})])

LedgerNext == AppendRow

-----------------------------------------------------------------------------
(* A row's mean is the share of right answers among the episodes that the  *)
(* agent itself brought to an end, whatever befell the others; and an arm  *)
(* alarms only when its own latest run did worse than one of its earlier   *)
(* runs, and always when it did worse than each of those in the window.    *)
(* (A run of which no episode was concluded is recorded with the mean 0.)  *)
Rate(i) == IF history[i].concluded = 0 THEN 0
           ELSE (60 * history[i].right) \div history[i].concluded

RunsOf(arm) == {i \in DOMAIN ledger : ledger[i].tier = "dev" /\ ledger[i].arm = arm}

LedgerEarned ==
    /\ \A i \in DOMAIN ledger : ledger[i].mean = Rate(i) /\ ledger[i].passHatK <= ledger[i].passAtK
    /\ \A arm \in LedgerArms :
        LET latest == Max(RunsOf(arm) \cup {0})
            worse(i) == Rate(i) - Rate(latest) > Drop IN
        /\ arm \in RegressionFailures(ledger) => \E i \in RunsOf(arm) \ {latest} : worse(i)
        /\ Cardinality(RunsOf(arm)) >= 2 /\ (\A i \in RunsOf(arm) \ {latest} : worse(i)) =>
                arm \in RegressionFailures(ledger)
=============================================================================
