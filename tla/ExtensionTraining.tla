-------------------------- MODULE ExtensionTraining --------------------------
(***************************************************************************)
(* The resumable training run of src-needle.                               *)
(*                                                                         *)
(* train_extend.py packs each epoch's rows into batches, trains them in    *)
(* the order one seeded generator gives, and from time to time validates   *)
(* and saves: the best weights, the latest weights, the step they are at,  *)
(* and the log are four files, written one after the other.  A killed run  *)
(* derives the same plan again and skips the batches before the step it    *)
(* finds.  The weights are the batches applied to them; the loss of a      *)
(* validation is any; the learning rate and the optimizer are left out.    *)
(***************************************************************************)
EXTENDS Sums, FiniteSets

CONSTANTS
    TrainingPlans,  \* the runs: the encoder lengths of the rows of each epoch
    TokenBudget,    \* padded tokens of a batch
    ValEvery,       \* steps between validations
    SaveEvery,      \* steps between saves
    Losses,         \* validation losses
    Infinity,       \* the loss before any, above them all
    MaxKills        \* kills in a behaviour

ASSUME TrainingConstants ==
    /\ \A p \in TrainingPlans : p \in Seq(Seq(Nat \ {0}))
    /\ {TokenBudget, ValEvery, SaveEvery} \subseteq Nat \ {0}
    /\ Infinity \in Nat /\ Losses \subseteq 0..(Infinity - 1) /\ MaxKills \in Nat

VARIABLES
    rowLengths,  \* the plan of this run
    writing,     \* the file written next, "train" between writes, "down", "finished"
    due,         \* the checkpoints the last step asked for
    applied,     \* the weights in memory: how often each batch was applied
    step,        \* batches passed, skipped ones included
    bestVal,     \* the lowest loss this process knows
    vals,        \* the losses of its log
    disk,        \* the files: best, latest, meta, log, final; {} before they exist
    kills,       \* kills so far
    repeats      \* a kill fell between the latest weights and their step

trainVars == <<rowLengths, writing, due, applied, step, bestVal, vals, disk, kills, repeats>>

-----------------------------------------------------------------------------
(* Packing: the longest rows first, a batch closed when one more row would *)
(* pad it past the budget.                                                 *)

LongestOf(lens, rows) == IF rows = {} THEN 0 ELSE CHOOSE n \in {lens[i] : i \in rows} :
                                                    \A i \in rows : lens[i] <= n

NextLongest(lens, rows) ==
    CHOOSE i \in rows : \A j \in rows : lens[j] < lens[i] \/ (lens[j] = lens[i] /\ i <= j)

Packs(lens, acc) ==
    LET i      == NextLongest(lens, acc.rest)
        padded == LongestOf(lens, {i} \cup acc.current)
    IN  IF acc.current # {} /\ (Cardinality(acc.current) + 1) * padded > TokenBudget
        THEN [batches |-> Append(acc.batches, acc.current), current |-> {i}, rest |-> acc.rest \ {i}]
        ELSE [acc EXCEPT !.current = @ \cup {i}, !.rest = @ \ {i}]

(* What is packed after each row.                                          *)
Packing(lens) ==
    LET packed[k \in 0..Len(lens)] ==
            IF k = 0 THEN [batches |-> <<>>, current |-> {}, rest |-> DOMAIN lens]
                     ELSE Packs(lens, packed[k - 1])
    IN  packed

PackBatches(lens) ==
    LET packed == Packing(lens)[Len(lens)]
    IN  IF packed.current = {} THEN packed.batches ELSE Append(packed.batches, packed.current)

(* The batches of each epoch of a plan.                                    *)
BatchesIn(plan) == [e \in DOMAIN plan |-> Len(PackBatches(plan[e]))]
BatchesOf(plan) == TotalOf(BatchesIn(plan))
EpochEnds       == {PrefixSums(BatchesIn(rowLengths))[e] : e \in DOMAIN rowLengths}
TotalBatches    == BatchesOf(rowLengths)

-----------------------------------------------------------------------------
NoFiles == [best |-> {}, latest |-> {}, meta |-> {}, log |-> {}, final |-> {}]

TrainRests ==
    /\ writing = "down" /\ due = <<>> /\ step = 0 /\ bestVal = Infinity /\ vals = {}
    /\ applied = <<>> /\ disk = NoFiles /\ kills = 0 /\ repeats = FALSE

TrainInit == rowLengths \in TrainingPlans /\ TrainRests

(* A resumed run passes over the batches before its start, whole epochs or *)
(* a part of one.                                                          *)
Skipped(b, start) == b - 1 < start

(* A run of a new directory begins with the stock weights and validates    *)
(* them; a killed one goes on from the latest weights, if their step is    *)
(* there too, and takes the best loss from its log.                        *)
Begins ==
    /\ writing = "down"
    /\ LET resumed == disk.latest # {} /\ disk.meta # {}
           start   == IF resumed THEN CHOOSE m \in disk.meta : TRUE ELSE 0
           logged  == IF resumed THEN UNION disk.log ELSE {}
       IN  /\ applied' = IF resumed THEN CHOOSE w \in disk.latest : TRUE ELSE [b \in 1..TotalBatches |-> 0]
           /\ step' = Cardinality({b \in 1..TotalBatches : Skipped(b, start)})
           /\ vals' = logged
           /\ bestVal' = IF logged = {} THEN Infinity
                                        ELSE CHOOSE v \in logged : \A u \in logged : v <= u
           /\ due' = IF resumed THEN <<>> ELSE <<"val">>
    /\ writing' = "train"
    /\ UNCHANGED <<rowLengths, disk, kills, repeats>>

(* One batch; then what its step calls for, and the end of an epoch.       *)
Trains ==
    /\ writing = "train" /\ due = <<>> /\ step < TotalBatches
    /\ step' = step + 1
    /\ applied' = [applied EXCEPT ![step'] = @ + 1]
    /\ due' = (IF step' % ValEvery = 0 THEN <<"val">>
               ELSE IF step' % SaveEvery = 0 THEN <<"save">> ELSE <<>>)
              \o (IF step' \in EpochEnds THEN <<"val">> ELSE <<>>)
    /\ UNCHANGED <<rowLengths, writing, bestVal, vals, disk, kills, repeats>>

Validates ==
    /\ writing = "train" /\ due # <<>> /\ Head(due) = "val"
    /\ \E loss \in Losses :
        /\ vals' = vals \cup {loss}
        /\ bestVal' = IF loss < bestVal THEN loss ELSE bestVal
        /\ writing' = IF loss < bestVal THEN "best" ELSE "latest"
    /\ UNCHANGED <<rowLengths, due, applied, step, disk, kills, repeats>>

SavesOnly ==
    /\ writing = "train" /\ due # <<>> /\ Head(due) = "save"
    /\ writing' = "latest"
    /\ UNCHANGED <<rowLengths, due, applied, step, bestVal, vals, disk, kills, repeats>>

FileContents(file) ==
    CASE file = "best" -> {bestVal}  [] file = "latest" -> {applied}
      [] file = "meta" -> {step}     [] OTHER           -> {vals}

(* Mutant of FileAfter: the step is written before its weights.            *)
FileAfterMeta(file) ==
    CASE file = "best" -> "meta"   [] file = "meta" -> "latest"
      [] file = "latest" /\ Head(due) = "val" -> "log"
      [] OTHER -> "train"

FileAfter(file) ==
    CASE file = "best" -> "latest" [] file = "latest" -> "meta"
      [] file = "meta" /\ Head(due) = "val" -> "log"
      [] OTHER -> "train"

WritesFile ==
    /\ writing \in {"best", "latest", "meta", "log"}
    /\ disk' = [disk EXCEPT ![writing] = FileContents(writing)]
    /\ writing' = FileAfter(writing)
    /\ due' = IF FileAfter(writing) = "train" THEN Tail(due) ELSE due
    /\ UNCHANGED <<rowLengths, applied, step, bestVal, vals, kills, repeats>>

(* The last batch is behind: the final weights, then the log.              *)
Ends ==
    /\ writing = "train" /\ due = <<>> /\ step = TotalBatches
    /\ disk' = [disk EXCEPT !.final = {applied}]
    /\ writing' = "lastLog"
    /\ UNCHANGED <<rowLengths, due, applied, step, bestVal, vals, kills, repeats>>

WritesLastLog ==
    /\ writing = "lastLog"
    /\ disk' = [disk EXCEPT !.log = {vals}]
    /\ writing' = "finished"
    /\ UNCHANGED <<rowLengths, due, applied, step, bestVal, vals, kills, repeats>>

TrainingKilled ==
    /\ writing \notin {"down", "finished"} /\ kills < MaxKills
    /\ kills' = kills + 1
    /\ repeats' = (repeats \/ writing = "meta")
    /\ writing' = "down" /\ due' = <<>> /\ applied' = <<>> /\ step' = 0
    /\ bestVal' = Infinity /\ vals' = {}
    /\ UNCHANGED <<rowLengths, disk>>

TrainNext ==
    \/ Begins \/ Trains \/ Validates \/ SavesOnly \/ WritesFile \/ Ends \/ WritesLastLog \/ TrainingKilled

TrainSpec == TrainInit /\ [][TrainNext]_trainVars

-----------------------------------------------------------------------------
(* Wherever a run is killed, the weights it goes on with have every batch  *)
(* before their step, in memory and on disk, and the final ones the whole  *)
(* plan; a batch is applied twice only where a kill parted the weights     *)
(* from their step; and the best weights are as good as any the log tells  *)
(* of.                                                                     *)
NoBatchIsLost ==
    /\ writing \notin {"down"} => \A b \in 1..step : applied[b] >= 1
    /\ \A w \in disk.latest, m \in disk.meta : \A b \in 1..m : w[b] >= 1
    /\ \A w \in disk.final : \A b \in 1..TotalBatches : w[b] >= 1 /\ (~repeats => w[b] = 1)
    /\ \A b \in disk.best, log \in disk.log : \A v \in log : b <= v

(* An epoch's batches are its rows, each once, and none but a row alone is *)
(* padded past the budget.                                                 *)
BatchesFit ==
    \A e \in DOMAIN rowLengths :
        LET lens == rowLengths[e]  batches == PackBatches(lens) IN
        /\ UNION {batches[i] : i \in DOMAIN batches} = DOMAIN lens
        /\ \A i, j \in DOMAIN batches : i # j => batches[i] \cap batches[j] = {}
        /\ \A i \in DOMAIN batches :
            \/ Cardinality(batches[i]) = 1
            \/ Cardinality(batches[i]) * LongestOf(lens, batches[i]) <= TokenBudget

TrainingIsWhole == NoBatchIsLost /\ BatchesFit
=============================================================================
