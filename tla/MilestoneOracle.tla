--------------------------- MODULE MilestoneOracle ---------------------------
(***************************************************************************)
(* The capability milestones and the oracle that grades them.              *)
(*                                                                         *)
(* milestone.py grades an episode from its eval rows: which forms the      *)
(* agent evaluated, in which order, and which of them succeeded.  Here the *)
(* agent evaluates row after row, and "pod" is what the rows really did to *)
(* its namespaces and its database; the oracle sees the response only.  A  *)
(* row's source is the set of the oracle's patterns it matches, and a form *)
(* is taken to do what it matches: one that only quotes it, or has it in a *)
(* comment, which the oracle takes for the deed, is not among the forms.   *)
(***************************************************************************)
EXTENDS EvalEvidence, FiniteSets, FiniteSetsExt

CONSTANTS
    Sources,      \* per milestone, the sources the agent may evaluate
    Openings,     \* per milestone, the rows an episode may open with
    MaxEvals      \* rows evaluated after the opening

ASSUME MilestoneConstants == MaxEvals \in Nat

(* The oracle's patterns, and those of its registrations.                  *)
Marks ==
    {"units", "convert", "require", "defn", "precise", "fork", "register_identity", "register_measure",
     "typed", "store_all", "store_part", "retract", "query", "predicate", "result", "complete"}
Register == [identity |-> "register_identity", measure |-> "register_measure"]

Milestones == {"namespaces", "db"}

ASSUME FormsAreForms ==
    \A name \in Milestones :
        /\ Sources[name] \subseteq SUBSET Marks
        /\ Openings[name] \subseteq Seq([ok : BOOLEAN, source : SUBSET Marks])

VARIABLES
    milestone,    \* the row of the bench: "namespaces" or "db"
    evals,        \* the rows of the agent, as its database holds them
    opening,      \* the rows it begins with
    pod,          \* what evaluating them did
    over,         \* the solver returned or raised
    graded        \* the samples the scorer is given: at most one

milestoneVars == <<milestone, evals, opening, pod, over, graded>>

-----------------------------------------------------------------------------
(* What a row does.  A row that fails does nothing; one that enters a      *)
(* namespace and registers, registers inside.                              *)

Records == {[identity |-> 1, measure |-> 17], [identity |-> 2, measure |-> 8]}
Threshold == 10
SourceTotal == 425       \* in tenths
ConvertedTotal == 1394

Total(facts) == MapThenSumSet(LAMBDA f : f.measure, {f \in facts : f.measure > Threshold})

FreshPod ==
    [entered |-> {}, schema |-> {}, required |-> FALSE, factors |-> <<>>, forked |-> FALSE,
     facts |-> {}, stored |-> FALSE, recalled |-> FALSE, computed |-> FALSE]

Evaluated(world, row) ==
    LET does(mark) == row.ok /\ mark \in row.source
        entered == world.entered \cup {ns \in {"units", "convert"} : does(ns)} IN
    [entered  |-> entered,
     schema   |-> world.schema \cup
                    {a \in {"identity", "measure"} :
                        /\ does(Register[a])
                        /\ IF milestone = "db" THEN does("typed") ELSE "units" \in entered},
     required |-> world.required \/ does("require"),
     factors  |-> IF does("defn") THEN Append(world.factors, "precise" \in row.source)
                                  ELSE world.factors,
     forked   |-> world.forked \/ does("fork"),
     facts    |-> CASE does("store_all")  -> world.facts \cup Records
                    [] does("store_part") -> world.facts \cup {CHOOSE r \in Records : TRUE}
                    [] does("retract")    -> {}
                    [] OTHER              -> world.facts,
     stored   |-> world.stored \/ (does("store_all") /\ world.schema = {"identity", "measure"}),
     recalled |-> world.recalled \/ (does("query") /\ world.stored),
     computed |-> world.computed \/ (does("predicate") /\ world.stored
                                       /\ (does("query") \/ (does("result") /\ world.recalled)))]

-----------------------------------------------------------------------------
(* The oracle.                                                             *)

NsMovementChecks(rows, reply) ==
    LET entered(ns) == OkIndices(rows, ns)
        regs == OkIndices(rows, "register_identity")
        defs == OkIndices(rows, "defn") IN
    [movement          |-> entered("units") # {} /\ entered("convert") # {},
     schema_after_move |-> /\ regs # {} /\ entered("units") # {}
                           /\ Min(regs) >= Min(entered("units")),
     bare_require      |-> OkIndices(rows, "require") # {},
     redefine_in_place |-> Cardinality(defs) >= 2 /\ "precise" \in rows[Max(defs)].source,
     no_parallel_fork  |-> \A i \in DOMAIN rows : "fork" \notin rows[i].source,
     report_values     |-> {SourceTotal, ConvertedTotal} \subseteq reply.numbers]

(* A generated row carries the oracle's proof obligation; the fixed         *)
(* contract carries none, and its database is not consulted.               *)
StoreRecallChecks(given) ==
    LET rows == given.rows
        schemas(a) == {i \in OkIndices(rows, Register[a]) : "typed" \in rows[i].source}
        transacts == OkIndices(rows, "store_all")
        queries == {i \in OkIndices(rows, "query") :
                        transacts # {} /\ i > Min(transacts)}
        computes == {i \in OkIndices(rows, "predicate") :
                        /\ queries # {} /\ i >= Min(queries)
                        /\ i = Min(queries) \/ "result" \in rows[i].source}
        completes == {i \in OkIndices(rows, "complete") :
                        computes # {} /\ i > Min(computes)} IN
    [schema_register   |-> /\ schemas("identity") # {} /\ schemas("measure") # {}
                           /\ transacts # {}
                           /\ Max(schemas("identity") \cup schemas("measure")) < Min(transacts),
     transact          |-> transacts # {},
     query_later       |-> queries # {},
     compute_later     |-> computes # {},
     database_readback |-> \/ ~given.generated
                           \/ /\ OrderedProofRows(rows, given.basis)
                              /\ transacts # {} /\ queries # {}
                              /\ given.snapshot = Records
                              /\ rows[Min(transacts)].at < rows[Min(queries)].at,
     complete          |-> completes # {},
     answer            |-> Total(Records) \in given.reply.numbers]

CheckMilestone(name, given) ==
    LET checks == IF name = "db"
                  THEN StoreRecallChecks(given)
                  ELSE NsMovementChecks(given.rows, given.reply) IN
    \A check \in DOMAIN checks : checks[check]

(* Signatures of a result the model typed itself: reported beside the      *)
(* verdict and no part of it.                                              *)
Fabricated(reply) == reply.marks \cap {"glyph", "envelope"} # {}

FabricationSummary(replies) ==
    [turns |-> Len(replies), fab_turns |-> Cardinality({i \in DOMAIN replies : Fabricated(replies[i])})]

MilestoneScore(name, given) ==
    [correct |-> CheckMilestone(name, given),
     fabrication |-> FabricationSummary(<<given.reply>>).fab_turns]

-----------------------------------------------------------------------------
(* The rows the offline endpoint replays.                                  *)

Ok(source) == [ok |-> TRUE, source |-> source]

Goldens ==
    [namespaces |->
        [good |-> <<Ok({"units"}), Ok({"register_identity", "typed"}), Ok({"convert"}),
                    Ok({"defn"}), Ok({"require"}), Ok({"defn", "precise"})>>,
         bad  |-> <<Ok({"units"}), Ok({"register_identity", "typed"}), Ok({"fork", "precise"})>>],
     db |->
        [good |-> <<Ok({"register_identity", "typed"}), Ok({"register_measure", "typed"}),
                    Ok({"store_all"}), Ok({"query", "predicate"}), Ok({}), Ok({"complete"})>>,
         bad  |-> <<Ok({"query"}), Ok({"store_part"})>>]]

Committed(rows) ==
    [i \in DOMAIN rows |-> [ok |-> rows[i].ok, source |-> rows[i].source,
                            turn |-> 1, at |-> i]]

MilestoneInit ==
    /\ milestone \in Milestones
    /\ opening \in Openings[milestone]
    /\ evals = <<>> /\ pod = FreshPod
    /\ over = FALSE /\ graded = {}

(* The form that comes next: of the opening first, then any.               *)
Upcoming ==
    IF Len(evals) < Len(opening) THEN {opening[Len(evals) + 1]}
    ELSE [ok : BOOLEAN, source : Sources[milestone]]

(* The agent evaluates a form.                                             *)
Evaluates ==
    /\ ~over /\ Len(evals) < Len(opening) + MaxEvals
    /\ \E form \in Upcoming :
        LET row == [ok |-> form.ok, source |-> form.source, turn |-> 1, at |-> Len(evals) + 1] IN
        /\ evals' = Append(evals, row)
        /\ pod' = Evaluated(pod, row)
    /\ UNCHANGED <<milestone, opening, over, graded>>

Replies ==
    {[numbers |-> numbers, marks |-> marks] :
        numbers \in {{}, {SourceTotal, ConvertedTotal, Total(Records)}}, marks \in {{}, {"glyph"}}}
        \ {[numbers |-> {}, marks |-> {"glyph"}]}

(* The solver drives the run, keeps its rows, for the database milestone   *)
(* reads the database back, and then verifies that the source it was       *)
(* admitted from is still there; the scorer grades the sample.             *)
MilestoneSolver ==
    /\ ~over /\ over' = TRUE
    /\ \E rows \in (IF milestone = "db" THEN Responses(evals, {"query", "predicate"}) ELSE {evals}),
          reply \in Replies, sameSource, generated \in BOOLEAN :
        graded' = {given \in {[rows |-> rows, reply |-> reply, basis |-> Len(evals),
                                snapshot |-> pod.facts, generated |-> generated]} : sameSource}
    /\ UNCHANGED <<milestone, evals, opening, pod>>

MilestoneNext == Evaluates \/ MilestoneSolver

-----------------------------------------------------------------------------
(* A milestone is graded correct only when the agent did it: both          *)
(* namespaces entered, the schema registered once inside, the function     *)
(* redefined and now precise; or the records stored under the registered   *)
(* schema, recalled and computed afterwards, still in the database, and    *)
(* their total in the reply.                                               *)
MilestoneEarned ==
    \A given \in graded : CheckMilestone(milestone, given) =>
        IF milestone = "db"
        THEN given.generated =>
                /\ pod.stored /\ pod.recalled /\ pod.computed
                /\ pod.facts = Records
                /\ Total(pod.facts) \in given.reply.numbers
        ELSE /\ pod.entered = {"units", "convert"} /\ "identity" \in pod.schema
             /\ pod.required /\ ~pod.forked
             /\ Len(pod.factors) >= 2 /\ Last(pod.factors)

(* The offline goldens tell the oracle's verdicts apart.                   *)
GoldenVerdict(name, mode) ==
    LET rows == Committed(Goldens[name][mode]) IN
    CheckMilestone(name,
        [rows |-> rows, basis |-> Len(rows), snapshot |-> {}, generated |-> FALSE,
         reply |-> [numbers |-> {SourceTotal, ConvertedTotal, Total(Records)},
                    marks |-> {}]])

ASSUME GoldensDiscriminate ==
    \A name \in DOMAIN Goldens : GoldenVerdict(name, "good") /\ ~GoldenVerdict(name, "bad")
=============================================================================
