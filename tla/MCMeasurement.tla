---------------------------- MODULE MCMeasurement ----------------------------
(***************************************************************************)
(* The graders, and the data and runs of the suggestion models, on small   *)
(* instances.  They share no variable, so what holds of each alone holds   *)
(* of them together: a behaviour is one part's, and the others rest in one *)
(* state.                                                                  *)
(***************************************************************************)
EXTENDS Measurement, ToolRows, BfclReply, ScoreLedger, SequencesExt

-----------------------------------------------------------------------------
(* The forms of each milestone, and the rows an episode may have behind it: *)
(* a part of what the golden episode evaluates.                            *)
MCSources ==
    [namespaces |-> {{"units"}, {"register_identity"}, {"convert"}, {"require"},
                     {"defn"}, {"defn", "precise"}, {"fork", "precise"}},
     db |-> {{"register_measure"}, {"register_measure", "typed"}, {"store_all"}, {"store_part"},
             {"retract"}, {"query"}, {"query", "predicate"}, {"predicate", "result"}, {"complete"}}]
MCOpenings == [name \in {"namespaces", "db"} |-> Prefixes(Goldens[name].good)]

(* Plans of up to three steps, one of them closed; work before planning.   *)
Opened(n) ==
    [steps |-> [i \in 1..n |-> Step(IF i = 1 THEN NoParent ELSE 1, 1, Never)],
     evals |-> Rows([i \in 1..n |-> "authors"])]
MCPlans ==
    LET oneClosed == [Opened(3) EXCEPT !.steps[2] = Step(1, 1, 1)] IN
    {Opened(0), Opened(2)}
        \cup {[oneClosed EXCEPT !.evals = Rows(deeds)] :
                 deeds \in {<<"authors", "authors", "authors", "closes">>,
                           <<"works", "authors", "authors", "authors", "closes">>}}

(* Forms that are what they look like: planning, a close, work, a look at  *)
(* the plan, a close that fails, work with its close, prose that mentions  *)
(* plan!.  And forms that are not: work that mentions plan!; a close with  *)
(* work in or behind it; a plan laid by a form that then fails; closes     *)
(* that look like work.                                                    *)
PlanForm(head, names, does) == [PlainRow("works") EXCEPT !.head = head, !.names = names, !.does = does]
MCPlanForms ==
    {PlainRow("authors"), PlainRow("closes"), PlainRow("works"), PlanForm("chatter", FALSE, {}),
     [PlanForm("done", FALSE, {}) EXCEPT !.ok = FALSE], PlanForm("work", FALSE, {"works", "closes"}),
     [PlanForm("work", TRUE, {}) EXCEPT !.prose = TRUE], PlanForm("work", TRUE, {"works"}),
     PlanForm("done", FALSE, {"works", "closes"}),
     [PlanForm("work", TRUE, {"authors"}) EXCEPT !.ok = FALSE], PlanForm("work", FALSE, {"closes"})}

(* A part of each row's chain, or one with a link left out.                *)
Event(link) ==
    IF link \in {"sees", "misses"} THEN [call |-> "turn"] ELSE [call |-> link, right |-> TRUE, ok |-> TRUE]
ChainGoldens(row) == {[i \in DOMAIN chain |-> Event(chain[i])] : chain \in Chains[row]}
MCEpisodes ==
    [row \in ReachRows |->
        LET parts == UNION {Prefixes(golden) : golden \in ChainGoldens(row)} IN
        parts \cup UNION {{RemoveAt(p, k) : k \in DOMAIN p} : p \in parts}]

(* One draw for each template.                                             *)
Draw(names, numbers, target) ==
    [names |-> names, numbers |-> numbers, target |-> target, threshold |-> 4]
MCDraws ==
    [shell_use |->
        <<Draw(<<2, 1>>, <<2, 1>>, 1), Draw(<<2, 1>>, <<1, 1>>, 1), Draw(<<3, 1, 2>>, <<1, 2, 3>>, 1),
          Draw(<<2, 1>>, <<5, 7>>, 1), Draw(<<2, 1>>, <<1, 1>>, 1), Draw(<<1, 2, 3>>, <<1, 1, 1>>, 2),
          Draw(<<1, 2>>, <<3, 4>>, 1), Draw(<<1, 2>>, <<3, 4>>, 1)>>,
     web_fetch |->
        <<Draw(<<3, 1, 2>>, <<11, 13, 12>>, 2), Draw(<<1, 2, 3>>, <<20, 5, 3>>, 1),
          Draw(<<1, 2>>, <<12, 15>>, 2), Draw(<<1, 2, 3>>, <<1, 1, 1>>, 1),
          Draw(<<1, 2, 3>>, <<21, 23, 22>>, 3), Draw(<<1, 2>>, <<12, 15>>, 1),
          Draw(<<1, 2, 3>>, <<12, 15, 13>>, 1), Draw(<<1, 2>>, <<12, 15>>, 1)>>,
     long_term_planning |->
        [i \in 1..8 |-> Draw(<<1, 2, 3, 4, 5>>, IF i = 8 THEN <<2, 7, 2, 4, 7>> ELSE <<7, 2, 9, 4, 6>>, 2)],
     database_workflow |-> <<Draw(<<1, 2, 3, 4, 5>>, <<7, 2, 9, 4, 6>>, 2)>>]
MCSelections == {<<i>> : i \in 0..7} \cup {<<2, 4>>, <<1, 6>>, <<3, 3>>, <<>>}

(* Calls of two functions, alone and in a list, with brackets and quotes   *)
(* in their strings; values that are no call.                              *)
MCValues ==
    (<<"{", "f", "}">> :> <<"f">>) @@ (<<"{", "g", "}">> :> <<"g">>)
        @@ (<<"[", "{", "f", "}", "{", "g", "}", "]">> :> <<"f", "g">>)
        @@ (<<"{", "f", "q", "}", "q", "}">> :> <<"f">>)
        @@ (<<"[", "{", "g", "q", "b", "q", "]", "q", "}", "]">> :> <<"g">>)
        @@ (<<"{", "}">> :> <<>>) @@ (<<"[", "]">> :> <<>>) @@ (<<"[", "n", "]">> :> <<>>)
MCProse == {<<"w">>, <<"q", "[", "q">>, <<"]">>, <<"(", "b", ")">>, <<"[", "w", "]">>}
MCStrays == {<<"[">>, <<"q">>, <<"[", "w", "}">>}

(* One sample of two epochs, and every way an episode ends but one of the  *)
(* two that are read alike.                                                *)
Fate(end, right, guarded) == [end |-> end, right |-> right, guarded |-> guarded]
MCFates ==
    {Fate("answered", TRUE, FALSE), Fate("answered", FALSE, FALSE), Fate("silent", TRUE, FALSE),
     Fate("bounds", TRUE, FALSE), Fate("clock", TRUE, FALSE), Fate("error", FALSE, TRUE),
     Fate("quiesced", TRUE, FALSE), Fate("harness", TRUE, FALSE)}
MCSamples == <<2>>

(* Epochs of one and of several batches, a row too long for the budget, an *)
(* epoch without rows.                                                     *)
MCTrainingPlans ==
    {<<<<2, 3, 1>>, <<4, 4, 1, 2>>>>, <<<<9, 1, 1, 1>>, <<3>>>>, <<<<2, 2>>, <<>>, <<5, 1, 4>>>>}

(* Two functions of one name, one of them with two parameters of one last  *)
(* segment; a third without names for its own; and cards of each, of a     *)
(* function that is not in the index and of one that passes for another.   *)
MCSnakeCase == [n \in {"run", "put", "x", "x!", "y", "request", "arg1", "arg2", "arg3"} |->
                    IF n = "x!" THEN "x" ELSE n]
MapSpec(keys) == [kind |-> "map", keys |-> keys]
MCIndex ==
    <<[sym |-> Symbol("seon.a", "a", "run"), doc |-> "d1",
       spec |-> MapSpec(<<Keyword("p", "x"), Keyword("p", "y")>>)],
      [sym |-> Symbol("seon.b", "b", "run"), doc |-> "d2",
       spec |-> [kind |-> "catn", keys |-> <<Keyword("p", "x"), Keyword("q", "x"), Keyword("", "y")>>]],
      [sym |-> Symbol("seon.b", "b", "put"), doc |-> "d1", spec |-> [kind |-> "slots", n |-> 2]]>>
Card(name, doc, spec) == [name |-> name, doc |-> doc, spec |-> spec]
MCCards ==
    {Card("run", "d1", [kind |-> "none"]), Card("run", "d2", [kind |-> "none"]),
     Card("run", "d3", MapSpec(<<Keyword("", "x"), Keyword("p", "x!"), Keyword("q", "x")>>)),
     Card("put", "d9", [kind |-> "opaque"])}

(* Forms: unreadable, prose, a namespace move, and calls by name and by    *)
(* place with values of every kind.                                        *)
Form(prose, nsMove, call) == [reads |-> TRUE, prose |-> prose, nsMove |-> nsMove, call |-> call]
ByName(map)   == [kind |-> "map", map |-> map]
ByPlace(list) == [kind |-> "list", list |-> list]
MCHeads == {Symbol("", "", "run"), Symbol("b", "b", "run"), Symbol("seon.a", "a", "run"), Symbol("b", "b", "put")}
MCArgs ==
    {ByPlace(<<>>), ByPlace(<<"plain", "keyword">>), ByPlace(<<"text :">>),
     ByName([k \in {Keyword("p", "x"), Keyword("q", "x")} |-> "plain"]),
     ByName([k \in {Keyword("p", "x"), Keyword("p", "y")} |-> IF k.name = "x" THEN "plain" ELSE "text ("]),
     ByName([k \in {Keyword("p", "x")} |-> "source"]), ByName([k \in {Keyword("", "y")} |-> "keyword"])}
MCForms ==
    {[Form(FALSE, FALSE, {}) EXCEPT !.reads = FALSE], Form(FALSE, TRUE, {}),
     Form(TRUE, FALSE, {[head |-> Symbol("", "", "run"), args |-> ByPlace(<<"source">>)]})}
        \cup {Form(FALSE, FALSE, {[head |-> h, args |-> a]}) : h \in MCHeads, a \in MCArgs}

(* Five functions in two namespaces, and a later index that lacks two and  *)
(* has other parameters.                                                   *)
Fn(space, name) == [space |-> space, name |-> name]
MCFunctions == {Fn("a", 1), Fn("a", 2), Fn("a", 3), Fn("b", 1), Fn("b", 2)}
Dumped(params, required, length) == [params |-> params, required |-> required, length |-> length]
MCDumps ==
    {[f \in MCFunctions |-> IF f.space = "a" THEN Dumped({"x", "y"}, {"x"}, 2) ELSE Dumped({}, {}, 3)],
     [f \in {Fn("a", 1), Fn("a", 2), Fn("b", 1)} |->
        IF f = Fn("a", 1) THEN Dumped({"z"}, {}, 2) ELSE Dumped({"x"}, {}, 1)]}
MCEvalCases ==
    {[query |-> 1, expected |-> {Fn("a", 1)}], [query |-> 2, expected |-> {Fn("b", 1)}],
     [query |-> 3, expected |-> {}]}
Situation(query, expected, args) == [query |-> query, expected |-> expected, args |-> args]
MCSituations ==
    {Situation(1, {Fn("a", 1)}, {"x"}), Situation(4, {Fn("a", 1)}, {"x"}),
     Situation(5, {Fn("a", 2)}, {"x", "z"}), Situation(6, {Fn("b", 1)}, {}), Situation(7, {}, {})}
Sized(name, length) == [name |-> name, length |-> length]
MCPublished ==
    {[query |-> 8, tools |-> <<Sized("h", 2), Sized("i", 1)>>, calls |-> <<[name |-> "h", args |-> {}]>>],
     [query |-> 2, tools |-> <<Sized("h", 9)>>, calls |-> <<>>],
     [query |-> 9, tools |-> <<Sized("h", 1)>>, calls |-> <<[name |-> "n", args |-> {}]>>]}
MCBank == {Sized("i", 1), Sized("j", 2), Sized("k", 3)}

-----------------------------------------------------------------------------
VARIABLE part   \* the part whose behaviour this is

Resting ==
    /\ part # "milestone" =>
        milestone = "db" /\ evals = <<>> /\ opening = <<>> /\ pod = FreshPod /\ over = FALSE /\ graded = {}
    /\ part # "continuity" =>
        /\ planPhase = "read" /\ clock = 1 /\ interruptedAt = Never /\ acts = 0
        /\ steps = <<>> /\ rowsRun = <<>> /\ finishedAfter = {} /\ laid = {} /\ wiped = FALSE
        /\ manner = FreshManner
    /\ part # "experiment" => arm = "no_plan" /\ ExperimentInit
    /\ part # "reachability" => left = 0 /\ ahead = <<>> /\ episode = Begun("skill_lifecycle", {})
    /\ part # "product" => scenario = "namespace" /\ ProductInit
    /\ part # "tools" => ToolInit
    /\ part # "bfcl" => BfclInit
    /\ part # "ledger" => LedgerInit
    /\ part # "predictions" => tool = ReduxApi /\ RunInit
    /\ part # "training" => rowLengths = <<>> /\ TrainRests
    /\ part # "rows" => RowInit
    /\ part # "data" => dump = <<>> /\ DataRests

MeasurementInit ==
    \/ part = "milestone" /\ Resting /\ MilestoneInit
    \/ part = "continuity" /\ Resting /\ PlanInit
    \/ part = "experiment" /\ Resting /\ ExperimentInit
    \/ part = "reachability" /\ Resting /\ ReachInit
    \/ part = "product" /\ Resting /\ ProductInit
    \/ part = "tools" /\ Resting /\ ToolInit
    \/ part = "bfcl" /\ Resting /\ BfclInit
    \/ part = "ledger" /\ Resting /\ LedgerInit
    \/ part = "predictions" /\ Resting /\ RunInit
    \/ part = "training" /\ Resting /\ TrainInit
    \/ part = "rows" /\ Resting /\ RowInit
    \/ part = "data" /\ Resting /\ DataInit

OthersRest ==
    /\ UNCHANGED part
    /\ part # "milestone" => UNCHANGED milestoneVars
    /\ part # "continuity" => UNCHANGED planVars
    /\ part # "experiment" => UNCHANGED experimentVars
    /\ part # "reachability" => UNCHANGED reachVars
    /\ part # "product" => UNCHANGED productVars
    /\ part # "tools" => UNCHANGED toolVars
    /\ part # "bfcl" => UNCHANGED bfclVars
    /\ part # "ledger" => UNCHANGED ledgerVars
    /\ part # "predictions" => UNCHANGED runVars
    /\ part # "training" => UNCHANGED trainVars
    /\ part # "rows" => UNCHANGED rowVars
    /\ part # "data" => UNCHANGED dataVars

MilestonePart    == part = "milestone" /\ MilestoneNext /\ OthersRest
ContinuityPart   == part = "continuity" /\ PlanNext /\ OthersRest
ExperimentPart   == part = "experiment" /\ ExperimentNext /\ OthersRest
ReachabilityPart == part = "reachability" /\ ReachNext /\ OthersRest
ProductPart      == part = "product" /\ ProductNext /\ OthersRest
ToolsPart        == part = "tools" /\ ToolNext /\ OthersRest
BfclPart         == part = "bfcl" /\ BfclNext /\ OthersRest
LedgerPart       == part = "ledger" /\ LedgerNext /\ OthersRest
PredictionsPart  == part = "predictions" /\ RunNext /\ OthersRest
TrainingPart     == part = "training" /\ TrainNext /\ OthersRest
RowsPart         == part = "rows" /\ RowNext /\ OthersRest
DataPart         == part = "data" /\ DataNext /\ OthersRest

MeasurementNext ==
    \/ MilestonePart \/ ContinuityPart \/ ExperimentPart \/ ReachabilityPart
    \/ ProductPart \/ ToolsPart \/ BfclPart \/ LedgerPart
    \/ PredictionsPart \/ TrainingPart \/ RowsPart \/ DataPart

-----------------------------------------------------------------------------
(* What is scored and counted is what was done and reached: the calls of   *)
(* the reply, the sample's own workspace, the episodes the agent itself    *)
(* concluded.                                                              *)
ScoreIsOfTheEpisode ==
    /\ part = "tools" => ToolRowsEarned
    /\ part = "bfcl" => BfclEarned
    /\ part = "ledger" => LedgerEarned
=============================================================================
