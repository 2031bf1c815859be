---------------------------- MODULE GeneratedRows ----------------------------
(***************************************************************************)
(* The generators of the tool and planning rows.                           *)
(*                                                                         *)
(* generators.py makes a row from a template and one seeded source of      *)
(* numbers: the files or facts the agent is given, and the oracle that     *)
(* judges it.  A draw is what the template takes from that source: names,  *)
(* all different and compared as the files they name are, numbers, and the *)
(* one of them that is asked for.  A file is a sequence of lines and a     *)
(* line a sequence of numbers; a path is a directory and a name in it.     *)
(* What each task asks for is stated a second time, from the files and     *)
(* facts alone, the way the text the agent reads does.                     *)
(***************************************************************************)
EXTENDS Integers, Sequences, FiniteSets

LOCAL INSTANCE FiniteSetsExt
LOCAL INSTANCE SequencesExt

SumOf(numbers) == FoldLeft(LAMBDA sum, n : sum + n, 0, numbers)
OneLine(n) == <<<<n>>>>
Lines(numbers) == [i \in DOMAIN numbers |-> <<numbers[i]>>]
Facts(d) == [i \in DOMAIN d.names |-> <<d.names[i], d.numbers[i]>>]

Written(path, content) == [path |-> path, absent |-> FALSE, content |-> content]
Gone(path) == [path |-> path, absent |-> TRUE, content |-> <<>>]

-----------------------------------------------------------------------------
(* shell_use: files, and the outcomes the oracle looks for in them.        *)

LineCount(d) ==
    [setup  |-> [f \in {<<"data", i>> : i \in DOMAIN d.numbers} |->
                    [k \in 1..d.numbers[f[2]] |-> <<k>>]],
     checks |-> {Written(<<"out", 0>>, OneLine(SumOf(d.numbers)))}]

ExactFile(d) ==
    [setup |-> <<>>, checks |-> {Written(<<"notes", d.names[1]>>, <<d.names>>)}]

SortLines(d) ==
    [setup  |-> [f \in {<<"words", 0>>} |-> Lines(d.names)],
     checks |-> {Written(<<"sorted", 0>>, Lines(SortSeq(d.names, <))),
                 Written(<<"words", 0>>, Lines(d.names))}]

Indexed(d, name) == CHOOSE i \in DOMAIN d.names : d.names[i] = name

ConcatParts(d) ==
    LET sorted == SortSeq(d.names, <)
        body(name) == <<d.numbers[Indexed(d, name)]>> IN
    [setup  |-> [f \in {<<"parts", n>> : n \in ToSet(d.names)} |-> <<body(f[2])>>],
     checks |-> {Written(<<"combined", 0>>, [i \in DOMAIN sorted |-> body(sorted[i])])}]

ArchiveLogs(d) ==
    LET logs == {d.names[i] : i \in 1..d.target}
        keeps == ToSet(d.names) \ logs IN
    [setup  |-> [f \in {<<"in log", n>> : n \in logs} \cup {<<"in txt", n>> : n \in keeps} |->
                    OneLine(f[2])],
     checks |-> {Written(<<"archive log", n>>, OneLine(n)) : n \in logs}
                    \cup {Gone(<<"in log", n>>) : n \in logs}
                    \cup {Written(<<"in txt", n>>, OneLine(n)) : n \in keeps}]

CountExt(d) ==
    LET csv == {d.names[i] : i \in 1..d.target} IN
    [setup  |-> [f \in {<<"data csv", n>> : n \in csv}
                        \cup {<<"data txt", n>> : n \in ToSet(d.names) \ csv} |-> OneLine(1)],
     checks |-> {Written(<<"out", 0>>, OneLine(d.target))}]

SumNumbers(d) ==
    [setup  |-> [f \in {<<"numbers", 0>>} |-> Lines(d.numbers)],
     checks |-> {Written(<<"out", 0>>, OneLine(SumOf(d.numbers)))}]

NestedDir(d) ==
    [setup |-> <<>>, checks |-> {Written(<<"deep", d.names[1]>>, OneLine(d.names[2]))}]

(* What the text asks of the workspace, given the files it was seeded with *)
(* (and, where the text itself names them, the words of the draw).         *)
ShellAsked(template, setup, d, ws) ==
    LET has(path, content) == path \in DOMAIN ws /\ ws[path] = content
        in(dir) == {f \in DOMAIN setup : f[1] = dir} IN
    CASE template = "line_count" ->
            has(<<"out", 0>>, OneLine(Cardinality(UNION {{<<f, k>> : k \in DOMAIN setup[f]} : f \in in("data")})))
      [] template = "exact_file" -> has(<<"notes", d.names[1]>>, <<d.names>>)
      [] template = "sort_lines" ->
            /\ has(<<"words", 0>>, setup[<<"words", 0>>])
            /\ <<"sorted", 0>> \in DOMAIN ws
            /\ LET lines == ws[<<"sorted", 0>>] IN
                /\ Len(lines) = Len(setup[<<"words", 0>>]) /\ ToSet(lines) = ToSet(setup[<<"words", 0>>])
                /\ \A i, j \in DOMAIN lines : i < j => lines[i][1] <= lines[j][1]
      [] template = "concat_parts" ->
            /\ <<"combined", 0>> \in DOMAIN ws
            /\ LET lines == ws[<<"combined", 0>>] IN
                /\ Len(lines) = Cardinality(in("parts"))
                /\ \A f \in in("parts") :
                    <<lines[Cardinality({g \in in("parts") : g[2] <= f[2]})]>> = setup[f]
      [] template = "archive_logs" ->
            /\ \A f \in in("in log") : f \notin DOMAIN ws /\ has(<<"archive log", f[2]>>, setup[f])
            /\ \A f \in in("in txt") : has(f, setup[f])
      [] template = "count_ext" -> has(<<"out", 0>>, OneLine(Cardinality(in("data csv"))))
      [] template = "sum_numbers" ->
            has(<<"out", 0>>, OneLine(MapThenSumSet(LAMBDA k : setup[<<"numbers", 0>>][k][1],
                                                    DOMAIN setup[<<"numbers", 0>>])))
      [] OTHER -> has(<<"deep", d.names[1]>>, OneLine(d.names[2]))

-----------------------------------------------------------------------------
(* web_fetch: pages, and the answer in them.                               *)

Page(name, lines) == [f \in {<<name, 0>>} |-> lines]

Number(answer) == [kind |-> "integer", answer |-> answer, distractors |-> {}]
Text(answer, candidates) == [kind |-> "text", answer |-> answer, distractors |-> candidates \ {answer}]

InventoryQty(d) == [setup |-> Page("inventory", Facts(d)), oracle |-> Number(d.numbers[d.target])]

FoundedYear(d) ==
    LET renovated == d.numbers[1] + d.numbers[2] IN
    [setup  |-> Page("history", Lines(<<d.numbers[1], renovated, renovated + d.numbers[3]>>)),
     oracle |-> Number(d.numbers[1])]

LinkedPage(d) ==
    [setup  |-> [f \in {<<"index", 0>>} \cup {<<"site", n>> : n \in ToSet(d.names)} |->
                    IF f[1] = "index" THEN Lines(d.names)
                                      ELSE <<<<f[2], d.numbers[Indexed(d, f[2])]>>>>],
     oracle |-> Number(d.numbers[d.target])]

ListCount(d) == [setup |-> Page("vessels", Lines(d.names)), oracle |-> Number(Len(d.names))]

PersonCity(d) ==
    [setup |-> Page("correspondents", Facts(d)), oracle |-> Text(d.numbers[d.target], ToSet(d.numbers))]

PriceLookup(d) == [setup |-> Page("catalog", Facts(d)), oracle |-> Number(d.numbers[d.target])]

IndexOfMax(numbers) == CHOOSE i \in DOMAIN numbers : numbers[i] = Max(ToSet(numbers))

(* Mutant of MaxItem: the quantity asked for is the first one.             *)
FirstItem(d) ==
    [setup |-> Page("stock", Facts(d)), oracle |-> Text(Head(d.names), ToSet(d.names))]

MaxItem(d) ==
    [setup  |-> Page("stock", Facts(d)),
     oracle |-> Text(d.names[IndexOfMax(d.numbers)], ToSet(d.names))]

TotalQty(d) == [setup |-> Page("yard", Facts(d)), oracle |-> Number(SumOf(d.numbers))]

(* The answer, from the pages and the name the question gives.             *)
WebAsked(template, setup, asked) ==
    LET lines == UNION {ToSet(setup[f]) : f \in DOMAIN setup}
        of(name) == CHOOSE line \in lines : Len(line) = 2 /\ line[1] = name IN
    CASE template = "founded_year" -> Min({line[1] : line \in lines})
      [] template = "list_count"   -> Cardinality(lines)
      [] template = "max_item"     -> (CHOOSE line \in lines : \A other \in lines : other[2] <= line[2])[1]
      [] template = "total_qty"    -> MapThenSumSet(LAMBDA line : line[2], lines)
      [] OTHER                     -> of(asked)[2]

-----------------------------------------------------------------------------
(* long_term_planning: facts in two batches around a restart.              *)

LtpRow(facts, first, oracle) ==
    [batches |-> <<SubSeq(facts, 1, first), SubSeq(facts, first + 1, Len(facts))>>, oracle |-> oracle]

GrandTotal(d) == LtpRow(Facts(d), d.target, Number(SumOf(d.numbers)))

NetStock(d) ==
    LtpRow(Facts(d), 3, Number(SumOf(SubSeq(d.numbers, 1, 3)) - SumOf(SubSeq(d.numbers, 4, 5))))

MaxSite(d) ==
    LtpRow(Facts(d), d.target, Text(d.names[IndexOfMax(d.numbers)], ToSet(d.names)))

ThresholdCount(d) ==
    LtpRow(Facts(d), 3, Number(Len(SelectSeq(d.numbers, LAMBDA r : r > d.threshold))))

TotalMinutes(d) == LtpRow(Facts(d), d.target, Number(SumOf(d.numbers)))

BatchDifference(d) ==
    LtpRow(Facts(d), 3, Number(SumOf(SubSeq(d.numbers, 4, 5)) - SumOf(SubSeq(d.numbers, 1, 3))))

TopRated(d) ==
    LtpRow(Facts(d), d.target, Text(d.names[IndexOfMax(d.numbers)], ToSet(d.names)))

(* The numbers are the cities; every one of the distinct ones is visited.  *)
DistinctCities(d) ==
    LtpRow(Facts(d), Len(d.names) \div 2, Number(Cardinality(ToSet(d.numbers))))

(* The answer, from the two batches.                                       *)
PlanAsked(template, batches, d) ==
    LET sum(batch) == MapThenSumSet(LAMBDA k : batch[k][2], DOMAIN batch)
        lines == ToSet(batches[1]) \cup ToSet(batches[2]) IN
    CASE template \in {"grand_total", "total_minutes"} -> sum(batches[1]) + sum(batches[2])
      [] template = "net_stock"        -> sum(batches[1]) - sum(batches[2])
      [] template = "batch_difference" -> sum(batches[2]) - sum(batches[1])
      [] template = "threshold_count"  -> Cardinality({line \in lines : line[2] > d.threshold})
      [] template = "distinct_cities"  -> Cardinality({line[2] : line \in lines})
      [] OTHER -> (CHOOSE line \in lines : \A other \in lines : other[2] <= line[2])[1]

-----------------------------------------------------------------------------
(* database_workflow: five records; the answer is the sum of the measures  *)
(* above the middle one.                                                   *)
DatabaseWorkflow(d) ==
    LET threshold == SortSeq(d.numbers, <)[3] IN
    [records |-> Facts(d), threshold |-> threshold,
     oracle  |-> Number(SumOf(SelectSeq(d.numbers, LAMBDA v : v > threshold)))]

-----------------------------------------------------------------------------
(* The templates of a row, in the order they cycle.                        *)
Generators ==
    [shell_use |-> <<"line_count", "exact_file", "sort_lines", "concat_parts",
                     "archive_logs", "count_ext", "sum_numbers", "nested_dir">>,
     web_fetch |-> <<"inventory_qty", "founded_year", "linked_page", "list_count",
                     "person_city", "price_lookup", "max_item", "total_qty">>,
     long_term_planning |-> <<"grand_total", "net_stock", "max_site", "threshold_count",
                              "total_minutes", "batch_difference", "top_rated", "distinct_cities">>,
     database_workflow |-> <<"database">>]

Made(template, d) ==
    CASE template = "line_count"       -> LineCount(d)
      [] template = "exact_file"       -> ExactFile(d)
      [] template = "sort_lines"       -> SortLines(d)
      [] template = "concat_parts"     -> ConcatParts(d)
      [] template = "archive_logs"     -> ArchiveLogs(d)
      [] template = "count_ext"        -> CountExt(d)
      [] template = "sum_numbers"      -> SumNumbers(d)
      [] template = "nested_dir"       -> NestedDir(d)
      [] template = "inventory_qty"    -> InventoryQty(d)
      [] template = "founded_year"     -> FoundedYear(d)
      [] template = "linked_page"      -> LinkedPage(d)
      [] template = "list_count"       -> ListCount(d)
      [] template = "person_city"      -> PersonCity(d)
      [] template = "price_lookup"     -> PriceLookup(d)
      [] template = "max_item"         -> MaxItem(d)
      [] template = "total_qty"        -> TotalQty(d)
      [] template = "grand_total"      -> GrandTotal(d)
      [] template = "net_stock"        -> NetStock(d)
      [] template = "max_site"         -> MaxSite(d)
      [] template = "threshold_count"  -> ThresholdCount(d)
      [] template = "total_minutes"    -> TotalMinutes(d)
      [] template = "batch_difference" -> BatchDifference(d)
      [] template = "top_rated"        -> TopRated(d)
      [] template = "distinct_cities"  -> DistinctCities(d)
      [] OTHER                         -> DatabaseWorkflow(d)

(* Rows come in the order of one source: the i-th depends on what the      *)
(* earlier ones drew and not on how many follow.  "draws" is that source.  *)
GenerateRows(row, draws, n) ==
    [i \in 1..n |->
        LET template == Generators[row][((i - 1) % Len(Generators[row])) + 1] IN
        [id |-> i - 1, row |-> row, template |-> template, draw |-> draws[i],
         made |-> Made(template, draws[i])]]

(* The oracle of a row with an answer agrees with its text.                *)
OracleAgrees(r) ==
    CASE r.row = "web_fetch" ->
            r.made.oracle.answer = WebAsked(r.template, r.made.setup, r.draw.names[r.draw.target])
      [] r.row = "long_term_planning" ->
            /\ r.made.oracle.answer = PlanAsked(r.template, r.made.batches, r.draw)
            /\ r.made.batches[1] # <<>> /\ r.made.batches[2] # <<>>
      [] r.row = "database_workflow" ->
            r.made.oracle.answer = SumOf(r.draw.numbers)
                - MapThenSumSet(LAMBDA k : r.made.records[k][2],
                                {k \in DOMAIN r.made.records : r.made.records[k][2] <= r.made.threshold})
      [] OTHER -> TRUE
=============================================================================
