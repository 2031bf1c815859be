----------------------------- MODULE TrainingRows -----------------------------
(***************************************************************************)
(* The training data of the suggestion model.                              *)
(*                                                                         *)
(* gen_seon_queries.py asks a model for queries of every function and      *)
(* keeps those that pass a gate; data_extend.py makes rows of them and of  *)
(* two public data sets: a query, a menu of tools filled up to a length,   *)
(* and the call that answers it.  The queries of the evaluation and some   *)
(* of its functions are kept out.  Between the two scripts the index of    *)
(* functions may be dumped again.  The seeded draws are any; a query is a  *)
(* number, as is its length and that of a tool, in tokens.                 *)
(***************************************************************************)
EXTENDS Sums, FiniteSets, SequencesExt, FiniteSetsExt

CONSTANTS
    Functions,     \* functions: a namespace and a name
    Dumps,         \* indexes: the parameters, required ones, length of each function in them
    EvalCases,     \* evaluation cases: a query, and the function expected of it, if any
    Situations,    \* what the model offers: a query, a function if any, argument names
    Published,     \* rows of the public data sets: query, tools, calls; {} calls abstain
    Bank,          \* tools that fill their menus
    QueryLength,   \* tokens of any query
    MaxEncoder,    \* tokens of the encoder
    MenuSizes,     \* tools of a menu before trimming
    SmallestMenu,  \* tools trimming leaves, at least
    NHeldOut,      \* functions kept out
    MaxDataRows    \* rows of a data set

OfferedTools == Bank \cup UNION {ToSet(row.tools) : row \in Published}

ASSUME TrainingRowConstants ==
    /\ {QueryLength, MaxEncoder, SmallestMenu, NHeldOut, MaxDataRows} \subseteq Nat /\ SmallestMenu > 0
    /\ MenuSizes \subseteq Nat \ {0}
    /\ \A d \in Dumps : DOMAIN d \subseteq Functions
    /\ \A s \in Situations : \A f, g \in s.expected : f = g
    /\ \A row \in Published : row.tools \in Seq(OfferedTools)
    /\ \A tool \in OfferedTools : tool.length \in Nat
    /\ IsFiniteSet(Bank)

VARIABLES
    dataPhase,  \* "asking", "building", "written"
    dump,       \* the index
    queries,    \* the queries kept, and the index each was gated on
    heldOut,    \* the functions kept out
    dataRows,   \* the rows built, in order
    split       \* those written, to train on and to validate with

dataVars == <<dataPhase, dump, queries, heldOut, dataRows, split>>

EvalQueries == {c.query : c \in EvalCases}
CaseFunctions == UNION {c.expected : c \in EvalCases}

DataRests ==
    /\ dataPhase = "asking" /\ queries = {}
    /\ heldOut = {} /\ dataRows = <<>> /\ split = [train |-> {}, val |-> {}]

DataInit == dump \in Dumps /\ DataRests

(* Mutant of Gate: arguments the function lacks are let through.           *)
GateAnyKey(s) ==
    /\ s.query \notin EvalQueries
    /\ \A f \in s.expected : f \in DOMAIN dump /\ dump[f].required \subseteq s.args

(* A query is kept if it is none of the evaluation's, and its arguments    *)
(* are parameters of its function, the required ones among them, and are   *)
(* found in the query.                                                     *)
Gate(s) ==
    /\ s.query \notin EvalQueries
    /\ \A f \in s.expected :
        /\ f \in DOMAIN dump
        /\ s.args \subseteq dump[f].params /\ dump[f].required \subseteq s.args

SameQuery(q, s) == q.query = s.query /\ q.expected = s.expected /\ q.args = s.args

AsksQueries ==
    /\ dataPhase = "asking"
    /\ \E s \in Situations :
        /\ Gate(s) /\ \A q \in queries : ~SameQuery(q, s)
        /\ queries' = queries \cup {[query |-> s.query, expected |-> s.expected, args |-> s.args,
                                    index |-> dump]}
    /\ UNCHANGED <<dataPhase, dump, heldOut, dataRows, split>>

Redumps ==
    /\ dataPhase = "asking" /\ queries # {}
    /\ \E d \in Dumps \ {dump} : dump' = d
    /\ UNCHANGED <<dataPhase, queries, heldOut, dataRows, split>>

(* The functions kept out are drawn from those of the evaluation.          *)
HoldsOut ==
    /\ dataPhase = "asking"
    /\ heldOut' \in {h \in SUBSET CaseFunctions : Cardinality(h) = NHeldOut}
    /\ dataPhase' = "building"
    /\ UNCHANGED <<dump, queries, dataRows, split>>

-----------------------------------------------------------------------------
LengthOf(tools)   == TotalOf([i \in DOMAIN tools |-> tools[i].length])
Entry(f)          == [name |-> f, length |-> dump[f].length]
MenuLength(names) == QueryLength + LengthOf([i \in DOMAIN names |-> Entry(names[i])])

Lists(set, n) == {s \in [1..n -> set] : \A i, j \in 1..n : s[i] = s[j] => i = j}

(* A menu: the function among distractors, half of them of its namespace   *)
(* as far as there are; without a function, any tools.                     *)
SeonMenus(expected, n) ==
    LET Near(f) == {g \in DOMAIN dump \ {f} : g.space = f.space}
        near(f) == Min({Cardinality(Near(f)), (n - 1) \div 2})
    IN  {m \in Lists(DOMAIN dump, n) : \A f \in expected :
             /\ f \in ToSet(m)
             /\ Cardinality(ToSet(m) \cap Near(f)) = near(f)}

(* Mutant of TrimmedAt: the last tool goes, whichever it is.               *)
TrimmedAtEnd(menu, expected) == Len(menu)

(* Trimming takes the last distractor.                                     *)
TrimmedAt(menu, expected) == Max({k \in DOMAIN menu : menu[k] \notin expected})

Trims(menu, expected) ==
    IF MenuLength(menu) > MaxEncoder /\ Len(menu) > SmallestMenu
    THEN RemoveAt(menu, TrimmedAt(menu, expected)) ELSE menu

Trimming(menu, expected) ==
    LET trimmed[k \in 0..Len(menu)] == IF k = 0 THEN menu ELSE Trims(trimmed[k - 1], expected)
    IN  trimmed

Trimmed(menu, expected) == Trimming(menu, expected)[Len(menu)]

(* Mutant of Admits: functions kept out are answered as well.              *)
AdmitsHeldOut(q) == q.query \notin EvalQueries /\ q.expected \subseteq DOMAIN dump

(* The queries of the evaluation, functions kept out and those no longer   *)
(* in the index are passed over.                                           *)
Admits(q) ==
    /\ q.query \notin EvalQueries
    /\ q.expected \cap heldOut = {} /\ q.expected \subseteq DOMAIN dump

BuildsSeonRow ==
    /\ dataPhase = "building" /\ Len(dataRows) < MaxDataRows
    /\ \E q \in queries, n \in MenuSizes :
        /\ Admits(q)
        /\ \E drawn \in SeonMenus(q.expected, n) :
            LET menu == Trimmed(drawn, q.expected) IN
            dataRows' = Append(dataRows,
                [src |-> "seon", query |-> q.query, tools |-> menu, drawn |-> drawn,
                 calls |-> [i \in 1..Cardinality(q.expected) |->
                                [name |-> CHOOSE f \in q.expected : TRUE, args |-> q.args]],
                 pos |-> {i \in DOMAIN menu : menu[i] \in q.expected}, index |-> q.index])
    /\ UNCHANGED <<dataPhase, dump, queries, heldOut, split>>

(* A published row is dropped if it calls what it does not offer; prose in *)
(* place of an answer abstains.                                            *)
Offers(row) == \A i \in DOMAIN row.calls : \E j \in DOMAIN row.tools : row.tools[j].name = row.calls[i].name

(* Tools of the bank are added in a drawn order until the first that does  *)
(* not fit the length drawn for the row; then the tools are shuffled.      *)
Adds(acc, t, target) ==
    IF acc.full \/ (\E i \in DOMAIN acc.tools : acc.tools[i].name = t.name) THEN acc
    ELSE IF \E limit \in {target, MaxEncoder} : QueryLength + LengthOf(acc.tools) + t.length > limit
    THEN [acc EXCEPT !.full = TRUE]
    ELSE [acc EXCEPT !.tools = Append(@, t)]

Enlarging(own, order, target) ==
    LET added[k \in 0..Len(order)] ==
            IF k = 0 THEN [tools |-> own, full |-> FALSE] ELSE Adds(added[k - 1], order[k], target)
    IN  added

Enlarged(own, order, target) == Enlarging(own, order, target)[Len(order)].tools

Shuffles(menu) == {[i \in DOMAIN menu |-> menu[p[i]]] : p \in Bijection(DOMAIN menu, DOMAIN menu)}

BuildsHomeRow ==
    /\ dataPhase = "building" /\ Len(dataRows) < MaxDataRows
    /\ \E row \in Published, order \in Lists(Bank, Cardinality(Bank)), target \in {MaxEncoder, MaxEncoder - 2} :
        /\ Offers(row)
        /\ LET menu == Enlarged(row.tools, order, target) IN
           \E shuffled \in Shuffles(menu) :
            dataRows' = Append(dataRows,
                [src |-> "home", query |-> row.query, tools |-> shuffled, drawn |-> row.tools,
                 calls |-> row.calls, pos |-> {}])
    /\ UNCHANGED <<dataPhase, dump, queries, heldOut, split>>

(* The hash of a row's place and query sends it to one of the files.       *)
WritesData ==
    /\ dataPhase = "building"
    /\ \E val \in SUBSET DOMAIN dataRows : split' = [val |-> val, train |-> DOMAIN dataRows \ val]
    /\ dataPhase' = "written"
    /\ UNCHANGED <<dump, queries, heldOut, dataRows>>

DataNext == AsksQueries \/ Redumps \/ HoldsOut \/ BuildsSeonRow \/ BuildsHomeRow \/ WritesData

-----------------------------------------------------------------------------
NameOf(row, j) == IF row.src = "seon" THEN row.tools[j] ELSE row.tools[j].name

(* Some of a list's members, in its order.                                 *)
InOrderOf(list, some) ==
    \E at \in [DOMAIN some -> DOMAIN list] :
        /\ \A i, j \in DOMAIN some : i < j => at[i] < at[j]
        /\ some = [i \in DOMAIN some |-> list[at[i]]]

(* No row made for the index's functions asks what the evaluation asks or  *)
(* answers with a function kept out, and its arguments are its function's  *)
(* in the index they were gated on; in one dumped since, they may not be   *)
(* (data_extend.py:513), and a published row is taken whatever it asks     *)
(* (:452-465 compare nothing).  Any row's call is of a tool in its menu,   *)
(* at the place recorded, with its menu's other tools in the order drawn;  *)
(* a menu exceeds the encoder only where no more could be trimmed, or the  *)
(* row's own tools do.                                                     *)
TrainingRowsAreClean ==
    \A r \in DOMAIN dataRows :
        LET row == dataRows[r] IN
        /\ row.src = "seon" =>
            /\ row.query \notin EvalQueries
            /\ \A i \in DOMAIN row.calls :
                /\ row.calls[i].name \notin heldOut
                /\ row.calls[i].args \subseteq row.index[row.calls[i].name].params
                /\ row.index[row.calls[i].name].required \subseteq row.calls[i].args
                /\ \E k \in DOMAIN row.tools : row.pos = {k} /\ row.tools[k] = row.calls[i].name
            /\ MenuLength(row.tools) > MaxEncoder => Len(row.tools) <= SmallestMenu
            /\ InOrderOf(row.drawn, row.tools)
        /\ row.src = "home" =>
            /\ QueryLength + LengthOf(row.tools) > MaxEncoder => Len(row.tools) = Len(row.drawn)
            /\ ToSet(row.drawn) \subseteq ToSet(row.tools)
        /\ \A i \in DOMAIN row.calls : \E j \in DOMAIN row.tools : NameOf(row, j) = row.calls[i].name
        /\ dataPhase = "written" => (r \in split.train <=> r \notin split.val)
=============================================================================
