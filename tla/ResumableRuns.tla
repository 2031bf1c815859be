---------------------------- MODULE ResumableRuns ----------------------------
(***************************************************************************)
(* The prediction files of the offline tools.                              *)
(*                                                                         *)
(* Six tools of src-needle/scripts ask a model about every row of a data   *)
(* set and append one JSON line per row to a file; a later start reads the *)
(* file and asks only about the rows it lacks.  They differ in how many    *)
(* requests they keep in flight, how many rows share one, and what becomes *)
(* of a row whose request keeps failing.  A process may be killed at any   *)
(* point, also in the middle of a write.  Wording, timing and the scores   *)
(* themselves are left out: a line is the row it is about, and whether it  *)
(* holds a reply.                                                          *)
(***************************************************************************)
EXTENDS Integers, Sequences, FiniteSets

CONSTANTS
    NRows,        \* rows of the data set
    Exemplars,    \* rows shown to the model as examples, or that need no draft
    Concurrency,  \* requests in flight of the tools with a pool
    Batch,        \* rows of one request of the tools that batch them
    Patience,     \* attempts at one request
    Limits,       \* values of --limit; 0 stands for none
    MaxStarts     \* starts of the tool in a behaviour

ASSUME RunConstants ==
    /\ NRows \in Nat /\ Exemplars \subseteq 1..NRows
    /\ Concurrency \in Nat \ {0} /\ Batch \in Nat \ {0} /\ Patience \in Nat \ {0}
    /\ Limits \subseteq Nat /\ MaxStarts \in Nat

(* A tool: the requests in flight, the rows of one, its attempts, whether  *)
(* the exemplars are left out, whether --limit is offered, whether the     *)
(* whole file is used at the end or the wanted rows only, and whether a    *)
(* row without a reply is recorded as an empty one or stops the run.       *)
Tool(inFlight, rows, attempts, excludes, limits, usesAll, fills) ==
    [inFlight |-> inFlight, rows |-> rows, attempts |-> attempts, excludes |-> excludes,
     limits |-> limits, usesAll |-> usesAll, fills |-> fills]

ReduxApi    == Tool(Concurrency, 1, Patience, TRUE, TRUE, FALSE, FALSE)
ReduxLocal  == Tool(1, 1, 1, TRUE, TRUE, FALSE, FALSE)
CoderModels == Tool(1, 1, 1, FALSE, TRUE, FALSE, FALSE)
Drafts      == Tool(Concurrency, 1, Patience, TRUE, TRUE, TRUE, FALSE)
BridgeArm   == Tool(1, Batch, 1, FALSE, FALSE, TRUE, FALSE)
SeonQueries == Tool(1, Batch, Patience, FALSE, FALSE, TRUE, TRUE)

VARIABLES
    tool,      \* the tool that is run
    lines,     \* the file: records of a row, the last perhaps torn
    runPhase,  \* "down", "asking", "stopping"
    wanted,    \* the rows of this start
    todo,      \* those not yet handed to a worker
    requests,  \* the requests in flight: the rows of each, its attempts left
    done,      \* the rows known to be answered
    gaveUp,    \* rows whose request failed for good in this start
    concluded, \* the conclusions: the rows wanted, the rows scored or written out
    starts     \* starts so far

runVars == <<tool, lines, runPhase, wanted, todo, requests, done, gaveUp, concluded, starts>>

Whole(row, reply) == [row |-> row, reply |-> reply, torn |-> FALSE]
Torn(row)         == [row |-> row, reply |-> FALSE, torn |-> TRUE]

Answered == {lines[i].row : i \in {j \in DOMAIN lines : ~lines[j].torn}}

RunInit ==
    /\ tool \in {ReduxApi, ReduxLocal, CoderModels, Drafts, BridgeArm, SeonQueries}
    /\ lines = <<>> /\ runPhase = "down" /\ wanted = {} /\ todo = {} /\ requests = {}
    /\ done = {} /\ gaveUp = {} /\ concluded = {} /\ starts = 0

(* Rows are taken in their order: the first n of some.                     *)
FirstOf(rows, n) == {i \in rows : Cardinality({j \in rows : j <= i}) <= n}

(* The rows of a start, the same for every arm: the exemplars are taken    *)
(* out first, and the limit counts what is left.                           *)
EvalIds(limit) ==
    LET ids == {i \in 1..NRows : ~(tool.excludes /\ i \in Exemplars)}
    IN  IF limit = 0 THEN ids ELSE FirstOf(ids, limit)

(* Mutant of Resume: only the rows of an unlimited run are taken over.     *)
ResumeOfWhole(limit) == IF limit = 0 THEN Answered ELSE {}

Resume(limit) == Answered

(* Reading the file raises at a line that is no JSON: nothing is asked and *)
(* nothing appended.                                                       *)
RunStarts ==
    /\ runPhase = "down" /\ starts < MaxStarts /\ starts' = starts + 1
    /\ \E limit \in (IF tool.limits THEN Limits ELSE {0}) :
        IF \E i \in DOMAIN lines : lines[i].torn
        THEN UNCHANGED <<runPhase, wanted, todo, done>>
        ELSE /\ runPhase' = "asking"
             /\ done' = Resume(limit)
             /\ wanted' = EvalIds(limit)
             /\ todo' = EvalIds(limit) \ Resume(limit)
    /\ gaveUp' = {}
    /\ UNCHANGED <<tool, lines, requests, concluded>>

Asks ==
    /\ runPhase = "asking" /\ todo # {} /\ Cardinality(requests) < tool.inFlight
    /\ requests' = requests \cup {[rows |-> FirstOf(todo, tool.rows), left |-> tool.attempts]}
    /\ todo' = todo \ FirstOf(todo, tool.rows)
    /\ UNCHANGED <<tool, lines, runPhase, wanted, done, gaveUp, concluded, starts>>

(* A refused or broken request is made again after a pause.                *)
Retries ==
    \E r \in requests :
        /\ r.left > 1
        /\ requests' = (requests \ {r}) \cup {[r EXCEPT !.left = @ - 1]}
        /\ UNCHANGED <<tool, lines, runPhase, wanted, todo, done, gaveUp, concluded, starts>>

(* The rows in their order; the lines of the first n of them, the last     *)
(* perhaps torn; and the rows a reply may answer: only a tool that fills   *)
(* in may find some missing.                                               *)
InOrder(rows) ==
    {s \in [1..Cardinality(rows) -> rows] :
        /\ \A i, j \in DOMAIN s : i < j => s[i] < s[j]
        /\ rows = {s[i] : i \in DOMAIN s}}
Appended(s, n, replied, torn) ==
    [i \in 1..n |-> IF torn /\ i = n THEN Torn(s[i]) ELSE Whole(s[i], s[i] \in replied)]
RepliesTo(r) == IF tool.fills THEN SUBSET r.rows ELSE {r.rows}

(* The lines of a request are appended and flushed under the write lock.   *)
Saves ==
    \E r \in requests : \E s \in InOrder(r.rows), replied \in RepliesTo(r) :
        /\ lines' = lines \o Appended(s, Cardinality(r.rows), replied, FALSE)
        /\ done' = done \cup r.rows
        /\ requests' = requests \ {r}
        /\ UNCHANGED <<tool, runPhase, wanted, todo, gaveUp, concluded, starts>>

(* The last attempt failed.  One tool records its rows as empty; the       *)
(* others stop, at once where there is one loop, and with a pool when the  *)
(* results are read in order.  They stop at any attempt whose refusal is   *)
(* not worth another.                                                      *)
GivesUp ==
    \E r \in requests :
        /\ tool.fills => r.left = 1
        /\ requests' = requests \ {r}
        /\ IF tool.fills
           THEN /\ \E s \in InOrder(r.rows) :
                       lines' = lines \o Appended(s, Cardinality(r.rows), {}, FALSE)
                /\ done' = done \cup r.rows
                /\ UNCHANGED <<runPhase, todo, gaveUp>>
           ELSE /\ gaveUp' = gaveUp \cup r.rows
                /\ IF tool.inFlight = 1 THEN runPhase' = "stopping" /\ todo' = {}
                                        ELSE UNCHANGED <<runPhase, todo>>
                /\ UNCHANGED <<lines, done>>
        /\ UNCHANGED <<tool, wanted, concluded, starts>>

(* ex.map hands out its results in order: the exception surfaces once the  *)
(* rows before the failed one are settled, and cancels those not begun.    *)
Surfaces ==
    /\ runPhase = "asking"
    /\ \E i \in wanted \cap gaveUp : \A j \in wanted : j < i => j \in done
    /\ runPhase' = "stopping" /\ todo' = {}
    /\ UNCHANGED <<tool, lines, wanted, requests, done, gaveUp, concluded, starts>>

(* The pool is left when the running requests have ended.                  *)
Stops ==
    /\ runPhase = "stopping" /\ requests = {}
    /\ runPhase' = "down" /\ done' = {}
    /\ UNCHANGED <<tool, lines, wanted, todo, requests, gaveUp, concluded, starts>>

(* The wanted rows are scored, or all that the file holds is handed on.    *)
Concludes ==
    /\ runPhase = "asking" /\ todo = {} /\ requests = {} /\ gaveUp = {}
    /\ concluded' = concluded \cup
           {[wanted |-> wanted, used |-> IF tool.usesAll THEN done ELSE wanted]}
    /\ runPhase' = "down" /\ done' = {}
    /\ UNCHANGED <<tool, lines, wanted, todo, requests, gaveUp, starts>>

(* A kill loses the requests in flight.  One that was being saved leaves   *)
(* some of its lines, the last of them perhaps in part.                    *)
RunKilled ==
    /\ runPhase # "down"
    /\ \/ lines' = lines
       \/ \E r \in requests : \E s \in InOrder(r.rows), replied \in RepliesTo(r) :
            \E n \in 0..Cardinality(r.rows), torn \in BOOLEAN :
                lines' = lines \o Appended(s, n, replied, torn)
    /\ runPhase' = "down" /\ todo' = {} /\ requests' = {} /\ done' = {} /\ gaveUp' = {}
    /\ UNCHANGED <<tool, wanted, concluded, starts>>

RunNext ==
    \/ RunStarts \/ Asks \/ Retries \/ Saves \/ GivesUp \/ Surfaces \/ Stops \/ Concludes \/ RunKilled

RunSpec == RunInit /\ [][RunNext]_runVars

-----------------------------------------------------------------------------
(* Over kills, failures and restarts no row is answered twice in a file,   *)
(* nothing follows a torn line, and a conclusion has a saved line for each *)
(* row it is about, exactly the rows the limit and the exemplars leave;    *)
(* what stands for no reply was written by the tool that fills in.         *)
PredictionsAreWhole ==
    /\ \A i, j \in DOMAIN lines :
        /\ lines[i].row = lines[j].row => i = j
        /\ lines[i].torn => i = Len(lines)
        /\ ~lines[i].torn /\ ~lines[i].reply => tool.fills
    /\ \A c \in concluded :
        /\ c.wanted \subseteq c.used /\ c.used \subseteq Answered
        /\ tool.excludes => c.used \cap Exemplars = {}
        /\ \E limit \in Limits \cup {0} : c.wanted = EvalIds(limit)
=============================================================================
