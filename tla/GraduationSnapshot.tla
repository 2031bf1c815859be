------------------------- MODULE GraduationSnapshot -------------------------
(***************************************************************************)
(* What a live sample is scored on: the projection of one database value   *)
(* (tasks/mvp_graduation.py, snapshot_form) that the scorers consume, and  *)
(* the databases that an agent may have made of its task.                  *)
(***************************************************************************)
EXTENDS GraduationChecks

(***************************************************************************)
(* A database value holds the rows of the fixture, the functions published *)
(* in it, the runs of the agent with their forms and receipts, the         *)
(* messages, the toolkits and the faults.                                  *)
(***************************************************************************)
Agent == [id |-> "agent-a", namespace |-> Key("my.agents", 0)]

OwnFunctions(d) == SelectSeq(d.functions, LAMBDA row : row.namespace = Agent.namespace)

Episode(d, ids) == FlattenSeq([i \in 1..Len(d.runs) |-> IF i \in ids THEN <<d.runs[i]>> ELSE <<>>])
Forms(d, ids) == FlattenSeq([i \in 1..Len(Episode(d, ids)) |-> Episode(d, ids)[i].forms])

(* The receipts of the episode, in the order of its runs and forms. *)
Receipts(d, ids) ==
    LET all == FlattenSeq([i \in 1..Len(Episode(d, ids)) |-> Episode(d, ids)[i].receipts])
    IN  [i \in DOMAIN all |-> [all[i] EXCEPT !.sequence = i]]

(* The last value of the episode's last run is its reply. *)
LastRun(d, ids) == Last(Episode(d, ids))
SettledReply(d, ids) == LastRun(d, ids).reply

(* The walk renders the selected row with the projection a function of the *)
(* agent registered for it, or with the floor.                             *)
Projection(d) ==
    LET own == SelectSeq(OwnFunctions(d), LAMBDA row : row.renders # Raw)
    IN  IF own = <<>> THEN NoCall ELSE [sym |-> own[1].sym, expense |-> 1, result |-> own[1].renders]

PostWalk(d) ==
    LET p == Projection(d)
    IN  <<WalkRow(1, p.sym, IF p = NoCall THEN Raw ELSE p.result)>>

Shared(d, ids) ==
    [nonce |-> d.nonce, episode |-> Cardinality(ids), agent |-> Agent, expenses |-> d.rows,
     reply |-> SettledReply(d, ids)]

ToolkitOf(d, scen) == IF scen = "B-control" THEN d.empty ELSE d.toolkit

(* _normal, on a map keyed by vendor: the dash before the nonce is gone.   *)
NormalKeys(totals) ==
    [k \in {Key(v.name, -v.nonce) : v \in DOMAIN totals} |-> totals[Key(k.name, -k.nonce)]]

(* The second phase's snapshot: against the checkpoint of the first, every *)
(* function is of the phase that published it, and the commit lineage is   *)
(* walked back from the branch's head.  _normal rewrites the keys of every *)
(* map on the way to the scorer, so a value keyed by vendor comes out with *)
(* other keys than the fixture's.                                          *)
SnapshotD(d, ids, first) ==
    LET functions == OwnFunctions(d)
        published == IF first.functions = <<>> THEN functions ELSE first.functions
        symbols   == {row.sym : row \in ToSet(published)}
        phase(row) == IF first.functions = <<>> \/ row.sym \in symbols THEN 1 ELSE 2
    IN  Shared(d, ids) @@
        [before |-> [agent |-> first.agent, branch |-> first.branch, commit |-> first.commit],
         after |-> [agent |-> d.agent, branch |-> d.branch,
                    ancestor |-> first.commit \in 1..d.commit, lineage |-> 1..d.commit],
         published |-> published,
         functions |-> [i \in DOMAIN functions |->
                           [functions[i] EXCEPT !.phase = phase(functions[i])]],
         forms |-> Forms(d, ids),
         evals |-> [i \in DOMAIN Receipts(d, ids) |-> NormalKeys(Receipts(d, ids)[i].totals)]]

(* The projections of the other scenarios. *)
SnapshotA(d, ids) ==
    Shared(d, ids) @@
    [selected |-> 1, path |-> 1, functions |-> d.functions, forms |-> Forms(d, ids),
     call |-> Projection(d), pre |-> d.walk, post |-> PostWalk(d)]

SnapshotB(d, ids, scen) ==
    Shared(d, ids) @@
    [namespace |-> Key("my.message", d.nonce), toolkit |-> ToolkitOf(d, scen),
     refused |-> LastRun(d, ids).waits,
     walks |-> Cardinality({i \in DOMAIN Forms(d, ids) : Forms(d, ids)[i].walks})]

SnapshotC(d, ids) == Shared(d, ids) @@ [peer |-> "bookkeeping", messages |-> d.messages]

SnapshotE1(d, ids) ==
    Shared(d, ids) @@
    [receipts |-> Receipts(d, ids), faults |-> d.faults,
     run |-> [nonce |-> d.nonce, closed |-> LastRun(d, ids).closed]]

(* The probe adds two numbers as the peer, with the base function. *)
SnapshotE2(d, ids) ==
    SnapshotE1(d, ids) @@
    [before |-> d.base, after |-> Base, functions |-> OwnFunctions(d),
     probe |-> [agent |-> "peer", nonce |-> d.nonce, operands |-> <<17, 25>>, result |-> 42],
     attempted |-> \E i \in DOMAIN Forms(d, ids) : Forms(d, ids)[i].base]

(* snapshot_form. *)
Snapshot(scen, d, ids, first) ==
    CASE scen = "A" -> SnapshotA(d, ids)
      [] scen \in {"B", "B-control"} -> SnapshotB(d, ids, scen)
      [] scen = "C" -> SnapshotC(d, ids)
      [] scen = "D" -> SnapshotD(d, ids, first)
      [] scen = "E1" -> SnapshotE1(d, ids)
      [] scen = "E2" -> SnapshotE2(d, ids)
      [] scen = "F" -> [A |-> SnapshotA(d, ids), B |-> SnapshotB(d, ids, scen), C |-> SnapshotC(d, ids)]

(* _persistence_checkpoint: the first phase's functions with a contract,   *)
(* and where the branch stands.                                            *)
Checkpoint(d) ==
    [agent |-> d.agent, branch |-> d.branch, commit |-> d.commit,
     functions |-> SelectSeq(OwnFunctions(d), LAMBDA row : row.spec # Unset)]

-----------------------------------------------------------------------------
(* The fixture that is seeded for a nonce (_expense_rows, _seed_form), and *)
(* an agent that solves its task on the rows it finds, or answers with     *)
(* what it would have said for another nonce.                              *)
Rows(n) == <<Expense(1, n, First(n), "Acorn"), Expense(2, n, Second(n), "Acorn"),
             Expense(3, n, First(n) - 100, "Bluebird")>>

SchemaKey(n) == Key("my.archive/retention-days", n)

Form(calls, base) ==
    [code |-> TRUE, defn |-> calls = {}, calls |-> calls, walks |-> TRUE, base |-> base]
Receipt(stopped, totals) ==
    [agent |-> Agent.id, totals |-> totals, sequence |-> 0, offending |-> stopped, interrupted |-> stopped,
     entries |-> IF stopped THEN 5 ELSE Unset, error |-> stopped,
     refused |-> stopped, kind |-> IF stopped THEN 1 ELSE Unset, exception |-> FALSE]

Published(sym, spec, renders) ==
    [namespace |-> Agent.namespace, sym |-> sym, spec |-> spec, source |-> TRUE, phase |-> 1,
     renders |-> renders]

Run(forms, receipts, reply) ==
    [forms |-> forms, receipts |-> receipts, reply |-> reply, closed |-> TRUE, waits |-> FALSE]

(* What the harness derives from the rows it plans to seed (_expectations, *)
(* _scenario_expectations).                                                *)
Expectations(rows) ==
    LET totals == VendorTotals(rows)
        richest == CHOOSE v \in DOMAIN totals : \A u \in DOMAIN totals : totals[u] <= totals[v]
    IN  [sum |-> SumCents(rows), totals |-> totals, max |-> totals[richest]]

Planned(scen, n) ==
    LET expected == Expectations(Rows(n))
        selected == <<Rows(n)[1].cents, Rows(n)[1].vendor>>
    IN  CASE scen = "A" -> selected
          [] scen = "B" -> {SchemaKey(n)}
          [] scen = "B-control" -> {}
          [] scen = "C" -> expected.sum
          [] scen = "D" -> <<expected.totals, expected.max>>
          [] scen \in {"E1", "E2"} -> n
          [] scen = "F" -> <<selected, {SchemaKey(n)}, expected.sum>>

(* Mutant of Agrees: nothing is compared. *)
AgreesAlways(scen, s, n) == TRUE

(* _assert_seed_expectations: the scorer derives from the snapshot what    *)
(* was planned, or the sample is void.                                     *)
Agrees(scen, s, n) == Derived(scen, s) = Planned(scen, n)

(* The reply of an agent that read the rows. *)
ReplyTo(scen, rows, n) ==
    CASE scen = "B" -> Text({}, {SchemaKey(n)})
      [] scen = "C" -> Said
      [] scen = "D" -> Text({Dollars(Expectations(rows).max)}, {})
      [] scen = "F" -> Text({}, {SchemaKey(n)})
      [] OTHER -> Said

(* The database of an agent that read these rows, made for a nonce; the    *)
(* runs of its last episode are `ids`.                                     *)
Worked(scen, rows, n, runs, ids) ==
    [nonce |-> n, agent |-> 101, branch |-> n, commit |-> 2, rows |-> rows,
     walk |-> <<WalkRow(1, NoCall.sym, Raw)>>,
     functions |-> <<Published(Totals(n), 1, Rendering(rows[1].cents, rows[1].vendor))>>,
     runs |-> [i \in 1..runs |->
                 Run(<<Form(IF i \in ids THEN {Totals(n)} ELSE {}, scen = "E2")>>,
                     <<Receipt(scen \in {"E1", "E2"}, <<>>), Receipt(FALSE, VendorTotals(rows))>>,
                     ReplyTo(scen, rows, n))],
     messages |-> <<[from |-> Agent.id, to |-> "bookkeeping",
                     content |-> Text({Dollars(SumCents(rows))}, {})]>>,
     toolkit |-> <<[private |-> FALSE, keys |-> {SchemaKey(n)}]>>, empty |-> <<>>,
     faults |-> 0, base |-> Base]

(* The database of a sample seeded for `fixture` in which the agent did    *)
(* what it would have done for `maker`.                                    *)
Answered(scen, fixture, maker, runs, ids) ==
    LET own   == Worked(scen, Rows(fixture), fixture, runs, ids)
        other == Worked(scen, Rows(maker), maker, runs, ids)
    IN  [own EXCEPT !.functions = other.functions, !.runs = other.runs, !.messages = other.messages]

(* The same, in which the agent first wrote the rows it answers for. *)
TamperedRows(n) == [Rows(n) EXCEPT ![1].cents = 1]
Tampered(scen, n, runs, ids) == Worked(scen, TamperedRows(n), n, runs, ids)
=============================================================================
