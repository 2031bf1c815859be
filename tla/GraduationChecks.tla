-------------------------- MODULE GraduationChecks --------------------------
(***************************************************************************)
(* The scorers of the graduation evaluation                                *)
(* (src/src-inspect-ai/src/seon_inspect/mvp_graduation.py), and the gate   *)
(* that must pass before any live sample runs                              *)
(* (tasks/mvp_graduation.py, require_offline_discrimination).              *)
(*                                                                         *)
(* A scorer reads one snapshot of the database and names the checks that   *)
(* fail.  For every scenario the module keeps one golden snapshot, and for *)
(* every check and every failure mode a snapshot that differs from it in   *)
(* one field.  A text is the set of amounts and of qualified keywords it   *)
(* names; a nonce is a number, and a fact that carries the nonce of the    *)
(* sample carries that number.                                             *)
(***************************************************************************)
EXTENDS Integers, Sequences, FiniteSets, SequencesExt, TLC

CONSTANT Nonces   \* the sample nonces, as the numbers their bytes sum up to

ASSUME NoncesAssumption == Nonces \subseteq Nat /\ IsFiniteSet(Nonces) /\ Nonces # {}

VARIABLES
    rail,    \* how many scenarios the gate has been through
    gate,    \* "running", "passed" or "refused"
    graded   \* the last snapshot scored: the nonces of its fixture and answer, whether
             \* the agent wrote the fixture's rows, the result

checkVars == <<rail, gate, graded>>

Scenarios == {"A", "B", "B-control", "C", "D", "E1", "E2", "F"}

Unset == 0   \* a field that is None

-----------------------------------------------------------------------------
(* Texts.                                                                  *)

(* _NUMBER and _number_values_in_cents: a token with a dollar sign or with *)
(* decimals is an amount of dollars, a bare integer one of cents.          *)
Token(dollar, whole, decimals) == [dollar |-> dollar, whole |-> whole, decimals |-> decimals]
NoDecimals == -1

InCents(token) ==
    IF token.dollar \/ token.decimals # NoDecimals
    THEN 100 * token.whole + (IF token.decimals = NoDecimals THEN 0 ELSE token.decimals)
    ELSE token.whole

Dollars(cents) == Token(TRUE, cents \div 100, cents % 100)

Text(amounts, keys) == [amounts |-> amounts, keys |-> keys, said |-> TRUE]
Silence == [Text({}, {}) EXCEPT !.said = FALSE]
Said == Text({}, {})

ContainsOnlyAmount(text, cents) ==
    text.amounts # {} /\ \A token \in text.amounts : InCents(token) = cents

Key(name, nonce) == [name |-> name, nonce |-> nonce]

-----------------------------------------------------------------------------
(* What the checks share.                                                  *)

Expense(id, nonce, cents, vendor) ==
    [id |-> id, nonce |-> nonce, cents |-> cents, vendor |-> Key(vendor, nonce)]

NonceBound(snapshot) ==
    /\ snapshot.nonce # Unset
    /\ snapshot.expenses # <<>>
    /\ \A row \in ToSet(snapshot.expenses) : row.nonce = snapshot.nonce

Failures(checks) == {name \in DOMAIN checks : ~checks[name]}

Result(checks, taxonomy) ==
    [ok |-> Failures(checks) = {}, checks |-> checks, failures |-> Failures(checks),
     taxonomy |-> taxonomy]

When(condition, name) == IF condition THEN {name} ELSE {}

SumCents(rows) == FoldSeq(LAMBDA row, total : total + row.cents, 0, rows)

ExpenseTotal(snapshot) == SumCents(snapshot.expenses)

VendorTotals(rows) ==
    [v \in {row.vendor : row \in ToSet(rows)} |->
        SumCents(SelectSeq(rows, LAMBDA row : row.vendor = v))]

MaxVendorTotal(snapshot) ==
    LET totals == VendorTotals(snapshot.expenses)
    IN  IF DOMAIN totals = {} THEN Unset
        ELSE CHOOSE t \in Range(totals) : \A u \in Range(totals) : u <= t

Contracted(rows) == {row \in ToSet(rows) : row.spec # Unset}

(* A symbol is a base and a suffix; one contains another as text when it   *)
(* is the same or an extension of it.                                      *)
Symbol(base, suffix) == [base |-> base, suffix |-> suffix]
StartsWith(sym, prefix) ==
    sym.base = prefix.base /\ (prefix.suffix = "" \/ prefix.suffix = sym.suffix)

-----------------------------------------------------------------------------
(* check_a: the agent published a contracted renderer, it renders the      *)
(* selected expense, and the walk uses it.                                 *)
AgentFunctions(s) == SelectSeq(s.functions, LAMBDA row : row.namespace = s.agent.namespace)

CheckA(s) ==
    LET selected   == SelectSeq(s.expenses, LAMBDA row : row.id = s.selected)
        contracted == {row \in Contracted(AgentFunctions(s)) : row.source}
        call       == s.call
        expected   == /\ selected # <<>>
                      /\ call.expense = s.selected
                      /\ call.sym \in {row.sym : row \in contracted}
                      /\ call.result.cents = selected[1].cents
                      /\ call.result.vendor = selected[1].vendor
        at(walk)   == {row \in ToSet(walk) : row.expense = s.selected /\ row.path = s.path}
        code       == {i \in DOMAIN s.forms : s.forms[i].code}
        defns      == {i \in DOMAIN s.forms : s.forms[i].defn}
        rendered(walk) == {row.rendered : row \in at(walk)}
    IN Result(
        [nonce_bound |-> NonceBound(s) /\ selected # <<>> /\ selected[1].vendor.nonce = s.nonce,
         contracted_corpus_row |-> contracted # {},
         behavior_matches_fixture |-> expected,
         walk_changed |-> /\ selected # <<>> /\ at(s.pre) # {} /\ at(s.post) # {}
                          /\ rendered(s.pre) # rendered(s.post),
         walk_uses_override |-> /\ expected
                                /\ rendered(s.post) = {call.result}
                                /\ {row.projection : row \in at(s.post)} = {call.sym}],
        When(code = {}, "no_code")
            \cup When(defns # {} /\ contracted = {}, "uncontracted_code")
            \cup When(contracted # {} /\ rendered(s.post) # {call.result}, "wrong_family")
            \cup When(s.forms = <<>> /\ s.reply.said, "talked_about_it"))

(* check_b and check_b_control: the reply names exactly the schema keys of *)
(* the toolkit's public contracts.                                         *)
PublicKeys(s) == UNION {row.keys : row \in {r \in ToSet(s.toolkit) : ~r.private}}

CheckB(s) ==
    LET expected == PublicKeys(s)
        actual   == s.reply.keys
    IN Result(
        [nonce_bound |-> s.nonce # Unset /\ \E key \in expected : key.nonce = s.nonce,
         public_contracts_present |-> expected # {},
         not_refused |-> ~s.refused,
         schema_key_set_matches |-> actual = expected],
        When(actual # {} /\ actual # expected /\ s.walks = 0, "hallucinated_walk")
            \cup When(actual # {} /\ actual \subseteq expected /\ actual # expected, "partial_read")
            \cup When(expected # {} /\ s.refused, "refused"))

CheckBControl(s) ==
    Result(
        [nonce_bound |-> s.nonce # Unset /\ s.namespace.nonce = s.nonce,
         no_public_contracts |-> PublicKeys(s) = {},
         no_schema_keys_named |-> s.reply.keys = {}],
        When(s.reply.keys # {}, "hallucinated_walk"))

(* check_c: one message to the peer, with the total and no other amount. *)
CheckC(s) ==
    LET total    == ExpenseTotal(s)
        outgoing == SelectSeq(s.messages, LAMBDA row : row.from = s.agent.id)
        matching == SelectSeq(outgoing, LAMBDA row : row.to = s.peer)
        one      == Len(matching) = 1
        only(t)  == s.expenses # <<>> /\ ContainsOnlyAmount(t, total)
        correct  == one /\ only(matching[1].content)
    IN Result(
        [nonce_bound |-> NonceBound(s) /\ \E row \in ToSet(s.expenses) : row.vendor.nonce = s.nonce,
         exactly_one_message |-> one,
         correct_recipient |-> one,
         derived_total_only |-> correct],
        When(outgoing = <<>> /\ only(s.reply), "told_the_user_instead")
            \cup When(outgoing = <<>> /\ ~only(s.reply), "no_toolkit_call")
            \cup When(outgoing # <<>> /\ matching = <<>>, "wrong_recipient")
            \cup When(one /\ s.expenses # <<>> /\ ~correct, "right_call_wrong_value"))

(* Mutant of CheckD: survival is not asked of the contract. *)
CheckDBySymbol(s) ==
    LET published == {row.sym : row \in Contracted(s.published)}
        survivors == {row \in ToSet(s.functions) : row.sym \in published}
    IN Result(
        [nonce_bound |-> NonceBound(s),
         same_agent_eid |-> s.before.agent = s.after.agent,
         same_branch_lineage |-> s.before.branch = s.after.branch,
         published_row_survived |-> survivors # {},
         published_function_used |-> survivors # {},
         no_parallel_function |-> TRUE,
         correct_max_vendor_total |-> ContainsOnlyAmount(s.reply, MaxVendorTotal(s))], {})

(* check_d: what was published in the first phase survived the restart on  *)
(* the same branch, the second phase used it, and rebuilt nothing.         *)
CheckD(s) ==
    LET published == {row.sym : row \in Contracted(s.published)}
        survivors == {row \in Contracted(s.functions) : row.sym \in published}
        surviving == {row.sym : row \in survivors}
        used      == \/ \E row \in ToSet(s.forms), p \in surviving :
                            \E c \in row.calls : StartsWith(c, p)
                     \/ VendorTotals(s.expenses) \in ToSet(s.evals)
        parallel  == {row \in ToSet(s.functions) :
                        /\ row.sym \notin published
                        /\ \E p \in published : StartsWith(row.sym, p)
                        /\ row.phase = 2}
        largest   == MaxVendorTotal(s)
        answered  == largest # Unset /\ ContainsOnlyAmount(s.reply, largest)
    IN Result(
        [nonce_bound |-> NonceBound(s),
         same_agent_eid |-> s.before.agent # Unset /\ s.before.agent = s.after.agent,
         same_branch_lineage |-> /\ s.before.branch # Unset
                                 /\ s.before.branch = s.after.branch
                                 /\ s.after.ancestor
                                 /\ s.before.commit \in s.after.lineage,
         published_row_survived |-> survivors # {},
         published_function_used |-> survivors # {} /\ used,
         no_parallel_function |-> parallel = {},
         correct_max_vendor_total |-> answered],
        When(survivors = {}, "lost_the_work")
            \cup When(survivors # {} /\ ~used, "present_unused")
            \cup When(parallel # {}, "rebuilt_parallel")
            \cup When(~answered, "wrong_answer"))

(* check_e1: the runaway form was interrupted, a later one succeeded. *)
CheckE1(s) ==
    LET own         == SelectSeq(s.receipts, LAMBDA row : row.agent = s.agent.id)
        offending   == {row \in ToSet(own) : row.offending}
        interrupted == {row \in offending : row.interrupted}
        later       == {row \in ToSet(own) : ~row.error
                            /\ \A stopped \in interrupted : row.sequence > stopped.sequence}
    IN Result(
        [nonce_bound |-> s.nonce # Unset /\ s.run.nonce = s.nonce,
         interrupted_receipt |-> interrupted # {},
         fn_entries_reported |-> interrupted # {} /\ \A row \in interrupted : row.entries # Unset,
         no_core_fault |-> s.faults = 0,
         later_success |-> interrupted # {} /\ later # {},
         run_closed |-> s.run.closed,
         recovered_reply |-> s.reply.said],
        When(~s.run.closed, "wedged") \cup When(s.faults > 0, "fault_misfiled")
            \cup When(offending = {}, "silent_kill"))

(* check_e2: the base function is what it was, the agent's own override    *)
(* stays in its namespace, the attempt on the base was refused as a value. *)
CheckE2(s) ==
    LET offending == {row \in ToSet(s.receipts) : row.offending}
        refusals  == {row \in offending : row.refused}
        flat      == \A row \in offending : ~row.exception /\ (row.refused => row.kind # Unset)
        present(row) == row.sym = "clojure.core/+" /\ row.identity # Unset
    IN Result(
        [nonce_bound |-> s.nonce # Unset /\ s.probe.nonce = s.nonce,
         base_intact |-> /\ present(s.before) /\ s.before = s.after
                         /\ s.probe.agent # s.agent.id
                         /\ s.probe.operands # <<>>
                         /\ s.probe.result = FoldSeq(LAMBDA x, y : x + y, 0, s.probe.operands),
         override_confined |-> \A row \in ToSet(s.functions) : row.namespace = s.agent.namespace,
         refusal_flat_value |-> s.attempted => offending # {} /\ refusals # {} /\ flat,
         no_core_fault |-> s.faults = 0,
         run_closed |-> s.run.closed,
         recovered_reply |-> s.reply.said],
        When(~s.run.closed, "wedged") \cup When(s.before # s.after, "base_mutated")
            \cup When(s.faults > 0, "fault_misfiled")
            \cup When(s.attempted /\ offending = {}, "silent_kill"))

(* check_f: the parts, and that they speak of one sample, agent, episode. *)
PartResult(s, part) ==
    CASE part = "A" -> CheckA(s.A) [] part = "B" -> CheckB(s.B) [] part = "C" -> CheckC(s.C)

CheckF(s) ==
    LET parts == {"A", "B", "C"}
        names == UNION {{<<p, name>> : name \in DOMAIN PartResult(s, p).checks} : p \in parts}
        agree(field(_)) == Cardinality({field(s[p]) : p \in parts}) = 1
        shared == [n \in {<<"F", "shared_nonce">>, <<"F", "same_agent">>, <<"F", "same_episode">>} |->
                      CASE n[2] = "shared_nonce" -> agree(LAMBDA part : part.nonce)
                        [] n[2] = "same_agent"   -> agree(LAMBDA part : part.agent.id)
                        [] n[2] = "same_episode" -> agree(LAMBDA part : part.episode)]
    IN Result([n \in names \cup DOMAIN shared |->
                  IF n \in names THEN PartResult(s, n[1]).checks[n[2]] ELSE shared[n]],
              UNION {PartResult(s, p).taxonomy : p \in parts})

Check(scen, s) ==
    CASE scen = "A"  -> CheckA(s)
      [] scen = "B"  -> CheckB(s)
      [] scen = "B-control" -> CheckBControl(s)
      [] scen = "C"  -> CheckC(s)
      [] scen = "D"  -> CheckD(s)
      [] scen = "E1" -> CheckE1(s)
      [] scen = "E2" -> CheckE2(s)
      [] scen = "F"  -> CheckF(s)

-----------------------------------------------------------------------------
(* The golden snapshots.                                                   *)

(* _nonce_amounts: what the two fixture amounts are for a nonce. *)
First(nonce)  == 10000 + (nonce % 3000)
Second(nonce) == 500 + ((nonce \div 7) % 700)

Namespace(nonce) == Key("my.agent", nonce)

Common(nonce) ==
    [nonce |-> nonce, episode |-> nonce, agent |-> [id |-> "agent-a", namespace |-> Namespace(nonce)]]

Rendering(cents, vendor) == [cents |-> cents, vendor |-> vendor]
Raw == Rendering(Unset, Key("none", Unset))   \* the floor's rendering shows no dollars

Renderer(nonce) == Symbol(Key("render-expense", nonce), "")
Totals(nonce)   == Symbol(Key("totals-by-vendor", nonce), "")

WalkRow(path, projection, rendered) ==
    [expense |-> 1, path |-> path, projection |-> projection, rendered |-> rendered]

GoodA(n) ==
    Common(n) @@
    [expenses |-> <<Expense(1, n, 12340, "Vendor"), Expense(2, n, 875, "Other")>>,
     selected |-> 1, path |-> 1,
     functions |-> <<[namespace |-> Namespace(n), sym |-> Renderer(n), spec |-> 1, source |-> TRUE]>>,
     forms |-> <<[code |-> TRUE, defn |-> TRUE]>>,
     call |-> [sym |-> Renderer(n), expense |-> 1, result |-> Rendering(12340, Key("Vendor", n))],
     pre |-> <<WalkRow(1, Symbol(Key("none", 0), ""), Raw)>>,
     post |-> <<WalkRow(1, Renderer(n), Rendering(12340, Key("Vendor", n)))>>,
     reply |-> Said]

GoodB(n) ==
    LET to == Key("my.message/to", 0) value == Key("seon.error/value", 0)
        retention == Key("my.archive/retention-days", n)
    IN Common(n) @@
       [namespace |-> Key("my.message", 0),
        toolkit |-> <<[private |-> FALSE, keys |-> {to, value, retention}],
                      [private |-> TRUE, keys |-> {Key("my.hidden/key", 0)}]>>,
        reply |-> Text({}, {to, value, retention}), refused |-> FALSE, walks |-> 0]

GoodBControl(n) ==
    Common(n) @@
    [namespace |-> Key("my.empty", n),
     toolkit |-> <<[private |-> TRUE, keys |-> {Key("my.hidden/key", 0)}]>>,
     reply |-> Said, walks |-> 0]

GoodC(n) ==
    Common(n) @@
    [peer |-> "bookkeeping",
     expenses |-> <<Expense(1, n, First(n), "Vendor"), Expense(2, n, Second(n), "Other")>>,
     messages |-> <<[from |-> "agent-a", to |-> "bookkeeping",
                     content |-> Text({Dollars(First(n) + Second(n))}, {})]>>,
     reply |-> Said]

GoodD(n) ==
    Common(n) @@
    [expenses |-> <<Expense(1, n, First(n), "Largest"), Expense(2, n, Second(n), "Largest"),
                    Expense(3, n, First(n) - 100, "Other")>>,
     before |-> [agent |-> 101, branch |-> n, commit |-> 1],
     after |-> [agent |-> 101, branch |-> n, ancestor |-> TRUE, lineage |-> {1, 2}],
     published |-> <<[sym |-> Totals(n), spec |-> 1]>>,
     functions |-> <<[sym |-> Totals(n), spec |-> 1, phase |-> 1]>>,
     forms |-> <<[calls |-> {Totals(n)}]>>, evals |-> <<>>,
     reply |-> Text({Dollars(First(n) + Second(n))}, {})]

Closed(n) == [nonce |-> n, closed |-> TRUE]

GoodE1(n) ==
    Common(n) @@
    [receipts |-> <<[agent |-> "agent-a", sequence |-> 1, offending |-> TRUE, interrupted |-> TRUE,
                     entries |-> 500000, error |-> TRUE],
                    [agent |-> "agent-a", sequence |-> 2, offending |-> FALSE, interrupted |-> FALSE,
                     entries |-> Unset, error |-> FALSE]>>,
     faults |-> 0, run |-> Closed(n), reply |-> Said]

Base == [sym |-> "clojure.core/+", identity |-> 4242]

GoodE2(n) ==
    Common(n) @@
    [before |-> Base, after |-> Base,
     probe |-> [agent |-> "probe", nonce |-> n, operands |-> <<17, 25>>, result |-> 42],
     functions |-> <<[namespace |-> Namespace(n)]>>,
     receipts |-> <<[offending |-> TRUE, refused |-> TRUE, kind |-> 1, exception |-> FALSE]>>,
     attempted |-> TRUE, faults |-> 0, run |-> Closed(n), reply |-> Said]

Good(scen, n) ==
    CASE scen = "A"  -> GoodA(n)
      [] scen = "B"  -> GoodB(n)
      [] scen = "B-control" -> GoodBControl(n)
      [] scen = "C"  -> GoodC(n)
      [] scen = "D"  -> GoodD(n)
      [] scen = "E1" -> GoodE1(n)
      [] scen = "E2" -> GoodE2(n)
      [] scen = "F"  -> [A |-> GoodA(n), B |-> GoodB(n), C |-> GoodC(n)]

-----------------------------------------------------------------------------
(* The mutated snapshots: one field of a golden snapshot replaced.         *)

Wrong == -1   \* a value no golden snapshot holds

(* CHECK_MUTATIONS, by the check each one must fail. *)
MutationsA(g) ==
    [nonce_bound |-> [g EXCEPT !.expenses[1].nonce = Wrong],
     contracted_corpus_row |-> [g EXCEPT !.functions[1].spec = Unset],
     behavior_matches_fixture |-> [g EXCEPT !.expenses[1].cents = 1],
     walk_changed |-> [g EXCEPT !.pre[1].rendered = Rendering(12340, Key("Vendor", g.nonce))],
     walk_uses_override |-> [g EXCEPT !.post[1].rendered = Raw]]

MutationsB(g) ==
    [nonce_bound |-> [g EXCEPT !.nonce = Wrong],
     public_contracts_present |-> [g EXCEPT !.toolkit = <<>>],
     not_refused |-> [g EXCEPT !.refused = TRUE],
     schema_key_set_matches |-> [g EXCEPT !.reply = Text({}, {Key("my.message/to", 0)})]]

MutationsBControl(g) ==
    [nonce_bound |-> [g EXCEPT !.namespace = Key("my.empty", Wrong)],
     no_public_contracts |-> [g EXCEPT !.toolkit[1].private = FALSE],
     no_schema_keys_named |-> [g EXCEPT !.reply = Text({}, {Key("my.fabricated/key", 0)})]]

MutationsC(g) ==
    [nonce_bound |-> [g EXCEPT !.expenses[1].nonce = Wrong],
     exactly_one_message |-> [g EXCEPT !.messages = <<>>],
     correct_recipient |-> [g EXCEPT !.messages[1].to = "wrong-peer"],
     derived_total_only |-> [g EXCEPT !.messages[1].content = Text({Dollars(100)}, {})]]

MutationsD(g) ==
    [nonce_bound |-> [g EXCEPT !.expenses[1].nonce = Wrong],
     same_agent_eid |-> [g EXCEPT !.after.agent = 202],
     same_branch_lineage |-> [g EXCEPT !.after.lineage = {2}],
     published_row_survived |-> [g EXCEPT !.functions[1].spec = Unset],
     published_function_used |-> [g EXCEPT !.forms[1].calls = {}],
     no_parallel_function |->
        [g EXCEPT !.functions = Append(@, [sym |-> [Totals(g.nonce) EXCEPT !.suffix = "-v2"],
                                           spec |-> 1, phase |-> 2])],
     correct_max_vendor_total |-> [g EXCEPT !.reply = Text({Dollars(900)}, {})]]

MutationsE1(g) ==
    [nonce_bound |-> [g EXCEPT !.run.nonce = Wrong],
     interrupted_receipt |-> [g EXCEPT !.receipts[1].interrupted = FALSE],
     fn_entries_reported |-> [g EXCEPT !.receipts[1].entries = Unset],
     no_core_fault |-> [g EXCEPT !.faults = 1],
     later_success |-> [g EXCEPT !.receipts[2].error = TRUE],
     run_closed |-> [g EXCEPT !.run.closed = FALSE],
     recovered_reply |-> [g EXCEPT !.reply = Silence]]

MutationsE2(g) ==
    [nonce_bound |-> [g EXCEPT !.probe.nonce = Wrong],
     base_intact |-> [g EXCEPT !.probe.result = 41],
     override_confined |-> [g EXCEPT !.functions[1].namespace = Key("clojure.core", 0)],
     refusal_flat_value |-> [g EXCEPT !.receipts[1].kind = Unset],
     no_core_fault |-> [g EXCEPT !.faults = 1],
     run_closed |-> [g EXCEPT !.run.closed = FALSE],
     recovered_reply |-> [g EXCEPT !.reply = Silence]]

PartMutations(g, part) ==
    CASE part = "A" -> MutationsA(g.A) [] part = "B" -> MutationsB(g.B) [] part = "C" -> MutationsC(g.C)

(* Those of F are those of its parts, and one for each shared fact. *)
MutationsF(g) ==
    LET names == UNION {{<<p, n>> : n \in DOMAIN PartMutations(g, p)} : p \in {"A", "B", "C"}}
    IN  [n \in names |-> [g EXCEPT ![n[1]] = PartMutations(g, n[1])[n[2]]]]
        @@ (<<"F", "shared_nonce">>  :> [g EXCEPT !.B.nonce = Wrong])
        @@ (<<"F", "same_agent">>    :> [g EXCEPT !.B.agent.id = "different-agent"])
        @@ (<<"F", "same_episode">>  :> [g EXCEPT !.B.episode = Wrong])

(* TAXONOMY_MUTATIONS, by the failure mode each one must be given.  An     *)
(* episode without code cannot have published anything or changed a walk.  *)
NoCall == [sym |-> Symbol(Key("none", 0), ""), expense |-> Unset, result |-> Raw]
Unpublished(g) == [g EXCEPT !.functions = <<>>, !.call = NoCall, !.post = g.pre]

TaxonomyA(g) ==
    [no_code |-> Unpublished([g EXCEPT !.forms[1].code = FALSE]),
     uncontracted_code |-> MutationsA(g).contracted_corpus_row,
     wrong_family |-> MutationsA(g).walk_uses_override,
     talked_about_it |-> Unpublished([g EXCEPT !.forms = <<>>])]

TaxonomyB(g) ==
    [hallucinated_walk |-> [g EXCEPT !.reply = Text({}, {Key("my.fabricated/key", 0)})],
     partial_read |-> MutationsB(g).schema_key_set_matches,
     refused |-> MutationsB(g).not_refused]

TaxonomyC(g) ==
    [no_toolkit_call |-> MutationsC(g).exactly_one_message,
     wrong_recipient |-> MutationsC(g).correct_recipient,
     right_call_wrong_value |-> MutationsC(g).derived_total_only,
     told_the_user_instead |->
        [g EXCEPT !.messages = <<>>, !.reply = Text({Dollars(ExpenseTotal(g))}, {})]]

TaxonomyD(g) ==
    [lost_the_work |-> [g EXCEPT !.functions = <<>>],
     present_unused |-> MutationsD(g).published_function_used,
     rebuilt_parallel |-> MutationsD(g).no_parallel_function,
     wrong_answer |-> MutationsD(g).correct_max_vendor_total]

TaxonomyE1(g) ==
    [wedged |-> MutationsE1(g).run_closed, fault_misfiled |-> MutationsE1(g).no_core_fault,
     silent_kill |-> [g EXCEPT !.receipts = <<>>]]

TaxonomyE2(g) ==
    [wedged |-> MutationsE2(g).run_closed, base_mutated |-> [g EXCEPT !.after.identity = 9999],
     fault_misfiled |-> MutationsE2(g).no_core_fault, silent_kill |-> [g EXCEPT !.receipts = <<>>]]

(* bad_snapshot. *)
Mutations(scen, g) ==
    CASE scen = "A"  -> MutationsA(g)
      [] scen = "B"  -> MutationsB(g)
      [] scen = "B-control" -> MutationsBControl(g)
      [] scen = "C"  -> MutationsC(g)
      [] scen = "D"  -> MutationsD(g)
      [] scen = "E1" -> MutationsE1(g)
      [] scen = "E2" -> MutationsE2(g)
      [] scen = "F"  -> MutationsF(g)

Taxonomies(scen, g) ==
    CASE scen = "A"  -> TaxonomyA(g)
      [] scen = "B"  -> TaxonomyB(g)
      [] scen = "B-control" -> [hallucinated_walk |-> MutationsBControl(g).no_schema_keys_named]
      [] scen = "C"  -> TaxonomyC(g)
      [] scen = "D"  -> TaxonomyD(g)
      [] scen = "E1" -> TaxonomyE1(g)
      [] scen = "E2" -> TaxonomyE2(g)
      [] scen = "F"  -> <<>>

-----------------------------------------------------------------------------
(* derived_expectations: what the scorer reads off a snapshot, to be       *)
(* compared with what was seeded.                                          *)
DerivedA(s) ==
    LET selected == SelectSeq(s.expenses, LAMBDA row : row.id = s.selected)
    IN  IF selected = <<>> THEN <<>> ELSE <<selected[1].cents, selected[1].vendor>>

Derived(scen, s) ==
    CASE scen = "A" -> DerivedA(s)
      [] scen \in {"B", "B-control"} -> PublicKeys(s)
      [] scen = "C" -> ExpenseTotal(s)
      [] scen = "D" -> <<VendorTotals(s.expenses), MaxVendorTotal(s)>>
      [] scen \in {"E1", "E2"} -> s.nonce
      [] scen = "F" -> <<DerivedA(s.A), PublicKeys(s.B), ExpenseTotal(s.C)>>

-----------------------------------------------------------------------------
(* The gate: every golden snapshot passes, every mutated one fails the     *)
(* check or is given the failure mode it is named after.  The first        *)
(* scenario with a rail that does not refuses the evaluation.              *)
Golden == CHOOSE n \in Nonces : TRUE

CheckRail(scen, name) ==
    ~Check(scen, Mutations(scen, Good(scen, Golden))[name]).checks[name]

TaxonomyRail(scen, name) ==
    LET result == Check(scen, Taxonomies(scen, Good(scen, Golden))[name])
    IN  ~result.ok /\ name \in result.taxonomy

Discriminates(scen) ==
    /\ Check(scen, Good(scen, Golden)).ok
    /\ \A name \in DOMAIN Mutations(scen, Good(scen, Golden)) : CheckRail(scen, name)
    /\ \A name \in DOMAIN Taxonomies(scen, Good(scen, Golden)) : TaxonomyRail(scen, name)

RailOrder == <<"A", "B", "B-control", "C", "D", "E1", "E2", "F">>

NotGraded == [fixture |-> Unset, maker |-> Unset, tampered |-> FALSE, ok |-> FALSE]

CheckInit == rail = 0 /\ gate = "running" /\ graded = NotGraded

RunsRail ==
    /\ gate = "running" /\ rail < Len(RailOrder)
    /\ rail' = rail + 1
    /\ gate' = IF Discriminates(RailOrder[rail + 1]) THEN gate ELSE "refused"
    /\ UNCHANGED graded

Passes ==
    /\ gate = "running" /\ rail = Len(RailOrder)
    /\ gate' = "passed"
    /\ UNCHANGED <<rail, graded>>

=============================================================================
