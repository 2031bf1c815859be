----------------------------- MODULE Reachability -----------------------------
(***************************************************************************)
(* The namespace-reachability rows and the oracle over their evidence.     *)
(*                                                                         *)
(* Each row asks the agent for a chain of calls whose later links depend   *)
(* on what a prompt showed after the earlier ones: the id of the child it  *)
(* started, the functions of the namespace it entered, a skill's body, the *)
(* values two calls returned.  The agent evaluates forms in turns here,    *)
(* rightly or wrongly, and each turn begins with a prompt rendered from    *)
(* the facts of that moment.  reachability.py judges by prompts and rows;  *)
(* "link" is how far along the row's chain the agent really came.          *)
(***************************************************************************)
EXTENDS EvalEvidence, FiniteSets, FiniteSetsExt

CONSTANTS
    Episodes,     \* the openings of each row: sequences of forms, and "turn"
    MaxForms      \* forms and turns after the opening

ASSUME ReachabilityConstants == MaxForms \in Nat

(* The chains that fulfil each row.  A link is a call done rightly, or a   *)
(* fact that a prompt rendered then showed ("sees") or no longer showed    *)
(* ("misses"); the two product calls come in either order.                 *)
Chains ==
    [root_orchestration  |-> {<<"start", "sees", "query", "sees", "told", "completed">>},
     namespace_discovery |-> {<<"functions", "move", "sees", "grants", "return", "told", "completed">>},
     skill_lifecycle     |-> {<<"list", "load", "sees", "unload", "misses", "told", "completed">>},
     acme_product_tools  |-> {<<"tagline", "location", "sees", "told", "completed">>,
                              <<"location", "tagline", "sees", "told", "completed">>}]

(* The calls an agent may make of a row: those of its chains, and in the   *)
(* first one also delegate! or a message to the child, which it must not.  *)
CallsOf(row) ==
    ((UNION {ToSet(chain) : chain \in Chains[row]}) \ {"sees", "misses"})
        \cup {call \in {"directs"} : row = "root_orchestration"}

(* The facts the row's prompts are asked for.                              *)
Asked ==
    [root_orchestration |-> {"child"}, namespace_discovery |-> {"functions"},
     skill_lifecycle |-> {"body"}, acme_product_tools |-> {"tagline", "location"}]

(* The calls whose form names something: a purpose, a skill, the values.   *)
Naming(row) ==
    {"start", "query", "functions", "load", "unload", "location"}
        \cup {call \in {"told", "completed"} : row # "skill_lifecycle"}

ReachRows == DOMAIN Chains

VARIABLES
    episode,      \* [row, prompts, forms, facts, link]
    ahead,        \* the rest of its opening
    left          \* forms and turns left after it

reachVars == <<episode, ahead, left>>

-----------------------------------------------------------------------------
(* The episode: what a prompt rendered now would show changes with a call. *)

Shown(call, before) ==
    CASE call = "start"    -> before \cup {IF "child" \in before THEN "second_child" ELSE "child"}
      [] call = "move"     -> before \cup {"functions"}
      [] call = "return"   -> before \ {"functions"}
      [] call = "load"     -> before \cup {"body"}
      [] call = "unload"   -> before \ {"body"}
      [] call \in {"tagline", "location"} -> before \cup {call}
      [] OTHER             -> before

Forward(link, event) ==
    [chain \in DOMAIN link |->
        IF link[chain] < Len(chain) /\ event = chain[link[chain] + 1] THEN link[chain] + 1 ELSE link[chain]]

Renders(ep) ==
    [ep EXCEPT !.prompts = Append(@, ep.facts),
               !.link = Forward(@, IF Asked[ep.row] \subseteq ep.facts THEN "sees" ELSE "misses")]

(* A form: the call, whether it names what it should, whether it succeeds. *)
Performs(ep, form) ==
    [ep EXCEPT
        !.forms = Append(@, [ok |-> form.ok, turn |-> Len(ep.prompts), at |-> Len(@) + 1,
                             source |-> {form.call} \cup {m \in {"right"} : form.right}]),
        !.facts = IF form.ok /\ (form.right \/ form.call = "start") THEN Shown(form.call, @) ELSE @,
        !.link  = IF form.ok /\ form.right THEN Forward(@, form.call) ELSE @]

(* The first prompt shows the row's cards in the home namespace, or not.   *)
Begun(row, cards) ==
    [row |-> row, prompts |-> <<cards>>, forms |-> <<>>, facts |-> {}, link |-> [chain \in Chains[row] |-> 0]]

ReachInit ==
    /\ left = MaxForms
    /\ \E row \in ReachRows, cards \in SUBSET {"cards"} :
        episode = Begun(row, cards) /\ ahead \in Episodes[row]

(* What the opening holds comes first.                                     *)
Comes(event) ==
    IF ahead # <<>> THEN event = Head(ahead) /\ ahead' = Tail(ahead) /\ left' = left
    ELSE left > 0 /\ left' = left - 1 /\ ahead' = ahead

EndsTurn ==
    /\ Comes([call |-> "turn"])
    /\ episode' = Renders(episode)

EvaluatesForm ==
    \E call \in CallsOf(episode.row), right, ok \in BOOLEAN :
        LET form == [call |-> call, right |-> right, ok |-> ok] IN
        /\ call \notin Naming(episode.row) => right
        /\ Comes(form)
        /\ episode' = Performs(episode, form)

ReachNext == EndsTurn \/ EvaluatesForm

-----------------------------------------------------------------------------
(* The oracle.                                                             *)

Right(rows, indices) == {i \in indices : "right" \in rows[i].source}

(* Mutant of LaterPrompts: the prompt of the row's own turn is a later one.*)
LaterPromptsOwn(turns, row) == IF row.turn = 0 THEN {} ELSE row.turn..Len(turns)

(* The prompts of the turns after the one that evaluated the row.          *)
LaterPrompts(turns, row) == IF row.turn = 0 THEN {} ELSE (row.turn + 1)..Len(turns)

(* The one agent, other than root, the prompts after start! expose.        *)
ChildIdAfterStart(turns, row) ==
    LET ids == UNION {turns[p] : p \in LaterPrompts(turns, row)} IN
    IF Cardinality(ids) = 1 THEN ids ELSE {}

(* Mutant of ReportedValues: any report after the row will do.             *)
ReportedWhenever(rows, after, turn) ==
    LET late(call) == {i \in Right(rows, OkIndices(rows, call)) : i > after} IN
    late("told") # {} /\ late("completed") # {} /\ Min(late("told")) < Max(late("completed"))

(* The values were told, and the task completed with them, after the row   *)
(* and no earlier than the turn.                                           *)
ReportedValues(rows, after, turn) ==
    LET late(call) == {i \in Right(rows, OkIndices(rows, call)) : i > after /\ rows[i].turn >= turn} IN
    /\ late("told") # {} /\ late("completed") # {}
    /\ Min(late("told")) < Max(late("completed"))

Surface(turns) == "cards" \in turns[1]

OrderedEvidence(turns, rows, basis) == turns # <<>> /\ OrderedProofRows(rows, basis)

Root(turns, rows) ==
    LET starts == OkIndices(rows, "start")
        queries == OkIndices(rows, "query")
        selection == /\ Cardinality(starts) = 1 /\ starts = Right(rows, starts)
                     /\ OkIndices(rows, "directs") = {}
                     /\ queries # {} /\ Min(starts) < Max(queries)
        query == rows[Max(queries)]
        child == ChildIdAfterStart(turns, rows[Min(starts)])
        exposed(row) == {p \in LaterPrompts(turns, row) : child \subseteq turns[p]} IN
    /\ selection /\ child # {}
    /\ "right" \in query.source
    /\ \E p \in exposed(rows[Min(starts)]) : p <= query.turn
    /\ exposed(query) # {}
    /\ ReportedValues(rows, Max(queries), Min(exposed(query)))

Discovery(turns, rows) ==
    LET functions == OkIndices(rows, "functions")
        moves == OkIndices(rows, "move")
        grants == OkIndices(rows, "grants")
        returns == OkIndices(rows, "return")
        shown == {p \in LaterPrompts(turns, rows[Min(moves)]) : "functions" \in turns[p]} IN
    /\ functions # {} /\ moves # {} /\ "right" \in rows[Min(functions)].source
    /\ Min(functions) < Min(moves)
    /\ shown # {}
    /\ grants # {} /\ rows[Min(grants)].turn >= Min(shown)
    /\ returns # {} /\ Min(grants) < Max(returns)
    /\ ReportedValues(rows, Max(returns), Min(shown))

Skills(turns, rows) ==
    LET lists == OkIndices(rows, "list")
        loads == OkIndices(rows, "load")
        unloads == OkIndices(rows, "unload")
        loaded == {p \in LaterPrompts(turns, rows[Min(loads)]) : "body" \in turns[p]}
        gone == {p \in LaterPrompts(turns, rows[Max(unloads)]) : "body" \notin turns[p]} IN
    /\ lists # {} /\ loads # {} /\ unloads # {}
    /\ "right" \in rows[Min(loads)].source /\ "right" \in rows[Max(unloads)].source
    /\ Min(lists) < Min(loads) /\ Min(loads) < Max(unloads)
    /\ loaded # {} /\ gone # {} /\ Min(loaded) < Max(gone)
    /\ rows[Max(unloads)].turn >= Min(loaded)
    /\ ReportedValues(rows, Max(unloads), Min(gone))

Acme(turns, rows) ==
    LET taglines == OkIndices(rows, "tagline")
        locations == OkIndices(rows, "location")
        last == Max({Min(taglines), Min(locations)})
        shown == {p \in LaterPrompts(turns, rows[last]) : Asked.acme_product_tools \subseteq turns[p]} IN
    /\ taglines # {} /\ locations # {} /\ "right" \in rows[Min(locations)].source
    /\ shown # {}
    /\ ReportedValues(rows, last, Min(shown))

CheckReachability(row, turns, rows, reply, basis) ==
    /\ OrderedEvidence(turns, rows, basis)
    /\ Surface(turns)
    /\ row # "skill_lifecycle" => reply = "values"
    /\ CASE row = "root_orchestration"  -> Root(turns, rows)
         [] row = "namespace_discovery" -> Discovery(turns, rows)
         [] row = "skill_lifecycle"     -> Skills(turns, rows)
         [] OTHER                       -> Acme(turns, rows)

-----------------------------------------------------------------------------
(* Whatever way the response renders the rows, a row is graded correct     *)
(* only when the agent went through every link of a chain: what it         *)
(* reports it had seen in a prompt, and had not guessed.                   *)
ReachabilityEarned ==
    \A rows \in Responses(episode.forms, {"told", "right"}) :
        CheckReachability(episode.row, episode.prompts, rows, "values", Len(episode.forms)) =>
            \E chain \in Chains[episode.row] : episode.link[chain] = Len(chain)
=============================================================================
