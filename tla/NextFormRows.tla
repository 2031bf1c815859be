----------------------------- MODULE NextFormRows -----------------------------
(***************************************************************************)
(* The rows the suggestion models are measured on, and the bridge back.    *)
(*                                                                         *)
(* build_v2.py turns a recorded turn into a row: the functions on its      *)
(* cards become tools with snake-case names, the first clean form becomes  *)
(* a call of one of them.  eval_extend.py turns the calls a model predicts *)
(* back into Clojure: the tool's name into its symbol, each argument into  *)
(* the keyword its parameter was described with, each value into source.   *)
(* A name is split into its namespace, the last segment of that, and the   *)
(* rest; a value is of a kind the bridge tells apart.  What to_snake_case  *)
(* does to a name, and how edamame reads a text, are outside src/; what    *)
(* split_forms.clj makes of the forms read is told by their kinds.         *)
(***************************************************************************)
EXTENDS Sums, FiniteSets, SequencesExt, FiniteSetsExt, Functions

CONSTANTS
    SnakeCase,   \* names to their snake case, a function
    Index,       \* the functions of the dumped index, in order
    Cards,       \* the cards a turn may show
    Forms,       \* the forms a turn may consist of
    MaxCards,    \* cards of a turn
    MaxSaid,    \* forms of a turn
    SlotBudget   \* tools and parameters that fit the encoder

Symbol(space, suffix, name) == [space |-> space, suffix |-> suffix, name |-> name]
Keyword(space, name)        == [space |-> space, name |-> name]

(* The keys a spec declares: those of its one map, its named slots, or     *)
(* made-up names for slots without one; none without a readable spec.      *)
DeclaredKeys(spec) ==
    CASE spec.kind \in {"map", "catn"} -> spec.keys
      [] spec.kind = "slots"  -> [i \in 1..spec.n |-> Keyword("", <<"arg1", "arg2", "arg3">>[i])]
      [] spec.kind = "opaque" -> <<Keyword("", "request")>>
      [] OTHER                -> <<>>

IsList(list) == list \in Seq(ToSet(list))

ASSUME NextFormConstants ==
    /\ {MaxCards, MaxSaid, SlotBudget} \subseteq Nat
    /\ IsList(Index) /\ \A fn \in ToSet(Index) \cup Cards : IsList(DeclaredKeys(fn.spec))
    /\ \A form \in Forms : \A call, other \in form.call :
        /\ call = other
        /\ call.args.kind # "map" => IsList(call.args.list)

VARIABLES
    rowPhase,  \* "cards", "forms", "built", "bridged", "dropped"
    shown,     \* the cards of the turn
    turn,      \* its forms
    built,     \* the row: tools, first form, target, status
    slot,      \* the tools the model was given
    bridged    \* its target, predicted and turned back into a form

rowVars == <<rowPhase, shown, turn, built, slot, bridged>>

-----------------------------------------------------------------------------
(* Names.                                                                  *)

SnakeSymbol(sym) == <<sym.space, SnakeCase[sym.name]>>
Short(key)       == [space |-> "", name |-> SnakeCase[key.name]]
Full(key)        == [key EXCEPT !.name = SnakeCase[@]]

(* Two symbols are taken for one if their names agree, and the last        *)
(* segments of their namespaces where both have one.                       *)
HeadMatches(head, sym) ==
    /\ head.name = sym.name
    /\ "" \in {head.suffix, sym.suffix} \/ head.suffix = sym.suffix

-----------------------------------------------------------------------------
(* From a function to a tool.                                              *)

Param(name, key) == [name |-> name, key |-> key]

Named(params, name) == {i \in DOMAIN params : params[i].name = name}

(* A dictionary keeps the place of a key that is assigned again.           *)
Put(params, p) ==
    IF Named(params, p.name) = {} THEN Append(params, p)
    ELSE [i \in DOMAIN params |-> IF params[i].name = p.name THEN p ELSE params[i]]

(* The second of two parameters with one last segment qualifies both.      *)
AddParam(params, key) ==
    LET clash == Named(params, Short(key))
        first == Max(clash)
        prev  == params[first].key
    IN  IF clash = {} THEN Append(params, Param(Short(key), key))
        ELSE Put(Put(RemoveAt(params, first), Param(Full(prev), prev)), Param(Full(key), key))

(* The parameters after each of the declared keys.                         *)
Declaring(keys) ==
    LET added[k \in 0..Len(keys)] == IF k = 0 THEN <<>> ELSE AddParam(added[k - 1], keys[k])
    IN  added

ParamsOf(spec) == Declaring(DeclaredKeys(spec))[Len(DeclaredKeys(spec))]

FnToTool(fn) == [name |-> SnakeSymbol(fn.sym), params |-> ParamsOf(fn.spec), sym |-> fn.sym]

(* A card is the only function of its name, or the first of its name with  *)
(* its docstring; else it is translated from what it says itself.  One     *)
(* that does not read is a card of the name "unparseable" without a spec.  *)
MatchIndexRow(card) ==
    LET rows == {i \in DOMAIN Index : Index[i].sym.name = card.name}
        same == {i \in rows : Index[i].doc = card.doc}
    IN  IF Cardinality(rows) = 1 THEN rows ELSE {i \in same : \A j \in same : i <= j}

CardTool(card) ==
    IF MatchIndexRow(card) # {} THEN FnToTool(Index[CHOOSE i \in MatchIndexRow(card) : TRUE])
    ELSE FnToTool([sym |-> Symbol("", "", card.name), spec |-> card.spec])

-----------------------------------------------------------------------------
(* From a form to a call.                                                  *)

(* The tools of the row that the head may mean; the first is taken.        *)
Meant(head, tools)  == {i \in DOMAIN tools : HeadMatches(head, tools[i].sym)}
ToolOf(head, tools) == tools[Min(Meant(head, tools))]

(* The names of a call's own keys, by the rule of AddParam.                *)
ArgName(key, keys) == IF \E k \in keys \ {key} : Short(k) = Short(key) THEN Full(key) ELSE Short(key)

(* Mutant of DeepValue: what JSON cannot carry leaves no gap.              *)
DeepValueSilent(v) == [value |-> v, gap |-> FALSE]

DeepValue(v) == [value |-> v, gap |-> v = "source"]

(* A call's arguments are a map of keywords, or values by position.        *)
TranslateCall(call, tools) ==
    LET known  == Meant(call.head, tools) # {}
        tool   == ToolOf(call.head, tools)
        params == IF known THEN tool.params ELSE <<>>
        map    == IF call.args.kind = "map" THEN call.args.map ELSE <<>>
        list   == IF call.args.kind = "map" THEN <<>> ELSE call.args.list
        keys   == DOMAIN map
        named  == Len(params) >= Len(list)
        clash  == \E k, l \in keys : k # l /\ Short(k) = Short(l)
        Name(i) == IF named THEN params[i].name ELSE Keyword("arg", ToString(i))
        Value(n) == IF call.args.kind = "map" THEN map[CHOOSE k \in keys : ArgName(k, keys) = n]
                                              ELSE list[CHOOSE i \in DOMAIN list : Name(i) = n]
    IN  [name |-> IF known THEN tool.name ELSE SnakeSymbol(call.head),
         arguments |-> [n \in {ArgName(k, keys) : k \in keys} \cup {Name(i) : i \in DOMAIN list} |->
                            DeepValue(Value(n)).value],
         gaps |-> ~known \/ ~named \/ clash
                    \/ \E v \in Range(map) \cup ToSet(list) : DeepValue(v).gap]

(* Mutant of Kept: prose is left in.                                       *)
KeptProse(forms) == DOMAIN forms

Kept(forms) == {i \in DOMAIN forms : ~forms[i].prose}

-----------------------------------------------------------------------------
NoNextForm == [tools |-> <<>>, first |-> {}, substantive |-> {}, target |-> {}, status |-> "none"]

RowInit ==
    /\ rowPhase = "cards" /\ shown = <<>> /\ turn = <<>> /\ built = NoNextForm /\ slot = <<>>
    /\ bridged = {}

Shows ==
    /\ rowPhase = "cards" /\ Len(shown) < MaxCards
    /\ \E card \in Cards \ ToSet(shown) : shown' = Append(shown, card)
    /\ UNCHANGED <<rowPhase, turn, built, slot, bridged>>

Says ==
    /\ rowPhase \in {"cards", "forms"} /\ Len(turn) < MaxSaid
    /\ \E form \in Forms : turn' = Append(turn, form)
    /\ rowPhase' = "forms"
    /\ UNCHANGED <<shown, built, slot, bridged>>

(* A turn that does not read, or is prose throughout, leaves no row.       *)
DropsRow ==
    /\ rowPhase = "forms"
    /\ Kept(turn) = {} \/ \E i \in DOMAIN turn : ~turn[i].reads
    /\ rowPhase' = "dropped"
    /\ UNCHANGED <<shown, turn, built, slot, bridged>>

BuildsRow ==
    /\ rowPhase = "forms" /\ Kept(turn) # {} /\ \A i \in DOMAIN turn : turn[i].reads
    /\ LET tools == [i \in DOMAIN shown |-> CardTool(shown[i])]
           first == turn[Min(Kept(turn))]
           rest  == {i \in Kept(turn) : ~turn[i].nsMove}
           call  == {TranslateCall(c, tools) : c \in first.call}
       IN  built' = [tools |-> tools, first |-> {first},
                     substantive |-> IF rest = {} THEN {} ELSE {turn[Min(rest)]},
                     target |-> call,
                     status |-> IF call = {} THEN "none"
                                ELSE IF \E c \in call : c.gaps THEN "partial" ELSE "full"]
    /\ rowPhase' = "built"
    /\ UNCHANGED <<shown, turn, slot, bridged>>

(* The whole-graph arms fill the encoder with further tools of the index,  *)
(* in any order, passing over those that do not fit.                       *)
Weight(tool)  == 1 + Len(tool.params)
Filled(tools) == TotalOf([i \in DOMAIN tools |-> Weight(tools[i])])
Tops(tools, tool) ==
    IF (\E i \in DOMAIN tools : tools[i].name = tool.name) \/ Filled(tools) + Weight(tool) > SlotBudget
    THEN tools ELSE Append(tools, tool)

Topping(tools, order) ==
    LET topped[k \in 0..Len(order)] == IF k = 0 THEN tools ELSE Tops(topped[k - 1], order[k])
    IN  topped

TopUp(tools, order) == Topping(tools, order)[Len(order)]

(* Of the functions of one name the index keeps the last; drawn in any     *)
(* order.                                                                  *)
IndexTools ==
    LET last == {i \in DOMAIN Index : \A j \in DOMAIN Index :
                     SnakeSymbol(Index[i].sym) = SnakeSymbol(Index[j].sym) => j <= i}
        places == 1..Cardinality(last)
    IN  {[k \in places |-> FnToTool(Index[at[k]])] : at \in Bijection(places, last)}

(* Mutant of KeywordOf: the description is not asked.                      *)
KeywordOfName(tools, tool, name) == IF name.space = "" THEN name ELSE Keyword("", "joined")

(* The keyword in the description of a tool's parameter; for a name the    *)
(* tool lacks that name, its parts joined into one.                        *)
KeywordOf(tools, tool, name) ==
    LET have   == {i \in DOMAIN tools : tools[i].name = tool /\ Named(tools[i].params, name) # {}}
        params == tools[Max(have)].params
    IN  IF have # {} THEN params[Max(Named(params, name))].key
        ELSE IF name.space = "" THEN name ELSE Keyword("", "joined")

(* A text that looks like a keyword or a form is printed as one.           *)
CljValue(v) == CASE v = "text :" -> "keyword" [] v = "text (" -> "source" [] OTHER -> v

(* The symbol of a tool's name: of the row's last card that has it, else   *)
(* of the index's last function.                                           *)
SymbolOf(name) ==
    LET own    == {i \in DOMAIN shown : SnakeSymbol(CardTool(shown[i]).sym) = name}
        global == {i \in DOMAIN Index : SnakeSymbol(Index[i].sym) = name}
    IN  IF own # {} THEN CardTool(shown[Max(own)]).sym
        ELSE IF global # {} THEN Index[Max(global)].sym
        ELSE Symbol("", "", "unknown")

BridgeCall(call, tools) ==
    LET names == DOMAIN call.arguments
        key   == [n \in names |-> KeywordOf(tools, call.name, n)]
    IN  [head |-> SymbolOf(call.name),
         map  |-> [k \in Range(key) |-> CljValue(call.arguments[CHOOSE n \in names : key[n] = k])]]

(* A model that predicts its target.                                       *)
Bridges ==
    /\ rowPhase = "built"
    /\ \E topped \in BOOLEAN, order \in IndexTools :
        LET tools == IF topped THEN TopUp(built.tools, order) ELSE built.tools IN
        /\ slot' = tools
        /\ bridged' = {BridgeCall(call, tools) : call \in built.target}
    /\ rowPhase' = "bridged"
    /\ UNCHANGED <<shown, turn, built>>

RowNext == Shows \/ Says \/ DropsRow \/ BuildsRow \/ Bridges

-----------------------------------------------------------------------------
(* A tool whose parameters go by the last segments of their keys, each one *)
(* of its own, and which no other card of the row is confused with.        *)
Plain(tool) ==
    \A i, j \in DOMAIN tool.params :
        /\ tool.params[i].name = Short(tool.params[i].key)
        /\ Short(tool.params[i].key) = Short(tool.params[j].key) => i = j
Alone(tool) ==
    \A i, j \in DOMAIN built.tools :
        built.tools[i].name = tool.name /\ built.tools[j].name = tool.name => i = j

(* A text that looks like a keyword or a form may come back as one.        *)
Same(v, w) == w = v \/ v \in {"text :", "text ("}

(* A call that is marked fully translated bridges back to itself: its head *)
(* to a symbol it may mean, each argument to its keyword and value.  Not   *)
(* so, and this says where: a key the function does not declare, or shares *)
(* the last segment of, is left without its namespace; and arguments by    *)
(* position come back under the declared names.  The first form of a row   *)
(* is no prose; and further tools leave the row's own where they are, and  *)
(* fit the encoder.                                                        *)
FullCallsBridgeBack ==
    /\ rowPhase = "bridged" /\ built.status = "full" =>
        \A form \in built.first : \A call \in form.call : \A back \in bridged :
            LET tool     == ToolOf(call.head, built.tools)
                keys     == [i \in DOMAIN tool.params |-> tool.params[i].key]
                faithful == Alone(tool) /\ Plain(tool)
            IN  /\ Alone(tool) => HeadMatches(call.head, back.head)
                /\ (faithful /\ call.args.kind = "map" /\ DOMAIN call.args.map \subseteq ToSet(keys)) =>
                       /\ DOMAIN back.map = DOMAIN call.args.map
                       /\ \A k \in DOMAIN back.map : Same(call.args.map[k], back.map[k])
                /\ (faithful /\ call.args.kind # "map") =>
                       \A i \in DOMAIN call.args.list :
                           keys[i] \in DOMAIN back.map /\ Same(call.args.list[i], back.map[keys[i]])
                /\ "source" \notin (IF call.args.kind = "map" THEN Range(call.args.map)
                                                              ELSE ToSet(call.args.list))
    /\ \A form \in built.first : ~form.prose
    /\ \A form \in built.substantive : ~form.nsMove /\ ~form.prose
    /\ rowPhase = "bridged" =>
        /\ Len(slot) >= Len(built.tools) /\ \A i \in DOMAIN built.tools : slot[i] = built.tools[i]
        /\ Filled(slot) > SlotBudget => Len(slot) = Len(built.tools)
=============================================================================
