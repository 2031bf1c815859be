------------------------------ MODULE BfclReply ------------------------------
(***************************************************************************)
(* The calls a benchmark's scorer reads from a reply.                      *)
(*                                                                         *)
(* bfcl_adapter.py looks for the JSON values in the text of a reply and    *)
(* hands the calls of the last one that is call-shaped to the scorer.  A   *)
(* reply is written here piece by piece: prose, and JSON values whose      *)
(* calls are known.  A character is a bracket, a quote ("q"), a backslash  *)
(* ("b"), or any other; an object that names a function is a pair of       *)
(* braces around the function's letter.                                    *)
(***************************************************************************)
EXTENDS Integers, Sequences, FiniteSets

LOCAL INSTANCE SequencesExt

CONSTANTS
    Values,       \* the JSON texts: their characters -> the calls they state
    Prose,        \* prose that leaves neither a bracket nor a quote open
    Strays,       \* prose that leaves one open
    MaxPieces     \* pieces of a reply

ASSUME BfclConstants == MaxPieces \in Nat

VARIABLES
    reply,        \* the characters written so far
    stated,       \* the calls of the last call-shaped value, <<>> for none
    named,        \* the functions named by any value
    stray,        \* some piece left a bracket or a quote open
    pieces        \* how many pieces were written

bfclVars == <<reply, stated, named, stray, pieces>>

BfclInit == reply = <<>> /\ stated = <<>> /\ named = {} /\ stray = FALSE /\ pieces = 0

WritesValue ==
    /\ pieces < MaxPieces /\ pieces' = pieces + 1
    /\ \E value \in DOMAIN Values :
        /\ reply' = reply \o value
        /\ stated' = IF Values[value] = <<>> THEN stated ELSE Values[value]
        /\ named' = named \cup ToSet(Values[value])
    /\ UNCHANGED stray

WritesProse ==
    /\ pieces < MaxPieces /\ pieces' = pieces + 1
    /\ \E text \in Prose \cup Strays :
        /\ reply' = reply \o text
        /\ stray' = (stray \/ text \in Strays)
    /\ UNCHANGED <<stated, named>>

BfclNext == WritesValue \/ WritesProse

-----------------------------------------------------------------------------
Opening == {"[", "{"}
Closing == {"]", "}"}
Pair == [bracket \in Opening |-> IF bracket = "[" THEN "]" ELSE "}"]

(* Mutant of InString: brackets count wherever they are.                   *)
InNoString(scan) == FALSE

InString(scan) == scan.inString

(* One character: the scan so far is the open span, its depth and whether  *)
(* a string or an escape is open.                                          *)
ScanChar(scan, ch) ==
    LET open == [scan EXCEPT !.span = IF scan.depth > 0 THEN Append(@, ch) ELSE @] IN
    CASE InString(scan) /\ scan.escape -> [open EXCEPT !.escape = FALSE]
      [] InString(scan)                -> [open EXCEPT !.escape = (ch = "b"), !.inString = (ch # "q")]
      [] ch = "q"                      -> [open EXCEPT !.inString = TRUE]
      [] ch \in Opening /\ scan.depth = 0 -> [open EXCEPT !.span = <<ch>>, !.depth = 1]
      [] ch \in Opening                -> [open EXCEPT !.depth = @ + 1]
      [] ch \in Closing /\ scan.depth > 1 -> [open EXCEPT !.depth = @ - 1]
      [] ch \in Closing /\ scan.depth = 1 ->
            [open EXCEPT !.depth = 0, !.span = <<>>,
                         !.spans = IF ch = Pair[Head(scan.span)] THEN Append(@, open.span) ELSE @]
      [] OTHER                         -> open

JsonSpans(text) ==
    FoldLeft(ScanChar, [depth |-> 0, inString |-> FALSE, escape |-> FALSE, span |-> <<>>, spans |-> <<>>],
             text).spans

(* What a span is as JSON; nothing when it is no JSON text.                *)
AsCalls(span) == IF span \in DOMAIN Values THEN Values[span] ELSE <<>>

(* Mutant of ParseCalls: the first call-shaped value is taken.             *)
FirstCalls(text) ==
    FoldLeft(LAMBDA found, span : IF found = <<>> THEN AsCalls(span) ELSE found, <<>>, JsonSpans(text))

ParseCalls(text) ==
    FoldLeft(LAMBDA found, span : IF AsCalls(span) = <<>> THEN found ELSE AsCalls(span), <<>>,
             JsonSpans(text))

(* The calls become the tool calls of one message, in their order; without *)
(* any, the sample is marked as a parse miss.                              *)
BfclParse(text) ==
    [toolCalls  |-> [i \in DOMAIN ParseCalls(text) |-> [id |-> i, function |-> ParseCalls(text)[i]]],
     parseError |-> ParseCalls(text) = <<>>]

-----------------------------------------------------------------------------
(* The scorer sees the calls of the last call-shaped value of the reply,   *)
(* also when strings in it hold brackets and quotes; a reply is a parse    *)
(* miss only when it states no call or a bracket or quote is left open; and *)
(* no call is ever seen that the reply does not state.                     *)
BfclEarned ==
    LET message == BfclParse(reply)
        seen == [i \in DOMAIN message.toolCalls |-> message.toolCalls[i].function] IN
    /\ ~stray => seen = stated /\ (message.parseError <=> stated = <<>>)
    /\ ToSet(seen) \subseteq named
=============================================================================
