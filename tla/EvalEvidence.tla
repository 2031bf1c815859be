----------------------------- MODULE EvalEvidence -----------------------------
(***************************************************************************)
(* The eval rows of an episode, as a response renders them: [ok, source,   *)
(* turn, at], where source is the set of the patterns of the oracle that   *)
(* the form matches, turn the turn that evaluated it (0 for a turn of      *)
(* another request) and at the transaction that committed it.  That a form *)
(* also does what it matches, the modules of the episodes assume: none of  *)
(* them has forms that merely quote a call or hold it in a comment.        *)
(***************************************************************************)
EXTENDS Integers, Sequences, SequencesExt

(* Mutant of OkIndices: a row that failed counts too.                      *)
OkIndicesAny(rows, mark) == {i \in DOMAIN rows : mark \in rows[i].source}

OkIndices(rows, mark) == {i \in DOMAIN rows : rows[i].ok /\ mark \in rows[i].source}

(* Mutant of OrderedProofRows: the rows are taken in the order they come.  *)
OrderedProofRowsAnyOrder(rows, basis) ==
    \A i \in DOMAIN rows : rows[i].turn # 0 /\ rows[i].at <= basis

(* The evidence of one request, in the order its rows were committed, and  *)
(* no newer than the database value it is judged by.                       *)
OrderedProofRows(rows, basis) ==
    /\ \A i \in DOMAIN rows : rows[i].turn # 0 /\ rows[i].at <= basis
    /\ \A i, j \in DOMAIN rows : i < j => rows[i].at < rows[j].at

(* How a response may render the rows: as they were committed, two of them *)
(* exchanged, or one of another request among them.                        *)
Responses(rows, foreign) ==
    {rows}
        \cup {[rows EXCEPT ![i] = rows[i + 1], ![i + 1] = rows[i]] : i \in 1..(Len(rows) - 1)}
        \cup {InsertAt(rows, i, [ok |-> TRUE, source |-> foreign, turn |-> 0, at |-> i]) :
                i \in 1..Len(rows)}
=============================================================================
