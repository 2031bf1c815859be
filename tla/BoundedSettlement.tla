-------------------------- MODULE BoundedSettlement --------------------------
(***************************************************************************)
(* What a bounded launcher promises its submitters, without saying how:    *)
(* at most Bound calls are outstanding, each call is answered at most      *)
(* once, a call is promised an answer only while it is outstanding, and    *)
(* after the launcher reported itself closed nothing promised is left      *)
(* unanswered and nothing more is promised.                                *)
(***************************************************************************)
EXTENDS Naturals, FiniteSets

CONSTANTS Calls, Bound

VARIABLES outstanding, promised, answered, closed

settlementVars == <<outstanding, promised, answered, closed>>

SettlementInit ==
    /\ outstanding = {} /\ promised = {} /\ answered = {}
    /\ closed = FALSE

Admit(c) ==
    /\ c \notin outstanding \cup answered
    /\ Cardinality(outstanding) < Bound
    /\ outstanding' = outstanding \cup {c}
    /\ UNCHANGED <<promised, answered, closed>>

Promise(c) ==
    /\ c \in outstanding /\ ~closed
    /\ promised' = promised \cup {c}
    /\ UNCHANGED <<outstanding, answered, closed>>

Answer(c) ==
    /\ c \in outstanding
    /\ outstanding' = outstanding \ {c}
    /\ answered' = answered \cup {c}
    /\ UNCHANGED <<promised, closed>>

Refuse(c) ==
    /\ c \notin outstanding \cup answered \cup promised
    /\ answered' = answered \cup {c}
    /\ UNCHANGED <<outstanding, promised, closed>>

Close ==
    /\ promised \subseteq answered
    /\ closed' = TRUE
    /\ UNCHANGED <<outstanding, promised, answered>>

SettlementNext ==
    \/ Close
    \/ \E c \in Calls : Admit(c) \/ Promise(c) \/ Answer(c) \/ Refuse(c)

Settlement == SettlementInit /\ [][SettlementNext]_settlementVars
=============================================================================
