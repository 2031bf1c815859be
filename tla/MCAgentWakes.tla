---------------------------- MODULE MCAgentWakes ----------------------------
(* Instances of AgentWakes for TLC: one attempt, a message that comes      *)
(* through its agent's inbox and one from outside.                         *)
EXTENDS AgentWakes

CONSTANTS a1, m1, m2

OneAgent    == {a1}
None        == {}
TwoMessages == {m1, m2}
Inner       == {m1}
Outer       == {m2}
ToTheAgent  == [m \in Messages |-> a1]
=============================================================================
