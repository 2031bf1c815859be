-------------------------- MODULE MCAgentLifecycle --------------------------
(* Instances of AgentLifecycle for TLC. *)
EXTENDS AgentLifecycle

CONSTANTS a1, c1, c2, c3, g1, g2, g3

OneAgent     == {a1}
TwoCallers   == {c1, c2}
ThreeCallers == {c1, c2, c3}
TwoGraphs    == {g1, g2}
ThreeGraphs  == {g1, g2, g3}
NoFaults     == {}
AllFaults    == {"refusal", "unknown", "panic"}
=============================================================================
