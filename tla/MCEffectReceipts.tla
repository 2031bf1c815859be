-------------------------- MODULE MCEffectReceipts --------------------------
(* Instances of EffectReceipts for TLC: two turns of one agent, a          *)
(* background effect e1 and a foreground effect e2.                        *)
EXTENDS EffectReceipts

CONSTANTS t1, t2, e1, e2, ann

OneTurn  == {t1}
TwoTurns == {t1, t2}
SameAgent == [t \in Turns |-> ann]

OneEffect  == {e1}
TwoEffects == {e1, e2}
BothOfFirst == [e \in Effects |-> t1]
OnePerTurn  == [e \in Effects |-> IF e = e1 THEN t1 ELSE t2]

None      == {}
AllFaults == {"staging", "refusal", "rejection"}
=============================================================================
