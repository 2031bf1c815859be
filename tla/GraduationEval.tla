-------------------------- MODULE GraduationEval --------------------------
(***************************************************************************)
(* The graduation evaluation: the offline gate, one live sample on a       *)
(* scratch cluster, and its score                                          *)
(* (tasks/mvp_graduation.py mvp_graduation, mvp_graduation.py              *)
(* mvp_graduation_scorer).                                                 *)
(***************************************************************************)
EXTENDS GraduationDrive, GraduationSnapshot

evalVars == <<vars, checkVars>>

Init == LeaseInit /\ DriveInit /\ CheckInit

(* mvp_graduation(live = True): no live sample before the gate has passed. *)
Gates == (RunsRail \/ Passes) /\ UNCHANGED vars

Live == gate = "passed" /\ Sample /\ UNCHANGED checkVars

(* The evidence of a sample that settled, compared with its plan and       *)
(* scored: the answer was made for its own rows, for another sample's, or  *)
(* for rows the agent wrote itself.                                        *)
Evidence(fixture, maker, tampered) ==
    LET d == IF tampered THEN Tampered(scenario, fixture, Len(db.runs), drive.ids)
             ELSE Answered(scenario, fixture, maker, Len(db.runs), drive.ids)
    IN  Snapshot(scenario, d, drive.ids, Checkpoint([d EXCEPT !.commit = 1]))

Scores ==
    /\ pc = "over" /\ verdict = "scored" /\ graded = NotGraded
    /\ \E fixture, maker \in Nonces, tampered \in BOOLEAN :
          LET s == Evidence(fixture, maker, tampered)
          IN  graded' = [fixture |-> fixture, maker |-> maker, tampered |-> tampered,
                         ok |-> Agrees(scenario, s, fixture) /\ Check(scenario, s).ok]
    /\ UNCHANGED <<vars, rail, gate>>

Finished ==
    /\ gate = "refused" \/ pc = "over"
    /\ UNCHANGED evalVars

Next == Gates \/ Live \/ Scores \/ Finished

Spec == Init /\ [][Next]_evalVars /\ WF_evalVars(gate = "passed" /\ WaitSteps /\ UNCHANGED checkVars)
             /\ WF_evalVars(gate = "passed" /\ ConnectionCloses /\ UNCHANGED checkVars)

-----------------------------------------------------------------------------
(* The offline gate admits the scorers as they are: every golden snapshot  *)
(* passes and every one-field mutation is caught under its own name.       *)
GateAdmits == gate # "refused"

(* The fixture carries the nonce of its sample, and is what was planned:   *)
(* where the answer depends on the fixture, one made for another sample,   *)
(* or for rows the agent wrote itself, never passes, and one made for the  *)
(* sample's own rows does.                                                 *)
OnlyOwnAnswerPasses ==
    graded # NotGraded =>
        (graded.ok <=>
            /\ scenario \in {"A", "B", "C", "D", "F"} /\ ~graded.tampered => graded.maker = graded.fixture
            /\ scenario \in {"A", "C", "D", "F"} => ~graded.tampered)
=============================================================================
