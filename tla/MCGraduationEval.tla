-------------------------- MODULE MCGraduationEval --------------------------
(* Instances of GraduationEval for TLC. *)
EXTENDS GraduationEval

AllScenarios ==
    [s \in Scenarios |-> IF s = "D" THEN <<2, 2>> ELSE <<1>>]
AllFaults   == FaultKinds
RestartFaults == {"command", "late"}
Salts       == {4200, 4203}

(* Two fixtures that are drawn, the second with two rows alike, and of the *)
(* sums of the first; and one that only an agent leaves, with its first    *)
(* row as it was and the others and both toolkits not.                     *)
Row(id, vendor, cents) == [id |-> id, vendor |-> vendor, cents |-> cents]
DrawnFixtures ==
    {[rows |-> <<Row(1, "Acorn", first), Row(2, "Acorn", 700 - first), Row(3, "Bluebird", 500)>>,
      toolkit |-> {"days"}, empty |-> {}] : first \in {300, 350}}
AllFixtures ==
    DrawnFixtures \cup
        {[rows |-> <<Row(1, "Acorn", 300), Row(2, "Bluebird", 600)>>,
          toolkit |-> {"days", "hours"}, empty |-> {"hours"}]}
=============================================================================
