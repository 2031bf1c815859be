---------------------------- MODULE Measurement ----------------------------
(***************************************************************************)
(* What is measured without a running system: the graders of the harness,  *)
(* the tools that ask a model about rows and that train one, and the rows  *)
(* they are given.  The parts of a section stand side by side: they share  *)
(* no file and no variable, so each goes on while the others rest, are     *)
(* killed or are started again.                                            *)
(***************************************************************************)
EXTENDS MilestoneOracle, PlanContinuity, PlanExperiment, Reachability, ProductScenarios,
    ResumableRuns, ExtensionTraining, NextFormRows, TrainingRows

-----------------------------------------------------------------------------
(* The graders: each judges its own samples.                               *)

GradersInit == MilestoneInit /\ PlanInit /\ ExperimentInit /\ ReachInit /\ ProductInit

graderVars == <<milestoneVars, planVars, experimentVars, reachVars, productVars>>

GradersNext ==
    \/ MilestoneNext /\ UNCHANGED <<planVars, experimentVars, reachVars, productVars>>
    \/ PlanNext /\ UNCHANGED <<milestoneVars, experimentVars, reachVars, productVars>>
    \/ ExperimentNext /\ UNCHANGED <<milestoneVars, planVars, reachVars, productVars>>
    \/ ReachNext /\ UNCHANGED <<milestoneVars, planVars, experimentVars, productVars>>
    \/ ProductNext /\ UNCHANGED <<milestoneVars, planVars, experimentVars, reachVars>>

GradersSpec == GradersInit /\ [][GradersNext]_graderVars

(* Every grader credits an episode only for what happened in it, however   *)
(* its evidence is ordered, cut or mixed with another's; that a form does  *)
(* what its source matches is assumed, but in plan continuity, whose       *)
(* exceptions ContinuityEarned names.                                      *)
PassIsEarned ==
    MilestoneEarned /\ ContinuityEarned /\ ExperimentEarned /\ ReachabilityEarned /\ ProductEarned

-----------------------------------------------------------------------------
(* The offline tools: one asks a model about rows, one is a training run.  *)

OfflineInit == RunInit /\ TrainInit

OfflineNext ==
    \/ RunNext /\ UNCHANGED trainVars
    \/ TrainNext /\ UNCHANGED runVars

offlineVars == <<runVars, trainVars>>

OfflineSpec == OfflineInit /\ [][OfflineNext]_offlineVars

(* What the offline tools are cut short in, they take up again without a   *)
(* row lost or doubled and without a batch lost; a batch is doubled only   *)
(* where a kill falls between the weights and their step.                  *)
OfflineRunsAreWhole == PredictionsAreWhole /\ TrainingIsWhole

-----------------------------------------------------------------------------
(* The data of the suggestion models: the rows they are measured on, made  *)
(* of recorded turns, and those they are trained on, made of the index and *)
(* of public data.                                                         *)

OfflineDataInit == RowInit /\ DataInit

OfflineDataNext ==
    \/ RowNext /\ UNCHANGED dataVars
    \/ DataNext /\ UNCHANGED rowVars

offlineDataVars == <<rowVars, dataVars>>

OfflineDataSpec == OfflineDataInit /\ [][OfflineDataNext]_offlineDataVars

(* What is marked a full translation turns back into what it was made      *)
(* from; and of the rows a model learns from, those made for the index's   *)
(* functions ask nothing the evaluation asks and say what passed the gate. *)
(* Published rows are compared with nothing (data_extend.py:452-465).      *)
OfflineDataIsFaithful == FullCallsBridgeBack /\ TrainingRowsAreClean
=============================================================================
