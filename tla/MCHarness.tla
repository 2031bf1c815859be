------------------------------ MODULE MCHarness ------------------------------
(***************************************************************************)
(* The parts of the harness, and the schedule proc of an agent, on small   *)
(* instances.  They share no variable, so what holds of each alone holds   *)
(* of them together: a behaviour is one part's, and the other parts rest   *)
(* in one initial state.                                                   *)
(***************************************************************************)
EXTENDS AdmittedRun, EvalHost, DatasetLock, ScheduleFires

-----------------------------------------------------------------------------
(* Two runs over one log directory: one of Seon's own tasks, one benchmark. *)

MCRuns == {"native", "bench"}
MCKinds == [r \in MCRuns |-> r]
MCChains == {<<"template", "generate">>, <<"template", "choice">>}

ServerB == [LocalServer EXCEPT !.pid = 12, !.model = "model-b", !.responseModel = "model-b",
                               !.fingerprint = "print-b"]

Good == [schema |-> 2, sources |-> [s \in Sources |-> LockedSource], provider |-> "locked",
         artifact |-> 1, seonDirty |-> FALSE, seonHead |-> 1,
         target |-> [exit |-> 0, ready |-> TRUE, url |-> "selected", bytes |-> 1],
         server |-> LocalServer]

MCMachines ==
    {Good,
     [Good EXCEPT !.server = ServerB],
     [Good EXCEPT !.target.ready = FALSE],
     [Good EXCEPT !.sources = [s \in Sources |-> [LockedSource EXCEPT !.nestedDirty = TRUE]]]}

Turn(server) == [id |-> 1, attempts |-> <<Attempt(1, 0, "provider-error", server),
                                          Attempt(1, 1, "success", server)>>]
Answered(server) == [inline |-> TRUE, drift |-> FALSE, reported |-> <<1>>, turns |-> <<Turn(server)>>]

(* The turn is answered by the server that is there, or by one it was      *)
(* replaced with; or its evidence is missing, or ends in no answer.        *)
MCEvidences ==
    [server \in {m.server : m \in MCMachines} |->
        {Answered(server), Answered(ServerB),
         [Answered(server) EXCEPT !.inline = FALSE],
         [Answered(server) EXCEPT !.turns[1].attempts = SubSeq(@, 1, 1)]}]

-----------------------------------------------------------------------------
(* One source: upstream adds a sample and takes one back, or serves an id  *)
(* twice; the source is stratified or excludes an id.                      *)
Row(id, stratum) == [id |-> id, content |-> "text", stratum |-> stratum]
FirstCorpus == {Row(1, 1), Row(2, 2), Row(3, 1), Row(4, 2)}
FirstSpec == [dev |-> 1, milestone |-> 1, stratify |-> TRUE, excluded |-> {}]
MCCorpora ==
    {FirstCorpus,
     {Row(1, 1), Row(2, 1), Row(4, 2), Row(5, 2)},
     FirstCorpus \cup {[Row(4, 2) EXCEPT !.content = "other"]}}
MCSpecs == {FirstSpec, [FirstSpec EXCEPT !.stratify = FALSE, !.excluded = {3}]}
MCShuffle == [seed \in {Seed} |-> [n \in 0..5 |-> [i \in 1..n |-> (i % n) + 1]]]

-----------------------------------------------------------------------------
(* A seeded task and one that is declared while the proc runs.             *)

MCNominal == [e \in {"hourly", "daily"} |-> IF e = "hourly" THEN {1, 2} ELSE {2}]
MCPortfolio == [t \in {1} |-> [expression |-> "hourly", function |-> "footprint"]]

-----------------------------------------------------------------------------
VARIABLE part   \* the part whose behaviour this is

HarnessInit ==
    /\ part \in {"run", "host", "lock", "schedule"}
    /\ RunInit /\ HostInit /\ LockInit /\ ScheduleInit
    /\ part # "run" => machine = Good
    /\ part # "lock" => corpus = FirstCorpus /\ spec = FirstSpec /\ generator = 1

RunPart  == part = "run" /\ RunNext /\ UNCHANGED <<part, hostVars, lockVars, scheduleVars>>
HostPart == part = "host" /\ HostNext /\ UNCHANGED <<part, runVars, lockVars, scheduleVars>>
LockPart == part = "lock" /\ LockNext /\ UNCHANGED <<part, runVars, hostVars, scheduleVars>>
SchedulePart ==
    part = "schedule" /\ ScheduleNext /\ UNCHANGED <<part, runVars, hostVars, lockVars>>

HarnessNext == RunPart \/ HostPart \/ LockPart \/ SchedulePart
=============================================================================
