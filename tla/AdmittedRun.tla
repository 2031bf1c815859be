----------------------------- MODULE AdmittedRun -----------------------------
(***************************************************************************)
(* Admitted evaluation runs                                                *)
(* (src/src-inspect-ai/src/seon_inspect/catalog.py, run_native_task and    *)
(* run_bench; source_admission.py, cluster.py, solver.py).                 *)
(*                                                                         *)
(* A run reads the identity of its sources, and a native run also that of  *)
(* its pod and of its model server, before it constructs a task; Inspect   *)
(* runs the samples and writes a log; the run reads the identities again,  *)
(* writes them to the log, compares them, and retains the log in its       *)
(* evidence directory.  Meanwhile the checkout, the pod and the server     *)
(* change under it, Inspect may be interrupted at any point, and other     *)
(* runs write their logs to the same directory.                            *)
(***************************************************************************)
EXTENDS Integers, Sequences, FiniteSets, SequencesExt

CONSTANT Sources   \* the external sources the lock selects

ASSUME SourcesAssumption == IsFiniteSet(Sources) /\ Sources # {}

-----------------------------------------------------------------------------
(* The checkout.  A revision is the one the lock names, or another one.    *)

LockedSource ==
    [gitlink |-> "locked", head |-> "locked", nestedLink |-> "locked", nestedHead |-> "locked",
     nestedDirty |-> FALSE, dirty |-> FALSE, installed |-> "checkout", version |-> "locked",
     namesRevision |-> TRUE]

(* _gitlink, _nested_source_identities: the parent's link and the nested   *)
(* checkout are each compared with the lock, and the nested tree is clean. *)
NestedFits(s) ==
    /\ s.nestedLink = "locked"
    /\ s.nestedHead = "locked"
    /\ ~s.nestedDirty

(* _source_identity. *)
SourceFits(s) ==
    /\ s.gitlink = "locked" /\ s.head = "locked"
    /\ NestedFits(s)
    /\ ~s.dirty
    /\ s.installed = "checkout"
    /\ s.version = "locked"
    /\ s.namesRevision

(* verify_sources refuses, or returns the identity of the run: what is not *)
(* pinned by the lock is recorded by its bytes.                            *)
Absent == 0

Admissible(m) ==
    /\ m.schema = 2
    /\ \A s \in Sources : SourceFits(m.sources[s])
    /\ m.provider = "locked"
    /\ m.artifact # Absent
    /\ ~m.seonDirty

AdmissionOf(m) == [artifact |-> m.artifact, seon |-> m.seonHead]

-----------------------------------------------------------------------------
(* The static target: the operator's status, kept byte for byte.           *)
TargetFits(t) == t.exit = 0 /\ t.ready /\ t.url = "selected"
TargetOf(t) == t.bytes

-----------------------------------------------------------------------------
(* The model server's identity.                                            *)

Mechanisms == {"huggingface-snapshot", "ollama-manifest", "externally-mutable"}

LocalKeys    == {"schema", "implementation", "endpoint", "process", "runtime", "artifact", "response"}
ExternalKeys == LocalKeys \ {"process", "runtime"}

LocalServer ==
    [keys |-> LocalKeys, schema |-> 1, mechanism |-> "huggingface-snapshot", implementation |-> "mlx",
     endpoint |-> "completions", credentials |-> FALSE, pid |-> 11, digests |-> TRUE, packages |-> 2,
     snapshot |-> TRUE, size |-> 1, model |-> "model-a", responseKeys |-> {"model", "fingerprint"},
     responseModel |-> "model-a", fingerprint |-> "print-a"]

External(id) == id.mechanism = "externally-mutable"

(* _closed_map: no key is missing and none is unknown. *)
Closed(id) == id.keys = IF External(id) THEN ExternalKeys ELSE LocalKeys

(* _request_endpoint. *)
EndpointFits(id) ==
    /\ id.endpoint \in {"completions", "http"}
    /\ ~id.credentials
    /\ ~External(id) => id.endpoint = "completions"

(* A server of one's own is named by its process, its runtime and its      *)
(* artifact; the request of a snapshot is the path that ends in its        *)
(* revision, and the response names the same.                              *)
LocalFits(id) ==
    /\ id.pid > 0
    /\ id.digests
    /\ id.packages > 0
    /\ id.size > 0

ResponseFits(id) ==
    /\ id.responseKeys \subseteq {"model", "fingerprint"}
    /\ id.mechanism = "huggingface-snapshot" =>
          /\ id.snapshot
          /\ id.responseKeys = {"model", "fingerprint"}
          /\ id.responseModel = id.model

(* validate_model_server_identity. *)
ServerFits(id) ==
    /\ id.mechanism \in Mechanisms
    /\ Closed(id)
    /\ id.schema = 1
    /\ id.implementation # ""
    /\ EndpointFits(id)
    /\ ~External(id) => LocalFits(id)
    /\ ResponseFits(id)

-----------------------------------------------------------------------------
(* The evidence of one pod run.                                            *)

Outcomes == {"success", "provider-error", "adapter-timeout", "outer-timeout"}

Attempt(turn, ordinal, outcome, server) ==
    [turn |-> turn, ordinal |-> ordinal, wellFormed |-> TRUE, addressed |-> TRUE, outcome |-> outcome,
     configuration |-> "configured", endpoint |-> "completions", requested |-> "model-a",
     response |-> server.responseModel, fingerprint |-> server.fingerprint]

(* Each turn the pod reports has its attempts: retries, and one answer at  *)
(* the end.                                                                *)
AttemptFits(attempt, turn, ordinal) ==
    /\ attempt.wellFormed
    /\ attempt.turn = turn
    /\ attempt.ordinal = ordinal
    /\ attempt.outcome \in Outcomes
    /\ attempt.addressed

AttemptsFit(turn) ==
    LET attempts == turn.attempts
        answers  == {i \in DOMAIN attempts : attempts[i].outcome = "success"}
    IN  /\ attempts # <<>>
        /\ \A i \in DOMAIN attempts : AttemptFits(attempts[i], turn.id, i - 1)
        /\ answers = {Len(attempts)}

AllAttempts(evidence) ==
    UNION {{turn.attempts[i] : i \in DOMAIN turn.attempts} :
             turn \in {evidence.turns[n] : n \in DOMAIN evidence.turns}}

(* _require_model_transport_evidence: the evidence is in line with the     *)
(* turns the pod reports, in their order, without a turn twice, and under  *)
(* one configuration.                                                      *)
TransportFits(evidence) ==
    /\ evidence.inline /\ ~evidence.drift
    /\ evidence.reported # <<>>
    /\ [n \in DOMAIN evidence.turns |-> evidence.turns[n].id] = evidence.reported
    /\ \A i, j \in DOMAIN evidence.reported : evidence.reported[i] = evidence.reported[j] => i = j
    /\ \A n \in DOMAIN evidence.turns : AttemptsFit(evidence.turns[n])
    /\ Cardinality({attempt.configuration : attempt \in AllAttempts(evidence)}) = 1

(* _require_model_server_identity: every attempt went to the admitted      *)
(* server, and what it answered names the admitted artifact.               *)
AnsweredBy(evidence, id) ==
    /\ ServerFits(id)
    /\ id.mechanism = "huggingface-snapshot"
    /\ \A attempt \in AllAttempts(evidence) :
          /\ attempt.endpoint = id.endpoint
          /\ attempt.requested = id.model
          /\ attempt.outcome = "success" =>
                attempt.response = id.responseModel /\ attempt.fingerprint = id.fingerprint

(* Mutant of Scorable: the evidence is not joined with the admitted server. *)
ScorableByAnyServer(result, admitted, id) ==
    /\ ~result.timedOut
    /\ result.closed \notin {"error", "quiesced"}
    /\ admitted => TransportFits(result.evidence)

(* require_scorable_pod_state: an end of the infrastructure is no answer.  *)
(* The identity of the server is joined where the run carries one: the     *)
(* runs of Seon's own tasks do, those of the public benchmarks do not.     *)
Scorable(result, admitted, id) ==
    /\ ~result.timedOut
    /\ result.closed \notin {"error", "quiesced"}
    /\ admitted => /\ TransportFits(result.evidence)
                   /\ id.keys # {} => AnsweredBy(result.evidence, id)

(* A run that carries no server identity. *)
NoServer == [LocalServer EXCEPT !.keys = {}]

-----------------------------------------------------------------------------
(* The runs.                                                               *)

CONSTANTS
    Runs,         \* the runs that share a log directory
    KindOf,       \* for each run, "native" or "bench"
    Chains,       \* the solver chains a benchmark's task may have
    Machines,     \* the states of the machine the world may move to
    Evidences,    \* how the evidence of a pod run may come out
    MaxChanges    \* bound on the changes of the machine

ASSUME KindsAssumption == \A r \in Runs : KindOf[r] \in {"native", "bench"}
ASSUME ChainsAssumption == Chains \subseteq Seq({"generate", "template", "choice"})
ASSUME AsksOnceAssumption ==   \* a task asks its model by one step, or leaves it to the fallback
    \A chain \in Chains : \A i, j \in DOMAIN chain :
        chain[i] # "template" /\ chain[j] # "template" => i = j
ASSUME ChangesAssumption == MaxChanges \in Nat

VARIABLES
    machine,   \* the checkout, the pod's status and the model server, now
    changes,   \* how often the machine changed
    logs,      \* the log directory, in the order of its file names
    run,       \* where each run stands and what it holds
    evidence   \* the logs each run has retained

runVars == <<machine, changes, logs, run, evidence>>

Nothing == [artifact |-> Absent, seon |-> 0]
NoIdentity == [admission |-> Nothing, target |-> 0, server |-> NoServer]

NoSample == [drives |-> 0, state |-> "new", servers |-> {}]

RunInit ==
    /\ machine \in {m \in Machines : Admissible(m) /\ TargetFits(m.target) /\ ServerFits(m.server)}
    /\ changes = 0
    /\ logs = <<>>
    /\ run = [r \in Runs |->
                [pc |-> "admits", start |-> NoIdentity, end |-> NoIdentity, seen |-> 0, before |-> {},
                 log |-> 0, chain |-> <<>>, sample |-> NoSample, returned |-> {}, strict |-> TRUE,
                 verdict |-> "none"]]
    /\ evidence = [r \in Runs |-> {}]

Moves(r, fields) ==
    run' = [run EXCEPT ![r] = [k \in DOMAIN @ |-> IF k \in DOMAIN fields THEN fields[k] ELSE @[k]]]
At(r, place) == run[r].pc = place
Native(r) == KindOf[r] = "native"

(* An error before Inspect ran: nothing was constructed, nothing published. *)
Refuses(r) == Moves(r, [pc |-> "over", verdict |-> "refused"])

-----------------------------------------------------------------------------
(* Before the run.                                                         *)

VerifiesSources(r) ==
    /\ At(r, "admits")
    /\ IF Admissible(machine)
       THEN Moves(r, [start |-> [NoIdentity EXCEPT !.admission = AdmissionOf(machine)],
                      pc |-> IF Native(r) THEN "targets" ELSE "lists"])
       ELSE Refuses(r)
    /\ UNCHANGED <<machine, changes, logs, evidence>>

SnapshotsTarget(r) ==
    /\ At(r, "targets")
    /\ IF TargetFits(machine.target)
       THEN Moves(r, [start |-> [run[r].start EXCEPT !.target = TargetOf(machine.target)],
                      pc |-> "servers"])
       ELSE Refuses(r)
    /\ UNCHANGED <<machine, changes, logs, evidence>>

(* mlx_model_server_snapshot: the process of the server is read, the files *)
(* of its artifact are hashed one by one, and the process is read again.   *)
ReadsServer(r) ==
    /\ run[r].pc \in {"servers", "reservers"}
    /\ Moves(r, [seen |-> machine.server.pid, pc |-> IF At(r, "servers") THEN "hashes" ELSE "rehashes"])
    /\ UNCHANGED <<machine, changes, logs, evidence>>

SnapshotFits(r) == run[r].seen = machine.server.pid /\ ServerFits(machine.server)

SnapshotsServer(r) ==
    /\ At(r, "hashes")
    /\ IF SnapshotFits(r)
       THEN Moves(r, [start |-> [run[r].start EXCEPT !.server = machine.server],
                      seen |-> 0, pc |-> "lists"])
       ELSE Refuses(r)
    /\ UNCHANGED <<machine, changes, logs, evidence>>

(* swap_generate: each step `generate` of the task's chain is the pod; any *)
(* other step is kept, its own call of generate goes to the pod; when the  *)
(* chain had no `generate` the pod is a fallback at its end.               *)
Backed(step) == IF step = "generate" THEN "pod" ELSE step
SwapGenerate(chain) ==
    [i \in DOMAIN chain |-> Backed(chain[i])]
        \o (IF \E i \in DOMAIN chain : chain[i] = "generate" THEN <<>> ELSE <<"fallback">>)

(* Mutant of TaskChain: the pod is appended without its guard. *)
TaskChainUnguarded(r, chain) ==
    IF Native(r) THEN <<"pod">>
    ELSE [i \in DOMAIN SwapGenerate(chain) |->
            IF SwapGenerate(chain)[i] = "fallback" THEN "pod" ELSE SwapGenerate(chain)[i]]

(* A native task owns its solver. *)
TaskChain(r, chain) == IF Native(r) THEN <<"pod">> ELSE SwapGenerate(chain)

(* The task is constructed, and the logs that are there are listed. *)
ListsLogs(r) ==
    /\ At(r, "lists")
    /\ \E chain \in Chains :
          Moves(r, [before |-> DOMAIN logs, chain |-> TaskChain(r, chain), pc |-> "evaluates"])
    /\ UNCHANGED <<machine, changes, logs, evidence>>

-----------------------------------------------------------------------------
(* Inspect: it creates the log with the metadata of the run, runs the      *)
(* sample's chain, and closes the log.                                     *)

CreatesLog(r) ==
    /\ At(r, "evaluates")
    /\ logs' = Append(logs, [owner |-> r, status |-> "started", start |-> run[r].start,
                             end |-> NoIdentity])
    /\ Moves(r, [log |-> Len(logs) + 1, pc |-> "solves"])
    /\ UNCHANGED <<machine, changes, evidence>>

(* One step of the chain.  A template leaves the pod alone, a choice and   *)
(* the pod drive it; the fallback drives it when nothing has yet.          *)
Drives(r, step) ==
    \/ step \in {"pod", "choice"}
    \/ step = "fallback" /\ run[r].sample.drives = 0

(* The servers that answer during one pod run: the one that is there, and  *)
(* the one it is replaced with.                                            *)
Answerers(ev) == {attempt.response : attempt \in {a \in AllAttempts(ev) : a.outcome = "success"}}

Result(closed, ev) == [timedOut |-> closed = "timeout", closed |-> closed, evidence |-> ev]

SolvesStep(r) ==
    /\ At(r, "solves") /\ run[r].chain # <<>> /\ run[r].sample.state = "new"
    /\ LET step == Head(run[r].chain)
           sample == run[r].sample
       IN  IF ~Drives(r, step)
           THEN Moves(r, [chain |-> Tail(run[r].chain)])
           ELSE \E closed \in {"completed", "timeout", "error"}, ev \in Evidences[machine.server] :
                   LET fits == Scorable(Result(closed, ev), Native(r), run[r].start.server)
                   IN  Moves(r, [chain |-> Tail(run[r].chain),
                                 sample |-> [drives |-> sample.drives + 1,
                                             state |-> IF fits THEN "new" ELSE "error",
                                             servers |-> sample.servers \cup Answerers(ev)]])
    /\ UNCHANGED <<machine, changes, logs, evidence>>

(* The sample is scored, or it is an error, which fails the log.  Inspect  *)
(* returns the log; the run goes on to its end, a benchmark's right to the *)
(* finalization.                                                           *)
ClosesLog(r) ==
    /\ At(r, "solves")
    /\ run[r].chain = <<>> \/ run[r].sample.state = "error"
    /\ LET ok == run[r].sample.state = "new"
       IN  /\ logs' = [logs EXCEPT ![run[r].log].status = IF ok THEN "success" ELSE "error"]
           /\ Moves(r, [returned |-> {run[r].log}, strict |-> TRUE,
                        pc |-> IF Native(r) THEN "readmits" ELSE "finalizes"])
    /\ UNCHANGED <<machine, changes, evidence>>

(* inspect_eval raises, before or after it created its log: what the       *)
(* directory holds and did not hold before is finalized.                   *)
New(r) == DOMAIN logs \ run[r].before

(* Mutant of IsInterrupted: what was published is not looked for. *)
IsInterruptedUnretained(r) ==
    /\ run[r].pc \in {"evaluates", "solves"}
    /\ Moves(r, [returned |-> {}, strict |-> FALSE, verdict |-> "interrupted", pc |-> "over"])
    /\ UNCHANGED <<machine, changes, logs, evidence>>

IsInterrupted(r) ==
    /\ run[r].pc \in {"evaluates", "solves"}
    /\ Moves(r, [returned |-> New(r), strict |-> FALSE, verdict |-> "interrupted",
                 pc |-> IF New(r) = {} THEN "over" ELSE "finalizes"])
    /\ UNCHANGED <<machine, changes, logs, evidence>>

-----------------------------------------------------------------------------
(* verify_run_end.                                                         *)

(* An identity that can no longer be read rejects the run, once its log is *)
(* retained as it is.                                                      *)
Rejects(r) == Moves(r, [strict |-> FALSE, verdict |-> "rejected", pc |-> "finalizes"])

ReverifiesSources(r) ==
    /\ At(r, "readmits")
    /\ IF Admissible(machine)
       THEN Moves(r, [end |-> [NoIdentity EXCEPT !.admission = AdmissionOf(machine)],
                      pc |-> "retargets"])
       ELSE Rejects(r)
    /\ UNCHANGED <<machine, changes, logs, evidence>>

ResnapshotsTarget(r) ==
    /\ At(r, "retargets")
    /\ IF TargetFits(machine.target)
       THEN Moves(r, [end |-> [run[r].end EXCEPT !.target = TargetOf(machine.target)],
                      pc |-> "reservers"])
       ELSE Rejects(r)
    /\ UNCHANGED <<machine, changes, logs, evidence>>

ResnapshotsServer(r) ==
    /\ At(r, "rehashes")
    /\ IF SnapshotFits(r)
       THEN Moves(r, [end |-> [run[r].end EXCEPT !.server = machine.server],
                      seen |-> 0, pc |-> "edits"])
       ELSE Rejects(r)
    /\ UNCHANGED <<machine, changes, logs, evidence>>

(* The identities at the end are written to the log before they are        *)
(* compared with those at the start.                                       *)
EditsLog(r) ==
    /\ At(r, "edits")
    /\ logs' = [logs EXCEPT ![run[r].log].end = run[r].end]
    /\ IF run[r].end = run[r].start
       THEN Moves(r, [pc |-> "finalizes"])
       ELSE Rejects(r)
    /\ UNCHANGED <<machine, changes, evidence>>

-----------------------------------------------------------------------------
(* finalize_native_logs, log by log in the order of their names: a log is  *)
(* copied, read back, and compared with the run; the first that does not   *)
(* fit ends it.                                                            *)

Fits(r, log) ==
    /\ run[r].strict => log.status = "success"
    /\ log.start.admission = run[r].start.admission
    /\ Native(r) =>
          /\ log.start = run[r].start
          /\ run[r].end.server # NoServer => log.end = run[r].end

Unfit(r) == {i \in run[r].returned : ~Fits(r, logs[i])}

Copied(r) ==
    IF Unfit(r) = {} THEN run[r].returned
    ELSE {i \in run[r].returned : \A j \in Unfit(r) : i <= j}

Finalizes(r) ==
    /\ At(r, "finalizes")
    /\ evidence' = [evidence EXCEPT ![r] = @ \cup Copied(r)]
    /\ Moves(r, [pc |-> "over",
                 verdict |-> IF run[r].verdict # "none" THEN run[r].verdict
                             ELSE IF Unfit(r) = {} THEN "accepted" ELSE "rejected"])
    /\ UNCHANGED <<machine, changes, logs>>

-----------------------------------------------------------------------------
MachineMoves ==
    /\ changes < MaxChanges
    /\ \E r \in Runs : ~At(r, "over")
    /\ machine' \in Machines \ {machine}
    /\ changes' = changes + 1
    /\ UNCHANGED <<logs, run, evidence>>

RunSteps(r) ==
    \/ VerifiesSources(r) \/ SnapshotsTarget(r) \/ ReadsServer(r) \/ SnapshotsServer(r)
    \/ ListsLogs(r)
    \/ CreatesLog(r) \/ SolvesStep(r) \/ ClosesLog(r) \/ IsInterrupted(r)
    \/ ReverifiesSources(r) \/ ResnapshotsTarget(r) \/ ResnapshotsServer(r) \/ EditsLog(r)
    \/ Finalizes(r)

RunNext == MachineMoves \/ \E r \in Runs : RunSteps(r)

RunSpec == RunInit /\ [][RunNext]_runVars

-----------------------------------------------------------------------------
(* The sample of an accepted run is one answer: the pod was driven once,   *)
(* a task's own call of generate not driven again by the fallback; and in  *)
(* a native run the server the run was admitted on answered, whatever the  *)
(* machine did meanwhile: a server replaced during the run, or replaced    *)
(* and put back, is found out by the sample's evidence or at the end.      *)
AcceptedIsOneAdmittedAnswer ==
    \A r \in Runs : run[r].verdict = "accepted" =>
        /\ run[r].sample.drives = 1
        /\ \A i \in evidence[r] : logs[i].owner = r
        /\ Native(r) =>
              /\ run[r].start = run[r].end
              /\ run[r].sample.servers = {run[r].start.server.responseModel}

(* "must not erase the bytes that prove why it was rejected": the log of a *)
(* run that was rejected or interrupted is in its evidence, unless another *)
(* run created one between its listing and its own log.                    *)
RejectedRunKeepsItsLog ==
    \A r \in Runs : run[r].pc = "over" /\ run[r].log # 0 =>
        \/ run[r].log \in evidence[r]
        \/ /\ run[r].verdict = "interrupted"
           /\ \E i \in New(r) : i < run[r].log
=============================================================================
