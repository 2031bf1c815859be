------------------------- MODULE AdmittedRunProofs -------------------------
(***************************************************************************)
(* What TLAPS proves of AdmittedRun, for any runs, solver chains, states   *)
(* of the machine and evidence: an accepted run is one answer of the       *)
(* server it was admitted on, and a rejected run keeps its log.            *)
(*                                                                         *)
(* The invariant follows a run through its places.  Its log is the one it  *)
(* created, behind the logs it had listed; what it will finalize holds     *)
(* that log; and as long as its sample is no error, what is left of its    *)
(* chain and what was asked add up to one question.                        *)
(***************************************************************************)
EXTENDS AdmittedRun, TLAPS

Entering  == {"admits", "targets", "servers", "hashes", "lists"}
Verifying == {"readmits", "retargets", "reservers", "rehashes", "edits"}
Places    == Entering \cup Verifying \cup {"evaluates", "solves", "finalizes", "over"}
Asking    == {"pod", "choice"}

Identities == [admission : {AdmissionOf(m) : m \in Machines} \cup {Nothing},
               target : {TargetOf(m.target) : m \in Machines} \cup {0},
               server : {m.server : m \in Machines} \cup {NoServer}]

Responses == UNION {UNION {Answerers(ev) : ev \in Evidences[m.server]} : m \in Machines}

SampleRecords == [drives : Nat, state : {"new", "error"}, servers : SUBSET Responses]

LogRecords == [owner : Runs, status : {"started", "success", "error"},
               start : Identities, end : Identities]

RunRecords == [pc : Places, start : Identities, end : Identities,
               seen : {m.server.pid : m \in Machines} \cup {0},
               before : SUBSET Nat, log : Nat, chain : Seq(Asking \cup {"template", "fallback"}),
               sample : SampleRecords, returned : SUBSET Nat, strict : BOOLEAN,
               verdict : {"none", "refused", "interrupted", "rejected", "accepted"}]

RunTypes ==
    /\ machine \in Machines
    /\ logs \in Seq(LogRecords)
    /\ run \in [Runs -> RunRecords]
    /\ evidence \in [Runs -> SUBSET Nat]

\* A run's log is its own, and none of those it had listed.
LogIsOwn(r) ==
    /\ run[r].pc \in Entering \cup {"evaluates"} => run[r].log = 0
    /\ run[r].pc \in Verifying \cup {"solves"} => run[r].log # 0
    /\ run[r].log # 0 =>
          /\ run[r].log \in DOMAIN logs
          /\ logs[run[r].log].owner = r
          /\ run[r].log \notin run[r].before
    /\ run[r].before \subseteq DOMAIN logs

\* A run that goes on has neither a verdict nor evidence; one that finalizes
\* is not accepted yet.
Undecided(r) ==
    /\ run[r].pc \notin {"finalizes", "over"} => run[r].verdict = "none"
    /\ run[r].pc = "finalizes" => run[r].verdict \in {"none", "rejected", "interrupted"}
    /\ run[r].pc # "over" => evidence[r] = {}

\* What it finalizes: its one log, or what is there since its listing.
ReturnsItsLog(r) ==
    /\ \/ run[r].pc \in Verifying
       \/ run[r].pc = "finalizes" /\ run[r].verdict \in {"none", "rejected"}
       => run[r].returned = {run[r].log} /\ run[r].log # 0
    /\ run[r].pc \in Verifying \/ (run[r].pc = "finalizes" /\ run[r].verdict = "none")
       => run[r].strict
    /\ run[r].pc = "finalizes" /\ run[r].verdict = "interrupted" =>
          /\ run[r].returned \subseteq New(r)
          /\ run[r].log # 0 => run[r].log \in run[r].returned

\* A native run that reached its listing names a server; one that reached its
\* finalization undisputed ended as it started.
AdmittedOn(r) ==
    Native(r) =>
        /\ run[r].pc \in {"lists", "evaluates", "solves"} => run[r].start.server.keys # {}
        /\ run[r].pc = "finalizes" /\ run[r].verdict = "none" => run[r].start = run[r].end

\* A chain still to be asked by, once.
ToAsk(chain) ==
    /\ \A i, j \in DOMAIN chain : chain[i] \in Asking /\ chain[j] \in Asking => i = j
    /\ \A i \in DOMAIN chain : chain[i] = "fallback" => i = Len(chain)
    /\ \E i \in DOMAIN chain : chain[i] \in Asking \cup {"fallback"}

Asked(chain) == \A i \in DOMAIN chain : chain[i] \notin Asking

OneAnswer(r) ==
    /\ run[r].sample.drives = 1
    /\ Native(r) => run[r].sample.servers = {run[r].start.server.responseModel}

Unanswered(r) == run[r].sample.drives = 0 /\ run[r].sample.servers = {}

AsksOnce(r) ==
    /\ run[r].pc \in Entering \cup {"evaluates"} => run[r].sample = NoSample
    /\ run[r].pc = "evaluates" => ToAsk(run[r].chain)
    /\ run[r].pc = "solves" /\ run[r].sample.state = "new" =>
          \/ Unanswered(r) /\ ToAsk(run[r].chain)
          \/ OneAnswer(r) /\ Asked(run[r].chain)
    /\ \/ run[r].pc \in Verifying
       \/ run[r].pc = "finalizes" /\ run[r].verdict = "none"
       => (logs[run[r].log].status = "success" => OneAnswer(r))

\* What the properties say of a run that is over.
EndsWell(r) ==
    run[r].pc = "over" =>
        /\ run[r].verdict = "accepted" =>
              /\ OneAnswer(r)
              /\ \A i \in evidence[r] : i \in DOMAIN logs /\ logs[i].owner = r
              /\ Native(r) => run[r].start = run[r].end
        /\ run[r].log # 0 =>
              \/ run[r].log \in evidence[r]
              \/ run[r].verdict = "interrupted" /\ \E i \in New(r) : i < run[r].log

RunFits(r) ==
    LogIsOwn(r) /\ Undecided(r) /\ ReturnsItsLog(r) /\ AdmittedOn(r) /\ AsksOnce(r) /\ EndsWell(r)

RunInv == RunTypes /\ \A r \in Runs : RunFits(r)
-----------------------------------------------------------------------------
(* A move of a run.                                                        *)

Keys == {"pc", "start", "end", "seen", "before", "log", "chain", "sample", "returned", "strict", "verdict"}

\* A record of a run is what its fields are.
LEMMA RecordFits ==
    ASSUME NEW f, f = [k \in Keys |-> f[k]],
           f.pc \in Places, f.start \in Identities, f.end \in Identities,
           f.seen \in {m.server.pid : m \in Machines} \cup {0},
           f.before \in SUBSET Nat, f.log \in Nat, f.chain \in Seq(Asking \cup {"template", "fallback"}),
           f.sample \in SampleRecords, f.returned \in SUBSET Nat, f.strict \in BOOLEAN,
           f.verdict \in {"none", "refused", "interrupted", "rejected", "accepted"}
    PROVE  f \in RunRecords
BY DEF RunRecords, Keys

LEMMA RecordIs ==
    ASSUME NEW f \in RunRecords
    PROVE  /\ DOMAIN f = Keys
           /\ f.pc \in Places /\ f.start \in Identities /\ f.end \in Identities
           /\ f.seen \in {m.server.pid : m \in Machines} \cup {0}
           /\ f.before \in SUBSET Nat /\ f.log \in Nat
           /\ f.chain \in Seq(Asking \cup {"template", "fallback"})
           /\ f.sample \in SampleRecords /\ f.returned \in SUBSET Nat /\ f.strict \in BOOLEAN
           /\ f.verdict \in {"none", "refused", "interrupted", "rejected", "accepted"}
BY DEF RunRecords, Keys

\* A move writes the fields it names, of its own run.
LEMMA Moved ==
    ASSUME run \in [Runs -> RunRecords], NEW r \in Runs, NEW fields, Moves(r, fields)
    PROVE  /\ \A q \in Runs \ {r} : run'[q] = run[q]
           /\ run'[r] = [k \in Keys |-> run'[r][k]]
           /\ \A k \in Keys : run'[r][k] = IF k \in DOMAIN fields THEN fields[k] ELSE run[r][k]
           /\ run'[r] \in RunRecords => run' \in [Runs -> RunRecords]
<1>1. DOMAIN run[r] = Keys
  BY RecordIs
<1>2. run' = [run EXCEPT ![r] = [k \in Keys |-> IF k \in DOMAIN fields THEN fields[k] ELSE run[r][k]]]
  BY <1>1 DEF Moves
<1>3. run'[r] = [k \in Keys |-> IF k \in DOMAIN fields THEN fields[k] ELSE run[r][k]]
  BY <1>2
<1>4. \A q \in Runs \ {r} : run'[q] = run[q]
  BY <1>2
<1>5. run' = [q \in Runs |-> run'[q]]
  BY <1>2
<1>6. ASSUME run'[r] \in RunRecords PROVE run' \in [Runs -> RunRecords]
  BY <1>4, <1>5, <1>6
<1> QED BY <1>3, <1>4, <1>6

\* The logs of a run are touched by no other.
Stays(q) ==
    /\ run'[q] = run[q] /\ evidence'[q] = evidence[q]
    /\ DOMAIN logs \subseteq DOMAIN logs'
    /\ \A i \in DOMAIN logs :
          logs'[i].owner = logs[i].owner /\ (logs[i].owner = q => logs'[i] = logs[i])

LEMMA RestFits ==
    ASSUME NEW q \in Runs, RunFits(q), Stays(q)
    PROVE  RunFits(q)'
<1> USE DEF RunFits
<1>1. LogIsOwn(q)'
  BY DEF LogIsOwn, Stays
<1>2. Undecided(q)' /\ AdmittedOn(q)'
  BY DEF Undecided, AdmittedOn, Stays, Native
<1>3. ReturnsItsLog(q)'
  BY DEF ReturnsItsLog, Stays, New
<1>4. AsksOnce(q)'
  <2>1. \/ run[q].pc \in Verifying
        \/ run[q].pc = "finalizes" /\ run[q].verdict = "none"
        => logs'[run[q].log] = logs[run[q].log]
    BY DEF LogIsOwn, ReturnsItsLog, Stays
  <2> QED BY <2>1 DEF AsksOnce, OneAnswer, Unanswered, Native, Stays
<1>5. EndsWell(q)'
  BY DEF EndsWell, Stays, OneAnswer, Native, New
<1> QED BY <1>1, <1>2, <1>3, <1>4, <1>5

-----------------------------------------------------------------------------
(* Before the run.                                                         *)

\* An end before Inspect ran.
LEMMA RefusesFits ==
    ASSUME RunInv, NEW r \in Runs, run[r].pc \in Entering, Refuses(r), UNCHANGED <<machine, logs, evidence>>
    PROVE  RunTypes' /\ RunFits(r)' /\ \A q \in Runs \ {r} : Stays(q)
<1>1. run \in [Runs -> RunRecords] /\ run[r] \in RunRecords /\ RunFits(r)
  BY DEF RunInv, RunTypes
<1>2. /\ \A q \in Runs \ {r} : run'[q] = run[q]
      /\ run'[r].pc = "over" /\ run'[r].verdict = "refused"
      /\ \A k \in Keys \ {"pc", "verdict"} : run'[r][k] = run[r][k]
      /\ run'[r] = [k \in Keys |-> run'[r][k]]
      /\ run'[r] \in RunRecords => run' \in [Runs -> RunRecords]
  BY <1>1, Moved DEF Refuses, Keys
<1>3. run'[r] \in RunRecords
  BY <1>1, <1>2, RecordIs, RecordFits DEF Keys, Places
<1>4. RunTypes'
  BY <1>2, <1>3 DEF RunInv, RunTypes
<1>5. RunFits(r)'
  BY <1>1, <1>2 DEF Keys, RunFits, LogIsOwn, Undecided, ReturnsItsLog, AdmittedOn, AsksOnce, EndsWell,
                    Entering, Verifying, Places
<1> QED BY <1>2, <1>4, <1>5 DEF Stays
\* What every step of a run starts from.
LEMMA Standing ==
    ASSUME RunInv, NEW r \in Runs
    PROVE  /\ run \in [Runs -> RunRecords] /\ run[r] \in RunRecords /\ RunFits(r)
           /\ machine \in Machines /\ logs \in Seq(LogRecords)
BY DEF RunInv, RunTypes

LEMMA IdentityFits ==
    ASSUME NEW i \in Identities, NEW m \in Machines
    PROVE  /\ [NoIdentity EXCEPT !.admission = AdmissionOf(m)] \in Identities
           /\ [i EXCEPT !.target = TargetOf(m.target)] \in Identities
           /\ [i EXCEPT !.server = m.server] \in Identities
           /\ [i EXCEPT !.server = m.server].server = m.server
BY DEF Identities, NoIdentity

\* A server that fits has its keys.
LEMMA ServerHasKeys ==
    ASSUME NEW id, ServerFits(id)
    PROVE  id.keys # {}
<1>1. "schema" \in LocalKeys /\ "schema" \in ExternalKeys
  BY DEF LocalKeys, ExternalKeys
<1> QED BY <1>1 DEF ServerFits, Closed

LEMMA EntersFits ==
    ASSUME RunInv, NEW r \in Runs,
           VerifiesSources(r) \/ SnapshotsTarget(r) \/ SnapshotsServer(r) \/ (ReadsServer(r) /\ At(r, "servers"))
    PROVE  RunTypes' /\ RunFits(r)' /\ \A q \in Runs \ {r} : Stays(q)
<1>1. run \in [Runs -> RunRecords] /\ run[r] \in RunRecords /\ RunFits(r) /\ machine \in Machines
  BY Standing
<1>2. UNCHANGED <<machine, logs, evidence>> /\ run[r].pc \in Entering \ {"lists"}
  BY DEF VerifiesSources, SnapshotsTarget, SnapshotsServer, ReadsServer, At, Entering
<1>3. CASE Refuses(r)
  BY <1>2, <1>3, RefusesFits
<1>4. CASE ~Refuses(r)
  <2>1. /\ \A q \in Runs \ {r} : run'[q] = run[q]
        /\ run'[r].pc \in Entering
        /\ run'[r].start \in Identities /\ run'[r].seen \in {m.server.pid : m \in Machines} \cup {0}
        /\ Native(r) /\ run'[r].pc = "lists" => run'[r].start.server.keys # {}
        /\ \A k \in Keys \ {"pc", "start", "seen"} : run'[r][k] = run[r][k]
        /\ run'[r] = [k \in Keys |-> run'[r][k]]
        /\ run'[r] \in RunRecords => run' \in [Runs -> RunRecords]
    <3>1. CASE VerifiesSources(r)
      <4>1. Moves(r, [start |-> [NoIdentity EXCEPT !.admission = AdmissionOf(machine)],
                      pc |-> IF Native(r) THEN "targets" ELSE "lists"])
        BY <1>4, <3>1 DEF VerifiesSources
      <4>2. [NoIdentity EXCEPT !.admission = AdmissionOf(machine)] \in Identities
        BY <1>1, RecordIs, IdentityFits
      <4>3. /\ \A q \in Runs \ {r} : run'[q] = run[q]
            /\ run'[r].pc \in {"targets", "lists"} /\ (Native(r) => run'[r].pc = "targets")
            /\ run'[r].start = [NoIdentity EXCEPT !.admission = AdmissionOf(machine)]
            /\ run'[r].seen = run[r].seen
            /\ \A k \in Keys \ {"pc", "start", "seen"} : run'[r][k] = run[r][k]
            /\ run'[r] = [k \in Keys |-> run'[r][k]]
            /\ run'[r] \in RunRecords => run' \in [Runs -> RunRecords]
        BY <1>1, <4>1, Moved DEF Keys
      <4> QED BY <1>1, <4>2, <4>3, RecordIs DEF Entering
    <3>2. CASE SnapshotsTarget(r)
      <4>1. Moves(r, [start |-> [run[r].start EXCEPT !.target = TargetOf(machine.target)],
                      pc |-> "servers"])
        BY <1>4, <3>2 DEF SnapshotsTarget
      <4>2. [run[r].start EXCEPT !.target = TargetOf(machine.target)] \in Identities
        BY <1>1, RecordIs, IdentityFits
      <4>3. /\ \A q \in Runs \ {r} : run'[q] = run[q]
            /\ run'[r].pc = "servers" /\ run'[r].start = [run[r].start EXCEPT !.target = TargetOf(machine.target)]
            /\ run'[r].seen = run[r].seen
            /\ \A k \in Keys \ {"pc", "start", "seen"} : run'[r][k] = run[r][k]
            /\ run'[r] = [k \in Keys |-> run'[r][k]]
            /\ run'[r] \in RunRecords => run' \in [Runs -> RunRecords]
        BY <1>1, <4>1, Moved DEF Keys
      <4> QED BY <1>1, <4>2, <4>3, RecordIs DEF Entering
    <3>3. CASE SnapshotsServer(r)
      <4>1. /\ Moves(r, [start |-> [run[r].start EXCEPT !.server = machine.server],
                         seen |-> 0, pc |-> "lists"])
            /\ ServerFits(machine.server)
        BY <1>4, <3>3 DEF SnapshotsServer, SnapshotFits
      <4>2. /\ [run[r].start EXCEPT !.server = machine.server] \in Identities
            /\ [run[r].start EXCEPT !.server = machine.server].server.keys # {}
        BY <1>1, <4>1, RecordIs, IdentityFits, ServerHasKeys
      <4>3. /\ \A q \in Runs \ {r} : run'[q] = run[q]
            /\ run'[r].pc = "lists" /\ run'[r].start = [run[r].start EXCEPT !.server = machine.server]
            /\ run'[r].seen = 0
            /\ \A k \in Keys \ {"pc", "start", "seen"} : run'[r][k] = run[r][k]
            /\ run'[r] = [k \in Keys |-> run'[r][k]]
            /\ run'[r] \in RunRecords => run' \in [Runs -> RunRecords]
        BY <1>1, <4>1, Moved DEF Keys
      <4> QED BY <1>1, <4>2, <4>3, RecordIs DEF Entering
    <3>4. CASE ReadsServer(r) /\ At(r, "servers")
      <4>1. Moves(r, [seen |-> machine.server.pid, pc |-> "hashes"])
        BY <3>4 DEF ReadsServer
      <4>2. /\ \A q \in Runs \ {r} : run'[q] = run[q]
            /\ run'[r].pc = "hashes" /\ run'[r].start = run[r].start /\ run'[r].seen = machine.server.pid
            /\ \A k \in Keys \ {"pc", "start", "seen"} : run'[r][k] = run[r][k]
            /\ run'[r] = [k \in Keys |-> run'[r][k]]
            /\ run'[r] \in RunRecords => run' \in [Runs -> RunRecords]
        BY <1>1, <4>1, Moved DEF Keys
      <4> QED BY <1>1, <4>2, RecordIs DEF Entering
    <3> QED BY <3>1, <3>2, <3>3, <3>4
  <2>2. run'[r] \in RunRecords
    BY <1>1, <2>1, RecordIs, RecordFits DEF Keys, Places
  <2>3. RunTypes'
    BY <1>2, <2>1, <2>2 DEF RunInv, RunTypes
  <2>4. RunFits(r)'
    BY <1>1, <1>2, <2>1 DEF Keys, RunFits, LogIsOwn, Undecided, ReturnsItsLog, AdmittedOn, AsksOnce, EndsWell,
                            Native, Entering, Verifying, Places
  <2> QED BY <1>2, <2>1, <2>3, <2>4 DEF Stays
<1> QED BY <1>3, <1>4

\* The chain a task is run by asks once.
LEMMA ChainAsks ==
    ASSUME NEW r \in Runs, NEW chain \in Chains
    PROVE  /\ TaskChain(r, chain) \in Seq(Asking \cup {"template", "fallback"})
           /\ ToAsk(TaskChain(r, chain))
<1>1. CASE Native(r)
  BY <1>1 DEF TaskChain, ToAsk, Asking
<1>2. CASE ~Native(r)
  <2> DEFINE backed == [i \in DOMAIN chain |-> Backed(chain[i])]
             generates == \E i \in DOMAIN chain : chain[i] = "generate"
             c == TaskChain(r, chain)
  <2>1. chain \in Seq({"generate", "template", "choice"})
    BY ChainsAssumption
  <2>2. /\ backed \in Seq({"pod", "template", "choice"}) /\ Len(backed) = Len(chain)
        /\ DOMAIN backed = DOMAIN chain
        /\ \A i \in DOMAIN chain : /\ backed[i] = "pod" <=> chain[i] = "generate"
                                   /\ backed[i] \in Asking <=> chain[i] # "template"
    BY <2>1 DEF Backed, Asking
  <2>3. CASE generates
    <3>1. c = backed
      <4>1. c = backed \o <<>>
        BY <1>2, <2>3, Zenon DEF TaskChain, SwapGenerate
      <4> HIDE DEF backed
      <4> QED BY <2>2, <4>1
    <3> QED BY <2>2, <2>3, <3>1, AsksOnceAssumption DEF ToAsk, Asking
  <2>4. CASE ~generates
    <3>1. c = Append(backed, "fallback")
      BY <1>2, <2>2, <2>4 DEF TaskChain, SwapGenerate
    <3>2. /\ c \in Seq(Asking \cup {"template", "fallback"}) /\ Len(c) = Len(chain) + 1
          /\ DOMAIN c = 1..(Len(chain) + 1) /\ DOMAIN chain = 1..Len(chain) /\ Len(chain) \in Nat
          /\ c[Len(c)] = "fallback" /\ \A i \in DOMAIN chain : c[i] = backed[i]
      BY <2>1, <2>2, <3>1 DEF Asking
    <3>3. \A i, j \in DOMAIN c : c[i] \in Asking /\ c[j] \in Asking => i = j
      BY <2>2, <3>2, AsksOnceAssumption DEF Asking
    <3>4. \A i \in DOMAIN c : c[i] = "fallback" => i = Len(c)
      BY <2>2, <3>2 DEF Asking
    <3>5. \E i \in DOMAIN c : c[i] \in Asking \cup {"fallback"}
      BY <3>2
    <3> QED BY <3>2, <3>3, <3>4, <3>5 DEF ToAsk
  <2> QED BY <2>3, <2>4
<1> QED BY <1>1, <1>2

LEMMA ListsFits ==
    ASSUME RunInv, NEW r \in Runs, ListsLogs(r)
    PROVE  RunTypes' /\ RunFits(r)' /\ \A q \in Runs \ {r} : Stays(q)
<1>1. run \in [Runs -> RunRecords] /\ run[r] \in RunRecords /\ RunFits(r) /\ logs \in Seq(LogRecords)
  BY Standing
<1>2. UNCHANGED <<machine, logs, evidence>> /\ run[r].pc = "lists"
  BY DEF ListsLogs, At
<1>3. PICK chain \in Chains :
          Moves(r, [before |-> DOMAIN logs, chain |-> TaskChain(r, chain), pc |-> "evaluates"])
  BY DEF ListsLogs
<1>4. /\ \A q \in Runs \ {r} : run'[q] = run[q]
      /\ run'[r].pc = "evaluates" /\ run'[r].before = DOMAIN logs /\ run'[r].chain = TaskChain(r, chain)
      /\ \A k \in Keys \ {"pc", "before", "chain"} : run'[r][k] = run[r][k]
      /\ run'[r] = [k \in Keys |-> run'[r][k]]
      /\ run'[r] \in RunRecords => run' \in [Runs -> RunRecords]
  BY <1>1, <1>3, Moved DEF Keys
<1>5. run'[r] \in RunRecords
  <2>1. DOMAIN logs \in SUBSET Nat
    BY <1>1
  <2>2. TaskChain(r, chain) \in Seq(Asking \cup {"template", "fallback"})
    BY ChainAsks
  <2>3. /\ run'[r].before \in SUBSET Nat /\ run'[r].pc \in Places
        /\ run'[r].chain \in Seq(Asking \cup {"template", "fallback"})
    BY <1>4, <2>1, <2>2 DEF Places
  <2> QED BY <1>1, <1>4, <2>3, RecordIs, RecordFits DEF Keys
<1>6. RunTypes'
  BY <1>2, <1>4, <1>5 DEF RunInv, RunTypes
<1>7. RunFits(r)'
  <2>1. ToAsk(run'[r].chain)
    BY <1>4, ChainAsks
  <2>2. AsksOnce(r)'
    BY <1>1, <1>2, <1>4, <2>1 DEF Keys, RunFits, AsksOnce, ToAsk, Entering, Verifying
  <2> QED BY <1>1, <1>2, <1>4, <2>2
             DEF Keys, RunFits, LogIsOwn, Undecided, ReturnsItsLog, AdmittedOn, EndsWell,
                 Native, Entering, Verifying, Places
<1> QED BY <1>2, <1>4, <1>6, <1>7 DEF Stays
-----------------------------------------------------------------------------
(* Inspect.                                                                *)

LEMMA CreatesFits ==
    ASSUME RunInv, NEW r \in Runs, CreatesLog(r)
    PROVE  RunTypes' /\ RunFits(r)' /\ \A q \in Runs \ {r} : Stays(q)
<1> DEFINE created == [owner |-> r, status |-> "started", start |-> run[r].start, end |-> NoIdentity]
<1>1. run \in [Runs -> RunRecords] /\ run[r] \in RunRecords /\ RunFits(r) /\ logs \in Seq(LogRecords)
  BY Standing
<1>2. UNCHANGED <<machine, evidence>> /\ run[r].pc = "evaluates" /\ logs' = Append(logs, created)
  BY DEF CreatesLog, At
<1>3. /\ \A q \in Runs \ {r} : run'[q] = run[q]
      /\ run'[r].pc = "solves" /\ run'[r].log = Len(logs) + 1
      /\ \A k \in Keys \ {"pc", "log"} : run'[r][k] = run[r][k]
      /\ run'[r] = [k \in Keys |-> run'[r][k]]
      /\ run'[r] \in RunRecords => run' \in [Runs -> RunRecords]
  <2>1. Moves(r, [log |-> Len(logs) + 1, pc |-> "solves"])
    BY DEF CreatesLog
  <2>2. run \in [Runs -> RunRecords]
    BY Standing
  <2> QED BY <2>1, <2>2, Moved DEF Keys
<1>4. created \in LogRecords
  BY <1>1, RecordIs DEF LogRecords, Identities, NoIdentity
<1>5. /\ logs' \in Seq(LogRecords) /\ Len(logs) \in Nat
      /\ DOMAIN logs = 1..Len(logs) /\ DOMAIN logs' = 1..(Len(logs) + 1)
      /\ \A i \in DOMAIN logs : logs'[i] = logs[i]
      /\ logs'[Len(logs) + 1].owner = r
  BY <1>1, <1>2, <1>4
<1>6. run'[r] \in RunRecords
  <2>1. run'[r].log \in Nat /\ run'[r].pc \in Places
    BY <1>3, <1>5 DEF Places
  <2> QED BY <1>1, <1>3, <2>1, RecordIs, RecordFits DEF Keys
<1>7. RunTypes'
  BY <1>2, <1>3, <1>5, <1>6 DEF RunInv, RunTypes
<1>8. LogIsOwn(r)'
  <2>1. run[r].before \subseteq DOMAIN logs /\ run'[r].before = run[r].before
    BY <1>1, <1>3 DEF Keys, RunFits, LogIsOwn
  <2>2. run'[r].log \in DOMAIN logs' /\ logs'[run'[r].log].owner = r /\ run'[r].log \notin run'[r].before
    BY <1>3, <1>5, <2>1
  <2>3. run'[r].before \subseteq DOMAIN logs' /\ run'[r].log # 0
    BY <1>3, <1>5, <2>1
  <2> QED BY <1>3, <2>2, <2>3 DEF LogIsOwn, Entering
<1>9. AsksOnce(r)'
  <2>1. ToAsk(run[r].chain) /\ run[r].sample = NoSample
    BY <1>1, <1>2 DEF RunFits, AsksOnce
  <2>2. run'[r].chain = run[r].chain /\ run'[r].sample = run[r].sample
    BY <1>3 DEF Keys
  <2>3. Unanswered(r)'
    BY <2>1, <2>2 DEF Unanswered, NoSample
  <2> QED BY <1>3, <2>1, <2>2, <2>3 DEF AsksOnce, Entering, Verifying
<1>10. RunFits(r)'
  BY <1>1, <1>2, <1>3, <1>8, <1>9
     DEF Keys, RunFits, Undecided, ReturnsItsLog, AdmittedOn, EndsWell, Native, Entering, Verifying
<1>11. \A q \in Runs \ {r} : Stays(q)
  BY <1>2, <1>3, <1>5 DEF Stays
<1> QED BY <1>7, <1>10, <1>11

\* A pod run that can be scored was answered by the server that was admitted.
LEMMA ScorableAnswers ==
    ASSUME NEW ev, NEW closed, NEW id, id.keys # {}, Scorable(Result(closed, ev), TRUE, id)
    PROVE  Answerers(ev) = {id.responseModel}
<1>1. TransportFits(ev) /\ AnsweredBy(ev, id)
  BY DEF Scorable, Result
<1>2. \A response \in Answerers(ev) : response = id.responseModel
  BY <1>1 DEF Answerers, AnsweredBy
<1>3. \E n \in DOMAIN ev.turns : TRUE
  <2> SUFFICES ASSUME DOMAIN ev.turns = {} PROVE FALSE
    OBVIOUS
  <2>1. [n \in DOMAIN ev.turns |-> ev.turns[n].id] = ev.reported
    BY <1>1, Zenon DEF TransportFits
  <2>2. [n \in DOMAIN ev.turns |-> ev.turns[n].id] = <<>>
    OBVIOUS
  <2> QED BY <1>1, <2>1, <2>2 DEF TransportFits
<1>4. PICK n \in DOMAIN ev.turns : AttemptsFit(ev.turns[n])
  BY <1>1, <1>3 DEF TransportFits
<1>5. PICK i \in DOMAIN ev.turns[n].attempts : ev.turns[n].attempts[i].outcome = "success"
  BY <1>4 DEF AttemptsFit
<1>6. ev.turns[n].attempts[i] \in AllAttempts(ev)
  BY <1>5 DEF AllAttempts
<1>7. ev.turns[n].attempts[i].response \in Answerers(ev)
  BY <1>5, <1>6 DEF Answerers
<1> QED BY <1>2, <1>7

LEMMA TailAsks ==
    ASSUME NEW c \in Seq(Asking \cup {"template", "fallback"}), c # <<>>
    PROVE  /\ Tail(c) \in Seq(Asking \cup {"template", "fallback"})
           /\ ToAsk(c) /\ Head(c) = "template" => ToAsk(Tail(c))
           /\ ToAsk(c) /\ Head(c) # "template" => Asked(Tail(c))
           /\ Asked(c) => Head(c) \notin Asking /\ Asked(Tail(c))
<1>1. /\ Len(c) \in Nat \ {0} /\ DOMAIN c = 1..Len(c) /\ Head(c) = c[1]
      /\ Tail(c) \in Seq(Asking \cup {"template", "fallback"})
      /\ Len(Tail(c)) = Len(c) - 1 /\ DOMAIN Tail(c) = 1..(Len(c) - 1)
      /\ \A i \in DOMAIN Tail(c) : i + 1 \in DOMAIN c /\ i + 1 # 1 /\ Tail(c)[i] = c[i + 1]
      /\ \A i \in DOMAIN c : c[i] \in Asking \cup {"template", "fallback"}
  OBVIOUS
<1>2. ASSUME ToAsk(c), Head(c) = "template" PROVE ToAsk(Tail(c))
  <2>1. PICK i \in DOMAIN c : c[i] \in Asking \cup {"fallback"}
    BY <1>2 DEF ToAsk
  <2>2. i - 1 \in DOMAIN Tail(c) /\ Tail(c)[i - 1] = c[i]
    BY <1>1, <1>2, <2>1 DEF Asking
  <2>3. \A m, n \in DOMAIN Tail(c) : Tail(c)[m] \in Asking /\ Tail(c)[n] \in Asking => m = n
    BY <1>1, <1>2 DEF ToAsk
  <2>4. \A m \in DOMAIN Tail(c) : Tail(c)[m] = "fallback" => m = Len(Tail(c))
    BY <1>1, <1>2 DEF ToAsk
  <2> QED BY <2>1, <2>2, <2>3, <2>4 DEF ToAsk
<1>3. ASSUME ToAsk(c), Head(c) # "template" PROVE Asked(Tail(c))
  <2>1. CASE Head(c) \in Asking
    BY <1>1, <1>3, <2>1 DEF ToAsk, Asked
  <2>2. CASE Head(c) = "fallback"
    BY <1>1, <1>3, <2>2 DEF ToAsk, Asked
  <2> QED BY <1>1, <1>3, <2>1, <2>2
<1>4. ASSUME Asked(c) PROVE Head(c) \notin Asking /\ Asked(Tail(c))
  BY <1>1, <1>4 DEF Asked
<1> QED BY <1>1, <1>2, <1>3, <1>4

\* A step leaves the sample alone, or asks once and ends it or not.
LEMMA SolvesFits ==
    ASSUME RunInv, NEW r \in Runs, SolvesStep(r)
    PROVE  RunTypes' /\ RunFits(r)' /\ \A q \in Runs \ {r} : Stays(q)
<1> DEFINE step == Head(run[r].chain)
           sample == run[r].sample
<1>1. /\ run \in [Runs -> RunRecords] /\ run[r] \in RunRecords /\ RunFits(r) /\ machine \in Machines
      /\ run[r].chain \in Seq(Asking \cup {"template", "fallback"}) /\ sample \in SampleRecords
  BY Standing, RecordIs
<1>2. /\ UNCHANGED <<machine, logs, evidence>> /\ run[r].pc = "solves" /\ run[r].sample.state = "new"
      /\ run[r].chain # <<>>
  BY DEF SolvesStep, At
<1>3. \/ Unanswered(r) /\ ToAsk(run[r].chain)
      \/ OneAnswer(r) /\ Asked(run[r].chain)
  BY <1>1, <1>2 DEF RunFits, AsksOnce
<1>4. step \in Asking \cup {"template", "fallback"} /\ sample.drives \in Nat
  BY <1>1, <1>2 DEF SampleRecords
<1>5. /\ \A q \in Runs \ {r} : run'[q] = run[q]
      /\ run'[r].chain = Tail(run[r].chain)
      /\ run'[r].sample \in SampleRecords
      /\ run'[r].sample.state = "new" =>
            \/ Unanswered(r)' /\ ToAsk(run'[r].chain)
            \/ OneAnswer(r)' /\ Asked(run'[r].chain)
      /\ \A k \in Keys \ {"chain", "sample"} : run'[r][k] = run[r][k]
      /\ run'[r] = [k \in Keys |-> run'[r][k]]
      /\ run'[r] \in RunRecords => run' \in [Runs -> RunRecords]
  <2>1. CASE ~Drives(r, step)
    <3>1. Moves(r, [chain |-> Tail(run[r].chain)])
      BY <2>1 DEF SolvesStep
    <3>2. /\ \A q \in Runs \ {r} : run'[q] = run[q]
          /\ run'[r].chain = Tail(run[r].chain) /\ run'[r].sample = sample /\ run'[r].start = run[r].start
          /\ \A k \in Keys \ {"chain", "sample"} : run'[r][k] = run[r][k]
          /\ run'[r] = [k \in Keys |-> run'[r][k]]
          /\ run'[r] \in RunRecords => run' \in [Runs -> RunRecords]
      <4>1. run \in [Runs -> RunRecords]
        BY Standing
      <4>2. /\ \A q \in Runs \ {r} : run'[q] = run[q]
            /\ run'[r] = [k \in Keys |-> run'[r][k]]
            /\ run'[r] \in RunRecords => run' \in [Runs -> RunRecords]
        BY <3>1, <4>1, Moved
      <4>3. /\ run'[r].chain = Tail(run[r].chain)
            /\ run'[r].sample = run[r].sample /\ run'[r].start = run[r].start
            /\ \A k \in Keys \ {"chain", "sample"} : run'[r][k] = run[r][k]
        <5>1. PICK f : f = [chain |-> Tail(run[r].chain)] /\ Moves(r, f)
          BY <3>1
        <5>2. DOMAIN f = {"chain"} /\ f["chain"] = Tail(run[r].chain)
          BY <5>1
        <5>3. \A k \in Keys : run'[r][k] = IF k \in DOMAIN f THEN f[k] ELSE run[r][k]
          BY <4>1, <5>1, Moved
        <5> QED BY <5>2, <5>3 DEF Keys
      <4> QED BY <3>1, <4>2, <4>3
    <3>3. CASE Unanswered(r) /\ ToAsk(run[r].chain)
      <4>1. step = "template"
        BY <1>4, <2>1, <3>3 DEF Drives, Unanswered, Asking
      <4>2. ToAsk(run'[r].chain)
        BY <1>1, <1>2, <3>2, <3>3, <4>1, TailAsks
      <4>3. Unanswered(r)'
        BY <3>2, <3>3 DEF Unanswered
      <4> QED BY <1>1, <3>2, <4>2, <4>3
    <3>4. CASE OneAnswer(r) /\ Asked(run[r].chain)
      <4>1. Asked(run'[r].chain)
        BY <1>1, <1>2, <3>2, <3>4, TailAsks
      <4>2. OneAnswer(r)'
        BY <3>2, <3>4 DEF OneAnswer, Native
      <4> QED BY <1>1, <3>2, <4>1, <4>2
    <3> QED BY <1>3, <3>3, <3>4
  <2>2. CASE Drives(r, step)
    <3>1. PICK closed \in {"completed", "timeout", "error"}, ev \in Evidences[machine.server] :
             Moves(r, [chain |-> Tail(run[r].chain),
                       sample |-> [drives |-> sample.drives + 1,
                                   state |-> IF Scorable(Result(closed, ev), Native(r), run[r].start.server)
                                             THEN "new" ELSE "error",
                                   servers |-> sample.servers \cup Answerers(ev)]])
      BY <2>2 DEF SolvesStep
    <3>2. /\ \A q \in Runs \ {r} : run'[q] = run[q]
          /\ run'[r].chain = Tail(run[r].chain) /\ run'[r].start = run[r].start
          /\ run'[r].sample =
                [drives |-> sample.drives + 1,
                 state |-> IF Scorable(Result(closed, ev), Native(r), run[r].start.server)
                           THEN "new" ELSE "error",
                 servers |-> sample.servers \cup Answerers(ev)]
          /\ \A k \in Keys \ {"chain", "sample"} : run'[r][k] = run[r][k]
          /\ run'[r] = [k \in Keys |-> run'[r][k]]
          /\ run'[r] \in RunRecords => run' \in [Runs -> RunRecords]
      <4>1. run \in [Runs -> RunRecords]
        BY Standing
      <4>2. /\ \A q \in Runs \ {r} : run'[q] = run[q]
            /\ run'[r] = [k \in Keys |-> run'[r][k]]
            /\ run'[r] \in RunRecords => run' \in [Runs -> RunRecords]
        BY <3>1, <4>1, Moved
      <4>3. /\ run'[r].chain = Tail(run[r].chain) /\ run'[r].start = run[r].start
            /\ run'[r].sample =
                  [drives |-> sample.drives + 1,
                   state |-> IF Scorable(Result(closed, ev), Native(r), run[r].start.server)
                             THEN "new" ELSE "error",
                   servers |-> sample.servers \cup Answerers(ev)]
            /\ \A k \in Keys \ {"chain", "sample"} : run'[r][k] = run[r][k]
        <5>1. PICK c, a : /\ Moves(r, [chain |-> c, sample |-> a])
                          /\ c = Tail(run[r].chain)
                          /\ a = [drives |-> sample.drives + 1,
                                  state |-> IF Scorable(Result(closed, ev), Native(r), run[r].start.server)
                                            THEN "new" ELSE "error",
                                  servers |-> sample.servers \cup Answerers(ev)]
          BY <3>1
        <5>2. PICK f : f = [chain |-> c, sample |-> a] /\ Moves(r, f)
          BY <5>1
        <5>3. DOMAIN f = {"chain", "sample"} /\ f["chain"] = c /\ f["sample"] = a
          BY <5>2
        <5>4. \A k \in Keys : run'[r][k] = IF k \in DOMAIN f THEN f[k] ELSE run[r][k]
          BY <4>1, <5>2, Moved
        <5>5. /\ run'[r].chain = c /\ run'[r].sample = a /\ run'[r].start = run[r].start
              /\ \A k \in Keys \ {"chain", "sample"} : run'[r][k] = run[r][k]
          BY <5>3, <5>4 DEF Keys
        <5> QED BY <5>1, <5>5
      <4> QED BY <3>1, <4>2, <4>3
    <3>3. Answerers(ev) \in SUBSET Responses
      BY <1>1 DEF Responses
    <3>4. run'[r].sample \in SampleRecords
      BY <1>1, <1>4, <3>2, <3>3 DEF SampleRecords
    <3>5. Unanswered(r) /\ ToAsk(run[r].chain) /\ step # "template"
      <4>1. OneAnswer(r) /\ Asked(run[r].chain) => FALSE
        BY <1>1, <1>2, <2>2, TailAsks DEF Drives, OneAnswer, Asking
      <4> QED BY <1>3, <2>2, <4>1 DEF Drives
    <3>6. Asked(run'[r].chain)
      BY <1>1, <1>2, <3>2, <3>5, TailAsks
    <3>7. ASSUME run'[r].sample.state = "new" PROVE OneAnswer(r)'
      <4>1. Scorable(Result(closed, ev), Native(r), run[r].start.server)
        BY <3>2, <3>7
      <4>2. run'[r].sample.drives = 1 /\ run'[r].sample.servers = Answerers(ev)
        BY <3>2, <3>5 DEF Unanswered
      <4>3. ASSUME Native(r) PROVE Answerers(ev) = {run[r].start.server.responseModel}
        <5>1. run[r].start.server.keys # {}
          BY <1>1, <1>2, <4>3 DEF RunFits, AdmittedOn
        <5>2. Scorable(Result(closed, ev), TRUE, run[r].start.server)
          BY <4>1, <4>3 DEF Scorable
        <5> QED BY <5>1, <5>2, ScorableAnswers
      <4> QED BY <3>2, <4>2, <4>3 DEF OneAnswer, Native
    <3> QED BY <3>2, <3>4, <3>6, <3>7
  <2> QED BY <2>1, <2>2
<1>6. run'[r] \in RunRecords
  <2>1. run'[r].chain \in Seq(Asking \cup {"template", "fallback"})
    BY <1>1, <1>2, <1>5, TailAsks
  <2> QED BY <1>1, <1>5, <2>1, RecordIs, RecordFits DEF Keys
<1>7. RunTypes'
  BY <1>2, <1>5, <1>6 DEF RunInv, RunTypes
<1>8. run'[r].pc = "solves"
  BY <1>2, <1>5 DEF Keys
<1>9. AsksOnce(r)'
  BY <1>5, <1>8 DEF AsksOnce, Entering, Verifying
<1>10. LogIsOwn(r)' /\ Undecided(r)' /\ ReturnsItsLog(r)' /\ AdmittedOn(r)' /\ EndsWell(r)'
  BY <1>1, <1>2, <1>5, <1>8
     DEF Keys, RunFits, LogIsOwn, Undecided, ReturnsItsLog, AdmittedOn, EndsWell, Native, Entering, Verifying
<1>11. \A q \in Runs \ {r} : Stays(q)
  BY <1>2, <1>5 DEF Stays
<1> QED BY <1>7, <1>9, <1>10, <1>11 DEF RunFits
\* The log is a success only when the sample is no error, its chain asked out.
LEMMA ClosesFits ==
    ASSUME RunInv, NEW r \in Runs, ClosesLog(r)
    PROVE  RunTypes' /\ RunFits(r)' /\ \A q \in Runs \ {r} : Stays(q)
<1> DEFINE ok == run[r].sample.state = "new"
<1>1. run \in [Runs -> RunRecords] /\ run[r] \in RunRecords /\ RunFits(r) /\ logs \in Seq(LogRecords)
  BY Standing
<1>2. /\ UNCHANGED <<machine, evidence>> /\ run[r].pc = "solves"
      /\ run[r].chain = <<>> \/ run[r].sample.state = "error"
      /\ logs' = [logs EXCEPT ![run[r].log].status = IF ok THEN "success" ELSE "error"]
  BY DEF ClosesLog, At
<1>3. /\ \A q \in Runs \ {r} : run'[q] = run[q]
      /\ run'[r].pc = (IF Native(r) THEN "readmits" ELSE "finalizes")
      /\ run'[r].returned = {run[r].log} /\ run'[r].strict
      /\ \A k \in Keys \ {"pc", "returned", "strict"} : run'[r][k] = run[r][k]
      /\ run'[r] = [k \in Keys |-> run'[r][k]]
      /\ run'[r] \in RunRecords => run' \in [Runs -> RunRecords]
  <2>1. PICK f : /\ f = [returned |-> {run[r].log}, strict |-> TRUE,
                         pc |-> IF Native(r) THEN "readmits" ELSE "finalizes"]
                 /\ Moves(r, f)
    BY DEF ClosesLog
  <2>2. DOMAIN f = {"returned", "strict", "pc"}
    BY <2>1
  <2>3. f["returned"] = {run[r].log} /\ f["pc"] = IF Native(r) THEN "readmits" ELSE "finalizes"
    BY <2>1
  <2>4. f["strict"]
    BY <2>1
  <2>5. /\ \A q \in Runs \ {r} : run'[q] = run[q]
        /\ run'[r] = [k \in Keys |-> run'[r][k]]
        /\ \A k \in Keys : run'[r][k] = IF k \in DOMAIN f THEN f[k] ELSE run[r][k]
        /\ run'[r] \in RunRecords => run' \in [Runs -> RunRecords]
    BY <1>1, <2>1, Moved
  <2>6. run'[r].pc = (IF Native(r) THEN "readmits" ELSE "finalizes") /\ run'[r].returned = {run[r].log}
    BY <2>2, <2>3, <2>5 DEF Keys
  <2>7. run'[r].strict
    <3>1. run'[r]["strict"] = f["strict"]
      BY <2>2, <2>5 DEF Keys
    <3> QED BY <2>4, <3>1
  <2>8. \A k \in Keys \ {"pc", "returned", "strict"} : run'[r][k] = run[r][k]
    BY <2>2, <2>5
  <2> QED BY <2>5, <2>6, <2>7, <2>8
<1>4. run[r].log \in DOMAIN logs /\ logs[run[r].log].owner = r /\ run[r].log \in Nat /\ run[r].log # 0
  BY <1>1, <1>2, RecordIs DEF RunFits, LogIsOwn
<1>5. /\ logs' \in Seq(LogRecords) /\ DOMAIN logs' = DOMAIN logs
      /\ \A i \in DOMAIN logs : /\ logs'[i].owner = logs[i].owner
                                /\ i # run[r].log => logs'[i] = logs[i]
      /\ logs'[run[r].log].status = IF ok THEN "success" ELSE "error"
  <2> DEFINE l == run[r].log
             closed == [logs[l] EXCEPT !.status = IF ok THEN "success" ELSE "error"]
  <2>1. logs[l] \in LogRecords
    BY <1>1, <1>4
  <2>2. /\ closed \in LogRecords /\ closed.owner = logs[l].owner
        /\ closed.status = IF ok THEN "success" ELSE "error"
    BY <2>1 DEF LogRecords
  <2>3. logs' = [logs EXCEPT ![l] = closed]
    BY <1>2
  <2> HIDE DEF l, closed, ok
  <2>4. logs' \in Seq(LogRecords) /\ DOMAIN logs' = DOMAIN logs
    BY <1>1, <1>4, <2>2, <2>3 DEF l
  <2>5. logs'[l] = closed /\ \A i \in DOMAIN logs : i # l => logs'[i] = logs[i]
    BY <1>1, <1>4, <2>3 DEF l
  <2> QED BY <2>2, <2>4, <2>5 DEF l
<1>6. run'[r] \in RunRecords
  <2>1. run'[r].returned \in SUBSET Nat /\ run'[r].pc \in Places
    BY <1>3, <1>4 DEF Places, Verifying
  <2>2. run'[r].strict \in BOOLEAN
    BY <1>3
  <2>3. /\ run'[r] = [k \in Keys |-> run'[r][k]]
        /\ \A k \in Keys \ {"pc", "returned", "strict"} : run'[r][k] = run[r][k]
    BY <1>3
  <2> QED BY <1>1, <2>1, <2>2, <2>3, RecordIs, RecordFits DEF Keys
<1>7. RunTypes'
  BY <1>2, <1>3, <1>5, <1>6 DEF RunInv, RunTypes
<1>8. ASSUME ok PROVE OneAnswer(r)'
  <2>1. run[r].chain = <<>>
    BY <1>2, <1>8
  <2>2. ~ToAsk(run[r].chain)
    BY <2>1 DEF ToAsk
  <2>3. OneAnswer(r)
    BY <1>1, <1>2, <1>8, <2>2 DEF RunFits, AsksOnce
  <2> QED BY <1>3, <2>3 DEF Keys, OneAnswer, Native
<1>9. AsksOnce(r)'
  BY <1>3, <1>5, <1>8 DEF Keys, AsksOnce, Entering, Verifying
<1>10. LogIsOwn(r)'
  <2>1. UNCHANGED <<run[r].log, run[r].before>> /\ run[r].before \subseteq DOMAIN logs /\ run[r].log \notin run[r].before
    BY <1>1, <1>3, <1>4 DEF Keys, RunFits, LogIsOwn
  <2> QED BY <1>3, <1>4, <1>5, <2>1 DEF LogIsOwn, Entering
<1>11. Undecided(r)' /\ AdmittedOn(r)' /\ EndsWell(r)'
  BY <1>1, <1>2, <1>3
     DEF Keys, RunFits, Undecided, AdmittedOn, EndsWell, Native, Entering, Verifying
<1>12. ReturnsItsLog(r)'
  BY <1>1, <1>2, <1>3, <1>4
     DEF Keys, RunFits, Undecided, ReturnsItsLog, Native, Entering, Verifying
<1>13. \A q \in Runs \ {r} : Stays(q)
  BY <1>2, <1>3, <1>4, <1>5 DEF Stays
<1> QED BY <1>7, <1>9, <1>10, <1>11, <1>12, <1>13 DEF RunFits

\* An interrupted run looks for what is new, its own log among it.
LEMMA InterruptedFits ==
    ASSUME RunInv, NEW r \in Runs, IsInterrupted(r)
    PROVE  RunTypes' /\ RunFits(r)' /\ \A q \in Runs \ {r} : Stays(q)
<1>1. run \in [Runs -> RunRecords] /\ run[r] \in RunRecords /\ RunFits(r) /\ logs \in Seq(LogRecords)
  BY Standing
<1>2. UNCHANGED <<machine, logs, evidence>> /\ run[r].pc \in {"evaluates", "solves"}
  BY DEF IsInterrupted
<1>3. /\ \A q \in Runs \ {r} : run'[q] = run[q]
      /\ run'[r].pc = (IF New(r) = {} THEN "over" ELSE "finalizes")
      /\ run'[r].returned = New(r) /\ run'[r].strict \in BOOLEAN /\ run'[r].verdict = "interrupted"
      /\ \A k \in Keys \ {"pc", "returned", "strict", "verdict"} : run'[r][k] = run[r][k]
      /\ run'[r] = [k \in Keys |-> run'[r][k]]
      /\ run'[r] \in RunRecords => run' \in [Runs -> RunRecords]
  <2>1. PICK f : /\ f = [returned |-> New(r), strict |-> FALSE, verdict |-> "interrupted",
                         pc |-> IF New(r) = {} THEN "over" ELSE "finalizes"]
                 /\ Moves(r, f)
    BY DEF IsInterrupted
  <2>2. /\ DOMAIN f = {"returned", "strict", "verdict", "pc"} /\ f["returned"] = New(r) /\ f["strict"] = FALSE
        /\ f["verdict"] = "interrupted" /\ f["pc"] = IF New(r) = {} THEN "over" ELSE "finalizes"
    BY <2>1
  <2>3. /\ \A q \in Runs \ {r} : run'[q] = run[q]
        /\ run'[r] = [k \in Keys |-> run'[r][k]]
        /\ \A k \in Keys : run'[r][k] = IF k \in DOMAIN f THEN f[k] ELSE run[r][k]
        /\ run'[r] \in RunRecords => run' \in [Runs -> RunRecords]
    BY <1>1, <2>1, Moved
  <2>4. \A k \in Keys \ {"pc", "returned", "strict", "verdict"} : run'[r][k] = run[r][k]
    BY <2>2, <2>3
  <2>5. run'[r].strict \in BOOLEAN
    <3>1. run'[r]["strict"] = f["strict"]
      BY <2>2, <2>3 DEF Keys
    <3> QED BY <2>2, <3>1
  <2>6. /\ run'[r].pc = (IF New(r) = {} THEN "over" ELSE "finalizes")
        /\ run'[r].returned = New(r) /\ run'[r].verdict = "interrupted"
    BY <2>2, <2>3 DEF Keys
  <2> QED BY <2>3, <2>4, <2>5, <2>6
<1>4. New(r) \in SUBSET Nat
  BY <1>1 DEF New
<1>5. run'[r] \in RunRecords
  <2>1. run'[r].returned \in SUBSET Nat /\ run'[r].pc \in Places
    BY <1>3, <1>4 DEF Places
  <2> QED BY <1>1, <1>3, <2>1, RecordIs, RecordFits DEF Keys
<1>6. RunTypes'
  BY <1>2, <1>3, <1>5 DEF RunInv, RunTypes
<1>7. New(r)' = New(r) /\ UNCHANGED <<run[r].log, run[r].before>>
  BY <1>2, <1>3 DEF Keys, New
<1>8. run[r].log # 0 => run[r].log \in New(r)
  BY <1>1 DEF RunFits, LogIsOwn, New
<1>9. ReturnsItsLog(r)' /\ EndsWell(r)'
  BY <1>3, <1>7, <1>8 DEF ReturnsItsLog, EndsWell, Verifying
<1>10. LogIsOwn(r)' /\ Undecided(r)' /\ AdmittedOn(r)' /\ AsksOnce(r)'
  BY <1>1, <1>2, <1>3, <1>7
     DEF Keys, RunFits, LogIsOwn, Undecided, AdmittedOn, AsksOnce, Native, Entering, Verifying
<1>11. \A q \in Runs \ {r} : Stays(q)
  BY <1>2, <1>3 DEF Stays
<1> QED BY <1>6, <1>9, <1>10, <1>11 DEF RunFits

-----------------------------------------------------------------------------
(* The end of a run.                                                       *)

\* An identity that can no longer be read: the log is retained all the same.
LEMMA RejectsFits ==
    ASSUME RunInv, NEW r \in Runs, run[r].pc \in Verifying, Rejects(r), UNCHANGED <<machine, evidence>>,
           logs' \in Seq(LogRecords), DOMAIN logs' = DOMAIN logs,
           \A i \in DOMAIN logs : logs'[i].owner = logs[i].owner
    PROVE  RunTypes' /\ RunFits(r)' /\ \A q \in Runs \ {r} : run'[q] = run[q]
<1>1. run \in [Runs -> RunRecords] /\ run[r] \in RunRecords /\ RunFits(r)
  BY Standing
<1>2. /\ \A q \in Runs \ {r} : run'[q] = run[q]
      /\ run'[r].pc = "finalizes" /\ run'[r].verdict = "rejected" /\ run'[r].strict \in BOOLEAN
      /\ \A k \in Keys \ {"pc", "strict", "verdict"} : run'[r][k] = run[r][k]
      /\ run'[r] = [k \in Keys |-> run'[r][k]]
      /\ run'[r] \in RunRecords => run' \in [Runs -> RunRecords]
  <2>1. PICK f : f = [strict |-> FALSE, verdict |-> "rejected", pc |-> "finalizes"] /\ Moves(r, f)
    BY DEF Rejects
  <2>2. /\ DOMAIN f = {"strict", "verdict", "pc"} /\ f["strict"] = FALSE
        /\ f["verdict"] = "rejected" /\ f["pc"] = "finalizes"
    BY <2>1
  <2>3. /\ \A q \in Runs \ {r} : run'[q] = run[q]
        /\ run'[r] = [k \in Keys |-> run'[r][k]]
        /\ \A k \in Keys : run'[r][k] = IF k \in DOMAIN f THEN f[k] ELSE run[r][k]
        /\ run'[r] \in RunRecords => run' \in [Runs -> RunRecords]
    BY <1>1, <2>1, Moved
  <2>4. \A k \in Keys \ {"pc", "strict", "verdict"} : run'[r][k] = run[r][k]
    BY <2>2, <2>3
  <2>5. run'[r].strict \in BOOLEAN
    <3>1. run'[r]["strict"] = f["strict"]
      BY <2>2, <2>3 DEF Keys
    <3> QED BY <2>2, <3>1
  <2>6. run'[r].pc = "finalizes" /\ run'[r].verdict = "rejected"
    BY <2>2, <2>3 DEF Keys
  <2> QED BY <2>3, <2>4, <2>5, <2>6
<1>3. run'[r] \in RunRecords
  BY <1>1, <1>2, RecordIs, RecordFits DEF Keys, Places
<1>4. RunTypes'
  BY <1>2, <1>3 DEF RunInv, RunTypes
<1>5. /\ run[r].log \in DOMAIN logs' /\ logs'[run[r].log].owner = r /\ run[r].log \notin run[r].before
      /\ run[r].before \subseteq DOMAIN logs' /\ run[r].returned = {run[r].log} /\ run[r].log # 0
      /\ evidence[r] = {}
  BY <1>1 DEF RunFits, LogIsOwn, ReturnsItsLog, Undecided, Verifying
<1>6. UNCHANGED <<run[r].log, run[r].before, run[r].returned>>
  BY <1>2 DEF Keys
<1>7. RunFits(r)'
  BY <1>2, <1>5, <1>6
     DEF RunFits, LogIsOwn, Undecided, ReturnsItsLog, AdmittedOn, AsksOnce, EndsWell, Entering, Verifying
<1> QED BY <1>2, <1>4, <1>7
\* The identities are read again.
LEMMA ReverifiesFits ==
    ASSUME RunInv, NEW r \in Runs,
           \/ ReverifiesSources(r) \/ ResnapshotsTarget(r) \/ ResnapshotsServer(r)
           \/ ReadsServer(r) /\ At(r, "reservers")
    PROVE  RunTypes' /\ RunFits(r)' /\ \A q \in Runs \ {r} : Stays(q)
<1>1. run \in [Runs -> RunRecords] /\ run[r] \in RunRecords /\ RunFits(r) /\ machine \in Machines
      /\ logs \in Seq(LogRecords)
  BY Standing
<1>2. UNCHANGED <<machine, logs, evidence>> /\ run[r].pc \in Verifying
  BY DEF ReverifiesSources, ResnapshotsTarget, ResnapshotsServer, ReadsServer, At, Verifying
<1>3. CASE Rejects(r)
  <2>1. RunTypes' /\ RunFits(r)' /\ \A q \in Runs \ {r} : run'[q] = run[q]
    BY <1>1, <1>2, <1>3, RejectsFits
  <2> QED BY <1>2, <2>1 DEF Stays
<1>4. CASE ~Rejects(r)
  <2>1. /\ \A q \in Runs \ {r} : run'[q] = run[q]
        /\ run'[r].pc \in Verifying
        /\ run'[r].end \in Identities /\ run'[r].seen \in {m.server.pid : m \in Machines} \cup {0}
        /\ \A k \in Keys \ {"pc", "end", "seen"} : run'[r][k] = run[r][k]
        /\ run'[r] = [k \in Keys |-> run'[r][k]]
        /\ run'[r] \in RunRecords => run' \in [Runs -> RunRecords]
    <3>1. CASE ReverifiesSources(r)
      <4>1. Moves(r, [end |-> [NoIdentity EXCEPT !.admission = AdmissionOf(machine)], pc |-> "retargets"])
        BY <1>4, <3>1 DEF ReverifiesSources
      <4>2. [NoIdentity EXCEPT !.admission = AdmissionOf(machine)] \in Identities
        BY <1>1, RecordIs, IdentityFits
      <4>3. /\ \A q \in Runs \ {r} : run'[q] = run[q]
            /\ run'[r].pc = "retargets"
            /\ run'[r].end = [NoIdentity EXCEPT !.admission = AdmissionOf(machine)]
            /\ run'[r].seen = run[r].seen
            /\ \A k \in Keys \ {"pc", "end", "seen"} : run'[r][k] = run[r][k]
            /\ run'[r] = [k \in Keys |-> run'[r][k]]
            /\ run'[r] \in RunRecords => run' \in [Runs -> RunRecords]
        BY <1>1, <4>1, Moved DEF Keys
      <4> QED BY <1>1, <4>2, <4>3, RecordIs DEF Verifying
    <3>2. CASE ResnapshotsTarget(r)
      <4>1. PICK e : e = [run[r].end EXCEPT !.target = TargetOf(machine.target)]
        OBVIOUS
      <4>2. Moves(r, [end |-> e, pc |-> "reservers"])
        BY <1>4, <3>2, <4>1 DEF ResnapshotsTarget
      <4>3. e \in Identities
        BY <1>1, <4>1, RecordIs, IdentityFits
      <4>4. /\ \A q \in Runs \ {r} : run'[q] = run[q]
            /\ run'[r].pc = "reservers"
            /\ run'[r].end = e
            /\ run'[r].seen = run[r].seen
            /\ \A k \in Keys \ {"pc", "end", "seen"} : run'[r][k] = run[r][k]
            /\ run'[r] = [k \in Keys |-> run'[r][k]]
            /\ run'[r] \in RunRecords => run' \in [Runs -> RunRecords]
        BY <1>1, <4>2, Moved DEF Keys
      <4> QED BY <1>1, <4>3, <4>4, RecordIs DEF Verifying
    <3>3. CASE ResnapshotsServer(r)
      <4>1. Moves(r, [end |-> [run[r].end EXCEPT !.server = machine.server], seen |-> 0, pc |-> "edits"])
        BY <1>4, <3>3 DEF ResnapshotsServer
      <4>2. [run[r].end EXCEPT !.server = machine.server] \in Identities
        BY <1>1, RecordIs, IdentityFits
      <4>3. /\ \A q \in Runs \ {r} : run'[q] = run[q]
            /\ run'[r].pc = "edits"
            /\ run'[r].end = [run[r].end EXCEPT !.server = machine.server]
            /\ run'[r].seen = 0
            /\ \A k \in Keys \ {"pc", "end", "seen"} : run'[r][k] = run[r][k]
            /\ run'[r] = [k \in Keys |-> run'[r][k]]
            /\ run'[r] \in RunRecords => run' \in [Runs -> RunRecords]
        BY <1>1, <4>1, Moved DEF Keys
      <4> QED BY <1>1, <4>2, <4>3, RecordIs DEF Verifying
    <3>4. CASE ReadsServer(r) /\ At(r, "reservers")
      <4>1. Moves(r, [seen |-> machine.server.pid, pc |-> "rehashes"])
        BY <1>4, <3>4 DEF ReadsServer, At
      <4>2. /\ \A q \in Runs \ {r} : run'[q] = run[q]
            /\ run'[r].pc = "rehashes"
            /\ run'[r].end = run[r].end
            /\ run'[r].seen = machine.server.pid
            /\ \A k \in Keys \ {"pc", "end", "seen"} : run'[r][k] = run[r][k]
            /\ run'[r] = [k \in Keys |-> run'[r][k]]
            /\ run'[r] \in RunRecords => run' \in [Runs -> RunRecords]
        BY <1>1, <4>1, Moved DEF Keys
      <4> QED BY <1>1, <4>2, RecordIs DEF Verifying
    <3> QED BY <3>1, <3>2, <3>3, <3>4
  <2>2. run'[r] \in RunRecords
    BY <1>1, <2>1, RecordIs, RecordFits DEF Keys, Places
  <2>3. RunTypes'
    BY <1>2, <2>1, <2>2 DEF RunInv, RunTypes
  <2>4. LogIsOwn(r)' /\ Undecided(r)'
    BY <1>1, <1>2, <2>1 DEF Keys, RunFits, LogIsOwn, Undecided, Entering, Verifying
  <2>5. ReturnsItsLog(r)'
    BY <1>1, <1>2, <2>1 DEF Keys, RunFits, ReturnsItsLog, Verifying
  <2>6. OneAnswer(r)' <=> OneAnswer(r)
    BY <2>1 DEF Keys, OneAnswer, Native
  <2>7. AdmittedOn(r)' /\ AsksOnce(r)' /\ EndsWell(r)'
    BY <1>1, <1>2, <2>1, <2>6 DEF Keys, RunFits, AdmittedOn, AsksOnce, EndsWell, Native, Entering, Verifying
  <2> QED BY <1>2, <2>1, <2>3, <2>4, <2>5, <2>6, <2>7 DEF Stays, RunFits
<1> QED BY <1>3, <1>4

\* The end is written to the log, then compared with the start.
LEMMA EditsFits ==
    ASSUME RunInv, NEW r \in Runs, EditsLog(r)
    PROVE  RunTypes' /\ RunFits(r)' /\ \A q \in Runs \ {r} : Stays(q)
<1>1. run \in [Runs -> RunRecords] /\ run[r] \in RunRecords /\ RunFits(r) /\ logs \in Seq(LogRecords)
  BY Standing
<1>2. /\ UNCHANGED <<machine, evidence>> /\ run[r].pc = "edits"
      /\ logs' = [logs EXCEPT ![run[r].log].end = run[r].end]
  BY DEF EditsLog, At
<1>3. run[r].log \in DOMAIN logs /\ logs[run[r].log].owner = r /\ run[r].log \in Nat /\ run[r].log # 0
      /\ run[r].pc \in Verifying
  BY <1>1, <1>2, RecordIs DEF RunFits, LogIsOwn, Verifying
<1>4. /\ logs' \in Seq(LogRecords) /\ DOMAIN logs' = DOMAIN logs
      /\ \A i \in DOMAIN logs : /\ logs'[i].owner = logs[i].owner
                                /\ logs'[i].status = logs[i].status
                                /\ i # run[r].log => logs'[i] = logs[i]
  <2> DEFINE l == run[r].log
             edited == [logs[l] EXCEPT !.end = run[r].end]
  <2>1. logs[l] \in LogRecords /\ run[r].end \in Identities
    BY <1>1, <1>3, RecordIs
  <2>2. edited \in LogRecords /\ edited.owner = logs[l].owner /\ edited.status = logs[l].status
    BY <2>1 DEF LogRecords
  <2>3. logs' = [logs EXCEPT ![l] = edited]
    BY <1>2
  <2> HIDE DEF l, edited
  <2>4. logs' \in Seq(LogRecords) /\ DOMAIN logs' = DOMAIN logs
    BY <1>1, <1>3, <2>2, <2>3 DEF l
  <2>5. logs'[l] = edited /\ \A i \in DOMAIN logs : i # l => logs'[i] = logs[i]
    BY <1>1, <1>3, <2>3 DEF l
  <2> QED BY <2>2, <2>4, <2>5 DEF l
<1>5. ASSUME \A q \in Runs \ {r} : run'[q] = run[q]
      PROVE  \A q \in Runs \ {r} : Stays(q)
  BY <1>2, <1>3, <1>4, <1>5 DEF Stays
<1>6. CASE run[r].end = run[r].start
  <2>1. Moves(r, [pc |-> "finalizes"])
    BY <1>6 DEF EditsLog
  <2>2. /\ \A q \in Runs \ {r} : run'[q] = run[q]
        /\ run'[r].pc = "finalizes"
        /\ \A k \in Keys \ {"pc"} : run'[r][k] = run[r][k]
        /\ run'[r] = [k \in Keys |-> run'[r][k]]
        /\ run'[r] \in RunRecords => run' \in [Runs -> RunRecords]
    BY <1>1, <2>1, Moved DEF Keys
  <2>3. run'[r] \in RunRecords
    <3>1. run'[r].pc \in Places /\ run'[r].strict \in BOOLEAN
      BY <1>1, <2>2, RecordIs DEF Keys, Places
    <3> QED BY <1>1, <2>2, <3>1, RecordIs, RecordFits DEF Keys
  <2>4. RunTypes'
    BY <1>2, <1>4, <2>2, <2>3 DEF RunInv, RunTypes
  <2>5. OneAnswer(r)' <=> OneAnswer(r)
    BY <2>2 DEF Keys, OneAnswer, Native
  <2>6. AsksOnce(r)' /\ EndsWell(r)'
    BY <1>1, <1>3, <1>4, <2>2, <2>5 DEF Keys, RunFits, AsksOnce, EndsWell, Entering, Verifying
  <2>7. LogIsOwn(r)' /\ Undecided(r)'
    BY <1>1, <1>2, <1>3, <1>4, <2>2 DEF Keys, RunFits, LogIsOwn, Undecided, Entering, Verifying
  <2>8. ReturnsItsLog(r)' /\ AdmittedOn(r)'
    BY <1>1, <1>3, <1>6, <2>2
       DEF Keys, RunFits, Undecided, ReturnsItsLog, AdmittedOn, Native, Entering, Verifying
  <2> QED BY <1>5, <2>2, <2>4, <2>6, <2>7, <2>8 DEF RunFits
<1>7. CASE run[r].end # run[r].start
  <2>1. Rejects(r)
    BY <1>7 DEF EditsLog
  <2>2. RunTypes' /\ RunFits(r)' /\ \A q \in Runs \ {r} : run'[q] = run[q]
    BY <1>2, <1>3, <1>4, <2>1, RejectsFits
  <2> QED BY <1>5, <2>2
<1> QED BY <1>6, <1>7
\* The first log that does not fit ends the copying; what came before it, and
\* itself, is in the evidence.
LEMMA FinalizesFits ==
    ASSUME RunInv, NEW r \in Runs, Finalizes(r)
    PROVE  RunTypes' /\ RunFits(r)' /\ \A q \in Runs \ {r} : Stays(q)
<1>1. run \in [Runs -> RunRecords] /\ run[r] \in RunRecords /\ RunFits(r) /\ logs \in Seq(LogRecords)
      /\ evidence \in [Runs -> SUBSET Nat]
  BY DEF RunInv, RunTypes
<1>2. UNCHANGED <<machine, logs>> /\ run[r].pc = "finalizes" /\ evidence' = [evidence EXCEPT ![r] = @ \cup Copied(r)]
  BY DEF Finalizes, At
<1>3. /\ \A q \in Runs \ {r} : run'[q] = run[q]
      /\ run'[r].pc = "over"
      /\ run'[r].verdict = IF run[r].verdict # "none" THEN run[r].verdict
                           ELSE IF Unfit(r) = {} THEN "accepted" ELSE "rejected"
      /\ \A k \in Keys \ {"pc", "verdict"} : run'[r][k] = run[r][k]
      /\ run'[r] = [k \in Keys |-> run'[r][k]]
      /\ run'[r] \in RunRecords => run' \in [Runs -> RunRecords]
  <2>1. PICK f : /\ f = [pc |-> "over",
                         verdict |-> IF run[r].verdict # "none" THEN run[r].verdict
                                     ELSE IF Unfit(r) = {} THEN "accepted" ELSE "rejected"]
                 /\ Moves(r, f)
    BY DEF Finalizes
  <2>2. /\ DOMAIN f = {"pc", "verdict"} /\ f["pc"] = "over"
        /\ f["verdict"] = IF run[r].verdict # "none" THEN run[r].verdict
                          ELSE IF Unfit(r) = {} THEN "accepted" ELSE "rejected"
    BY <2>1
  <2>3. /\ \A q \in Runs \ {r} : run'[q] = run[q]
        /\ run'[r] = [k \in Keys |-> run'[r][k]]
        /\ \A k \in Keys : run'[r][k] = IF k \in DOMAIN f THEN f[k] ELSE run[r][k]
        /\ run'[r] \in RunRecords => run' \in [Runs -> RunRecords]
    BY <1>1, <2>1, Moved
  <2>4. \A k \in Keys \ {"pc", "verdict"} : run'[r][k] = run[r][k]
    BY <2>2, <2>3
  <2>5. run'[r]["pc"] = f["pc"] /\ run'[r]["verdict"] = f["verdict"]
    BY <2>2, <2>3 DEF Keys
  <2> QED BY <2>2, <2>3, <2>4, <2>5
<1>4. Copied(r) \subseteq run[r].returned /\ run[r].returned \subseteq Nat
  BY <1>1, RecordIs DEF Copied
<1>5. run'[r] \in RunRecords
  <2>1. /\ run'[r].verdict \in {"none", "refused", "interrupted", "rejected", "accepted"}
        /\ run'[r].pc \in Places
    BY <1>1, <1>3, RecordIs DEF Places
  <2>2. run'[r].strict \in BOOLEAN
    BY <1>1, <1>3, RecordIs DEF Keys
  <2>3. /\ run'[r] = [k \in Keys |-> run'[r][k]]
        /\ \A k \in Keys \ {"pc", "verdict", "strict"} : run'[r][k] = run[r][k]
    BY <1>3
  <2> QED BY <1>1, <2>1, <2>2, <2>3, RecordIs, RecordFits DEF Keys
<1>6. RunTypes'
  <2>1. evidence' \in [Runs -> SUBSET Nat]
    BY <1>1, <1>2, <1>4
  <2> QED BY <1>2, <1>3, <1>5, <2>1 DEF RunInv, RunTypes
<1>7. evidence'[r] = Copied(r)
  BY <1>1, <1>2 DEF RunFits, Undecided
<1>8. /\ UNCHANGED <<run[r].log, run[r].before, run[r].start, run[r].end, run[r].sample>>
      /\ New(r)' = New(r) /\ (OneAnswer(r)' <=> OneAnswer(r))
  BY <1>2, <1>3 DEF Keys, New, OneAnswer, Native
<1>9. ASSUME run'[r].verdict = "accepted"
      PROVE  /\ OneAnswer(r)
             /\ \A i \in Copied(r) : i \in DOMAIN logs /\ logs[i].owner = r
             /\ Native(r) => run[r].start = run[r].end
  <2>1. run[r].verdict = "none" /\ Unfit(r) = {}
    BY <1>1, <1>2, <1>3, <1>9 DEF RunFits, Undecided
  <2>2. run[r].returned = {run[r].log} /\ run[r].log # 0 /\ run[r].strict
    BY <1>1, <1>2, <2>1 DEF RunFits, ReturnsItsLog
  <2>3. Fits(r, logs[run[r].log])
    BY <2>1, <2>2 DEF Unfit
  <2>4. logs[run[r].log].status = "success"
    BY <2>2, <2>3 DEF Fits
  <2>5. OneAnswer(r)
    BY <1>1, <1>2, <2>1, <2>4 DEF RunFits, AsksOnce
  <2>6. run[r].log \in DOMAIN logs /\ logs[run[r].log].owner = r
    BY <1>1, <2>2 DEF RunFits, LogIsOwn
  <2>7. Native(r) => run[r].start = run[r].end
    BY <1>1, <1>2, <2>1 DEF RunFits, AdmittedOn
  <2> QED BY <1>4, <2>2, <2>5, <2>6, <2>7
<1>10. ASSUME run[r].log # 0
       PROVE  \/ run[r].log \in Copied(r)
              \/ run'[r].verdict = "interrupted" /\ \E i \in New(r) : i < run[r].log
  <2>1. run[r].log \in Nat
    BY <1>1, RecordIs
  <2>2. CASE run[r].verdict = "interrupted"
    <3>1. run[r].returned \subseteq New(r) /\ run[r].log \in run[r].returned
      BY <1>1, <1>2, <1>10, <2>2 DEF RunFits, ReturnsItsLog
    <3>2. CASE \A j \in Unfit(r) : run[r].log <= j
      BY <3>1, <3>2 DEF Copied
    <3>3. CASE \E j \in Unfit(r) : ~(run[r].log <= j)
      <4>1. PICK j \in Unfit(r) : ~(run[r].log <= j)
        BY <3>3
      <4>2. j \in run[r].returned
        BY DEF Unfit
      <4>3. j < run[r].log /\ j \in New(r)
        BY <1>4, <2>1, <3>1, <4>1, <4>2
      <4> QED BY <1>3, <2>2, <4>3
    <3> QED BY <3>2, <3>3
  <2>3. CASE run[r].verdict # "interrupted"
    <3>1. run[r].returned = {run[r].log}
      BY <1>1, <1>2, <2>3 DEF RunFits, Undecided, ReturnsItsLog
    <3>2. \A j \in Unfit(r) : run[r].log <= j
      BY <2>1, <3>1 DEF Unfit
    <3> QED BY <3>1, <3>2 DEF Copied
  <2> QED BY <2>2, <2>3
<1>11. EndsWell(r)'
  <2>1. run'[r].verdict = "accepted" =>
          /\ OneAnswer(r)'
          /\ \A i \in evidence'[r] : i \in DOMAIN logs' /\ logs'[i].owner = r
          /\ Native(r) => run'[r].start = run'[r].end
    BY <1>2, <1>7, <1>8, <1>9
  <2>2. run'[r].log # 0 =>
          \/ run'[r].log \in evidence'[r]
          \/ run'[r].verdict = "interrupted" /\ \E i \in New(r)' : i < run'[r].log
    BY <1>7, <1>8, <1>10
  <2> QED BY <2>1, <2>2 DEF EndsWell, Native
<1>12. LogIsOwn(r)' /\ Undecided(r)' /\ ReturnsItsLog(r)' /\ AdmittedOn(r)' /\ AsksOnce(r)'
  BY <1>1, <1>2, <1>3, <1>8
     DEF RunFits, LogIsOwn, Undecided, ReturnsItsLog, AdmittedOn, AsksOnce, Entering, Verifying
<1>13. \A q \in Runs \ {r} : Stays(q)
  BY <1>1, <1>2, <1>3 DEF Stays
<1> QED BY <1>6, <1>11, <1>12, <1>13 DEF RunFits

-----------------------------------------------------------------------------
(* The specification.                                                      *)

\* The invariant holds where the machine is admitted and no run has begun.
LEMMA RunBegins ==
    ASSUME RunInit
    PROVE  RunInv
<1>1. machine \in Machines /\ logs = <<>> /\ evidence = [r \in Runs |-> {}]
  BY DEF RunInit
<1>2. run = [r \in Runs |->
                [pc |-> "admits", start |-> NoIdentity, end |-> NoIdentity, seen |-> 0, before |-> {},
                 log |-> 0, chain |-> <<>>, sample |-> NoSample, returned |-> {}, strict |-> TRUE,
                 verdict |-> "none"]]
  BY DEF RunInit
<1>3. NoIdentity \in Identities /\ NoSample \in SampleRecords
  BY DEF NoIdentity, Identities, NoSample, SampleRecords
<1>4. ASSUME NEW r \in Runs PROVE run[r] \in RunRecords /\ RunFits(r)
  <2>1. run[r] \in RunRecords
    BY <1>2, <1>3 DEF RunRecords, Places, Entering
  <2>2. /\ run[r].pc = "admits" /\ run[r].log = 0 /\ run[r].before = {} /\ run[r].verdict = "none"
        /\ run[r].sample = NoSample
    BY <1>2
  <2> QED BY <1>1, <2>1, <2>2
          DEF RunFits, LogIsOwn, Undecided, ReturnsItsLog, AdmittedOn, AsksOnce, EndsWell, Entering, Verifying
<1>5. logs \in Seq(LogRecords) /\ evidence \in [Runs -> SUBSET Nat]
  BY <1>1
<1>6. run \in [Runs -> RunRecords]
  BY <1>2, <1>4
<1> QED BY <1>1, <1>4, <1>5, <1>6 DEF RunInv, RunTypes

\* A run's step keeps what the invariant says of it, and leaves the others be.
LEMMA RunStepKeeps ==
    ASSUME RunInv, NEW r \in Runs, RunSteps(r)
    PROVE  RunInv'
<1>1. RunTypes' /\ RunFits(r)' /\ \A q \in Runs \ {r} : Stays(q)
  <2>1. CASE VerifiesSources(r) \/ SnapshotsTarget(r) \/ SnapshotsServer(r) \/ (ReadsServer(r) /\ At(r, "servers"))
    BY <2>1, EntersFits
  <2>2. CASE ListsLogs(r)
    BY <2>2, ListsFits
  <2>3. CASE CreatesLog(r)
    BY <2>3, CreatesFits
  <2>4. CASE SolvesStep(r)
    BY <2>4, SolvesFits
  <2>5. CASE ClosesLog(r)
    BY <2>5, ClosesFits
  <2>6. CASE IsInterrupted(r)
    BY <2>6, InterruptedFits
  <2>7. CASE \/ ReverifiesSources(r) \/ ResnapshotsTarget(r) \/ ResnapshotsServer(r)
             \/ ReadsServer(r) /\ At(r, "reservers")
    BY <2>7, ReverifiesFits
  <2>8. CASE EditsLog(r)
    BY <2>8, EditsFits
  <2>9. CASE Finalizes(r)
    BY <2>9, FinalizesFits
  <2>10. ReadsServer(r) => At(r, "servers") \/ At(r, "reservers")
    BY DEF ReadsServer, At
  <2> QED BY <2>1, <2>2, <2>3, <2>4, <2>5, <2>6, <2>7, <2>8, <2>9, <2>10 DEF RunSteps
<1>2. \A q \in Runs \ {r} : RunFits(q)'
  BY <1>1, RestFits DEF RunInv
<1> QED BY <1>1, <1>2 DEF RunInv

\* The invariant holds at every step.
LEMMA RunKeeps ==
    ASSUME RunInv, [RunNext]_runVars
    PROVE  RunInv'
<1>1. ASSUME NEW r \in Runs, RunSteps(r) PROVE RunInv'
  BY <1>1, RunStepKeeps
<1>2. CASE UNCHANGED <<logs, run, evidence>> /\ machine' \in Machines
  <2>1. RunTypes'
    BY <1>2 DEF RunInv, RunTypes
  <2>2. \A q \in Runs : Stays(q)
    BY <1>2 DEF Stays
  <2>3. \A q \in Runs : RunFits(q)'
    BY <2>2, RestFits DEF RunInv
  <2> QED BY <2>1, <2>3 DEF RunInv
<1>3. MachineMoves => UNCHANGED <<logs, run, evidence>> /\ machine' \in Machines
  BY DEF MachineMoves
<1>4. UNCHANGED runVars => UNCHANGED <<logs, run, evidence>> /\ machine' \in Machines
  BY DEF runVars, RunInv, RunTypes
<1> QED BY <1>1, <1>2, <1>3, <1>4 DEF RunNext

LEMMA RunInvHolds == RunSpec => []RunInv
<1>1. RunInit => RunInv
  BY RunBegins
<1>2. RunInv /\ [RunNext]_runVars => RunInv'
  BY RunKeeps
<1> QED BY <1>1, <1>2, PTL DEF RunSpec

\* What the runs, the logs and the evidence directories hold is of the types
\* that run_native_task and run_bench pass on.
THEOREM RunTypeCorrect == RunSpec => []RunTypes
<1>1. RunInv => RunTypes
  BY DEF RunInv
<1> QED BY <1>1, RunInvHolds, PTL

\* An accepted run (finalize_native_logs returned) is one answer, its evidence
\* is its own log, and a native run ended as it was admitted and was answered
\* by the server it was admitted on: for any runs sharing the log directory,
\* and however often the machine changes under them.
THEOREM AcceptedRunIsAnswered == RunSpec => []AcceptedIsOneAdmittedAnswer
<1>1. ASSUME RunInv, NEW r \in Runs, run[r].verdict = "accepted"
      PROVE  /\ run[r].sample.drives = 1
             /\ \A i \in evidence[r] : logs[i].owner = r
             /\ Native(r) =>
                  /\ run[r].start = run[r].end
                  /\ run[r].sample.servers = {run[r].start.server.responseModel}
  <2>1. RunFits(r)
    BY <1>1 DEF RunInv
  <2>2. run[r].pc = "over"
    BY <1>1, <2>1 DEF RunFits, Undecided
  <2> QED BY <1>1, <2>1, <2>2 DEF RunFits, EndsWell, OneAnswer
<1>2. RunInv => AcceptedIsOneAdmittedAnswer
  BY <1>1 DEF AcceptedIsOneAdmittedAnswer
<1> QED BY <1>2, RunInvHolds, PTL

\* A run that is over has its own log in its evidence, rejected or accepted;
\* only an interrupted one may stop at a log another run created before it.
THEOREM LogIsKept == RunSpec => []RejectedRunKeepsItsLog
<1>1. ASSUME RunInv, NEW r \in Runs, run[r].pc = "over", run[r].log # 0
      PROVE  \/ run[r].log \in evidence[r]
             \/ run[r].verdict = "interrupted" /\ \E i \in New(r) : i < run[r].log
  BY <1>1 DEF RunInv, RunFits, EndsWell
<1>2. RunInv => RejectedRunKeepsItsLog
  BY <1>1 DEF RejectedRunKeepsItsLog
<1> QED BY <1>2, RunInvHolds, PTL
=============================================================================
