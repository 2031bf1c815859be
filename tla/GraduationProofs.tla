-------------------------- MODULE GraduationProofs --------------------------
(***************************************************************************)
(* What TLAPS proves of a live sample of the graduation evaluation, for    *)
(* any scenarios, budgets and faults, and any number of processes, runs    *)
(* and wakes: where the root of a live process can be deleted, what a      *)
(* scored sample ran on, that its second phase is another process, and     *)
(* that it leaves nothing behind.                                          *)
(***************************************************************************)
EXTENDS GraduationEval, TLAPS

Seeding == {"seeds", "delivers", "waits", "listens", "rechecks", "parks"}
Reading == {"snapshots", "asserts"}
Held    == {"provider", "checkpoints", "releases"} \cup Seeding \cup Reading
Ending  == {"releases", "releasing", "over"}
Places  == {"acquires", "acquiring", "restarting", "releasing", "over"} \cup Held

AnyFixture == Fixtures \cup {NoFixture}

DriveFields == [plan : Drawn, phase : {1, 2}, before : Nat, ids : SUBSET Nat,
                checkpoint : [pid : Nat, runs : SUBSET Nat],
                snapshot : [fixture : AnyFixture, runs : SUBSET Nat, pid : Nat],
                closed : SUBSET Nat, held : BOOLEAN]

LeaseFields == [stopped : BOOLEAN, released : BOOLEAN, attempted : BOOLEAN, started : BOOLEAN]

RunFields == [open : BOOLEAN, pid : Nat]

DbFields == [declared : Nat, seedRunOpen : BOOLEAN, fixture : AnyFixture,
             runs : Seq(RunFields), wakes : Nat]

Types ==
    /\ root \in {"absent", "present", "erased"} /\ jvm \in {"none", "booting", "alive"}
    /\ pid \in Nat
    /\ lease \in LeaseFields /\ drive \in DriveFields /\ db \in DbFields
    /\ scenario \in DOMAIN Budgets
    /\ pc \in Places /\ verdict \in {"none", "failed", "voided", "scored"}

\* The method the harness thread is in, and where it called it.
Control ==
    /\ call \in {"none", "start", "restart", "release"}
    /\ call = "none" <=> at = "idle"
    /\ call = "start" => /\ pc = "acquiring"
                         /\ at \in {"links", "recovers", "init", "names", "starts", "readies",
                                    "cleans", "ends", "erases"}
    /\ call = "restart" => /\ pc = "restarting"
                           /\ at \in {"stops", "rechecks", "starts", "readies"}
    /\ call = "release" => pc = "releasing" /\ at \in {"ends", "erases"}
    /\ pc = "releasing" /\ call = "none" => answer \in {"ok", "failed"}
    /\ pc \notin Ending => verdict = "none"

\* How far the root, the lease's flags and the process agree.  A process the
\* lease does not know of is one of a start that failed.
FailedStart ==
    /\ pc \in {"acquiring", "over"} /\ root = "present" /\ verdict # "scored"
    /\ lease.attempted /\ ~lease.started
    /\ at = "cleans" \/ (call = "none" /\ answer # "ok")

FailedRestart ==
    /\ drive.checkpoint.pid > 0 /\ drive.phase = 1 /\ verdict # "scored"
    /\ pc \in Ending \/ (pc = "restarting" /\ call = "none" /\ answer = "failed")

Leased ==
    /\ ~lease.attempted => jvm = "none" /\ lease.stopped /\ ~lease.started
    /\ pc = "acquires" => root = "absent" /\ ~lease.attempted
    /\ \/ pc \in Held \cup {"restarting"} \/ call = "release"
       \/ pc = "acquiring" /\ call = "none" /\ answer = "ok"
       => root = "present" /\ ~lease.released /\ lease.attempted
    /\ call = "start" => root = "present" /\ ~lease.released
    /\ call = "start" => /\ at \in {"links", "recovers", "init", "names"} => ~lease.attempted
                         /\ at = "starts" => lease.attempted /\ ~lease.started
    /\ at \in {"rechecks", "erases"} \/ (at = "starts" /\ call = "restart") => lease.stopped
    /\ at = "readies" => ~lease.stopped
    /\ pc = "restarting" => drive.phase = 1 /\ drive.checkpoint.pid > 0
    /\ pc = "checkpoints" => drive.phase = 1
    /\ root = "erased" => lease.stopped
    /\ lease.released => root = "erased"
    /\ pc = "releasing" /\ call = "none" /\ answer = "ok" => root = "erased"
    /\ verdict = "scored" /\ pc = "over" => root = "erased"
    /\ lease.stopped /\ jvm # "none" => FailedStart \/ FailedRestart

\* What a sample has behind it when it is scored, and why one is voided.
Scored ==
    /\ pc \in Seeding \cup Reading \cup {"checkpoints", "restarting"} => ProviderMatches(provider)
    /\ pc \in {"acquires", "acquiring", "provider"} \cup Seeding =>
          /\ drive.phase = 1 => drive.closed = {}
          /\ drive.phase = 2 => drive.closed = {1} /\ Phases = 2
    /\ pc \in {"checkpoints", "restarting"} => drive.closed = {1} /\ drive.phase = 1 /\ Phases = 2
    /\ pc \in Reading => drive.closed = 1..Phases /\ drive.phase = Phases
    /\ verdict = "scored" =>
          /\ ProviderMatches(provider)
          /\ Expected(scenario, drive.snapshot.fixture) = Expected(scenario, drive.plan)
          /\ drive.closed = 1..Phases /\ drive.phase = Phases
    /\ verdict = "voided" =>
          \/ ~ProviderMatches(provider)
          \/ Alike(drive.plan.rows)
          \/ Expected(scenario, drive.snapshot.fixture) # Expected(scenario, drive.plan)

\* Every process has a number of its own, and so has every run of a phase.
Processes ==
    /\ jvm # "none" => pid > 0
    /\ pc = "restarting" => drive.checkpoint.pid <= pid
    /\ \/ drive.phase = 2
       \/ pc = "restarting" /\ (at = "readies" \/ (call = "none" /\ answer = "ok"))
       => drive.checkpoint.pid < pid
    /\ drive.phase = 2 /\ pc \in (Seeding \ {"seeds", "delivers"}) \cup Reading =>
          \A i \in DOMAIN db.runs : i > drive.before => db.runs[i].pid > drive.checkpoint.pid
    /\ pc = "snapshots" =>
          \A i \in drive.ids : i \in DOMAIN db.runs /\ i > drive.before
    /\ drive.phase = 2 /\ (pc = "asserts" \/ verdict = "scored") =>
          \A p \in drive.snapshot.runs : p > drive.checkpoint.pid

SampleInv == Types /\ Control /\ Leased /\ Scored /\ Processes

LEMMA SampleInit == LeaseInit /\ DriveInit => SampleInv
<1> SUFFICES ASSUME LeaseInit, DriveInit PROVE SampleInv
    OBVIOUS
<1> USE DEF LeaseInit, DriveInit
<1>1. lease \in LeaseFields BY Zenon DEF Fresh, LeaseFields
<1>2. drive \in DriveFields BY DEF DriveFields, NoCheckpoint, NoSnapshot, AnyFixture
<1>3. db \in DbFields
  <2>1. <<>> \in Seq(RunFields) OBVIOUS
  <2> QED BY <2>1 DEF DbFields, AnyFixture
<1>4. Types BY <1>1, <1>2, <1>3 DEF Types, Places
<1>5. Control BY DEF Control, Ending
<1>6. lease.stopped /\ ~lease.started /\ ~lease.released /\ ~lease.attempted BY DEF Fresh
<1>7. Leased BY <1>6 DEF Leased, Held, Seeding, Reading
<1>8. Scored BY DEF Scored, Seeding, Reading
<1>9. Processes BY DEF Processes, Seeding, Reading
<1> QED BY <1>4, <1>5, <1>7, <1>8, <1>9 DEF SampleInv

-----------------------------------------------------------------------------
(* The lease's own steps and the JVM's.                                    *)

LEMMA LeaseFlags ==
    ASSUME NEW l \in LeaseFields, NEW b \in BOOLEAN
    PROVE  /\ [l EXCEPT !.stopped = b] \in LeaseFields
           /\ [l EXCEPT !.released = b] \in LeaseFields
           /\ [l EXCEPT !.attempted = b] \in LeaseFields
           /\ [l EXCEPT !.stopped = FALSE, !.started = TRUE] \in LeaseFields
BY DEF LeaseFields

\* Nothing of the sample but its lease changes.
LEMMA LeaseTypes ==
    ASSUME Types, UNCHANGED driveVars, pid' \in Nat, lease' \in LeaseFields,
           root' \in {"absent", "present", "erased"}, jvm' \in {"none", "booting", "alive"}
    PROVE  Types'
BY DEF Types, driveVars

LEMMA StartKeeps ==
    ASSUME SampleInv, UNCHANGED driveVars, LinksRoot \/ StartRecovers \/ Inits \/ InitsName
    PROVE  SampleInv'
<1> USE DEF SampleInv, Goto, Ends, Raises, world, driveVars
<1>1. Types /\ Control /\ Leased /\ Scored /\ Processes OBVIOUS
<1>2. Types'
  <2>1. lease' \in LeaseFields
    BY LeaseFlags DEF LinksRoot, StartRecovers, Recovers, Inits, InitsName, Types
  <2> QED BY <2>1, LeaseTypes DEF LinksRoot, StartRecovers, Recovers, Inits, InitsName, Types
<1>3. Control'
  BY DEF LinksRoot, StartRecovers, Recovers, Inits, InitsName, Control
<1>4. Leased'
  BY DEF LinksRoot, StartRecovers, Recovers, Inits, InitsName, Control, Leased, FailedStart,
         FailedRestart, Types, LeaseFields, Held, Seeding, Reading, Ending
<1>5. Scored' BY DEF Scored, Phases, ProviderMatches
<1>6. Processes'
  BY DEF LinksRoot, StartRecovers, Recovers, Inits, InitsName, Control, Processes
<1> QED BY <1>2, <1>3, <1>4, <1>5, <1>6

LEMMA LaunchKeeps ==
    ASSUME SampleInv, UNCHANGED driveVars, Starts \/ Readies \/ CleansUp
    PROVE  SampleInv'
<1> USE DEF SampleInv, Goto, Ends, Raises, world, driveVars, Launched, StartCompletes, StartFails
<1>1. Types /\ Control /\ Leased /\ Scored /\ Processes OBVIOUS
<1>2. Types'
  <2>1. lease' \in LeaseFields BY LeaseFlags DEF Starts, Readies, CleansUp, Types
  <2> QED BY <2>1, LeaseTypes DEF Starts, Readies, CleansUp, Types
<1>3. Control' BY DEF Starts, Readies, CleansUp, Control
<1>4. Leased'
  <2> USE DEF Control, Leased, FailedStart, FailedRestart, Types, LeaseFields, Held, Seeding, Reading,
              Ending
  <2>1. CASE Starts
    <3>1. CASE StartCompletes /\ lease' = [lease EXCEPT !.stopped = FALSE, !.started = TRUE]
               /\ Goto("readies") /\ root' = root
      <4>1. ~lease'.stopped /\ lease'.attempted = lease.attempted /\ lease'.released = lease.released
        BY <3>1
      <4>2. at = "starts" /\ call \in {"start", "restart"} /\ lease.attempted
        <5>1. at = "starts" BY <2>1 DEF Starts
        <5> QED BY <5>1
      <4> QED BY <3>1, <4>1, <4>2
    <3>2. CASE StartFails /\ Raises /\ lease' = lease /\ root' = root
      <4>1. at = "starts" /\ call \in {"start", "restart"} BY <2>1 DEF Starts
      <4>2. CASE call = "start" BY <3>2, <4>1, <4>2
      <4>3. CASE call = "restart" BY <3>2, <4>1, <4>3
      <4> QED BY <4>1, <4>2, <4>3
    <3> QED BY <2>1, <3>1, <3>2 DEF Starts
  <2>2. CASE Readies BY <2>2 DEF Readies
  <2>3. CASE CleansUp BY <2>3 DEF CleansUp
  <2> QED BY <2>1, <2>2, <2>3
<1>5. Scored' BY DEF Scored, Phases, ProviderMatches
<1>6. Processes'
  <2> USE DEF Control, Processes, Types, DriveFields
  <2>1. CASE Starts BY <2>1 DEF Starts
  <2>2. CASE Readies BY <2>2 DEF Readies
  <2>3. CASE CleansUp BY <2>3 DEF CleansUp
  <2> QED BY <2>1, <2>2, <2>3
<1> QED BY <1>2, <1>3, <1>4, <1>5, <1>6

LEMMA StopKeeps ==
    ASSUME SampleInv, UNCHANGED driveVars, RestartSteps \/ ReleaseSteps
    PROVE  SampleInv'
<1> USE DEF SampleInv, Goto, Ends, Raises, world, driveVars, StopCompletes, StopFails, RestartSteps,
            ReleaseSteps, Recovers, RestartRecovers
<1>1. Types /\ Control /\ Leased /\ Scored /\ Processes OBVIOUS
<1>2. Types'
  <2>1. lease' \in LeaseFields BY LeaseFlags DEF StopsForRestart, StopsAtEnd, Erases, Types
  <2> QED BY <2>1, LeaseTypes DEF StopsForRestart, StopsAtEnd, Erases, Types
<1>3. Control' BY DEF StopsForRestart, StopsAtEnd, Erases, Control
<1>4. Leased'
  <2> USE DEF Control, Leased, FailedStart, FailedRestart, Types, LeaseFields, Held, Seeding, Reading,
              Ending
  <2>1. CASE StopsForRestart BY <2>1 DEF StopsForRestart
  <2>2. CASE RestartRecovers BY <2>2
  <2>3. CASE StopsAtEnd BY <2>3 DEF StopsAtEnd
  <2>4. CASE Erases BY <2>4 DEF Erases
  <2> QED BY <2>1, <2>2, <2>3, <2>4
<1>5. Scored' BY DEF Scored, Phases, ProviderMatches
<1>6. Processes'
  <2> USE DEF Control, Processes, Types, DriveFields
  <2>1. CASE StopsForRestart BY <2>1 DEF StopsForRestart
  <2>2. CASE RestartRecovers BY <2>2
  <2>3. CASE StopsAtEnd BY <2>3 DEF StopsAtEnd
  <2>4. CASE Erases BY <2>4 DEF Erases
  <2> QED BY <2>1, <2>2, <2>3, <2>4
<1> QED BY <1>2, <1>3, <1>4, <1>5, <1>6

LEMMA JvmKeeps ==
    ASSUME SampleInv, UNCHANGED driveVars, JvmSteps
    PROVE  SampleInv'
<1> USE DEF SampleInv, driveVars, JvmSteps, ChildComesUp, JvmDies
<1>2. Types' BY DEF Types
<1>3. Control' BY DEF Control
<1>4. Leased' BY DEF Leased, FailedStart, FailedRestart
<1>5. Scored' BY DEF Scored, Phases, ProviderMatches
<1>6. Processes' BY DEF Processes
<1> QED BY <1>2, <1>3, <1>4, <1>5, <1>6

-----------------------------------------------------------------------------
(* The agent and its peers.                                                *)

LEMMA AgentKeeps ==
    ASSUME SampleInv, AgentSteps
    PROVE  SampleInv'
<1> USE DEF SampleInv, AgentSteps, AgentMoves, leaseVars
<1>1. UNCHANGED <<leaseVars, scenario, provider, drive, pc, verdict>>
  BY DEF OpensRun, ClosesRun, WritesFixture, PeerWrites
<1>2. db' \in DbFields
  <2>0. db \in DbFields /\ pid \in Nat BY DEF Types
  <2>1. CASE OpensRun
    <3>1. [open |-> TRUE, pid |-> pid] \in RunFields BY <2>0 DEF RunFields
    <3>2. Append(db.runs, [open |-> TRUE, pid |-> pid]) \in Seq(RunFields)
      BY <2>0, <3>1 DEF DbFields
    <3> QED BY <2>0, <2>1, <3>2 DEF OpensRun, DbFields
  <2>2. CASE ClosesRun
    <3> DEFINE closed == [i \in DOMAIN db.runs |-> [db.runs[i] EXCEPT !.open = FALSE]]
    <3>0. db.runs \in Seq(RunFields) BY <2>0 DEF DbFields
    <3>1. Len(db.runs) \in Nat /\ DOMAIN db.runs = 1..Len(db.runs)
          /\ \A i \in 1..Len(db.runs) : db.runs[i] \in RunFields
      BY <3>0
    <3>2. \A i \in 1..Len(db.runs) : [db.runs[i] EXCEPT !.open = FALSE] \in RunFields
      BY <3>1 DEF RunFields
    <3>3. closed \in [1..Len(db.runs) -> RunFields] BY <3>1, <3>2
    <3>4. closed \in Seq(RunFields) BY <3>1, <3>3
    <3> HIDE DEF closed
    <3>5. PICK more \in 0..1 : db' = [db EXCEPT !.runs = closed, !.wakes = db.wakes + more]
      BY <2>2 DEF ClosesRun, closed
    <3>6. db.wakes + more \in Nat BY <2>0 DEF DbFields
    <3> QED BY <2>0, <3>4, <3>5, <3>6 DEF DbFields
  <2>3. CASE WritesFixture BY <2>0, <2>3 DEF WritesFixture, DbFields, AnyFixture
  <2>4. CASE PeerWrites BY <2>0, <2>4 DEF PeerWrites, DbFields
  <2> QED BY <2>1, <2>2, <2>3, <2>4
<1>3. Types' BY <1>1, <1>2 DEF Types
<1>4. Control' BY <1>1 DEF Control
<1>5. Leased' BY <1>1 DEF Leased, FailedStart, FailedRestart
<1>6. Scored' BY <1>1 DEF Scored, Phases, ProviderMatches
<1>7. /\ DOMAIN db.runs \subseteq DOMAIN db'.runs
      /\ \A i \in DOMAIN db'.runs : IF i \in DOMAIN db.runs THEN db'.runs[i].pid = db.runs[i].pid
                                   ELSE db'.runs[i].pid = pid
  <2>0. db \in DbFields BY DEF Types
  <2>a. db.runs \in Seq(RunFields) BY <2>0 DEF DbFields
  <2>1. Len(db.runs) \in Nat /\ DOMAIN db.runs = 1..Len(db.runs)
        /\ \A i \in 1..Len(db.runs) : db.runs[i] \in RunFields
    BY <2>a
  <2>2. CASE OpensRun
    <3>1. db'.runs = Append(db.runs, [open |-> TRUE, pid |-> pid]) BY <2>0, <2>2 DEF OpensRun, DbFields
    <3>2. [open |-> TRUE, pid |-> pid].pid = pid OBVIOUS
    <3> QED BY <2>a, <2>1, <3>1, <3>2
  <2>3. CASE ClosesRun
    <3>1. db'.runs = [i \in DOMAIN db.runs |-> [db.runs[i] EXCEPT !.open = FALSE]]
      BY <2>0, <2>3 DEF ClosesRun, DbFields
    <3> QED BY <2>1, <3>1 DEF RunFields
  <2>4. CASE WritesFixture \/ PeerWrites
    <3>1. db'.runs = db.runs BY <2>0, <2>4 DEF WritesFixture, PeerWrites, DbFields
    <3> QED BY <3>1
  <2> QED BY <2>2, <2>3, <2>4
<1>8. Processes' BY <1>1, <1>7 DEF Processes
<1> QED BY <1>3, <1>4, <1>5, <1>6, <1>8

-----------------------------------------------------------------------------
(* The harness.                                                            *)

LEMMA TwoPhases == scenario \in DOMAIN Budgets => Phases \in {1, 2}
BY BudgetsAssumption DEF Phases

\* The harness acquires the lease, and learns how that ended.
LEMMA AcquiresKeeps ==
    ASSUME SampleInv, Acquires \/ Acquired
    PROVE  SampleInv'
<1> USE DEF SampleInv, Ends, Holds, leaseVars
<1>1. Types'
  <2>1. CASE Acquires
    BY <2>1 DEF Acquires, CallStart, Types, Places
  <2>2. CASE Acquired
    <3>1. (answer = "ok") \in BOOLEAN OBVIOUS
    <3> DEFINE held == (answer = "ok")
    <3>2. held \in BOOLEAN BY <3>1
    <3> HIDE DEF held
    <3>3. drive' = [drive EXCEPT !.held = held] BY <2>2 DEF Acquired, held
    <3>4. drive' \in DriveFields BY <3>2, <3>3 DEF Types, DriveFields
    <3> QED BY <2>2, <3>4 DEF Acquired, Types, Places, Held
  <2> QED BY <2>1, <2>2
<1>2. Acquired => /\ drive'.phase = drive.phase /\ drive'.checkpoint = drive.checkpoint
                  /\ drive'.closed = drive.closed /\ drive'.snapshot = drive.snapshot
  BY DEF Acquired, Types, DriveFields
<1>3. Control' BY DEF Acquires, Acquired, CallStart, Control, Ending
<1>4. Leased'
  <2> USE DEF Control, Leased, FailedStart, FailedRestart, Held, Seeding, Reading, Ending
  <2>1. CASE Acquires BY <2>1 DEF Acquires, CallStart
  <2>2. CASE Acquired BY <1>2, <2>2 DEF Acquired
  <2> QED BY <2>1, <2>2
<1>5. Scored'
  <2> USE DEF Control, Scored, Phases, ProviderMatches, Seeding, Reading, Ending
  <2>1. CASE Acquires BY <2>1 DEF Acquires
  <2>2. CASE Acquired
    <3>1. pc' \in {"provider", "over"} /\ verdict' # "scored" /\ scenario' = scenario
      BY <2>2 DEF Acquired
    <3> QED BY <1>2, <2>2, <3>1 DEF Acquired
  <2> QED BY <2>1, <2>2
<1>6. Processes'
  <2> USE DEF Control, Processes, Seeding, Reading, Ending
  <2>1. CASE Acquires BY <2>1 DEF Acquires, CallStart
  <2>2. CASE Acquired BY <1>2, <2>2 DEF Acquired
  <2> QED BY <2>1, <2>2
<1> QED BY <1>1, <1>3, <1>4, <1>5, <1>6

\* The harness moves on within a phase, or gives the sample up: the lease and
\* what the sample has behind it stay.
LEMMA HarnessStep ==
    ASSUME SampleInv, UNCHANGED <<leaseVars, scenario, drive>>, db' \in DbFields,
           db'.runs = db.runs,
           pc \in Held, call = "none",
           \/ provider' = provider \/ pc = "provider",
           \/ /\ verdict' = verdict /\ pc' \in Seeding
              /\ pc \in Seeding \cup {"provider"} /\ ProviderMatches(provider')
              /\ pc' \in {"waits", "listens", "rechecks", "parks"}
                    => pc \in {"waits", "listens", "rechecks", "parks"}
           \/ pc' = "releases" /\ verdict' = "failed"
           \/ pc' = "releases" /\ verdict' = "voided" /\ ~ProviderMatches(provider')
    PROVE  SampleInv'
<1> USE DEF SampleInv, leaseVars
<1>1. Types' BY DEF Types, Places, Held
<1>2. Control' BY DEF Control, Ending, Held, Seeding, Reading
<1>3. Leased' BY DEF Control, Leased, FailedStart, FailedRestart, Held, Seeding, Reading, Ending
<1>4. Scored'
  BY DEF Control, Scored, Phases, ProviderMatches, Held, Seeding, Reading, Ending
<1>5. Processes' BY DEF Control, Processes, Held, Seeding, Reading, Ending
<1> QED BY <1>1, <1>2, <1>3, <1>4, <1>5

LEMMA IdleInPlace ==
    ASSUME SampleInv, pc \in Held
    PROVE  call = "none" /\ at = "idle"
BY DEF SampleInv, Control, Held, Seeding, Reading

\* What the harness's forms write to the branch.
LEMMA DbWrites ==
    ASSUME db \in DbFields, drive \in DriveFields
    PROVE  \A d \in {db, Seeded, Delivered, [db EXCEPT !.declared = db.declared + 1],
                     [db EXCEPT !.seedRunOpen = TRUE]} :
              d \in DbFields /\ d.runs = db.runs
<1>1. db.declared + 1 \in Nat /\ db.wakes + 1 \in Nat BY DEF DbFields
<1>2. Seeded \in DbFields /\ Seeded.runs = db.runs
  <2>1. drive.plan \in AnyFixture BY FixturesAssumption DEF DriveFields, AnyFixture
  <2> QED BY <2>1 DEF DbFields, Seeded
<1>3. Delivered \in DbFields /\ Delivered.runs = db.runs BY <1>1 DEF DbFields, Delivered
<1>4. /\ [db EXCEPT !.declared = db.declared + 1] \in DbFields
      /\ [db EXCEPT !.declared = db.declared + 1].runs = db.runs
  BY <1>1 DEF DbFields
<1>5. /\ [db EXCEPT !.seedRunOpen = TRUE] \in DbFields
      /\ [db EXCEPT !.seedRunOpen = TRUE].runs = db.runs
  BY DEF DbFields
<1> QED BY <1>2, <1>3, <1>4, <1>5

LEMMA SeedsKeeps ==
    ASSUME SampleInv, ReadsProvider \/ Declares \/ Seeds \/ Listens \/ FormIsLost
    PROVE  SampleInv'
<1> USE DEF Holds, Aborts
<1>0. /\ db \in DbFields /\ drive \in DriveFields
      /\ pc \in Seeding => ProviderMatches(provider)
  BY DEF SampleInv, Types, Scored
<1>1. UNCHANGED <<leaseVars, scenario, drive>> /\ pc \in Held
  BY DEF ReadsProvider, Declares, Seeds, Listens, FormIsLost, Held, Seeding, Reading
<1>2. db' \in DbFields /\ db'.runs = db.runs
  <2>1. db' \in {db, Seeded, Delivered, [db EXCEPT !.declared = db.declared + 1],
                 [db EXCEPT !.seedRunOpen = TRUE]}
    BY DEF ReadsProvider, Declares, Seeds, Listens, FormIsLost
  <2> QED BY <2>1, <1>0, DbWrites DEF Seeded, Delivered
<1>3. call = "none" BY <1>1, IdleInPlace
<1>4. ReadsProvider \/ provider' = provider
  BY DEF Declares, Seeds, Listens, FormIsLost
<1>5. CASE ReadsProvider
  <2>1. \/ verdict' = verdict /\ pc' = "seeds" /\ ProviderMatches(provider')
        \/ pc' = "releases" /\ verdict' = "voided" /\ ~ProviderMatches(provider')
    BY <1>5 DEF ReadsProvider
  <2>2. pc = "provider" BY <1>5 DEF ReadsProvider
  <2> QED BY <1>1, <1>2, <1>3, <2>1, <2>2, HarnessStep DEF Seeding
<1>6. CASE Declares \/ Seeds \/ Listens \/ FormIsLost
  <2>1. provider' = provider BY <1>6 DEF Declares, Seeds, Listens, FormIsLost
  <2>2. \/ /\ verdict' = verdict /\ pc' \in Seeding /\ pc \in Seeding
           /\ pc' \in {"waits", "listens", "rechecks", "parks"}
                 => pc \in {"waits", "listens", "rechecks", "parks"}
        \/ pc' = "releases" /\ verdict' = "failed"
    BY <1>6 DEF Declares, Seeds, Listens, FormIsLost, Seeding
  <2>3. pc \in Seeding => ProviderMatches(provider') BY <1>0, <2>1 DEF ProviderMatches
  <2> QED BY <1>1, <1>2, <1>3, <2>1, <2>2, <2>3, HarnessStep
<1> QED BY <1>5, <1>6

\* The runs of a phase are those after the ones counted before its message.
LEMMA DeliversKeeps ==
    ASSUME SampleInv, Delivers
    PROVE  SampleInv'
<1> USE DEF SampleInv, Holds, leaseVars, Delivers
<1>1. Types /\ Control /\ Leased /\ Scored /\ Processes OBVIOUS
<1>2. call = "none" BY IdleInPlace DEF Held, Seeding
<1>3. db \in DbFields /\ drive \in DriveFields BY DEF Types
<1>4. Delivered \in DbFields /\ db'.runs = db.runs BY <1>3, DbWrites
<1>5. db.runs \in Seq(RunFields) BY <1>3 DEF DbFields
<1>6. Len(db.runs) \in Nat /\ DOMAIN db.runs = 1..Len(db.runs) BY <1>5
<1>7. /\ drive' \in DriveFields /\ drive'.before = Len(db.runs)
      /\ drive'.phase = drive.phase /\ drive'.checkpoint = drive.checkpoint
      /\ drive'.closed = drive.closed /\ drive'.snapshot = drive.snapshot
  BY <1>3, <1>6 DEF DriveFields
<1>8. Types' BY <1>1, <1>4, <1>7 DEF Types, Places, Held, Seeding
<1>9. Control' BY <1>1, <1>2 DEF Control, Ending
<1>10. Leased' BY <1>1, <1>2, <1>7 DEF Leased, FailedStart, FailedRestart, Held, Seeding, Reading, Ending
<1>11. Scored' BY <1>1, <1>7 DEF Control, Scored, Phases, ProviderMatches, Seeding, Reading, Ending
<1>12. Processes'
  <2>1. ~\E i \in DOMAIN db'.runs : i > drive'.before BY <1>4, <1>6, <1>7
  <2> QED BY <1>1, <1>2, <1>7, <2>1 DEF Control, Processes, Seeding, Reading, Ending
<1> QED BY <1>8, <1>9, <1>10, <1>11, <1>12

\* The waiting form answers: the phase has closed, or the sample fails.
LEMMA AnswersKeeps ==
    ASSUME SampleInv, UNCHANGED <<leaseVars, scenario, db, provider>>,
           pc \in {"waits", "rechecks", "parks"}, NEW status, Answers(status)
    PROVE  SampleInv'
<1> USE DEF SampleInv, Holds, Aborts, leaseVars
<1>1. Types /\ Control /\ Leased /\ Scored /\ Processes OBVIOUS
<1>2. call = "none" BY IdleInPlace DEF Held, Seeding
<1>3. db \in DbFields /\ drive \in DriveFields BY DEF Types
<1>4. CASE status = "closed"
  <2>1. /\ drive' = [drive EXCEPT !.ids = Latest(db, drive.before),
                                  !.closed = drive.closed \cup {drive.phase}]
        /\ verdict' = verdict
        /\ pc' = IF Phases = 2 /\ drive.phase = 1 THEN "checkpoints" ELSE "snapshots"
    BY <1>4 DEF Answers
  <2>2. db.runs \in Seq(RunFields) BY <1>3 DEF DbFields
  <2>3. Latest(db, drive.before) \subseteq Nat
    <3>1. DOMAIN db.runs \subseteq Nat BY <2>2
    <3> QED BY <3>1 DEF Latest
  <2>4. drive.closed \cup {drive.phase} \in SUBSET Nat BY <1>3 DEF DriveFields
  <2>5. /\ drive' \in DriveFields /\ drive'.ids = Latest(db, drive.before)
        /\ drive'.closed = drive.closed \cup {drive.phase}
        /\ drive'.phase = drive.phase /\ drive'.checkpoint = drive.checkpoint
        /\ drive'.before = drive.before /\ drive'.snapshot = drive.snapshot
    BY <1>3, <2>1, <2>3, <2>4 DEF DriveFields
  <2>6. Phases \in {1, 2} /\ drive.phase \in {1, 2}
    BY <1>1, <1>3, TwoPhases DEF Types, DriveFields
  <2>7. Phases' = Phases BY DEF Phases
  <2>8. Types' BY <1>1, <2>1, <2>5 DEF Types, Places, Held, Reading
  <2>9. Control' BY <1>1, <1>2, <2>1 DEF Control, Ending
  <2>10. Leased'
    BY <1>1, <1>2, <2>1, <2>5 DEF Leased, FailedStart, FailedRestart, Held, Seeding, Reading, Ending
  <2>11. Scored'
    <3>1. verdict = "none" BY <1>1 DEF Control, Ending
    <3>2. /\ drive.phase = 1 => drive'.closed = {1}
          /\ drive.phase = 2 => drive'.closed = {1, 2} /\ Phases = 2
      BY <1>1, <2>5 DEF Scored, Seeding
    <3>3. 1..1 = {1} /\ 1..2 = {1, 2} OBVIOUS
    <3>4. ProviderMatches(provider) /\ ProviderMatches(provider')
      BY <1>1 DEF Scored, Seeding, ProviderMatches
    <3> QED BY <2>1, <2>5, <2>6, <2>7, <3>1, <3>2, <3>3, <3>4 DEF Scored, Seeding, Reading
  <2>12. Processes'
    <3>1. verdict' = "none" BY <1>1, <2>1 DEF Control, Ending
    <3>2. \A i \in drive'.ids : i \in DOMAIN db.runs /\ i > drive.before
      BY <2>5 DEF Latest
    <3> QED BY <1>1, <1>2, <2>1, <2>5, <3>1, <3>2 DEF Processes, Seeding, Reading
  <2> QED BY <2>8, <2>9, <2>10, <2>11, <2>12
<1>5. CASE status # "closed"
  <2>1. pc' = "releases" /\ verdict' = "failed" /\ drive' = drive BY <1>5 DEF Answers
  <2> QED BY <1>2, <1>3, <2>1, HarnessStep DEF Held, Seeding
<1> QED BY <1>4, <1>5

LEMMA WaitsKeeps ==
    ASSUME SampleInv, WaitsNow \/ Rechecks \/ WakesUp
    PROVE  SampleInv'
<1>1. /\ pc \in {"waits", "rechecks", "parks"} /\ pc \in Seeding /\ pc \in Held
      /\ UNCHANGED <<leaseVars, scenario, db, provider>>
  BY DEF WaitsNow, Rechecks, WakesUp, Seeding, Held
<1>2. \/ \E status : Answers(status)
      \/ UNCHANGED <<verdict, drive>> /\ pc' \in {"listens", "parks"}
  <2>1. CASE WaitsNow BY <2>1 DEF WaitsNow, Holds
  <2>2. CASE Rechecks BY <2>2 DEF Rechecks, Holds
  <2>3. CASE WakesUp BY <2>3 DEF WakesUp
  <2> QED BY <2>1, <2>2, <2>3
<1>3. CASE \E status : Answers(status)
  <2>1. PICK status : Answers(status) BY <1>3
  <2> QED BY <1>1, <2>1, AnswersKeeps
<1>4. CASE UNCHANGED <<verdict, drive>> /\ pc' \in {"listens", "parks"}
  <2>1. call = "none" BY <1>1, IdleInPlace
  <2>2. ProviderMatches(provider') /\ db \in DbFields
    BY <1>1 DEF SampleInv, Scored, Types, ProviderMatches
  <2> QED BY <1>1, <1>4, <2>1, <2>2, HarnessStep DEF Seeding
<1> QED BY <1>2, <1>3, <1>4

\* The checkpoint is of the process the form ran in, which is the last one.
LEMMA RestartKeeps ==
    ASSUME SampleInv, Checkpoints \/ Restarted
    PROVE  SampleInv'
<1> USE DEF SampleInv, Holds, Aborts, leaseVars
<1>1. Types /\ Control /\ Leased /\ Scored /\ Processes OBVIOUS
<1>2. drive \in DriveFields /\ pid \in Nat BY DEF Types
<1>3. CASE Checkpoints
  <2> USE DEF world
  <2>1. pc = "checkpoints" /\ pc' = "restarting" /\ verdict' = verdict
        /\ UNCHANGED <<root, jvm, pid, advert, lease, scenario, db, provider>>
    BY <1>3 DEF Checkpoints, CallRestart
  <2>2. call = "none" /\ ~lease.released /\ lease.attempted /\ root = "present"
        /\ drive.phase = 1 /\ ~(lease.stopped /\ jvm # "none")
    BY <1>1, <2>1, IdleInPlace DEF Leased, FailedStart, FailedRestart, Held, Ending
  <2>3. call' = "restart" /\ at' = "stops" BY <1>3, <2>2 DEF Checkpoints, CallRestart
  <2>4. pid > 0
    <3>1. Reachable BY <1>3 DEF Checkpoints, CanRun
    <3>2. jvm = "alive" BY <3>1 DEF Reachable
    <3> QED BY <1>1, <3>2 DEF Processes
  <2>5. drive' = [drive EXCEPT !.checkpoint = [pid |-> pid, runs |-> drive.ids]]
    BY <1>3 DEF Checkpoints
  <2>6. [pid |-> pid, runs |-> drive.ids] \in [pid : Nat, runs : SUBSET Nat]
    BY <1>2 DEF DriveFields
  <2>7. /\ drive' \in DriveFields /\ drive'.checkpoint.pid = pid /\ drive'.phase = drive.phase
        /\ drive'.closed = drive.closed /\ drive'.snapshot = drive.snapshot
        /\ drive'.ids = drive.ids /\ drive'.before = drive.before
    BY <1>2, <2>5, <2>6 DEF DriveFields
  <2>8. Types' BY <1>1, <2>1, <2>7 DEF Types, Places
  <2>9. Control' BY <1>1, <2>1, <2>3 DEF Control, Ending
  <2>10. Leased'
    BY <1>1, <2>1, <2>2, <2>3, <2>4, <2>7 DEF Leased, Held, Seeding, Reading
  <2>11. Scored'
    BY <1>1, <2>1, <2>7 DEF Control, Scored, Phases, ProviderMatches, Seeding, Reading, Ending
  <2>12. Processes'
    BY <1>1, <1>2, <2>1, <2>2, <2>3, <2>7 DEF Control, Processes, Seeding, Reading, Ending
  <2> QED BY <2>8, <2>9, <2>10, <2>11, <2>12
<1>4. CASE Restarted
  <2>1. pc = "restarting" /\ call = "none" /\ drive.phase = 1
        /\ UNCHANGED <<leaseVars, scenario, db, provider>>
    BY <1>1, <1>4 DEF Restarted, Leased
  <2>2. drive' \in DriveFields /\ drive'.checkpoint = drive.checkpoint
        /\ drive'.closed = drive.closed /\ drive'.snapshot = drive.snapshot
        /\ drive'.ids = drive.ids /\ drive'.before = drive.before
    BY <1>2, <1>4 DEF Restarted, DriveFields
  <2>3. CASE answer = "ok"
    <3>1. pc' = "delivers" /\ verdict' = verdict /\ drive'.phase = 2
      BY <1>2, <1>4, <2>3 DEF Restarted, DriveFields
    <3>2. Types' BY <1>1, <2>1, <2>2, <3>1 DEF Types, Places, Held, Seeding
    <3>3. Control' BY <1>1, <2>1, <3>1 DEF Control, Ending
    <3>4. Leased'
      BY <1>1, <2>1, <2>2, <2>3, <3>1 DEF Control, Leased, FailedStart, FailedRestart, Held, Seeding,
         Reading, Ending
    <3>5. Scored'
      BY <1>1, <2>1, <2>2, <3>1 DEF Control, Scored, Phases, ProviderMatches, Seeding, Reading, Ending
    <3>6. Processes'
      BY <1>1, <2>1, <2>2, <2>3, <3>1 DEF Control, Processes, Seeding, Reading, Ending
    <3> QED BY <3>2, <3>3, <3>4, <3>5, <3>6
  <2>4. CASE answer # "ok"
    <3>1. pc' = "releases" /\ verdict' = "failed" /\ drive' = drive BY <1>4, <2>4 DEF Restarted
    <3>2. Types' BY <1>1, <2>1, <3>1 DEF Types, Places, Held
    <3>3. Control' BY <1>1, <2>1, <3>1 DEF Control, Ending
    <3>4. Leased'
      BY <1>1, <2>1, <3>1 DEF Control, Leased, FailedStart, FailedRestart, Held, Seeding, Reading,
         Ending
    <3>5. Scored' BY <1>1, <2>1, <3>1 DEF Scored, Phases, ProviderMatches, Seeding, Reading
    <3>6. Processes' BY <1>1, <2>1, <3>1 DEF Control, Processes, Seeding, Reading, Ending
    <3> QED BY <3>2, <3>3, <3>4, <3>5, <3>6
  <2> QED BY <2>3, <2>4
<1> QED BY <1>3, <1>4

\* Of rows without two alike the seed form's sums are the planned ones.
LEMMA SeedAgreesUnlessAlike ==
    ASSUME NEW rows \in Seq([id : Nat, vendor : STRING, cents : Nat]), ~Alike(rows)
    PROVE  SeedAgrees(rows)
<1>1. DOMAIN rows \subseteq Nat OBVIOUS
<1>2. ASSUME NEW places \in SUBSET DOMAIN rows
      PROVE  Once(rows, places) = places
  BY <1>1, <1>2 DEF Once, Alike
<1>3. \A i \in DOMAIN rows : OfVendor(rows, rows[i].vendor) \in SUBSET DOMAIN rows BY DEF OfVendor
<1>4. Once(rows, DOMAIN rows) = DOMAIN rows BY <1>2
<1>5. \A i \in DOMAIN rows :
         Once(rows, OfVendor(rows, rows[i].vendor)) = OfVendor(rows, rows[i].vendor)
  BY <1>2, <1>3
<1> QED BY <1>4, <1>5 DEF SeedAgrees

\* The snapshot is of the phase's own runs, and only one from which the
\* planned answer is derived is scored.
LEMMA ReadingKeeps ==
    ASSUME SampleInv, Snapshots \/ AssertsSeed
    PROVE  SampleInv'
<1> USE DEF SampleInv, Holds, Aborts, leaseVars
<1>1. Types /\ Control /\ Leased /\ Scored /\ Processes OBVIOUS
<1>2. drive \in DriveFields /\ db \in DbFields /\ pid \in Nat BY DEF Types
<1>3. pc \in Held /\ pc \in Reading /\ UNCHANGED <<leaseVars, scenario, db, provider>>
  BY DEF Snapshots, AssertsSeed, Held, Reading
<1>4. call = "none" BY <1>3, IdleInPlace
<1>5. CASE Snapshots
  <2>0. pc = "snapshots" /\ pc' = "asserts" /\ verdict' = verdict BY <1>5 DEF Snapshots
  <2>1. db.runs \in Seq(RunFields) BY <1>2 DEF DbFields
  <2>2. \A i \in DOMAIN db.runs : db.runs[i].pid \in Nat
    <3>1. \A i \in DOMAIN db.runs : db.runs[i] \in RunFields BY <2>1
    <3> QED BY <3>1 DEF RunFields
  <2>3. SnapshotRead \in [fixture : AnyFixture, runs : SUBSET Nat, pid : Nat]
    BY <1>1, <1>2, <2>0, <2>2 DEF SnapshotRead, Processes, DbFields
  <2>4. /\ drive' \in DriveFields /\ drive'.snapshot = SnapshotRead
        /\ drive'.phase = drive.phase /\ drive'.checkpoint = drive.checkpoint
        /\ drive'.closed = drive.closed /\ drive'.ids = drive.ids /\ drive'.before = drive.before
    BY <1>2, <1>5, <2>3 DEF Snapshots, DriveFields
  <2>5. SnapshotRead.runs = {db.runs[i].pid : i \in drive.ids} BY DEF SnapshotRead
  <2>6. drive.phase = 2 => \A p \in SnapshotRead.runs : p > drive.checkpoint.pid
    <3>1. drive.phase = 2 => \A i \in drive.ids : db.runs[i].pid > drive.checkpoint.pid
      BY <1>1, <2>0 DEF Processes, Reading
    <3> QED BY <2>5, <3>1
  <2>7. Types' BY <1>1, <1>3, <2>0, <2>4 DEF Types, Places, Held, Reading
  <2>8. Control' BY <1>1, <1>3, <1>4, <2>0 DEF Control, Ending
  <2>9. Leased'
    BY <1>1, <1>3, <1>4, <2>0, <2>4 DEF Leased, FailedStart, FailedRestart, Held, Seeding, Reading,
       Ending
  <2>10. Scored'
    BY <1>1, <1>3, <2>0, <2>4 DEF Control, Scored, Phases, ProviderMatches, Seeding, Reading, Ending
  <2>11. Processes'
    BY <1>1, <1>3, <1>4, <2>0, <2>4, <2>6 DEF Control, Processes, Seeding, Reading, Ending
  <2> QED BY <2>7, <2>8, <2>9, <2>10, <2>11
<1>6. CASE AssertsSeed
  <2>0. /\ pc = "asserts" /\ pc' = "releases" /\ drive' = drive
        /\ verdict' = IF /\ SeedAgrees(drive.plan.rows)
                         /\ Expected(scenario, drive.snapshot.fixture) = Expected(scenario, drive.plan)
                      THEN "scored" ELSE "voided"
    BY <1>6 DEF AssertsSeed
  <2>1. Types' BY <1>1, <1>3, <2>0 DEF Types, Places, Held
  <2>2. Control' BY <1>1, <1>3, <1>4, <2>0 DEF Control, Ending
  <2>3. Leased'
    BY <1>1, <1>3, <1>4, <2>0 DEF Leased, FailedStart, FailedRestart, Held, Seeding, Reading, Ending
  <2>4. Alike(drive.plan.rows) \/ SeedAgrees(drive.plan.rows)
    <3>1. drive.plan \in Fixtures BY <1>2, FixturesAssumption DEF DriveFields
    <3>2. drive.plan.rows \in Seq([id : Nat, vendor : STRING, cents : Nat])
      BY <3>1, FixturesAssumption
    <3> QED BY <3>2, SeedAgreesUnlessAlike
  <2>5. Scored' BY <1>1, <1>3, <2>0, <2>4 DEF Scored, Phases, ProviderMatches, Seeding, Reading
  <2>6. Processes' BY <1>1, <1>3, <1>4, <2>0 DEF Processes, Seeding, Reading
  <2> QED BY <2>1, <2>2, <2>3, <2>5, <2>6
<1> QED BY <1>5, <1>6

\* The finally clause: a sample stays scored only if its release succeeded.
LEMMA ReleaseKeeps ==
    ASSUME SampleInv, Releases \/ Released
    PROVE  SampleInv'
<1> USE DEF SampleInv, leaseVars
<1>1. Types /\ Control /\ Leased /\ Scored /\ Processes OBVIOUS
<1>2. UNCHANGED <<root, jvm, pid, advert, lease, scenario, db, provider, drive>>
  BY DEF Releases, Released, CallRelease, world
<1>3. CASE Releases
  <2>1. /\ pc = "releases" /\ call = "none" /\ ~lease.released /\ pc' = "releasing" /\ verdict' = verdict
    BY <1>1, <1>3, IdleInPlace DEF Releases, Leased, Held
  <2>2. call' = "release" /\ at' = "ends" BY <1>3, <2>1 DEF Releases, CallRelease
  <2>3. Types' BY <1>1, <1>2, <2>1 DEF Types, Places
  <2>4. Control' BY <1>1, <2>1, <2>2 DEF Control, Ending
  <2>5. Leased'
    BY <1>1, <1>2, <2>1, <2>2 DEF Leased, FailedStart, FailedRestart, Held, Seeding, Reading, Ending
  <2>6. Scored' BY <1>1, <1>2, <2>1 DEF Scored, Phases, ProviderMatches, Seeding, Reading
  <2>7. Processes' BY <1>1, <1>2, <2>1, <2>2 DEF Processes, Seeding, Reading
  <2> QED BY <2>3, <2>4, <2>5, <2>6, <2>7
<1>4. CASE Released
  <2>1. /\ pc = "releasing" /\ call = "none" /\ pc' = "over" /\ UNCHANGED <<call, at, answer>>
        /\ verdict' = IF answer = "failed" /\ verdict = "scored" THEN "failed" ELSE verdict
    BY <1>4 DEF Released
  <2>2. verdict' = "scored" => verdict = "scored" /\ root = "erased"
    BY <1>1, <2>1 DEF Control, Leased
  <2>3. Types' BY <1>1, <1>2, <2>1 DEF Types, Places
  <2>4. Control' BY <1>1, <2>1 DEF Control, Ending
  <2>5. Leased'
    BY <1>1, <1>2, <2>1, <2>2 DEF Control, Leased, FailedStart, FailedRestart, Held, Seeding, Reading,
       Ending
  <2>6. Scored' BY <1>1, <1>2, <2>1, <2>2 DEF Scored, Phases, ProviderMatches, Seeding, Reading
  <2>7. Processes' BY <1>1, <1>2, <2>1, <2>2 DEF Processes, Seeding, Reading
  <2> QED BY <2>3, <2>4, <2>5, <2>6, <2>7
<1> QED BY <1>3, <1>4

-----------------------------------------------------------------------------
(* The evaluation.                                                         *)

LEMMA SampleStep ==
    ASSUME SampleInv, Sample
    PROVE  SampleInv'
<1>1. CASE LeaseSteps /\ UNCHANGED driveVars
  BY <1>1, StartKeeps, LaunchKeeps, StopKeeps DEF LeaseSteps, StartSteps
<1>2. CASE JvmSteps /\ UNCHANGED driveVars BY <1>2, JvmKeeps
<1>3. CASE AgentSteps BY <1>3, AgentKeeps
<1>4. CASE DriveSteps
  <2>1. CASE Acquires \/ Acquired BY <2>1, AcquiresKeeps
  <2>2. CASE ReadsProvider \/ Declares \/ Seeds \/ Listens \/ FormIsLost BY <2>2, SeedsKeeps
  <2>3. CASE Delivers BY <2>3, DeliversKeeps
  <2>4. CASE WaitsNow \/ Rechecks \/ WakesUp BY <2>4, WaitsKeeps
  <2>5. CASE Checkpoints \/ Restarted BY <2>5, RestartKeeps
  <2>6. CASE Snapshots \/ AssertsSeed BY <2>6, ReadingKeeps
  <2>7. CASE Releases \/ Released BY <2>7, ReleaseKeeps
  <2> QED BY <1>4, <2>1, <2>2, <2>3, <2>4, <2>5, <2>6, <2>7 DEF DriveSteps, WaitSteps
<1> QED BY <1>1, <1>2, <1>3, <1>4 DEF Sample

\* The gate and the scorer leave the sample alone.
LEMMA EvaluationStep ==
    ASSUME SampleInv, [Next]_evalVars
    PROVE  SampleInv'
<1>1. Sample \/ UNCHANGED vars
  BY DEF Next, Gates, Live, Scores, Finished, evalVars
<1>2. CASE Sample BY <1>2, SampleStep
<1>3. CASE UNCHANGED vars
  <2>1. UNCHANGED <<root, branch, jvm, pid, advert, lease, call, at, answer,
                    scenario, db, provider, drive, pc, promise, verdict>>
    BY <1>3 DEF vars, leaseVars, driveVars
  <2>2. Types' BY <2>1 DEF SampleInv, Types
  <2>3. Control' BY <2>1 DEF SampleInv, Control
  <2>4. Leased' BY <2>1 DEF SampleInv, Leased, FailedStart, FailedRestart
  <2>5. Scored' BY <2>1 DEF SampleInv, Scored, Phases, ProviderMatches
  <2>6. Processes' BY <2>1 DEF SampleInv, Processes
  <2> QED BY <2>2, <2>3, <2>4, <2>5, <2>6 DEF SampleInv
<1> QED BY <1>1, <1>2, <1>3

\* In every state of the evaluation the lease, the harness's position and
\* what the sample has behind it agree (ScratchCluster.start, restart and
\* release, and _drive_live_sample).
THEOREM SampleInvHolds == Spec => []SampleInv
<1>1. Init => SampleInv BY SampleInit DEF Init
<1>2. SampleInv /\ [Next]_evalVars => SampleInv' BY EvaluationStep
<1> QED BY <1>1, <1>2, PTL DEF Spec

\* Nothing but a restart whose `start` command failed deletes the root of a
\* JVM that may be alive (release and the except clause of
\* start_scratch_cluster).
THEOREM RootIsKept == Spec => []LiveProcessKeepsItsRoot
<1>1. SampleInv => LiveProcessKeepsItsRoot
  BY DEF SampleInv, Leased, FailedStart, FailedRestart, LiveProcessKeepsItsRoot
<1> QED BY <1>1, SampleInvHolds, PTL

\* A sample is scored only on the provider that was asked for, with every
\* phase closed, and when what its scenario derives from the fixture it leaves
\* is what was planned, whatever else the agent writes; and it is voided only
\* for the provider, for another derived answer, or for two of its rows drawn
\* with one amount (_assert_seed_expectations, _drive_live_sample).
THEOREM ScoreIsOnSeededFacts == Spec => []ScoredOnSeededFacts
<1>1. SampleInv => ScoredOnSeededFacts BY DEF SampleInv, Scored, ScoredOnSeededFacts
<1> QED BY <1>1, SampleInvHolds, PTL

\* The runs a two-phase sample is scored on are of a process launched after
\* its checkpoint (_persistence_checkpoint, restart, inbound_message_form).
THEOREM PersistenceIsTested == Spec => []SecondPhaseIsAnotherProcess
<1>1. SampleInv => SecondPhaseIsAnotherProcess
  BY DEF SampleInv, Scored, Processes, SecondPhaseIsAnotherProcess
<1> QED BY <1>1, SampleInvHolds, PTL

\* A sample that stays scored has stopped its JVM and deleted its root (the
\* finally clause of _drive_live_sample, and release).
THEOREM ScoredSampleIsCleanedUp == Spec => []ScoredSampleLeavesNothing
<1>1. SampleInv => ScoredSampleLeavesNothing
  BY DEF SampleInv, Types, Leased, FailedStart, FailedRestart, ScoredSampleLeavesNothing
<1> QED BY <1>1, SampleInvHolds, PTL
=============================================================================
