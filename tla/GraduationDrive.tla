-------------------------- MODULE GraduationDrive --------------------------
(***************************************************************************)
(* One live sample of the graduation evaluation                            *)
(* (src/src-inspect-ai/src/seon_inspect/tasks/mvp_graduation.py): the      *)
(* harness acquires a scratch cluster, reads back which provider it talks  *)
(* to, seeds the fixture, delivers the task to the agent, waits for the    *)
(* episode to settle within its budget of runs, and reads one snapshot,    *)
(* which must agree with what was seeded before it is scored.  A sample of *)
(* two phases is checkpointed and its cluster restarted in between.        *)
(*                                                                         *)
(* Meanwhile the agent works in the cluster's JVM: it opens and closes     *)
(* runs, writes what it likes, is woken again by its peers, and loses its  *)
(* process when the JVM dies or is stopped.  Every form is one evaluation  *)
(* in that JVM, so a form whose reply is lost may have had its effect.     *)
(***************************************************************************)
EXTENDS ScratchCluster, Sequences, FiniteSets, FiniteSetsExt

CONSTANTS
    Budgets,   \* for each scenario, the budget of runs of each of its phases
    Arm,       \* the model arm asked for: "local" or "deepseek"
    Drawn,     \* the fixtures that may be drawn for a sample
    Fixtures,  \* these, and what an agent may make of one
    MaxRuns,   \* bound on the agent's runs
    MaxWakes   \* bound on the wakes waiting for the agent

ASSUME BudgetsAssumption ==
    \A s \in DOMAIN Budgets : Budgets[s] \in Seq(Nat \ {0}) /\ Len(Budgets[s]) \in 1..2
ASSUME ArmAssumption == Arm \in {"local", "deepseek"}
ASSUME FixturesAssumption ==
    /\ Drawn \subseteq Fixtures
    /\ \A f \in Fixtures :
          f.rows \in Seq([id : Nat, vendor : STRING, cents : Nat]) /\ DOMAIN f = {"rows", "toolkit", "empty"}
ASSUME DriveBounds == MaxRuns \in Nat /\ MaxWakes \in Nat

VARIABLES
    scenario,  \* the sample's scenario
    db,        \* the branch: fixture, the agent's runs, its unanswered wakes
    provider,  \* the effective configuration of the cluster, as read back
    drive,     \* the harness's locals
    pc,        \* where the harness stands in _drive_live_sample
    promise,   \* what the episode's listener delivered
    verdict    \* how the sample ended

driveVars == <<scenario, db, provider, drive, pc, promise, verdict>>
vars == <<leaseVars, driveVars>>

Providers == [endpoint : {"local", "deepseek", "other"}, model : {"local", "deepseek", "other"},
              noAuth : BOOLEAN, key : {"none", "unset", "set"}]

NoProvider == [endpoint |-> "other", model |-> "other", noAuth |-> FALSE, key |-> "none"]

(* _provider_matches; a key counts when its variable is set in the environment. *)
ProviderMatches(p) ==
    /\ p.endpoint = Arm /\ p.model = Arm
    /\ IF Arm = "local" THEN p.noAuth ELSE ~p.noAuth /\ p.key = "set"

Phases == Len(Budgets[scenario])

(* The declarations of the fixture: its four attributes and their entity,  *)
(* and the toolkit's schema and function.                                  *)
Declarations == 7

(***************************************************************************)
(* A fixture is rows of expenses and two toolkits, of each of which the    *)
(* schema keys of its public contracts are told.  The task selects row 1.  *)
(***************************************************************************)
NoFixture == [rows |-> <<>>, toolkit |-> {}, empty |-> {}]

CentsOf(rows, places) == MapThenSumSet(LAMBDA i : rows[i].cents, places)
OfVendor(rows, v)  == {i \in DOMAIN rows : rows[i].vendor = v}
VendorCents(rows)  ==
    [v \in {rows[i].vendor : i \in DOMAIN rows} |-> CentsOf(rows, OfVendor(rows, v))]
Selected(rows)     == {<<rows[i].cents, rows[i].vendor>> : i \in {j \in DOMAIN rows : rows[j].id = 1}}

(* What a scenario's answer is compared with: the selected row, the keys   *)
(* of the toolkit, the total, the total of each vendor; no row at all.     *)
Expected(s, fixture) ==
    CASE s = "A" -> Selected(fixture.rows)
      [] s = "B" -> fixture.toolkit
      [] s = "B-control" -> fixture.empty
      [] s = "C" -> CentsOf(fixture.rows, DOMAIN fixture.rows)
      [] s = "D" -> VendorCents(fixture.rows)
      [] s = "F" -> <<Selected(fixture.rows), fixture.toolkit, CentsOf(fixture.rows, DOMAIN fixture.rows)>>
      [] OTHER -> {}

(* The seed form's own sums are over the answers of a query, which are a   *)
(* set: of two rows with one amount the second is not counted.             *)
Once(rows, places) == {i \in places : \A j \in places : rows[j].cents = rows[i].cents => i <= j}

SeedAgrees(rows) ==
    /\ CentsOf(rows, Once(rows, DOMAIN rows)) = CentsOf(rows, DOMAIN rows)
    /\ \A i \in DOMAIN rows :
          LET own == OfVendor(rows, rows[i].vendor) IN CentsOf(rows, Once(rows, own)) = CentsOf(rows, own)

NoCheckpoint == [pid |-> 0, runs |-> {}]
NoSnapshot   == [fixture |-> NoFixture, runs |-> {}, pid |-> 0]

DriveInit ==
    /\ scenario \in DOMAIN Budgets
    /\ db = [declared |-> 0, seedRunOpen |-> FALSE, fixture |-> NoFixture, runs |-> <<>>, wakes |-> 0]
    /\ provider = NoProvider
    /\ \E drawn \in Drawn :
          drive = [plan |-> drawn, phase |-> 1, before |-> 0, ids |-> {}, checkpoint |-> NoCheckpoint,
                   snapshot |-> NoSnapshot, closed |-> {}, held |-> FALSE]
    /\ pc = "acquires"
    /\ promise = "none"
    /\ verdict = "none"

-----------------------------------------------------------------------------
(* The episode, as the waiting form derives it from a database value.      *)

Open(d)   == \E i \in DOMAIN d.runs : d.runs[i].open
Latest(d, before) == {i \in DOMAIN d.runs : i > before}

(* next-agent-work is :open when wakes wait and no run is open, some other *)
(* situation while a run is open, and nil when there is neither.           *)
Status(d, before, budget) ==
    LET episode == Latest(d, before)
        opening == d.wakes > 0 /\ ~Open(d)
    IN  IF \/ Cardinality(episode) > budget
           \/ Cardinality(episode) = budget /\ opening
        THEN "exceeded"
        ELSE IF episode # {} /\ ~Open(d) /\ d.wakes = 0 THEN "closed" ELSE "none"

Now(d) == Status(d, drive.before, Budgets[scenario][drive.phase])

Listening == pc \in {"rechecks", "parks"}

(* The listener runs on every transaction's report, and delivers once. *)
Reports == promise' = IF Listening /\ promise = "none" THEN Now(db') ELSE promise

-----------------------------------------------------------------------------
(* The agent and its peers, in the cluster's JVM.                          *)

AgentMoves ==
    /\ jvm = "alive" /\ db.fixture # NoFixture
    /\ Reports
    /\ UNCHANGED <<leaseVars, scenario, provider, drive, pc, verdict>>

OpensRun ==
    /\ ~Open(db) /\ db.wakes > 0 /\ Len(db.runs) < MaxRuns
    /\ db' = [db EXCEPT !.runs = Append(@, [open |-> TRUE, pid |-> pid]), !.wakes = 0]
    /\ AgentMoves

(* A run closes in the process that opened it, or in a later one that      *)
(* found it open; it may leave the agent more to do.                       *)
ClosesRun ==
    /\ Open(db)
    /\ \E more \in 0..1 :
          /\ db.wakes + more <= MaxWakes
          /\ db' = [db EXCEPT !.runs = [i \in DOMAIN @ |-> [@[i] EXCEPT !.open = FALSE]],
                              !.wakes = @ + more]
    /\ AgentMoves

(* The agent's forms can write, retract and add rows and contracts. *)
WritesFixture ==
    /\ Open(db)
    /\ \E f \in Fixtures \ {db.fixture} : db' = [db EXCEPT !.fixture = f]
    /\ AgentMoves

PeerWrites ==
    /\ db.wakes < MaxWakes /\ Len(db.runs) < MaxRuns
    /\ db' = [db EXCEPT !.wakes = @ + 1]
    /\ AgentMoves

AgentSteps == OpensRun \/ ClosesRun \/ WritesFixture \/ PeerWrites

-----------------------------------------------------------------------------
(* _drive_live_sample.  An error anywhere after the lease is held goes     *)
(* through the finally clause, which releases it.                          *)

Holds(step) == pc' = step /\ UNCHANGED verdict
Aborts(how) == pc' = "releases" /\ verdict' = how

Acquires ==
    /\ pc = "acquires"
    /\ CallStart
    /\ pc' = "acquiring"
    /\ UNCHANGED <<scenario, db, provider, drive, promise, verdict>>

Acquired ==
    /\ pc = "acquiring" /\ call = "none"
    /\ drive' = [drive EXCEPT !.held = (answer = "ok")]
    /\ IF answer = "ok" THEN Holds("provider") ELSE pc' = "over" /\ verdict' = "failed"
    /\ UNCHANGED <<leaseVars, scenario, db, provider, promise>>

(* provider_readback_form. *)
ReadsProvider ==
    /\ pc = "provider" /\ CanRun
    /\ \E p \in Providers :
          /\ provider' = p
          /\ IF ProviderMatches(p) THEN Holds("seeds") ELSE Aborts("voided")
    /\ UNCHANGED <<leaseVars, scenario, db, drive, promise>>

(* _seed_form, one declaration at a time: each is evaluated in a run of its *)
(* own, under the guard an agent's forms are under, and its terminal       *)
(* receipt installs it.  A declaration that fails is thrown once its       *)
(* receipt is written, which leaves its run open.                          *)
Declares ==
    /\ pc = "seeds" /\ CanRun
    /\ db.declared < Declarations
    /\ \/ db' = [db EXCEPT !.declared = @ + 1] /\ Holds("seeds")
       \/ db' = [db EXCEPT !.seedRunOpen = TRUE] /\ Aborts("failed")
    /\ UNCHANGED <<leaseVars, scenario, provider, drive, promise>>

(* The rows themselves, once every attribute is declared; the same form    *)
(* derives the expected values from them.                                  *)
Seeded == [db EXCEPT !.fixture = drive.plan]

Seeds ==
    /\ pc = "seeds" /\ CanRun
    /\ db.declared = Declarations
    /\ db' = Seeded
    /\ Holds("delivers")
    /\ UNCHANGED <<leaseVars, scenario, provider, drive, promise>>

(* inbound_message_form: the runs so far are counted before the message is *)
(* transacted.                                                             *)
Delivered == [db EXCEPT !.wakes = @ + 1]

(* Mutant of Delivers: the second phase counts from the sample's start. *)
DeliversFromZero ==
    /\ pc = "delivers" /\ CanRun
    /\ db' = Delivered
    /\ promise' = "none"
    /\ Holds("waits")
    /\ UNCHANGED <<leaseVars, scenario, provider, drive>>

Delivers ==
    /\ pc = "delivers" /\ CanRun
    /\ db' = Delivered
    /\ drive' = [drive EXCEPT !.before = Len(db.runs)]
    /\ promise' = "none"
    /\ Holds("waits")
    /\ UNCHANGED <<leaseVars, scenario, provider>>

(* The waiting form's value: the episode closed within its budget, or the  *)
(* sample fails.                                                           *)
Answers(status) ==
    IF status = "closed"
    THEN /\ drive' = [drive EXCEPT !.ids = Latest(db, drive.before),
                                   !.closed = @ \cup {drive.phase}]
         /\ Holds(IF Phases = 2 /\ drive.phase = 1 THEN "checkpoints" ELSE "snapshots")
    ELSE Aborts("failed") /\ UNCHANGED drive

WaitsNow ==
    /\ pc = "waits" /\ CanRun
    /\ IF Now(db) # "none" THEN Answers(Now(db)) ELSE Holds("listens") /\ UNCHANGED drive
    /\ UNCHANGED <<leaseVars, scenario, db, provider, promise>>

Listens ==
    /\ pc = "listens" /\ CanRun
    /\ Holds("rechecks")
    /\ UNCHANGED <<leaseVars, scenario, db, provider, drive, promise>>

(* Mutant of Rechecks: the promise is awaited at once. *)
RechecksNever ==
    /\ pc = "rechecks" /\ CanRun
    /\ Holds("parks") /\ UNCHANGED drive
    /\ UNCHANGED <<leaseVars, scenario, db, provider, promise>>

(* The state is read again once the listener is registered. *)
Rechecks ==
    /\ pc = "rechecks" /\ CanRun
    /\ IF Now(db) # "none" THEN Answers(Now(db)) ELSE Holds("parks") /\ UNCHANGED drive
    /\ UNCHANGED <<leaseVars, scenario, db, provider, promise>>

WakesUp ==
    /\ pc = "parks" /\ promise # "none" /\ CanRun
    /\ Answers(promise)
    /\ UNCHANGED <<leaseVars, scenario, db, provider, promise>>

(* snapshot_form reads one database value and the runs of the episode only. *)
SnapshotRead == [fixture |-> db.fixture, runs |-> {db.runs[i].pid : i \in drive.ids}, pid |-> pid]

(* _persistence_checkpoint, then the restart. *)
Checkpoints ==
    /\ pc = "checkpoints" /\ CanRun
    /\ drive' = [drive EXCEPT !.checkpoint = [pid |-> pid, runs |-> drive.ids]]
    /\ CallRestart
    /\ Holds("restarting")
    /\ UNCHANGED <<scenario, db, provider, promise>>

Restarted ==
    /\ pc = "restarting" /\ call = "none"
    /\ IF answer = "ok"
       THEN drive' = [drive EXCEPT !.phase = 2] /\ Holds("delivers")
       ELSE Aborts("failed") /\ UNCHANGED drive
    /\ UNCHANGED <<leaseVars, scenario, db, provider, promise>>

Snapshots ==
    /\ pc = "snapshots" /\ CanRun
    /\ drive' = [drive EXCEPT !.snapshot = SnapshotRead]
    /\ Holds("asserts")
    /\ UNCHANGED <<leaseVars, scenario, db, provider, promise>>

(* Mutant of AssertsSeed: a snapshot is scored as it was read. *)
AssertsNothing ==
    /\ pc = "asserts"
    /\ Aborts("scored")
    /\ UNCHANGED <<leaseVars, scenario, db, provider, drive, promise>>

(* _assert_seed_expectations: what the seed form derived is what was       *)
(* planned, and so is what the scorer derives from the snapshot, or the    *)
(* sample is void.  The scorer derives what its scenario asks for: a row   *)
(* written beside that is not seen.                                        *)
AssertsSeed ==
    /\ pc = "asserts"
    /\ Aborts(IF /\ SeedAgrees(drive.plan.rows)
                  /\ Expected(scenario, drive.snapshot.fixture) = Expected(scenario, drive.plan)
               THEN "scored" ELSE "voided")
    /\ UNCHANGED <<leaseVars, scenario, db, provider, drive, promise>>

(* A form's reply is lost: the transport fails, its timeout expires while  *)
(* the form waits, the JVM is gone.  A form with an effect may have had it. *)
FormIsLost ==
    /\ pc \in {"provider", "seeds", "delivers", "waits", "listens", "rechecks", "parks",
               "checkpoints", "snapshots"}
    /\ call = "none"
    /\ MayLose
    /\ db' \in {db} \cup (IF ~CanRun THEN {}
                          ELSE IF pc = "seeds" /\ db.declared = Declarations THEN {Seeded}
                          ELSE IF pc = "delivers" THEN {Delivered} ELSE {})
    /\ Aborts("failed")
    /\ UNCHANGED <<leaseVars, scenario, provider, drive, promise>>

(* The finally clause.  A release that fails turns a scored sample into a  *)
(* failed one, and is a note on the failure otherwise.                     *)
Releases ==
    /\ pc = "releases"
    /\ CallRelease
    /\ pc' = "releasing"
    /\ UNCHANGED <<scenario, db, provider, drive, promise, verdict>>

Released ==
    /\ pc = "releasing" /\ call = "none"
    /\ pc' = "over"
    /\ verdict' = IF answer = "failed" /\ verdict = "scored" THEN "failed" ELSE verdict
    /\ UNCHANGED <<leaseVars, scenario, db, provider, drive, promise>>

-----------------------------------------------------------------------------
WaitSteps == WaitsNow \/ Listens \/ Rechecks \/ WakesUp
DriveSteps ==
    \/ Acquires \/ Acquired \/ ReadsProvider \/ Declares \/ Seeds \/ Delivers \/ WaitSteps
    \/ Checkpoints \/ Restarted \/ Snapshots \/ AssertsSeed \/ FormIsLost
    \/ Releases \/ Released

Sample ==
    \/ DriveSteps
    \/ (LeaseSteps \/ JvmSteps) /\ UNCHANGED driveVars
    \/ AgentSteps

(* The waiting form runs, and its connection closes when the JVM it runs   *)
(* in is gone; nothing is assumed of the agent or of the other faults.     *)
ConnectionCloses == ~CanRun /\ FormIsLost

-----------------------------------------------------------------------------
(* A root is not deleted under a process that may be alive: "Never erase   *)
(* coordinates for a process that may still be alive."                     *)
ErasedRootHasNoProcess == root = "erased" => jvm = "none"

(* The one way to delete the root of a live JVM is a restart whose `start` *)
(* command failed: everywhere else the lease stops what it launched, or    *)
(* keeps the root.                                                         *)
LiveProcessKeepsItsRoot ==
    root = "erased" /\ jvm # "none" => drive.checkpoint.pid > 0 /\ drive.phase = 1

(* A scored sample ran on the provider that was asked for, settled in      *)
(* every phase, and is compared with the answer that was planned, whatever *)
(* the agent wrote to the fixture beside it.  A sample is voided only for  *)
(* the provider, for a fixture left with another answer than was planned,  *)
(* or because two of its rows were drawn with one amount.                  *)
Alike(rows) == \E i, j \in DOMAIN rows : i # j /\ rows[i].cents = rows[j].cents

ScoredOnSeededFacts ==
    /\ verdict = "scored" =>
        /\ ProviderMatches(provider)
        /\ drive.closed = 1..Phases
        /\ Expected(scenario, drive.snapshot.fixture) = Expected(scenario, drive.plan)
    /\ verdict = "voided" =>
        \/ ~ProviderMatches(provider)
        \/ Alike(drive.plan.rows)
        \/ Expected(scenario, drive.snapshot.fixture) # Expected(scenario, drive.plan)

(* What a two-phase sample is scored on comes from runs of the second      *)
(* process alone: persistence is what the phase tests.                     *)
SecondPhaseIsAnotherProcess ==
    verdict = "scored" /\ Phases = 2 =>
        \A p \in drive.snapshot.runs : p > drive.checkpoint.pid

(* A scored sample that is over has left neither a process nor a root. *)
ScoredSampleLeavesNothing ==
    verdict = "scored" /\ pc = "over" => jvm = "none" /\ root = "erased"

(* An episode that has settled while the harness waits for it is noticed,  *)
(* unless the agent is woken again first: no commit falls between the      *)
(* first look and the listener.                                            *)
Waiting == pc \in {"waits", "listens", "rechecks", "parks"}

SettledEpisodeIsNoticed ==
    (Waiting /\ Now(db) = "closed") ~> (~Waiting \/ Now(db) # "closed")
=============================================================================
