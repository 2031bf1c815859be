# Seon: a TLA+ verification project

Seon (`src/`) is a JVM agent system written in Clojure, with a harness in Python that
evaluates it. One JVM hosts clusters (branches of one Datahike store). Each agent of a
cluster is a core.async.flow graph with a mailbox process and a turn process; a
committed message wakes the agent, the agent runs a turn (a sequence of model calls and
evaluated forms), a form reaches the outside through an effect whose receipt is opened
and settled in the same store, and everything else the cluster does (schedules, tasks,
merges, collection) is a process that reads and commits to that store. The harness
launches such clusters, lets agents solve tasks in them, and decides from what is left
in their stores whether they did; beside it stand the scripts that make the data of the
suggestion models, train them and score them.

This project models the parts whose correctness depends on who runs between two steps,
on what was committed when, and on what is left after a crash; and, of the harness,
whether a score, an accepted run or a data set is what it claims to be.

The repository is `src/`. A Clojure file named without a directory is in
`src/src/seon/`, a Python file in `src/src-inspect-ai/src/seon_inspect/` or, where
section 8 says so, in `src/src-needle/`.

| Modules | Runs | Proved, for all values of the constants |
|---|---|---|
| `WorkLauncher`, refining `BoundedSettlement` | `launcher_race`, `launcher_queued_interrupt` | types, at most one answer, refused work never runs, a clean stop answered everything, admission, parallelism, slots, the refinement |
| `EffectReceipts` | `receipts_recovery`, `receipts_boot` | types, one outcome, notification owed or delivered, recorded before dispatch, told what is recorded, no silent orphan, nothing open after recovery, records are final |
| `AgentLifecycle` | `lifecycle_race`, `lifecycle_startOver`, `lifecycle_openTurn` | types, one graph per agent, a release is quiet, told turns are owned |
| `AgentWakes` over `TurnWork` | `wakes`, `wakes_replay` | types, nothing answered unshown, nothing forgotten |
| `GraduationEval` of `ScratchCluster`, `GraduationDrive`, `GraduationSnapshot`, `GraduationChecks` | `graduation` | a live process keeps its root, scored on the answer planned, the second phase is another process, a scored sample leaves nothing |
| `AdmittedRun`, `EvalHost`, `DatasetLock`; `ScheduleFires` | `harness` | an accepted run is one answer of its server, a rejected run keeps its log; growth is attributed; the reserve stays blind; fires are accounted for |
| `Measurement` (graders `MilestoneOracle`, `PlanContinuity`, `PlanExperiment`, `Reachability`, `ProductScenarios`; offline runs `ResumableRuns`, `ExtensionTraining`; offline data `NextFormRows`, `TrainingRows`); `GeneratedRows`, `ToolRows`, `BfclReply`, `ScoreLedger` | `measurement` | of the graders: a pass is earned, by each of the five; of offline runs: prediction files are whole, no batch is lost or packed twice; of offline data: a full call bridges back, training rows made for the index's functions share nothing with what is held out |

To repeat the checks, in this directory: `tlc -workers 2 -config MCWorkLauncher_race.cfg
MCWorkLauncher` (and so for each `.cfg`, with the module its name begins with), `tlapm
WorkLauncherProofs.tla` (and so for each `*Proofs.tla`).

## 1. Inventory

The cluster (Clojure):

| Component | State it keeps | Operations | Talks to |
|---|---|---|---|
| Work launcher (`flow.clj` 472-949) | `accepting?`, `io-submissions`, a status/active?/task atom per submission, `drained`, the process's `io-active-count`, its completion channel | `submit!`, launcher step, io task, `interrupt-work!`, `stop-work-launcher!`, `hand-off-fault!` | effects submit to it; cluster stop joins it |
| Effects (`effect.clj`) | one receipt per effect id in the store (open, settled, interrupted), notify/to refs, staged blobs | `request*`, `open-call`, `settle-value!`, `interrupt!`, `interruption-stamps`, background settlement | work launcher, turn close and recovery, messages, blobs |
| Wake routing (`cluster/wake.clj`) | a listener per branch, the channels it finds in the registry | `route!`, `deliver!`, `unlisten!` | Datahike's commit listener, agent mailboxes |
| Agent flow (`cluster/agent.clj`) | running/starting claims, route fences, mailbox and turn channels | `start-flow!`, `stop-flow!`, mailbox and turn steps, the db<->flow process | wakes, turns, cluster start/stop |
| Turns (`turn.clj`) | turn, call and batch entities; permits | `open-call`, `close-call`, `next-agent-work`, settlement, recovery, completion backstop | effects, messages, tasks |
| Messages (`cluster/message.clj`) | message entities, from/to/answered refs | `send!`, inbox reads | wakes |
| Schedules (`schedule.clj`) | schedule and fire receipts | `fire-due!`, `settle!`, recovery | messages, evaluation |
| Tasks and merge (`task.clj`, `merge.clj`) | task chains, attempts, branches, merge receipts | attempt, settle, merge, retry | turns, branches |
| Blobs (`blob.clj`) | staged and published content files, publication lock | `stage!`, `publish-staged!`, `with-publication!`, delete | effects, collection |
| Collection and branches (`cluster/registry.clj`) | branch registry, retention roots | `fork!`, `retire-branch!`, `collect!` | blobs, store |
| Branch connections (`cluster/store.clj`) | open connections with reference counts | `open-branch!`, acquire, release | every reader and writer |
| Derivation cache (`cache.clj`) | entries with claims and values, size bound | lookup, claim, settle, evict | renderers, evaluation |
| Await (`await.clj`) | none | bounded waits | everybody |
| Batches (`batch.clj`, `turn/batch.clj`) | evaluation world, forms of a batch | run, settle | turns |
| Faults and errors (`fault.clj`, `error.clj`) | fault entities, a process-wide print fallback | `fault!` | every process |
| Database access (`db.clj`, `schema.clj`, `fn.clj`) | the store's own state, transaction functions | transact, validated reads | everybody |
| Reconcilers (`reconcile.cljc`, `cluster/reconcile.clj`, `cluster/source.clj`) | desired and observed sets | diff and apply | cluster start |
| Maintenance (`maintenance.clj`) | maintenance tasks and their receipts | scheduled upkeep | schedules, collection |
| Host and process identity (`cluster/host.clj`, `cluster/process.clj`) | process entities, liveness stamps | claim, lease, recover | recovery of turns and receipts |
| Evaluation (`sci/*`, `program.cljc`) | interpreter contexts, arms with deadlines | eval, interrupt | turns, effects |
| Rendering (`render/*`) | none | projections of store values to text | turns |
| Providers and tools (`ai.clj`, `mcp.clj`, `fs.clj`, `edit.clj`, `shell.clj`, `web.clj`) | external | capability handlers | effects |
| Test runner (`test.clj`, `test/runner.clj`) | test run entities | run, record | tasks |

The evaluation and its data (Python):

| Component | State it keeps | Operations | Talks to |
|---|---|---|---|
| Scratch cluster lease (`seon_cluster.py`) | a private operator root, one JVM on it, `stopped`/`released` flags | start, restart, evaluate, stop, release | `bin/seon`, the cluster's prepl |
| Graduation evaluation (`tasks/mvp_graduation.py`, `mvp_graduation.py`) | one sample's plan, the checkpoint between two phases, one snapshot | the offline gate, seed, deliver, wait, snapshot, score | the lease; the agent works beside it |
| Admitted runs (`catalog.py`, `source_admission.py`, `cluster.py`, `solver.py`) | the identities read before a run, the log directory, the evidence directory | admit, run, read again, retain | checkout, pod, model server, Inspect |
| Eval host and model provider (`host.py`, `provider.py`) | one warm cluster, the set of active samples, counts | start, enter, generate, leave, close | concurrent generations of Inspect, the shared store |
| Dataset lock (`freeze.py`) | the lock file, the canaries, the artifacts | draw, freeze, verify, select, run a tier | upstream corpora |
| Milestone, planning, reachability and product graders (`milestone.py`, `planning.py`, `reachability.py`, `product_scenarios.py`) | none; a response's rows, prompts and reads | drive, read back, grade | the pod |
| Generators, tool rows, reply reader (`generators.py`, `tasks/frozen_tool_rows.py`, `bfcl_adapter.py`) | one seeded source of numbers, a workspace per sample | generate, drive, score, clean up | the pod |
| Scorecard (`scorecard.py`) | an append-only file of rows | reduce, append, alarm | native logs |
| Suggestion models (`src-needle`) | prediction files, checkpoints, data sets | generate, ask, resume, train, bridge, score | model servers |
| Operator and other tooling (`script/`, `bin`, `bench`, `src-clm`, the rest of `src-needle`) | files | offline tooling | none at run time |

What is hard in this code, and where: one submission settled by any of five
threads (`flow.clj`); a receipt settled by its handler while its turn is closed or
recovered (`effect.clj`, `turn.clj`); a wake that races the start, the stop or the
crash of its agent (`wake.clj`, `agent.clj`); work that is chosen from the store
while new messages commit (`turn.clj`); content published beside a collector
(`blob.clj`, `registry.clj`); a connection closed by its last holder while another
acquires it (`store.clj`); a schedule fired twice across a restart
(`schedule.clj`). In the harness: an operator command cut off before or after its effect
(`seon_cluster.py`), an agent that writes the rows it is graded on
(`tasks/mvp_graduation.py`), a machine that changes under a run (`catalog.py`), samples
whose use of one store overlaps (`host.py`), evidence whose instants coincide
(`planning.py`, `reachability.py`), and files written piece by piece by processes that
may be killed (`freeze.py`, the suggestion models). `PROJECT.json` lists the covered ones
under `hazards`, each at its line; section 10 names those not covered yet.

## 2. What makes each component correct

- **Work launcher.** A submission is answered once, by whichever of five threads
  wins it; no more than the declared number is admitted or runs; work refused
  never runs; a stop that answers nil left nothing accepted unanswered; every
  accepted submission is answered in the end.
- **Effects.** A handler runs only after its receipt is committed; a receipt has one
  outcome and keeps it; the agent of a background effect is notified once, by
  whoever made the receipt terminal; what a program is told is what the store says;
  recovery leaves no receipt of a recovered turn open.
- **Agent flow.** An agent never runs in two graphs; a released registry is quiet for
  good; a stop never leaves a turn behind that its graph knew of; starts, stops and
  releases always return.
- **Wake routing.** A commit that gives an agent work is followed by a pass of that
  agent, or by a start of it, however wakes coalesce and whatever stops meanwhile; what
  ends on a branch ends on main.
- **Turns.** One open turn per agent; work is chosen from what is committed; a turn answers
  only what its provider was shown; closing, escaping and recovering a turn settle everything it opened.
- **Branch connections.** A connection is open while somebody holds it, closed after
  the last holder, and `open-branch!` never shares one.
- **Blobs, branches, collection.** A collection removes nothing that a branch names or
  a publication is about to name; retirement never takes a branch somebody claims.
- **Derivation cache.** Concurrent lookups of a key share one derivation; an evicted or
  failed one is never served afterwards; every waiter is completed.
- **Schedules.** A handler is called at most once per task and nominal instant, across
  restarts; a claimed fire is settled, or known to be given up; what is due is waited for.
- **Tasks and merges.** A merge takes effect as a whole, against the head it was judged
  on; an attempt ends once.
- **Graduation.** The gate lets a scorer through only if it accepts what is right and
  refuses each way of being wrong; a sample is scored against the answer that was
  planned when it was seeded, by the provider asked for, and on a second phase of a second process; no live process
  loses its root and a scored sample leaves none.
- **Admitted runs.** What is accepted is one answer of the sources, pod and server that
  were admitted, whatever changes meanwhile; the log of a rejected run is kept.
- **Eval host.** Every measured write to the shared store is of a sample that some report
  names.
- **Dataset lock.** No sample of the blind tier was ever run for development.
- **Graders, rows and scorecard.** Who passes did what the task asks, in the episode that
  is scored; what did not happen, or happened to another sample, is not counted.
- **Offline runs and data.** A resumed run asks every row once and trains every batch
  once; a row's call is one that a function accepts, and held-out rows are never trained
  on.

## 3. Plan

The order follows the weight of what goes wrong silently: first the components whose
threads race on one piece of state, then the ones that join them, then the evaluation,
whose verdicts are what the project is steered by, then storage.

| | Module | Composes / refines | Behaviour | State |
|---|---|---|---|---|
| 1 | `WorkLauncher` | implements `BoundedSettlement` | submission, launch, interrupt, stop | done, proved |
| 2 | `EffectReceipts` | uses 1 as "answers at most once" | receipts, settlement, recovery, crash | done, proved |
| 3 | `AgentLifecycle` | uses the writer of 2 | claims, stops, releases, the turn thread | done, proved |
| 4 | `GraduationEval` | composes `ScratchCluster`, `GraduationDrive` (the agent beside the harness), `GraduationSnapshot`, `GraduationChecks` | lease, sample, snapshot, gate and score | done, proved |
| 5 | `AdmittedRun`, `EvalHost`, `DatasetLock` | - | admission, retention, attribution, blindness | done, proved |
| 6 | the graders (`Measurement`) and the scorecard | over `EvalEvidence` | evidence to verdict, verdicts to alarm | done, the graders proved |
| 7 | the offline tools (`Measurement`) | - | kills, resumption, training, bridging | done, proved |
| 8 | `AgentWakes` | extends `TurnWork`; the registry as 3 leaves it | choice of work, passes, routes, mailboxes, the planner's passes and their failures, reboot | done, its invariants proved |
| 9 | `BranchConnections` | implements `SharedHandle` (open while held, exclusive when asked) | open, acquire, release, retire, overlay | planned |
| 10 | `BlobPublication` | with the collector of `registry.clj` | permits, staging, publication, mark and sweep, crash | planned |
| 11 | `ScheduleFires` | the writer of 2, stated again | due work, claim, handler, settle, timers, boot | done, proved |
| 12 | `DerivationCache` | implements a one-derivation-per-claim map | claim, settle, evict, bounded wait | planned |
| 13 | `TaskMerge` | 9 for branches | attempt end, judgment, basis fence, retry | planned |

Instances stay at two or three actors, one contended object and one of each fault; where
a race needs a third actor it is in a run of its own, as in 3. Components that share no
state are checked in one run whose behaviours each belong to one of them (`MCHarness`,
`MCMeasurement`). Theorems worth proving next, with 9 and 10: the fence of publication and
collection and the refinement of `SharedHandle`.

## 4. WorkLauncher (`flow.clj`)

State: `accepting`, `ioSubmissions` and `drained` are the atoms and the promise of the
launcher; `inbox`, `completions`, `ioActive`, `exited` are the core.async.flow process
and its two channels; `status`, `active`, `task` are the three atoms of a submission.
The other variables are program counters: of `submit!`, of a pending `flow/inject`, of
`execute-io-work!`, of the virtual thread, of `interrupt-work!`, of
`stop-work-launcher!` and its sweep.

Each atom operation is a step of its own. `io-terminal!` is a compare-and-set
(`Claim`) followed by `Complete`, `Forget` and the completion offer, so that four
other threads may act between any two of them. `LauncherSkips`, `Claims`,
`Activates`, `Tasks`, `Executes`, `Counts` are the stages of one input message;
`Stop...` are the stages of a stop, which sweeps a snapshot one submission at a time.

Left out: what work computes (an answer is the name of the party that gave it);
`active-work`, which only diagnostics read. A `complete!` callback returns: in the
code it is a promise delivery or the settlement of `EffectReceipts`. The executor may
reject a task (`LauncherRejected`); the launcher process does not fail by itself.
`hand-off-fault!` is one more submitter.

- `launcher_race` (two submissions, one interruptible, one slot, no queue): answers,
  refusals, admission, parallelism, the counter that gates the input, stop, the refinement
  of `BoundedSettlement`, and that whatever was accepted is answered. One slot and queue
  depth 0 make the second submission meet every limit; two submissions are all the
  counters and the sweep tell apart. Fairness: a thread that can step does, the process
  serves its channels; work returns (effects bound their handlers). An answer is owed
  unless the stop's sweep threw or somebody interrupted.
- `launcher_queued_interrupt`: violated. `interrupt-work!` reads `::queued`, the launcher
  claims the submission, and the interrupter's settlement succeeds from `::running`: the
  program is told the work never started while it runs, and its slot is lost. This is why
  an interrupt excuses a missing answer.

Also seen in traces, without a line of the repository to hold them against: an
interrupt between the claim and the publication of the task finds no task and changes
nothing; a task cancelled before it ran is never settled by its thread, only by a
stop; messages of work settled while queued stay in the channel, so an injection may
wait; the stop's sweep can meet a submission that the launcher activates behind it and
then offers to a nil channel, which throws out of the sweep (`stopper = "threw"`).

**Proof.** `SettlementInv == TypeInv /\ SubmissionsInv /\ DrainInv /\ SweepInv`. That
answers are at most one is not inductive: a second call of `complete!` is excluded
because each party passes the compare-and-set first, except `submit!` itself, which
answers without it when admission fails, so one needs that nobody else ever met such a
submission (`Unseen`). The clean stop needs that accepted work stays in
`io-submissions` until answered (`HeldUntilForgotten`) and that `drained` is delivered
behind the close (`DrainInv`); the refinement needs that a stop's claims are settled
within its sweep (`SweepInv`).

Parallelism and the conservation of slots are a balance: the submissions that occupy a
slot (from their activation to the offer of their completion) plus the completions in the
channel are, until the launcher closes, exactly the counter plus the slots being counted,
and never more than it afterwards (`SlotBalance`). It rests on who may stand where with a
submission (`SlotControl`: a thread is started once, by the launcher, for work it marked
active). Only model-checked: `AcceptedIsAnswered`.

## 5. EffectReceipts (`effect.clj`, `db.clj`, `turn.clj`, `cluster.clj`)

State: the store (`turn`, `opened`, `result`, `interrupted`, `notify`, `to`), the
writer's `queue` and its last answer per effect, the thread of the turn (`pass`) and of
the request (`at`, `reply`), the work of the launcher (`work`, `outcome`) and what is to
be recorded of it (`settlement`). A turn runs its forms one after the other, since the
worker of a form is joined, so a turn has one thread.

The writer commits in queue order and checks each transaction function (`open-call`,
`settle-call`, `interruption-stamps`, `close-call`, `recover-call`) at its place. Who
waits may give up, by a bound or an interrupt, without withdrawing the write. A crash
loses everything but the store; `Boot` is `recover-runs!`. The launcher is used as
section 4 proves it: it answers a submission at most once. A rejected task reaches the
foreground as a nil value, as in the code. Left out: nested requests, staged content
and what a result holds (staging may throw); a stop that interrupts a turn in its
opening write is in section 6.

- `receipts_recovery` (two turns of one agent, a background and a foreground effect,
  staging failures, refused writes, rejected tasks, one crash): one outcome, final
  records, notification, recorded before dispatched, told what is recorded, no open
  receipt in a recovered turn, no receipt orphaned without a trace. Two turns are needed
  so that a background effect outlives its turn; a second crash adds no order of events
  that the first did not allow. And a background reference that a program holds is
  settled, unless its receipt was stranded: its staging threw, its settlement was refused,
  or the process crashed. Fairness: the writer serves its queue and the launcher and its
  handlers proceed; without that assumption of handlers nothing can be promised.
- `receipts_boot`: violated. Recovery visits the turns without `closed-tx`; a background
  effect may outlive its turn, and if the process dies after that turn closed, no boot
  ever interrupts the receipt, and an agent that waits for it is never woken.

Also seen: a staging failure on the detached thread is swallowed by its FutureTask and
leaves the receipt open; `settle-background-terminal!` does not read a handler's
disposition, so that a handler that asks to be recorded interrupted
(`shell/jvm.clj:408-410`) is recorded with a result when it runs detached; a foreground
open whose answer was unknown may commit afterwards and stays without a handler until
its turn is recovered.

**Proof.** `ReceiptsInv` joins the stated properties with what links the threads to the
store: an acknowledged open has a receipt (`AnswersMatch`), work exists only for a
recorded effect (`WorkRecorded`), and nothing of a request exists before its
acknowledgement (`NotYetDispatched`); without the last, an open committing late could
meet a settlement. `RecordsAreFinal` is an action property: only writer steps and the
boot change the store, and each leaves terminal receipts alone. `OrphansAreAnnounced` adds
what each return tells its program. `RecoveryLeavesNoneOpen` is about order: a turn is
recovered after its thread ended, and in the writer's queue every opening of a receipt
stands before the recovery of its turn, so none can commit behind it (`RecoveryInv`). Only
model-checked: `ReferencesAreSettled`.

## 6. AgentLifecycle (`cluster/agent.clj`, `flow.clj`)

State: the registry atom (`entry`, `starting`, `stopping`, `released`), the calls of the
threads that start, stop and release (`call`, a record with the place it stands at), the
graphs (`agentOf`, `procs`, `asked`, `shut`, `thread`, `interrupted`), and in the store
the open turn of an agent, the observed graph, and the writer's `queue`.

Each `swap-vals!` is one action (`Starts`, `Publishes`, `ClearsClaim`, `Stops`,
`StopDrops`, `ReleaseMarks`); between two of them anything may happen. A stop is a delay
shared by its callers, so it is the agent that steps (`Stop(a)`), and `StopDelivers`
moves everyone who waits: `flow/stop` and the interrupt are one step, as are the
`finally` that clears the claim and the delivery. The owner of a claim that completes
moves those who wait for it. A start that failed and has not cleared its claim is waited
for in the code by repeating the swap; here the waiter waits.

The writer is the one of section 5 without its receipts. It is first in, first out, and
an end of a turn that nobody waits for is queued before any later opening, so turns need
no identity. An interrupt inside `transact!` is answered as an unknown outcome and ends
the pass. A pass may begin behind a queued stop, because a wake may have been taken
already. `ToldTurnsAreOwned` speaks of turns a turn thread was told of, since a write
that nobody awaited is the case of `lifecycle_openTurn`.

- `lifecycle_race` (one agent, two threads, three calls, two graphs; refused writes,
  unknown outcomes, a graph that stops itself): no overlap of graphs, quiet releases, no
  turn left behind, every call returns. Every pair of a start, a stop and a release
  overlaps at every step within three calls. A third caller was explored for safety
  only; the theorems cover any number. `MaxQueue` bounds the queue behind which a new
  pass begins, not what a stop or a start may queue. Fairness: threads that can run do,
  the writer serves its queue, the join has its bound. Nothing is assumed of turns.
- `lifecycle_startOver` (three threads, three graphs): violated. A start reads an entry;
  that graph is stopped and another one published; the start finds the executor it read
  terminated, stops the agent by its id, and starts it a third time, where
  `start-flow!` promises to leave a started agent alone.
- `lifecycle_openTurn`: violated. The stop interrupts a turn that waits for its opening
  write, joins, looks for an open turn, finds none and drops the entry; the write commits
  afterwards. The agent is stopped with an open turn, which a later start resumes.

Left out: the context a start acquires, children of a registry, the mailbox, a
`start-graph!` that fails half way, crash and boot. The registry is published before the
graph is recorded in the store: a refused record leaves the entry published and unprimed
and later starts return it, which the run explores and nothing forbids.

**Proof.** `LifecycleInv` is the conjunction of seven parts. One graph per agent needs: a
running graph is registered, or built by the owner of the agent's claim (`GraphsInv`); a
claim excludes an entry and a stop (`StartsInv`); a stop drops only a terminated graph
(`StopsInv`). A quiet release needs in addition that after the mark no claim is made,
that it waits for every owner it found, and that it then knows of every entry, unless it
is going to throw (`ReleasesInv`). Calls at an agent's place name an agent (`CallsInv`),
and writes name existing graphs (`WritesInv`). Each kind of step has its lemma:
`GraphStep`, `WriterStep`, `DeliveryStep` and `StopKeepsInv` for stops, `MoveStep` for
calls without a claim, `CompletionStep` for claims that complete, `StartsKeepInv` to
`ClearsClaimKeepsInv` for the owner's own steps. Its second half goes on from there: a
turn is told to a running graph only, a running graph is registered or about to be, and a
stop that is past the join has the end of the turn committed before it drops the entry,
because a write that somebody awaits is the one its thread stands at (`AwaitedWrites`,
`ToldInv`). Only model-checked: `CallsReturn`.

## 7. GraduationEval (`seon_cluster.py`, `tasks/mvp_graduation.py`, `mvp_graduation.py`)

One live sample: the harness thread leases a scratch cluster, reads back its provider,
seeds the fixture, delivers the task, waits until the episode settles within its budget
of runs, reads one snapshot, and scores it; scenario D does it twice with a checkpoint
and a restart in between.

- `ScratchCluster` is the lease. `root` is the directory, `jvm` and `pid` the process it
  launched last, `lease` the object's flags; `call` and `at` are the method the thread is
  in and how far, `answer` its outcome. Every command of `bin/seon` may fail, or be cut
  off, before or after its effect (`Faults`), and the JVM may die at any time.
- `GraduationDrive` is the solver (`pc`, `drive`), with the agent beside it: runs open and
  close in the cluster, peers wake the agent again, the agent writes the fixture, and its
  process goes with the JVM. A form is evaluated in the JVM, so one whose reply is lost
  may have had its effect. The fixture is its rows and two toolkits, and a sample is
  compared as `_assert_seed_expectations` compares it: by what its scenario derives (A the
  selected row, B the keys of the toolkit, C the total, D the totals of the vendors, E1 and
  E2 nothing of the fixture). A row written beside that is not seen, and the sample is
  scored. The wait looks once, registers a listener on commits, looks
  again, and parks.
- `GraduationChecks` are the scorers: a check per line of a scenario's claim, over one
  snapshot, with the golden snapshot of each scenario and its mutations, one field each;
  `GraduationSnapshot` is the projection from the database to that snapshot.
- `GraduationEval` joins them: no live sample before the gate has passed.

Run `graduation` (every fault, two processes, three runs, one more wake, two nonces,
every scenario; two fixtures to draw, the second with two rows of one amount and with the
sums of the first, and a third that only the agent leaves and that has just the selected
row in common with the first): the gate admits the scorers as they are (`GateAdmits`); of the
answers an agent may leave, only one made from the sample's own, untampered rows passes
(`OnlyOwnAnswerPasses`); what a scored sample was scored on, and why one was voided (`ScoredOnSeededFacts`); what
it leaves; and an episode
that settles is noticed (`SettledEpisodeIsNoticed`). Two processes are what two phases
need, and a restart that fails launches no more; three runs are one per phase and one that
belongs to neither. Fairness: the wait form's own steps run, since its thread is
only ever parked on the listener; and a connection that was lost is closed. None is assumed
of the agent, the JVM or the operator.

The docstring of the lease says never to erase the coordinates of a process that may be
alive. A restart whose `start` command failed after it launched its JVM does: `stopped` was
set by the stop before, so `release` deletes the root under a live process.
`LiveProcessKeepsItsRoot` states that this is the only way. Also seen: the sums of the seed form
are over the set of amounts (373, 380), so a sample drawn with two rows of one amount is
driven to its end and voided; `_normal` rewrites
dashes in the keys of every map, names of vendors among them; an absent `runs-before`
becomes `int(None)` (1134); the waiting form is cut by the lease's 30 s socket timeout; a
seed declaration that failed leaves its run open (336-338); the forms of the live harness
name namespaces (`seon.cluster.work`, `.run`, `.loop`) that `src/` no longer has.
`_make_runnable_root` runs before the `try`, so a failure there leaves the directory; the
model begins behind it. Reports and result files are left out.

**Proof** (`GraduationProofs`). `SampleInv` has five parts: types; which method the thread
is in at which place of the solver (`Control`); how the root, the flags and the process
agree (`Leased`); what a sample has behind it when it is scored (`Scored`); and that every
process has a number of its own and every run of a phase is of its process (`Processes`).
The core is the last line of `Leased`: a process the flags do not know of (`stopped`, yet a
JVM) is one of a start that failed, which keeps its root and cannot be scored, or of a
restart that failed, which cannot be scored either. A sample scored on two phases has
passed the checkpoint with a smaller process number than any run it reads. That a sample
is voided for nothing else rests on `SeedAgreesUnlessAlike`: without two rows of one amount
the set loses no row. Only
model-checked: `GateAdmits`, `OnlyOwnAnswerPasses` (which evaluate the scorers),
`SettledEpisodeIsNoticed`.

## 8. The harness and the measurement

### Admission, attribution and blindness (run `harness`)

- `AdmittedRun` (`source_admission.py`, `catalog.py`, `cluster.py`,
  `solver.py`): the machine is a record of every identity the code reads. A run reads it,
  drives its sample, reads it again, and retains the log; between two reads the machine
  moves to any of `Machines`, Inspect is interrupted anywhere, and another run writes into
  the same directory. `evidence` is what each run has kept. Two runs (one native, one
  benchmark), four states of the machine and two moves: enough for a server that is
  replaced and put back.
- `EvalHost` (`host.py`, `provider.py`): three generations, each a thread; `host` is the
  object under its lock, `store` the shared store with the writer of each write, `episodes`
  the ones that go on in the cluster although their client failed.
- `DatasetLock` (`freeze.py`): a corpus, the specification of the draw, the lock and the
  artifact files; the command that writes them may be cut off at each write, upstream moves,
  the specification is edited. Four to six samples in two strata; two runs of a tier.

These share no variable; a behaviour of `MCHarness` is one part's (one of the parts,
`ScheduleFires`, belongs to section 9). What is seen: samples of
benchmark runs carry no `seon_source_admission`, so the evidence of the transport is
required of native runs only; an interrupted run retains by a difference of listings, which
may include logs of other runs, and the first unfit one ends the copying, which is the
exception stated in `RejectedRunKeepsItsLog`; `close` of the host downs only what it
started, and a retried start after a failure meets the directory it made; a sample that
failed is named by no report of its own, which is the exception in `GrowthIsAttributed`; a
canary survives a new freeze though membership changes; the lock is written in place and
before the artifacts. Not modelled: the path without logs (298-310), a summary that cannot
be written after `_started`, and conflicting sample metadata (320-333).

**Proof** of `AdmittedRun` (`AdmittedRunProofs`). `RunInv` follows a run through its places:
its log is the one it created, behind the logs it had listed (`LogIsOwn`); what it will
finalize is that log, or holds it (`ReturnsItsLog`); a native run past its listing names a
server with keys, and reaches its finalization undisputed only if it ended as it started
(`AdmittedOn`). The core is `AsksOnce`: while the sample is no error, either nothing was
asked and the rest of the chain asks once, by a step or by the fallback at its end, or it
was answered once, in a native run by the server it was admitted on, and nothing that is
left asks again. A step of another run only appends to the directory or writes its own log,
so each run's part is kept by every other (`RestFits`). Assumed of the tasks: a chain asks
its model by at most one step (`AsksOnceAssumption`; the benchmarks in `catalog.py` have a
template and `generate`, or a multiple choice). A task that asked by two would drive its
pod twice, and `swap_generate` does not look for that.

**Proof** of `EvalHost` (`HarnessProofs`). An argument about intervals. A sample is active from its
entering to its leaving. Whoever leaves sees who is still active, and whoever enters later
measures nothing written before (`LeavingSeesTheActive`); a write is of a sample that was
sent and had not reported (`WritersWereSent`). So of two samples whose intervals overlap
the one that leaves later may miss the other only if the other had left, and then the
other's own report names it.

**Proof** of `DatasetLock` (`HarnessProofs`). Every lock, on disk, about to be written or
held by a run, is `LockOf` a corpus that could be drawn (`LockTypes`), so its reserve shares
no id with the other tiers (`LockIs`, from the arithmetic of `split_ids`); a run holds the
lock it was loaded under and asks for no id beyond its tier (`RunnerFits`, `ServedFits`).
That the formal tier, drawn again from what upstream serves by then, is the reserve of that
lock is the comparison of digests in `FormalTierFits`. The draw itself, shuffling and
dealing, is a fold over data: that it lists the rows of a corpus without duplicates once
each is `DrawAssumption`, which TLC evaluates over the corpora and specifications of the
run, stratified and not.

### Graders, rows, scorecard and suggestion models (run `measurement`)

Each module pairs what the program decides with what really happened, kept in variables
the program does not read; its property compares the two.

| Module | Really happened | Decided by | Bounds |
|---|---|---|---|
| `MilestoneOracle` (`milestone.py`) | `pod`: namespaces and facts the rows made | patterns and order of eval rows | episodes within two rows of a part of the golden one |
| `PlanContinuity` (`planning.py`) | steps and work before and after the restart, on a clock with coinciding instants; what each form did | the snapshot's instants, and what each form's source looks like | three steps, three acts, clock to 3; eleven forms, seven that are what they look like and four that are not |
| `PlanExperiment` (`planning.py`) | roots ever made, by whom and when | one bounded read after the run | four transactions |
| `Reachability` (`reachability.py`) | how far along a chain of the row the agent came; the two product calls come in either order | prompts and rows | two forms beyond a part of the chain |
| `ProductScenarios` (`product_scenarios.py`) | the branch's messages, evals, children, processes | the readers' evidence | two agents, seven events |
| `GeneratedRows`, `ToolRows` (`generators.py`, `tasks/frozen_tool_rows.py`) | what a template's task asks, stated a second time; how each agent left its workspace | the row's oracle; the scorer | one draw of every template, eleven selections |
| `BfclReply` (`bfcl_adapter.py`) | the calls written into the reply | the calls found in it | three pieces of text and values |
| `ScoreLedger` (`scorecard.py`) | how each episode ended | the row and the alarm | three rows, two arms, two epochs |
| `ResumableRuns` (`src-needle/scripts`: `kt3_redux.py`, `kt3b_coder_models.py`, `lora_*`, `gen_seon_queries.py`, `eval_extend.py`) | rows answered | lines of the file | four rows, two in flight, four starts |
| `ExtensionTraining` (`train_extend.py`) | batches applied to the weights | step and weights on disk | two or three epochs, two kills |
| `NextFormRows` (`build_v2.py`, `eval_extend.py`) | the form of the turn | the call, and the form it is bridged back to | two cards, two forms |
| `TrainingRows` (`gen_seon_queries.py`, `data_extend.py`) | the index each query was gated on, what is held out | the rows written | five functions in two dumps; one row, the property being about a row |

`Measurement` puts those that are proved side by side: the graders, the offline runs and the
offline data. In
this run, of 1.5 million states, the bounds are such that each part meets the cases its code has a branch for; every property
is falsified under them by the mutants listed in `PROJECT.json`.

Where a property states an exception, the code has it:

- *Graders.* The contract of a milestone without oracle skips the read-back of the database
  and the order of the evidence, and registering in the row that enters the namespace counts as
  registering inside it. `my.plan` is external, being no longer in `src/`; closing a
  step twice is not modelled. That a form does what its source matches is assumed in
  `MilestoneOracle`, `PlanExperiment` and `Reachability`, none of which has forms that only
  quote a call or hold it in a comment; `PlanContinuity` has such forms, see below.
  `check_namespace` cannot see a second resident that neither sends nor
  evaluates; the recovered child is read from the processes after the database; the instant
  of the fresh test is not compared with the repair; a branch that did not become ready
  stays open. Type checks of evidence records are abstracted.
- *Plan continuity.* Two exceptions of `ContinuityEarned` are disagreements of the code with
  its own text. `Resumed` takes a step completed at the instant the harness read between the
  phases (`>=`, planning.py:91); the header (24-25) asks for a step completed after the
  restart, and the driver (501-504) says every write of the first phase is strictly before
  that instant. On a clock of milliseconds it need not be, so a plan whose only close came
  before the interruption, in its millisecond, is credited; TLC finds such an episode when the
  disjunct is taken out of the property. And `_classify` (134-150) tells rows by their source
  in a fixed order: prose by its narration, a close by how it begins, planning by a mention of
  `plan!` or `step!` anywhere, other chatter by how it begins, the rest work. A form that
  works and closes begins with neither and is work; one that begins with `done!` and goes on
  is a close; one that only mentions `plan!` is planning; one that fails after its effect is
  not counted. A form is a record of how it looks and what it does (`PlanRows`), and
  `AsItLooks` tells whether they agree. That a plan was laid, survived and was finished is
  claimed for every form, as it rests on the snapshot; what came first and that closes were
  not dumped in one go, which rest on the sources, are claimed until a form has misled. The
  comment at 141-143 says prose breaks no run of closes; `check_close_adjacency` lets any
  other successful row break one, as its own docstring has it, and so does the model. An act
  is one evaluation; several rows of one millisecond are several acts between two ticks.
- *Tool rows and replies.* `_namespace_workflow`, which rounds decimals, is not modelled. In
  a reply with a stray bracket or quote in its prose later calls may be lost; only that no
  call is invented is claimed then. The fallback of argument keys is abstracted.
- *Scorecard.* A run in which nothing concluded is recorded with mean 0.0 and may trip the
  alarm (231-232, where the docstring excludes such runs). `append_row` checks and then
  appends, and is not atomic; a torn last line makes `load_rows` raise.
- *Offline runs.* `gen_seon_queries` records a batch that failed all its attempts as empty and
  does not ask again; a torn line makes every later start raise. Not modelled: a tear between
  a line and its newline, the retry without temperature, two starts of one arm at once.
- *Training.* Not modelled: a fresh start in a used directory, torn weight files, an empty
  validation set, the log entry of an epoch lost to a kill at its end.
- *Rows.* Index rows are matched by the only function of a name though the docstring asks for
  name and first line; keys that are undeclared or share a last segment lose their namespace
  with status "full"; three clashing parameters leave the third short, and clashing ones are
  put back at the end; two cards of one snake name bridge to the last; text that reads like a
  keyword or a form comes back as one. A query's arguments are
  checked when it is kept and not again when its row is built (data_extend.py:513): in an
  index dumped since they may be no parameters of the function, or lack a required one. So
  each row remembers the index its query was gated on, and the property holds the arguments
  to that one; no property is stated of the later index, as none holds. Only queries made for
  the index's functions are compared with the evaluation's (479); published rows are taken
  whatever they ask (452-465), and the run has one that asks what an evaluation case asks.
  The split of validation rows is per row, so two menus of one
  query may fall on both sides. Answers too long for the decoder and the gate's other checks
  are abstracted into `Situations`.

**Proof** of the offline runs (`MeasurementProofs`). Of a prediction run (`PredictionsAreWhole`)
the invariant is a partition: every row that is wanted is in the file, in one request in
flight, or not yet handed out; a save appends rows of one request, which are in neither the
file nor another, and a torn line is the last there will be. A conclusion rests on the
partition with nothing in flight and nothing left.

That no batch of a training run is lost (`NoBatchIsLost`) is proved for any plan, intervals,
losses and number of kills. Weights have every batch before the step beside them, and exactly
those, once, unless a kill came between the two files (`Applies`). This holds of the weights
in memory and of the file, except while the step is written, when the latest weights are
those in memory (`WritesWhatIsDue`) and the step on disk is not past the run's
(`StepOnDisk`): so a run killed there goes back and applies some batches twice, and never
skips one. The best loss known is no more than any in memory or in the log, and the best
weights are not behind it but while they are written (`BestIsLeast`). What the batches are
(`BatchesFit`) follows from packing one row at a time, the longest first: the rows not yet
packed, the batch that is filled and the batches that are full share the rows out, and none
is past the budget but one of a single row. How many there are is a sum of prefix sums, and
no order in which an epoch is shuffled changes it (`TotalOfShuffled`).

**Proof** of the offline data (`MeasurementProofs`). A row of recorded turns is followed from its
card to the call and back: a tool's parameters are the declared keys, each with a name of its
own; translating a map or a list changes one argument at a time, so a call that is marked
full has, for each keyword, the argument of that parameter, and reading it back finds the
same keyword and the same value. Further tools are appended behind the row's own. Of the
training rows the invariant says what a row made for a function of the index passed: its query
is not one of the evaluation's, its function is not held out, its arguments fit the index it
was gated on, its call is of the menu; of a published row, only that its call is of the menu
and the menu fits or is its own. Trimming takes one tool
at a time and never the one that is called, and stops at the encoder's length or the smallest
menu. Shuffles and sampled orders are any order in the model, so nothing rests on them.

**Proof** of the graders (`MeasurementProofs`). Each invariant says that what an oracle can read
happened; the property follows by what the oracle asks of it.

- *Milestones.* Whatever successful rows show in their order, the pod has: both namespaces
  entered, a registration not before the entering, as many definitions as there are rows of
  them and the last as precise as the last row; a store behind both registrations, a query
  behind the store, a computation behind the query (`NamespacesFit`, `DatabaseFits`). The
  oracle takes the first or the last of the rows that fit, which are such rows. A response
  it takes for ordered is the rows as they were committed (`ResponsesAreOrdered`, a lemma of
  `EvalEvidence` that reachability rests on too).
- *Plan continuity.* A step that is older than the interruption was laid before it, and if it
  was not closed before it, it was open when that millisecond began; a wiped database has no
  older step (`StepsAreOfTheirPhase`). How the agent went about it is told by which rows
  succeeded and where closes stand alone (`MannerFits`), as long as every row is what it looks
  like; one that is not ends that part of the claim for good.
- *Plan experiment.* Before the first turn only the harness's transactions and the roots there
  are matter; from it on, every root there is is in the history, and the harness makes none
  (`RootsAreAccounted`). The evidence is what there was when it was read, and nothing moves
  after it (`EvidenceIsRead`).
- *Reachability.* Prompts and rows are moments of the episode, ordered by turn and by the place
  in it, a turn's prompt before its rows. The invariant says that whenever moments in
  increasing order show the first links of a chain, the agent came at least that far
  (`ChainsAreFollowed`): the newest moment is after all others, so it can only show the last
  of those links. An oracle that accepts has found the moments of a whole chain.
- *Product scenarios.* A snapshot was read from the branch, which nothing changes between the
  read and the score but the host's processes, and those for the recovery alone, whose
  evidence reads them last (`SnapshotOfBranch`); a branch with a repair has its version in
  the history (`FitBranch`), and a scored sample has a closed branch.

The proofs need the openings of an episode to be forms and plans of the code's kind
(`FormsAreForms`, `PlansAreEarlier`) and nothing of the bounds but that they are numbers. Not
proved, and checked by the run: `ScoreIsOfTheEpisode`, of tool rows, replies and the scorecard.
## 9. AgentWakes (`turn.clj`, `cluster/agent.clj`, `cluster/wake.clj`)

How an agent comes to do what it has to do. `TurnWork` is the pass of a turn proc over the
facts of its branch, `AgentWakes` what wakes it, starts it and stops it. The agents are
attempts of tasks, each on a branch of its own.

- *Facts of a branch.* `cause` says of every message, and of the red proving of an attempt,
  whether a turn has to answer it, covers it or has answered it; `open`, `latest`,
  `gaveBack`, `spent` and `failed` are what the queries of `turn.clj` read of turns and
  provider attempts; `ended` is `:seon.agent/admission-closed-tx`. Nothing says that there is
  work: `NextWork` (`next-agent-work`) and `TaskEnd` (`task-end`) derive it.
- *A pass.* `step` is where it stands. One derivation, one thing done, each store write
  refused or not: proving, opening, reading the context, calling, freezing, evaluating,
  settling; then `Observes` (`end-task!`) and `Rewakes`. `refusals` and `parked` are the
  state of the proc. A throw at any place is `Escapes`.
- *Wakes.* `reports` is what a commit will make the branch's route offer. The lookup in the
  registry and the offer are two steps (`LooksUp`, `Offers`), since a stop may come between;
  the channels `wake` and `episode` are sets because wakes coalesce. `inbox` is the bounded
  channel of `my.message/send`.
- *The planner.* `db<->flow` derives `Ends`, derives again behind a stop, then `Launches`
  (`phase`), and applies the actions one by one (`todo`, `doing`); the first failure drops
  the rest (`Fails`). `attempt` and `stopped` are the rows of main it reads.

Run `wakes` (one attempt from its task to its end, a message through the inbox and one from
outside, a bound of two turns, and one mishap: any refused write, failed provider, throw,
stop or reboot):

- `NothingIsForgotten` joins three statements of what a payload-free wake has to guarantee:
  an agent with a graph and work is in a pass or a wake for it is on its way (`WorkIsCarried`);
  what main and the branches ask of the planner is in its plan or a wake for it is on its way
  (`PlanIsCarried`); and a task's end is observed by the pass that brought it about
  (`EndIsObserved`), since an idle pass does not look.
- `AnsweredWasShown`: what came while the provider was called is not answered by that turn.
- `WakesAreAttended`: what is asked of an agent is answered, and what ended on its branch
  ends on main.

Each states its exceptions, and they are the code's: an agent whose proc parked, whose last
pass threw (nothing wakes an agent after a throw), whose graph was asked to stop by a fault
that could not be stored, or whose start failed behind the publication of its entry; for
`WakesAreAttended`, one whose task is stopped; an end that was refused or lost with a throw
or an exit; and a planner pass that failed at a stop, a close, or in writing down its own
failure, after which nothing wakes the planner (`dropped`). One agent is enough because
agents meet only in the planner's one thread, whose failure of another's action is
`dropped`; two messages are one per way in; two turns are enough to continue a reply and to
meet the bound; one mishap reaches every exception. Explored once for the invariants,
without a run here: two mishaps with two refused writes to park (1.9 million states), and
two agents with one message (9.5 million). Fairness: the listeners of the writers, the
mailbox and turn procs and the planner run whenever they can, as threads of one process do.
None is assumed of who sends messages, sets intents, or of mishaps.

Run `wakes_replay`: violated. `recover-runs!` closes open turns "so that nothing is
replayed", but reads main's; an attempt's turn is on its branch. A reboot between the
evaluation of a frozen plan and its settlement leaves it open, and the first pass of the
restarted agent evaluates the plan again.

Also seen: `delivery` and `stop-flow!` say that a route can never reach a channel a stop has
closed (`wake.clj:348`, `agent.clj:1597`), which holds of the registry but not of a lookup
made before it; the wake is then recorded as a refused delivery, and `NothingIsForgotten`
shows that nothing is lost by it. A start whose `graph-observed!` is refused leaves a
published entry that was never primed and is not started again.

**Proof** (`AgentWakesProofs`). `TypeCorrect` and `AnswersAreShown`
follow from `WakesInv`, two parts that no step of the other disturbs. `WorkInv` speaks of
branches and passes: a turn opens below its bound and a proc at work is not parked, without
which the counters would leave their range (`Bounded`), and between the reading of the
context and the attempt all that the open turn covers was shown (`CoveredIsShown`) - what
commits meanwhile is new, since only an opening covers. `WakeInv` speaks of the process: a
mailbox that was looked up has an entry until it is closed (`OfferedIsThere`), and what the
planner is about to prime, stop or join has one (`PlannedIsThere`), so that no wake is put
where there is no mailbox.

`NothingForgotten` adds `CarryInv`, which says three things of every agent. `EndOf`: a pass
that works on a turn has it open, so that only a step towards the observation can bring an
end about. `RouteOf`: an agent in a pass has an entry, an entry has its branch and its route
(so a commit on it is always reported), and the report of an end is delivered before its pass
is over. `PlanOf`: what the planner's two derivations did not find has ended, or was asked,
since, and is news to it: an end after the first derivation was reported before the graph
could exit (`SecondEndIsNews`), what is started had not ended (`StartIsOpen`), what is halted
was stopped (`HaltIsStopped`). Without them the exit of a graph in the second round would
leave an attempt that nobody closes. A frame lemma (`SameEnd`, `SameRouteKeeps`) disposes of
the other agents. Only model-checked: `WakesAreAttended`.


### Schedules (`ScheduleFires`, a part of run `harness`)

`ScheduleFires` is the third proc of an agent's graph (`schedule.clj`) with the store it
fires in. `pass` is the transform of one kick, a step per action: the instant it observes,
the tasks it reads, the latest due instant of each against `Floor`, the claim (`fire-call`),
the handler, the settlement, and the timer it arms. `kick` is the channel of one sliding
place; `timers` are all timeouts that may still offer to it, since none is ever cancelled.
Beside it tasks are declared, rescheduled and change handler or owner, each commit with the
listener's kick; the graph is paused, resumed, stopped and started; the process ends and
boots (`recover-tx`, then the seeds). The writer is that of section 5: a commit is refused,
or its caller gives up and it commits later, before whatever is asked afterwards (`waiting`).

`FiresAreAccounted` says three things. A handler is called at most once for a nominal
instant, and only under a committed claim, though a claim may commit after its pass gave up
and a second pass claim the same instant. An open receipt is the one a pass is at, or one
whose commit a pass gave up; after a boot there is none of before. And a running proc at
rest has a timer no later than any instant not covered: the timer is measured from the
instant the pass observed, not from its end, and what changed under the pass kicked.

The exceptions in it are the code's. A pass that throws arms no timer. A task whose owner or
handler changed since the pass read it makes the claim throw, and there the commit that
changed it has kicked, so the property needs no exception. But after a refused commit, or one
of unknown outcome, nothing kicks until a task changes or the graph resumes, and a claim
that commits late leaves a fire whose handler is never called and whose receipt stays open
until the next boot. And an expression is any text (`resources/seon/schemas/seon.schedule.edn:2`):
one that cron-utils does not parse makes every pass of its agent throw, before the tasks
behind it and before the timer.

Two tasks, three instants of time (0 to 2), three expressions (hourly, daily and one that
does not parse), two handlers, and two of: a change of a task, an unacknowledged commit, an
end of the process. Two suffice for a change and a crash, a late claim and a crash, and a
task taken away and given back within a pass; three on a longer clock were explored once
without the unparseable expression and showed nothing else. Not modelled: a schedule shared by several tasks,
the wake and the fault message a fire causes, and the calendar itself; recovery is of the
branch boot reads.

**Proof** (`HarnessProofs`). `ScheduleInv` has two halves. Of the store: a pass whose
claim was acknowledged left nothing in the writer, and nothing enters it before the pass
ends (`HeldByPass`), and what the writer still holds was given up (`HeldByWriter`); so what
is open and in hand stays open, and is called once. Of the wakes: while no kick came, the
tasks a pass read are the tasks there are (`ReadIsCurrent`), the fire in hand is the latest
due instant of its task (`FireIsLatest`), and what was due at the instant of the pass and is
not covered is still before it (`DueIsLeft`). A pass that ends has then covered all that was
due, and arms its timer for the least instant after. Assumed: tasks are numbers and the
seeded portfolio uses the declared expressions and handlers, a calendar is a set of instants
after zero for each expression that parses (`NominalAssumption`), and the bounds are
numbers; the bounds on time and mishaps are used for nothing else.

## 10. What stays with the model checker, and what is not modelled

Liveness under fairness, and ENABLED, are outside the prover's reach and rest on the
runs: `AcceptedIsAnswered`, `CallsReturn`, `WakesAreAttended`, `ReferencesAreSettled`,
`SettledEpisodeIsNoticed`. So do three properties of what scorers compute, which are checked
over enumerated evidence: `GateAdmits` and `OnlyOwnAnswerPasses` of `graduation`, and
`ScoreIsOfTheEpisode` of `measurement`. They evaluate folds of the library
over mutations of golden snapshots, generated rows and replies, which the prover cannot expand; where such a computation is written as a bounded recursive function (packing,
trimming and topping up a menu, translating a call) it is proved, by induction stated of a
set of numbers (`NatInductionInSet`). No module declares a RECURSIVE
operator. The assumptions of the proofs are the named ASSUMEs of the modules: finiteness of the submissions and positive bounds, that
effects belong to turns and are no turns, that absence is no caller, graph, agent or
advertisement, that budgets are numbers and that no sample has more than two phases; and
those of the harness and its tooling, which the sections of their modules give the reasons
for: that a task's chain asks by one step, that a draw lists a corpus once, that calendars
and the portfolio are of the declared expressions, that a form has one call and a situation
one function, that the smallest menu has a tool, and that a plan an episode begins with was
laid before the second millisecond of its clock. The goldens of two graders are assumptions
too, which no proof uses: TLC evaluates that the oracles tell them apart.

Not modelled, because there is no protocol in it: reading, validating and rendering store
values; the interpreter; providers and tools, whose outcomes are inputs of
`EffectReceipts`; waits, which have no state of their own; configuration; the test runner;
launch scripts, benchmarks and the analyses of `src-needle` that only read and report.

Not modelled yet, with what can go wrong there:

- *Wakes and turns.* Pausing and cancelling, chains and the merge they end in, publication
  and the deletion of branches, agents that hold no task, the bound on running attempts,
  source submissions, schedules as causes of turns; the request to quiesce, which shares a
  sliding buffer of one with wakes (`cluster.clj:3732`); listen patterns and render wakes.
- *Launcher and effects.* A foreground call that times out interrupts work that is being
  started at that moment (`flow.clj:575`); a stop switches the completion off while the
  launcher may be switching it on (761), and a full channel of completions holds back an
  injection (690); staging that throws on the detached thread (`effect.clj:685`), and the
  disposition of a detached handler, which is not read (684): both are described in section
  5, and no property of the repository is there to hold them against.
- *Storage.* `open-branch!` checks that no connection exists and then connects, while
  `acquire-branch!` may come between (`cluster/store.clj:741`); a retirement collects claims
  and holders branch by branch and retires afterwards (`cluster/registry.clj:647`); content
  is published before the reference to it commits, beside a collection (`blob.clj:332`).
- *Cache.* A claim is settled or taken back by its owner alone, beside evictions and other
  owners of the same key (`cache.clj:152`).
- *Merges.* The basis of a judgment may be stale when it commits (`merge.clj:362`).

Batches, messages, reconcilers, maintenance and faults follow the components they serve.
