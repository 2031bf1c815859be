---------------------------- MODULE WorkLauncher ----------------------------
(***************************************************************************)
(* The bounded io work launcher of one cluster (src/src/seon/flow.clj).    *)
(*                                                                         *)
(* Any thread may submit work (submit!); one core.async.flow process takes *)
(* queued work while fewer than IoParallelism slots are taken and hands it *)
(* to a virtual thread; whichever party wins the compare-and-set on the    *)
(* submission's status settles it: it calls the submission's complete!     *)
(* once, removes it from io-submissions and gives its slot back.  A caller *)
(* whose time limit passed may interrupt its own submission, and cluster   *)
(* stop closes admission and settles what is left.                         *)
(*                                                                         *)
(* The status atom, its compare-and-set and the three steps of             *)
(* io-terminal! that follow it are kept apart, because five kinds of       *)
(* thread race on them.  What the work computes is abstracted away: an     *)
(* answer is named by the party that settled the submission.               *)
(***************************************************************************)
EXTENDS Integers, Sequences, FiniteSets

CONSTANTS
    Submissions,    \* submission ids; each names one call of submit!
    Foreground,     \* those whose submitter may interrupt them (effect.clj dispatch)
    IoParallelism,  \* :seon.config.flow.io/concurrency
    QueueDepth      \* :seon.config.flow.io/queue-depth

ASSUME SubmissionsAssumption ==
    IsFiniteSet(Submissions) /\ Foreground \subseteq Submissions
ASSUME BoundsAssumption ==
    IoParallelism \in Nat \ {0} /\ QueueDepth \in Nat

VARIABLES
    accepting,      \* the accepting? atom
    ioSubmissions,  \* keys of the io-submissions atom: the unsettled work
    drained,        \* whether the drained promise is delivered
    submitter,      \* where each call of submit! stands, and what it returned
    injecting,      \* flow/inject puts that have not reached the channel yet
    inbox,          \* the launcher's io-submission channel
    launch,         \* how far execute-io-work! went for each submission
    ioActive,       \* the launcher's io-active-count
    completions,    \* messages in the launcher's completion channel
    exited,         \* whether the launcher process has left its loop
    status,         \* status atom, its ::completed split by io-terminal!'s steps
    settler,        \* who won the compare-and-set
    answers,        \* the calls of complete!, by settling party
    active,         \* active? atom
    task,           \* task atom: nil, the FutureTask (maybe cancelled), its thread
    worker,         \* the virtual thread that runs the work
    interrupter,    \* where interrupt-work! stands, for foreground submissions
    stopper,        \* where stop-work-launcher! stands, and what it returned
    sweep,          \* stop's snapshot of io-submissions, still to be swept
    swept           \* how far the sweep went for each submission of it

admission == <<accepting, ioSubmissions, drained, submitter>>
process   == <<injecting, inbox, launch, ioActive, completions, exited>>
work      == <<status, settler, answers, active, task, worker>>
stopping  == <<stopper, sweep, swept>>
vars      == <<admission, process, work, interrupter, stopping>>

Parties   == {"submit", "worker", "launcher", "stop", "interrupt"}
Unsettled == {"queued", "running"}
Settled   == {"claimed", "answered", "forgotten", "done"}

Capacity  == IoParallelism + QueueDepth

TypeOK ==
    /\ accepting \in BOOLEAN /\ drained \in BOOLEAN /\ exited \in BOOLEAN
    /\ ioSubmissions \subseteq Submissions
    /\ submitter \in [Submissions ->
          {"idle", "open", "admitted", "refusing", "true", "false"}]
    /\ injecting \subseteq Submissions
    /\ inbox \in Seq(Submissions)
    /\ launch \in [Submissions ->
          {"none", "claimed", "active", "tasked", "executed", "counted"}]
    /\ ioActive \in Int
    /\ completions \in Nat
    /\ status \in [Submissions -> Unsettled \cup Settled]
    /\ settler \in [Submissions -> Parties \cup {"none"}]
    /\ answers \in [Submissions -> Seq(Parties)]
    /\ active \in [Submissions -> BOOLEAN]
    /\ task \in [Submissions -> {"nil", "future", "cancelled", "thread"}]
    /\ worker \in [Submissions ->
          {"none", "scheduled", "running", "interrupted", "returned", "ended"}]
    /\ interrupter \in [Submissions ->
          {"idle", "expired", "sawQueued", "sawStarted", "settling", "found", "absent", "threw"}]
    /\ stopper \in {"idle", "closed", "sweeping", "draining", "joining", "overdue",
                    "ok", "timeout", "threw"}
    /\ sweep \subseteq Submissions
    /\ swept \in [Submissions -> {"no", "interrupted", "deactivated", "settling", "yes"}]

Init ==
    /\ accepting = TRUE
    /\ ioSubmissions = {}
    /\ drained = FALSE
    /\ submitter = [s \in Submissions |-> "idle"]
    /\ injecting = {}
    /\ inbox = <<>>
    /\ launch = [s \in Submissions |-> "none"]
    /\ ioActive = 0
    /\ completions = 0
    /\ exited = FALSE
    /\ status = [s \in Submissions |-> "queued"]
    /\ settler = [s \in Submissions |-> "none"]
    /\ answers = [s \in Submissions |-> <<>>]
    /\ active = [s \in Submissions |-> FALSE]
    /\ task = [s \in Submissions |-> "nil"]
    /\ worker = [s \in Submissions |-> "none"]
    /\ interrupter = [s \in Submissions |-> "idle"]
    /\ stopper = "idle"
    /\ sweep = {}
    /\ swept = [s \in Submissions |-> "no"]

-----------------------------------------------------------------------------
(* io-terminal!: one compare-and-set, then complete!, then the finally.    *)

\* Mutant of Claim: a plain reset! of the status.
ClaimByReset(s, party) ==
    /\ status' = [status EXCEPT ![s] = "claimed"]
    /\ settler' = [settler EXCEPT ![s] = party]

\* The compare-and-set from either unsettled status; it fails on any other.
Claim(s, party) ==
    /\ status[s] \in Unsettled
    /\ status' = [status EXCEPT ![s] = "claimed"]
    /\ settler' = [settler EXCEPT ![s] = party]

\* `(or (compare-and-set! ...) (compare-and-set! ...))` answered false.
ClaimLost(s) == status[s] \notin Unsettled /\ UNCHANGED <<status, settler>>

\* complete! runs on the thread that won.
Complete(s) ==
    /\ status[s] = "claimed"
    /\ answers' = [answers EXCEPT ![s] = Append(@, settler[s])]
    /\ status' = [status EXCEPT ![s] = "answered"]
    /\ UNCHANGED <<admission, process, settler, active, task, worker, interrupter, stopping>>

\* `(swap! submissions dissoc id)`, whose watch delivers drained.
Forget(s) ==
    /\ status[s] = "answered"
    /\ status' = [status EXCEPT ![s] = "forgotten"]
    /\ ioSubmissions' = ioSubmissions \ {s}
    /\ drained' = (drained \/ (~accepting /\ ioSubmissions' = {}))
    /\ UNCHANGED <<accepting, submitter, process, settler, answers, active, task, worker,
                   interrupter, stopping>>

\* Only the worker and the launcher hold the completion channel; every other
\* party passes nil for it.
HoldsCompletion(s) == settler[s] \in {"worker", "launcher"}

\* Mutant of OfferCompletion: a rejected execution offers none.
OfferCompletionOfWorker(s) ==
    /\ status[s] = "forgotten" /\ active[s] /\ HoldsCompletion(s)
    /\ completions' = IF settler[s] = "worker" THEN completions + 1 ELSE completions
    /\ status' = [status EXCEPT ![s] = "done"]
    /\ UNCHANGED <<admission, injecting, inbox, launch, ioActive, exited, settler, answers,
                   active, task, worker, interrupter, stopping>>

\* `(when @active? (async/offer! completion ...))`: a full buffer drops it.
OfferCompletion(s) ==
    /\ status[s] = "forgotten" /\ active[s] /\ HoldsCompletion(s)
    /\ completions' = IF completions < IoParallelism THEN completions + 1 ELSE completions
    /\ status' = [status EXCEPT ![s] = "done"]
    /\ UNCHANGED <<admission, injecting, inbox, launch, ioActive, exited, settler, answers,
                   active, task, worker, interrupter, stopping>>

SkipOffer(s) ==
    /\ status[s] = "forgotten" /\ ~active[s]
    /\ status' = [status EXCEPT ![s] = "done"]
    /\ UNCHANGED <<admission, process, settler, answers, active, task, worker, interrupter,
                   stopping>>

\* offer! on a nil channel throws to the caller of io-terminal!.
OfferToNoChannel(s) ==
    /\ status[s] = "forgotten" /\ active[s] /\ ~HoldsCompletion(s)
    /\ status' = [status EXCEPT ![s] = "done"]
    /\ interrupter' = IF settler[s] = "interrupt"
                      THEN [interrupter EXCEPT ![s] = "threw"] ELSE interrupter
    /\ stopper' = IF settler[s] = "stop" THEN "threw" ELSE stopper
    /\ UNCHANGED <<admission, process, settler, answers, active, task, worker, sweep, swept>>

Terminal(s) ==
    Complete(s) \/ Forget(s) \/ OfferCompletion(s) \/ SkipOffer(s) \/ OfferToNoChannel(s)

-----------------------------------------------------------------------------
(* submit!                                                                 *)

\* The launcher has stopped accepting: complete! is called directly.
SubmitStopped(s) ==
    /\ submitter[s] = "idle" /\ ~accepting
    /\ answers' = [answers EXCEPT ![s] = Append(@, "submit")]
    /\ submitter' = [submitter EXCEPT ![s] = "false"]
    /\ UNCHANGED <<accepting, ioSubmissions, drained, process, status, settler, active, task,
                   worker, interrupter, stopping>>

SubmitOpens(s) ==
    /\ submitter[s] = "idle" /\ accepting
    /\ submitter' = [submitter EXCEPT ![s] = "open"]
    /\ UNCHANGED <<accepting, ioSubmissions, drained, process, work, interrupter, stopping>>

\* Mutant of HasRoom: off by one.
HasRoomForOneMore == Cardinality(ioSubmissions) <= Capacity

HasRoom == Cardinality(ioSubmissions) < Capacity

\* Mutant of SubmitAdmits: inject first, read accepting? afterwards.
SubmitAdmitsAndInjects(s) ==
    /\ submitter[s] = "open" /\ HasRoom
    /\ ioSubmissions' = ioSubmissions \cup {s}
    /\ injecting' = injecting \cup {s}
    /\ submitter' = [submitter EXCEPT ![s] = "admitted"]
    /\ UNCHANGED <<accepting, drained, inbox, launch, ioActive, completions, exited, work,
                   interrupter, stopping>>

\* swap-vals! decides admission where the unsettled work is held.
SubmitAdmits(s) ==
    /\ submitter[s] = "open" /\ HasRoom
    /\ ioSubmissions' = ioSubmissions \cup {s}
    /\ submitter' = [submitter EXCEPT ![s] = "admitted"]
    /\ UNCHANGED <<accepting, drained, process, work, interrupter, stopping>>

SubmitFull(s) ==
    /\ submitter[s] = "open" /\ ~HasRoom
    /\ Claim(s, "submit")
    /\ submitter' = [submitter EXCEPT ![s] = "refusing"]
    /\ UNCHANGED <<accepting, ioSubmissions, drained, process, answers, active, task, worker,
                   interrupter, stopping>>

\* Mutant of SubmitInjects: no second read of accepting?.
SubmitInjectsUnchecked(s) ==
    /\ submitter[s] = "admitted"
    /\ injecting' = injecting \cup {s}
    /\ submitter' = [submitter EXCEPT ![s] = "true"]
    /\ UNCHANGED <<accepting, ioSubmissions, drained, inbox, launch, ioActive, completions,
                   exited, work, interrupter, stopping>>

\* The second read of accepting?: a stop that follows it sees the submission.
SubmitInjects(s) ==
    /\ submitter[s] = "admitted" /\ accepting
    /\ injecting' = injecting \cup {s}
    /\ submitter' = [submitter EXCEPT ![s] = "true"]
    /\ UNCHANGED <<accepting, ioSubmissions, drained, inbox, launch, ioActive, completions,
                   exited, work, interrupter, stopping>>

SubmitTooLate(s) ==
    /\ submitter[s] = "admitted" /\ ~accepting
    /\ Claim(s, "submit") \/ ClaimLost(s)
    /\ submitter' = [submitter EXCEPT ![s] = "refusing"]
    /\ UNCHANGED <<accepting, ioSubmissions, drained, process, answers, active, task, worker,
                   interrupter, stopping>>

SubmitRefuses(s) ==
    /\ submitter[s] = "refusing"
    /\ settler[s] = "submit" => status[s] = "done"
    /\ submitter' = [submitter EXCEPT ![s] = "false"]
    /\ UNCHANGED <<accepting, ioSubmissions, drained, process, work, interrupter, stopping>>

Submit(s) ==
    \/ SubmitStopped(s) \/ SubmitOpens(s) \/ SubmitAdmits(s) \/ SubmitFull(s)
    \/ SubmitInjects(s) \/ SubmitTooLate(s) \/ SubmitRefuses(s)

\* flow/inject puts on the channel from a future of its own, so two
\* submissions may arrive in either order, and a full channel holds them back.
InboxHasRoom == Len(inbox) < Capacity

Inject(s) ==
    /\ s \in injecting /\ InboxHasRoom
    /\ injecting' = injecting \ {s}
    /\ inbox' = Append(inbox, s)
    /\ UNCHANGED <<admission, launch, ioActive, completions, exited, work, interrupter, stopping>>

-----------------------------------------------------------------------------
(* work-launcher-step and execute-io-work!, on the launcher process.       *)

Launching == {"claimed", "active", "tasked", "executed"}
LauncherIdle == ~exited /\ \A s \in Submissions : launch[s] \notin Launching

\* Mutant of CanTake: the filter compares with <=.
CanTakeOneMore(s) ==
    LauncherIdle /\ ioActive <= IoParallelism /\ inbox # <<>> /\ Head(inbox) = s

\* Mutant of CanTake: the filter keeps one slot free.
CanTakeOneFewer(s) ==
    LauncherIdle /\ ioActive + 1 < IoParallelism /\ inbox # <<>> /\ Head(inbox) = s

\* The input filter reads the submission channel only below the parallelism.
CanTake(s) == LauncherIdle /\ ioActive < IoParallelism /\ inbox # <<>> /\ Head(inbox) = s

\* The submission was settled while it was queued: it never runs.
LauncherSkips(s) ==
    /\ CanTake(s) /\ status[s] # "queued"
    /\ inbox' = Tail(inbox)
    /\ UNCHANGED <<admission, injecting, launch, ioActive, completions, exited, work,
                   interrupter, stopping>>

LauncherClaims(s) ==
    /\ CanTake(s) /\ status[s] = "queued"
    /\ inbox' = Tail(inbox)
    /\ status' = [status EXCEPT ![s] = "running"]
    /\ launch' = [launch EXCEPT ![s] = "claimed"]
    /\ UNCHANGED <<admission, injecting, ioActive, completions, exited, settler, answers,
                   active, task, worker, interrupter, stopping>>

LauncherActivates(s) ==
    /\ launch[s] = "claimed"
    /\ active' = [active EXCEPT ![s] = TRUE]
    /\ launch' = [launch EXCEPT ![s] = "active"]
    /\ UNCHANGED <<admission, injecting, inbox, ioActive, completions, exited, status, settler,
                   answers, task, worker, interrupter, stopping>>

LauncherTasks(s) ==
    /\ launch[s] = "active"
    /\ task' = [task EXCEPT ![s] = "future"]
    /\ launch' = [launch EXCEPT ![s] = "tasked"]
    /\ UNCHANGED <<admission, injecting, inbox, ioActive, completions, exited, status, settler,
                   answers, active, worker, interrupter, stopping>>

LauncherExecutes(s) ==
    /\ launch[s] = "tasked"
    /\ worker' = [worker EXCEPT ![s] = "scheduled"]
    /\ launch' = [launch EXCEPT ![s] = "executed"]
    /\ UNCHANGED <<admission, injecting, inbox, ioActive, completions, exited, status, settler,
                   answers, active, task, interrupter, stopping>>

\* The executor refused the task: the launcher settles it with the throwable.
LauncherRejected(s) ==
    /\ launch[s] = "tasked"
    /\ Claim(s, "launcher") \/ ClaimLost(s)
    /\ launch' = [launch EXCEPT ![s] = "executed"]
    /\ UNCHANGED <<admission, injecting, inbox, ioActive, completions, exited, answers, active,
                   task, worker, interrupter, stopping>>

LauncherCounts(s) ==
    /\ launch[s] = "executed"
    /\ settler[s] = "launcher" => status[s] = "done"
    /\ ioActive' = ioActive + 1
    /\ launch' = [launch EXCEPT ![s] = "counted"]
    /\ UNCHANGED <<admission, injecting, inbox, completions, exited, work, interrupter, stopping>>

LauncherUncounts ==
    /\ LauncherIdle /\ completions > 0
    /\ completions' = completions - 1
    /\ ioActive' = ioActive - 1
    /\ UNCHANGED <<admission, injecting, inbox, launch, exited, work, interrupter, stopping>>

\* flow/stop was called: the process leaves its loop between two messages.
GraphStopped == stopper \in {"joining", "overdue", "ok", "timeout"}

LauncherExits ==
    /\ LauncherIdle /\ GraphStopped
    /\ exited' = TRUE
    /\ UNCHANGED <<admission, injecting, inbox, launch, ioActive, completions, work, interrupter,
                   stopping>>

LaunchStep(s) ==
    \/ LauncherSkips(s) \/ LauncherClaims(s) \/ LauncherActivates(s) \/ LauncherTasks(s)
    \/ LauncherExecutes(s) \/ LauncherRejected(s) \/ LauncherCounts(s)

Launcher == LauncherUncounts \/ LauncherExits \/ \E s \in Submissions : LaunchStep(s)

-----------------------------------------------------------------------------
(* The FutureTask on its virtual thread.                                   *)

WorkerStarts(s) ==
    /\ worker[s] = "scheduled" /\ task[s] = "future"
    /\ worker' = [worker EXCEPT ![s] = "running"]
    /\ UNCHANGED <<admission, process, status, settler, answers, active, task, interrupter,
                   stopping>>

\* A FutureTask cancelled before its thread reached it does not call the work.
WorkerSkips(s) ==
    /\ worker[s] = "scheduled" /\ task[s] = "cancelled"
    /\ worker' = [worker EXCEPT ![s] = "ended"]
    /\ UNCHANGED <<admission, process, status, settler, answers, active, task, interrupter,
                   stopping>>

\* `(reset! task (Thread/currentThread))`
WorkerRegisters(s) ==
    /\ worker[s] \in {"running", "interrupted"} /\ task[s] = "future"
    /\ task' = [task EXCEPT ![s] = "thread"]
    /\ UNCHANGED <<admission, process, status, settler, answers, active, worker, interrupter,
                   stopping>>

\* The work returns, or throws and is caught.
WorkerReturns(s) ==
    /\ worker[s] \in {"running", "interrupted"} /\ task[s] = "thread"
    /\ worker' = [worker EXCEPT ![s] = "returned"]
    /\ UNCHANGED <<admission, process, status, settler, answers, active, task, interrupter,
                   stopping>>

WorkerSettles(s) ==
    /\ worker[s] = "returned"
    /\ Claim(s, "worker") \/ ClaimLost(s)
    /\ worker' = [worker EXCEPT ![s] = "ended"]
    /\ UNCHANGED <<admission, process, answers, active, task, interrupter, stopping>>

Worker(s) ==
    \/ WorkerStarts(s) \/ WorkerSkips(s) \/ WorkerRegisters(s) \/ WorkerReturns(s)
    \/ WorkerSettles(s)

-----------------------------------------------------------------------------
(* interrupt-task! and interrupt-work!, called by dispatch at its limit.   *)

\* A FutureTask whose thread has begun is interrupted by cancel(true) too; one
\* that has not begun is cancelled; nil is left alone.
InterruptTask(s) ==
    /\ task' = [task EXCEPT ![s] =
          IF @ = "future" /\ worker[s] \in {"none", "scheduled"} THEN "cancelled" ELSE @]
    /\ worker' = [worker EXCEPT ![s] =
          IF @ = "running" /\ task[s] # "nil" THEN "interrupted" ELSE @]

\* The await of the completion timed out (or its thread was interrupted).
DispatchExpires(s) ==
    /\ s \in Foreground
    /\ interrupter[s] = "idle" /\ submitter[s] \in {"true", "false"} /\ answers[s] = <<>>
    /\ interrupter' = [interrupter EXCEPT ![s] = "expired"]
    /\ UNCHANGED <<admission, process, work, stopping>>

\* One lookup of the submission and one read of its status.
InterruptLooksUp(s) ==
    /\ interrupter[s] = "expired"
    /\ interrupter' = [interrupter EXCEPT ![s] =
          IF s \notin ioSubmissions THEN "absent"
          ELSE IF status[s] = "queued" THEN "sawQueued" ELSE "sawStarted"]
    /\ UNCHANGED <<admission, process, work, stopping>>

InterruptSettles(s) ==
    /\ interrupter[s] = "sawQueued"
    /\ Claim(s, "interrupt") \/ ClaimLost(s)
    /\ interrupter' = [interrupter EXCEPT ![s] = "settling"]
    /\ UNCHANGED <<admission, process, answers, active, task, worker, stopping>>

InterruptReturns(s) ==
    /\ interrupter[s] = "settling"
    /\ settler[s] = "interrupt" => status[s] = "done"
    /\ interrupter' = [interrupter EXCEPT ![s] = "found"]
    /\ UNCHANGED <<admission, process, work, stopping>>

InterruptRunning(s) ==
    /\ interrupter[s] = "sawStarted"
    /\ InterruptTask(s)
    /\ interrupter' = [interrupter EXCEPT ![s] = "found"]
    /\ UNCHANGED <<admission, process, status, settler, answers, active, stopping>>

Interrupter(s) ==
    \/ InterruptLooksUp(s) \/ InterruptSettles(s) \/ InterruptReturns(s) \/ InterruptRunning(s)

-----------------------------------------------------------------------------
(* stop-work-launcher!                                                     *)

StopCloses ==
    /\ stopper = "idle"
    /\ accepting' = FALSE
    /\ stopper' = "closed"
    /\ UNCHANGED <<ioSubmissions, drained, submitter, process, work, interrupter, sweep, swept>>

StopSnapshots ==
    /\ stopper = "closed"
    /\ sweep' = ioSubmissions
    /\ stopper' = "sweeping"
    /\ UNCHANGED <<admission, process, work, interrupter, swept>>

\* The sweep takes the entries one at a time, in the map's order.
Sweeping(s) ==
    /\ stopper = "sweeping" /\ s \in sweep
    /\ \A t \in sweep \ {s} : swept[t] \in {"no", "yes"}

StopInterrupts(s) ==
    /\ Sweeping(s) /\ swept[s] = "no"
    /\ InterruptTask(s)
    /\ swept' = [swept EXCEPT ![s] = "interrupted"]
    /\ UNCHANGED <<admission, process, status, settler, answers, active, interrupter, stopper,
                   sweep>>

StopDeactivates(s) ==
    /\ Sweeping(s) /\ swept[s] = "interrupted"
    /\ active' = [active EXCEPT ![s] = FALSE]
    /\ swept' = [swept EXCEPT ![s] = "deactivated"]
    /\ UNCHANGED <<admission, process, status, settler, answers, task, worker, interrupter,
                   stopper, sweep>>

StopSettles(s) ==
    /\ Sweeping(s) /\ swept[s] = "deactivated"
    /\ Claim(s, "stop") \/ ClaimLost(s)
    /\ swept' = [swept EXCEPT ![s] = "settling"]
    /\ UNCHANGED <<admission, process, answers, active, task, worker, interrupter, stopper, sweep>>

StopMovesOn(s) ==
    /\ Sweeping(s) /\ swept[s] = "settling"
    /\ settler[s] = "stop" => status[s] = "done"
    /\ swept' = [swept EXCEPT ![s] = "yes"]
    /\ UNCHANGED <<admission, process, work, interrupter, stopper, sweep>>

StopAwaitsDrain ==
    /\ stopper = "sweeping" /\ \A s \in sweep : swept[s] = "yes"
    /\ drained' = (drained \/ ioSubmissions = {})
    /\ stopper' = "draining"
    /\ UNCHANGED <<accepting, ioSubmissions, submitter, process, work, interrupter, sweep, swept>>

\* await! answers the delivery, or its bound elapses; flow/stop follows both.
StopDrains ==
    /\ stopper = "draining"
    /\ stopper' \in {"overdue"} \cup (IF drained THEN {"joining"} ELSE {})
    /\ UNCHANGED <<admission, process, work, interrupter, sweep, swept>>

\* join-graph! observes the process's exit, or its bound elapses.
StopReturns ==
    /\ stopper \in {"joining", "overdue"}
    /\ stopper' \in {"timeout"} \cup (IF exited /\ stopper = "joining" THEN {"ok"} ELSE {})
    /\ UNCHANGED <<admission, process, work, interrupter, sweep, swept>>

Stop ==
    \/ StopSnapshots \/ StopAwaitsDrain \/ StopDrains \/ StopReturns
    \/ \E s \in Submissions :
          StopInterrupts(s) \/ StopDeactivates(s) \/ StopSettles(s) \/ StopMovesOn(s)

-----------------------------------------------------------------------------
Next ==
    \/ Launcher
    \/ StopCloses
    \/ Stop
    \/ \E s \in Submissions :
          Submit(s) \/ Inject(s) \/ Worker(s) \/ DispatchExpires(s) \/ Interrupter(s) \/ Terminal(s)

Spec == Init /\ [][Next]_vars

(* Every thread of the launcher keeps running: the process loop, the       *)
(* virtual threads, the callers inside submit!, interrupt-work! or stop.   *)
(* Nobody has to submit, to expire or to stop; work-fns are assumed to     *)
(* return, which the launcher cannot enforce.                              *)
Fairness ==
    /\ \A s \in Submissions :
          /\ WF_vars(Terminal(s))
          /\ WF_vars(Submit(s) /\ submitter[s] # "idle")
          /\ WF_vars(Inject(s))
          /\ WF_vars(LaunchStep(s))
          /\ WF_vars(Worker(s))
          /\ WF_vars(Interrupter(s))
    /\ WF_vars(LauncherUncounts)
    /\ WF_vars(LauncherExits)
    /\ WF_vars(Stop)

FairSpec == Spec /\ Fairness

-----------------------------------------------------------------------------
(* Properties.                                                             *)

\* complete! is called at most once for each submission, whichever of the
\* submitter, the worker, the launcher, the stop and the interrupter race on it.
AnsweredAtMostOnce == \A s \in Submissions : Len(answers[s]) <= 1

\* No more than concurrency + queue-depth submissions are unsettled at once.
AdmissionBounded == Cardinality(ioSubmissions) <= Capacity

\* No more than concurrency work-fns run at once: a slot is not reused while
\* the work that took it still runs, interrupted, stopped or not.
Running == {s \in Submissions : worker[s] \in {"running", "interrupted", "returned"}}
RunningWithinParallelism == Cardinality(Running) <= IoParallelism

\* Work whose submit! answered false never runs.
RefusedNeverRuns ==
    \A s \in Submissions : submitter[s] \in {"refusing", "false"} => worker[s] = "none"

\* When stop answers nil, complete! has returned for every submission that
\* submit! accepted ("stop joins terminal callbacks for every accepted
\* submission", test/seon/flow_test.clj).
StoppedMeansAnswered ==
    stopper = "ok" => \A s \in Submissions : submitter[s] = "true" => answers[s] # <<>>

\* Until the launcher closes, and while nobody interrupts, the counter that the
\* input filter reads is exactly the slots in use: work between its start and
\* its offered completion, plus completions still to be read.  A dropped offer
\* or a missed completion would lose a slot forever.
HoldsSlot(s) == launch[s] \in Launching \cup {"counted"} /\ status[s] # "done"
Counting == {s \in Submissions : launch[s] \in Launching}
NobodyInterrupts == \A s \in Submissions : interrupter[s] = "idle"
SlotsConserved ==
    accepting /\ NobodyInterrupts =>
        ioActive + Cardinality(Counting)
        = completions + Cardinality({s \in Submissions : HoldsSlot(s)})

\* The launcher keeps the promises of BoundedSettlement: a call is outstanding
\* from its admission to its answer, promised when submit! returned true, and
\* the launcher is closed when stop answered nil.
Answered    == {s \in Submissions : answers[s] # <<>>}
Outstanding == ioSubmissions \ Answered
Promised    == {s \in Submissions : submitter[s] = "true"}

Abstract == INSTANCE BoundedSettlement WITH
    Calls <- Submissions, Bound <- Capacity, outstanding <- Outstanding,
    promised <- Promised, answered <- Answered, closed <- (stopper = "ok")
ImplementsBoundedSettlement == Abstract!Settlement

\* Every submission that submit! accepted is eventually answered, unless stop
\* threw in the middle of its sweep or an interrupt kept the slot it waits for.
AcceptedIsAnswered ==
    \A s \in Submissions :
        submitter[s] = "true"
            ~> answers[s] # <<>> \/ stopper = "threw" \/ ~NobodyInterrupts

\* interrupt-work!: work still queued "is settled now with an interrupted value
\* and never runs" (docstring).
InterruptedWhileQueuedNeverRuns ==
    \A s \in Submissions : answers[s] = <<"interrupt">> => worker[s] = "none"
=============================================================================
