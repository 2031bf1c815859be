---------------------------- MODULE ScheduleFires ----------------------------
(***************************************************************************)
(* The schedule proc of an agent's graph and the store it fires in         *)
(* (src/src/seon/schedule.clj, with recover-runs! and seed-root-agent! of  *)
(* cluster.clj at boot).                                                   *)
(*                                                                         *)
(* A kick starts a pass, which claims at most the latest due instant of    *)
(* each task in one commit, calls the task's handler, and settles the      *)
(* receipt in another.  Kicks come from timers the passes arm and from     *)
(* commits that change a task.  A commit is refused, or its outcome is     *)
(* unknown and it commits later; a pass then throws.  The process may end  *)
(* anywhere.                                                               *)
(***************************************************************************)
EXTENDS Naturals, Sequences, FiniteSetsExt

CONSTANTS
    Tasks,        \* task ids, in the order of their names
    Portfolio,    \* the tasks boot declares when they are absent: expression and handler
    Expressions,  \* the expressions a task may be scheduled by
    Nominal,      \* for each expression that parses, its nominal instants
    Functions,    \* the handlers a task may declare
    MaxTime,      \* bound on the clock
    MaxMishaps    \* bound on changes of tasks, refused commits and ends of the process

ASSUME TasksAssumption == Tasks \subseteq Nat /\ DOMAIN Portfolio \subseteq Tasks
ASSUME PortfolioAssumption ==
    \A t \in DOMAIN Portfolio :
        Portfolio[t].expression \in Expressions /\ Portfolio[t].function \in Functions
ASSUME NominalAssumption ==
    DOMAIN Nominal \subseteq Expressions /\ \A e \in DOMAIN Nominal : Nominal[e] \subseteq Nat \ {0}
ASSUME BoundsOfTimeAssumption == MaxTime \in Nat /\ MaxMishaps \in Nat

VARIABLES
    now,       \* the clock
    declared,  \* the tasks in the store
    receipt,   \* the fires in the store, each with the state of its receipt
    waiting,   \* commits the writer still holds whose callers have given up
    boot,      \* how far the process has come: down, recovered, up
    graph,     \* the agent's graph: none, paused, running, or closed by a fault
    kick,      \* the kick in the proc's channel
    timers,    \* the instants of the timeouts that may still kick
    pass,      \* where the proc's pass stands
    calls,     \* history: how often the handler of a fire was called
    given,     \* history: the fires a pass of this process has given up
    broken,    \* history: the last pass ended by an answer of the writer
    mishaps    \* how many of the bounded there were

scheduleVars == <<now, declared, receipt, waiting, boot, graph, kick, timers, pass,
                  calls, given, broken, mishaps>>
storeVars == <<declared, receipt>>

Undeclared == [created |-> 0, own |-> FALSE]
Task(function, expression) ==
    [created |-> now, own |-> TRUE, expression |-> expression, function |-> function]
Declared(t) == declared[t] # Undeclared
Owned == {t \in Tasks : declared[t].own}
Fires == {<<t, n>> : t \in Tasks, n \in UNION {Nominal[e] : e \in DOMAIN Nominal}}
Claimed == {f \in Fires : receipt[f] # "none"}
Idle == [at |-> "idle"]
Mishap == mishaps < MaxMishaps /\ mishaps' = mishaps + 1

ScheduleInit ==
    /\ now = 0
    /\ declared = [t \in Tasks |-> Undeclared]
    /\ receipt = [f \in Fires |-> "none"]
    /\ waiting = <<>>
    /\ boot = "down" /\ graph = "none" /\ kick = FALSE /\ timers = {} /\ pass = Idle
    /\ calls = [f \in Fires |-> 0] /\ given = {} /\ broken = FALSE
    /\ mishaps = 0

-----------------------------------------------------------------------------
(* Instants; 0 is before the first.  An expression is any text, and the    *)
(* parser throws on one that is no cron expression.                        *)

Parses(task) == task.expression \in DOMAIN Nominal
AllParse == \A t \in Owned : Parses(declared[t])

Latest(expression, at) == Max({n \in Nominal[expression] : n <= at} \cup {0})
After(expression, at) == {n \in Nominal[expression] : n > at}

(* latest-fire-at, task-created-at: the instants up to here are covered.   *)
Floor(t) == Max({declared[t].created} \cup {f[2] : f \in {g \in Claimed : g[1] = t}})

\* Mutant of EarliestNext: measured when the pass ends.
EarliestNextFromNow == UNION {After(declared[t].expression, now) : t \in Owned}

(* earliest-next-at measures from the instant the pass observed, so what   *)
(* came due while it ran is armed too.                                     *)
EarliestNext == UNION {After(declared[t].expression, pass.observed) : t \in Owned}

-----------------------------------------------------------------------------
(* The writer, which commits one transaction after the other: what its     *)
(* callers no longer wait for commits before what is asked later.          *)

Acknowledges == waiting = <<>>
Settlement(f, outcome) == [op |-> "settle", fire |-> f, outcome |-> outcome]
Claim(f, function) == [op |-> "claim", fire |-> f, function |-> function]

(* fire-call, settle-call: what the transaction finds when it commits.     *)
Matches(c) == declared[c.fire[1]].own /\ declared[c.fire[1]].function = c.function
Takes(w) ==
    CASE w.op = "claim"  -> receipt[w.fire] = "none" /\ Matches(w)
      [] w.op = "settle" -> receipt[w.fire] = "open"
Written(w) ==
    IF Takes(w) THEN [receipt EXCEPT ![w.fire] = IF w.op = "claim" THEN "open" ELSE w.outcome]
    ELSE receipt

WriterCommits ==
    /\ waiting # <<>>
    /\ receipt' = Written(Head(waiting)) /\ waiting' = Tail(waiting)
    /\ UNCHANGED <<now, declared, boot, graph, kick, timers, pass, calls, given, broken, mishaps>>

\* Mutant of Listener: no report is relevant.
ListenerDeaf == kick' = kick

(* The listener, registered while the proc runs, kicks for a report with a *)
(* relevant attribute; fires and receipts have none.                       *)
Listener == kick' = (kick \/ graph = "running")

Changes(t, task) ==
    /\ boot = "up" /\ Acknowledges /\ Mishap
    /\ declared' = [declared EXCEPT ![t] = task]
    /\ Listener
    /\ UNCHANGED <<now, receipt, waiting, boot, graph, timers, pass, calls, given, broken>>

(* Anybody's transaction: a task is declared, rescheduled, given another   *)
(* handler, or changes hands.                                              *)
TaskChanges ==
    \E t \in Tasks :
        \/ /\ ~Declared(t)
           /\ \E e \in Expressions, f \in Functions : Changes(t, Task(f, e))
        \/ /\ Declared(t)
           /\ \/ \E e \in Expressions \ {declared[t].expression} :
                    Changes(t, [declared[t] EXCEPT !.expression = e])
              \/ \E f \in Functions \ {declared[t].function} :
                    Changes(t, [declared[t] EXCEPT !.function = f])
              \/ Changes(t, [declared[t] EXCEPT !.own = ~@])

-----------------------------------------------------------------------------
(* The pass.                                                               *)

(* A pass goes over the tasks it read, and has one of them in hand.        *)
Steps(fields) == pass' = [k \in DOMAIN pass \cup DOMAIN fields |->
                            IF k \in DOMAIN fields THEN fields[k] ELSE pass[k]]
GoesOver(tasks) == pass' = [at |-> "task", observed |-> pass.observed, left |-> tasks]
Without(t) == [u \in DOMAIN pass.left \ {t} |-> pass.left[u]]

(* A throw ends the pass before it arms a timer; the fault is recorded, or *)
(* the graph takes no more input until it is stopped.                      *)
Throws(fires) ==
    /\ pass' = Idle /\ given' = given \cup fires
    /\ graph' \in {graph, "closed"}

PassStarts ==
    /\ graph = "running" /\ kick /\ pass = Idle
    /\ kick' = FALSE /\ broken' = FALSE
    /\ pass' = [at |-> "context", observed |-> now]
    /\ UNCHANGED <<now, storeVars, waiting, boot, graph, timers, calls, given, mishaps>>

(* execution-context and task-entities.                                    *)
PassReadsTasks ==
    /\ pass.at = "context"
    /\ GoesOver([t \in Owned |-> declared[t]])
    /\ UNCHANGED <<now, storeVars, waiting, boot, graph, kick, timers, calls, given, broken, mishaps>>

NextTask == Min(DOMAIN pass.left)
NominalOf(t) == Latest(pass.left[t].expression, pass.observed)

PassConsidersTask ==
    /\ pass.at = "task" /\ pass.left # <<>>
    /\ \/ ~Parses(pass.left[NextTask]) /\ Throws({})
       \/ /\ Parses(pass.left[NextTask])
          /\ IF NominalOf(NextTask) > Floor(NextTask)
             THEN Steps([at |-> "claim", fire |-> <<NextTask, NominalOf(NextTask)>>])
             ELSE GoesOver(Without(NextTask))
          /\ UNCHANGED <<graph, given>>
    /\ UNCHANGED <<now, storeVars, waiting, boot, kick, timers, calls, broken, mishaps>>

TaskDone == GoesOver(Without(pass.fire[1]))
ThisClaim == Claim(pass.fire, pass.left[pass.fire[1]].function)

(* The claim commits: another has the fire, the task is another's or has   *)
(* another handler by now, or the fire and its receipt are this pass's.    *)
PassClaims ==
    /\ pass.at = "claim" /\ Acknowledges
    /\ receipt' = Written(ThisClaim)
    /\ \/ Takes(ThisClaim) /\ Steps([at |-> "call"]) /\ UNCHANGED <<graph, given>>
       \/ receipt[pass.fire] # "none" /\ TaskDone /\ UNCHANGED <<graph, given>>
       \/ receipt[pass.fire] = "none" /\ ~Matches(ThisClaim) /\ Throws({})
    /\ UNCHANGED <<now, declared, waiting, boot, kick, timers, calls, broken, mishaps>>

(* invoke-handler: the handler is called and answers or throws; one that   *)
(* does not resolve is an error without a call.                            *)
PassCallsHandler ==
    /\ pass.at = "call"
    /\ \/ /\ \E o \in {"result", "error"} : Steps([at |-> "settle", outcome |-> o])
          /\ calls' = [calls EXCEPT ![pass.fire] = @ + 1]
       \/ Steps([at |-> "settle", outcome |-> "error"]) /\ UNCHANGED calls
    /\ UNCHANGED <<now, storeVars, waiting, boot, graph, kick, timers, given, broken, mishaps>>

PassSettles ==
    /\ pass.at = "settle" /\ Acknowledges
    /\ receipt' = Written(Settlement(pass.fire, pass.outcome)) /\ TaskDone
    /\ UNCHANGED <<now, declared, waiting, boot, graph, kick, timers, calls, given, broken, mishaps>>

(* transact-result! throws what transact! answers: a refusal, or a bound   *)
(* that was reached with the commit still to come.                         *)
WriterRefusesPass ==
    /\ pass.at \in {"claim", "settle"} /\ Mishap
    /\ broken' = TRUE
    /\ \/ UNCHANGED waiting
       \/ waiting' = Append(waiting,
                        IF pass.at = "claim" THEN ThisClaim ELSE Settlement(pass.fire, pass.outcome))
    /\ Throws({pass.fire})
    /\ UNCHANGED <<now, storeVars, boot, kick, timers, calls>>

(* arm-timer: timeouts armed before stay, and kick once more.              *)
PassEnds ==
    /\ pass.at = "task" /\ pass.left = <<>>
    /\ \/ /\ AllParse /\ pass' = Idle
          /\ timers' = timers \cup (IF EarliestNext = {} THEN {} ELSE {Min(EarliestNext)})
          /\ UNCHANGED <<graph, given>>
       \/ ~AllParse /\ Throws({}) /\ UNCHANGED timers
    /\ UNCHANGED <<now, storeVars, waiting, boot, kick, calls, broken, mishaps>>

Pass ==
    \/ PassStarts \/ PassReadsTasks \/ PassConsidersTask \/ PassClaims \/ PassCallsHandler
    \/ PassSettles \/ WriterRefusesPass \/ PassEnds

-----------------------------------------------------------------------------
(* The clock, the graph and the process.                                   *)

ClockTicks ==
    /\ now < MaxTime /\ now' = now + 1
    /\ UNCHANGED <<storeVars, waiting, boot, graph, kick, timers, pass, calls, given, broken, mishaps>>

TimerKicks ==
    /\ \E n \in timers : n <= now /\ timers' = timers \ {n}
    /\ kick' = TRUE
    /\ UNCHANGED <<now, storeVars, waiting, boot, graph, pass, calls, given, broken, mishaps>>

(* The transitions are taken between passes; a graph starts paused, and a  *)
(* stopped one leaves a closed channel, onto which nothing is offered.     *)
GraphTransition(from, to) ==
    /\ boot = "up" /\ pass = Idle /\ graph \in from /\ graph' = to
    /\ UNCHANGED <<now, storeVars, waiting, boot, pass, calls, given, broken, mishaps>>

ScheduleStarts  == GraphTransition({"none"}, "paused") /\ UNCHANGED <<kick, timers>>
ScheduleResumes == GraphTransition({"paused"}, "running") /\ kick' = TRUE /\ UNCHANGED timers
SchedulePauses  == GraphTransition({"running"}, "paused") /\ UNCHANGED <<kick, timers>>
ScheduleStops   == /\ GraphTransition({"paused", "running", "closed"}, "none")
                   /\ kick' = FALSE /\ timers' = {}

ProcessExits ==
    /\ boot # "down" /\ Mishap
    /\ boot' = "down"
    /\ waiting' = <<>> /\ graph' = "none" /\ kick' = FALSE /\ timers' = {} /\ pass' = Idle
    /\ UNCHANGED <<now, storeVars, calls, given, broken>>

\* Mutant of Unfinished: what has no handler's call is left.
UnfinishedCalled == {f \in Fires : receipt[f] = "open" /\ calls[f] > 0}

(* recover-tx. *)
Unfinished == {f \in Fires : receipt[f] = "open"}

BootRecovers ==
    /\ boot = "down" /\ boot' = "recovered"
    /\ receipt' = [f \in Fires |-> IF f \in Unfinished THEN "interrupted" ELSE receipt[f]]
    /\ given' = {} /\ broken' = FALSE
    /\ UNCHANGED <<now, declared, waiting, graph, kick, timers, pass, calls, mishaps>>

(* root-maintenance-seed-call: what is declared stays as it is.            *)
BootSeeds ==
    /\ boot = "recovered" /\ boot' = "up"
    /\ declared' = [t \in Tasks |->
                       IF t \in DOMAIN Portfolio /\ ~Declared(t)
                       THEN Task(Portfolio[t].function, Portfolio[t].expression) ELSE declared[t]]
    /\ UNCHANGED <<now, receipt, waiting, graph, kick, timers, pass, calls, given, broken, mishaps>>

ScheduleNext ==
    \/ WriterCommits \/ TaskChanges \/ Pass
    \/ ClockTicks \/ TimerKicks
    \/ ScheduleStarts \/ ScheduleResumes \/ SchedulePauses \/ ScheduleStops
    \/ ProcessExits \/ BootRecovers \/ BootSeeds

ScheduleSpec == ScheduleInit /\ [][ScheduleNext]_scheduleVars

-----------------------------------------------------------------------------
(* A handler is called at most once for a nominal instant, and only for a  *)
(* fire in the store, whatever the process or the writer did in between    *)
(* (fire-call under fire-due!).                                            *)
CalledOnce ==
    \A f \in Fires :
        /\ calls[f] <= (IF receipt[f] = "none" THEN 0 ELSE 1)
        /\ receipt[f] = "result" => calls[f] = 1

(* An open receipt of a process that recovered is the one its pass is at,  *)
(* or one whose commit the writer did not acknowledge to a pass            *)
(* (settle-call, recover-tx).                                              *)
OpenIsHeld ==
    boot # "down" =>
        \A f \in Fires : receipt[f] = "open" =>
            f \in given \/ (pass.at \in {"call", "settle"} /\ pass.fire = f)

(* A running proc that rests has a timer no later than any instant that is *)
(* not covered, whatever changed, came due or was another's while its pass *)
(* ran: unless the writer broke the last pass off, or one of the agent's   *)
(* tasks has an expression that does not parse.                            *)
NothingDueIsSlept ==
    (graph = "running" /\ pass = Idle /\ ~kick /\ ~broken /\ AllParse) =>
        \A t \in Owned :
            \A n \in After(declared[t].expression, Floor(t)) : \E m \in timers : m <= n

(* The fires of a schedule are accounted for: none is carried out twice,   *)
(* left open unnoticed, or waited for by nobody.                           *)
FiresAreAccounted == CalledOnce /\ OpenIsHeld /\ NothingDueIsSlept
=============================================================================
