----------------------------- MODULE AgentWakes -----------------------------
(***************************************************************************)
(* How agents are woken and their graphs started and stopped               *)
(* (src/src/seon/cluster/wake.clj, src/src/seon/cluster/agent.clj).        *)
(*                                                                         *)
(* A wake says only: look.  A commit on an attempt's branch is reported to *)
(* the branch's wake route, which offers to the mailbox of the agent, or   *)
(* to the cluster's planner (db<->flow) when the agent has no routing      *)
(* entry or the commit ends the attempt.  Mailbox and planner channels     *)
(* slide, so wakes coalesce.  A planner pass stops the graphs of ended     *)
(* attempts, writes their ends on main, then writes the attempts of ready  *)
(* tasks and starts the graphs that should run; its first failure drops    *)
(* the rest of the pass.  A start forks the branch, registers its route,   *)
(* publishes the entry and primes the mailbox once.  A pass that did       *)
(* something wakes its own mailbox, and the planner when it closed.        *)
(*                                                                         *)
(* Left out: pausing and cancelling, chains, publication and the deletion  *)
(* of merged branches, agents that hold no task, the bound on running      *)
(* attempts, render wakes and listen patterns.                             *)
(***************************************************************************)
EXTENDS TurnWork

CONSTANTS
    Inboxed,        \* messages sent by my.message/send, through the recipient's inbox
    InboxSize       \* :seon.config.agent/inbox-size

ASSUME WakeAssumption ==
    /\ Inboxed \subseteq Messages \ Outside
    /\ InboxSize \in Nat \ {0}

VARIABLES
    \* on main
    attempt,        \* an attempt: held by no one yet, ready, open (its row written) or over
    stopped,        \* agents whose task has the intent :stopped
    \* the process: routing
    routed,         \* agents whose branch has its wake route registered
    entry,          \* agents with a started entry and a routed mailbox
    dead,           \* agents with an entry whose graph was asked to stop
    wake,           \* agents with a wake in their mailbox
    episode,        \* agents with an episode signal for their turn proc
    inbox,          \* messages in an agent's inbox
    reports,        \* what the commits on a branch will offer: "mail", "plan"
    offering,       \* the mailbox a route looked up: none, open or closed since
    \* the process: the planner
    planWake,       \* a wake in the planner's channel
    phase,          \* which derivation of the planner's latest pass its actions are of
    todo,           \* the actions derived and not begun
    doing,          \* the action begun
    \* histories
    dropped,        \* a planner pass failed and nothing wakes the next
    unprimed        \* agents whose start failed after their entry was published

onMain  == <<attempt, stopped>>
routing == <<routed, entry, dead, unprimed>>
routes  == <<wake, episode, inbox, reports, offering>>
planner == <<planWake, phase, todo, doing, dropped>>
wakeVars == <<workVars, onMain, routing, routes, planner>>

Ops == {"attempt", "start", "publish", "prime", "stop", "halt", "join", "exit", "close"}

TypeOK ==
    /\ WorkTypes
    /\ attempt \in [Agents -> {"held", "ready", "open", "over"}]
    /\ stopped \subseteq Agents
    /\ routed \subseteq Agents /\ entry \subseteq Agents
    /\ dead \subseteq entry /\ unprimed \subseteq entry
    /\ wake \subseteq entry /\ episode \subseteq entry
    /\ inbox \in [Agents -> SUBSET Inboxed]
    /\ reports \in [Agents -> SUBSET {"mail", "plan"}]
    /\ offering \in [Agents -> {"none", "open", "closed"}]
    /\ planWake \in BOOLEAN /\ dropped \in BOOLEAN
    /\ phase \in {"ends", "stopped", "again", "starts"}
    /\ todo \subseteq Ops \X Agents /\ doing \subseteq Ops \X Agents
    /\ Cardinality(doing) <= 1

Init ==
    /\ WorkInit
    /\ attempt = [a \in Agents |-> "held"]
    /\ stopped = {} /\ routed = {} /\ entry = {} /\ dead = {} /\ unprimed = {}
    /\ wake = {} /\ episode = {}
    /\ inbox = [a \in Agents |-> {}]
    /\ reports = [a \in Agents |-> {}]
    /\ offering = [a \in Agents |-> "none"]
    /\ planWake = TRUE /\ phase = "starts" /\ todo = {} /\ doing = {}
    /\ dropped = FALSE

\* A commit on the branch of agent a, as its route will hear of it.
Reported(a, kind) ==
    reports' = IF a \in routed THEN [reports EXCEPT ![a] = @ \cup {kind}] ELSE reports
-----------------------------------------------------------------------------
(* The wake route of a branch.  Its listener runs inside the commit, so a  *)
(* writer goes on when its own report was delivered.                       *)

\* A starting attribute wakes the planner.
RoutesPlan(a) ==
    /\ "plan" \in reports[a]
    /\ planWake' = TRUE
    /\ reports' = [reports EXCEPT ![a] = @ \ {"plan"}]
    /\ UNCHANGED <<workVars, onMain, routing, wake, episode, inbox, offering, phase, todo,
                   doing, dropped>>

\* The mailbox is looked up; a recipient without an entry wakes the planner.
LooksUp(a) ==
    /\ "mail" \in reports[a] /\ offering[a] = "none"
    /\ IF a \in entry
       THEN offering' = [offering EXCEPT ![a] = "open"] /\ UNCHANGED planWake
       ELSE planWake' = TRUE /\ UNCHANGED offering
    /\ reports' = [reports EXCEPT ![a] = @ \ {"mail"}]
    /\ UNCHANGED <<workVars, onMain, routing, wake, episode, inbox, phase, todo, doing,
                   dropped>>

\* Mutant of Offers: a mailbox that was closed takes the wake all the same.
OffersToClosed(a) ==
    /\ offering[a] # "none"
    /\ wake' = wake \cup {a}
    /\ offering' = [offering EXCEPT ![a] = "none"]
    /\ UNCHANGED <<workVars, onMain, routing, episode, inbox, reports, planner>>

\* The offer itself; a mailbox closed since is a refusal, recorded as a fault.
Offers(a) ==
    /\ offering[a] # "none"
    /\ wake' = IF offering[a] = "open" THEN wake \cup {a} ELSE wake
    /\ offering' = [offering EXCEPT ![a] = "none"]
    /\ UNCHANGED <<workVars, onMain, routing, episode, inbox, reports, planner>>
-----------------------------------------------------------------------------
(* Messages.                                                               *)

\* A writer outside the graph commits a message on the branch.
CommitsMessage(m) ==
    /\ m \notin Inboxed /\ cause[m] = "unsent" /\ AddressedTo[m] \in forked
    /\ Commits(m) /\ Reported(AddressedTo[m], "mail")
    /\ UNCHANGED <<procs, seen, mishaps, onMain, routing, wake, episode, inbox, offering,
                   planner>>

\* message/send!: accepted by the inbox, or undeliverable.
Sends(m) ==
    LET a == AddressedTo[m] IN
    /\ m \in Inboxed /\ cause[m] = "unsent" /\ a \in entry /\ m \notin inbox[a]
    /\ Cardinality(inbox[a]) < InboxSize
    /\ inbox' = [inbox EXCEPT ![a] = @ \cup {m}]
    /\ UNCHANGED <<workVars, onMain, routing, wake, episode, reports, offering, planner>>
-----------------------------------------------------------------------------
(* The mailbox and turn procs of a graph.                                  *)

\* The graph takes messages of its channels: nobody asked it to stop.
Runs(a) == a \in entry \ dead /\ {<<"join", a>>, <<"exit", a>>} \cap doing = {}

\* mailbox-step, for a wake.
ForwardsWake(a) ==
    /\ Runs(a) /\ a \in wake
    /\ wake' = wake \ {a} /\ episode' = episode \cup {a}
    /\ UNCHANGED <<workVars, onMain, routing, inbox, reports, offering, planner>>

\* mailbox-step, for a message: receive-message! writes it on the branch.
ReceivesMessage(a, m) ==
    /\ Runs(a) /\ m \in inbox[a]
    /\ inbox' = [inbox EXCEPT ![a] = @ \ {m}]
    /\ Commits(m) /\ Reported(a, "mail")
    /\ UNCHANGED <<procs, seen, mishaps, onMain, routing, wake, episode, offering, planner>>

\* The refused write is thrown, and the message is gone.
LosesMessage(a, m) ==
    /\ Runs(a) /\ m \in inbox[a] /\ Mishap
    /\ inbox' = [inbox EXCEPT ![a] = @ \ {m}]
    /\ UNCHANGED <<turns, procs, seen, onMain, routing, wake, episode, reports, offering,
                   planner>>

\* turn-step takes an episode signal.
TakesEpisode(a) ==
    /\ Runs(a) /\ a \in episode
    /\ Derives(a)
    /\ episode' = episode \ {a}
    /\ UNCHANGED <<onMain, routing, wake, inbox, reports, offering, planner>>

Passes(a) == PassStep(a) /\ UNCHANGED <<onMain, routing, routes, planner>>

\* The end that a pass writes on its branch is a starting attribute.
WritesEnd(a) ==
    /\ Observes(a)
    /\ IF ended' # ended THEN Reported(a, "plan") ELSE UNCHANGED reports
    /\ UNCHANGED <<onMain, routing, wake, episode, inbox, offering, planner>>

\* A throw is recorded as a fault and the graph goes on; a fault that cannot be
\* stored asks the graph to stop, which leaves its entry.
Throws(a) ==
    /\ Escapes(a)
    /\ dead' \in {dead, dead \cup ({a} \cap entry)}
    /\ UNCHANGED <<onMain, routed, entry, unprimed, routes, planner>>

\* Mutant of Rewakes: a pass that opened a turn leaves the next to others.
RewakesClosed(a) ==
    /\ step[a] = "rewakes" /\ "plan" \notin reports[a]
    /\ Goes(a, "idle")
    /\ planWake' = (planWake \/ a \in closed)
    /\ wake' = IF a \in closed THEN wake \cup ({a} \cap entry) ELSE wake
    /\ closed' = closed \ {a}
    /\ UNCHANGED <<turns, refusals, parked, seen, mishaps, onMain, routing, episode, inbox,
                   reports, offering, phase, todo, doing, dropped>>

\* The last of a pass: the planner is woken by a closed one, the mailbox by any.
Rewakes(a) ==
    /\ step[a] = "rewakes" /\ "plan" \notin reports[a]
    /\ Goes(a, "idle")
    /\ planWake' = (planWake \/ a \in closed)
    /\ wake' = IF a \in parked THEN wake ELSE wake \cup ({a} \cap entry)
    /\ closed' = closed \ {a}
    /\ UNCHANGED <<turns, refusals, parked, seen, mishaps, onMain, routing, episode, inbox,
                   reports, offering, phase, todo, doing, dropped>>
-----------------------------------------------------------------------------
(* The planner: db<->flow and its pass run-pass!.                          *)

\* assignment-actions: an ended attempt's graph stops, then its end is written.
Ended(a) == attempt[a] = "over" \/ a \in ended
Ends ==
    {<<"stop", a>> : a \in {b \in entry : Ended(b)}}
    \cup {<<"close", a>> : a \in {b \in Agents \ entry : attempt[b] = "open" /\ b \in ended}}

\* launch-actions: open attempts follow their intent, ready tasks get an attempt.
Launches ==
    {<<"attempt", a>> : a \in {b \in Agents : attempt[b] = "ready"}}
    \cup {<<"start", a>> : a \in {b \in Agents \ (entry \cup stopped) : attempt[b] = "open"}}
    \cup {<<"halt", a>> : a \in {b \in entry \cap stopped : attempt[b] = "open"}}

\* The next pass takes the one wake and reads the lifecycle facts.
BeginsPass ==
    /\ phase = "starts" /\ todo = {} /\ doing = {} /\ planWake
    /\ planWake' = FALSE /\ dropped' = FALSE
    /\ phase' = "ends" /\ todo' = Ends
    /\ UNCHANGED <<workVars, onMain, routing, routes, doing>>

\* Actions applied: after a stop the lifecycle is derived again, then the plan.
Advances ==
    /\ todo = {} /\ doing = {}
    /\ \/ phase = "stopped" /\ phase' = "again" /\ todo' = Ends
       \/ phase \in {"ends", "again"} /\ phase' = "starts" /\ todo' = Launches
    /\ UNCHANGED <<workVars, onMain, routing, routes, planWake, doing, dropped>>

\* The action applied now; the next one that belongs to it goes on with it.
Applies(op, a) == <<op, a>> \in doing \/ (doing = {} /\ <<op, a>> \in todo)
GoesOn(op, a, next) == todo' = todo \ {<<op, a>>} /\ doing' = next

\* write-attempt!: agent and row in one commit on main, which wakes the planner.
WritesAttempt(a) ==
    /\ Applies("attempt", a)
    /\ attempt' = [attempt EXCEPT ![a] = "open"]
    /\ GoesOn("attempt", a, {<<"start", a>>})
    /\ planWake' = TRUE
    /\ UNCHANGED <<workVars, stopped, routing, routes, phase, dropped>>

\* start-attempt!: the branch is forked and seeded, its route registered.
ForksBranch(a) ==
    /\ Applies("start", a)
    /\ Forks(a) /\ routed' = routed \cup {a}
    /\ GoesOn("start", a, {<<"publish", a>>})
    /\ UNCHANGED <<procs, seen, mishaps, onMain, entry, dead, unprimed, routes, planWake,
                   phase, dropped>>

\* The graph runs and its entry is published.
Publishes(a) ==
    /\ Applies("publish", a)
    /\ entry' = entry \cup {a}
    /\ GoesOn("publish", a, {<<"prime", a>>})
    /\ UNCHANGED <<workVars, onMain, routed, dead, unprimed, routes, planWake, phase,
                   dropped>>

\* Mutant of Primes: the mailbox waits for the first commit.
Unprimes(a) ==
    /\ Applies("prime", a)
    /\ GoesOn("prime", a, {})
    /\ UNCHANGED <<workVars, onMain, routing, routes, planWake, phase, dropped>>

\* The graph is recorded on the branch, then its mailbox is primed.
Primes(a) ==
    /\ Applies("prime", a)
    /\ wake' = wake \cup {a}
    /\ GoesOn("prime", a, {})
    /\ UNCHANGED <<workVars, onMain, routing, episode, inbox, reports, offering, planWake,
                   phase, dropped>>

\* stop-flow!: the graph is asked to stop; its running pass may finish.
AsksToStop(a) ==
    \E how \in {<<"stop", "join">>, <<"halt", "exit">>} :
        /\ Applies(how[1], a)
        /\ GoesOn(how[1], a, {<<how[2], a>>})
        /\ UNCHANGED <<workVars, onMain, routing, routes, planWake, phase, dropped>>

\* The graph exited: its open turn is closed, then its entry is dropped and its
\* channels closed.  The branch of an ended attempt loses its route, too.
Exits(a) ==
    \E op \in {"join", "exit"} :
        /\ Applies(op, a) /\ step[a] = "idle"
        /\ Interrupted(a)
        /\ entry' = entry \ {a} /\ dead' = dead \ {a} /\ unprimed' = unprimed \ {a}
        /\ wake' = wake \ {a} /\ episode' = episode \ {a}
        /\ inbox' = [inbox EXCEPT ![a] = {}]
        /\ offering' = [offering EXCEPT ![a] = IF @ = "open" THEN "closed" ELSE @]
        /\ IF op = "join"
           THEN routed' = routed \ {a} /\ reports' = [reports EXCEPT ![a] = {}]
           ELSE UNCHANGED <<routed, reports>>
        /\ phase' = IF phase = "ends" THEN "stopped" ELSE phase
        /\ GoesOn(op, a, {})
        /\ UNCHANGED <<mishaps, onMain, planWake, dropped>>

\* close!, or a merge, writes the end on main, which wakes the planner.
WritesEndOnMain(a) ==
    /\ Applies("close", a)
    /\ attempt' = [attempt EXCEPT ![a] = "over"]
    /\ GoesOn("close", a, {})
    /\ planWake' = TRUE
    /\ UNCHANGED <<workVars, stopped, routing, routes, phase, dropped>>

\* Mutant of Fails: the failure is only recorded.
FailsSilently(op, a) ==
    /\ Applies(op, a) /\ Mishap
    /\ phase' = "starts" /\ todo' = {} /\ doing' = {}
    /\ unprimed' = IF op = "prime" THEN unprimed \cup {a} ELSE unprimed
    /\ dead' = IF op \in {"join", "exit"} THEN dead \cup {a} ELSE dead
    /\ UNCHANGED <<turns, procs, seen, attempt, planWake, dropped, stopped, routed, entry,
                   routes>>

\* failed-pass!: the rest of the pass is dropped.  A start or a merge that
\* failed ends its attempt on main, which wakes the planner; a stop or a close
\* that failed, an attempt not written, or an end refused, wakes nobody.  A
\* graph that did not exit in time was asked to stop all the same.
Fails(op, a) ==
    /\ Applies(op, a) /\ Mishap
    /\ phase' = "starts" /\ todo' = {} /\ doing' = {}
    /\ \/ /\ op \in {"start", "publish", "prime", "close"}
          /\ attempt' = [attempt EXCEPT ![a] = "over"]
          /\ planWake' = TRUE /\ UNCHANGED dropped
       \/ UNCHANGED <<attempt, planWake>> /\ dropped' = TRUE
    /\ unprimed' = IF op = "prime" THEN unprimed \cup {a} ELSE unprimed
    /\ dead' = IF op \in {"join", "exit"} THEN dead \cup {a} ELSE dead
    /\ UNCHANGED <<turns, procs, seen, stopped, routed, entry, routes>>

Plans(a) ==
    \/ WritesAttempt(a) \/ ForksBranch(a) \/ Publishes(a) \/ Primes(a)
    \/ AsksToStop(a) \/ Exits(a) \/ WritesEndOnMain(a)
-----------------------------------------------------------------------------
(* Root, and the process.                                                  *)

\* Root sets a task :running: it is ready, or its open attempt goes on.
SetsRunning(a) ==
    /\ \/ attempt[a] = "held" /\ attempt' = [attempt EXCEPT ![a] = "ready"]
       \/ attempt[a] = "open" /\ a \in stopped /\ UNCHANGED attempt
    /\ stopped' = stopped \ {a}
    /\ planWake' = TRUE
    /\ UNCHANGED <<workVars, routing, routes, phase, todo, doing, dropped>>

SetsStopped(a) ==
    /\ attempt[a] = "open" /\ a \notin stopped /\ Mishap
    /\ stopped' = stopped \cup {a}
    /\ planWake' = TRUE
    /\ UNCHANGED <<turns, procs, seen, attempt, routing, routes, phase, todo, doing, dropped>>

\* The process exits and boots: its planner is primed, its agents start anew.
Reboots ==
    /\ LosesPasses /\ Mishap
    /\ routed' = {} /\ entry' = {} /\ dead' = {} /\ unprimed' = {}
    /\ wake' = {} /\ episode' = {}
    /\ inbox' = [a \in Agents |-> {}]
    /\ reports' = [a \in Agents |-> {}]
    /\ offering' = [a \in Agents |-> "none"]
    /\ planWake' = TRUE /\ phase' = "starts" /\ todo' = {} /\ doing' = {} /\ dropped' = FALSE
    /\ UNCHANGED onMain

Routes(a) == RoutesPlan(a) \/ LooksUp(a) \/ Offers(a)
Mails(a)  == ForwardsWake(a) \/ \E m \in Messages : ReceivesMessage(a, m)
Turns(a)  == TakesEpisode(a) \/ Passes(a) \/ WritesEnd(a) \/ Rewakes(a)
Planner   == BeginsPass \/ Advances \/ \E a \in Agents : Plans(a)

Next ==
    \/ \E a \in Agents : Routes(a) \/ Mails(a) \/ Turns(a) \/ Throws(a)
    \/ \E a \in Agents, m \in Messages : LosesMessage(a, m)
    \/ \E m \in Messages : CommitsMessage(m) \/ Sends(m)
    \/ Planner
    \/ \E op \in Ops, a \in Agents : Fails(op, a)
    \/ \E a \in Agents : SetsRunning(a) \/ SetsStopped(a)
    \/ Reboots

Spec == Init /\ [][Next]_wakeVars

\* Every thread of the process runs: the writers' listeners, the procs of the
\* graphs and the planner.  Nobody has to send a message or set an intent.
Fairness ==
    /\ \A a \in Agents : WF_wakeVars(RoutesPlan(a)) /\ WF_wakeVars(LooksUp(a) \/ Offers(a))
    /\ \A a \in Agents : WF_wakeVars(ForwardsWake(a)) /\ WF_wakeVars(Turns(a))
    /\ WF_wakeVars(Planner)

FairSpec == Spec /\ Fairness
-----------------------------------------------------------------------------
(* Properties.                                                             *)

\* Why an agent with work may not be woken for it: its proc parked, its last pass
\* threw, its graph was asked to stop, or it was never primed.  One whose task is
\* stopped goes on until its graph does.
Stuck(a)   == a \in parked \cup escaped \cup dead \cup unprimed
Excused(a) == Stuck(a) \/ a \in stopped

Carries(a) ==
    \/ step[a] # "idle" \/ a \in wake \cup episode
    \/ "mail" \in reports[a] \/ offering[a] = "open" \/ <<"prime", a>> \in doing

\* A wake is payload-free, coalesced, and may meet a closed mailbox; still an
\* agent whose graph runs and whose branch says that it has work is in a pass, or
\* a wake for it is on its way (the starting prime, the self-rewake, the route).
WorkIsCarried ==
    \A a \in entry : HasWork(a) /\ ~Stuck(a) => Carries(a)

Owed(op, a) == <<op, a>> \in todo \cup doing

\* Whatever main and the branches ask of the planner is in its plan or a wake for
\* it is on its way, unless a pass failed in a way nothing wakes it after.
PlanIsCarried ==
    planWake \/ dropped \/ \A a \in Agents :
    \/ "plan" \in reports[a] \/ phase = "stopped"
    \/ /\ attempt[a] = "ready" => Owed("attempt", a) \/ phase \in {"ends", "again"}
       /\ attempt[a] = "open" /\ a \notin entry \cup stopped \cup ended
            => \/ phase \in {"ends", "again"}
               \/ \E op \in {"start", "publish"} : Owed(op, a)
       /\ attempt[a] = "open" /\ a \in ended \ entry => Owed("close", a)
       /\ a \in entry /\ Ended(a) => Owed("stop", a) \/ Owed("join", a)

\* Nothing is answered that no provider was shown: a turn answers what committed
\* before it opened, not what came while the provider was called.
AnsweredWasShown == \A c \in Causes : cause[c] = "answered" => c \in shown

\* The end of a task is observed by the pass that brought it about, and only by
\* passes: with no work left an idle pass would not look.  It stays unobserved
\* only after a refused end, a throw, or an exit of its graph or process.
EndIsObserved ==
    \A a \in Agents : TaskEnd(a) /\ ~HasWork(a) => step[a] = "observes" \/ a \in unseen

\* Wakes carry no payload and coalesce; nothing that is to be done is forgotten.
NothingIsForgotten == WorkIsCarried /\ PlanIsCarried /\ EndIsObserved

\* What is asked of an agent is answered, and what ended on its branch ends on
\* main, unless the agent stands still for a reason of its own: it may open no
\* turn, it is excused, its attempt is over, or the planner dropped a pass.
Asked(a) == \E m \in Messages : AddressedTo[m] = a /\ cause[m] \in {"new", "covered"}
Pends(a) == IF a \in ended THEN attempt[a] = "open" ELSE Asked(a) /\ ~Deferred(a)
WakesAreAttended ==
    \A a \in Agents :
        Pends(a) ~> ~Pends(a) \/ Excused(a) \/ attempt[a] = "over" \/ dropped

\* recover-runs! is documented to close every prior open turn, so that nothing is
\* replayed: the forms of a frozen plan are evaluated once.
NothingIsReplayed == [][\A a \in Agents : Evaluates(a) => a \notin evaluated]_wakeVars
=============================================================================
