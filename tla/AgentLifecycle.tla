---------------------------- MODULE AgentLifecycle ----------------------------
(***************************************************************************)
(* Starting, stopping and releasing the graphs of the agents of one        *)
(* registry (src/src/seon/cluster/agent.clj, with start-graph! and         *)
(* join-graph! of flow.clj).                                               *)
(*                                                                         *)
(* The registry is one atom without a monitor: each operation first swaps  *)
(* a claim into it, or finds the claim of another thread and waits for     *)
(* that.  A start runs on the thread that claimed it.  A stop is a delay,  *)
(* run once for all its callers: it asks the graph to stop, interrupts its *)
(* turn, joins its executor within a bound, records what was left open     *)
(* and drops the entry.  A release refuses later starts, waits for the     *)
(* ones in flight and stops every graph.                                   *)
(*                                                                         *)
(* A graph's turn thread opens and ends turns in the store.  Writes go     *)
(* through a serial writer; who waits for one may be interrupted or reach  *)
(* a bound, which does not withdraw it.                                    *)
(*                                                                         *)
(* Left out: what a turn does, the mailbox and its wakes, the context an   *)
(* execution acquires, the children of a registry, crash and boot.         *)
(***************************************************************************)
EXTENDS Naturals, Sequences

CONSTANTS
    Agents,         \* agent ids of the registry
    Callers,        \* threads that call start-flow!, stop-flow! or release
    Graphs,         \* graphs that can be created
    None,           \* absence of a caller or a graph
    Faults,         \* faults explored: "refusal", "unknown", "panic"
    MaxCalls,       \* bound on the calls of all callers
    MaxQueue        \* bound on the queue behind which a pass still begins

ASSUME LifecycleAssumption ==
    /\ None \notin Callers /\ None \notin Graphs /\ None \notin Agents
    /\ MaxCalls \in Nat /\ MaxQueue \in Nat

VARIABLES
    \* the registry
    entry,          \* :seon.agent/started, the graph of an agent
    starting,       \* ::starting, the caller that owns the claim
    stopping,       \* ::stopping, how far the claimed stop is
    released,       \* :seon.agent/released?
    \* the callers
    call,           \* what a caller does, and where it stands
    calls,          \* how many calls were made
    quiet,          \* whether a release returned normally
    \* the graphs
    agentOf,        \* the agent of a graph, None before it exists
    procs,          \* its proc loops
    asked,          \* graphs that were asked to stop
    shut,           \* graphs whose executor was shut down
    thread,         \* the turn proc's thread
    interrupted,    \* graphs whose turn thread has an interrupt to serve
    \* the store
    open,           \* agents with an open turn
    told,           \* agents whose open turn a turn thread was told of
    observed,       \* agents with :seon.agent/graph-process
    queue           \* the writer's queue

registry == <<entry, starting, stopping, released>>
callers  == <<call, calls, quiet>>
graphs   == <<agentOf, procs, asked, shut, thread, interrupted>>
facts    == <<open, told, observed>>
vars     == <<registry, callers, graphs, facts, queue>>

Writes == [op : {"open", "end", "observe", "retract"}, of : Graphs, awaited : BOOLEAN]

Places == {"idle", "starts", "claimed", "built", "published", "observing", "observed",
           "failing", "failed", "reads", "awaitsStart", "stops", "awaitsClaim",
           "awaitsStop", "settles", "releases"}

\* A call: its operation, where it stands, the agent, the graph it started or
\* read, the owner of the claim it waits for; and of a release the starts in
\* flight, the agents still to stop and whether a stop failed.
Call == [op : {"none", "start", "stop", "release"}, at : Places,
         agent : Agents \cup {None}, graph : Graphs \cup {None}, on : Callers \cup {None},
         pending : SUBSET Callers, left : SUBSET Agents, missed : BOOLEAN]

Idle == [op |-> "none", at |-> "idle", agent |-> None, graph |-> None, on |-> None,
         pending |-> {}, left |-> {}, missed |-> FALSE]

TypeOK ==
    /\ entry \in [Agents -> Graphs \cup {None}]
    /\ starting \in [Agents -> Callers \cup {None}]
    /\ stopping \in [Agents -> {"none", "claimed", "asked", "joining", "recording",
                                "recorded", "retracting", "retracted", "dropped", "failing"}]
    /\ released \in BOOLEAN
    /\ call \in [Callers -> Call] /\ calls \in 0..MaxCalls
    /\ quiet \in BOOLEAN
    /\ agentOf \in [Graphs -> Agents \cup {None}]
    /\ procs \in [Graphs -> {"none", "running", "exited"}]
    /\ asked \subseteq Graphs /\ shut \subseteq Graphs /\ interrupted \subseteq Graphs
    /\ thread \in [Graphs -> {"parked", "opening", "turn", "ending"}]
    /\ open \subseteq Agents /\ told \subseteq Agents /\ observed \subseteq Agents
    /\ queue \in Seq(Writes)

Init ==
    /\ entry = [a \in Agents |-> None]
    /\ starting = [a \in Agents |-> None]
    /\ stopping = [a \in Agents |-> "none"]
    /\ released = FALSE
    /\ call = [c \in Callers |-> Idle] /\ calls = 0
    /\ quiet = FALSE
    /\ agentOf = [g \in Graphs |-> None]
    /\ procs = [g \in Graphs |-> "none"]
    /\ asked = {} /\ shut = {} /\ interrupted = {}
    /\ thread = [g \in Graphs |-> "parked"]
    /\ open = {} /\ told = {} /\ observed = {}
    /\ queue = <<>>

\* The executor's termination is the exit of every proc loop.
Terminated(g) == g \in shut /\ procs[g] = "exited"
-----------------------------------------------------------------------------
(* The writer.                                                             *)

Asks(o, g) == queue' = Append(queue, [op |-> o, of |-> g, awaited |-> TRUE])

\* The wait ended by a bound or an interrupt; the write stays queued.
Leaves(o, g) ==
    queue' = [i \in DOMAIN queue |->
                 IF queue[i].op = o /\ queue[i].of = g
                 THEN [queue[i] EXCEPT !.awaited = FALSE] ELSE queue[i]]

\* Who waits for a write: the turn thread of the graph, whose pass ends with it,
\* the thread that started the graph, or the stop of its agent.
ThreadHears(w) ==
    /\ thread' = [thread EXCEPT ![w.of] = IF w.op \in {"open", "end"} THEN "parked" ELSE @]
    /\ interrupted' = {g \in interrupted : thread'[g] # "parked"}

StarterHears(w, ok) ==
    call' = [c \in Callers |->
                IF w.op = "observe" /\ call[c].at = "observing" /\ call[c].graph = w.of
                THEN [call[c] EXCEPT !.at = IF ok THEN "observed" ELSE "failing"]
                ELSE call[c]]

StopHears(w, ok) ==
    stopping' = [a \in Agents |->
                    CASE entry[a] = w.of /\ w.op = "end" /\ stopping[a] = "recording"
                           -> IF ok THEN "recorded" ELSE "failing"
                      [] entry[a] = w.of /\ w.op = "retract" /\ stopping[a] = "retracting"
                           -> IF ok THEN "retracted" ELSE "failing"
                      [] OTHER -> stopping[a]]

Answers(ok) ==
    LET w == Head(queue)
    IN /\ queue # <<>>
       /\ queue' = Tail(queue)
       /\ IF w.awaited
          THEN ThreadHears(w) /\ StarterHears(w, ok) /\ StopHears(w, ok)
          ELSE UNCHANGED <<thread, interrupted, call, stopping>>
       /\ UNCHANGED <<entry, starting, released, calls, quiet, agentOf, procs, asked, shut>>

\* open-call leaves an already open turn as it is.
Commits ==
    /\ Answers(TRUE)
    /\ LET w == Head(queue)
           a == agentOf[w.of]
       IN /\ open' = CASE w.op = "open" -> open \cup {a}
                       [] w.op = "end"  -> open \ {a}
                       [] OTHER         -> open
          /\ told' = CASE w.op = "open" /\ w.awaited -> told \cup {a}
                       [] w.op = "end"               -> told \ {a}
                       [] OTHER                      -> told
          /\ observed' = CASE w.op = "observe" -> observed \cup {a}
                           [] w.op = "retract" -> observed \ {a}
                           [] OTHER            -> observed

Refuses ==
    /\ "refusal" \in Faults
    /\ Answers(FALSE)
    /\ UNCHANGED facts

Writer == Commits \/ Refuses
-----------------------------------------------------------------------------
(* A graph: its turn thread and its proc loops.                            *)

Parked(g) == procs[g] = "running" /\ thread[g] = "parked"

PassBegins(g) == Parked(g) /\ Len(queue) < MaxQueue

\* A wake may have been selected before a queued stop: a pass may begin after it.
TurnOpens(g) ==
    /\ PassBegins(g) /\ agentOf[g] \notin open
    /\ thread' = [thread EXCEPT ![g] = "opening"]
    /\ Asks("open", g)
    /\ UNCHANGED <<registry, callers, agentOf, procs, asked, shut, interrupted, facts>>

\* next-agent-work: an open turn is the agent's work, whoever opened it; the
\* pass after open-turn finds its own.
TurnResumes(g) ==
    /\ PassBegins(g) /\ agentOf[g] \in open
    /\ thread' = [thread EXCEPT ![g] = "turn"]
    /\ told' = told \cup {agentOf[g]}
    /\ UNCHANGED <<registry, callers, agentOf, procs, asked, shut, interrupted,
                   open, observed, queue>>

\* A turn closes itself, or close-escaped-run! closes it behind a throwable.
TurnEnds(g) ==
    /\ thread[g] = "turn"
    /\ thread' = [thread EXCEPT ![g] = "ending"]
    /\ Asks("end", g)
    /\ UNCHANGED <<registry, callers, agentOf, procs, asked, shut, interrupted, facts>>

\* turn-step's finally: the thread is no longer published, its interrupt served.
Parks(g) ==
    /\ thread' = [thread EXCEPT ![g] = "parked"]
    /\ interrupted' = interrupted \ {g}

\* The wait for the writer reaches its bound or is interrupted.
PassGivesUp(g) ==
    /\ g \in interrupted \/ "unknown" \in Faults
    /\ \/ thread[g] = "opening" /\ Leaves("open", g)
       \/ thread[g] = "ending" /\ Leaves("end", g)
    /\ Parks(g)
    /\ UNCHANGED <<registry, callers, agentOf, procs, asked, shut, facts>>

\* Interrupted execution never resumes; its turn is left to the stop.
TurnIsInterrupted(g) ==
    /\ thread[g] = "turn" /\ g \in interrupted
    /\ Parks(g)
    /\ UNCHANGED <<registry, callers, agentOf, procs, asked, shut, facts, queue>>

\* flow/stop is a command; interrupt-turn! reaches a running transform only.
AsksToStop(g, interrupt) ==
    /\ asked' = asked \cup {g}
    /\ interrupted' = IF interrupt /\ thread[g] # "parked"
                      THEN interrupted \cup {g} ELSE interrupted

\* A fault that cannot be stored requests the stop of the registered graph,
\* without a claim.
GraphPanics(g) ==
    /\ "panic" \in Faults
    /\ procs[g] = "running" /\ g \notin asked /\ entry[agentOf[g]] = g
    /\ AsksToStop(g, TRUE)
    /\ UNCHANGED <<registry, callers, agentOf, procs, shut, thread, facts, queue>>

ProcsExit(g) ==
    /\ Parked(g) /\ g \in asked
    /\ procs' = [procs EXCEPT ![g] = "exited"]
    /\ UNCHANGED <<registry, callers, agentOf, asked, shut, thread, interrupted,
                   facts, queue>>

Graph(g) ==
    \/ TurnOpens(g) \/ TurnResumes(g) \/ TurnEnds(g) \/ PassGivesUp(g)
    \/ TurnIsInterrupted(g) \/ GraphPanics(g) \/ ProcsExit(g)
-----------------------------------------------------------------------------
(* start-flow! and start-claimed-flow!.                                    *)

At(c, place)    == call[c].at = place
Steps(c, place) == call' = [call EXCEPT ![c].at = place]
Returns(c)      == call' = [call EXCEPT ![c] = Idle]

CallsStart(c) ==
    /\ At(c, "idle") /\ calls < MaxCalls
    /\ calls' = calls + 1
    /\ \E a \in Agents :
          call' = [call EXCEPT ![c] = [Idle EXCEPT !.op = "start", !.at = "starts", !.agent = a]]
    /\ UNCHANGED <<registry, quiet, graphs, facts, queue>>

\* A claim is complete once it failed, even if it is not cleared yet.
Pending(c) == call[c].at # "failed"

StartIsRefused(c, a) ==
    /\ released \/ stopping[a] # "none" \/ (starting[a] # None /\ ~Pending(starting[a]))
    /\ Returns(c)
    /\ UNCHANGED starting

StartJoins(c, a) ==
    /\ starting[a] # None /\ Pending(starting[a])
    /\ call' = [call EXCEPT ![c].at = "awaitsStart", ![c].on = starting[a]]
    /\ UNCHANGED starting

StartReads(c, a) ==
    /\ starting[a] = None /\ entry[a] # None
    /\ call' = [call EXCEPT ![c].at = "reads", ![c].graph = entry[a]]
    /\ UNCHANGED starting

StartClaims(c, a) ==
    /\ starting[a] = None /\ entry[a] = None
    /\ starting' = [starting EXCEPT ![a] = c]
    /\ Steps(c, "claimed")

\* One swap-vals!.
Starts(c) ==
    /\ At(c, "starts")
    /\ LET a == call[c].agent
       IN \/ StartIsRefused(c, a)
          \/ /\ ~released /\ stopping[a] = "none"
             /\ StartJoins(c, a) \/ StartReads(c, a) \/ StartClaims(c, a)
    /\ UNCHANGED <<entry, stopping, released, calls, quiet, graphs, facts, queue>>

\* Everyone who waits for the claim of c learns its outcome.
AfterClaim(w, c) ==
    CASE call[w].on = c /\ call[w].at = "awaitsStart" -> Idle
      [] call[w].on = c /\ call[w].at = "awaitsClaim"
            -> [call[w] EXCEPT !.at = "stops", !.on = None]
      [] OTHER -> [call[w] EXCEPT !.pending = @ \ {c}]

Completes(c, next) == call' = [w \in Callers |-> IF w = c THEN next ELSE AfterClaim(w, c)]

Fails(c) == Completes(c, [call[c] EXCEPT !.at = "failed"])

\* Mutant of StartFails: the claim is not completed, and cleared.
StartFailsSilently(c) ==
    /\ At(c, "claimed")
    /\ Steps(c, "failed")
    /\ UNCHANGED <<registry, calls, quiet, graphs, facts, queue>>

\* No such agent, a context that cannot be acquired, a graph that does not start.
StartFails(c) ==
    /\ At(c, "claimed")
    /\ Fails(c)
    /\ UNCHANGED <<registry, calls, quiet, graphs, facts, queue>>

\* start-graph!: the procs run before the entry is published.
GraphStarts(c) ==
    /\ At(c, "claimed")
    /\ \E g \in Graphs :
          /\ agentOf[g] = None
          /\ agentOf' = [agentOf EXCEPT ![g] = call[c].agent]
          /\ procs' = [procs EXCEPT ![g] = "running"]
          /\ call' = [call EXCEPT ![c].at = "built", ![c].graph = g]
    /\ UNCHANGED <<registry, calls, quiet, asked, shut, thread, interrupted, facts, queue>>

\* Publication clears the claim, in the same swap.
Publishes(c) ==
    /\ At(c, "built")
    /\ entry' = [entry EXCEPT ![call[c].agent] = call[c].graph]
    /\ starting' = [starting EXCEPT ![call[c].agent] = None]
    /\ Steps(c, "published")
    /\ UNCHANGED <<stopping, released, calls, quiet, graphs, facts, queue>>

\* graph-observed!.
Observes(c) ==
    /\ At(c, "published")
    /\ Asks("observe", call[c].graph)
    /\ Steps(c, "observing")
    /\ UNCHANGED <<registry, calls, quiet, graphs, facts>>

ObservationGivesUp(c) ==
    /\ "unknown" \in Faults
    /\ At(c, "observing")
    /\ Leaves("observe", call[c].graph)
    /\ Steps(c, "failing")
    /\ UNCHANGED <<registry, calls, quiet, graphs, facts>>

\* A refused or unknown observation is thrown, the entry stays published.
ObservationFails(c) ==
    /\ At(c, "failing")
    /\ Fails(c)
    /\ UNCHANGED <<registry, calls, quiet, graphs, facts, queue>>

\* The prime; the entry is returned to every waiting caller.
StartReturns(c) ==
    /\ At(c, "observed")
    /\ Completes(c, Idle)
    /\ UNCHANGED <<registry, calls, quiet, graphs, facts, queue>>

\* A failure clears only its own claim.
ClearsClaim(c) ==
    /\ At(c, "failed")
    /\ starting' = [starting EXCEPT ![call[c].agent] = IF @ = c THEN None ELSE @]
    /\ Returns(c)
    /\ UNCHANGED <<entry, stopping, released, calls, quiet, graphs, facts, queue>>

\* The entry that was read, later: shut down and exited, it is stopped and the
\* agent started again; otherwise it is returned, or refused while it exits.
Judges(c) ==
    /\ At(c, "reads")
    /\ IF Terminated(call[c].graph) THEN Steps(c, "stops") ELSE Returns(c)
    /\ UNCHANGED <<registry, calls, quiet, graphs, facts, queue>>

Start(c) ==
    \/ Starts(c) \/ StartFails(c) \/ GraphStarts(c) \/ Publishes(c) \/ Observes(c)
    \/ ObservationGivesUp(c) \/ ObservationFails(c) \/ StartReturns(c) \/ ClearsClaim(c)
    \/ Judges(c)
-----------------------------------------------------------------------------
(* stop-flow! and stop-graph!.                                             *)

CallsStop(c) ==
    /\ At(c, "idle") /\ calls < MaxCalls
    /\ calls' = calls + 1
    /\ \E a \in Agents :
          call' = [call EXCEPT ![c] = [Idle EXCEPT !.op = "stop", !.at = "stops", !.agent = a]]
    /\ UNCHANGED <<registry, quiet, graphs, facts, queue>>

\* What the caller of a stop does when that returned or threw: a release goes
\* on to the next agent, a start that found a terminated graph starts again.
AfterStop(c, returned) ==
    CASE call[c].op = "release" -> [call[c] EXCEPT !.at = "releases", !.missed = @ \/ ~returned]
      [] call[c].op = "start" /\ returned -> [call[c] EXCEPT !.at = "starts", !.graph = None]
      [] OTHER -> Idle

StopAwaitsClaim(c, a) ==
    /\ starting[a] # None /\ Pending(starting[a])
    /\ call' = [call EXCEPT ![c].at = "awaitsClaim", ![c].on = starting[a]]
    /\ UNCHANGED stopping

StopFindsNothing(c, a) ==
    /\ starting[a] = None /\ stopping[a] = "none" /\ entry[a] = None
    /\ call' = [call EXCEPT ![c] = AfterStop(c, TRUE)]
    /\ UNCHANGED stopping

StopClaims(c, a) ==
    /\ starting[a] = None
    /\ stopping[a] # "none" \/ entry[a] # None
    /\ stopping' = [stopping EXCEPT ![a] = IF @ = "none" THEN "claimed" ELSE @]
    /\ Steps(c, "awaitsStop")

\* One swap-vals!; the claim of a start in flight is waited for first.
Stops(c) ==
    /\ At(c, "stops")
    /\ LET a == call[c].agent
       IN StopAwaitsClaim(c, a) \/ StopFindsNothing(c, a) \/ StopClaims(c, a)
    /\ UNCHANGED <<entry, starting, released, calls, quiet, graphs, facts, queue>>

StopStep(a, from, to) ==
    /\ stopping[a] = from
    /\ stopping' = [stopping EXCEPT ![a] = to]
    /\ UNCHANGED <<starting, released, callers>>

\* The delay is delivered to everyone who waits for it.
StopDelivers(a, returned) ==
    /\ stopping' = [stopping EXCEPT ![a] = "none"]
    /\ call' = [c \in Callers |-> IF call[c].at = "awaitsStop" /\ call[c].agent = a
                                  THEN AfterStop(c, returned) ELSE call[c]]
    /\ UNCHANGED <<entry, starting, released, calls, quiet, graphs, facts, queue>>

\* :seon.agent/finish? leaves a running turn to its end.
StopAsks(a) ==
    /\ StopStep(a, "claimed", "asked")
    /\ \E interrupt \in BOOLEAN : AsksToStop(entry[a], interrupt)
    /\ UNCHANGED <<entry, agentOf, procs, shut, thread, facts, queue>>

StopShutsDown(a) ==
    /\ StopStep(a, "asked", "joining")
    /\ shut' = shut \cup {entry[a]}
    /\ UNCHANGED <<entry, agentOf, procs, asked, thread, interrupted, facts, queue>>

\* The executor did not terminate in bound: the entry remains.
JoinIsMissed(a) ==
    /\ stopping[a] = "joining" /\ ~Terminated(entry[a])
    /\ StopDelivers(a, FALSE)

\* record-interruption! looks for an open turn in the committed store.
Records(a) ==
    /\ IF a \in open
       THEN StopStep(a, "joining", "recording") /\ Asks("end", entry[a])
       ELSE StopStep(a, "joining", "recorded") /\ UNCHANGED queue
    /\ UNCHANGED <<entry, graphs, facts>>

\* Mutants of StopJoins: the bound is taken for an exit; no turn is recorded.
StopJoinsAnyway(a) == stopping[a] = "joining" /\ Records(a)

StopJoinsUnrecorded(a) ==
    /\ stopping[a] = "joining" /\ Terminated(entry[a])
    /\ StopStep(a, "joining", "recorded")
    /\ UNCHANGED <<entry, graphs, facts, queue>>

StopJoins(a) == stopping[a] = "joining" /\ Terminated(entry[a]) /\ Records(a)

StopRetracts(a) ==
    /\ StopStep(a, "recorded", "retracting")
    /\ Asks("retract", entry[a])
    /\ UNCHANGED <<entry, graphs, facts>>

StopGivesUp(a) ==
    /\ "unknown" \in Faults
    /\ \/ StopStep(a, "recording", "failing") /\ Leaves("end", entry[a])
       \/ StopStep(a, "retracting", "failing") /\ Leaves("retract", entry[a])
    /\ UNCHANGED <<entry, graphs, facts>>

\* A refused or unknown write is thrown: the entry remains.
StopFails(a) == stopping[a] = "failing" /\ StopDelivers(a, FALSE)

StopDrops(a) ==
    /\ StopStep(a, "retracted", "dropped")
    /\ entry' = [entry EXCEPT ![a] = None]
    /\ UNCHANGED <<graphs, facts, queue>>

\* The channels are closed and the claim is cleared.
StopReturns(a) == stopping[a] = "dropped" /\ StopDelivers(a, TRUE)

Stop(a) ==
    \/ StopAsks(a) \/ StopShutsDown(a) \/ JoinIsMissed(a) \/ StopJoins(a)
    \/ StopRetracts(a) \/ StopGivesUp(a) \/ StopFails(a) \/ StopDrops(a) \/ StopReturns(a)
-----------------------------------------------------------------------------
(* stop-owned-graphs!, the first part of release-context!.                 *)

Marks(c, inFlight) ==
    /\ At(c, "idle") /\ calls < MaxCalls
    /\ calls' = calls + 1
    /\ released' = TRUE
    /\ call' = [call EXCEPT ![c] = [Idle EXCEPT !.op = "release", !.at = "settles",
                                                !.pending = inFlight]]
    /\ UNCHANGED <<entry, starting, stopping, quiet, graphs, facts, queue>>

\* Mutant of ReleaseMarks: the starts in flight are not waited for.
ReleaseMarksOnly(c) == Marks(c, {})

\* One swap-vals!.
ReleaseMarks(c) ==
    Marks(c, {w \in Callers : Pending(w) /\ \E a \in Agents : starting[a] = w})

\* Every start in flight has settled: the agents to stop are read.
ReleaseSettles(c) ==
    /\ At(c, "settles") /\ call[c].pending = {}
    /\ call' = [call EXCEPT ![c].at = "releases", ![c].left = {a \in Agents : entry[a] # None}]
    /\ UNCHANGED <<registry, calls, quiet, graphs, facts, queue>>

\* Each agent is stopped, whether the stop before it failed or not.
ReleaseStops(c) ==
    /\ At(c, "releases")
    /\ \E a \in call[c].left :
          call' = [call EXCEPT ![c].at = "stops", ![c].agent = a, ![c].left = @ \ {a}]
    /\ UNCHANGED <<registry, calls, quiet, graphs, facts, queue>>

\* A failed stop is thrown; the mark stays.
ReleaseReturns(c) ==
    /\ At(c, "releases") /\ call[c].left = {}
    /\ quiet' = (quiet \/ ~call[c].missed)
    /\ Returns(c)
    /\ UNCHANGED <<registry, calls, graphs, facts, queue>>

Release(c) == ReleaseSettles(c) \/ ReleaseStops(c) \/ ReleaseReturns(c)

Calls(c) == CallsStart(c) \/ CallsStop(c) \/ ReleaseMarks(c)

Progress(c) == Start(c) \/ Stops(c) \/ Release(c)

Next ==
    \/ Writer
    \/ \E g \in Graphs : Graph(g)
    \/ \E a \in Agents : Stop(a)
    \/ \E c \in Callers : Calls(c) \/ Progress(c)

Spec == Init /\ [][Next]_vars

\* Threads that can run do, the writer serves its queue, and the join has a
\* bound.  Nothing is assumed of a turn: it may never end.
Fairness ==
    /\ WF_vars(Writer)
    /\ \A a \in Agents : WF_vars(Stop(a))
    /\ \A c \in Callers : WF_vars(Progress(c))

FairSpec == Spec /\ Fairness
-----------------------------------------------------------------------------
(* Properties.                                                             *)

\* An agent never runs in two graphs: a start that races a stop, a failed
\* join, another start or a graph that stopped by itself never overlaps the
\* procs of a previous graph (start-flow!'s executor check, stop-graph!'s join).
OneGraphPerAgent ==
    \A g, h \in Graphs :
        /\ procs[g] = "running" /\ procs[h] = "running"
        /\ agentOf[g] = agentOf[h]
        => g = h

\* Once a release returned normally nothing of the registry runs or is
\* registered, and nothing starts later: the connection it closes next has no
\* user left among the graphs (stop-owned-graphs!).
ReleasedIsQuiet ==
    quiet => /\ \A g \in Graphs : procs[g] # "running"
             /\ \A a \in Agents : entry[a] = None

\* An open turn that a turn thread was told of has a registered graph, whose
\* stop will end it: no stop drops the entry of an agent and leaves such a
\* turn open (record-interruption! before the drop).
ToldTurnsAreOwned ==
    \A a \in open \cap told : entry[a] # None \/ starting[a] # None

\* Every call returns, though a turn may never end, a join may be missed, the
\* writer may not answer in time, and each waits for claims of the others.
CallsReturn == \A c \in Callers : ~At(c, "idle") ~> At(c, "idle")

\* A start leaves a started agent alone: it claims a stop only for a graph
\* whose executor was already shut down.
StartLeavesRunningGraphs ==
    [][\A c \in Callers :
          /\ At(c, "stops") /\ At(c, "awaitsStop")' /\ call[c].op = "start"
          /\ stopping[call[c].agent] = "none"
          => entry[call[c].agent] \in shut]_vars

\* When a stop returned, the agent has no open turn: whenever no call is in
\* progress and nothing is queued, an open turn belongs to a registered graph.
StoppedLeavesNoTurn ==
    /\ \A c \in Callers : At(c, "idle")
    /\ queue = <<>>
    => \A a \in open : entry[a] # None
=============================================================================
