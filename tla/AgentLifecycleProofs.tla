------------------------ MODULE AgentLifecycleProofs ------------------------
(***************************************************************************)
(* What TLAPS proves of AgentLifecycle, for any agents, callers, graphs,   *)
(* faults and bounds: type correctness, that an agent never runs in two    *)
(* graphs, and that nothing runs once a release returned normally.         *)
(***************************************************************************)
EXTENDS AgentLifecycle, TLAPS

Owning == {"claimed", "built"}

\* The places of a start that has a graph.
Grown == {"built", "published", "observing", "observed"}

\* Every place of a call but these is that of one agent; two are of releases.
CallsInv ==
    \A c \in Callers :
        /\ call[c].at \notin {"idle", "settles", "releases"} => call[c].agent \in Agents
        /\ call[c].at \in {"settles", "releases"} => call[c].op = "release"

\* Claims of starts: an agent that has one has no entry and no stop, and its
\* owner has not published; an owner that failed may have lost it.
StartsInv ==
    /\ \A a \in Agents : starting[a] # None =>
          /\ call[starting[a]].agent = a
          /\ call[starting[a]].at \in Owning \cup {"failed"}
          /\ entry[a] = None
          /\ stopping[a] = "none"
    /\ \A c \in Callers : call[c].at \in Owning => starting[call[c].agent] = c
    /\ \A c \in Callers : call[c].at \in Grown =>
          call[c].graph \in Graphs /\ agentOf[call[c].graph] = call[c].agent

\* Stops: until it drops it, a stop has the entry it was claimed for, and past
\* the join that graph has exited.
StopsInv ==
    \A a \in Agents :
        /\ stopping[a] \notin {"none", "dropped"} => entry[a] # None
        /\ stopping[a] = "dropped" => entry[a] = None
        /\ stopping[a] \in {"recording", "recorded", "retracting", "retracted"}
              => Terminated(entry[a])

\* Whoever writes for a graph writes for one that exists.
WritesInv ==
    /\ \A g \in Graphs : thread[g] # "parked" => agentOf[g] \in Agents
    /\ \A i \in 1..Len(queue) : agentOf[queue[i].of] \in Agents

\* A running graph is registered for its agent, or about to be.
GraphsInv ==
    /\ \A a \in Agents : entry[a] # None => agentOf[entry[a]] = a
    /\ \A g \in Graphs : procs[g] = "running" =>
          /\ agentOf[g] \in Agents
          /\ \/ entry[agentOf[g]] = g
             \/ \E c \in Callers : call[c].at = "built" /\ call[c].graph = g

\* Releases: once its mark is set a release waits for every owner of a claim,
\* and then knows of every entry, unless it will throw.
ReleasesInv ==
    /\ \A c \in Callers : call[c].op = "release" =>
          /\ released
          /\ call[c].at \in {"settles", "releases", "stops", "awaitsClaim", "awaitsStop"}
          /\ IF call[c].at = "settles"
             THEN \A w \in Callers : call[w].at \in Owning => w \in call[c].pending
             ELSE /\ \A w \in Callers : call[w].at \notin Owning
                  /\ call[c].missed
                     \/ \A a \in Agents : entry[a] # None =>
                           a \in call[c].left \/ (call[c].at # "releases" /\ call[c].agent = a)
    /\ quiet => /\ released
                /\ \A w \in Callers : call[w].at \notin Owning
                /\ \A a \in Agents : entry[a] = None

LifecycleInv ==
    /\ TypeOK /\ CallsInv /\ StartsInv /\ StopsInv /\ WritesInv /\ GraphsInv /\ ReleasesInv

LEMMA InitInv == Init => LifecycleInv
<1> SUFFICES ASSUME Init PROVE LifecycleInv
    OBVIOUS
<1> USE LifecycleAssumption DEF Init, Idle
<1>1. released \in BOOLEAN /\ quiet \in BOOLEAN BY Zenon
<1>2. queue \in Seq(Writes) /\ calls \in 0..MaxCalls BY SMT
<1>3. call \in [Callers -> Call] BY SMT DEF Call, Places
<1>4. TypeOK BY <1>1, <1>2, <1>3 DEF TypeOK
<1>5. CallsInv /\ StartsInv BY SMT DEF CallsInv, StartsInv, Owning, Grown
<1>6. StopsInv /\ WritesInv /\ GraphsInv BY SMT DEF StopsInv, WritesInv, GraphsInv
<1>7. ~quiet BY Zenon
<1>8. ReleasesInv BY <1>7, SMT DEF ReleasesInv
<1> QED BY <1>4, <1>5, <1>6, <1>8 DEF LifecycleInv

-----------------------------------------------------------------------------
(* Types.                                                                  *)

LEMMA AsksType ==
    ASSUME TypeOK, NEW o \in {"open", "end", "observe", "retract"}, NEW g \in Graphs, Asks(o, g)
    PROVE  queue' \in Seq(Writes)
<1>1. [op |-> o, of |-> g, awaited |-> TRUE] \in Writes BY DEF Writes
<1> QED BY <1>1 DEF Asks, TypeOK

LEMMA LeavesType ==
    ASSUME TypeOK, NEW o, NEW g, Leaves(o, g)
    PROVE  queue' \in Seq(Writes)
<1>1. queue \in [1..Len(queue) -> Writes] /\ DOMAIN queue = 1..Len(queue) /\ Len(queue) \in Nat
  BY DEF TypeOK
<1>2. \A i \in 1..Len(queue) : [queue[i] EXCEPT !.awaited = FALSE] \in Writes
  BY <1>1 DEF Writes
<1>3. queue' \in [1..Len(queue) -> Writes] BY <1>1, <1>2 DEF Leaves
<1> QED BY <1>1, <1>3

LEMMA HeadType ==
    ASSUME TypeOK, queue # <<>>
    PROVE  Head(queue) \in Writes /\ Tail(queue) \in Seq(Writes)
BY DEF TypeOK

\* One fact per field that a step assigns.
LEMMA FieldTypes ==
    ASSUME NEW r \in Call
    PROVE  /\ \A place \in Places : [r EXCEPT !.at = place] \in Call
           /\ \A a \in Agents \cup {None} : [r EXCEPT !.agent = a] \in Call
           /\ \A g \in Graphs \cup {None} : [r EXCEPT !.graph = g] \in Call
           /\ \A c \in Callers \cup {None} : [r EXCEPT !.on = c] \in Call
           /\ \A cs \in SUBSET Callers : [r EXCEPT !.pending = cs] \in Call
           /\ \A rest \in SUBSET Agents : [r EXCEPT !.left = rest] \in Call
           /\ \A b \in BOOLEAN : [r EXCEPT !.missed = b] \in Call
<1>1. ASSUME NEW place \in Places PROVE [r EXCEPT !.at = place] \in Call
  BY SMTT(30) DEF Call
<1>2. ASSUME NEW a \in Agents \cup {None} PROVE [r EXCEPT !.agent = a] \in Call
  BY SMTT(30) DEF Call
<1>3. ASSUME NEW g \in Graphs \cup {None} PROVE [r EXCEPT !.graph = g] \in Call
  BY SMTT(30) DEF Call
<1>4. ASSUME NEW c \in Callers \cup {None} PROVE [r EXCEPT !.on = c] \in Call
  BY SMTT(30) DEF Call
<1>5. ASSUME NEW cs \in SUBSET Callers PROVE [r EXCEPT !.pending = cs] \in Call
  BY SMTT(30) DEF Call
<1>6. ASSUME NEW rest \in SUBSET Agents PROVE [r EXCEPT !.left = rest] \in Call
  BY SMTT(30) DEF Call
<1>7. ASSUME NEW b \in BOOLEAN PROVE [r EXCEPT !.missed = b] \in Call
  BY SMTT(30) DEF Call
<1> QED BY <1>1, <1>2, <1>3, <1>4, <1>5, <1>6, <1>7, Zenon

\* The same facts for the calls of all callers.
LEMMA CallTypes ==
    ASSUME NEW f \in [Callers -> Call], NEW c \in Callers
    PROVE  /\ \A r \in Call : [f EXCEPT ![c] = r] \in [Callers -> Call]
           /\ \A place \in Places : [f EXCEPT ![c].at = place] \in [Callers -> Call]
           /\ \A a \in Agents \cup {None} : [f EXCEPT ![c].agent = a] \in [Callers -> Call]
           /\ \A g \in Graphs \cup {None} : [f EXCEPT ![c].graph = g] \in [Callers -> Call]
           /\ \A w \in Callers \cup {None} : [f EXCEPT ![c].on = w] \in [Callers -> Call]
           /\ \A rest \in SUBSET Agents : [f EXCEPT ![c].left = rest] \in [Callers -> Call]
<1>1. f[c] \in Call OBVIOUS
<1> QED BY <1>1, FieldTypes

LEMMA AfterStopType ==
    ASSUME TypeOK, NEW c \in Callers, NEW returned \in BOOLEAN
    PROVE  AfterStop(c, returned) \in Call
<1> DEFINE r == [call[c] EXCEPT !.at = "starts"]
           s == [call[c] EXCEPT !.at = "releases"]
<1>0. call[c] \in Call BY DEF TypeOK
<1>1. Idle \in Call BY DEF Idle, Call, Places
<1>2. r \in Call /\ s \in Call BY <1>0, FieldTypes DEF Places
<1>3. (call[c].missed \/ ~returned) \in BOOLEAN BY Zenon
<1>4. [r EXCEPT !.graph = None] \in Call BY <1>2, FieldTypes
<1>5. [s EXCEPT !.missed = (call[c].missed \/ ~returned)] \in Call
  BY <1>2, <1>3, FieldTypes
<1>6. s.missed = call[c].missed BY <1>0 DEF Call
<1> QED BY <1>1, <1>4, <1>5, <1>6 DEF AfterStop

LEMMA AfterClaimType ==
    ASSUME TypeOK, NEW w \in Callers, NEW c \in Callers
    PROVE  AfterClaim(w, c) \in Call
<1> DEFINE r == [call[w] EXCEPT !.at = "stops"]
<1>0. call[w] \in Call BY DEF TypeOK
<1>1. Idle \in Call BY DEF Idle, Call, Places
<1>a. r \in Call BY <1>0, FieldTypes DEF Places
<1>2. [r EXCEPT !.on = None] \in Call BY <1>a, FieldTypes
<1>3. [call[w] EXCEPT !.pending = call[w].pending \ {c}] \in Call BY <1>0, SMT DEF Call
<1> QED BY <1>1, <1>2, <1>3 DEF AfterClaim

LEMMA CallsStep == LifecycleInv /\ [Next]_vars => call' \in [Callers -> Call]
<1> SUFFICES ASSUME LifecycleInv, [Next]_vars PROVE call' \in [Callers -> Call]
    OBVIOUS
<1> USE LifecycleAssumption DEF LifecycleInv, registry, callers, graphs, facts, At, Steps,
        Returns, Places
<1>t. call \in [Callers -> Call] /\ entry \in [Agents -> Graphs \cup {None}]
      /\ starting \in [Agents -> Callers \cup {None}]
  BY DEF TypeOK
<1>i. Idle \in Call /\ \A c \in Callers : call[c] \in Call BY <1>t DEF Idle, Call
<1>1. ASSUME Writer PROVE call' \in [Callers -> Call]
  <2>1. ASSUME NEW ok \in BOOLEAN, NEW w, StarterHears(w, ok) PROVE call' \in [Callers -> Call]
    BY <1>t, <1>i, <2>1, FieldTypes DEF StarterHears
  <2>2. ASSUME NEW ok \in BOOLEAN, Answers(ok) PROVE call' \in [Callers -> Call]
    BY <1>t, <2>1, <2>2 DEF Answers
  <2> QED BY <1>1, <2>2 DEF Writer, Commits, Refuses
<1>2. ASSUME NEW g \in Graphs, Graph(g) PROVE call' \in [Callers -> Call]
  BY <1>t, <1>2 DEF Graph, TurnOpens, TurnResumes, TurnEnds, PassGivesUp, TurnIsInterrupted,
     GraphPanics, ProcsExit
<1>3. ASSUME NEW a \in Agents, Stop(a) PROVE call' \in [Callers -> Call]
  <2>1. ASSUME NEW returned \in BOOLEAN, StopDelivers(a, returned)
        PROVE  call' \in [Callers -> Call]
    BY <1>t, <1>i, <2>1, AfterStopType DEF StopDelivers
  <2>2. CASE StopReturns(a) \/ StopFails(a) \/ JoinIsMissed(a)
    BY <2>1, <2>2 DEF StopReturns, StopFails, JoinIsMissed
  <2> QED BY <1>t, <1>3, <2>2 DEF Stop, StopAsks, StopShutsDown, StopJoins, Records, StopRetracts,
        StopGivesUp, StopDrops, StopStep
<1>4. ASSUME NEW c \in Callers, Calls(c) PROVE call' \in [Callers -> Call]
  <2>1. ASSUME NEW a \in Agents
        PROVE  /\ [Idle EXCEPT !.op = "start", !.at = "starts", !.agent = a] \in Call
               /\ [Idle EXCEPT !.op = "stop", !.at = "stops", !.agent = a] \in Call
    BY DEF Idle, Call
  <2>2. ASSUME NEW inFlight \in SUBSET Callers
        PROVE  [Idle EXCEPT !.op = "release", !.at = "settles", !.pending = inFlight] \in Call
    BY DEF Idle, Call
  <2>3. {w \in Callers : Pending(w) /\ \E a \in Agents : starting[a] = w} \in SUBSET Callers
    OBVIOUS
  <2>4. CASE CallsStart(c)
    <3>1. PICK a \in Agents :
             call' = [call EXCEPT ![c] = [Idle EXCEPT !.op = "start", !.at = "starts", !.agent = a]]
      BY <2>4 DEF CallsStart
    <3> DEFINE r == [Idle EXCEPT !.op = "start", !.at = "starts", !.agent = a]
    <3>2. r \in Call BY <2>1
    <3> HIDE DEF r
    <3>3. call' = [call EXCEPT ![c] = r] BY <3>1 DEF r
    <3> QED BY <1>t, <3>2, <3>3
  <2>5. CASE CallsStop(c)
    <3>1. PICK a \in Agents :
             call' = [call EXCEPT ![c] = [Idle EXCEPT !.op = "stop", !.at = "stops", !.agent = a]]
      BY <2>5 DEF CallsStop
    <3> DEFINE r == [Idle EXCEPT !.op = "stop", !.at = "stops", !.agent = a]
    <3>2. r \in Call BY <2>1
    <3> HIDE DEF r
    <3>3. call' = [call EXCEPT ![c] = r] BY <3>1 DEF r
    <3> QED BY <1>t, <3>2, <3>3
  <2>6. CASE ReleaseMarks(c) BY <1>t, <2>2, <2>3, <2>6, CallTypes DEF ReleaseMarks, Marks
  <2> QED BY <1>4, <2>4, <2>5, <2>6 DEF Calls
<1>5. ASSUME NEW c \in Callers, Start(c) PROVE call' \in [Callers -> Call]
  <2> DEFINE a == call[c].agent
  <2>c. ASSUME NEW next \in Call, Completes(c, next) PROVE call' \in [Callers -> Call]
    BY <1>t, <2>c, AfterClaimType DEF Completes
  <2>f. [call[c] EXCEPT !.at = "failed"] \in Call BY <1>i, FieldTypes
  <2>1. CASE Starts(c)
    <3>1. CASE StartIsRefused(c, a) BY <1>t, <1>i, <3>1, CallTypes DEF StartIsRefused
    <3>2. CASE a \in Agents /\ StartJoins(c, a)
      <4>1. [call EXCEPT ![c].at = "awaitsStart"] \in [Callers -> Call] BY <1>t, CallTypes
      <4> QED BY <1>t, <3>2, <4>1, CallTypes DEF StartJoins
    <3>3. CASE a \in Agents /\ StartReads(c, a)
      <4>1. [call EXCEPT ![c].at = "reads"] \in [Callers -> Call] BY <1>t, CallTypes
      <4> QED BY <1>t, <3>3, <4>1, CallTypes DEF StartReads
    <3>4. CASE StartClaims(c, a) BY <1>t, <3>4, CallTypes DEF StartClaims
    <3>5. a \in Agents BY <2>1 DEF Starts, CallsInv
    <3> QED BY <2>1, <3>1, <3>2, <3>3, <3>4, <3>5 DEF Starts
  <2>2. CASE StartFails(c) \/ ObservationFails(c) \/ StartReturns(c)
    BY <1>i, <2>2, <2>c, <2>f DEF StartFails, ObservationFails, StartReturns, Fails
  <2>3. CASE GraphStarts(c)
    <3>1. [call EXCEPT ![c].at = "built"] \in [Callers -> Call] BY <1>t, CallTypes
    <3>2. PICK g \in Graphs : call' = [call EXCEPT ![c].at = "built", ![c].graph = g]
      BY <2>3 DEF GraphStarts
    <3> QED BY <3>1, <3>2, CallTypes
  <2>4. CASE Publishes(c) BY <1>t, <2>4, CallTypes DEF Publishes
  <2>5. CASE Observes(c) BY <1>t, <2>5, CallTypes DEF Observes
  <2>6. CASE ObservationGivesUp(c) BY <1>t, <2>6, CallTypes DEF ObservationGivesUp
  <2>7. CASE ClearsClaim(c) BY <1>t, <1>i, <2>7, CallTypes DEF ClearsClaim
  <2>8. CASE Judges(c)
    <3>1. [call EXCEPT ![c].at = "stops"] \in [Callers -> Call] BY <1>t, CallTypes
    <3>2. [call EXCEPT ![c] = Idle] \in [Callers -> Call] BY <1>t, <1>i, CallTypes
    <3> QED BY <2>8, <3>1, <3>2 DEF Judges
  <2> QED BY <1>5, <2>1, <2>2, <2>3, <2>4, <2>5, <2>6, <2>7, <2>8 DEF Start
<1>6. ASSUME NEW c \in Callers, Stops(c) PROVE call' \in [Callers -> Call]
  <2> DEFINE a == call[c].agent
  <2>1. a \in Agents BY <1>6 DEF Stops, CallsInv
  <2>2. CASE StopAwaitsClaim(c, a)
    <3>1. [call EXCEPT ![c].at = "awaitsClaim"] \in [Callers -> Call] BY <1>t, CallTypes
    <3> QED BY <1>t, <2>1, <2>2, <3>1, CallTypes DEF StopAwaitsClaim
  <2>3. CASE StopFindsNothing(c, a)
    <3>1. AfterStop(c, TRUE) \in Call BY AfterStopType
    <3> QED BY <1>t, <2>3, <3>1, CallTypes DEF StopFindsNothing
  <2>4. CASE StopClaims(c, a) BY <1>t, <2>4, CallTypes DEF StopClaims
  <2> QED BY <1>6, <2>2, <2>3, <2>4 DEF Stops
<1>7. ASSUME NEW c \in Callers, Release(c) PROVE call' \in [Callers -> Call]
  <2>1. CASE ReleaseSettles(c)
    <3>1. [call EXCEPT ![c].at = "releases"] \in [Callers -> Call] BY <1>t, CallTypes
    <3>2. {a \in Agents : entry[a] # None} \in SUBSET Agents OBVIOUS
    <3> QED BY <2>1, <3>1, <3>2, CallTypes DEF ReleaseSettles
  <2>2. CASE ReleaseStops(c)
    <3>1. PICK a \in call[c].left :
              call' = [call EXCEPT ![c].at = "stops", ![c].agent = a, ![c].left = @ \ {a}]
      BY <2>2 DEF ReleaseStops
    <3>2. call[c].left \in SUBSET Agents BY <1>i DEF Call
    <3> DEFINE d == [call EXCEPT ![c].at = "stops"]
               e == [d EXCEPT ![c].agent = a]
    <3>3. d \in [Callers -> Call] BY <1>t, CallTypes
    <3>4. e \in [Callers -> Call] BY <3>1, <3>2, <3>3, CallTypes
    <3>5. e[c].left \ {a} \in SUBSET Agents BY <3>4 DEF Call
    <3>6. [e EXCEPT ![c].left = e[c].left \ {a}] \in [Callers -> Call]
      BY <3>4, <3>5, CallTypes
    <3> QED BY <3>1, <3>6
  <2>3. CASE ReleaseReturns(c) BY <1>t, <1>i, <2>3, CallTypes DEF ReleaseReturns
  <2> QED BY <1>7, <2>1, <2>2, <2>3 DEF Release
<1>8. CASE UNCHANGED vars BY <1>t, <1>8 DEF vars
<1> QED BY <1>1, <1>2, <1>3, <1>4, <1>5, <1>6, <1>7, <1>8 DEF Next, Progress

LEMMA TypeStep == LifecycleInv /\ [Next]_vars => TypeOK'
<1> SUFFICES ASSUME LifecycleInv, [Next]_vars PROVE TypeOK'
    OBVIOUS
<1>c. call' \in [Callers -> Call] BY CallsStep
<1>o. TypeOK BY DEF LifecycleInv
<1> HIDE DEF LifecycleInv
<1> USE LifecycleAssumption, <1>c, <1>o DEF TypeOK, registry, callers, graphs, facts
<1>1. CASE Writer
  <2> DEFINE w == Head(queue)
  <2>1. w \in Writes /\ Tail(queue) \in Seq(Writes)
    BY <1>1, HeadType DEF Writer, Commits, Refuses, Answers
  <2>2. w.of \in Graphs BY <2>1 DEF Writes
  <2> HIDE DEF w
  <2>3. ASSUME ThreadHears(w)
        PROVE  /\ thread' \in [Graphs -> {"parked", "opening", "turn", "ending"}]
               /\ interrupted' \subseteq Graphs
    BY <2>2, <2>3 DEF ThreadHears
  <2>4. ASSUME NEW ok \in BOOLEAN, StopHears(w, ok)
        PROVE  stopping' \in [Agents -> {"none", "claimed", "asked", "joining", "recording",
                                         "recorded", "retracting", "retracted", "dropped",
                                         "failing"}]
    BY <2>4 DEF StopHears
  <2>5. ASSUME NEW ok \in BOOLEAN, Answers(ok)
        PROVE  /\ thread' \in [Graphs -> {"parked", "opening", "turn", "ending"}]
               /\ interrupted' \subseteq Graphs
               /\ stopping' \in [Agents -> {"none", "claimed", "asked", "joining", "recording",
                                            "recorded", "retracting", "retracted", "dropped",
                                            "failing"}]
               /\ queue' \in Seq(Writes)
               /\ UNCHANGED <<entry, starting, released, calls, quiet, agentOf, procs, asked, shut>>
    <3>1. CASE w.awaited
      BY <2>1, <2>3, <2>4, <2>5, <3>1 DEF Answers, w
    <3>2. CASE ~w.awaited
      BY <2>1, <2>5, <3>2 DEF Answers, w
    <3> QED BY <3>1, <3>2
  <2>6. CASE Refuses BY <2>5, <2>6 DEF Refuses
  <2>7. CASE Commits
    <3>0. queue # <<>> /\ 1 \in 1..Len(queue) /\ Head(queue) = queue[1]
      BY <2>7 DEF Commits, Answers
    <3>1. agentOf[w.of] \in Agents BY <3>0 DEF LifecycleInv, WritesInv, w
    <3>2. open' \subseteq Agents /\ told' \subseteq Agents /\ observed' \subseteq Agents
      BY <2>7, <3>1 DEF Commits, w
    <3> QED BY <2>5, <2>7, <3>2 DEF Commits
  <2> QED BY <1>1, <2>6, <2>7 DEF Writer
<1>2. ASSUME NEW g \in Graphs, Graph(g) PROVE TypeOK'
  <2>1. CASE TurnOpens(g)
    <3>1. queue' \in Seq(Writes) BY <2>1, AsksType DEF TurnOpens
    <3> QED BY <2>1, <3>1 DEF TurnOpens
  <2>2. CASE TurnResumes(g)
    BY <2>2 DEF TurnResumes
  <2>3. CASE TurnEnds(g)
    <3>1. queue' \in Seq(Writes) BY <2>3, AsksType DEF TurnEnds
    <3> QED BY <2>3, <3>1 DEF TurnEnds
  <2>4. CASE PassGivesUp(g)
    <3>1. queue' \in Seq(Writes) BY <2>4, LeavesType DEF PassGivesUp
    <3> QED BY <2>4, <3>1 DEF PassGivesUp, Parks
  <2>5. CASE TurnIsInterrupted(g) BY <2>5 DEF TurnIsInterrupted, Parks
  <2>6. CASE GraphPanics(g) BY <2>6 DEF GraphPanics, AsksToStop
  <2>7. CASE ProcsExit(g) BY <2>7 DEF ProcsExit
  <2> QED BY <1>2, <2>1, <2>2, <2>3, <2>4, <2>5, <2>6, <2>7 DEF Graph
<1>3. ASSUME NEW a \in Agents, Stop(a) PROVE TypeOK'
  <2> USE DEF StopStep
  <2>0. stopping[a] \notin {"none", "dropped"} => entry[a] \in Graphs
    BY DEF LifecycleInv, StopsInv
  <2>1. CASE StopAsks(a)
    <3>1. PICK interrupt \in BOOLEAN : AsksToStop(entry[a], interrupt) BY <2>1 DEF StopAsks
    <3> QED BY <2>0, <2>1, <3>1 DEF StopAsks, AsksToStop
  <2>2. CASE StopShutsDown(a) BY <2>0, <2>2 DEF StopShutsDown
  <2>3. ASSUME NEW returned \in BOOLEAN, StopDelivers(a, returned) PROVE TypeOK'
    BY <2>3 DEF StopDelivers
  <2>4. CASE JoinIsMissed(a) \/ StopFails(a) \/ StopReturns(a)
    BY <2>3, <2>4 DEF JoinIsMissed, StopFails, StopReturns
  <2>5. CASE StopJoins(a)
    <3>1. CASE a \in open
      <4>1. queue' \in Seq(Writes) BY <2>0, <2>5, <3>1, AsksType DEF StopJoins, Records
      <4> QED BY <2>5, <3>1, <4>1 DEF StopJoins, Records
    <3>2. CASE a \notin open BY <2>5, <3>2 DEF StopJoins, Records
    <3> QED BY <3>1, <3>2
  <2>6. CASE StopRetracts(a)
    <3>1. queue' \in Seq(Writes) BY <2>0, <2>6, AsksType DEF StopRetracts
    <3> QED BY <2>6, <3>1 DEF StopRetracts
  <2>7. CASE StopGivesUp(a)
    <3>1. queue' \in Seq(Writes) BY <2>7, LeavesType DEF StopGivesUp
    <3> QED BY <2>7, <3>1 DEF StopGivesUp
  <2>8. CASE StopDrops(a) BY <2>8 DEF StopDrops
  <2> QED BY <1>3, <2>1, <2>2, <2>4, <2>5, <2>6, <2>7, <2>8 DEF Stop
<1>4. ASSUME NEW c \in Callers, Calls(c) PROVE TypeOK'
  <2>1. CASE CallsStart(c) BY <2>1 DEF CallsStart
  <2>2. CASE CallsStop(c) BY <2>2 DEF CallsStop
  <2>3. CASE ReleaseMarks(c)
    <3>1. released' \in BOOLEAN BY <2>3, Zenon DEF ReleaseMarks, Marks
    <3> QED BY <2>3, <3>1 DEF ReleaseMarks, Marks
  <2> QED BY <1>4, <2>1, <2>2, <2>3 DEF Calls
<1>5. ASSUME NEW c \in Callers, Start(c) PROVE TypeOK'
  <2>1. CASE Starts(c)
    <3>1. starting' \in [Agents -> Callers \cup {None}]
      BY <2>1 DEF Starts, StartIsRefused, StartJoins, StartReads, StartClaims
    <3> QED BY <2>1, <3>1 DEF Starts
  <2>2. CASE StartFails(c) BY <2>2 DEF StartFails
  <2>3. CASE GraphStarts(c)
    <3>1. call[c].agent \in Agents \cup {None} BY DEF Call
    <3>2. PICK g \in Graphs : /\ agentOf' = [agentOf EXCEPT ![g] = call[c].agent]
                              /\ procs' = [procs EXCEPT ![g] = "running"]
      BY <2>3 DEF GraphStarts
    <3>3. agentOf' \in [Graphs -> Agents \cup {None}] BY <3>1, <3>2
    <3>4. procs' \in [Graphs -> {"none", "running", "exited"}] BY <3>2
    <3> QED BY <2>3, <3>3, <3>4 DEF GraphStarts
  <2>4. CASE Publishes(c)
    <3>1. call[c].graph \in Graphs \cup {None} BY DEF Call
    <3> QED BY <2>4, <3>1 DEF Publishes
  <2>5. CASE Observes(c)
    <3>1. call[c].graph \in Graphs
      BY <2>5 DEF Observes, At, LifecycleInv, StartsInv, Grown
    <3>2. queue' \in Seq(Writes) BY <2>5, <3>1, AsksType DEF Observes
    <3> QED BY <2>5, <3>2 DEF Observes
  <2>6. CASE ObservationGivesUp(c)
    <3>1. queue' \in Seq(Writes) BY <2>6, LeavesType DEF ObservationGivesUp
    <3> QED BY <2>6, <3>1 DEF ObservationGivesUp
  <2>7. CASE ObservationFails(c) BY <2>7 DEF ObservationFails
  <2>8. CASE StartReturns(c) BY <2>8 DEF StartReturns
  <2>9. CASE ClearsClaim(c) BY <2>9 DEF ClearsClaim
  <2>10. CASE Judges(c) BY <2>10 DEF Judges
  <2> QED BY <1>5, <2>1, <2>2, <2>3, <2>4, <2>5, <2>6, <2>7, <2>8, <2>9, <2>10 DEF Start
<1>6. ASSUME NEW c \in Callers, Stops(c) PROVE TypeOK'
  <2>1. stopping' \in [Agents -> {"none", "claimed", "asked", "joining", "recording", "recorded",
                                  "retracting", "retracted", "dropped", "failing"}]
    <3> DEFINE a == call[c].agent
    <3>1. CASE StopAwaitsClaim(c, a) BY <3>1 DEF StopAwaitsClaim
    <3>2. CASE StopFindsNothing(c, a) BY <3>2 DEF StopFindsNothing
    <3>3. CASE StopClaims(c, a) BY <3>3 DEF StopClaims
    <3> QED BY <1>6, <3>1, <3>2, <3>3 DEF Stops
  <2> QED BY <1>6, <2>1 DEF Stops
<1>7. ASSUME NEW c \in Callers, Release(c) PROVE TypeOK'
  <2>1. CASE ReleaseSettles(c) BY <2>1 DEF ReleaseSettles
  <2>2. CASE ReleaseStops(c) BY <2>2 DEF ReleaseStops
  <2>3. CASE ReleaseReturns(c)
    <3>1. quiet' \in BOOLEAN BY <2>3, Zenon DEF ReleaseReturns
    <3> QED BY <2>3, <3>1 DEF ReleaseReturns
  <2> QED BY <1>7, <2>1, <2>2, <2>3 DEF Release
<1>8. CASE UNCHANGED vars BY <1>8 DEF vars
<1> QED BY <1>1, <1>2, <1>3, <1>4, <1>5, <1>6, <1>7, <1>8 DEF Next, Progress

-----------------------------------------------------------------------------
(* The steps of graphs and of the writer.                                  *)

\* What the invariant says of calls and claims depends on these variables only.
LEMMA ClaimsFrame ==
    ASSUME LifecycleInv, UNCHANGED <<registry, callers, agentOf>>
    PROVE  CallsInv' /\ StartsInv' /\ ReleasesInv'
BY DEF LifecycleInv, CallsInv, StartsInv, ReleasesInv, registry, callers

\* Writes appended for graphs that exist, or no longer awaited.
LEMMA WritesFrame ==
    ASSUME TypeOK, WritesInv, agentOf' = agentOf,
           \/ UNCHANGED queue
           \/ \E o, g : Leaves(o, g)
           \/ \E o : \E g \in Graphs : agentOf[g] \in Agents /\ Asks(o, g)
    PROVE  \A i \in 1..Len(queue') : agentOf'[queue'[i].of] \in Agents
<1> USE DEF TypeOK, WritesInv
<1>1. ASSUME NEW o, NEW g, Leaves(o, g)
      PROVE  \A i \in 1..Len(queue') : agentOf'[queue'[i].of] \in Agents
  <2>1. queue \in [1..Len(queue) -> Writes] /\ DOMAIN queue = 1..Len(queue)
    OBVIOUS
  <2>2. DOMAIN queue' = 1..Len(queue) BY <1>1, <2>1 DEF Leaves
  <2>3. queue' \in Seq(Writes) BY <1>1, LeavesType
  <2>4. Len(queue') = Len(queue) BY <2>2, <2>3
  <2>5. \A i \in 1..Len(queue) : queue'[i].of = queue[i].of
    BY <1>1, <2>1 DEF Leaves, Writes
  <2> QED BY <2>4, <2>5
<1>2. ASSUME NEW o, NEW g \in Graphs, agentOf[g] \in Agents, Asks(o, g)
      PROVE  \A i \in 1..Len(queue') : agentOf'[queue'[i].of] \in Agents
  <2> DEFINE w == [op |-> o, of |-> g, awaited |-> TRUE]
  <2>1. Len(queue') = Len(queue) + 1 BY <1>2 DEF Asks
  <2>2. \A i \in 1..Len(queue) : queue'[i] = queue[i] BY <1>2 DEF Asks
  <2>3. queue'[Len(queue) + 1] = w BY <1>2 DEF Asks
  <2> QED BY <1>2, <2>1, <2>2, <2>3
<1> QED BY <1>1, <1>2

LEMMA GraphStep ==
    ASSUME LifecycleInv, TypeOK', NEW g \in Graphs, Graph(g)
    PROVE  LifecycleInv'
<1> USE LifecycleAssumption DEF graphs, facts
<1>o. TypeOK /\ StopsInv /\ WritesInv /\ GraphsInv BY DEF LifecycleInv
<1>1. UNCHANGED <<registry, callers, agentOf, shut>>
  BY DEF Graph, TurnOpens, TurnResumes, TurnEnds, PassGivesUp, TurnIsInterrupted, GraphPanics,
     ProcsExit
<1>2. CallsInv' /\ StartsInv' /\ ReleasesInv' BY <1>1, ClaimsFrame
<1>3. agentOf[g] \in Agents
  BY <1>o DEF Graph, TurnOpens, TurnResumes, TurnEnds, PassGivesUp, TurnIsInterrupted, GraphPanics,
     ProcsExit, PassBegins, Parked, GraphsInv, WritesInv
<1>4. \/ UNCHANGED queue
      \/ \E o, h : Leaves(o, h)
      \/ \E o : \E h \in Graphs : agentOf[h] \in Agents /\ Asks(o, h)
  BY <1>3 DEF Graph, TurnOpens, TurnResumes, TurnEnds, PassGivesUp, TurnIsInterrupted, GraphPanics,
     ProcsExit
<1>5. \A i \in 1..Len(queue') : agentOf'[queue'[i].of] \in Agents
  BY <1>o, <1>1, <1>4, WritesFrame
<1>6. \A h \in Graphs \ {g} : thread'[h] = thread[h]
  BY <1>o DEF Graph, TurnOpens, TurnResumes, TurnEnds, PassGivesUp, TurnIsInterrupted, GraphPanics,
     ProcsExit, Parks, TypeOK
<1>7. WritesInv' BY <1>o, <1>1, <1>3, <1>5, <1>6 DEF WritesInv
<1>8. \A h \in Graphs : /\ procs'[h] = "running" => procs[h] = "running"
                        /\ procs[h] = "exited" => procs'[h] = "exited"
  BY <1>o DEF Graph, TurnOpens, TurnResumes, TurnEnds, PassGivesUp, TurnIsInterrupted, GraphPanics,
     ProcsExit, Parked, TypeOK
<1>9. StopsInv' BY <1>o, <1>1, <1>8 DEF StopsInv, Terminated, registry, TypeOK
<1>10. GraphsInv' BY <1>o, <1>1, <1>8 DEF GraphsInv, registry, callers
<1> QED BY <1>2, <1>7, <1>9, <1>10 DEF LifecycleInv

\* A step of place leaves the rest of a call as it is.
LEMMA PlaceOnly ==
    ASSUME NEW r \in Call, NEW place
    PROVE  LET s == [r EXCEPT !.at = place]
           IN /\ s.at = place /\ s.op = r.op /\ s.agent = r.agent /\ s.graph = r.graph
              /\ s.on = r.on /\ s.pending = r.pending /\ s.left = r.left /\ s.missed = r.missed
BY DEF Call

LEMMA WriterStep ==
    ASSUME LifecycleInv, TypeOK', Writer
    PROVE  LifecycleInv'
<1> USE LifecycleAssumption
<1> DEFINE w == Head(queue)
<1>o. TypeOK /\ CallsInv /\ StartsInv /\ StopsInv /\ WritesInv /\ GraphsInv /\ ReleasesInv
  BY DEF LifecycleInv
<1>1. PICK ok \in BOOLEAN : Answers(ok) BY DEF Writer, Commits, Refuses
<1>2. /\ queue # <<>> /\ queue' = Tail(queue)
      /\ UNCHANGED <<entry, starting, released, calls, quiet, agentOf, procs, asked, shut>>
  BY <1>1 DEF Answers
<1>3. w \in Writes BY <1>o, <1>2, HeadType
<1>4. \A c \in Callers :
         \/ call'[c] = call[c]
         \/ /\ call[c].at = "observing"
            /\ call'[c] = [call[c] EXCEPT !.at = "observed"]
               \/ call'[c] = [call[c] EXCEPT !.at = "failing"]
  BY <1>o, <1>1 DEF Answers, StarterHears, TypeOK
<1>5. \A c \in Callers : call[c] \in Call BY <1>o DEF TypeOK
<1>6. \A c \in Callers :
         /\ call'[c].agent = call[c].agent /\ call'[c].graph = call[c].graph
         /\ call'[c].op = call[c].op /\ call'[c].pending = call[c].pending
         /\ call'[c].left = call[c].left /\ call'[c].missed = call[c].missed
         /\ \/ call'[c].at = call[c].at
            \/ call[c].at = "observing" /\ call'[c].at \in {"observed", "failing"}
  <2> SUFFICES ASSUME NEW c \in Callers
               PROVE  /\ call'[c].agent = call[c].agent /\ call'[c].graph = call[c].graph
                      /\ call'[c].op = call[c].op /\ call'[c].pending = call[c].pending
                      /\ call'[c].left = call[c].left /\ call'[c].missed = call[c].missed
                      /\ \/ call'[c].at = call[c].at
                         \/ call[c].at = "observing" /\ call'[c].at \in {"observed", "failing"}
    OBVIOUS
  <2>1. CASE call'[c] = call[c] BY <2>1
  <2>2. ASSUME NEW place \in {"observed", "failing"}, call[c].at = "observing",
               call'[c] = [call[c] EXCEPT !.at = place]
        PROVE  /\ call'[c].agent = call[c].agent /\ call'[c].graph = call[c].graph
               /\ call'[c].op = call[c].op /\ call'[c].pending = call[c].pending
               /\ call'[c].left = call[c].left /\ call'[c].missed = call[c].missed
               /\ call'[c].at \in {"observed", "failing"}
    BY <1>5, <2>2, PlaceOnly
  <2> QED BY <1>4, <2>1, <2>2
<1>7. \A a \in Agents :
         \/ stopping'[a] = stopping[a]
         \/ stopping[a] = "recording" /\ stopping'[a] \in {"recorded", "failing"}
         \/ stopping[a] = "retracting" /\ stopping'[a] \in {"retracted", "failing"}
  BY <1>o, <1>1 DEF Answers, StopHears, TypeOK
<1>8. CallsInv' BY <1>o, <1>6 DEF CallsInv
<1>9. StartsInv'
  <2>1. \A a \in Agents : starting[a] # None => starting[a] \in Callers BY <1>o DEF TypeOK
  <2>2. \A a \in Agents : starting'[a] # None =>
           /\ call'[starting'[a]].agent = a
           /\ call'[starting'[a]].at \in Owning \cup {"failed"}
           /\ entry'[a] = None
           /\ stopping'[a] = "none"
    BY <1>o, <1>2, <1>6, <1>7, <2>1 DEF StartsInv, Owning
  <2>3. \A c \in Callers : call'[c].at \in Owning => starting'[call'[c].agent] = c
    BY <1>o, <1>2, <1>6 DEF StartsInv, Owning
  <2>4. \A c \in Callers : call'[c].at \in Grown =>
           call'[c].graph \in Graphs /\ agentOf'[call'[c].graph] = call'[c].agent
    BY <1>o, <1>2, <1>6 DEF StartsInv, Grown
  <2> QED BY <2>2, <2>3, <2>4 DEF StartsInv
<1>10. StopsInv' BY <1>o, <1>2, <1>7 DEF StopsInv, Terminated
<1>11. GraphsInv' BY <1>o, <1>2, <1>6 DEF GraphsInv
<1>12. ReleasesInv' BY <1>o, <1>2, <1>6 DEF ReleasesInv, Owning
<1>13. WritesInv'
  <2>1. /\ Len(queue') = Len(queue) - 1
        /\ \A i \in 1..Len(queue') : queue'[i] = queue[i + 1]
    BY <1>o, <1>2 DEF TypeOK
  <2>2. \A g \in Graphs : thread'[g] # "parked" => thread[g] # "parked"
    BY <1>o, <1>1, <1>3 DEF Answers, ThreadHears, TypeOK, Writes
  <2> QED BY <1>o, <1>2, <2>1, <2>2 DEF WritesInv, TypeOK
<1> QED BY <1>8, <1>9, <1>10, <1>11, <1>12, <1>13 DEF LifecycleInv

-----------------------------------------------------------------------------
(* The steps of a stop.                                                    *)

\* A caller of a stop that ends goes on with its release or start, or returns.
LEMMA AfterStopView ==
    ASSUME TypeOK, NEW c \in Callers, NEW returned \in BOOLEAN
    PROVE  LET s == AfterStop(c, returned)
           IN \/ /\ call[c].op = "release" /\ s.op = "release" /\ s.at = "releases"
                 /\ s.left = call[c].left
                 /\ s.missed \/ returned
                 /\ call[c].missed => s.missed
              \/ /\ call[c].op # "release" /\ s.op # "release"
                 /\ \/ s.at = "idle"
                    \/ s.at = "starts" /\ s.agent = call[c].agent
<1>0. call[c] \in Call BY DEF TypeOK
<1> DEFINE r == [call[c] EXCEPT !.at = "starts"]
           s == [call[c] EXCEPT !.at = "releases"]
           m == (call[c].missed \/ ~returned)
<1>1. CASE call[c].op = "release"
  <2>1. m \in BOOLEAN /\ (call[c].missed => m) /\ (m \/ returned) BY Zenon
  <2> HIDE DEF m
  <2>2. AfterStop(c, returned) = [s EXCEPT !.missed = m]
    BY <1>0, <1>1, PlaceOnly DEF AfterStop, m
  <2>3. s \in Call BY <1>0, FieldTypes DEF Places
  <2>4. /\ [s EXCEPT !.missed = m].missed = m /\ [s EXCEPT !.missed = m].op = s.op
        /\ [s EXCEPT !.missed = m].at = s.at /\ [s EXCEPT !.missed = m].left = s.left
    BY <2>3 DEF Call
  <2>5. s.op = "release" /\ s.at = "releases" /\ s.left = call[c].left
    BY <1>0, <1>1, PlaceOnly
  <2> QED BY <1>1, <2>1, <2>2, <2>4, <2>5, Zenon
<1>2. CASE call[c].op = "start" /\ returned
  <2>1. r \in Call BY <1>0, FieldTypes DEF Places
  <2>2. /\ [r EXCEPT !.graph = None].op = r.op /\ [r EXCEPT !.graph = None].at = r.at
        /\ [r EXCEPT !.graph = None].agent = r.agent
    BY <2>1 DEF Call
  <2>3. r.op = "start" /\ r.at = "starts" /\ r.agent = call[c].agent BY <1>0, <1>2, PlaceOnly
  <2> QED BY <1>2, <2>2, <2>3 DEF AfterStop
<1>3. CASE call[c].op # "release" /\ ~(call[c].op = "start" /\ returned)
  BY <1>3 DEF AfterStop, Idle
<1> QED BY <1>1, <1>2, <1>3

LEMMA DeliveryStep ==
    ASSUME LifecycleInv, TypeOK', NEW a \in Agents, NEW returned \in BOOLEAN,
           StopDelivers(a, returned), returned => entry[a] = None
    PROVE  LifecycleInv'
<1> USE LifecycleAssumption
<1>o. TypeOK /\ CallsInv /\ StartsInv /\ StopsInv /\ WritesInv /\ GraphsInv /\ ReleasesInv
  BY DEF LifecycleInv
<1>1. /\ UNCHANGED <<entry, starting, released, calls, quiet, graphs, facts, queue>>
      /\ stopping' = [stopping EXCEPT ![a] = "none"]
  BY DEF StopDelivers
<1>2. \A c \in Callers :
         \/ call'[c] = call[c] /\ ~(call[c].at = "awaitsStop" /\ call[c].agent = a)
         \/ /\ call[c].at = "awaitsStop" /\ call[c].agent = a
            /\ call'[c] = AfterStop(c, returned)
  BY <1>o DEF StopDelivers, TypeOK
<1>3. \A c \in Callers :
         \/ call'[c] = call[c] /\ ~(call[c].at = "awaitsStop" /\ call[c].agent = a)
         \/ /\ call[c].at = "awaitsStop" /\ call[c].agent = a
            /\ call[c].op = "release" /\ call'[c].op = "release" /\ call'[c].at = "releases"
            /\ call'[c].left = call[c].left
            /\ call'[c].missed \/ returned
            /\ call[c].missed => call'[c].missed
         \/ /\ call[c].at = "awaitsStop" /\ call[c].agent = a
            /\ call[c].op # "release" /\ call'[c].op # "release"
            /\ \/ call'[c].at = "idle"
               \/ call'[c].at = "starts" /\ call'[c].agent = call[c].agent
  BY <1>o, <1>2, AfterStopView
<1>4. \A c \in Callers : call[c].at \in Owning \cup {"failed"} \cup Grown
                         \/ call'[c].at \in Owning \cup {"failed"} \cup Grown
                         => call'[c] = call[c]
  BY <1>3 DEF Owning, Grown
<1>5. CallsInv' BY <1>o, <1>3 DEF CallsInv
<1>6. StartsInv'
  <2>1. \A b \in Agents : starting[b] # None => starting[b] \in Callers BY <1>o DEF TypeOK
  <2>2. \A b \in Agents : stopping'[b] = stopping[b] \/ stopping'[b] = "none"
    BY <1>o, <1>1 DEF TypeOK
  <2>3. \A b \in Agents : starting'[b] # None =>
           /\ call'[starting'[b]].agent = b
           /\ call'[starting'[b]].at \in Owning \cup {"failed"}
           /\ entry'[b] = None
           /\ stopping'[b] = "none"
    BY <1>o, <1>1, <1>4, <2>1, <2>2 DEF StartsInv
  <2>4. \A c \in Callers : call'[c].at \in Owning => starting'[call'[c].agent] = c
    BY <1>o, <1>1, <1>4 DEF StartsInv
  <2>5. \A c \in Callers : call'[c].at \in Grown =>
           call'[c].graph \in Graphs /\ agentOf'[call'[c].graph] = call'[c].agent
    BY <1>o, <1>1, <1>4 DEF StartsInv, graphs
  <2> QED BY <2>3, <2>4, <2>5 DEF StartsInv
<1>7. StopsInv' BY <1>o, <1>1 DEF StopsInv, Terminated, TypeOK, graphs
<1>8. WritesInv' BY <1>o, <1>1 DEF WritesInv, graphs
<1>9. GraphsInv' BY <1>o, <1>1, <1>4 DEF GraphsInv, graphs, Grown
<1>10. ReleasesInv'
  <2>1. \A w \in Callers : call'[w].at \in Owning => call[w].at \in Owning BY <1>4
  <2>2. ASSUME NEW c \in Callers, call'[c].op = "release"
        PROVE  /\ released'
               /\ call'[c].at \in {"settles", "releases", "stops", "awaitsClaim", "awaitsStop"}
               /\ IF call'[c].at = "settles"
                  THEN \A w \in Callers : call'[w].at \in Owning => w \in call'[c].pending
                  ELSE /\ \A w \in Callers : call'[w].at \notin Owning
                       /\ call'[c].missed
                          \/ \A b \in Agents : entry'[b] # None =>
                                b \in call'[c].left \/ (call'[c].at # "releases" /\ call'[c].agent = b)
    <3>1. CASE call'[c] = call[c] BY <1>o, <1>1, <2>1, <2>2, <3>1 DEF ReleasesInv
    <3>2. CASE /\ call[c].at = "awaitsStop" /\ call[c].agent = a
               /\ call[c].op = "release" /\ call'[c].op = "release" /\ call'[c].at = "releases"
               /\ call'[c].left = call[c].left
               /\ call'[c].missed \/ returned
               /\ call[c].missed => call'[c].missed
      BY <1>o, <1>1, <2>1, <3>2 DEF ReleasesInv
    <3> QED BY <1>3, <2>2, <3>1, <3>2
  <2>3. quiet' => /\ released'
                  /\ \A w \in Callers : call'[w].at \notin Owning
                  /\ \A b \in Agents : entry'[b] = None
    BY <1>o, <1>1, <2>1 DEF ReleasesInv
  <2> QED BY <2>2, <2>3 DEF ReleasesInv
<1> QED BY <1>5, <1>6, <1>7, <1>8, <1>9, <1>10 DEF LifecycleInv

LEMMA StopKeepsInv ==
    ASSUME LifecycleInv, TypeOK', NEW a \in Agents, Stop(a)
    PROVE  LifecycleInv'
<1> USE LifecycleAssumption DEF facts, callers, StopStep
<1>o. TypeOK /\ CallsInv /\ StartsInv /\ StopsInv /\ WritesInv /\ GraphsInv /\ ReleasesInv
  BY DEF LifecycleInv
<1>1. CASE JoinIsMissed(a) \/ StopFails(a) \/ StopReturns(a)
  <2>1. CASE StopReturns(a)
    <3>1. entry[a] = None BY <1>o, <2>1 DEF StopReturns, StopsInv
    <3> QED BY <2>1, <3>1, DeliveryStep DEF StopReturns
  <2>2. CASE JoinIsMissed(a) \/ StopFails(a)
    BY <2>2, DeliveryStep DEF JoinIsMissed, StopFails
  <2> QED BY <1>1, <2>1, <2>2
<1>2. CASE \/ StopAsks(a) \/ StopShutsDown(a) \/ StopJoins(a) \/ StopRetracts(a)
           \/ StopGivesUp(a) \/ StopDrops(a)
  <2>0. entry[a] \in Graphs /\ agentOf[entry[a]] = a
    BY <1>o, <1>2 DEF StopAsks, StopShutsDown, StopJoins, Records, StopRetracts, StopGivesUp,
       StopDrops, StopsInv, GraphsInv, TypeOK
  <2>1. /\ UNCHANGED <<starting, released, callers, agentOf, procs, thread>>
        /\ \A h \in Graphs : h \in shut => h \in shut'
        /\ \A b \in Agents \ {a} : stopping'[b] = stopping[b] /\ entry'[b] = entry[b]
        /\ stopping[a] # "none"
        /\ entry'[a] = entry[a] \/ entry'[a] = None
    BY <1>o, <1>2 DEF StopAsks, StopShutsDown, StopJoins, Records, StopRetracts, StopGivesUp,
       StopDrops, graphs, AsksToStop, TypeOK
  <2>2. /\ stopping'[a] # "dropped" => stopping'[a] # "none" /\ entry'[a] = entry[a]
        /\ stopping'[a] = "dropped" =>
              /\ entry'[a] = None
              /\ stopping[a] = "retracted"
        /\ stopping'[a] \in {"recording", "recorded"} => Terminated(entry[a])
        /\ stopping'[a] = "retracting" => stopping[a] = "recorded"
        /\ stopping'[a] # "retracted"
    BY <1>o, <1>2 DEF StopAsks, StopShutsDown, StopJoins, Records, StopRetracts, StopGivesUp,
       StopDrops, TypeOK
  <2>3. CallsInv' BY <1>o, <2>1 DEF CallsInv
  <2>4. StartsInv' BY <1>o, <2>1 DEF StartsInv
  <2>5. StopsInv'
    <3>1. \A b \in Agents \ {a} : Terminated(entry[b]) /\ entry[b] # None => Terminated(entry[b])'
      BY <1>o, <2>1 DEF Terminated, TypeOK
    <3>2. Terminated(entry[a]) => (stopping'[a] # "dropped" => Terminated(entry[a])')
      BY <1>o, <2>0, <2>1, <2>2 DEF Terminated
    <3>3. \A b \in Agents \ {a} :
             /\ stopping'[b] \notin {"none", "dropped"} => entry'[b] # None
             /\ stopping'[b] = "dropped" => entry'[b] = None
             /\ stopping'[b] \in {"recording", "recorded", "retracting", "retracted"}
                   => Terminated(entry[b])'
      BY <1>o, <2>1, <3>1 DEF StopsInv
    <3>4. /\ stopping'[a] \notin {"none", "dropped"} => entry'[a] # None
          /\ stopping'[a] = "dropped" => entry'[a] = None
          /\ stopping'[a] \in {"recording", "recorded", "retracting", "retracted"}
                => Terminated(entry[a])'
      BY <1>o, <2>0, <2>2, <3>2 DEF StopsInv
    <3> QED BY <3>3, <3>4 DEF StopsInv
  <2>6. WritesInv'
    <3>1. \/ UNCHANGED queue
          \/ \E o, h : Leaves(o, h)
          \/ \E o : \E h \in Graphs : agentOf[h] \in Agents /\ Asks(o, h)
      BY <1>2, <2>0 DEF StopAsks, StopShutsDown, StopJoins, Records, StopRetracts, StopGivesUp,
         StopDrops
    <3> QED BY <1>o, <2>1, <3>1, WritesFrame DEF WritesInv
  <2>7. GraphsInv'
    <3>1. entry'[a] = None => procs[entry[a]] # "running"
      BY <1>o, <2>0, <2>2 DEF StopsInv, Terminated
    <3> QED BY <1>o, <2>0, <2>1, <3>1 DEF GraphsInv
  <2>8. ReleasesInv' BY <1>o, <2>1 DEF ReleasesInv
  <2> QED BY <2>3, <2>4, <2>5, <2>6, <2>7, <2>8 DEF LifecycleInv
<1> QED BY <1>1, <1>2 DEF Stop

-----------------------------------------------------------------------------
(* The steps of callers.                                                   *)

\* What the invariant demands of one release.
ReleaseKnows(c) ==
    /\ released
    /\ call[c].at \in {"settles", "releases", "stops", "awaitsClaim", "awaitsStop"}
    /\ IF call[c].at = "settles"
       THEN \A w \in Callers : call[w].at \in Owning => w \in call[c].pending
       ELSE /\ \A w \in Callers : call[w].at \notin Owning
            /\ call[c].missed
               \/ \A a \in Agents : entry[a] # None =>
                     a \in call[c].left \/ (call[c].at # "releases" /\ call[c].agent = a)

\* A caller without a claim or a graph moves to another such place.
LEMMA MoveStep ==
    ASSUME LifecycleInv, TypeOK', NEW c \in Callers,
           UNCHANGED <<entry, starting, graphs, queue>>,
           \A a \in Agents :
               stopping'[a] # stopping[a] =>
                   stopping'[a] = "claimed" /\ entry[a] # None /\ starting[a] = None,
           released => released',
           call[c].at \notin Owning \cup {"failed"},
           \A w \in Callers \ {c} : call'[w] = call[w],
           call'[c].at \notin Owning \cup Grown,
           call'[c].at \notin {"idle", "settles", "releases"} => call'[c].agent \in Agents,
           call'[c].at \in {"settles", "releases"} => call'[c].op = "release",
           call'[c].op = "release" => ReleaseKnows(c)',
           quiet' => quiet \/ (/\ released'
                               /\ \A w \in Callers : call[w].at \notin Owning
                               /\ \A a \in Agents : entry[a] = None)
    PROVE  LifecycleInv'
<1> USE LifecycleAssumption
<1>o. TypeOK /\ CallsInv /\ StartsInv /\ StopsInv /\ WritesInv /\ GraphsInv /\ ReleasesInv
  BY DEF LifecycleInv
<1>1. \A a \in Agents : starting[a] # None => starting[a] \in Callers \ {c}
  BY <1>o DEF StartsInv, TypeOK
<1>2. CallsInv' BY <1>o DEF CallsInv
<1>3. StartsInv'
  <2>1. \A a \in Agents : starting'[a] # None =>
           /\ call'[starting'[a]].agent = a
           /\ call'[starting'[a]].at \in Owning \cup {"failed"}
           /\ entry'[a] = None
           /\ stopping'[a] = "none"
    BY <1>o, <1>1 DEF StartsInv
  <2>2. \A w \in Callers : call'[w].at \in Owning => starting'[call'[w].agent] = w
    BY <1>o DEF StartsInv
  <2>3. \A w \in Callers : call'[w].at \in Grown =>
           call'[w].graph \in Graphs /\ agentOf'[call'[w].graph] = call'[w].agent
    BY <1>o DEF StartsInv, graphs
  <2> QED BY <2>1, <2>2, <2>3 DEF StartsInv
<1>4. StopsInv' BY <1>o DEF StopsInv, Terminated, graphs
<1>5. WritesInv' BY <1>o DEF WritesInv, graphs
<1>6. GraphsInv' BY <1>o DEF GraphsInv, graphs, Owning
<1>7. ReleasesInv'
  <2>1. \A w \in Callers : call'[w].at \in Owning => call[w].at \in Owning OBVIOUS
  <2>2. \A w \in Callers \ {c} : call[w].op = "release" => ReleaseKnows(w)'
    BY <1>o, <2>1 DEF ReleasesInv, ReleaseKnows
  <2>3. quiet' => /\ released'
                  /\ \A w \in Callers : call'[w].at \notin Owning
                  /\ \A a \in Agents : entry'[a] = None
    BY <1>o, <2>1 DEF ReleasesInv
  <2> QED BY <2>2, <2>3 DEF ReleasesInv, ReleaseKnows
<1> QED BY <1>2, <1>3, <1>4, <1>5, <1>6, <1>7 DEF LifecycleInv

\* Only a release is in one of its places, and it has no others.
LEMMA ReleasePlaces ==
    ASSUME LifecycleInv, NEW c \in Callers
    PROVE  /\ call[c].at \in {"starts", "claimed", "built", "published", "observing", "observed",
                              "failing", "failed", "reads", "awaitsStart"}
                 => call[c].op # "release"
           /\ call[c].op = "release" => ReleaseKnows(c)
BY DEF LifecycleInv, ReleasesInv, ReleaseKnows

LEMMA CallsKeepInv ==
    ASSUME LifecycleInv, TypeOK', NEW c \in Callers, Calls(c)
    PROVE  LifecycleInv'
<1> USE LifecycleAssumption DEF registry, At
<1>o. TypeOK /\ StartsInv BY DEF LifecycleInv
<1>1. call[c].at = "idle" BY DEF Calls, CallsStart, CallsStop, ReleaseMarks, Marks
<1>2. CASE CallsStart(c)
  <2>1. PICK a \in Agents :
           call' = [call EXCEPT ![c] = [Idle EXCEPT !.op = "start", !.at = "starts", !.agent = a]]
    BY <1>2 DEF CallsStart
  <2>2. call'[c].op = "start" /\ call'[c].at = "starts" /\ call'[c].agent = a
    BY <1>o, <2>1 DEF TypeOK, Idle
  <2>3. \A w \in Callers \ {c} : call'[w] = call[w] BY <1>o, <2>1 DEF TypeOK
  <2>4. UNCHANGED <<entry, starting, stopping, released, quiet, graphs, queue>>
    BY <1>2 DEF CallsStart
  <2> QED BY <1>1, <2>2, <2>3, <2>4, MoveStep DEF Owning, Grown
<1>3. CASE CallsStop(c)
  <2>1. PICK a \in Agents :
           call' = [call EXCEPT ![c] = [Idle EXCEPT !.op = "stop", !.at = "stops", !.agent = a]]
    BY <1>3 DEF CallsStop
  <2>2. call'[c].op = "stop" /\ call'[c].at = "stops" /\ call'[c].agent = a
    BY <1>o, <2>1 DEF TypeOK, Idle
  <2>3. \A w \in Callers \ {c} : call'[w] = call[w] BY <1>o, <2>1 DEF TypeOK
  <2>4. UNCHANGED <<entry, starting, stopping, released, quiet, graphs, queue>>
    BY <1>3 DEF CallsStop
  <2> QED BY <1>1, <2>2, <2>3, <2>4, MoveStep DEF Owning, Grown
<1>4. CASE ReleaseMarks(c)
  <2> DEFINE inFlight == {w \in Callers : Pending(w) /\ \E a \in Agents : starting[a] = w}
  <2>1. call' = [call EXCEPT ![c] = [Idle EXCEPT !.op = "release", !.at = "settles",
                                                 !.pending = inFlight]]
    BY <1>4 DEF ReleaseMarks, Marks
  <2>2. call'[c].op = "release" /\ call'[c].at = "settles" /\ call'[c].pending = inFlight
    BY <1>o, <2>1 DEF TypeOK, Idle
  <2>3. \A w \in Callers \ {c} : call'[w] = call[w] BY <1>o, <2>1 DEF TypeOK
  <2>4. UNCHANGED <<entry, starting, stopping, quiet, graphs, queue>> /\ released'
    BY <1>4 DEF ReleaseMarks, Marks
  <2>5. \A w \in Callers : call[w].at \in Owning => w \in inFlight
    BY <1>o DEF LifecycleInv, CallsInv, StartsInv, Owning, Pending
  <2>6. ReleaseKnows(c)' BY <1>1, <2>2, <2>3, <2>4, <2>5 DEF ReleaseKnows, Owning
  <2> QED BY <1>1, <2>2, <2>3, <2>4, <2>6, MoveStep DEF Owning, Grown
<1> QED BY <1>2, <1>3, <1>4 DEF Calls

LEMMA StopsKeepInv ==
    ASSUME LifecycleInv, TypeOK', NEW c \in Callers, Stops(c)
    PROVE  LifecycleInv'
<1> USE LifecycleAssumption DEF At
<1> DEFINE a == call[c].agent
<1>o. TypeOK BY DEF LifecycleInv
<1>0. call[c] \in Call BY <1>o DEF TypeOK
<1>1. call[c].at = "stops" /\ a \in Agents BY DEF Stops, LifecycleInv, CallsInv
<1>2. UNCHANGED <<entry, starting, released, quiet, graphs, queue>> BY DEF Stops
<1>3. call[c].op = "release" => ReleaseKnows(c) BY ReleasePlaces
<1>4. CASE StopAwaitsClaim(c, a)
  <2> DEFINE r == [call[c] EXCEPT !.at = "awaitsClaim"]
  <2>1. call'[c] = [r EXCEPT !.on = starting[a]] BY <1>o, <1>4 DEF StopAwaitsClaim, TypeOK
  <2>2. r \in Call BY <1>0, FieldTypes DEF Places
  <2>3. /\ r.at = "awaitsClaim" /\ r.agent = a /\ r.op = call[c].op /\ r.left = call[c].left
        /\ r.missed = call[c].missed
    BY <1>0, PlaceOnly
  <2>4. /\ call'[c].at = r.at /\ call'[c].agent = r.agent /\ call'[c].op = r.op
        /\ call'[c].left = r.left /\ call'[c].missed = r.missed
    BY <2>1, <2>2 DEF Call
  <2>5. \A w \in Callers \ {c} : call'[w] = call[w] BY <1>o, <1>4 DEF StopAwaitsClaim, TypeOK
  <2>6. call'[c].op = "release" => ReleaseKnows(c)'
    BY <1>1, <1>2, <1>3, <2>3, <2>4, <2>5 DEF ReleaseKnows, Owning
  <2>7. stopping' = stopping BY <1>4 DEF StopAwaitsClaim
  <2> QED BY <1>1, <1>2, <2>3, <2>4, <2>5, <2>6, <2>7, MoveStep DEF Owning, Grown
<1>5. CASE StopFindsNothing(c, a)
  <2>1. call'[c] = AfterStop(c, TRUE) BY <1>o, <1>5 DEF StopFindsNothing, TypeOK
  <2>2. \/ /\ call[c].op = "release" /\ call'[c].op = "release" /\ call'[c].at = "releases"
           /\ call'[c].left = call[c].left
           /\ call[c].missed => call'[c].missed
        \/ /\ call'[c].op # "release"
           /\ call'[c].at = "idle" \/ (call'[c].at = "starts" /\ call'[c].agent = a)
    BY <1>o, <2>1, AfterStopView
  <2>3. \A w \in Callers \ {c} : call'[w] = call[w] BY <1>o, <1>5 DEF StopFindsNothing, TypeOK
  <2>4. entry[a] = None /\ stopping' = stopping BY <1>5 DEF StopFindsNothing
  <2>5. call'[c].op = "release" => ReleaseKnows(c)'
    BY <1>1, <1>2, <1>3, <2>2, <2>3, <2>4 DEF ReleaseKnows, Owning
  <2> QED BY <1>1, <1>2, <2>2, <2>3, <2>4, <2>5, MoveStep DEF Owning, Grown
<1>6. CASE StopClaims(c, a)
  <2>1. call'[c] = [call[c] EXCEPT !.at = "awaitsStop"]
    BY <1>o, <1>6 DEF StopClaims, Steps, TypeOK
  <2>2. /\ call'[c].at = "awaitsStop" /\ call'[c].agent = a /\ call'[c].op = call[c].op
        /\ call'[c].left = call[c].left /\ call'[c].missed = call[c].missed
    BY <1>0, <2>1, PlaceOnly
  <2>3. \A w \in Callers \ {c} : call'[w] = call[w]
    BY <1>o, <1>6 DEF StopClaims, Steps, TypeOK
  <2>4. \A b \in Agents : stopping'[b] # stopping[b] =>
           stopping'[b] = "claimed" /\ entry[b] # None /\ starting[b] = None
    BY <1>o, <1>6 DEF StopClaims, TypeOK
  <2>5. call'[c].op = "release" => ReleaseKnows(c)'
    BY <1>1, <1>2, <1>3, <2>2, <2>3 DEF ReleaseKnows, Owning
  <2> QED BY <1>1, <1>2, <2>2, <2>3, <2>4, <2>5, MoveStep DEF Owning, Grown
<1> QED BY <1>4, <1>5, <1>6 DEF Stops

LEMMA ReleaseKeepsInv ==
    ASSUME LifecycleInv, TypeOK', NEW c \in Callers, Release(c)
    PROVE  LifecycleInv'
<1> USE LifecycleAssumption DEF At, registry
<1>o. TypeOK BY DEF LifecycleInv
<1>0. call[c] \in Call BY <1>o DEF TypeOK
<1>3. call[c].op = "release" => ReleaseKnows(c) BY ReleasePlaces
<1>4. CASE ReleaseSettles(c)
  <2> DEFINE r == [call[c] EXCEPT !.at = "releases"]
             entered == {a \in Agents : entry[a] # None}
  <2>1. call'[c] = [r EXCEPT !.left = entered] BY <1>o, <1>4 DEF ReleaseSettles, TypeOK
  <2>2. r \in Call BY <1>0, FieldTypes DEF Places
  <2>3. r.at = "releases" /\ r.op = call[c].op BY <1>0, PlaceOnly
  <2>4. call'[c].at = "releases" /\ call'[c].op = call[c].op /\ call'[c].left = entered
    BY <2>1, <2>2, <2>3 DEF Call
  <2>5. \A w \in Callers \ {c} : call'[w] = call[w] BY <1>o, <1>4 DEF ReleaseSettles, TypeOK
  <2>6. UNCHANGED <<entry, starting, stopping, released, quiet, graphs, queue>>
        /\ call[c].at = "settles" /\ call[c].pending = {}
    BY <1>4 DEF ReleaseSettles
  <2>7. call'[c].op = "release" => ReleaseKnows(c)'
    BY <1>3, <2>4, <2>5, <2>6 DEF ReleaseKnows, Owning
  <2>8. call[c].op = "release" BY <2>6 DEF LifecycleInv, CallsInv
  <2> QED BY <2>4, <2>5, <2>6, <2>7, <2>8, MoveStep DEF Owning, Grown
<1>5. CASE ReleaseStops(c)
  <2>1. PICK a \in call[c].left :
            call' = [call EXCEPT ![c].at = "stops", ![c].agent = a, ![c].left = @ \ {a}]
    BY <1>5 DEF ReleaseStops
  <2> DEFINE r == [call[c] EXCEPT !.at = "stops"]
             q == [r EXCEPT !.agent = a]
  <2>a. a \in Agents BY <1>0, <2>1 DEF Call
  <2>2. call'[c] = [q EXCEPT !.left = q.left \ {a}] BY <1>o, <2>1 DEF TypeOK
  <2>3. r \in Call BY <1>0, FieldTypes DEF Places
  <2>4. /\ r.at = "stops" /\ r.op = call[c].op /\ r.left = call[c].left
        /\ r.missed = call[c].missed
    BY <1>0, PlaceOnly
  <2>5. q \in Call BY <2>a, <2>3, FieldTypes
  <2>6. /\ q.at = r.at /\ q.op = r.op /\ q.left = r.left /\ q.missed = r.missed /\ q.agent = a
    BY <2>3 DEF Call
  <2> HIDE DEF q, r
  <2>7. /\ call'[c].at = q.at /\ call'[c].op = q.op /\ call'[c].left = q.left \ {a}
        /\ call'[c].missed = q.missed /\ call'[c].agent = q.agent
    BY <2>2, <2>5 DEF Call
  <2>8. \A w \in Callers \ {c} : call'[w] = call[w] BY <1>o, <2>1 DEF TypeOK
  <2>9. UNCHANGED <<entry, starting, stopping, released, quiet, graphs, queue>>
        /\ call[c].at = "releases"
    BY <1>5 DEF ReleaseStops
  <2>10. call'[c].op = "release" => ReleaseKnows(c)'
    BY <1>3, <2>4, <2>6, <2>7, <2>8, <2>9 DEF ReleaseKnows, Owning
  <2> QED BY <2>a, <2>4, <2>6, <2>7, <2>8, <2>9, <2>10, MoveStep DEF Owning, Grown
<1>6. CASE ReleaseReturns(c)
  <2>1. call'[c].at = "idle" /\ call'[c].op = "none"
    BY <1>o, <1>6 DEF ReleaseReturns, Returns, Idle, TypeOK
  <2>2. \A w \in Callers \ {c} : call'[w] = call[w]
    BY <1>o, <1>6 DEF ReleaseReturns, Returns, TypeOK
  <2>3. UNCHANGED <<entry, starting, stopping, released, graphs, queue>>
        /\ call[c].at = "releases" /\ call[c].left = {}
    BY <1>6 DEF ReleaseReturns
  <2>4. quiet' => quiet \/ ~call[c].missed BY <1>6, Zenon DEF ReleaseReturns
  <2>5. call[c].op = "release" BY <2>3 DEF LifecycleInv, CallsInv
  <2>6. quiet' => quiet \/ (/\ released'
                            /\ \A w \in Callers : call[w].at \notin Owning
                            /\ \A a \in Agents : entry[a] = None)
    BY <1>3, <2>3, <2>4, <2>5 DEF ReleaseKnows
  <2> QED BY <2>1, <2>2, <2>3, <2>6, MoveStep DEF Owning, Grown
<1> QED BY <1>4, <1>5, <1>6 DEF Release

\* What a completed claim changes of the calls that waited for it.
LEMMA AfterClaimView ==
    ASSUME TypeOK, NEW w \in Callers, NEW c \in Callers
    PROVE  LET s == AfterClaim(w, c)
           IN \/ s.op = "none" /\ s.at = "idle" /\ call[w].at = "awaitsStart"
              \/ /\ s.op = call[w].op /\ s.agent = call[w].agent /\ s.graph = call[w].graph
                 /\ s.left = call[w].left /\ s.missed = call[w].missed
                 /\ call[w].pending \subseteq s.pending \cup {c}
                 /\ s.at = call[w].at \/ (call[w].at = "awaitsClaim" /\ s.at = "stops")
<1>0. call[w] \in Call BY DEF TypeOK
<1> DEFINE r == [call[w] EXCEPT !.at = "stops"]
<1>1. CASE call[w].on = c /\ call[w].at = "awaitsStart" BY <1>1 DEF AfterClaim, Idle
<1>2. CASE call[w].on = c /\ call[w].at = "awaitsClaim"
  <2>1. r \in Call BY <1>0, FieldTypes DEF Places
  <2>2. /\ r.at = "stops" /\ r.op = call[w].op /\ r.agent = call[w].agent
        /\ r.graph = call[w].graph /\ r.left = call[w].left /\ r.missed = call[w].missed
        /\ r.pending = call[w].pending
    BY <1>0, PlaceOnly
  <2> HIDE DEF r
  <2>3. LET s == [r EXCEPT !.on = None]
        IN /\ s.at = r.at /\ s.op = r.op /\ s.agent = r.agent /\ s.graph = r.graph
           /\ s.left = r.left /\ s.missed = r.missed /\ s.pending = r.pending
    BY <2>1 DEF Call
  <2>4. AfterClaim(w, c) = [r EXCEPT !.on = None] BY <1>2 DEF AfterClaim, r
  <2> QED BY <1>2, <2>2, <2>3, <2>4
<1>3. CASE call[w].on # c \/ call[w].at \notin {"awaitsStart", "awaitsClaim"}
  <2>1. AfterClaim(w, c) = [call[w] EXCEPT !.pending = call[w].pending \ {c}]
    BY <1>3 DEF AfterClaim
  <2>2. LET s == [call[w] EXCEPT !.pending = call[w].pending \ {c}]
        IN /\ s.at = call[w].at /\ s.op = call[w].op /\ s.agent = call[w].agent
           /\ s.graph = call[w].graph /\ s.left = call[w].left /\ s.missed = call[w].missed
           /\ s.pending = call[w].pending \ {c}
    BY <1>0 DEF Call
  <2> QED BY <2>1, <2>2
<1> QED BY <1>1, <1>2, <1>3

LEMMA CompletionStep ==
    ASSUME LifecycleInv, TypeOK', NEW c \in Callers, NEW next, Completes(c, next),
           UNCHANGED <<registry, quiet, graphs, queue>>,
           \/ /\ call[c].at \in {"claimed", "failing"}
              /\ next.at = "failed" /\ next.agent = call[c].agent /\ next.op # "release"
           \/ call[c].at = "observed" /\ next.at = "idle" /\ next.op # "release"
    PROVE  LifecycleInv'
<1> USE LifecycleAssumption DEF registry, graphs
<1>o. TypeOK /\ CallsInv /\ StartsInv /\ StopsInv /\ WritesInv /\ GraphsInv /\ ReleasesInv
  BY DEF LifecycleInv
<1>1. call'[c] = next /\ \A w \in Callers \ {c} : call'[w] = AfterClaim(w, c)
  BY <1>o DEF Completes, TypeOK
<1>2. \A w \in Callers \ {c} :
         \/ call'[w].op = "none" /\ call'[w].at = "idle" /\ call[w].at = "awaitsStart"
         \/ /\ call'[w].op = call[w].op /\ call'[w].agent = call[w].agent
            /\ call'[w].graph = call[w].graph
            /\ call'[w].left = call[w].left /\ call'[w].missed = call[w].missed
            /\ call[w].pending \subseteq call'[w].pending \cup {c}
            /\ call'[w].at = call[w].at \/ (call[w].at = "awaitsClaim" /\ call'[w].at = "stops")
  BY <1>o, <1>1, AfterClaimView
<1>3. CallsInv' BY <1>o, <1>1, <1>2 DEF CallsInv
<1>4. \A w \in Callers : call'[w].at \in Owning => w # c /\ call[w].at \in Owning
  BY <1>1, <1>2 DEF Owning
<1>5. StartsInv'
  <2>1. \A a \in Agents : starting[a] # None => starting[a] \in Callers BY <1>o DEF TypeOK
  <2>2. \A a \in Agents : starting'[a] # None =>
           /\ call'[starting'[a]].agent = a
           /\ call'[starting'[a]].at \in Owning \cup {"failed"}
           /\ entry'[a] = None
           /\ stopping'[a] = "none"
    BY <1>o, <1>1, <1>2, <2>1 DEF StartsInv, Owning
  <2>3. \A w \in Callers : call'[w].at \in Owning => starting'[call'[w].agent] = w
    BY <1>o, <1>2, <1>4 DEF StartsInv, Owning
  <2>4. \A w \in Callers : call'[w].at \in Grown =>
           call'[w].graph \in Graphs /\ agentOf'[call'[w].graph] = call'[w].agent
    BY <1>o, <1>1, <1>2 DEF StartsInv, Grown
  <2> QED BY <2>2, <2>3, <2>4 DEF StartsInv
<1>6. StopsInv' BY <1>o DEF StopsInv, Terminated
<1>7. WritesInv' BY <1>o DEF WritesInv
<1>8. GraphsInv'
  <2>1. \A w \in Callers : call[w].at = "built" =>
           call'[w].at = "built" /\ call'[w].graph = call[w].graph
    BY <1>1, <1>2
  <2> QED BY <1>o, <2>1 DEF GraphsInv
<1>9. ReleasesInv'
  <2>1. ASSUME NEW w \in Callers, call'[w].op = "release" PROVE ReleaseKnows(w)'
    <3>1. w # c /\ call[w].op = "release" BY <1>1, <1>2, <2>1
    <3>2. ReleaseKnows(w) BY <3>1, ReleasePlaces
    <3> QED BY <1>2, <1>4, <3>1, <3>2 DEF ReleaseKnows
  <2>2. quiet' => /\ released'
                  /\ \A w \in Callers : call'[w].at \notin Owning
                  /\ \A a \in Agents : entry'[a] = None
    BY <1>o, <1>4 DEF ReleasesInv
  <2> QED BY <2>1, <2>2 DEF ReleasesInv, ReleaseKnows
<1> QED BY <1>3, <1>5, <1>6, <1>7, <1>8, <1>9 DEF LifecycleInv

\* A start that stays where its graph is, or leaves it for good.
LEMMA ObservationStep ==
    ASSUME LifecycleInv, TypeOK', NEW c \in Callers,
           NEW place \in {"observing", "failing"}, call[c].at \in {"published", "observing"},
           call' = [call EXCEPT ![c].at = place],
           UNCHANGED <<registry, quiet, graphs>>,
           \/ \E o, g : Leaves(o, g)
           \/ \E o : \E g \in Graphs : agentOf[g] \in Agents /\ Asks(o, g)
    PROVE  LifecycleInv'
<1> USE LifecycleAssumption DEF registry, graphs
<1>o. TypeOK /\ CallsInv /\ StartsInv /\ StopsInv /\ WritesInv /\ GraphsInv /\ ReleasesInv
  BY DEF LifecycleInv
<1>0. call[c] \in Call BY <1>o DEF TypeOK
<1>a. call'[c] = [call[c] EXCEPT !.at = place] BY <1>o DEF TypeOK
<1>1. \A w \in Callers \ {c} : call'[w] = call[w] BY <1>o DEF TypeOK
<1>2. /\ call'[c].at = place /\ call'[c].op = call[c].op /\ call'[c].agent = call[c].agent
      /\ call'[c].graph = call[c].graph
  <2> DEFINE r == [call[c] EXCEPT !.at = place]
  <2>1. r.at = place /\ r.op = call[c].op /\ r.agent = call[c].agent /\ r.graph = call[c].graph
    BY <1>0, PlaceOnly
  <2> QED BY <1>a, <2>1
<1>3. call[c].op # "release" BY <1>o DEF ReleasesInv
<1>4. CallsInv' BY <1>o, <1>1, <1>2 DEF CallsInv
<1>5. \A w \in Callers : call'[w].at \in Owning \cup {"failed"} \/ call[w].at \in Owning \cup {"failed"}
         => w # c
  BY <1>2 DEF Owning
<1>6. StartsInv'
  <2>1. \A a \in Agents : starting[a] # None => starting[a] \in Callers \ {c}
    BY <1>o, <1>5 DEF StartsInv, TypeOK
  <2>2. \A a \in Agents : starting'[a] # None =>
           /\ call'[starting'[a]].agent = a
           /\ call'[starting'[a]].at \in Owning \cup {"failed"}
           /\ entry'[a] = None
           /\ stopping'[a] = "none"
    BY <1>o, <1>1, <2>1 DEF StartsInv
  <2>3. \A w \in Callers : call'[w].at \in Owning => starting'[call'[w].agent] = w
    BY <1>o, <1>1, <1>5 DEF StartsInv
  <2>4. \A w \in Callers : call'[w].at \in Grown =>
           call'[w].graph \in Graphs /\ agentOf'[call'[w].graph] = call'[w].agent
    BY <1>o, <1>1, <1>2 DEF StartsInv, Grown
  <2> QED BY <2>2, <2>3, <2>4 DEF StartsInv
<1>7. StopsInv' BY <1>o DEF StopsInv, Terminated
<1>8. WritesInv' BY <1>o, WritesFrame DEF WritesInv
<1>9. GraphsInv' BY <1>o, <1>1 DEF GraphsInv
<1>10. ReleasesInv' BY <1>o, <1>1, <1>2, <1>3, <1>5 DEF ReleasesInv
<1> QED BY <1>4, <1>6, <1>7, <1>8, <1>9, <1>10 DEF LifecycleInv

LEMMA StartsKeepInv ==
    ASSUME LifecycleInv, TypeOK', NEW c \in Callers, Starts(c)
    PROVE  LifecycleInv'
<1> USE LifecycleAssumption DEF At, registry
<1> DEFINE a == call[c].agent
<1>o. TypeOK /\ CallsInv /\ StartsInv /\ StopsInv /\ WritesInv /\ GraphsInv /\ ReleasesInv
  BY DEF LifecycleInv
<1>0. call[c] \in Call BY <1>o DEF TypeOK
<1>1. call[c].at = "starts" /\ a \in Agents BY <1>o DEF Starts, CallsInv
<1>2. UNCHANGED <<entry, stopping, released, quiet, graphs, queue>> BY DEF Starts
<1>3. call[c].op # "release" BY <1>1, <1>o DEF ReleasesInv
<1>4. CASE StartIsRefused(c, a)
  <2>1. call'[c].at = "idle" /\ call'[c].op = "none"
    BY <1>o, <1>4 DEF StartIsRefused, Returns, Idle, TypeOK
  <2>2. \A w \in Callers \ {c} : call'[w] = call[w]
    BY <1>o, <1>4 DEF StartIsRefused, Returns, TypeOK
  <2>3. starting' = starting BY <1>4 DEF StartIsRefused
  <2> QED BY <1>1, <1>2, <2>1, <2>2, <2>3, MoveStep DEF Owning, Grown
<1>5. CASE StartJoins(c, a)
  <2> DEFINE r == [call[c] EXCEPT !.at = "awaitsStart"]
  <2>1. call'[c] = [r EXCEPT !.on = starting[a]] BY <1>o, <1>5 DEF StartJoins, TypeOK
  <2>2. r \in Call BY <1>0, FieldTypes DEF Places
  <2>3. r.at = "awaitsStart" /\ r.agent = a /\ r.op = call[c].op BY <1>0, PlaceOnly
  <2>4. call'[c].at = r.at /\ call'[c].agent = r.agent /\ call'[c].op = r.op
    BY <2>1, <2>2 DEF Call
  <2>5. \A w \in Callers \ {c} : call'[w] = call[w] BY <1>o, <1>5 DEF StartJoins, TypeOK
  <2>6. starting' = starting BY <1>5 DEF StartJoins
  <2> QED BY <1>1, <1>2, <1>3, <2>3, <2>4, <2>5, <2>6, MoveStep DEF Owning, Grown
<1>6. CASE StartReads(c, a)
  <2> DEFINE r == [call[c] EXCEPT !.at = "reads"]
  <2>1. call'[c] = [r EXCEPT !.graph = entry[a]] BY <1>o, <1>6 DEF StartReads, TypeOK
  <2>2. r \in Call BY <1>0, FieldTypes DEF Places
  <2>3. r.at = "reads" /\ r.agent = a /\ r.op = call[c].op BY <1>0, PlaceOnly
  <2>4. call'[c].at = r.at /\ call'[c].agent = r.agent /\ call'[c].op = r.op
    BY <2>1, <2>2 DEF Call
  <2>5. \A w \in Callers \ {c} : call'[w] = call[w] BY <1>o, <1>6 DEF StartReads, TypeOK
  <2>6. starting' = starting BY <1>6 DEF StartReads
  <2> QED BY <1>1, <1>2, <1>3, <2>3, <2>4, <2>5, <2>6, MoveStep DEF Owning, Grown
<1>7. CASE ~released /\ stopping[a] = "none" /\ StartClaims(c, a)
  <2>1. call'[c] = [call[c] EXCEPT !.at = "claimed"]
        /\ \A w \in Callers \ {c} : call'[w] = call[w]
    BY <1>o, <1>7 DEF StartClaims, Steps, TypeOK
  <2>2. /\ call'[c].at = "claimed" /\ call'[c].agent = a /\ call'[c].op = call[c].op
    BY <1>0, <2>1, PlaceOnly
  <2>3. /\ starting[a] = None /\ entry[a] = None
        /\ starting' = [starting EXCEPT ![a] = c]
    BY <1>7 DEF StartClaims
  <2>4. CallsInv' BY <1>o, <1>1, <2>1, <2>2 DEF CallsInv
  <2>5. StartsInv'
    <3>1. \A b \in Agents : starting[b] # None => starting[b] \in Callers \ {c}
      BY <1>o, <1>1 DEF StartsInv, TypeOK, Owning
    <3>2. \A b \in Agents \ {a} : starting'[b] = starting[b] BY <1>o, <2>3 DEF TypeOK
    <3>3. starting'[a] = c BY <1>o, <1>1, <2>3 DEF TypeOK
    <3>4. ASSUME NEW b \in Agents, starting'[b] # None
          PROVE  /\ call'[starting'[b]].agent = b
                 /\ call'[starting'[b]].at \in Owning \cup {"failed"}
                 /\ entry'[b] = None
                 /\ stopping'[b] = "none"
      <4>1. CASE b = a BY <1>2, <1>7, <2>2, <2>3, <3>3, <4>1 DEF Owning
      <4>2. CASE b # a
        <5>1. starting'[b] = starting[b] /\ starting[b] \in Callers \ {c}
          BY <3>1, <3>2, <3>4, <4>2
        <5>2. call'[starting[b]] = call[starting[b]] BY <2>1, <5>1
        <5> QED BY <1>o, <1>2, <3>4, <5>1, <5>2 DEF StartsInv
      <4> QED BY <4>1, <4>2
    <3>5. ASSUME NEW w \in Callers, call'[w].at \in Owning
          PROVE  starting'[call'[w].agent] = w
      <4>1. CASE w = c BY <2>2, <3>3, <4>1
      <4>2. CASE w # c
        <5>1. call'[w] = call[w] /\ starting[call[w].agent] = w /\ call[w].agent \in Agents
          BY <1>o, <2>1, <3>5, <4>2 DEF StartsInv, CallsInv, Owning
        <5>2. call[w].agent # a BY <1>o, <2>3, <5>1 DEF TypeOK
        <5> QED BY <3>2, <5>1, <5>2
      <4> QED BY <4>1, <4>2
    <3>6. ASSUME NEW w \in Callers, call'[w].at \in Grown
          PROVE  call'[w].graph \in Graphs /\ agentOf'[call'[w].graph] = call'[w].agent
      <4>1. w # c BY <2>2, <3>6 DEF Grown
      <4>2. call'[w] = call[w] BY <2>1, <4>1
      <4> QED BY <1>o, <1>2, <3>6, <4>2 DEF StartsInv, graphs
    <3> QED BY <3>4, <3>5, <3>6 DEF StartsInv
  <2>6. StopsInv' BY <1>o, <1>2 DEF StopsInv, Terminated, graphs
  <2>7. WritesInv' BY <1>o, <1>2 DEF WritesInv, graphs
  <2>8. GraphsInv' BY <1>o, <1>1, <1>2, <2>1 DEF GraphsInv, graphs
  <2>9. ReleasesInv' BY <1>o, <1>2, <1>3, <1>7, <2>1, <2>2 DEF ReleasesInv
  <2> QED BY <2>4, <2>5, <2>6, <2>7, <2>8, <2>9 DEF LifecycleInv
<1> QED BY <1>4, <1>5, <1>6, <1>7 DEF Starts

LEMMA GraphStartsKeepsInv ==
    ASSUME LifecycleInv, TypeOK', NEW c \in Callers, GraphStarts(c)
    PROVE  LifecycleInv'
<1> USE LifecycleAssumption DEF At, registry
<1>o. TypeOK /\ CallsInv /\ StartsInv /\ StopsInv /\ WritesInv /\ GraphsInv /\ ReleasesInv
  BY DEF LifecycleInv
<1>0. call[c] \in Call BY <1>o DEF TypeOK
<1>1. /\ UNCHANGED <<registry, quiet, asked, shut, thread, interrupted, facts, queue>>
      /\ call[c].at = "claimed" /\ call[c].agent \in Agents
  BY <1>o DEF GraphStarts, CallsInv
<1>2. PICK g \in Graphs :
         /\ agentOf[g] = None
         /\ agentOf' = [agentOf EXCEPT ![g] = call[c].agent]
         /\ procs' = [procs EXCEPT ![g] = "running"]
         /\ call' = [call EXCEPT ![c].at = "built", ![c].graph = g]
  BY DEF GraphStarts
<1> DEFINE r == [call[c] EXCEPT !.at = "built"]
<1>3. r \in Call /\ r.at = "built" /\ r.agent = call[c].agent /\ r.op = call[c].op
  BY <1>0, FieldTypes, PlaceOnly DEF Places
<1>4. call'[c] = [r EXCEPT !.graph = g] BY <1>o, <1>2 DEF TypeOK
<1> HIDE DEF r
<1>5. /\ call'[c].at = "built" /\ call'[c].agent = call[c].agent /\ call'[c].op = call[c].op
      /\ call'[c].graph = g
  BY <1>3, <1>4 DEF Call
<1>6. \A w \in Callers \ {c} : call'[w] = call[w] BY <1>o, <1>2 DEF TypeOK
<1>7. /\ agentOf'[g] = call[c].agent /\ procs'[g] = "running"
      /\ \A h \in Graphs \ {g} : agentOf'[h] = agentOf[h] /\ procs'[h] = procs[h]
  BY <1>o, <1>2 DEF TypeOK
<1>8. \A h \in Graphs : agentOf[h] \in Agents => h # g /\ agentOf'[h] = agentOf[h]
  BY <1>2, <1>7
<1>9. CallsInv' BY <1>o, <1>1, <1>5, <1>6 DEF CallsInv
<1>10. StartsInv'
  <2>1. ASSUME NEW a \in Agents, starting'[a] # None
        PROVE  /\ call'[starting'[a]].agent = a
               /\ call'[starting'[a]].at \in Owning \cup {"failed"}
               /\ entry'[a] = None
               /\ stopping'[a] = "none"
    <3>1. starting[a] \in Callers /\ starting'[a] = starting[a] BY <1>o, <1>1, <2>1 DEF TypeOK
    <3>2. CASE starting[a] = c BY <1>o, <1>1, <1>5, <2>1, <3>1, <3>2 DEF StartsInv, Owning
    <3>3. CASE starting[a] # c BY <1>o, <1>1, <1>6, <2>1, <3>1, <3>3 DEF StartsInv
    <3> QED BY <3>2, <3>3
  <2>2. ASSUME NEW w \in Callers, call'[w].at \in Owning PROVE starting'[call'[w].agent] = w
    <3>1. CASE w = c BY <1>o, <1>1, <1>5, <3>1 DEF StartsInv, Owning
    <3>2. CASE w # c BY <1>o, <1>1, <1>6, <2>2, <3>2 DEF StartsInv
    <3> QED BY <3>1, <3>2
  <2>3. ASSUME NEW w \in Callers, call'[w].at \in Grown
        PROVE  call'[w].graph \in Graphs /\ agentOf'[call'[w].graph] = call'[w].agent
    <3>1. CASE w = c BY <1>5, <1>7, <3>1
    <3>2. CASE w # c
      <4>1. call'[w] = call[w] /\ call[w].agent \in Agents
        BY <1>o, <1>6, <2>3, <3>2 DEF CallsInv, Grown
      <4> QED BY <1>o, <1>8, <2>3, <4>1 DEF StartsInv
    <3> QED BY <3>1, <3>2
  <2> QED BY <2>1, <2>2, <2>3 DEF StartsInv
<1>11. \A a \in Agents : entry[a] # None => entry[a] \in Graphs \ {g}
  BY <1>o, <1>2 DEF GraphsInv, TypeOK
<1>12. StopsInv' BY <1>o, <1>1, <1>7, <1>11 DEF StopsInv, Terminated
<1>13. WritesInv'
  <2>0. queue \in [1..Len(queue) -> Writes] BY <1>o DEF TypeOK
  <2>1. \A i \in 1..Len(queue) : queue[i].of \in Graphs BY <2>0 DEF Writes
  <2> QED BY <1>o, <1>1, <1>8, <2>1 DEF WritesInv
<1>14. GraphsInv'
  <2>1. \A a \in Agents : entry'[a] # None => agentOf'[entry'[a]] = a
    BY <1>o, <1>1, <1>7, <1>11 DEF GraphsInv
  <2>2. ASSUME NEW h \in Graphs, procs'[h] = "running"
        PROVE  /\ agentOf'[h] \in Agents
               /\ \/ entry'[agentOf'[h]] = h
                  \/ \E w \in Callers : call'[w].at = "built" /\ call'[w].graph = h
    <3>1. CASE h = g BY <1>1, <1>5, <1>7, <3>1
    <3>2. CASE h # g
      <4>1. agentOf'[h] = agentOf[h] /\ procs[h] = "running" BY <1>7, <2>2, <3>2
      <4>2. \A w \in Callers : call[w].at = "built" => w # c BY <1>1
      <4> QED BY <1>o, <1>1, <1>6, <4>1, <4>2 DEF GraphsInv
    <3> QED BY <3>1, <3>2
  <2> QED BY <2>1, <2>2 DEF GraphsInv
<1>15. ReleasesInv'
  <2>1. call[c].op # "release" BY <1>o, <1>1 DEF ReleasesInv
  <2>2. \A w \in Callers : call'[w].at \in Owning => call[w].at \in Owning
    BY <1>1, <1>6 DEF Owning
  <2>3. ASSUME NEW w \in Callers, call'[w].op = "release" PROVE ReleaseKnows(w)'
    <3>1. w # c /\ call'[w] = call[w] BY <1>5, <1>6, <2>1, <2>3
    <3>2. ReleaseKnows(w) BY <2>3, <3>1, ReleasePlaces
    <3> QED BY <1>1, <2>2, <3>1, <3>2 DEF ReleaseKnows
  <2>4. quiet' => /\ released'
                  /\ \A w \in Callers : call'[w].at \notin Owning
                  /\ \A a \in Agents : entry'[a] = None
    BY <1>o, <1>1, <2>2 DEF ReleasesInv
  <2> QED BY <2>3, <2>4 DEF ReleasesInv, ReleaseKnows
<1> QED BY <1>9, <1>10, <1>12, <1>13, <1>14, <1>15 DEF LifecycleInv

LEMMA PublishesKeepsInv ==
    ASSUME LifecycleInv, TypeOK', NEW c \in Callers, Publishes(c)
    PROVE  LifecycleInv'
<1> USE LifecycleAssumption DEF At
<1>o. TypeOK /\ CallsInv /\ StartsInv /\ StopsInv /\ WritesInv /\ GraphsInv /\ ReleasesInv
  BY DEF LifecycleInv
<1>0. call[c] \in Call BY <1>o DEF TypeOK
<1>1. UNCHANGED <<stopping, released, calls, quiet, graphs, facts, queue>>
      /\ call[c].at = "built"
  BY DEF Publishes
<1>2. PICK a \in Agents : a = call[c].agent BY <1>o, <1>1 DEF CallsInv
<1>3. PICK g \in Graphs : g = call[c].graph /\ agentOf[g] = a
  BY <1>o, <1>1, <1>2 DEF StartsInv, Grown
<1>4. /\ starting[a] = c /\ entry[a] = None /\ stopping[a] = "none"
  BY <1>o, <1>1, <1>2 DEF StartsInv, Owning
<1>5. /\ entry'[a] = g /\ starting'[a] = None
      /\ \A b \in Agents \ {a} : entry'[b] = entry[b] /\ starting'[b] = starting[b]
  BY <1>o, <1>2, <1>3 DEF Publishes, TypeOK
<1>6. call'[c] = [call[c] EXCEPT !.at = "published"]
  BY <1>o DEF Publishes, Steps, TypeOK
<1>7. /\ call'[c].at = "published" /\ call'[c].agent = a /\ call'[c].op = call[c].op
      /\ call'[c].graph = g
  BY <1>0, <1>2, <1>3, <1>6, PlaceOnly
<1>8. \A w \in Callers \ {c} : call'[w] = call[w] BY <1>o DEF Publishes, Steps, TypeOK
<1>9. CallsInv' BY <1>o, <1>7, <1>8 DEF CallsInv
<1>10. StartsInv'
  <2>1. ASSUME NEW b \in Agents, starting'[b] # None
        PROVE  /\ call'[starting'[b]].agent = b
               /\ call'[starting'[b]].at \in Owning \cup {"failed"}
               /\ entry'[b] = None
               /\ stopping'[b] = "none"
    <3>1. b # a /\ starting'[b] = starting[b] /\ entry'[b] = entry[b] BY <1>5, <2>1
    <3>2. starting[b] \in Callers \ {c} BY <1>o, <1>2, <2>1, <3>1 DEF StartsInv, TypeOK
    <3> QED BY <1>o, <1>1, <1>8, <2>1, <3>1, <3>2 DEF StartsInv
  <2>2. ASSUME NEW w \in Callers, call'[w].at \in Owning PROVE starting'[call'[w].agent] = w
    <3>1. w # c /\ call'[w] = call[w] BY <1>7, <1>8, <2>2 DEF Owning
    <3>2. starting[call[w].agent] = w /\ call[w].agent \in Agents
      BY <1>o, <2>2, <3>1 DEF StartsInv, CallsInv, Owning
    <3>3. call[w].agent # a BY <1>4, <3>1, <3>2
    <3> QED BY <1>5, <3>1, <3>2, <3>3
  <2>3. ASSUME NEW w \in Callers, call'[w].at \in Grown
        PROVE  call'[w].graph \in Graphs /\ agentOf'[call'[w].graph] = call'[w].agent
    BY <1>o, <1>1, <1>3, <1>7, <1>8, <2>3 DEF StartsInv, graphs
  <2> QED BY <2>1, <2>2, <2>3 DEF StartsInv
<1>11. StopsInv' BY <1>o, <1>1, <1>4, <1>5 DEF StopsInv, Terminated, graphs
<1>12. WritesInv' BY <1>o, <1>1 DEF WritesInv, graphs
<1>13. GraphsInv'
  <2>1. \A b \in Agents : entry'[b] # None => agentOf'[entry'[b]] = b
    BY <1>o, <1>1, <1>3, <1>5 DEF GraphsInv, graphs
  <2>2. ASSUME NEW h \in Graphs, procs'[h] = "running"
        PROVE  /\ agentOf'[h] \in Agents
               /\ \/ entry'[agentOf'[h]] = h
                  \/ \E w \in Callers : call'[w].at = "built" /\ call'[w].graph = h
    <3>1. /\ procs[h] = "running" /\ agentOf'[h] = agentOf[h] /\ agentOf[h] \in Agents
      BY <1>o, <1>1, <2>2 DEF GraphsInv, graphs
    <3>2. CASE entry[agentOf[h]] = h
      <4>1. agentOf[h] # a BY <1>4, <3>2
      <4> QED BY <1>5, <3>1, <3>2, <4>1
    <3>3. CASE \E w \in Callers : call[w].at = "built" /\ call[w].graph = h
      <4>1. PICK w \in Callers : call[w].at = "built" /\ call[w].graph = h BY <3>3
      <4>2. CASE w = c BY <1>3, <1>5, <3>1, <4>1, <4>2
      <4>3. CASE w # c BY <1>8, <3>1, <4>1, <4>3
      <4> QED BY <4>2, <4>3
    <3> QED BY <1>o, <3>1, <3>2, <3>3 DEF GraphsInv
  <2> QED BY <2>1, <2>2 DEF GraphsInv
<1>14. ReleasesInv'
  <2>1. call[c].op # "release" BY <1>o, <1>1 DEF ReleasesInv
  <2>2. \A w \in Callers : call'[w].at \in Owning => call[w].at \in Owning
    BY <1>7, <1>8 DEF Owning
  <2>3. ASSUME NEW w \in Callers, call'[w].op = "release" PROVE ReleaseKnows(w)'
    <3>1. w # c /\ call'[w] = call[w] BY <1>7, <1>8, <2>1, <2>3
    <3>2. ReleaseKnows(w) BY <2>3, <3>1, ReleasePlaces
    <3>3. call[c].at \in Owning BY <1>1 DEF Owning
    <3>4. call[w].at = "settles" BY <3>2, <3>3 DEF ReleaseKnows
    <3> QED BY <1>1, <2>2, <3>1, <3>2, <3>4 DEF ReleaseKnows
  <2>4. ~quiet BY <1>o, <1>1 DEF ReleasesInv, Owning
  <2>5. ~quiet' BY <1>1, <2>4
  <2> QED BY <2>3, <2>5 DEF ReleasesInv, ReleaseKnows
<1> QED BY <1>9, <1>10, <1>11, <1>12, <1>13, <1>14 DEF LifecycleInv

LEMMA ClearsClaimKeepsInv ==
    ASSUME LifecycleInv, TypeOK', NEW c \in Callers, ClearsClaim(c)
    PROVE  LifecycleInv'
<1> USE LifecycleAssumption DEF At
<1>o. TypeOK /\ CallsInv /\ StartsInv /\ StopsInv /\ WritesInv /\ GraphsInv /\ ReleasesInv
  BY DEF LifecycleInv
<1>1. UNCHANGED <<entry, stopping, released, calls, quiet, graphs, facts, queue>>
      /\ call[c].at = "failed"
  BY DEF ClearsClaim
<1>2. PICK a \in Agents : a = call[c].agent BY <1>o, <1>1 DEF CallsInv
<1>3. starting' = [starting EXCEPT ![a] = IF starting[a] = c THEN None ELSE starting[a]]
  BY <1>2 DEF ClearsClaim
<1>4. call'[c].at = "idle" /\ call'[c].op = "none"
      /\ \A w \in Callers \ {c} : call'[w] = call[w]
  BY <1>o DEF ClearsClaim, Returns, Idle, TypeOK
<1>5. \A b \in Agents : starting[b] = c => b = a BY <1>o, <1>2 DEF StartsInv
<1>6. \A b \in Agents : /\ starting[b] = c => starting'[b] = None
                        /\ starting[b] # c => starting'[b] = starting[b]
  BY <1>o, <1>3, <1>5 DEF TypeOK
<1>7. CallsInv' BY <1>o, <1>4 DEF CallsInv
<1>8. StartsInv'
  <2>1. ASSUME NEW b \in Agents, starting'[b] # None
        PROVE  /\ call'[starting'[b]].agent = b
               /\ call'[starting'[b]].at \in Owning \cup {"failed"}
               /\ entry'[b] = None
               /\ stopping'[b] = "none"
    <3>1. starting[b] # c BY <1>6, <2>1
    <3>2. starting'[b] = starting[b] BY <1>6, <3>1
    <3>3. starting[b] \in Callers \ {c} BY <1>o, <2>1, <3>1, <3>2 DEF TypeOK
    <3> QED BY <1>o, <1>1, <1>4, <2>1, <3>2, <3>3 DEF StartsInv
  <2>2. ASSUME NEW w \in Callers, call'[w].at \in Owning PROVE starting'[call'[w].agent] = w
    <3>1. w # c /\ call'[w] = call[w] BY <1>4, <2>2 DEF Owning
    <3>2. starting[call[w].agent] = w /\ call[w].agent \in Agents
      BY <1>o, <2>2, <3>1 DEF StartsInv, CallsInv, Owning
    <3>3. PICK b \in Agents : b = call[w].agent BY <3>2
    <3>4. starting'[b] = starting[b] BY <1>6, <3>1, <3>2, <3>3
    <3> QED BY <3>1, <3>2, <3>3, <3>4
  <2>3. ASSUME NEW w \in Callers, call'[w].at \in Grown
        PROVE  call'[w].graph \in Graphs /\ agentOf'[call'[w].graph] = call'[w].agent
    BY <1>o, <1>1, <1>4, <2>3 DEF StartsInv, Grown, graphs
  <2> QED BY <2>1, <2>2, <2>3 DEF StartsInv
<1>9. StopsInv' BY <1>o, <1>1 DEF StopsInv, Terminated, graphs
<1>10. WritesInv' BY <1>o, <1>1 DEF WritesInv, graphs
<1>11. GraphsInv' BY <1>o, <1>1, <1>4 DEF GraphsInv, graphs
<1>12. ReleasesInv'
  <2>1. \A w \in Callers : call'[w].at \in Owning => call[w].at \in Owning
    BY <1>4 DEF Owning
  <2>2. ASSUME NEW w \in Callers, call'[w].op = "release" PROVE ReleaseKnows(w)'
    <3>1. w # c /\ call'[w] = call[w] BY <1>4, <2>2
    <3>2. ReleaseKnows(w) BY <2>2, <3>1, ReleasePlaces
    <3> QED BY <1>1, <2>1, <3>1, <3>2 DEF ReleaseKnows
  <2>3. quiet' => /\ released'
                  /\ \A w \in Callers : call'[w].at \notin Owning
                  /\ \A a1 \in Agents : entry'[a1] = None
    BY <1>o, <1>1, <2>1 DEF ReleasesInv
  <2> QED BY <2>2, <2>3 DEF ReleasesInv, ReleaseKnows
<1> QED BY <1>7, <1>8, <1>9, <1>10, <1>11, <1>12 DEF LifecycleInv

LEMMA JudgesKeepsInv ==
    ASSUME LifecycleInv, TypeOK', NEW c \in Callers, Judges(c)
    PROVE  LifecycleInv'
<1> USE LifecycleAssumption DEF At, registry
<1>o. TypeOK BY DEF LifecycleInv
<1>0. call[c] \in Call BY <1>o DEF TypeOK
<1>1. UNCHANGED <<entry, starting, stopping, released, quiet, graphs, queue>>
      /\ call[c].at = "reads"
  BY DEF Judges
<1>2. call[c].op # "release" /\ call[c].agent \in Agents
  BY <1>1, ReleasePlaces DEF LifecycleInv, CallsInv
<1>3. \A w \in Callers \ {c} : call'[w] = call[w] BY <1>o DEF Judges, Steps, Returns, TypeOK
<1>4. \/ call'[c].at = "idle" /\ call'[c].op = "none"
      \/ call'[c].at = "stops" /\ call'[c].agent = call[c].agent /\ call'[c].op = call[c].op
  <2>1. CASE Steps(c, "stops")
    <3>1. call'[c] = [call[c] EXCEPT !.at = "stops"] BY <1>o, <2>1 DEF Steps, TypeOK
    <3> QED BY <1>0, <3>1, PlaceOnly
  <2>2. CASE Returns(c) BY <1>o, <2>2 DEF Returns, Idle, TypeOK
  <2> QED BY <2>1, <2>2 DEF Judges
<1> QED BY <1>1, <1>2, <1>3, <1>4, MoveStep DEF Owning, Grown

LEMMA StartKeepsInv ==
    ASSUME LifecycleInv, TypeOK', NEW c \in Callers, Start(c)
    PROVE  LifecycleInv'
<1> USE LifecycleAssumption DEF At
<1>o. TypeOK BY DEF LifecycleInv
<1>0. call[c] \in Call BY <1>o DEF TypeOK
<1> DEFINE f == [call[c] EXCEPT !.at = "failed"]
<1>f. f.at = "failed" /\ f.agent = call[c].agent /\ f.op = call[c].op BY <1>0, PlaceOnly
<1>1. CASE StartFails(c) \/ ObservationFails(c)
  <2>1. UNCHANGED <<registry, quiet, graphs, queue>> /\ call[c].at \in {"claimed", "failing"}
        /\ Completes(c, f)
    BY <1>1 DEF StartFails, ObservationFails, Fails
  <2>2. call[c].op # "release" BY <2>1, ReleasePlaces
  <2> HIDE DEF f
  <2> QED BY <1>f, <2>1, <2>2, CompletionStep
<1>2. CASE StartReturns(c)
  <2>1. UNCHANGED <<registry, quiet, graphs, queue>> /\ call[c].at = "observed"
        /\ Completes(c, Idle)
    BY <1>2 DEF StartReturns
  <2>2. Idle.at = "idle" /\ Idle.op # "release" BY DEF Idle
  <2> QED BY <2>1, <2>2, CompletionStep
<1>3. CASE Observes(c)
  <2>1. UNCHANGED <<registry, quiet, graphs>> /\ call[c].at = "published"
        /\ call' = [call EXCEPT ![c].at = "observing"] /\ Asks("observe", call[c].graph)
    BY <1>3 DEF Observes, Steps
  <2>2. call[c].graph \in Graphs /\ agentOf[call[c].graph] \in Agents
    BY <2>1 DEF LifecycleInv, StartsInv, CallsInv, Grown
  <2>3. \E o : \E g \in Graphs : agentOf[g] \in Agents /\ Asks(o, g) BY <2>1, <2>2
  <2> QED BY <2>1, <2>3, ObservationStep
<1>4. CASE ObservationGivesUp(c)
  <2>1. UNCHANGED <<registry, quiet, graphs>> /\ call[c].at = "observing"
        /\ call' = [call EXCEPT ![c].at = "failing"] /\ Leaves("observe", call[c].graph)
    BY <1>4 DEF ObservationGivesUp, Steps
  <2>2. \E o, g : Leaves(o, g) BY <2>1
  <2> QED BY <2>1, <2>2, ObservationStep
<1> QED BY <1>1, <1>2, <1>3, <1>4, StartsKeepInv, GraphStartsKeepsInv, PublishesKeepsInv,
       ClearsClaimKeepsInv, JudgesKeepsInv DEF Start

-----------------------------------------------------------------------------
(* The invariant and what follows from it.                                 *)

LEMMA InvStep == LifecycleInv /\ [Next]_vars => LifecycleInv'
<1> SUFFICES ASSUME LifecycleInv, [Next]_vars PROVE LifecycleInv'
    OBVIOUS
<1>t. TypeOK' BY TypeStep
<1>1. CASE Writer BY <1>t, <1>1, WriterStep
<1>2. ASSUME NEW g \in Graphs, Graph(g) PROVE LifecycleInv' BY <1>t, <1>2, GraphStep
<1>3. ASSUME NEW a \in Agents, Stop(a) PROVE LifecycleInv' BY <1>t, <1>3, StopKeepsInv
<1>4. ASSUME NEW c \in Callers, Calls(c) PROVE LifecycleInv' BY <1>t, <1>4, CallsKeepInv
<1>5. ASSUME NEW c \in Callers, Progress(c) PROVE LifecycleInv'
  BY <1>t, <1>5, StartKeepsInv, StopsKeepInv, ReleaseKeepsInv DEF Progress
<1>6. CASE UNCHANGED vars
  <2> USE <1>6 DEF vars, registry, callers, graphs, facts
  <2>1. CallsInv' /\ StartsInv' /\ ReleasesInv' BY ClaimsFrame
  <2>2. StopsInv' /\ WritesInv' /\ GraphsInv'
    BY DEF LifecycleInv, StopsInv, WritesInv, GraphsInv, Terminated
  <2> QED BY <1>t, <2>1, <2>2 DEF LifecycleInv
<1> QED BY <1>1, <1>2, <1>3, <1>4, <1>5, <1>6 DEF Next

\* The inductive invariant holds: what each thread in start-flow!, stop-graph!
\* and stop-owned-graphs! may rely on between two swaps of the registry.
THEOREM LifecycleInvHolds == Spec => []LifecycleInv
BY InitInv, InvStep, PTL DEF Spec

\* The registry, the calls, the graphs and the writer's queue keep their types.
THEOREM TypeCorrect == Spec => []TypeOK
<1>1. LifecycleInv => TypeOK BY DEF LifecycleInv
<1> QED BY <1>1, LifecycleInvHolds, PTL

\* However many threads start, stop and release the agents of a registry, no
\* agent ever runs in two graphs.
THEOREM OneGraphPerAgentHolds == Spec => []OneGraphPerAgent
<1>1. LifecycleInv => OneGraphPerAgent
  <2> SUFFICES ASSUME LifecycleInv, NEW g \in Graphs, NEW h \in Graphs,
                      procs[g] = "running", procs[h] = "running", agentOf[g] = agentOf[h]
               PROVE  g = h
    BY DEF OneGraphPerAgent
  <2> USE LifecycleAssumption
  <2> DEFINE Built(x, c) == call[c].at = "built" /\ call[c].graph = x
  <2>0. CallsInv /\ StartsInv /\ GraphsInv BY DEF LifecycleInv
  <2>1. PICK a \in Agents : a = agentOf[g] /\ a = agentOf[h] BY <2>0 DEF GraphsInv
  <2>2. /\ entry[a] = g \/ \E c \in Callers : Built(g, c)
        /\ entry[a] = h \/ \E c \in Callers : Built(h, c)
    BY <2>0, <2>1 DEF GraphsInv
  <2>3. \A c \in Callers : Built(g, c) \/ Built(h, c) => starting[a] = c /\ entry[a] = None
    <3> SUFFICES ASSUME NEW c \in Callers, Built(g, c) \/ Built(h, c)
                 PROVE  starting[a] = c /\ entry[a] = None
      OBVIOUS
    <3>1. call[c].at = "built" /\ call[c].agent = a
      BY <2>0, <2>1 DEF StartsInv, Grown
    <3>2. starting[a] = c BY <2>0, <3>1 DEF StartsInv, Owning
    <3> QED BY <2>0, <3>2 DEF StartsInv
  <2>4. CASE entry[a] = g /\ entry[a] = h BY <2>4
  <2>5. CASE \E c \in Callers : Built(g, c) \/ Built(h, c)
    <3>1. entry[a] = None BY <2>3, <2>5
    <3>2. PICK c \in Callers, d \in Callers : Built(g, c) /\ Built(h, d) BY <2>2, <3>1
    <3>3. c = d BY <2>3, <3>2
    <3> QED BY <3>2, <3>3
  <2> QED BY <2>2, <2>4, <2>5
<1> QED BY <1>1, LifecycleInvHolds, PTL

\* When a release returned normally, whatever starts and stops ran beside it,
\* no graph runs, none is registered, and this stays so.
THEOREM ReleaseIsQuiet == Spec => []ReleasedIsQuiet
<1>1. LifecycleInv => ReleasedIsQuiet
  <2> SUFFICES ASSUME LifecycleInv, quiet
               PROVE  /\ \A g \in Graphs : procs[g] # "running"
                      /\ \A a \in Agents : entry[a] = None
    BY DEF ReleasedIsQuiet
  <2>1. /\ \A w \in Callers : call[w].at # "built"
        /\ \A a \in Agents : entry[a] = None
    BY DEF LifecycleInv, ReleasesInv, Owning
  <2>2. ASSUME NEW g \in Graphs, procs[g] = "running" PROVE FALSE
    <3>1. agentOf[g] \in Agents /\ entry[agentOf[g]] = g
      BY <2>1, <2>2 DEF LifecycleInv, GraphsInv
    <3> QED BY <2>1, <3>1, LifecycleAssumption
  <2> QED BY <2>1, <2>2
<1> QED BY <1>1, LifecycleInvHolds, PTL

-----------------------------------------------------------------------------
(***************************************************************************)
(* What TLAPS proves of the open turns of AgentLifecycle, for any agents,  *)
(* callers, graphs, faults and bounds: an open turn that a turn thread was *)
(* told of belongs to an agent with a registered graph, or to one whose    *)
(* graph is about to be published.  The argument: a turn is told to a      *)
(* running graph only, and a stop that is past the join of its graph has   *)
(* the end of the turn committed before it drops the entry.                *)
(***************************************************************************)

\* A turn thread that is not parked keeps its procs from exiting.
TurnThreads == \A g \in Graphs : thread[g] # "parked" => procs[g] = "running"

\* A write somebody waits for is the one its thread stands at; the end of a
\* turn may also be waited for by the stop of an exited graph.  A running
\* graph's thread waits for one write.
AwaitedWrites ==
    /\ \A i \in 1..Len(queue) : queue[i].awaited =>
          /\ queue[i].op = "open" => thread[queue[i].of] = "opening"
          /\ queue[i].op = "end" => \/ thread[queue[i].of] = "ending"
                                    \/ procs[queue[i].of] = "exited"
    /\ \A i, j \in 1..Len(queue) :
          /\ queue[i].awaited /\ queue[j].awaited
          /\ queue[i].op \in {"open", "end"} /\ queue[i].op = queue[j].op
          /\ queue[i].of = queue[j].of /\ procs[queue[i].of] = "running"
          => i = j

\* The stop has the end of the turn behind it.
PastRecord == {"recorded", "retracting", "retracted"}

Registered(a) == entry[a] # None \/ (starting[a] # None /\ call[starting[a]].at = "built")

ToldInv ==
    /\ told \subseteq open
    /\ \A a \in told : Registered(a) /\ stopping[a] \notin PastRecord

TurnsInv == TurnThreads /\ AwaitedWrites /\ ToldInv

-----------------------------------------------------------------------------
(* The writer's queue.                                                     *)

LEMMA QueueShape ==
    ASSUME TypeOK
    PROVE  /\ Len(queue) \in Nat /\ DOMAIN queue = 1..Len(queue)
           /\ \A i \in 1..Len(queue) :
                 /\ queue[i] \in Writes /\ queue[i].of \in Graphs
                 /\ queue[i].op \in {"open", "end", "observe", "retract"}
                 /\ queue[i].awaited \in BOOLEAN
<1>1. Len(queue) \in Nat /\ DOMAIN queue = 1..Len(queue)
      /\ \A i \in 1..Len(queue) : queue[i] \in Writes
  BY DEF TypeOK
<1> QED BY <1>1 DEF Writes

LEMMA LeavesShape ==
    ASSUME TypeOK, NEW o, NEW g, Leaves(o, g)
    PROVE  /\ Len(queue') = Len(queue)
           /\ \A i \in 1..Len(queue) :
                 /\ queue'[i].op = queue[i].op /\ queue'[i].of = queue[i].of
                 /\ queue'[i].awaited => queue[i].awaited /\ ~(queue[i].op = o /\ queue[i].of = g)
<1>1. Len(queue) \in Nat /\ DOMAIN queue = 1..Len(queue) BY QueueShape
<1>2. queue' \in Seq(Writes) BY LeavesType
<1>3. DOMAIN queue' = 1..Len(queue) BY <1>1 DEF Leaves
<1>4. Len(queue') = Len(queue) BY <1>1, <1>2, <1>3
<1>5. ASSUME NEW i \in 1..Len(queue)
      PROVE  /\ queue'[i].op = queue[i].op /\ queue'[i].of = queue[i].of
             /\ queue'[i].awaited => queue[i].awaited /\ ~(queue[i].op = o /\ queue[i].of = g)
  <2>1. queue[i] \in Writes BY QueueShape
  <2>2. CASE queue[i].op = o /\ queue[i].of = g
    <3>1. queue'[i] = [queue[i] EXCEPT !.awaited = FALSE] BY <1>1, <2>2 DEF Leaves
    <3> QED BY <2>1, <3>1 DEF Writes
  <2>3. CASE ~(queue[i].op = o /\ queue[i].of = g)
    <3>1. queue'[i] = queue[i] BY <1>1, <2>3 DEF Leaves
    <3> QED BY <2>3, <3>1
  <2> QED BY <2>2, <2>3
<1> QED BY <1>4, <1>5

LEMMA AsksShape ==
    ASSUME TypeOK, NEW o, NEW g, Asks(o, g)
    PROVE  /\ Len(queue) \in Nat /\ Len(queue') = Len(queue) + 1
           /\ \A i \in 1..Len(queue) : queue'[i] = queue[i]
           /\ queue'[Len(queue) + 1].op = o /\ queue'[Len(queue) + 1].of = g
           /\ queue'[Len(queue) + 1].awaited
           /\ \A i \in 1..Len(queue') : i \in 1..Len(queue) \/ i = Len(queue) + 1
<1> DEFINE w == [op |-> o, of |-> g, awaited |-> TRUE]
<1>1. w.op = o /\ w.of = g /\ w.awaited OBVIOUS
<1> HIDE DEF w
<1>2. queue' = Append(queue, w) BY DEF Asks, w
<1>3. /\ Len(queue) \in Nat /\ Len(queue') = Len(queue) + 1
      /\ \A i \in 1..Len(queue) : queue'[i] = queue[i]
      /\ queue'[Len(queue) + 1] = w
  BY <1>2 DEF TypeOK
<1> QED BY <1>1, <1>3

\* Somebody stops waiting: a turn thread parks by it, others stand elsewhere.
LEMMA LeavesKeepsAwaited ==
    ASSUME TypeOK, AwaitedWrites, NEW o, NEW g, Leaves(o, g), procs' = procs,
           \A h \in Graphs : \/ thread'[h] = thread[h]
                             \/ h = g /\ o = "open" /\ thread[h] = "opening"
                             \/ h = g /\ o = "end" /\ thread[h] = "ending"
    PROVE  AwaitedWrites'
<1>1. /\ Len(queue') = Len(queue)
      /\ \A i \in 1..Len(queue) :
            /\ queue'[i].op = queue[i].op /\ queue'[i].of = queue[i].of
            /\ queue'[i].awaited => queue[i].awaited /\ ~(queue[i].op = o /\ queue[i].of = g)
  BY LeavesShape
<1>2. ASSUME NEW i \in 1..Len(queue'), queue'[i].awaited
      PROVE  /\ queue'[i].op = "open" => thread'[queue'[i].of] = "opening"
             /\ queue'[i].op = "end" => \/ thread'[queue'[i].of] = "ending"
                                        \/ procs'[queue'[i].of] = "exited"
  BY <1>1, <1>2, QueueShape DEF AwaitedWrites
<1>3. ASSUME NEW i \in 1..Len(queue'), NEW j \in 1..Len(queue'),
             queue'[i].awaited /\ queue'[j].awaited,
             queue'[i].op \in {"open", "end"} /\ queue'[i].op = queue'[j].op,
             queue'[i].of = queue'[j].of /\ procs'[queue'[i].of] = "running"
      PROVE  i = j
  BY <1>1, <1>3 DEF AwaitedWrites
<1> QED BY <1>2, <1>3 DEF AwaitedWrites

\* A thread that stands at no write moves, its graph exits, or nobody moves.
LEMMA MovesKeepAwaited ==
    ASSUME TypeOK, AwaitedWrites, queue' = queue,
           \A g \in Graphs :
               /\ \/ thread'[g] = thread[g]
                  \/ thread[g] \notin {"opening", "ending"} /\ procs[g] = "running"
               /\ procs'[g] = procs[g] \/ procs'[g] = "exited"
    PROVE  AwaitedWrites'
<1>1. ASSUME NEW i \in 1..Len(queue), queue[i].awaited
      PROVE  /\ queue[i].op = "open" => thread'[queue[i].of] = "opening"
             /\ queue[i].op = "end" => \/ thread'[queue[i].of] = "ending"
                                       \/ procs'[queue[i].of] = "exited"
  BY <1>1, QueueShape DEF AwaitedWrites
<1>2. ASSUME NEW i \in 1..Len(queue), NEW j \in 1..Len(queue),
             queue[i].awaited /\ queue[j].awaited,
             queue[i].op \in {"open", "end"} /\ queue[i].op = queue[j].op,
             queue[i].of = queue[j].of /\ procs'[queue[i].of] = "running"
      PROVE  i = j
  <2>1. procs[queue[i].of] = "running" BY <1>2, QueueShape
  <2> QED BY <1>2, <2>1 DEF AwaitedWrites
<1> QED BY <1>1, <1>2 DEF AwaitedWrites

\* Somebody asks for a write and waits for it.
LEMMA AsksKeepsAwaited ==
    ASSUME TypeOK, AwaitedWrites, NEW o, NEW g \in Graphs, Asks(o, g), procs' = procs,
           \A h \in Graphs \ {g} : thread'[h] = thread[h],
           \/ o \in {"observe", "retract"} /\ thread'[g] = thread[g]
           \/ o = "open" /\ procs[g] = "running" /\ thread[g] = "parked" /\ thread'[g] = "opening"
           \/ o = "end" /\ procs[g] = "running" /\ thread[g] = "turn" /\ thread'[g] = "ending"
           \/ o = "end" /\ procs[g] = "exited" /\ thread'[g] = thread[g]
    PROVE  AwaitedWrites'
<1> DEFINE n == Len(queue) + 1
<1>1. /\ Len(queue) \in Nat /\ Len(queue') = n
      /\ \A i \in 1..Len(queue) : queue'[i] = queue[i]
      /\ queue'[n].op = o /\ queue'[n].of = g /\ queue'[n].awaited
      /\ \A i \in 1..Len(queue') : i \in 1..Len(queue) \/ i = n
  BY AsksShape
<1> HIDE DEF n
<1>2. ASSUME NEW i \in 1..Len(queue'), queue'[i].awaited
      PROVE  /\ queue'[i].op = "open" => thread'[queue'[i].of] = "opening"
             /\ queue'[i].op = "end" => \/ thread'[queue'[i].of] = "ending"
                                        \/ procs'[queue'[i].of] = "exited"
  <2>1. CASE i = n BY <1>1, <2>1
  <2>2. CASE i \in 1..Len(queue)
    <3>1. /\ queue[i].op = "open" => thread[queue[i].of] = "opening"
          /\ queue[i].op = "end" => thread[queue[i].of] = "ending" \/ procs[queue[i].of] = "exited"
          /\ queue'[i] = queue[i] /\ queue[i].of \in Graphs
      BY <1>1, <1>2, <2>2, QueueShape DEF AwaitedWrites
    <3>2. CASE queue[i].of = g BY <3>1, <3>2
    <3>3. CASE queue[i].of # g BY <3>1, <3>3
    <3> QED BY <3>2, <3>3
  <2> QED BY <1>1, <2>1, <2>2
<1>3. ASSUME o \in {"open", "end"}, procs[g] = "running", NEW i \in 1..Len(queue),
             queue[i].awaited, queue[i].op = o, queue[i].of = g
      PROVE  FALSE
  BY <1>3 DEF AwaitedWrites
<1>4. ASSUME NEW i \in 1..Len(queue'), NEW j \in 1..Len(queue'),
             queue'[i].awaited /\ queue'[j].awaited,
             queue'[i].op \in {"open", "end"} /\ queue'[i].op = queue'[j].op,
             queue'[i].of = queue'[j].of /\ procs'[queue'[i].of] = "running"
      PROVE  i = j
  <2>1. CASE i \in 1..Len(queue) /\ j \in 1..Len(queue)
    BY <1>1, <1>4, <2>1 DEF AwaitedWrites
  <2>2. CASE i = n /\ j \in 1..Len(queue) BY <1>1, <1>3, <1>4, <2>2
  <2>3. CASE i \in 1..Len(queue) /\ j = n BY <1>1, <1>3, <1>4, <2>3
  <2> QED BY <1>1, <2>1, <2>2, <2>3
<1> QED BY <1>2, <1>4 DEF AwaitedWrites

\* The writer takes a write, and whoever waited for it moves on.
LEMMA AnswersKeepAwaited ==
    ASSUME LifecycleInv, TurnThreads, AwaitedWrites, NEW ok \in BOOLEAN, Answers(ok)
    PROVE  TurnThreads' /\ AwaitedWrites'
<1> DEFINE w == Head(queue)
<1>o. TypeOK BY DEF LifecycleInv
<1>1. queue # <<>> /\ queue' = Tail(queue) /\ procs' = procs BY DEF Answers
<1>2. /\ Len(queue) \in Nat /\ Len(queue') = Len(queue) - 1 /\ 1 \in 1..Len(queue) /\ w = queue[1]
      /\ \A i \in 1..Len(queue') : i + 1 \in 1..Len(queue) /\ queue'[i] = queue[i + 1]
  BY <1>o, <1>1 DEF TypeOK
<1>3. w \in Writes BY <1>o, <1>1, HeadType
<1>4. \A h \in Graphs : \/ thread'[h] = thread[h]
                        \/ /\ h = w.of /\ w.awaited /\ w.op \in {"open", "end"}
                           /\ thread'[h] = "parked"
  BY <1>o, <1>3 DEF Answers, ThreadHears, TypeOK, Writes
<1>5. TurnThreads' BY <1>1, <1>4 DEF TurnThreads
<1>6. ASSUME NEW i \in 1..Len(queue'), queue'[i].awaited
      PROVE  /\ queue'[i].op = "open" => thread'[queue'[i].of] = "opening"
             /\ queue'[i].op = "end" => \/ thread'[queue'[i].of] = "ending"
                                        \/ procs'[queue'[i].of] = "exited"
  <2> DEFINE v == queue[i + 1]
  <2>1. /\ i + 1 \in 1..Len(queue) /\ queue'[i] = v /\ v.of \in Graphs /\ i + 1 # 1
    BY <1>o, <1>2, QueueShape
  <2>2. /\ v.op = "open" => thread[v.of] = "opening"
        /\ v.op = "end" => thread[v.of] = "ending" \/ procs[v.of] = "exited"
    BY <1>6, <2>1 DEF AwaitedWrites
  <2>3. CASE v.of = w.of /\ w.awaited /\ w.op \in {"open", "end"} /\ v.op \in {"open", "end"}
    <3>1. /\ w.op = "open" => thread[w.of] = "opening"
          /\ w.op = "end" => thread[w.of] = "ending" \/ procs[w.of] = "exited"
      BY <1>2, <2>3 DEF AwaitedWrites
    <3>2. procs[v.of] # "running"
      <4>1. SUFFICES ASSUME procs[v.of] = "running" PROVE FALSE OBVIOUS
      <4>2. w.op = v.op BY <2>2, <2>3, <3>1, <4>1
      <4>3. i + 1 = 1 BY <1>2, <1>6, <2>1, <2>3, <4>1, <4>2 DEF AwaitedWrites
      <4> QED BY <2>1, <4>3
    <3>3. thread[v.of] = "parked" BY <2>1, <3>2 DEF TurnThreads
    <3> QED BY <1>1, <2>1, <2>2, <3>3
  <2>4. CASE v.op \in {"open", "end"}
             /\ ~(v.of = w.of /\ w.awaited /\ w.op \in {"open", "end"})
    BY <1>1, <1>4, <2>1, <2>2, <2>4
  <2> QED BY <2>1, <2>3, <2>4
<1>7. ASSUME NEW i \in 1..Len(queue'), NEW j \in 1..Len(queue'),
             queue'[i].awaited /\ queue'[j].awaited,
             queue'[i].op \in {"open", "end"} /\ queue'[i].op = queue'[j].op,
             queue'[i].of = queue'[j].of /\ procs'[queue'[i].of] = "running"
      PROVE  i = j
  <2>1. i + 1 = j + 1 BY <1>1, <1>2, <1>7 DEF AwaitedWrites
  <2> QED BY <1>2, <2>1
<1> QED BY <1>5, <1>6, <1>7 DEF AwaitedWrites

-----------------------------------------------------------------------------
(* Who is told of a turn.                                                  *)

LEMMA RunningIsRegistered ==
    ASSUME LifecycleInv, NEW g \in Graphs, procs[g] = "running"
    PROVE  /\ agentOf[g] \in Agents /\ Registered(agentOf[g])
           /\ stopping[agentOf[g]] \notin PastRecord
<1> USE LifecycleAssumption
<1>0. TypeOK /\ StartsInv /\ StopsInv /\ GraphsInv BY DEF LifecycleInv
<1>1. PICK a \in Agents : a = agentOf[g] BY <1>0 DEF GraphsInv
<1>2. CASE entry[a] = g
  <2>1. ~Terminated(entry[a]) BY <1>2 DEF Terminated
  <2> QED BY <1>0, <1>1, <1>2, <2>1 DEF StopsInv, Registered, PastRecord
<1>3. ASSUME NEW c \in Callers, call[c].at = "built", call[c].graph = g
      PROVE  Registered(a) /\ stopping[a] = "none"
  <2>1. call[c].agent = a BY <1>0, <1>1, <1>3 DEF StartsInv, Grown
  <2>2. starting[a] = c /\ c # None BY <1>0, <1>3, <2>1 DEF StartsInv, Owning
  <2> QED BY <1>0, <1>3, <2>2 DEF StartsInv, Registered
<1> QED BY <1>0, <1>1, <1>2, <1>3 DEF GraphsInv, PastRecord

\* The steps of the writer.
LEMMA WriterKeepsTurns ==
    ASSUME LifecycleInv, TurnsInv, Writer
    PROVE  TurnsInv'
<1> USE LifecycleAssumption
<1> DEFINE w == Head(queue)
<1>o. TypeOK /\ GraphsInv BY DEF LifecycleInv
<1>1. PICK ok \in BOOLEAN : Answers(ok) /\ (Commits => ok = TRUE) /\ (~Commits => ok = FALSE /\ UNCHANGED facts)
  BY DEF Writer, Commits, Refuses
<1>2. queue # <<>> /\ UNCHANGED <<entry, starting, agentOf>> BY <1>1 DEF Answers
<1>3. w \in Writes /\ w.of \in Graphs BY <1>o, <1>2, HeadType DEF Writes
<1>4. \A c \in Callers : call[c].at = "built" => call'[c] = call[c]
  BY <1>o, <1>1 DEF Answers, StarterHears, TypeOK
<1>5. \A a \in Agents : Registered(a) => Registered(a)'
  BY <1>o, <1>2, <1>4 DEF Registered, TypeOK
<1>6. \A a \in Agents : stopping'[a] \in PastRecord =>
         \/ stopping[a] \in PastRecord
         \/ ok /\ w.op = "end" /\ entry[a] = w.of
  BY <1>o, <1>1 DEF Answers, StopHears, TypeOK, PastRecord
<1>7. TurnThreads' /\ AwaitedWrites' BY <1>1, AnswersKeepAwaited DEF TurnsInv
<1>8. CASE Commits
  <2> DEFINE b == agentOf[w.of]
  <2>1. /\ open' = CASE w.op = "open" -> open \cup {b}
                     [] w.op = "end"  -> open \ {b}
                     [] OTHER         -> open
        /\ told' = CASE w.op = "open" /\ w.awaited -> told \cup {b}
                     [] w.op = "end"               -> told \ {b}
                     [] OTHER                      -> told
    BY <1>8 DEF Commits
  <2>2. told' \subseteq open' BY <2>1 DEF TurnsInv, ToldInv
  <2>3. ASSUME NEW a \in told' PROVE Registered(a)' /\ stopping'[a] \notin PastRecord
    <3>1. a \in told \/ (w.op = "open" /\ w.awaited /\ a = b) BY <2>1
    <3>2. ~(w.op = "end" /\ a = b) BY <2>1
    <3>3. a \in Agents /\ Registered(a) /\ stopping[a] \notin PastRecord
      <4>1. CASE a \in told BY <1>o, <4>1 DEF TurnsInv, ToldInv, TypeOK
      <4>2. CASE w.op = "open" /\ w.awaited /\ a = b
        <5>1. 1 \in 1..Len(queue) /\ w = queue[1] BY <1>o, <1>2 DEF TypeOK
        <5>2. thread[w.of] = "opening" BY <4>2, <5>1 DEF TurnsInv, AwaitedWrites
        <5>3. procs[w.of] = "running" BY <1>3, <5>2 DEF TurnsInv, TurnThreads
        <5> QED BY <1>3, <4>2, <5>3, RunningIsRegistered
      <4> QED BY <3>1, <4>1, <4>2
    <3>4. ~(w.op = "end" /\ entry[a] = w.of)
      <4>1. entry[a] = w.of => b = a BY <1>o, <1>3, <3>3 DEF GraphsInv
      <4> QED BY <3>2, <4>1
    <3> QED BY <1>5, <1>6, <3>3, <3>4
  <2> QED BY <1>7, <2>2, <2>3 DEF TurnsInv, ToldInv
<1>9. CASE ~Commits
  <2>1. told' = told /\ open' = open /\ ~ok BY <1>1, <1>9 DEF facts
  <2> QED BY <1>o, <1>5, <1>6, <1>7, <2>1 DEF TurnsInv, ToldInv, TypeOK
<1> QED BY <1>8, <1>9

\* The registry stays for those who were told, and nobody is told.
LEMMA RegistryKeepsTold ==
    ASSUME TypeOK, ToldInv, told' = told, open' = open,
           \A a \in told : /\ Registered(a) => Registered(a)'
                           /\ stopping'[a] \in PastRecord => stopping[a] \in PastRecord
    PROVE  ToldInv'
BY DEF ToldInv

\* The steps of a graph.
LEMMA GraphKeepsTurns ==
    ASSUME LifecycleInv, TurnsInv, NEW g \in Graphs, Graph(g)
    PROVE  TurnsInv'
<1> USE LifecycleAssumption DEF TurnsInv
<1>o. TypeOK BY DEF LifecycleInv
<1>1. UNCHANGED <<registry, call, open>>
  BY DEF Graph, TurnOpens, TurnResumes, TurnEnds, PassGivesUp, TurnIsInterrupted, GraphPanics,
         ProcsExit, callers, facts
<1>2. ASSUME told' = told PROVE ToldInv'
  BY <1>1, <1>2 DEF ToldInv, Registered, registry
<1>3. CASE TurnOpens(g)
  <2>1. /\ procs' = procs /\ told' = told /\ Asks("open", g) /\ procs[g] = "running"
        /\ thread[g] = "parked" /\ thread' = [thread EXCEPT ![g] = "opening"]
    BY <1>3 DEF TurnOpens, PassBegins, Parked, facts
  <2>2. TurnThreads' BY <1>o, <2>1 DEF TurnThreads, TypeOK
  <2>3. AwaitedWrites' BY <1>o, <2>1, AsksKeepsAwaited DEF TypeOK
  <2> QED BY <1>2, <2>1, <2>2, <2>3
<1>4. CASE TurnResumes(g)
  <2>1. /\ procs' = procs /\ queue' = queue /\ told' = told \cup {agentOf[g]} /\ agentOf[g] \in open
        /\ procs[g] = "running" /\ thread[g] = "parked" /\ thread' = [thread EXCEPT ![g] = "turn"]
    BY <1>4 DEF TurnResumes, PassBegins, Parked
  <2>2. TurnThreads' BY <1>o, <2>1 DEF TurnThreads, TypeOK
  <2>3. AwaitedWrites' BY <1>o, <2>1, MovesKeepAwaited DEF TypeOK
  <2>4. ToldInv'
    BY <1>1, <2>1, RunningIsRegistered DEF ToldInv, Registered, registry
  <2> QED BY <2>2, <2>3, <2>4
<1>5. CASE TurnEnds(g)
  <2>1. /\ procs' = procs /\ told' = told /\ Asks("end", g)
        /\ thread[g] = "turn" /\ thread' = [thread EXCEPT ![g] = "ending"]
    BY <1>5 DEF TurnEnds, facts
  <2>2. procs[g] = "running" BY <2>1 DEF TurnThreads
  <2>3. TurnThreads' BY <1>o, <2>1, <2>2 DEF TurnThreads, TypeOK
  <2>4. AwaitedWrites' BY <1>o, <2>1, <2>2, AsksKeepsAwaited DEF TypeOK
  <2> QED BY <1>2, <2>1, <2>3, <2>4
<1>6. CASE PassGivesUp(g)
  <2>1. /\ procs' = procs /\ told' = told /\ thread' = [thread EXCEPT ![g] = "parked"]
        /\ \/ thread[g] = "opening" /\ Leaves("open", g)
           \/ thread[g] = "ending" /\ Leaves("end", g)
    BY <1>6 DEF PassGivesUp, Parks, facts
  <2>2. TurnThreads' BY <1>o, <2>1 DEF TurnThreads, TypeOK
  <2>3. AwaitedWrites' BY <1>o, <2>1, LeavesKeepsAwaited DEF TypeOK
  <2> QED BY <1>2, <2>1, <2>2, <2>3
<1>7. CASE TurnIsInterrupted(g) \/ GraphPanics(g) \/ ProcsExit(g)
  <2>1. /\ queue' = queue /\ told' = told
        /\ \/ /\ procs' = procs /\ thread[g] = "turn"
              /\ thread' = [thread EXCEPT ![g] = "parked"]
           \/ procs' = procs /\ thread' = thread
           \/ /\ thread' = thread /\ thread[g] = "parked" /\ procs' = [procs EXCEPT ![g] = "exited"]
    BY <1>7 DEF TurnIsInterrupted, GraphPanics, ProcsExit, Parks, Parked, facts
  <2>2. TurnThreads' BY <1>o, <2>1 DEF TurnThreads, TypeOK
  <2>3. thread[g] = "turn" => procs[g] = "running" BY DEF TurnThreads
  <2>4. AwaitedWrites' BY <1>o, <2>1, <2>3, MovesKeepAwaited DEF TypeOK
  <2> QED BY <1>2, <2>1, <2>2, <2>4
<1> QED BY <1>3, <1>4, <1>5, <1>6, <1>7 DEF Graph

\* The steps of a stop.
LEMMA StopKeepsTurns ==
    ASSUME LifecycleInv, TurnsInv, NEW a \in Agents, Stop(a)
    PROVE  TurnsInv'
<1> USE LifecycleAssumption DEF TurnsInv
<1>o. TypeOK /\ StopsInv BY DEF LifecycleInv
<1>1. UNCHANGED <<starting, open, told, procs, thread>>
  BY DEF Stop, StopAsks, StopShutsDown, JoinIsMissed, StopJoins, Records, StopRetracts, StopGivesUp,
         StopFails, StopDrops, StopReturns, StopStep, StopDelivers, callers, facts, graphs
<1>2. TurnThreads' BY <1>1 DEF TurnThreads
<1>3. \A c \in Callers : call[c].at = "built" => call'[c] = call[c]
  BY <1>o DEF Stop, StopAsks, StopShutsDown, JoinIsMissed, StopJoins, Records, StopRetracts,
         StopGivesUp, StopFails, StopDrops, StopReturns, StopStep, StopDelivers, callers, TypeOK
<1>4. AwaitedWrites'
  <2>1. stopping[a] \notin {"none", "dropped"} => entry[a] \in Graphs BY <1>o DEF StopsInv, TypeOK
  <2>2. CASE queue' = queue BY <1>o, <1>1, <2>2, MovesKeepAwaited
  <2>3. CASE StopJoins(a) /\ queue' # queue
    <3>1. Asks("end", entry[a]) /\ stopping[a] = "joining" /\ procs[entry[a]] = "exited"
      BY <2>3 DEF StopJoins, Records, Terminated
    <3> QED BY <1>o, <1>1, <2>1, <3>1, AsksKeepsAwaited
  <2>4. CASE StopRetracts(a)
    <3>1. Asks("retract", entry[a]) /\ stopping[a] = "recorded"
      BY <2>4 DEF StopRetracts, StopStep
    <3> QED BY <1>o, <1>1, <2>1, <3>1, AsksKeepsAwaited
  <2>5. CASE StopGivesUp(a)
    <3>1. Leaves("end", entry[a]) \/ Leaves("retract", entry[a]) BY <2>5 DEF StopGivesUp
    <3> QED BY <1>o, <1>1, <3>1, LeavesKeepsAwaited
  <2>6. \/ queue' = queue \/ StopJoins(a) \/ StopRetracts(a) \/ StopGivesUp(a)
    BY DEF Stop, StopAsks, StopShutsDown, JoinIsMissed, StopFails, StopDrops, StopReturns,
           StopDelivers
  <2> QED BY <2>2, <2>3, <2>4, <2>5, <2>6
<1>5. ToldInv'
  <2>1. ASSUME NEW b \in told PROVE stopping'[b] \in PastRecord => stopping[b] \in PastRecord
    <3>1. b \in Agents /\ b \in open BY <1>o DEF ToldInv, TypeOK
    <3> QED BY <1>o, <3>1 DEF Stop, StopAsks, StopShutsDown, JoinIsMissed, StopJoins, Records,
          StopRetracts, StopGivesUp, StopFails, StopDrops, StopReturns, StopStep, StopDelivers,
          PastRecord, TypeOK
  <2>2. ASSUME NEW b \in told PROVE entry'[b] = entry[b]
    <3>1. CASE StopDrops(a)
      <4>1. b # a BY <3>1 DEF StopDrops, StopStep, ToldInv, PastRecord
      <4> QED BY <1>o, <3>1, <4>1 DEF StopDrops, ToldInv, TypeOK
    <3>2. CASE ~StopDrops(a)
      BY <3>2 DEF Stop, StopAsks, StopShutsDown, JoinIsMissed, StopJoins, Records, StopRetracts,
                  StopGivesUp, StopFails, StopReturns, StopDelivers
    <3> QED BY <3>1, <3>2
  <2>3. ASSUME NEW b \in told PROVE Registered(b) => Registered(b)'
    BY <1>o, <1>1, <1>3, <2>2 DEF Registered, TypeOK, ToldInv
  <2> QED BY <1>o, <1>1, <2>1, <2>3, RegistryKeepsTold
<1> QED BY <1>2, <1>4, <1>5

-----------------------------------------------------------------------------
(* The steps of callers.                                                   *)

\* An owner stays where its graph is built, until it publishes it.
LEMMA BuiltStays ==
    ASSUME LifecycleInv, NEW c \in Callers, Calls(c) \/ Progress(c),
           NEW w \in Callers, call[w].at = "built"
    PROVE  call'[w].at = "built" \/ (w = c /\ Publishes(c))
<1> USE DEF At
<1>o. TypeOK BY DEF LifecycleInv
<1>0. call[w] \in Call BY <1>o DEF TypeOK
<1>1. CASE w = c
  BY <1>1 DEF Calls, Progress, CallsStart, CallsStop, ReleaseMarks, Marks, Start, Starts, StartFails,
              GraphStarts, Observes, ObservationGivesUp, ObservationFails, StartReturns, ClearsClaim,
              Judges, Stops, Release, ReleaseSettles, ReleaseStops, ReleaseReturns
<1>2. CASE w # c
  <2>1. ASSUME NEW next, Completes(c, next) PROVE call'[w].at = "built"
    <3>1. call'[w] = [call[w] EXCEPT !.pending = call[w].pending \ {c}]
      BY <1>2, <2>1 DEF Completes, AfterClaim
    <3> QED BY <1>0, <3>1 DEF Call
  <2>2. CASE StartFails(c) \/ ObservationFails(c) \/ StartReturns(c)
    BY <2>1, <2>2 DEF StartFails, ObservationFails, StartReturns, Fails
  <2>3. CASE ~(StartFails(c) \/ ObservationFails(c) \/ StartReturns(c))
    <3>1. call'[w] = call[w]
      BY <1>o, <1>2, <2>3 DEF Calls, Progress, CallsStart, CallsStop, ReleaseMarks, Marks, Start,
              Starts, StartIsRefused, StartJoins, StartReads, StartClaims, GraphStarts, Publishes,
              Observes, ObservationGivesUp, ClearsClaim, Judges, Stops, StopAwaitsClaim,
              StopFindsNothing, StopClaims, Release, ReleaseSettles, ReleaseStops, ReleaseReturns,
              Steps, Returns, TypeOK
    <3> QED BY <3>1
  <2> QED BY <2>2, <2>3
<1> QED BY <1>1, <1>2

\* A claim with a built graph is kept, or gives way to the entry.
LEMMA ClaimsKept ==
    ASSUME LifecycleInv, NEW c \in Callers, Calls(c) \/ Progress(c),
           NEW a \in Agents, Registered(a)
    PROVE  Registered(a)'
<1> USE LifecycleAssumption DEF At
<1>o. TypeOK /\ StartsInv /\ CallsInv BY DEF LifecycleInv
<1>1. CASE Publishes(c)
  <2>1. PICK b \in Agents : b = call[c].agent BY <1>o, <1>1 DEF Publishes, CallsInv
  <2>2. call[c].graph \in Graphs BY <1>o, <1>1 DEF Publishes, StartsInv, Grown
  <2>3. /\ entry'[b] # None
        /\ \A d \in Agents \ {b} : entry'[d] = entry[d] /\ starting'[d] = starting[d]
    BY <1>o, <1>1, <2>1, <2>2 DEF Publishes, TypeOK
  <2>4. starting[b] = c BY <1>o, <1>1, <2>1 DEF Publishes, StartsInv, Owning
  <2>5. CASE a = b BY <2>3, <2>5 DEF Registered
  <2>6. CASE a # b /\ entry[a] # None BY <2>3, <2>6 DEF Registered
  <2>7. CASE a # b /\ entry[a] = None
    <3>1. starting[a] \in Callers /\ call[starting[a]].at = "built" /\ call[starting[a]].agent = a
      BY <1>o, <2>7 DEF Registered, StartsInv, TypeOK
    <3>2. starting[a] # c BY <2>1, <2>7, <3>1
    <3>3. call'[starting[a]].at = "built" BY <3>1, <3>2, BuiltStays
    <3> QED BY <2>3, <2>7, <3>1, <3>3 DEF Registered
  <2> QED BY <2>5, <2>6, <2>7
<1>2. CASE ~Publishes(c)
  <2>1. entry' = entry
    BY <1>2 DEF Calls, Progress, CallsStart, CallsStop, ReleaseMarks, Marks, Start, Starts, StartFails,
              GraphStarts, Observes, ObservationGivesUp, ObservationFails, StartReturns, ClearsClaim,
              Judges, Stops, Release, ReleaseSettles, ReleaseStops, ReleaseReturns, registry
  <2>2. CASE entry[a] # None BY <2>1, <2>2 DEF Registered
  <2>3. CASE entry[a] = None
    <3>1. starting[a] \in Callers /\ call[starting[a]].at = "built"
      BY <1>o, <2>3 DEF Registered, TypeOK
    <3>2. call'[starting[a]].at = "built" BY <1>2, <3>1, BuiltStays
    <3>3. starting'[a] = starting[a]
      <4>1. CASE Starts(c)
        BY <1>o, <3>1, <4>1 DEF Starts, StartIsRefused, StartJoins, StartReads, StartClaims, TypeOK
      <4>2. CASE ClearsClaim(c)
        <5>1. PICK b \in Agents : b = call[c].agent BY <1>o, <4>2 DEF ClearsClaim, CallsInv
        <5>2. starting' = [starting EXCEPT ![b] = IF starting[b] = c THEN None ELSE starting[b]]
              /\ call[c].at = "failed"
          BY <4>2, <5>1 DEF ClearsClaim
        <5> QED BY <1>o, <3>1, <5>2 DEF TypeOK
      <4>3. CASE ~Starts(c) /\ ~ClearsClaim(c)
        BY <1>2, <4>3 DEF Calls, Progress, CallsStart, CallsStop, ReleaseMarks, Marks, Start,
              StartFails, GraphStarts, Observes, ObservationGivesUp, ObservationFails, StartReturns,
              Judges, Stops, Release, ReleaseSettles, ReleaseStops, ReleaseReturns, registry
      <4> QED BY <4>1, <4>2, <4>3
    <3> QED BY <3>1, <3>2, <3>3 DEF Registered
  <2> QED BY <2>2, <2>3
<1> QED BY <1>1, <1>2

LEMMA CallersKeepTurns ==
    ASSUME LifecycleInv, TurnsInv, NEW c \in Callers, Calls(c) \/ Progress(c)
    PROVE  TurnsInv'
<1> USE LifecycleAssumption DEF TurnsInv, At
<1>o. TypeOK /\ StartsInv /\ WritesInv BY DEF LifecycleInv
<1>1. UNCHANGED <<facts, thread>>
  BY DEF Calls, Progress, CallsStart, CallsStop, ReleaseMarks, Marks, Start, Starts, StartFails,
         GraphStarts, Publishes, Observes, ObservationGivesUp, ObservationFails, StartReturns,
         ClearsClaim, Judges, Stops, Release, ReleaseSettles, ReleaseStops, ReleaseReturns, graphs
<1>2. \A a \in Agents : stopping'[a] = stopping[a] \/ stopping'[a] = "claimed"
  BY <1>o DEF Calls, Progress, CallsStart, CallsStop, ReleaseMarks, Marks, Start, Starts, StartFails,
         GraphStarts, Publishes, Observes, ObservationGivesUp, ObservationFails, StartReturns,
         ClearsClaim, Judges, Stops, StopAwaitsClaim, StopFindsNothing, StopClaims, Release,
         ReleaseSettles, ReleaseStops, ReleaseReturns, registry, TypeOK
<1>3. ToldInv'
  <2>1. told \subseteq Agents BY <1>o DEF TypeOK
  <2> QED BY <1>o, <1>1, <1>2, <2>1, ClaimsKept, RegistryKeepsTold DEF facts, PastRecord
<1>4. CASE GraphStarts(c)
  <2>1. PICK g \in Graphs : agentOf[g] = None /\ procs' = [procs EXCEPT ![g] = "running"]
    BY <1>4 DEF GraphStarts
  <2>2. queue' = queue BY <1>4 DEF GraphStarts
  <2>3. \A i \in 1..Len(queue) : queue[i].of \in Graphs /\ queue[i].of # g
    BY <1>o, <2>1, QueueShape DEF WritesInv
  <2>4. \A h \in Graphs \ {g} : procs'[h] = procs[h] BY <1>o, <2>1 DEF TypeOK
  <2>5. TurnThreads' BY <1>o, <1>1, <2>1 DEF TurnThreads, TypeOK
  <2>6. AwaitedWrites' BY <1>1, <2>2, <2>3, <2>4 DEF AwaitedWrites
  <2> QED BY <1>3, <2>5, <2>6
<1>5. CASE ~GraphStarts(c)
  <2>1. procs' = procs
    BY <1>5 DEF Calls, Progress, CallsStart, CallsStop, ReleaseMarks, Marks, Start, Starts, StartFails,
         Publishes, Observes, ObservationGivesUp, ObservationFails, StartReturns, ClearsClaim,
         Judges, Stops, Release, ReleaseSettles, ReleaseStops, ReleaseReturns, graphs
  <2>2. TurnThreads' BY <1>1, <2>1 DEF TurnThreads
  <2>3. AwaitedWrites'
    <3>1. CASE queue' = queue BY <1>o, <1>1, <2>1, <3>1, MovesKeepAwaited
    <3>2. CASE Observes(c)
      <4>1. call[c].graph \in Graphs /\ Asks("observe", call[c].graph)
        BY <1>o, <3>2 DEF Observes, StartsInv, Grown
      <4> QED BY <1>o, <1>1, <2>1, <4>1, AsksKeepsAwaited
    <3>3. CASE ObservationGivesUp(c)
      <4>1. Leaves("observe", call[c].graph) BY <3>3 DEF ObservationGivesUp
      <4> QED BY <1>o, <1>1, <2>1, <4>1, LeavesKeepsAwaited
    <3>4. queue' = queue \/ Observes(c) \/ ObservationGivesUp(c)
      BY <1>5 DEF Calls, Progress, CallsStart, CallsStop, ReleaseMarks, Marks, Start, Starts,
         StartFails, Publishes, ObservationFails, StartReturns, ClearsClaim, Judges, Stops, Release,
         ReleaseSettles, ReleaseStops, ReleaseReturns
    <3> QED BY <3>1, <3>2, <3>3, <3>4
  <2> QED BY <1>3, <2>2, <2>3
<1> QED BY <1>4, <1>5

-----------------------------------------------------------------------------

LEMMA TurnsStep == LifecycleInv /\ TurnsInv /\ [Next]_vars => TurnsInv'
<1> SUFFICES ASSUME LifecycleInv, TurnsInv, [Next]_vars PROVE TurnsInv'
    OBVIOUS
<1>1. CASE UNCHANGED vars
  BY <1>1 DEF vars, registry, callers, graphs, facts, TurnsInv, TurnThreads, AwaitedWrites, ToldInv,
              Registered
<1>2. CASE Next
  BY <1>2, WriterKeepsTurns, GraphKeepsTurns, StopKeepsTurns, CallersKeepTurns DEF Next
<1> QED BY <1>1, <1>2

\* No stop drops the entry of an agent and leaves a turn open that a turn
\* thread was told of: such a turn has a registered graph, or one about to be.
THEOREM ToldTurnsOwned == Spec => []ToldTurnsAreOwned
<1>1. Init => TurnsInv
  BY DEF Init, TurnsInv, TurnThreads, AwaitedWrites, ToldInv
<1>2. TurnsInv => ToldTurnsAreOwned
  BY DEF TurnsInv, ToldInv, Registered, ToldTurnsAreOwned
<1> QED BY <1>1, <1>2, TurnsStep, LifecycleInvHolds, PTL DEF Spec
=============================================================================
