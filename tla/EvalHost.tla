------------------------------ MODULE EvalHost ------------------------------
(***************************************************************************)
(* The warm operator root of the Inspect model provider                    *)
(* (src/src-inspect-ai/src/seon_inspect/host.py, provider.py).             *)
(*                                                                         *)
(* Every generation of Inspect runs in a thread of its own: it starts the  *)
(* shared cluster if nobody did, registers as active, drives an episode    *)
(* over the prepl, and leaves with what it saw of the shared store.  The   *)
(* host is closed at the exit of the process, and an episode whose client  *)
(* failed goes on in the cluster for a while.                              *)
(***************************************************************************)
EXTENDS Integers, Sequences, FiniteSets

CONSTANTS
    Samples,       \* the generations
    EmptyInput,    \* those of them without a message, or with a tool
    MaxWrites      \* bound on the writes of the episodes

ASSUME WritesAssumption == MaxWrites \in Nat
ASSUME InputAssumption == EmptyInput \subseteq Samples

VARIABLES
    cluster,     \* "absent", "initialized", "up" or "down"
    rootExists,  \* the directory of the operator root
    host,        \* the fields of the SeonHost
    store,       \* the writes in the shared store, each by its sample
    episodes,    \* the samples whose episode runs in the cluster
    summary,     \* store-growth.json: the counters it was written with
    sample       \* where each generation stands

hostVars == <<cluster, rootExists, host, store, episodes, summary, sample>>

NoSummary == [completed |-> -1, errored |-> -1, latest |-> -1]

HostInit ==
    /\ cluster = "absent"
    /\ rootExists = FALSE
    /\ host = [started |-> FALSE, closed |-> FALSE, active |-> {}, completed |-> 0, errored |-> 0,
               latest |-> 0]
    /\ store = <<>>
    /\ episodes = {}
    /\ summary = NoSummary
    /\ sample = [s \in Samples |->
                   [pc |-> "generates", before |-> 0, after |-> 0, overlaps |-> {}, left |-> 0,
                    succeeded |-> FALSE]]

Place(s, pc) == sample' = [sample EXCEPT ![s].pc = pc]
SummaryOf(h) == [completed |-> h.completed, errored |-> h.errored, latest |-> h.latest]

-----------------------------------------------------------------------------
(* generate refuses tools and an empty conversation. *)
RefusesInput(s) ==
    /\ sample[s].pc = "generates" /\ s \in EmptyInput
    /\ Place(s, "refused")
    /\ UNCHANGED <<cluster, rootExists, host, store, episodes, summary>>

Generates(s) ==
    /\ sample[s].pc = "generates" /\ s \notin EmptyInput
    /\ Place(s, "starts")
    /\ UNCHANGED <<cluster, rootExists, host, store, episodes, summary>>

(* start, under the start lock.  A root that is there already refuses: a   *)
(* start that failed is not tried again.  The operator may fail at init or *)
(* at start, and then with the cluster up; the advertisement may be        *)
(* unreadable.                                                             *)
AlreadyStarted(s) ==
    /\ sample[s].pc = "starts" /\ host.started
    /\ Place(s, "enters")
    /\ UNCHANGED <<cluster, rootExists, host, store, episodes, summary>>

StartIsRefused(s) ==
    /\ sample[s].pc = "starts" /\ ~host.started
    /\ host.closed \/ rootExists
    /\ Place(s, "failed")
    /\ UNCHANGED <<cluster, rootExists, host, store, episodes, summary>>

StartFails(s) ==
    /\ sample[s].pc = "starts" /\ ~host.started /\ ~host.closed /\ ~rootExists
    /\ rootExists' = TRUE
    /\ cluster' \in {"absent", "initialized", "up"}
    /\ Place(s, "failed")
    /\ UNCHANGED <<host, store, episodes, summary>>

Starts(s) ==
    /\ sample[s].pc = "starts" /\ ~host.started /\ ~host.closed /\ ~rootExists
    /\ rootExists' = TRUE
    /\ cluster' = "up"
    /\ host' = [host EXCEPT !.started = TRUE]
    /\ summary' = SummaryOf(host)
    /\ Place(s, "enters")
    /\ UNCHANGED <<store, episodes>>

-----------------------------------------------------------------------------
(* run_sample.  Entering and leaving are each under the measurement lock.  *)

Enters(s) ==
    /\ sample[s].pc = "enters"
    /\ sample' = [sample EXCEPT ![s] = [@ EXCEPT !.pc = "evaluates", !.before = Len(store),
                                                  !.overlaps = host.active]]
    /\ host' = [host EXCEPT !.active = @ \cup {s}]
    /\ UNCHANGED <<cluster, rootExists, store, episodes, summary>>

(* _eval_sample: the form is sent, or there is nobody to send it to. *)
Sends(s) ==
    /\ sample[s].pc = "evaluates" /\ cluster = "up"
    /\ episodes' = episodes \cup {s}
    /\ Place(s, "receives")
    /\ UNCHANGED <<cluster, rootExists, host, store, summary>>

CannotConnect(s) ==
    /\ sample[s].pc = "evaluates" /\ cluster # "up"
    /\ Place(s, "leaves")
    /\ UNCHANGED <<cluster, rootExists, host, store, episodes, summary>>

(* The episode of a sample writes to the shared store, also after the      *)
(* client of the sample gave up.                                           *)
Writes(s) ==
    /\ s \in episodes /\ Len(store) < MaxWrites
    /\ store' = Append(store, s)
    /\ UNCHANGED <<cluster, rootExists, host, episodes, summary, sample>>

(* The terminal value arrives with the one payload.  The episode is over:  *)
(* its form prints the payload as its last act.                            *)
Receives(s) ==
    /\ sample[s].pc = "receives" /\ s \in episodes
    /\ episodes' = episodes \ {s}
    /\ sample' = [sample EXCEPT ![s] = [@ EXCEPT !.pc = "leaves", !.succeeded = TRUE]]
    /\ UNCHANGED <<cluster, rootExists, host, store, summary>>

(* An exception, no :ret, no unique payload, no JSON, or the socket's      *)
(* timeout; the episode is over, or goes on.                               *)
ReceiveFails(s) ==
    /\ sample[s].pc = "receives"
    /\ episodes' \in {episodes, episodes \ {s}}
    /\ Place(s, "leaves")
    /\ UNCHANGED <<cluster, rootExists, host, store, summary>>

LateEpisodeEnds(s) ==
    /\ s \in episodes /\ sample[s].pc \in {"leaves", "failed"}
    /\ episodes' = episodes \ {s}
    /\ UNCHANGED <<cluster, rootExists, host, store, summary, sample>>

(* Mutant of OverlapsAtLeave: the samples that entered later are missed. *)
OverlapsAtEnterOnly(s) == sample[s].overlaps

(* The overlaps of a sample are those it met and those it leaves behind. *)
OverlapsAtLeave(s) == sample[s].overlaps \cup (host.active \ {s})

Leaves(s) ==
    /\ sample[s].pc = "leaves"
    /\ host' = [host EXCEPT !.active = @ \ {s},
                            !.completed = @ + (IF sample[s].succeeded THEN 1 ELSE 0),
                            !.errored = @ + (IF sample[s].succeeded THEN 0 ELSE 1),
                            !.latest = Len(store)]
    /\ summary' = SummaryOf(host')
    /\ sample' = [sample EXCEPT ![s] =
                    [@ EXCEPT !.pc = IF sample[s].succeeded THEN "reported" ELSE "failed",
                              !.after = Len(store), !.overlaps = OverlapsAtLeave(s),
                              !.left = host.completed + host.errored + 1]]
    /\ UNCHANGED <<cluster, rootExists, store, episodes>>

-----------------------------------------------------------------------------
(* close, at the exit of the process or called by its owner: the operator  *)
(* takes down what was started; its failure is ignored.                    *)
Closes ==
    /\ ~host.closed
    /\ host' = [host EXCEPT !.closed = TRUE]
    /\ IF host.started
       THEN \/ cluster' = "down" /\ episodes' = {}
            \/ UNCHANGED <<cluster, episodes>>
       ELSE UNCHANGED <<cluster, episodes>>
    /\ UNCHANGED <<rootExists, store, summary, sample>>

SampleSteps(s) ==
    \/ RefusesInput(s) \/ Generates(s)
    \/ AlreadyStarted(s) \/ StartIsRefused(s) \/ StartFails(s) \/ Starts(s)
    \/ Enters(s) \/ Sends(s) \/ CannotConnect(s) \/ Writes(s)
    \/ Receives(s) \/ ReceiveFails(s) \/ LateEpisodeEnds(s) \/ Leaves(s)

HostNext == Closes \/ \E s \in Samples : SampleSteps(s)

HostSpec == HostInit /\ [][HostNext]_hostVars

-----------------------------------------------------------------------------
(* What grew is attributed: a report names every sample whose write it     *)
(* measured, but for one that had left before; that one names the sample   *)
(* in its own report, unless it failed and has none.                       *)
GrowthIsAttributed ==
    \A s \in Samples : sample[s].pc = "reported" =>
        \A n \in (sample[s].before + 1)..sample[s].after :
            LET t == store[n]
            IN  \/ t = s
                \/ t \in sample[s].overlaps
                \/ /\ sample[t].left \in 1..(sample[s].left - 1)
                   /\ s \in sample[t].overlaps \/ sample[t].pc = "failed"
=============================================================================
