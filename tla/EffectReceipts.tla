--------------------------- MODULE EffectReceipts ---------------------------
(***************************************************************************)
(* Effects and their receipts (src/src/seon/effect.clj), the writer they   *)
(* commit through (db.clj transact-call) and the recovery of the turns     *)
(* that asked for them (turn.clj recover-call, cluster.clj recover-runs!). *)
(*                                                                         *)
(* A form of a turn asks for an effect: a receipt is committed as open,    *)
(* the handler runs as work of the launcher, and its outcome is committed  *)
(* into the receipt as a result or as an interruption.  A foreground       *)
(* request waits for all of it; a background one returns a reference, may  *)
(* outlive its turn, and its receipt names the agent to notify.            *)
(*                                                                         *)
(* The store is a serial writer behind a queue.  Whoever waits for the     *)
(* writer may give up (a bound, an interrupt) without withdrawing what it  *)
(* queued.  A crash loses the queue and every thread, never a commit.      *)
(*                                                                         *)
(* The launcher is used as WorkLauncher describes it: it answers a         *)
(* submission at most once.  Staged content and what a result holds are    *)
(* left out; a result is a value the handler returned or a failure.        *)
(***************************************************************************)
EXTENDS Naturals, Sequences

CONSTANTS
    Turns,          \* turn ids
    AgentOf,        \* the agent of a turn
    Effects,        \* effect ids: one per request, a digest of turn, form, ordinal
    TurnOf,         \* the turn whose form makes the request
    Background,     \* the requests made through my.background/background
    Faults,         \* faults explored: "staging", "refusal", "rejection"
    MaxCrashes      \* bound on the crashes explored

ASSUME EffectsAssumption ==
    /\ TurnOf \in [Effects -> Turns]
    /\ Background \subseteq Effects
    /\ Effects \cap Turns = {}
    /\ MaxCrashes \in Nat

VARIABLES
    \* in the store
    turn,           \* :seon.turn/opened-tx and closed-tx, and whether recovery closed it
    opened,         \* receipts that exist
    result,         \* :seon.effect/result-edn: absent, a value or a failure
    interrupted,    \* receipts with :seon.effect/interrupted-at
    notify, to,     \* receipts with :seon.effect/notify, with :seon.effect/to
    \* in the process
    up,             \* whether the process runs
    crashes,        \* how often it crashed
    queue,          \* the writer's queue
    ack,            \* the writer's answer to the last write of an effect
    pass,           \* the agent's thread working on a turn
    at,             \* where the request's thread stands
    reply,          \* what the request returned to the program
    work,           \* the handler as the launcher's work
    outcome,        \* what the launcher answered to complete!
    started,        \* effects whose handler was ever entered
    settlement      \* what is to be recorded of the outcome, and how far that is

store   == <<turn, opened, result, interrupted, notify, to>>
writer  == <<queue, ack>>
request == <<at, reply>>
handler == <<work, outcome, started>>
process == <<up, crashes>>
vars == <<store, writer, request, handler, process, pass, settlement>>

Receipt == <<opened, result, interrupted, notify, to>>

EffectWrites == [op : {"open", "value", "failure", "interrupt"}, of : Effects]
TurnWrites   == [op : {"openTurn", "closeTurn", "recoverTurn"}, of : Turns]
Writes       == EffectWrites \cup TurnWrites

\* What complete! is given: the handler's value, its failure or an error in its
\* place, a throwable of the launcher itself, a cut by the handler's arm, or a
\* value whose disposition says the handler was interrupted.
Outcomes == {"value", "failure", "thrown", "cut", "disposed"}

\* What a settlement has decided to record, before it is written.
Decisions == {"value", "failure", "interrupt"}

TypeOK ==
    /\ turn \in [Turns -> {"absent", "open", "closed", "recovered"}]
    /\ opened \subseteq Effects /\ interrupted \subseteq Effects
    /\ result \in [Effects -> {"absent", "value", "failure"}]
    /\ notify \subseteq Effects /\ to \subseteq Effects
    /\ up \in BOOLEAN /\ crashes \in 0..MaxCrashes
    /\ queue \in Seq(Writes)
    /\ ack \in [Effects -> {"none", "committed", "refused"}]
    /\ pass \in [Turns -> {"none", "opening", "running", "interrupted", "ended"}]
    /\ at \in [Effects -> {"idle", "opening", "waiting", "returned", "lost"}]
    /\ reply \in [Effects -> {"none", "value", "failure", "interrupted",
                              "refused", "unknown", "ref"}]
    /\ work \in [Effects -> {"none", "queued", "running", "ended"}]
    /\ outcome \in [Effects -> Outcomes \cup {"none"}]
    /\ started \subseteq Effects
    /\ settlement \in [Effects -> Decisions \cup {"none", "asked", "lost"}]

\* result-edn or interrupted-at is present.
Terminal == {e \in Effects : result[e] # "absent"} \cup interrupted
Open     == opened \ Terminal

Init ==
    /\ turn = [t \in Turns |-> "absent"]
    /\ opened = {} /\ interrupted = {} /\ notify = {} /\ to = {}
    /\ result = [e \in Effects |-> "absent"]
    /\ up = TRUE /\ crashes = 0
    /\ queue = <<>> /\ ack = [e \in Effects |-> "none"]
    /\ pass = [t \in Turns |-> "none"]
    /\ at = [e \in Effects |-> "idle"]
    /\ reply = [e \in Effects |-> "none"]
    /\ work = [e \in Effects |-> "none"]
    /\ outcome = [e \in Effects |-> "none"]
    /\ started = {}
    /\ settlement = [e \in Effects |-> "none"]
-----------------------------------------------------------------------------
(* The writer.  A transaction function sees the store at its own turn.     *)

Queued(op, x) == queue # <<>> /\ Head(queue) = [op |-> op, of |-> x]

Enqueue(op, x) == queue' = Append(queue, [op |-> op, of |-> x])

Answer(e, answer) ==
    /\ queue' = Tail(queue)
    /\ ack' = [ack EXCEPT ![e] = answer]

Asks(e, op) ==
    /\ Enqueue(op, e)
    /\ ack' = [ack EXCEPT ![e] = "none"]

\* open-call.
CommitsOpen(e) ==
    /\ Queued("open", e)
    /\ e \notin opened
    /\ opened' = opened \cup {e}
    /\ notify' = notify \cup ({e} \cap Background)
    /\ Answer(e, "committed")
    /\ UNCHANGED <<turn, result, interrupted, to, request, handler, process,
                   pass, settlement>>

\* Terminal data is added and the agent to notify becomes the one addressed.
SettlesReceipt(e) ==
    /\ notify' = notify \ {e}
    /\ to' = to \cup ({e} \cap notify)

\* Mutant of CommitsResult: settle-call does not look at interrupted-at.
CommitsResultUnread(e, kind) ==
    /\ Queued(kind, e)
    /\ e \in opened /\ result[e] = "absent"
    /\ result' = [result EXCEPT ![e] = kind]
    /\ SettlesReceipt(e)
    /\ Answer(e, "committed")
    /\ UNCHANGED <<turn, opened, interrupted, request, handler, process, pass,
                   settlement>>

\* settle-call.
CommitsResult(e, kind) ==
    /\ Queued(kind, e)
    /\ e \in Open
    /\ result' = [result EXCEPT ![e] = kind]
    /\ SettlesReceipt(e)
    /\ Answer(e, "committed")
    /\ UNCHANGED <<turn, opened, interrupted, request, handler, process, pass,
                   settlement>>

\* interrupt-call.
CommitsInterruption(e) ==
    /\ Queued("interrupt", e)
    /\ e \in Open
    /\ interrupted' = interrupted \cup {e}
    /\ SettlesReceipt(e)
    /\ Answer(e, "committed")
    /\ UNCHANGED <<turn, opened, result, request, handler, process, pass,
                   settlement>>

Writable(op) == IF op = "open" THEN Effects \ opened ELSE Open

\* The transaction function throws (the receipt exists, is missing or is
\* terminal), or the report's validator refuses the write.
Refuses(e) ==
    /\ \E op \in Decisions \cup {"open"} :
          /\ Queued(op, e)
          /\ e \in Writable(op) => "refusal" \in Faults
    /\ Answer(e, "refused")
    /\ UNCHANGED <<store, request, handler, process, pass, settlement>>

\* open-call of turn.clj.  An agent has one thread, which closed its last turn
\* before it asks for this one.
CommitsTurnOpen(t) ==
    /\ Queued("openTurn", t)
    /\ \A u \in Turns : AgentOf[u] = AgentOf[t] => turn[u] # "open"
    /\ turn' = [turn EXCEPT ![t] = "open"]
    /\ pass' = [pass EXCEPT ![t] = "running"]
    /\ queue' = Tail(queue)
    /\ UNCHANGED <<Receipt, ack, request, handler, process, settlement>>

\* close-call: effects are left as they are.
CommitsTurnClose(t) ==
    /\ Queued("closeTurn", t)
    /\ turn' = [turn EXCEPT ![t] = IF @ = "open" THEN "closed" ELSE @]
    /\ queue' = Tail(queue)
    /\ UNCHANGED <<Receipt, ack, request, handler, process, pass, settlement>>

\* Mutants of StampsInterrupted: the agent to notify is left waiting; settled
\* receipts are stamped as well.
StampsWithoutWake(ts) ==
    /\ interrupted' = interrupted \cup {e \in Open : TurnOf[e] \in ts}
    /\ UNCHANGED <<notify, to>>

StampsEveryReceipt(ts) ==
    LET stamped == {e \in opened : TurnOf[e] \in ts}
    IN /\ interrupted' = interrupted \cup stamped
       /\ notify' = notify \ stamped
       /\ to' = to \cup (stamped \cap notify)

\* interruption-stamps: every open receipt of the turns.
StampsInterrupted(ts) ==
    LET stamped == {e \in Open : TurnOf[e] \in ts}
    IN /\ interrupted' = interrupted \cup stamped
       /\ notify' = notify \ stamped
       /\ to' = to \cup (stamped \cap notify)

\* recover-call, which does nothing to a turn that is not open.
Recovers(ts) ==
    LET unfinished == {t \in ts : turn[t] = "open"}
    IN /\ StampsInterrupted(unfinished)
       /\ turn' = [t \in Turns |-> IF t \in unfinished THEN "recovered" ELSE turn[t]]
       /\ UNCHANGED <<opened, result>>

CommitsRecovery(t) ==
    /\ Queued("recoverTurn", t)
    /\ Recovers({t})
    /\ queue' = Tail(queue)
    /\ UNCHANGED <<ack, request, handler, process, pass, settlement>>

Writer ==
    \/ \E e \in Effects :
          \/ CommitsOpen(e) \/ CommitsInterruption(e) \/ Refuses(e)
          \/ \E kind \in {"value", "failure"} : CommitsResult(e, kind)
    \/ \E t \in Turns : CommitsTurnOpen(t) \/ CommitsTurnClose(t) \/ CommitsRecovery(t)
-----------------------------------------------------------------------------
(* A turn, as far as its effects see it.                                   *)

\* Every other action needs a queue or a thread, which a process that is down
\* does not have.
TurnAsks(t) ==
    /\ up
    /\ pass[t] = "none" /\ turn[t] = "absent"
    /\ \A u \in Turns : AgentOf[u] = AgentOf[t] => pass[u] \in {"none", "ended"}
    /\ pass' = [pass EXCEPT ![t] = "opening"]
    /\ Enqueue("openTurn", t)
    /\ UNCHANGED <<store, ack, request, handler, process, settlement>>

\* A form runs while the turn's thread waits for it (on-platform-worker).
InRequest(t) == \E e \in Effects : TurnOf[e] = t /\ at[e] \in {"opening", "waiting"}

TurnEnds(t, from, op) ==
    /\ pass[t] = from /\ ~InRequest(t)
    /\ pass' = [pass EXCEPT ![t] = "ended"]
    /\ Enqueue(op, t)
    /\ UNCHANGED <<store, ack, request, handler, process, settlement>>

\* The turn closes itself; a throwable leaving it has it recovered.
TurnCloses(t)  == TurnEnds(t, "running", "closeTurn")
TurnEscapes(t) == TurnEnds(t, "running", "recoverTurn")

\* Mutant of AgentStops: the interruption is recorded at once, while the thread
\* still runs.
AgentStopsUnjoined(t) ==
    /\ pass[t] = "running"
    /\ pass' = [pass EXCEPT ![t] = "interrupted"]
    /\ Enqueue("recoverTurn", t)
    /\ UNCHANGED <<store, ack, request, handler, process, settlement>>

\* stop-flow! interrupts the turn's thread, and records the interruption
\* once that thread has exited.
AgentStops(t) ==
    /\ pass[t] = "running"
    /\ pass' = [pass EXCEPT ![t] = "interrupted"]
    /\ UNCHANGED <<store, writer, request, handler, process, settlement>>

RecordsInterruption(t) == TurnEnds(t, "interrupted", "recoverTurn")

TurnStep(t) ==
    \/ TurnAsks(t) \/ TurnCloses(t) \/ TurnEscapes(t)
    \/ AgentStops(t) \/ RecordsInterruption(t)
-----------------------------------------------------------------------------
(* A request, on the thread of the form that makes it.                     *)

Returns(e, answer) ==
    /\ at' = [at EXCEPT ![e] = "returned"]
    /\ reply' = [reply EXCEPT ![e] = answer]

\* A form may catch the interruption of one request and make another.
MayRequest(e) ==
    /\ at[e] = "idle"
    /\ pass[TurnOf[e]] \in {"running", "interrupted"} /\ ~InRequest(TurnOf[e])

\* Invalid requests never open a receipt.
RequestInvalid(e) ==
    /\ MayRequest(e)
    /\ Returns(e, "refused")
    /\ UNCHANGED <<store, writer, handler, process, pass, settlement>>

RequestOpens(e) ==
    /\ MayRequest(e)
    /\ at' = [at EXCEPT ![e] = "opening"]
    /\ Asks(e, "open")
    /\ UNCHANGED <<store, reply, handler, process, pass, settlement>>

\* The writer refused the receipt: nothing is dispatched.
OpenRefused(e) ==
    /\ at[e] = "opening" /\ ack[e] = "refused"
    /\ Returns(e, "refused")
    /\ UNCHANGED <<store, writer, handler, process, pass, settlement>>

\* transact! answers an unknown outcome after its bound or an interrupt; the
\* write stays queued.
Awaits(e) == \/ at[e] = "opening"
             \/ at[e] = "waiting" /\ settlement[e] = "asked"

GivesUp(e) ==
    /\ Awaits(e) /\ ack[e] = "none"
    /\ Returns(e, "unknown")
    /\ UNCHANGED <<store, writer, handler, process, pass, settlement>>

\* Mutant of Dispatches: an unknown outcome of the open is taken for a commit.
DispatchesUnknown(e) ==
    /\ at[e] = "opening" /\ ack[e] # "refused"
    /\ work' = [work EXCEPT ![e] = "queued"]
    /\ IF e \in Background
       THEN Returns(e, "ref")
       ELSE at' = [at EXCEPT ![e] = "waiting"] /\ reply' = reply
    /\ UNCHANGED <<store, writer, outcome, started, process, pass, settlement>>

Dispatches(e) ==
    /\ at[e] = "opening" /\ ack[e] = "committed"
    /\ work' = [work EXCEPT ![e] = "queued"]
    /\ IF e \in Background
       THEN Returns(e, "ref")
       ELSE at' = [at EXCEPT ![e] = "waiting"] /\ reply' = reply
    /\ UNCHANGED <<store, writer, outcome, started, process, pass, settlement>>

Decides(e, decision) == settlement' = [settlement EXCEPT ![e] = decision]

AwaitedDecision ==
    [o \in Outcomes |-> CASE o \in {"cut", "disposed"} -> "interrupt"
                          [] o \in {"value", "thrown"} -> "value"
                          [] o = "failure"             -> "failure"]

\* dispatch's await ended.  It reads the terminal's value only: a throwable of
\* the launcher itself, as opposed to the handler's, reads as the value nil.
AwaitEnds(e) ==
    /\ at[e] = "waiting" /\ settlement[e] = "none" /\ outcome[e] # "none"
    /\ Decides(e, AwaitedDecision[outcome[e]])
    /\ UNCHANGED <<store, writer, request, handler, process, pass>>

\* The evaluation's time limit: the work is interrupted and the bound's
\* timeout is the result.
AwaitTimesOut(e) ==
    /\ at[e] = "waiting" /\ settlement[e] = "none"
    /\ Decides(e, "failure")
    /\ UNCHANGED <<store, writer, request, handler, process, pass>>

\* catch InterruptedException.
AwaitInterrupted(e) ==
    /\ at[e] = "waiting" /\ settlement[e] = "none"
    /\ pass[TurnOf[e]] = "interrupted"
    /\ Decides(e, "interrupt")
    /\ UNCHANGED <<store, writer, request, handler, process, pass>>

\* Mutant of RequestReturns: the handler's outcome is returned without a look at
\* the transaction.
RequestReturnsOutcome(e) ==
    /\ at[e] = "waiting" /\ settlement[e] = "asked" /\ outcome[e] # "none"
    /\ Returns(e, IF outcome[e] = "cut" THEN "interrupted" ELSE "value")
    /\ UNCHANGED <<store, writer, handler, process, pass, settlement>>

\* The settlement's own answer: the value, or the writer's refusal.
RequestReturns(e) ==
    /\ at[e] = "waiting" /\ settlement[e] = "asked" /\ ack[e] # "none"
    /\ Returns(e, IF ack[e] = "refused" THEN "refused"
                  ELSE IF e \in interrupted THEN "interrupted" ELSE result[e])
    /\ UNCHANGED <<store, writer, handler, process, pass, settlement>>

Request(e) ==
    \/ RequestInvalid(e) \/ RequestOpens(e) \/ OpenRefused(e) \/ GivesUp(e)
    \/ Dispatches(e) \/ AwaitEnds(e) \/ AwaitTimesOut(e) \/ AwaitInterrupted(e)
    \/ RequestReturns(e)
-----------------------------------------------------------------------------
(* The handler on the launcher, and the settlement of its outcome.         *)

HandlerStarts(e) ==
    /\ work[e] = "queued"
    /\ work' = [work EXCEPT ![e] = "running"]
    /\ started' = started \cup {e}
    /\ UNCHANGED <<store, writer, request, outcome, process, pass, settlement>>

\* complete! is called once; what the work ends with after that is dropped.
Completes(e, answer) ==
    outcome' = [outcome EXCEPT ![e] = IF @ = "none" THEN answer ELSE @]

\* The handler returns a value, throws, or is cut by its arm.
HandlerEnds(e, answer) ==
    /\ work[e] = "running"
    /\ work' = [work EXCEPT ![e] = "ended"]
    /\ Completes(e, answer)
    /\ UNCHANGED <<store, writer, request, started, process, pass, settlement>>

\* The launcher is full, stopping, or swept, or the wait for a queued work
\* ended: complete! is given an error as its value.  A running handler runs on.
LauncherAnswers(e) ==
    /\ work[e] \in {"queued", "running"} /\ outcome[e] = "none"
    /\ work' = [work EXCEPT ![e] = IF @ = "queued" THEN "ended" ELSE @]
    /\ Completes(e, "failure")
    /\ UNCHANGED <<store, writer, request, started, process, pass, settlement>>

\* The executor rejected the task: complete! is given a throwable.
LauncherThrows(e) ==
    /\ "rejection" \in Faults
    /\ work[e] = "queued" /\ outcome[e] = "none"
    /\ work' = [work EXCEPT ![e] = "ended"]
    /\ Completes(e, "thrown")
    /\ UNCHANGED <<store, writer, request, started, process, pass, settlement>>

DetachedDecision ==
    [o \in Outcomes |-> CASE o = "cut"                   -> "interrupt"
                          [] o \in {"value", "disposed"}  -> "value"
                          [] o \in {"failure", "thrown"}  -> "failure"]

\* Mutant of DetachedCompletes: nothing is settled once the turn is closed.
DetachedCompletesInTurn(e) ==
    /\ e \in Background /\ settlement[e] = "none" /\ outcome[e] # "none"
    /\ pass[TurnOf[e]] = "running"
    /\ Decides(e, DetachedDecision[outcome[e]])
    /\ UNCHANGED <<store, writer, request, handler, process, pass>>

\* settle-background-terminal!, on the thread that completed the work.  It
\* tells an interruption by the throwable and never looks at the disposition.
DetachedCompletes(e) ==
    /\ e \in Background /\ settlement[e] = "none" /\ outcome[e] # "none"
    /\ Decides(e, DetachedDecision[outcome[e]])
    /\ UNCHANGED <<store, writer, request, handler, process, pass>>

\* settle-value! and interrupt!: the transaction is queued.
Settles(e) ==
    /\ settlement[e] \in Decisions
    /\ Asks(e, settlement[e])
    /\ Decides(e, "asked")
    /\ UNCHANGED <<store, request, handler, process, pass>>

\* Mutant of StagingThrows: the foreground request does not settle a failure.
StagingEscapes(e) ==
    /\ "staging" \in Faults
    /\ settlement[e] = "value"
    /\ Decides(e, "lost")
    /\ IF e \in Background THEN UNCHANGED request ELSE Returns(e, "failure")
    /\ UNCHANGED <<store, writer, handler, process, pass>>

\* Staging the value throws.  The foreground request catches it and settles the
\* failure instead; on the launcher's thread nobody does.
StagingThrows(e) ==
    /\ "staging" \in Faults
    /\ settlement[e] = "value"
    /\ Decides(e, IF e \in Background THEN "lost" ELSE "failure")
    /\ UNCHANGED <<store, writer, request, handler, process, pass>>

Work(e) ==
    \/ HandlerStarts(e) \/ LauncherAnswers(e) \/ LauncherThrows(e)
    \/ \E answer \in Outcomes \ {"thrown"} : HandlerEnds(e, answer)
    \/ DetachedCompletes(e) \/ Settles(e) \/ StagingThrows(e)
-----------------------------------------------------------------------------
(* Crash and boot.                                                         *)

Crash ==
    /\ up /\ crashes < MaxCrashes
    /\ up' = FALSE /\ crashes' = crashes + 1
    /\ queue' = <<>> /\ ack' = [e \in Effects |-> "none"]
    /\ pass' = [t \in Turns |-> IF pass[t] = "none" \/ turn[t] = "absent"
                                THEN "none" ELSE "ended"]
    /\ at' = [e \in Effects |-> IF at[e] \in {"opening", "waiting"} THEN "lost" ELSE at[e]]
    /\ work' = [e \in Effects |-> "none"]
    /\ outcome' = [e \in Effects |-> "none"]
    /\ settlement' = [e \in Effects |-> "none"]
    /\ UNCHANGED <<store, reply, started>>

\* recover-runs!: one transaction over every open turn, before any agent runs.
Boot ==
    /\ ~up /\ up' = TRUE
    /\ Recovers(Turns)
    /\ UNCHANGED <<crashes, writer, request, handler, pass, settlement>>

Next ==
    \/ Writer \/ Crash \/ Boot
    \/ \E t \in Turns : TurnStep(t)
    \/ \E e \in Effects : Request(e) \/ Work(e)

Spec == Init /\ [][Next]_vars

\* The writer serves its queue, the threads of settlements run, the launcher
\* and the handler's arm bound every work.
Fairness ==
    /\ WF_vars(Writer)
    /\ \A e \in Effects : WF_vars(Work(e))

FairSpec == Spec /\ Fairness
-----------------------------------------------------------------------------
(* Properties.                                                             *)

ReceiptsKept ==
    /\ opened \subseteq opened' /\ to \subseteq to'
    /\ \A e \in Terminal :
          result'[e] = result[e] /\ (e \in interrupted' <=> e \in interrupted)

\* A receipt is committed once: what it records is never replaced, neither by
\* a late settlement after an interruption nor by recovery after a settlement
\* (settle-call, interrupt-call and interruption-stamps exclude one another).
ReceiptsAreFinal == [][ReceiptsKept]_vars

\* No receipt is both settled and interrupted, whoever raced whom, and a
\* receipt is terminal only after it was opened.
OneOutcome ==
    /\ \A e \in interrupted : result[e] = "absent"
    /\ Terminal \subseteq opened

\* A background receipt owes its agent one notification: it names the agent as
\* to be notified exactly while it is open, and addresses it exactly when it is
\* terminal, by whichever of the three writers got there.
WakeOwedOrDelivered ==
    /\ notify = Open \cap Background
    /\ to = Terminal \cap Background

\* The receipt is committed before the handler runs, even when the wait for
\* that commit ended without an answer.
DispatchedOnlyRecorded == started \subseteq opened

\* What the program is told was committed: a value or failure is in the
\* receipt, an interruption too, and a reference names a receipt.
ProgramToldWhatIsRecorded ==
    \A e \in Effects :
        /\ reply[e] \in {"value", "failure"} => result[e] = reply[e]
        /\ reply[e] = "interrupted" => e \in interrupted
        /\ reply[e] = "ref" => e \in opened

\* A turn that was recovered (after its thread escaped, was stopped, or died)
\* has no open receipt left, and none is opened for it afterwards by a write
\* that was still queued.
RecoveredTurnsHaveNoOpenReceipt ==
    \A e \in Open : turn[TurnOf[e]] # "recovered"

\* A foreground receipt is left open behind its program only when the program
\* was told that the writer's answer is unknown or a refusal: never behind a
\* value, and never by staging that failed.
NoSilentOrphan ==
    \A e \in Open \ Background :
        at[e] = "returned" => reply[e] \in {"unknown", "refused"}

\* Recovery interrupts an open receipt: none is left open by a boot.
BootLeavesNoReceiptOpen == [][~up /\ up' => opened' \subseteq Terminal']_vars

\* A program that holds a reference gets an outcome for it, whatever became of
\* the turn that asked, unless staging threw on the launcher's thread, the writer
\* refused the settlement, or the process crashed.
Stranded(e) ==
    \/ settlement[e] = "lost" \/ crashes > 0
    \/ settlement[e] = "asked" /\ ack[e] = "refused"

ReferencesAreSettled ==
    \A e \in Background : reply[e] = "ref" ~> e \in Terminal \/ Stranded(e)
=============================================================================
