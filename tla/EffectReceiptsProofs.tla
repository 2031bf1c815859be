------------------------ MODULE EffectReceiptsProofs ------------------------
(***************************************************************************)
(* What TLAPS proves of EffectReceipts, for any turns, effects, faults and *)
(* number of crashes: type correctness, that a receipt has one final       *)
(* outcome, that a background receipt owes its agent exactly one           *)
(* notification, that nothing runs before its receipt is committed, that   *)
(* the program is told only what is recorded, that no open receipt is left *)
(* behind a value, and that a recovered turn has no open receipt.          *)
(***************************************************************************)
EXTENDS EffectReceipts, TLAPS

\* What the writer's answers say: a thread that passed the open has a receipt,
\* and a committed settlement left it terminal.  CommitsOpen cannot interfere
\* with a settlement because it needs an effect that has no receipt yet.
AnswersMatch ==
    \A e \in Effects :
        /\ at[e] = "opening" /\ ack[e] = "committed" => e \in opened
        /\ at[e] = "waiting" => e \in opened
        /\ at[e] = "waiting" /\ settlement[e] = "asked" /\ ack[e] = "committed"
              => e \in Terminal

\* Work is only ever handed over for a recorded effect.
WorkRecorded == \A e \in Effects : work[e] # "none" => e \in opened

\* Nothing of a request exists before its receipt is acknowledged.
NotYetDispatched ==
    \A e \in Effects : at[e] \in {"idle", "opening"} =>
        work[e] = "none" /\ outcome[e] = "none" /\ settlement[e] = "none"

ReceiptsInv ==
    /\ TypeOK /\ OneOutcome /\ WakeOwedOrDelivered
    /\ AnswersMatch /\ WorkRecorded /\ NotYetDispatched
    /\ DispatchedOnlyRecorded /\ ProgramToldWhatIsRecorded

LEMMA QueueTypes ==
    ASSUME queue \in Seq(Writes), NEW op, NEW x, [op |-> op, of |-> x] \in Writes
    PROVE  /\ Append(queue, [op |-> op, of |-> x]) \in Seq(Writes)
           /\ queue # <<>> => Tail(queue) \in Seq(Writes)
BY SMT

LEMMA InitTypes == Init => TypeOK
<1> SUFFICES ASSUME Init PROVE TypeOK
    OBVIOUS
<1> USE EffectsAssumption
<1>1. queue \in Seq(Writes) BY DEF Init
<1>2. up \in BOOLEAN BY Zenon DEF Init
<1>3. crashes \in 0..MaxCrashes BY DEF Init
<1> QED BY <1>1, <1>2, <1>3 DEF Init, TypeOK, Decisions, Outcomes

LEMMA TypeStep == TypeOK /\ AnswersMatch /\ [Next]_vars => TypeOK'
<1> SUFFICES ASSUME TypeOK, AnswersMatch, [Next]_vars PROVE TypeOK'
    OBVIOUS
<1> USE EffectsAssumption DEF TypeOK, Decisions, Outcomes, store, writer, request, handler,
        process, Receipt
<1>1. CASE Writer
  <2> USE DEF Queued, Answer, SettlesReceipt, Open, Terminal
  <2>0. queue # <<>> => Tail(queue) \in Seq(Writes)
    OBVIOUS
  <2>1. ASSUME NEW e \in Effects, CommitsOpen(e) PROVE TypeOK'
    BY <2>0, <2>1 DEF CommitsOpen
  <2>2. ASSUME NEW e \in Effects, CommitsInterruption(e) PROVE TypeOK'
    BY <2>0, <2>2 DEF CommitsInterruption
  <2>3. ASSUME NEW e \in Effects, Refuses(e) PROVE TypeOK'
    BY <2>0, <2>3 DEF Refuses
  <2>4. ASSUME NEW e \in Effects, NEW kind \in {"value", "failure"}, CommitsResult(e, kind)
        PROVE  TypeOK'
    BY <2>0, <2>4 DEF CommitsResult
  <2>5. ASSUME NEW t \in Turns, CommitsTurnOpen(t) PROVE TypeOK'
    BY <2>0, <2>5 DEF CommitsTurnOpen
  <2>6. ASSUME NEW t \in Turns, CommitsTurnClose(t) PROVE TypeOK'
    BY <2>0, <2>6 DEF CommitsTurnClose
  <2>7. ASSUME NEW t \in Turns, CommitsRecovery(t) PROVE TypeOK'
    BY <2>0, <2>7 DEF CommitsRecovery, Recovers, StampsInterrupted
  <2> QED BY <1>1, <2>1, <2>2, <2>3, <2>4, <2>5, <2>6, <2>7 DEF Writer
<1>2. ASSUME NEW t \in Turns, TurnStep(t) PROVE TypeOK'
  <2>0. ASSUME NEW op \in {"openTurn", "closeTurn", "recoverTurn"}, Enqueue(op, t)
        PROVE  queue' \in Seq(Writes)
    <3>1. [op |-> op, of |-> t] \in Writes BY DEF Writes, TurnWrites
    <3> QED BY <2>0, <3>1, QueueTypes DEF Enqueue
  <2>1. CASE TurnAsks(t) BY <2>0, <2>1 DEF TurnAsks
  <2>2. CASE TurnCloses(t) BY <2>0, <2>2 DEF TurnCloses, TurnEnds
  <2>3. CASE TurnEscapes(t) BY <2>0, <2>3 DEF TurnEscapes, TurnEnds
  <2>4. CASE AgentStops(t) BY <2>4 DEF AgentStops
  <2>5. CASE RecordsInterruption(t) BY <2>0, <2>5 DEF RecordsInterruption, TurnEnds
  <2> QED BY <1>2, <2>1, <2>2, <2>3, <2>4, <2>5 DEF TurnStep
<1>a. ASSUME NEW e \in Effects, NEW op \in Decisions \cup {"open"}, Asks(e, op)
      PROVE  /\ queue' \in Seq(Writes)
             /\ ack' \in [Effects -> {"none", "committed", "refused"}]
  <2>1. [op |-> op, of |-> e] \in Writes BY DEF Writes, EffectWrites
  <2> QED BY <1>a, <2>1, QueueTypes DEF Asks, Enqueue
<1>3. ASSUME NEW e \in Effects, Request(e) PROVE TypeOK'
  <2> USE DEF Returns
  <2>1. CASE RequestInvalid(e) BY <2>1 DEF RequestInvalid
  <2>2. CASE RequestOpens(e) BY <1>a, <2>2 DEF RequestOpens
  <2>3. CASE OpenRefused(e) BY <2>3 DEF OpenRefused
  <2>4. CASE GivesUp(e) BY <2>4 DEF GivesUp
  <2>5. CASE Dispatches(e) BY <2>5 DEF Dispatches
  <2>6. CASE AwaitEnds(e) BY <2>6 DEF AwaitEnds, Decides, AwaitedDecision
  <2>7. CASE AwaitTimesOut(e) BY <2>7 DEF AwaitTimesOut, Decides
  <2>8. CASE AwaitInterrupted(e) BY <2>8 DEF AwaitInterrupted, Decides
  <2>9. CASE RequestReturns(e)
    <3>1. reply' \in [Effects -> {"none", "value", "failure", "interrupted",
                                  "refused", "unknown", "ref"}]
      BY <2>9 DEF RequestReturns, AnswersMatch, Terminal
    <3> QED BY <2>9, <3>1 DEF RequestReturns
  <2> QED BY <1>3, <2>1, <2>2, <2>3, <2>4, <2>5, <2>6, <2>7, <2>8, <2>9 DEF Request
<1>4. ASSUME NEW e \in Effects, Work(e) PROVE TypeOK'
  <2> USE DEF Completes, Decides
  <2>1. CASE HandlerStarts(e) BY <2>1 DEF HandlerStarts
  <2>2. CASE LauncherAnswers(e) BY <2>2 DEF LauncherAnswers
  <2>3. CASE LauncherThrows(e) BY <2>3 DEF LauncherThrows
  <2>4. ASSUME NEW answer \in Outcomes \ {"thrown"}, HandlerEnds(e, answer) PROVE TypeOK'
    BY <2>4 DEF HandlerEnds
  <2>5. CASE DetachedCompletes(e) BY <2>5 DEF DetachedCompletes, DetachedDecision
  <2>6. CASE Settles(e) BY <1>a, <2>6 DEF Settles
  <2>7. CASE StagingThrows(e) BY <2>7 DEF StagingThrows
  <2> QED BY <1>4, <2>1, <2>2, <2>3, <2>4, <2>5, <2>6, <2>7 DEF Work
<1>5. CASE Crash
  <2>1. queue' \in Seq(Writes) BY <1>5 DEF Crash
  <2>2. up' \in BOOLEAN BY <1>5, Zenon DEF Crash
  <2>3. crashes' \in 0..MaxCrashes BY <1>5 DEF Crash
  <2>4. /\ pass' \in [Turns -> {"none", "opening", "running", "interrupted", "ended"}]
        /\ at' \in [Effects -> {"idle", "opening", "waiting", "returned", "lost"}]
    BY <1>5 DEF Crash
  <2>5. UNCHANGED <<turn, opened, result, interrupted, notify, to, reply, started>>
    BY <1>5 DEF Crash
  <2>6. /\ ack' \in [Effects -> {"none", "committed", "refused"}]
        /\ work' \in [Effects -> {"none", "queued", "running", "ended"}]
        /\ outcome' \in [Effects -> Outcomes \cup {"none"}]
        /\ settlement' \in [Effects -> Decisions \cup {"none", "asked", "lost"}]
    BY <1>5 DEF Crash
  <2> QED BY <2>1, <2>2, <2>3, <2>4, <2>5, <2>6
<1>6. CASE Boot
  <2>1. up' \in BOOLEAN BY <1>6, Zenon DEF Boot
  <2>2. /\ turn' \in [Turns -> {"absent", "open", "closed", "recovered"}]
        /\ opened' \subseteq Effects /\ interrupted' \subseteq Effects
        /\ notify' \subseteq Effects /\ to' \subseteq Effects
        /\ result' = result
    BY <1>6 DEF Boot, Recovers, StampsInterrupted, Open, Terminal
  <2>3. UNCHANGED <<crashes, queue, ack, at, reply, work, outcome, started, pass, settlement>>
    BY <1>6 DEF Boot
  <2> QED BY <2>1, <2>2, <2>3
<1>7. CASE UNCHANGED vars BY <1>7 DEF vars
<1> QED BY <1>1, <1>2, <1>3, <1>4, <1>5, <1>6, <1>7 DEF Next


LEMMA InitInv == Init => ReceiptsInv
<1> SUFFICES ASSUME Init PROVE ReceiptsInv
    OBVIOUS
<1>1. TypeOK BY InitTypes
<1>2. Terminal = {} /\ Open = {} BY DEF Init, Terminal, Open
<1> QED BY <1>1, <1>2 DEF Init, ReceiptsInv, OneOutcome, WakeOwedOrDelivered, AnswersMatch,
           NotYetDispatched, WorkRecorded, DispatchedOnlyRecorded, ProgramToldWhatIsRecorded

\* The writer's transactions, where the receipts change.
LEMMA WriterStep == ReceiptsInv /\ TypeOK' /\ Writer => ReceiptsInv'
<1> SUFFICES ASSUME ReceiptsInv, TypeOK', Writer PROVE ReceiptsInv'
    OBVIOUS
<1> USE EffectsAssumption DEF ReceiptsInv, TypeOK, OneOutcome, WakeOwedOrDelivered, AnswersMatch,
        NotYetDispatched, WorkRecorded, DispatchedOnlyRecorded, ProgramToldWhatIsRecorded, Terminal, Open,
        store, writer, request, handler, process, Receipt, Queued, Answer
<1>1. ASSUME NEW e \in Effects, CommitsOpen(e) PROVE ReceiptsInv'
  BY <1>1 DEF CommitsOpen
<1>2. ASSUME NEW e \in Effects, CommitsInterruption(e) PROVE ReceiptsInv'
  BY <1>2 DEF CommitsInterruption, SettlesReceipt
<1>3. ASSUME NEW e \in Effects, Refuses(e) PROVE ReceiptsInv'
  BY <1>3 DEF Refuses
<1>4. ASSUME NEW e \in Effects, NEW kind \in {"value", "failure"}, CommitsResult(e, kind)
      PROVE  ReceiptsInv'
  BY <1>4 DEF CommitsResult, SettlesReceipt
<1>5. ASSUME NEW t \in Turns, CommitsTurnOpen(t) PROVE ReceiptsInv'
  BY <1>5 DEF CommitsTurnOpen
<1>6. ASSUME NEW t \in Turns, CommitsTurnClose(t) PROVE ReceiptsInv'
  BY <1>6 DEF CommitsTurnClose
<1>7. ASSUME NEW t \in Turns, CommitsRecovery(t) PROVE ReceiptsInv'
  BY <1>7 DEF CommitsRecovery, Recovers, StampsInterrupted
<1> QED BY <1>1, <1>2, <1>3, <1>4, <1>5, <1>6, <1>7 DEF Writer

LEMMA RequestStep ==
    ASSUME ReceiptsInv, TypeOK', NEW e \in Effects, Request(e)
    PROVE  ReceiptsInv'
<1> USE EffectsAssumption DEF ReceiptsInv, TypeOK, OneOutcome, WakeOwedOrDelivered, AnswersMatch,
        NotYetDispatched, WorkRecorded, DispatchedOnlyRecorded, ProgramToldWhatIsRecorded, Terminal, Open,
        store, writer, request, handler, process, Receipt, Returns
<1>1. CASE RequestInvalid(e) BY <1>1 DEF RequestInvalid, MayRequest
<1>2. CASE RequestOpens(e) BY <1>2 DEF RequestOpens, MayRequest, Asks
<1>3. CASE OpenRefused(e) BY <1>3 DEF OpenRefused
<1>4. CASE GivesUp(e) BY <1>4 DEF GivesUp, Awaits
<1>5. CASE Dispatches(e)
  <2>1. /\ e \in opened
        /\ work' = [work EXCEPT ![e] = "queued"]
        /\ UNCHANGED <<opened, result, interrupted, notify, to, ack, started, outcome, settlement>>
    BY <1>5 DEF Dispatches
  <2>2. at[e] = "opening" BY <1>5 DEF Dispatches
  <2>3. CASE e \in Background
    <3>1. at' = [at EXCEPT ![e] = "returned"] /\ reply' = [reply EXCEPT ![e] = "ref"]
      BY <1>5, <2>3 DEF Dispatches
    <3>2. OneOutcome' /\ WakeOwedOrDelivered' /\ WorkRecorded' /\ DispatchedOnlyRecorded'
      BY <2>1
    <3>a. NotYetDispatched' BY <2>1, <3>1
    <3>3. AnswersMatch' BY <2>1, <3>1
    <3>4. ProgramToldWhatIsRecorded' BY <2>1, <3>1
    <3> QED BY <3>2, <3>3, <3>4, <3>a
  <2>4. CASE e \notin Background
    <3>1. at' = [at EXCEPT ![e] = "waiting"] /\ reply' = reply /\ settlement[e] = "none"
      BY <1>5, <2>4 DEF Dispatches
    <3>2. OneOutcome' /\ WakeOwedOrDelivered' /\ WorkRecorded' /\ DispatchedOnlyRecorded'
      BY <2>1
    <3>a. NotYetDispatched' BY <2>1, <3>1
    <3>3. AnswersMatch' BY <2>1, <3>1
    <3>4. ProgramToldWhatIsRecorded' BY <2>1, <3>1
    <3> QED BY <3>2, <3>3, <3>4, <3>a
  <2> QED BY <2>3, <2>4
<1>6. CASE AwaitEnds(e) BY <1>6 DEF AwaitEnds, Decides, AwaitedDecision, Outcomes, Decisions
<1>7. CASE AwaitTimesOut(e) BY <1>7 DEF AwaitTimesOut, Decides
<1>8. CASE AwaitInterrupted(e) BY <1>8 DEF AwaitInterrupted, Decides
<1>9. CASE RequestReturns(e) BY <1>9 DEF RequestReturns
<1> QED BY <1>1, <1>2, <1>3, <1>4, <1>5, <1>6, <1>7, <1>8, <1>9 DEF Request

LEMMA InvStep == ReceiptsInv /\ [Next]_vars => ReceiptsInv'
<1> SUFFICES ASSUME ReceiptsInv, [Next]_vars PROVE ReceiptsInv'
    OBVIOUS
<1>0. TypeOK' BY TypeStep DEF ReceiptsInv
<1>1. CASE Writer BY <1>0, <1>1, WriterStep
<1>2. ASSUME NEW e \in Effects, Request(e) PROVE ReceiptsInv'
  BY <1>0, <1>2, RequestStep
<1> USE EffectsAssumption DEF ReceiptsInv, TypeOK, OneOutcome, WakeOwedOrDelivered, AnswersMatch,
        NotYetDispatched, WorkRecorded, DispatchedOnlyRecorded, ProgramToldWhatIsRecorded, Terminal, Open,
        store, writer, request, handler, process, Receipt
<1>3. ASSUME NEW t \in Turns, TurnStep(t) PROVE ReceiptsInv'
  <2>1. UNCHANGED <<store, ack, request, handler, settlement>>
    BY <1>3 DEF TurnStep, TurnAsks, TurnCloses, TurnEscapes, AgentStops, RecordsInterruption,
                TurnEnds
  <2> QED BY <1>0, <2>1
<1>4. ASSUME NEW e \in Effects, Work(e) PROVE ReceiptsInv'
  <2> USE DEF Completes, Decides
  <2>1. CASE HandlerStarts(e) BY <1>0, <2>1 DEF HandlerStarts
  <2>2. CASE LauncherAnswers(e) BY <1>0, <2>2 DEF LauncherAnswers
  <2>3. CASE LauncherThrows(e) BY <1>0, <2>3 DEF LauncherThrows
  <2>4. ASSUME NEW answer \in Outcomes \ {"thrown"}, HandlerEnds(e, answer) PROVE ReceiptsInv'
    BY <1>0, <2>4 DEF HandlerEnds
  <2>5. CASE DetachedCompletes(e)
    BY <1>0, <2>5 DEF DetachedCompletes, DetachedDecision, Outcomes, Decisions
  <2>6. CASE Settles(e) BY <1>0, <2>6 DEF Settles, Asks, Decisions
  <2>7. CASE StagingThrows(e) BY <1>0, <2>7 DEF StagingThrows
  <2> QED BY <1>4, <2>1, <2>2, <2>3, <2>4, <2>5, <2>6, <2>7 DEF Work
<1>5. CASE Crash BY <1>0, <1>5 DEF Crash
<1>6. CASE Boot BY <1>0, <1>6 DEF Boot, Recovers, StampsInterrupted
<1>7. CASE UNCHANGED vars BY <1>0, <1>7 DEF vars
<1> QED BY <1>1, <1>2, <1>3, <1>4, <1>5, <1>6, <1>7 DEF Next

THEOREM ReceiptsInvHolds == Spec => []ReceiptsInv
<1>1. Init => ReceiptsInv BY InitInv
<1>2. ReceiptsInv /\ [Next]_vars => ReceiptsInv' BY InvStep
<1> QED BY <1>1, <1>2, PTL DEF Spec

\* Type correctness: every action of writer, turn, request, launcher, crash and
\* boot keeps the store and the threads in their types.
THEOREM TypeCorrect == Spec => []TypeOK
<1>1. ReceiptsInv => TypeOK BY DEF ReceiptsInv
<1> QED BY <1>1, ReceiptsInvHolds, PTL

\* A receipt has one outcome: never both settled and interrupted, and never an
\* outcome without having been opened.
THEOREM OneOutcomeHolds == Spec => []OneOutcome
<1>1. ReceiptsInv => OneOutcome BY DEF ReceiptsInv
<1> QED BY <1>1, ReceiptsInvHolds, PTL

\* The agent of a background receipt is owed one notification while the receipt
\* is open and addressed once it is terminal, whichever writer got there first.
THEOREM AgentIsNotified == Spec => []WakeOwedOrDelivered
<1>1. ReceiptsInv => WakeOwedOrDelivered BY DEF ReceiptsInv
<1> QED BY <1>1, ReceiptsInvHolds, PTL

\* No handler runs before its receipt is committed.
THEOREM RecordedBeforeDispatch == Spec => []DispatchedOnlyRecorded
<1>1. ReceiptsInv => DispatchedOnlyRecorded BY DEF ReceiptsInv
<1> QED BY <1>1, ReceiptsInvHolds, PTL

\* The program is told a value, a failure or an interruption only when the
\* receipt records it, and gets a reference only to a recorded effect.
THEOREM ProgramIsToldTheRecord == Spec => []ProgramToldWhatIsRecorded
<1>1. ReceiptsInv => ProgramToldWhatIsRecorded BY DEF ReceiptsInv
<1> QED BY <1>1, ReceiptsInvHolds, PTL

\* What a receipt records is final: late settlements, interruptions and
\* recovery leave a terminal receipt as it is.
THEOREM RecordsAreFinal == Spec => ReceiptsAreFinal
<1>1. ASSUME ReceiptsInv, [Next]_vars PROVE [ReceiptsKept]_vars
  <2> USE EffectsAssumption DEF ReceiptsKept, Terminal, Open, store, writer, request, handler, process, Receipt
  <2>a. TypeOK BY <1>1 DEF ReceiptsInv
  <2>1. CASE Writer
    <3> USE <2>a DEF Queued, Answer, SettlesReceipt, TypeOK
    <3>1. ASSUME NEW e \in Effects, CommitsOpen(e) PROVE ReceiptsKept
      BY <3>1 DEF CommitsOpen
    <3>2. ASSUME NEW e \in Effects, CommitsInterruption(e) PROVE ReceiptsKept
      BY <3>2 DEF CommitsInterruption
    <3>3. ASSUME NEW e \in Effects, Refuses(e) PROVE ReceiptsKept
      BY <3>3 DEF Refuses
    <3>4. ASSUME NEW e \in Effects, NEW kind \in {"value", "failure"}, CommitsResult(e, kind)
          PROVE  ReceiptsKept
      BY <3>4 DEF CommitsResult
    <3>5. ASSUME NEW t \in Turns, CommitsTurnOpen(t) PROVE ReceiptsKept
      BY <3>5 DEF CommitsTurnOpen
    <3>6. ASSUME NEW t \in Turns, CommitsTurnClose(t) PROVE ReceiptsKept
      BY <3>6 DEF CommitsTurnClose
    <3>7. ASSUME NEW t \in Turns, CommitsRecovery(t) PROVE ReceiptsKept
      BY <3>7 DEF CommitsRecovery, Recovers, StampsInterrupted
    <3> QED BY <2>1, <3>1, <3>2, <3>3, <3>4, <3>5, <3>6, <3>7 DEF Writer
  <2>2. CASE Boot BY <2>2, <2>a DEF Boot, Recovers, StampsInterrupted, TypeOK
  <2>3. CASE UNCHANGED vars BY <2>3 DEF vars
  <2>4. CASE UNCHANGED store BY <2>4
  <2>5. Writer \/ Boot \/ UNCHANGED store \/ UNCHANGED vars
    <3>1. ASSUME NEW t \in Turns, TurnStep(t) PROVE UNCHANGED store
      BY <3>1 DEF TurnStep, TurnAsks, TurnCloses, TurnEscapes, AgentStops,
                  RecordsInterruption, TurnEnds
    <3>2. ASSUME NEW e \in Effects, Request(e) PROVE UNCHANGED store
      BY <3>2 DEF Request, RequestInvalid, RequestOpens, OpenRefused, GivesUp, Dispatches,
                  AwaitEnds, AwaitTimesOut, AwaitInterrupted, RequestReturns
    <3>3. ASSUME NEW e \in Effects, Work(e) PROVE UNCHANGED store
      BY <3>3 DEF Work, HandlerStarts, LauncherAnswers, LauncherThrows, HandlerEnds,
                  DetachedCompletes, Settles, StagingThrows
    <3>4. CASE Crash BY <3>4 DEF Crash
    <3> QED BY <1>1, <3>1, <3>2, <3>3, <3>4 DEF Next
  <2> QED BY <2>1, <2>2, <2>3, <2>4, <2>5
<1> QED BY <1>1, ReceiptsInvHolds, PTL DEF Spec, ReceiptsAreFinal

-----------------------------------------------------------------------------
(* No silent orphan: what a returned request was told.                     *)

RepliesNamed ==
    \A e \in Effects : /\ at[e] = "returned" => reply[e] # "none"
                       /\ reply[e] = "ref" => e \in Background

LEMMA RepliesStep == RepliesNamed /\ ReceiptsInv /\ ReceiptsInv' /\ [Next]_vars => RepliesNamed'
<1> SUFFICES ASSUME RepliesNamed, ReceiptsInv, ReceiptsInv', [Next]_vars PROVE RepliesNamed'
    OBVIOUS
<1> USE DEF RepliesNamed, request
<1>0. TypeOK /\ TypeOK' BY DEF ReceiptsInv
<1>1. ASSUME NEW e \in Effects, Request(e) PROVE RepliesNamed'
  <2> USE DEF Returns
  <2>1. CASE RequestInvalid(e) BY <1>0, <2>1 DEF RequestInvalid, TypeOK
  <2>2. CASE RequestOpens(e) BY <1>0, <2>2 DEF RequestOpens, TypeOK
  <2>3. CASE OpenRefused(e) BY <1>0, <2>3 DEF OpenRefused, TypeOK
  <2>4. CASE GivesUp(e) BY <1>0, <2>4 DEF GivesUp, TypeOK
  <2>5. CASE Dispatches(e) BY <1>0, <2>5 DEF Dispatches, TypeOK
  <2>6. CASE AwaitEnds(e) \/ AwaitTimesOut(e) \/ AwaitInterrupted(e)
    BY <2>6 DEF AwaitEnds, AwaitTimesOut, AwaitInterrupted
  <2>7. CASE RequestReturns(e) BY <1>0, <2>7 DEF RequestReturns, TypeOK
  <2> QED BY <1>1, <2>1, <2>2, <2>3, <2>4, <2>5, <2>6, <2>7 DEF Request
<1>2. ASSUME NEW t \in Turns, TurnStep(t) PROVE UNCHANGED <<at, reply>>
  BY <1>2 DEF TurnStep, TurnAsks, TurnCloses, TurnEscapes, AgentStops, RecordsInterruption, TurnEnds
<1>3. ASSUME NEW e \in Effects, Work(e) PROVE UNCHANGED <<at, reply>>
  BY <1>3 DEF Work, HandlerStarts, LauncherAnswers, LauncherThrows, HandlerEnds, DetachedCompletes,
              Settles, StagingThrows
<1>4. CASE Writer
  BY <1>4 DEF Writer, CommitsOpen, CommitsInterruption, Refuses, CommitsResult, CommitsTurnOpen,
              CommitsTurnClose, CommitsRecovery
<1>5. CASE Crash BY <1>0, <1>5 DEF Crash, TypeOK
<1>6. CASE Boot BY <1>6 DEF Boot
<1>7. CASE UNCHANGED vars BY <1>7 DEF vars
<1> QED BY <1>1, <1>2, <1>3, <1>4, <1>5, <1>6, <1>7 DEF Next

\* An open foreground receipt is left behind a returned program only with an
\* unknown answer or a refusal.
THEOREM OrphansAreAnnounced == Spec => []NoSilentOrphan
<1>1. Init => RepliesNamed BY DEF Init, RepliesNamed
<1>2. RepliesNamed /\ ReceiptsInv => NoSilentOrphan
  <2> SUFFICES ASSUME RepliesNamed, ReceiptsInv, NEW e \in Open \ Background, at[e] = "returned"
               PROVE  reply[e] \in {"unknown", "refused"}
    BY DEF NoSilentOrphan
  <2>1. e \in Effects /\ e \notin interrupted /\ result[e] = "absent"
    BY DEF Open, Terminal, ReceiptsInv, TypeOK
  <2>2. reply[e] \notin {"value", "failure", "interrupted"}
    BY <2>1 DEF ReceiptsInv, ProgramToldWhatIsRecorded
  <2>3. reply[e] \notin {"none", "ref"}
    BY <2>1 DEF RepliesNamed
  <2> QED BY <2>1, <2>2, <2>3 DEF ReceiptsInv, TypeOK
<1> QED BY <1>1, <1>2, RepliesStep, ReceiptsInvHolds, PTL DEF Spec

-----------------------------------------------------------------------------
(* Recovered turns.  A turn is recovered after its thread ended, and what  *)
(* the thread had queued before is committed, or refused, by then.         *)

Write(op, x) == [op |-> op, of |-> x]

\* A turn in the store has a thread, or had one, and was opened by it.
ThreadsOfTurns ==
    \A t \in Turns :
        /\ turn[t] # "absent" => pass[t] \in {"running", "interrupted", "ended"}
        /\ turn[t] = "recovered" => pass[t] = "ended"

\* A queued recovery is of an ended turn, a queued opening of one that opens.
QueuedTurns ==
    /\ \A i \in 1..Len(queue), t \in Turns :
        /\ queue[i] = Write("recoverTurn", t) => pass[t] = "ended"
        /\ queue[i] = Write("openTurn", t) => pass[t] = "opening"
    /\ \A i, j \in 1..Len(queue), t \in Turns :
        queue[i] = Write("openTurn", t) /\ queue[j] = Write("openTurn", t) => i = j

\* A queued receipt is of a turn not yet recovered, and stands before its recovery.
QueuedReceipts ==
    /\ \A i \in 1..Len(queue), e \in Effects :
        queue[i] = Write("open", e) => turn[TurnOf[e]] # "recovered"
    /\ \A i, j \in 1..Len(queue), e \in Effects :
        queue[i] = Write("recoverTurn", TurnOf[e]) /\ queue[j] = Write("open", e) => j < i

\* A process that is down has no queue and no threads.
DownIsEmpty ==
    ~up => /\ queue = <<>>
           /\ \A t \in Turns : pass[t] \in {"none", "ended"}
           /\ \A e \in Effects : /\ at[e] \notin {"opening", "waiting"} /\ work[e] = "none"
                                 /\ outcome[e] = "none" /\ settlement[e] = "none"

RecoveryInv ==
    /\ ThreadsOfTurns /\ QueuedTurns /\ QueuedReceipts /\ DownIsEmpty
    /\ RecoveredTurnsHaveNoOpenReceipt

LEMMA QueuePops ==
    ASSUME queue \in Seq(Writes), queue # <<>>, queue' = Tail(queue)
    PROVE  /\ Len(queue) \in Nat /\ Len(queue') \in Nat /\ 1 \in 1..Len(queue)
           /\ Head(queue) = queue[1]
           /\ \A i \in 1..Len(queue') : i + 1 \in 1..Len(queue) /\ queue'[i] = queue[i + 1]
BY SMT

LEMMA QueuePushes ==
    ASSUME queue \in Seq(Writes), NEW w \in Writes, queue' = Append(queue, w)
    PROVE  /\ Len(queue) \in Nat /\ Len(queue') = Len(queue) + 1
           /\ \A i \in 1..Len(queue) : queue'[i] = queue[i]
           /\ queue'[Len(queue) + 1] = w
BY SMT

\* The writer takes a write.
LEMMA PopKeepsTurns ==
    ASSUME TypeOK, QueuedTurns, queue # <<>>, queue' = Tail(queue),
           \A t \in Turns : \/ pass'[t] = pass[t]
                            \/ \A i \in 1..Len(queue') :
                                  queue'[i] \notin {Write("openTurn", t), Write("recoverTurn", t)}
    PROVE  QueuedTurns'
<1>1. /\ Len(queue) \in Nat /\ Len(queue') \in Nat
      /\ \A i \in 1..Len(queue') : i + 1 \in 1..Len(queue) /\ queue'[i] = queue[i + 1]
  BY QueuePops DEF TypeOK
<1>2. ASSUME NEW i \in 1..Len(queue'), NEW t \in Turns
      PROVE  /\ queue'[i] = Write("recoverTurn", t) => pass'[t] = "ended"
             /\ queue'[i] = Write("openTurn", t) => pass'[t] = "opening"
  BY <1>1 DEF QueuedTurns
<1>3. ASSUME NEW i \in 1..Len(queue'), NEW j \in 1..Len(queue'), NEW t \in Turns,
             queue'[i] = Write("openTurn", t), queue'[j] = Write("openTurn", t)
      PROVE  i = j
  <2>1. i + 1 = j + 1 BY <1>1, <1>3 DEF QueuedTurns
  <2> QED BY <1>1, <2>1
<1> QED BY <1>2, <1>3 DEF QueuedTurns, Write

LEMMA PopKeepsReceipts ==
    ASSUME TypeOK, QueuedReceipts, queue # <<>>, queue' = Tail(queue),
           \A e \in Effects : \/ turn'[TurnOf[e]] = "recovered" => turn[TurnOf[e]] = "recovered"
                              \/ \A i \in 1..Len(queue') : queue'[i] # Write("open", e)
    PROVE  QueuedReceipts'
<1>1. /\ Len(queue) \in Nat /\ Len(queue') \in Nat
      /\ \A i \in 1..Len(queue') : i + 1 \in 1..Len(queue) /\ queue'[i] = queue[i + 1]
  BY QueuePops DEF TypeOK
<1>2. ASSUME NEW i \in 1..Len(queue'), NEW e \in Effects, queue'[i] = Write("open", e)
      PROVE  turn'[TurnOf[e]] # "recovered"
  BY <1>1, <1>2 DEF QueuedReceipts
<1>3. ASSUME NEW i \in 1..Len(queue'), NEW j \in 1..Len(queue'), NEW e \in Effects,
             queue'[i] = Write("recoverTurn", TurnOf[e]), queue'[j] = Write("open", e)
      PROVE  j < i
  <2>1. j + 1 < i + 1 BY <1>1, <1>3 DEF QueuedReceipts
  <2> QED BY <1>1, <2>1
<1> QED BY <1>2, <1>3 DEF QueuedReceipts, Write

\* Somebody asks for a write that opens and recovers nothing.
LEMMA PushKeepsOrder ==
    ASSUME TypeOK, QueuedTurns, QueuedReceipts, NEW op \in {"value", "failure", "interrupt", "closeTurn"},
           NEW x, Write(op, x) \in Writes, queue' = Append(queue, Write(op, x)),
           turn' = turn,
           \A t \in Turns : pass'[t] = pass[t] \/ (pass[t] # "opening" /\ pass'[t] = "ended")
    PROVE  QueuedTurns' /\ QueuedReceipts'
<1>1. /\ Len(queue) \in Nat /\ Len(queue') = Len(queue) + 1
      /\ \A i \in 1..Len(queue) : queue'[i] = queue[i]
      /\ queue'[Len(queue) + 1] = Write(op, x)
  BY QueuePushes DEF TypeOK
<1>2. /\ \A t \in Turns : Write(op, x) \notin {Write("recoverTurn", t), Write("openTurn", t)}
      /\ \A e \in Effects : Write(op, x) # Write("open", e)
  BY DEF Write
<1>3. \A i \in 1..Len(queue') : i \in 1..Len(queue) \/ i = Len(queue) + 1
  BY <1>1
<1>4. QueuedTurns' BY <1>1, <1>2, <1>3 DEF QueuedTurns, Write
<1>5. QueuedReceipts' BY <1>1, <1>2, <1>3, EffectsAssumption DEF QueuedReceipts, Write
<1> QED BY <1>4, <1>5

\* What the writer commits.
LEMMA RecoveryWriterStep ==
    ASSUME ReceiptsInv, ReceiptsInv', RecoveryInv, Writer
    PROVE  RecoveryInv'
<1>0. TypeOK /\ TypeOK' BY DEF ReceiptsInv
<1>1. queue # <<>> /\ queue' = Tail(queue) /\ up' = up
  BY DEF Writer, CommitsOpen, CommitsInterruption, Refuses, CommitsResult, CommitsTurnOpen,
         CommitsTurnClose, CommitsRecovery, Queued, Answer, process
<1>2. /\ Len(queue) \in Nat /\ Len(queue') \in Nat /\ 1 \in 1..Len(queue)
      /\ Head(queue) = queue[1]
      /\ \A i \in 1..Len(queue') : i + 1 \in 1..Len(queue) /\ queue'[i] = queue[i + 1]
  BY <1>0, <1>1, QueuePops DEF TypeOK
<1>3. up BY <1>1 DEF RecoveryInv, DownIsEmpty
<1>4. DownIsEmpty' BY <1>1, <1>3 DEF DownIsEmpty
<1>5. ASSUME UNCHANGED <<turn, pass>>, Open' \subseteq Open PROVE RecoveryInv'
  <2>1. QueuedTurns' /\ QueuedReceipts'
    BY <1>0, <1>1, <1>5, PopKeepsTurns, PopKeepsReceipts DEF RecoveryInv
  <2>2. ThreadsOfTurns' BY <1>5 DEF RecoveryInv, ThreadsOfTurns
  <2>3. RecoveredTurnsHaveNoOpenReceipt'
    BY <1>5 DEF RecoveryInv, RecoveredTurnsHaveNoOpenReceipt
  <2> QED BY <1>4, <2>1, <2>2, <2>3 DEF RecoveryInv
<1>6. ASSUME NEW e \in Effects, CommitsOpen(e) PROVE RecoveryInv'
  <2>1. UNCHANGED <<turn, pass>> BY <1>6 DEF CommitsOpen
  <2>2. queue[1] = Write("open", e) BY <1>2, <1>6 DEF CommitsOpen, Queued, Write
  <2>3. turn[TurnOf[e]] # "recovered" BY <1>2, <2>2 DEF RecoveryInv, QueuedReceipts
  <2>4. Open' \subseteq Open \cup {e} BY <1>6 DEF CommitsOpen, Open, Terminal
  <2>5. RecoveredTurnsHaveNoOpenReceipt'
    BY <2>1, <2>3, <2>4 DEF RecoveryInv, RecoveredTurnsHaveNoOpenReceipt
  <2>6. QueuedTurns' /\ QueuedReceipts'
    BY <1>0, <1>1, <2>1, PopKeepsTurns, PopKeepsReceipts DEF RecoveryInv
  <2>7. ThreadsOfTurns' BY <2>1 DEF RecoveryInv, ThreadsOfTurns
  <2> QED BY <1>4, <2>5, <2>6, <2>7 DEF RecoveryInv
<1>7. ASSUME NEW e \in Effects,
             \/ CommitsInterruption(e) \/ Refuses(e)
             \/ \E kind \in {"value", "failure"} : CommitsResult(e, kind)
      PROVE  RecoveryInv'
  <2>1. UNCHANGED <<turn, pass>>
    BY <1>7 DEF CommitsInterruption, Refuses, CommitsResult, store
  <2>2. Open' \subseteq Open
    <3>1. CASE CommitsInterruption(e) BY <3>1 DEF CommitsInterruption, Open, Terminal
    <3>2. CASE Refuses(e) BY <3>2 DEF Refuses, store, Open, Terminal
    <3>3. ASSUME NEW kind \in {"value", "failure"}, CommitsResult(e, kind) PROVE Open' \subseteq Open
      BY <1>0, <3>3 DEF CommitsResult, Open, Terminal, TypeOK
    <3> QED BY <1>7, <3>1, <3>2, <3>3
  <2> QED BY <1>5, <2>1, <2>2
<1>8. ASSUME NEW t \in Turns, CommitsTurnOpen(t) PROVE RecoveryInv'
  <2>1. /\ turn' = [turn EXCEPT ![t] = "open"] /\ pass' = [pass EXCEPT ![t] = "running"]
        /\ UNCHANGED Receipt
    BY <1>8 DEF CommitsTurnOpen
  <2>2. queue[1] = Write("openTurn", t) BY <1>2, <1>8 DEF CommitsTurnOpen, Queued, Write
  <2>3. pass[t] = "opening" BY <1>2, <2>2 DEF RecoveryInv, QueuedTurns
  <2>4. ThreadsOfTurns' BY <1>0, <2>1 DEF RecoveryInv, ThreadsOfTurns, TypeOK
  <2>5. QueuedTurns'
    <3>1. \A i \in 1..Len(queue') :
            queue'[i] # Write("openTurn", t) /\ queue'[i] # Write("recoverTurn", t)
      BY <1>2, <2>2, <2>3 DEF RecoveryInv, QueuedTurns
    <3>2. \A u \in Turns : u # t => pass'[u] = pass[u] BY <1>0, <2>1 DEF TypeOK
    <3> QED BY <1>0, <1>1, <3>1, <3>2, PopKeepsTurns DEF RecoveryInv
  <2>6. QueuedReceipts'
    <3>1. \A u \in Turns : turn'[u] = "recovered" => turn[u] = "recovered"
      BY <1>0, <2>1 DEF TypeOK
    <3> QED BY <1>0, <1>1, <3>1, EffectsAssumption, PopKeepsReceipts DEF RecoveryInv
  <2>7. RecoveredTurnsHaveNoOpenReceipt'
    <3>1. \A u \in Turns : turn'[u] = "recovered" => turn[u] = "recovered"
      BY <1>0, <2>1 DEF TypeOK
    <3>2. Open' = Open BY <2>1 DEF Receipt, Open, Terminal
    <3>3. \A e \in Open : TurnOf[e] \in Turns
      BY <1>0, EffectsAssumption DEF Open, TypeOK
    <3> QED BY <3>1, <3>2, <3>3 DEF RecoveryInv, RecoveredTurnsHaveNoOpenReceipt
  <2> QED BY <1>4, <2>4, <2>5, <2>6, <2>7 DEF RecoveryInv
<1>9. ASSUME NEW t \in Turns, CommitsTurnClose(t) PROVE RecoveryInv'
  <2>1. /\ turn' = [turn EXCEPT ![t] = IF turn[t] = "open" THEN "closed" ELSE turn[t]]
        /\ pass' = pass /\ UNCHANGED Receipt
    BY <1>9 DEF CommitsTurnClose
  <2>2. \A u \in Turns : /\ turn'[u] = "recovered" => turn[u] = "recovered"
                         /\ turn'[u] # "absent" => turn[u] # "absent"
    BY <1>0, <2>1 DEF TypeOK
  <2>3. ThreadsOfTurns' BY <2>1, <2>2 DEF RecoveryInv, ThreadsOfTurns
  <2>4. QueuedTurns' /\ QueuedReceipts'
    BY <1>0, <1>1, <2>1, <2>2, EffectsAssumption, PopKeepsTurns, PopKeepsReceipts DEF RecoveryInv
  <2>5. Open' = Open BY <2>1 DEF Receipt, Open, Terminal
  <2>6. RecoveredTurnsHaveNoOpenReceipt'
    <3>1. \A e \in Open : TurnOf[e] \in Turns
      BY <1>0, EffectsAssumption DEF Open, TypeOK
    <3> QED BY <2>2, <2>5, <3>1 DEF RecoveryInv, RecoveredTurnsHaveNoOpenReceipt
  <2> QED BY <1>4, <2>3, <2>4, <2>6 DEF RecoveryInv
<1>10. ASSUME NEW t \in Turns, CommitsRecovery(t) PROVE RecoveryInv'
  <2>1. /\ turn' = [u \in Turns |-> IF u = t /\ turn[t] = "open" THEN "recovered" ELSE turn[u]]
        /\ pass' = pass /\ opened' = opened /\ result' = result
        /\ interrupted' = interrupted \cup {e \in Open : TurnOf[e] = t /\ turn[t] = "open"}
    BY <1>0, <1>10 DEF CommitsRecovery, Recovers, StampsInterrupted, TypeOK
  <2>2. queue[1] = Write("recoverTurn", t) BY <1>2, <1>10 DEF CommitsRecovery, Queued, Write
  <2>3. pass[t] = "ended" BY <1>2, <2>2 DEF RecoveryInv, QueuedTurns
  <2>4. ThreadsOfTurns' BY <2>1, <2>3 DEF RecoveryInv, ThreadsOfTurns
  <2>5. QueuedTurns' BY <1>0, <1>1, <2>1, PopKeepsTurns DEF RecoveryInv
  <2>6. QueuedReceipts'
    <3>1. \A i \in 1..Len(queue'), e \in Effects : queue'[i] = Write("open", e) => TurnOf[e] # t
      BY <1>2, <2>2 DEF RecoveryInv, QueuedReceipts
    <3> QED BY <1>0, <1>1, <2>1, <3>1, EffectsAssumption, PopKeepsReceipts DEF RecoveryInv
  <2>7. RecoveredTurnsHaveNoOpenReceipt'
    <3>1. /\ Open' = {e \in Open : ~(TurnOf[e] = t /\ turn[t] = "open")}
          /\ \A e \in Open : TurnOf[e] \in Turns
      BY <1>0, <2>1, EffectsAssumption DEF Open, Terminal, TypeOK
    <3> QED BY <2>1, <3>1 DEF RecoveryInv, RecoveredTurnsHaveNoOpenReceipt
  <2> QED BY <1>4, <2>4, <2>5, <2>6, <2>7 DEF RecoveryInv
<1> QED BY <1>6, <1>7, <1>8, <1>9, <1>10 DEF Writer

\* What a turn's thread, and whoever stops it, ask for.
LEMMA RecoveryTurnStep ==
    ASSUME ReceiptsInv, ReceiptsInv', RecoveryInv, NEW t \in Turns, TurnStep(t)
    PROVE  RecoveryInv'
<1>0. TypeOK BY DEF ReceiptsInv
<1>1. UNCHANGED <<store, request, handler, process, settlement>>
  BY DEF TurnStep, TurnAsks, TurnCloses, TurnEscapes, AgentStops, RecordsInterruption, TurnEnds, writer
<1>2. RecoveredTurnsHaveNoOpenReceipt'
  BY <1>1 DEF store, Open, Terminal, RecoveryInv, RecoveredTurnsHaveNoOpenReceipt
<1>3. up
  BY DEF TurnStep, TurnAsks, TurnCloses, TurnEscapes, AgentStops, RecordsInterruption, TurnEnds,
         RecoveryInv, DownIsEmpty
<1>4. DownIsEmpty' BY <1>1, <1>3 DEF DownIsEmpty, process
<1>5. ASSUME NEW op \in {"openTurn", "closeTurn", "recoverTurn"}, Enqueue(op, t)
      PROVE  /\ Len(queue) \in Nat /\ Len(queue') = Len(queue) + 1
             /\ \A i \in 1..Len(queue') : i \in 1..Len(queue) \/ i = Len(queue) + 1
             /\ \A i \in 1..Len(queue) : queue'[i] = queue[i]
             /\ queue'[Len(queue) + 1] = Write(op, t)
  <2>1. Write(op, t) \in Writes BY <1>5 DEF Write, Writes, TurnWrites
  <2>2. queue' = Append(queue, Write(op, t)) BY <1>5 DEF Enqueue, Write
  <2>3. /\ Len(queue) \in Nat /\ Len(queue') = Len(queue) + 1
        /\ \A i \in 1..Len(queue) : queue'[i] = queue[i]
        /\ queue'[Len(queue) + 1] = Write(op, t)
    BY <1>0, <2>1, <2>2, QueuePushes DEF TypeOK
  <2> QED BY <2>3
<1>6. CASE TurnAsks(t)
  <2>1. /\ turn[t] = "absent" /\ turn' = turn /\ pass[t] = "none"
        /\ pass' = [pass EXCEPT ![t] = "opening"] /\ Enqueue("openTurn", t)
    BY <1>6 DEF TurnAsks, store
  <2>2. ThreadsOfTurns' BY <1>0, <2>1 DEF RecoveryInv, ThreadsOfTurns, TypeOK
  <2>3. \A i \in 1..Len(queue) :
          queue[i] # Write("openTurn", t) /\ queue[i] # Write("recoverTurn", t)
    BY <2>1 DEF RecoveryInv, QueuedTurns
  <2>4. \A u \in Turns : u # t => pass'[u] = pass[u] BY <1>0, <2>1 DEF TypeOK
  <2>5. QueuedTurns'
    <3>1. ASSUME NEW i \in 1..Len(queue'), NEW u \in Turns
          PROVE  /\ queue'[i] = Write("recoverTurn", u) => pass'[u] = "ended"
                 /\ queue'[i] = Write("openTurn", u) => pass'[u] = "opening"
      <4>1. CASE i \in 1..Len(queue)
        BY <1>5, <2>1, <2>3, <2>4, <4>1 DEF RecoveryInv, QueuedTurns
      <4>2. CASE i = Len(queue) + 1
        <5>1. queue'[i] = Write("openTurn", t) BY <1>5, <2>1, <4>2
        <5> QED BY <1>0, <2>1, <5>1 DEF Write, TypeOK
      <4> QED BY <1>5, <2>1, <4>1, <4>2
    <3>2. ASSUME NEW i \in 1..Len(queue'), NEW j \in 1..Len(queue'), NEW u \in Turns,
                 queue'[i] = Write("openTurn", u), queue'[j] = Write("openTurn", u)
          PROVE  i = j
      <4>1. CASE u = t
        BY <1>5, <2>1, <2>3, <3>2, <4>1
      <4>2. CASE u # t
        <5>1. queue'[Len(queue) + 1] # Write("openTurn", u)
          BY <1>5, <2>1, <4>2 DEF Write
        <5>2. i \in 1..Len(queue) /\ j \in 1..Len(queue)
          BY <1>5, <2>1, <3>2, <5>1
        <5> QED BY <1>5, <2>1, <3>2, <5>2 DEF RecoveryInv, QueuedTurns
      <4> QED BY <4>1, <4>2
    <3> QED BY <3>1, <3>2 DEF QueuedTurns, Write
  <2>6. QueuedReceipts'
    <3>1. /\ \A e \in Effects : queue'[Len(queue) + 1] # Write("open", e)
          /\ \A u \in Turns : queue'[Len(queue) + 1] # Write("recoverTurn", u)
      BY <1>5, <2>1 DEF Write
    <3> QED BY <1>5, <2>1, <3>1, EffectsAssumption DEF RecoveryInv, QueuedReceipts, Write
  <2> QED BY <1>2, <1>4, <2>2, <2>5, <2>6 DEF RecoveryInv
<1>7. ASSUME NEW from \in {"running", "interrupted"}, NEW op \in {"closeTurn", "recoverTurn"},
             TurnEnds(t, from, op)
      PROVE  RecoveryInv'
  <2>1. /\ turn' = turn /\ pass[t] = from
        /\ pass' = [pass EXCEPT ![t] = "ended"] /\ Enqueue(op, t)
    BY <1>7 DEF TurnEnds, store
  <2>2. ThreadsOfTurns' BY <1>0, <2>1 DEF RecoveryInv, ThreadsOfTurns, TypeOK
  <2>3. pass'[t] = "ended" /\ \A u \in Turns : u # t => pass'[u] = pass[u]
    BY <1>0, <2>1 DEF TypeOK
  <2>4. /\ \A u \in Turns : queue'[Len(queue) + 1] # Write("openTurn", u)
        /\ \A u \in Turns : queue'[Len(queue) + 1] = Write("recoverTurn", u) => u = t
        /\ \A e \in Effects : queue'[Len(queue) + 1] # Write("open", e)
    BY <1>5, <2>1 DEF Write
  <2>5. QueuedTurns'
    <3>1. ASSUME NEW i \in 1..Len(queue'), NEW u \in Turns
          PROVE  /\ queue'[i] = Write("recoverTurn", u) => pass'[u] = "ended"
                 /\ queue'[i] = Write("openTurn", u) => pass'[u] = "opening"
      <4>1. CASE i \in 1..Len(queue)
        BY <1>5, <2>1, <2>3, <4>1 DEF RecoveryInv, QueuedTurns
      <4>2. CASE i = Len(queue) + 1
        BY <2>3, <2>4, <4>2
      <4> QED BY <1>5, <2>1, <4>1, <4>2
    <3>2. ASSUME NEW i \in 1..Len(queue'), NEW j \in 1..Len(queue'), NEW u \in Turns,
                 queue'[i] = Write("openTurn", u), queue'[j] = Write("openTurn", u)
          PROVE  i = j
      <4>1. i \in 1..Len(queue) /\ j \in 1..Len(queue)
        BY <1>5, <2>1, <2>4, <3>2
      <4> QED BY <1>5, <2>1, <3>2, <4>1 DEF RecoveryInv, QueuedTurns
    <3> QED BY <3>1, <3>2 DEF QueuedTurns, Write
  <2>6. QueuedReceipts'
    <3>1. ASSUME NEW i \in 1..Len(queue'), NEW e \in Effects, queue'[i] = Write("open", e)
          PROVE  i \in 1..Len(queue) /\ queue[i] = Write("open", e)
      BY <1>5, <2>1, <2>4, <3>1
    <3>2. ASSUME NEW i \in 1..Len(queue'), NEW j \in 1..Len(queue'), NEW e \in Effects,
                 queue'[i] = Write("recoverTurn", TurnOf[e]), queue'[j] = Write("open", e)
          PROVE  j < i
      <4>1. j \in 1..Len(queue) /\ queue[j] = Write("open", e) BY <3>1, <3>2
      <4>2. CASE i \in 1..Len(queue)
        BY <1>5, <2>1, <3>2, <4>1, <4>2 DEF RecoveryInv, QueuedReceipts
      <4>3. CASE i = Len(queue) + 1
        BY <1>5, <2>1, <4>1, <4>3
      <4> QED BY <1>5, <2>1, <4>2, <4>3
    <3>3. ASSUME NEW i \in 1..Len(queue'), NEW e \in Effects, queue'[i] = Write("open", e)
          PROVE  turn'[TurnOf[e]] # "recovered"
      BY <2>1, <3>1, <3>3 DEF RecoveryInv, QueuedReceipts
    <3> QED BY <3>2, <3>3 DEF QueuedReceipts, Write
  <2> QED BY <1>2, <1>4, <2>2, <2>5, <2>6 DEF RecoveryInv
<1>8. CASE AgentStops(t)
  <2>1. /\ turn' = turn /\ queue' = queue /\ pass[t] = "running"
        /\ pass' = [pass EXCEPT ![t] = "interrupted"]
    BY <1>8 DEF AgentStops, store, writer
  <2>2. ThreadsOfTurns' BY <1>0, <2>1 DEF RecoveryInv, ThreadsOfTurns, TypeOK
  <2>3. QueuedTurns' BY <1>0, <2>1 DEF RecoveryInv, QueuedTurns, TypeOK, Write
  <2>4. QueuedReceipts' BY <2>1 DEF RecoveryInv, QueuedReceipts, Write
  <2> QED BY <1>2, <1>4, <2>2, <2>3, <2>4 DEF RecoveryInv
<1> QED BY <1>6, <1>7, <1>8 DEF TurnStep, TurnCloses, TurnEscapes, RecordsInterruption

\* What a request and the handler's work leave alone, and what they queue.
LEMMA RecoveryEffectStep ==
    ASSUME ReceiptsInv, RecoveryInv, NEW e \in Effects, Request(e) \/ Work(e)
    PROVE  RecoveryInv'
<1>0. TypeOK BY DEF ReceiptsInv
<1>1. UNCHANGED <<turn, opened, result, interrupted, pass, up>>
  BY DEF Request, RequestInvalid, RequestOpens, OpenRefused, GivesUp, Dispatches, AwaitEnds,
         AwaitTimesOut, AwaitInterrupted, RequestReturns, Work, HandlerStarts, LauncherAnswers,
         LauncherThrows, HandlerEnds, DetachedCompletes, Settles, StagingThrows, store, process
<1>2. up
  <2> USE DEF RecoveryInv, DownIsEmpty
  <2>1. CASE Request(e)
    <3>1. \/ at[e] \in {"opening", "waiting"}
          \/ pass[TurnOf[e]] \in {"running", "interrupted"}
      BY <2>1 DEF Request, RequestInvalid, RequestOpens, OpenRefused, GivesUp, Dispatches, AwaitEnds,
                  AwaitTimesOut, AwaitInterrupted, RequestReturns, MayRequest, Awaits
    <3> QED BY <3>1, EffectsAssumption
  <2>2. CASE Work(e)
    <3>1. work[e] # "none" \/ outcome[e] # "none" \/ settlement[e] # "none"
      BY <2>2 DEF Work, HandlerStarts, LauncherAnswers, LauncherThrows, HandlerEnds,
                  DetachedCompletes, Settles, StagingThrows, Decisions
    <3> QED BY <3>1
  <2> QED BY <2>1, <2>2
<1>3. DownIsEmpty' BY <1>1, <1>2 DEF DownIsEmpty
<1>4. ThreadsOfTurns' BY <1>1 DEF RecoveryInv, ThreadsOfTurns
<1>5. RecoveredTurnsHaveNoOpenReceipt'
  BY <1>1 DEF Open, Terminal, RecoveryInv, RecoveredTurnsHaveNoOpenReceipt
<1>6. QueuedTurns' /\ QueuedReceipts'
  <2>1. CASE queue' = queue
    BY <1>1, <2>1 DEF RecoveryInv, QueuedTurns, QueuedReceipts, Write
  <2>2. CASE RequestOpens(e)
    <3>1. /\ queue' = Append(queue, Write("open", e)) /\ Write("open", e) \in Writes
          /\ pass[TurnOf[e]] \in {"running", "interrupted"}
      BY <2>2 DEF RequestOpens, Asks, Enqueue, MayRequest, Write, Writes, EffectWrites
    <3>2. /\ Len(queue) \in Nat /\ Len(queue') = Len(queue) + 1
          /\ \A i \in 1..Len(queue) : queue'[i] = queue[i]
          /\ queue'[Len(queue) + 1] = Write("open", e)
      BY <1>0, <3>1, QueuePushes DEF TypeOK
    <3>3. \A i \in 1..Len(queue') : i \in 1..Len(queue) \/ i = Len(queue) + 1
      BY <3>2
    <3>4. /\ \A t \in Turns : Write("open", e) \notin {Write("recoverTurn", t), Write("openTurn", t)}
          /\ \A f \in Effects : Write("open", e) = Write("open", f) => f = e
      BY DEF Write
    <3>a. ASSUME NEW i \in 1..Len(queue'), NEW t \in Turns,
                 queue'[i] \in {Write("recoverTurn", t), Write("openTurn", t)}
          PROVE  i \in 1..Len(queue) /\ queue'[i] = queue[i]
      BY <3>2, <3>3, <3>4, <3>a
    <3>b. ASSUME NEW i \in 1..Len(queue'), NEW t \in Turns
          PROVE  /\ queue'[i] = Write("recoverTurn", t) => pass'[t] = "ended"
                 /\ queue'[i] = Write("openTurn", t) => pass'[t] = "opening"
      BY <1>1, <3>a DEF RecoveryInv, QueuedTurns
    <3>c. ASSUME NEW i \in 1..Len(queue'), NEW j \in 1..Len(queue'), NEW t \in Turns,
                 queue'[i] = Write("openTurn", t), queue'[j] = Write("openTurn", t)
          PROVE  i = j
      <4>1. i \in 1..Len(queue) /\ j \in 1..Len(queue) /\ queue'[i] = queue[i] /\ queue'[j] = queue[j]
        BY <3>a, <3>c
      <4> QED BY <3>c, <4>1 DEF RecoveryInv, QueuedTurns
    <3>5. QueuedTurns' BY <3>b, <3>c DEF QueuedTurns, Write
    <3>6. TurnOf[e] \in Turns BY EffectsAssumption
    <3>7. turn[TurnOf[e]] # "recovered"
      BY <3>1, <3>6 DEF RecoveryInv, ThreadsOfTurns
    <3>8. \A i \in 1..Len(queue) : queue[i] # Write("recoverTurn", TurnOf[e])
      BY <3>1, <3>6 DEF RecoveryInv, QueuedTurns
    <3>9. ASSUME NEW i \in 1..Len(queue'), NEW f \in Effects, queue'[i] = Write("open", f)
          PROVE  turn'[TurnOf[f]] # "recovered"
      BY <1>1, <3>2, <3>3, <3>4, <3>7, <3>9 DEF RecoveryInv, QueuedReceipts
    <3>10. ASSUME NEW i \in 1..Len(queue'), NEW j \in 1..Len(queue'), NEW f \in Effects,
                  queue'[i] = Write("recoverTurn", TurnOf[f]), queue'[j] = Write("open", f)
           PROVE  j < i
      <4>0. TurnOf[f] \in Turns BY EffectsAssumption
      <4>1. i \in 1..Len(queue) /\ queue[i] = Write("recoverTurn", TurnOf[f])
        BY <3>2, <3>3, <3>4, <3>10, <4>0
      <4>2. f # e BY <3>8, <4>1
      <4>3. j \in 1..Len(queue) /\ queue[j] = Write("open", f)
        BY <3>2, <3>3, <3>4, <3>10, <4>2
      <4> QED BY <4>1, <4>3 DEF RecoveryInv, QueuedReceipts
    <3> QED BY <3>5, <3>9, <3>10 DEF QueuedReceipts, Write
  <2>3. CASE Settles(e)
    <3>1. settlement[e] \in {"value", "failure", "interrupt"}
      BY <2>3 DEF Settles, Decisions
    <3>2. /\ queue' = Append(queue, Write(settlement[e], e)) /\ Write(settlement[e], e) \in Writes
      BY <2>3, <3>1 DEF Settles, Asks, Enqueue, Write, Writes, EffectWrites
    <3> QED BY <1>0, <1>1, <3>1, <3>2, PushKeepsOrder DEF RecoveryInv
  <2>4. queue' = queue \/ RequestOpens(e) \/ Settles(e)
    BY DEF Request, RequestInvalid, OpenRefused, GivesUp, Dispatches, AwaitEnds, AwaitTimesOut,
           AwaitInterrupted, RequestReturns, Work, HandlerStarts, LauncherAnswers, LauncherThrows,
           HandlerEnds, DetachedCompletes, StagingThrows, writer
  <2> QED BY <2>1, <2>2, <2>3, <2>4
<1> QED BY <1>3, <1>4, <1>5, <1>6 DEF RecoveryInv

\* The process ends, and starts again.
LEMMA RecoveryCrashStep ==
    ASSUME ReceiptsInv, RecoveryInv, Crash
    PROVE  RecoveryInv'
<1>0. TypeOK BY DEF ReceiptsInv
<1>1. /\ queue' = <<>> /\ UNCHANGED store /\ ~up'
      /\ pass' = [t \in Turns |-> IF pass[t] = "none" \/ turn[t] = "absent" THEN "none" ELSE "ended"]
  BY DEF Crash
<1>2. ThreadsOfTurns' BY <1>0, <1>1 DEF RecoveryInv, ThreadsOfTurns, store
<1>3. QueuedTurns' /\ QueuedReceipts' BY <1>1 DEF QueuedTurns, QueuedReceipts
<1>4. DownIsEmpty' BY <1>0, <1>1 DEF DownIsEmpty, Crash, TypeOK
<1>5. RecoveredTurnsHaveNoOpenReceipt'
  BY <1>1 DEF store, Open, Terminal, RecoveryInv, RecoveredTurnsHaveNoOpenReceipt
<1> QED BY <1>2, <1>3, <1>4, <1>5 DEF RecoveryInv

LEMMA RecoveryBootStep ==
    ASSUME ReceiptsInv, RecoveryInv, Boot
    PROVE  RecoveryInv'
<1>0. TypeOK BY DEF ReceiptsInv
<1>1. /\ ~up /\ up' /\ queue' = queue /\ pass' = pass /\ opened' = opened /\ result' = result
      /\ turn' = [t \in Turns |-> IF turn[t] = "open" THEN "recovered" ELSE turn[t]]
      /\ interrupted' = interrupted \cup {e \in Open : TurnOf[e] \in Turns /\ turn[TurnOf[e]] = "open"}
  BY DEF Boot, Recovers, StampsInterrupted, writer
<1>2. queue = <<>> /\ \A t \in Turns : pass[t] \in {"none", "ended"}
  BY <1>1 DEF RecoveryInv, DownIsEmpty
<1>3. ThreadsOfTurns' BY <1>1, <1>2 DEF RecoveryInv, ThreadsOfTurns
<1>4. QueuedTurns' /\ QueuedReceipts' BY <1>1, <1>2 DEF QueuedTurns, QueuedReceipts
<1>5. RecoveredTurnsHaveNoOpenReceipt'
  <2>1. /\ Open' = {e \in Open : ~(TurnOf[e] \in Turns /\ turn[TurnOf[e]] = "open")}
        /\ \A e \in Open : TurnOf[e] \in Turns
    BY <1>0, <1>1, EffectsAssumption DEF Open, Terminal, TypeOK
  <2> QED BY <1>1, <2>1 DEF RecoveryInv, RecoveredTurnsHaveNoOpenReceipt
<1> QED BY <1>1, <1>3, <1>4, <1>5 DEF RecoveryInv, DownIsEmpty

\* No receipt of a recovered turn is open, and none is opened for it later.
THEOREM RecoveryLeavesNoneOpen == Spec => []RecoveredTurnsHaveNoOpenReceipt
<1>1. Init => RecoveryInv
  <2> SUFFICES ASSUME Init PROVE RecoveryInv
      OBVIOUS
  <2>1. queue = <<>> /\ up /\ opened = {} /\ turn = [t \in Turns |-> "absent"]
    BY DEF Init
  <2> QED BY <2>1 DEF RecoveryInv, ThreadsOfTurns, QueuedTurns, QueuedReceipts, DownIsEmpty,
                      RecoveredTurnsHaveNoOpenReceipt, Open
<1>2. ReceiptsInv /\ ReceiptsInv' /\ RecoveryInv /\ [Next]_vars => RecoveryInv'
  <2> SUFFICES ASSUME ReceiptsInv, ReceiptsInv', RecoveryInv, [Next]_vars PROVE RecoveryInv'
      OBVIOUS
  <2>1. CASE UNCHANGED vars
    BY <2>1 DEF vars, store, writer, request, handler, process, Open, Terminal, RecoveryInv,
                ThreadsOfTurns, QueuedTurns, QueuedReceipts, DownIsEmpty, Write,
                RecoveredTurnsHaveNoOpenReceipt
  <2> QED BY <2>1, RecoveryWriterStep, RecoveryTurnStep, RecoveryEffectStep, RecoveryCrashStep,
             RecoveryBootStep DEF Next
<1>3. RecoveryInv => RecoveredTurnsHaveNoOpenReceipt BY DEF RecoveryInv
<1> QED BY <1>1, <1>2, <1>3, ReceiptsInvHolds, PTL DEF Spec
=============================================================================
