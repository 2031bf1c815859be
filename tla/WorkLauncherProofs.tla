------------------------- MODULE WorkLauncherProofs -------------------------
(***************************************************************************)
(* What TLAPS proves of WorkLauncher, for any finite set of submissions    *)
(* and any bounds: type correctness, that complete! is called at most once *)
(* however the parties race, that refused work never runs, that the        *)
(* unsettled work stays within the admission bound and that a clean stop   *)
(* leaves nothing accepted unanswered.                                     *)
(***************************************************************************)
EXTENDS WorkLauncher, FiniteSetTheorems, TLAPS

\* A settled submission has a settler.
ClaimedByAParty == \A s \in Submissions : status[s] \in Settled => settler[s] \in Parties

TypeInv == TypeOK /\ ClaimedByAParty

\* The compare-and-set of io-terminal!, won or lost.
LEMMA ClaimTypes ==
    ASSUME TypeInv, NEW s \in Submissions, NEW party \in Parties,
           Claim(s, party) \/ ClaimLost(s)
    PROVE  /\ status' \in [Submissions -> Unsettled \cup Settled]
           /\ settler' \in [Submissions -> Parties \cup {"none"}]
           /\ ClaimedByAParty'
<1> USE DEF TypeInv, TypeOK, ClaimedByAParty, Unsettled, Settled, Parties
<1>1. CASE Claim(s, party) BY <1>1 DEF Claim
<1>2. CASE ClaimLost(s) BY <1>2 DEF ClaimLost
<1> QED BY <1>1, <1>2

LEMMA TypeStep == TypeInv /\ [Next]_vars => TypeInv'
<1> SUFFICES ASSUME TypeInv, [Next]_vars PROVE TypeInv'
    OBVIOUS
<1> USE DEF TypeInv, TypeOK, ClaimedByAParty, Unsettled, Settled, Parties,
            admission, process, work, stopping
<1>1. ASSUME NEW s \in Submissions, Terminal(s) PROVE TypeInv'
  <2>1. CASE Complete(s) BY <2>1 DEF Complete
  <2>2. CASE Forget(s) BY <2>2 DEF Forget
  <2>3. CASE OfferCompletion(s) BY <2>3 DEF OfferCompletion
  <2>4. CASE SkipOffer(s) BY <2>4 DEF SkipOffer
  <2>5. CASE OfferToNoChannel(s) BY <2>5 DEF OfferToNoChannel
  <2> QED BY <1>1, <2>1, <2>2, <2>3, <2>4, <2>5 DEF Terminal
<1>2. ASSUME NEW s \in Submissions, Submit(s) PROVE TypeInv'
  <2>1. CASE SubmitStopped(s) BY <2>1 DEF SubmitStopped
  <2>2. CASE SubmitOpens(s) BY <2>2 DEF SubmitOpens
  <2>3. CASE SubmitAdmits(s) BY <2>3 DEF SubmitAdmits
  <2>4. CASE SubmitFull(s) BY <2>4 DEF SubmitFull, Claim
  <2>5. CASE SubmitInjects(s) BY <2>5 DEF SubmitInjects
  <2>6. CASE SubmitTooLate(s) BY <2>6, ClaimTypes DEF SubmitTooLate
  <2>7. CASE SubmitRefuses(s) BY <2>7 DEF SubmitRefuses
  <2> QED BY <1>2, <2>1, <2>2, <2>3, <2>4, <2>5, <2>6, <2>7 DEF Submit
<1>3. ASSUME NEW s \in Submissions, Inject(s) PROVE TypeInv'
  BY <1>3 DEF Inject
<1>4. CASE Launcher
  <2>1. CASE LauncherUncounts BY <2>1 DEF LauncherUncounts
  <2>2. CASE LauncherExits BY <2>2 DEF LauncherExits
  <2>3. ASSUME NEW s \in Submissions, LaunchStep(s) PROVE TypeInv'
    <3>1. CASE LauncherSkips(s) BY <3>1 DEF LauncherSkips, CanTake
    <3>2. CASE LauncherClaims(s) BY <3>2 DEF LauncherClaims, CanTake
    <3>3. CASE LauncherActivates(s) BY <3>3 DEF LauncherActivates
    <3>4. CASE LauncherTasks(s) BY <3>4 DEF LauncherTasks
    <3>5. CASE LauncherExecutes(s) BY <3>5 DEF LauncherExecutes
    <3>6. CASE LauncherRejected(s) BY <3>6, ClaimTypes DEF LauncherRejected
    <3>7. CASE LauncherCounts(s) BY <3>7 DEF LauncherCounts
    <3> QED BY <2>3, <3>1, <3>2, <3>3, <3>4, <3>5, <3>6, <3>7 DEF LaunchStep
  <2> QED BY <1>4, <2>1, <2>2, <2>3 DEF Launcher
<1>5. ASSUME NEW s \in Submissions, Worker(s) PROVE TypeInv'
  <2>1. CASE WorkerStarts(s) BY <2>1 DEF WorkerStarts
  <2>2. CASE WorkerSkips(s) BY <2>2 DEF WorkerSkips
  <2>3. CASE WorkerRegisters(s) BY <2>3 DEF WorkerRegisters
  <2>4. CASE WorkerReturns(s) BY <2>4 DEF WorkerReturns
  <2>5. CASE WorkerSettles(s) BY <2>5, ClaimTypes DEF WorkerSettles
  <2> QED BY <1>5, <2>1, <2>2, <2>3, <2>4, <2>5 DEF Worker
<1>6. ASSUME NEW s \in Submissions, DispatchExpires(s) \/ Interrupter(s) PROVE TypeInv'
  <2>1. CASE DispatchExpires(s) BY <2>1 DEF DispatchExpires
  <2>2. CASE InterruptLooksUp(s) BY <2>2 DEF InterruptLooksUp
  <2>3. CASE InterruptSettles(s) BY <2>3, ClaimTypes DEF InterruptSettles
  <2>4. CASE InterruptReturns(s) BY <2>4 DEF InterruptReturns
  <2>5. CASE InterruptRunning(s) BY <2>5 DEF InterruptRunning, InterruptTask
  <2> QED BY <1>6, <2>1, <2>2, <2>3, <2>4, <2>5 DEF Interrupter
<1>7. CASE StopCloses BY <1>7 DEF StopCloses
<1>8. CASE Stop
  <2>1. CASE StopSnapshots BY <2>1 DEF StopSnapshots
  <2>2. CASE StopAwaitsDrain BY <2>2 DEF StopAwaitsDrain
  <2>3. CASE StopDrains BY <2>3 DEF StopDrains
  <2>4. CASE StopReturns BY <2>4 DEF StopReturns
  <2>5. ASSUME NEW s \in Submissions, StopInterrupts(s) PROVE TypeInv'
    BY <2>5 DEF StopInterrupts, InterruptTask
  <2>6. ASSUME NEW s \in Submissions, StopDeactivates(s) PROVE TypeInv'
    BY <2>6 DEF StopDeactivates
  <2>7. ASSUME NEW s \in Submissions, StopSettles(s) PROVE TypeInv'
    BY <2>7, ClaimTypes DEF StopSettles
  <2>8. ASSUME NEW s \in Submissions, StopMovesOn(s) PROVE TypeInv'
    BY <2>8 DEF StopMovesOn
  <2> QED BY <1>8, <2>1, <2>2, <2>3, <2>4, <2>5, <2>6, <2>7, <2>8 DEF Stop
<1>9. CASE UNCHANGED vars BY <1>9 DEF vars
<1>10. CASE \E s \in Submissions :
                Submit(s) \/ Inject(s) \/ Worker(s) \/ DispatchExpires(s) \/ Interrupter(s)
                \/ Terminal(s)
  BY <1>10, <1>1, <1>2, <1>3, <1>5, <1>6, Zenon
<1> QED BY <1>4, <1>7, <1>8, <1>9, <1>10 DEF Next

LEMMA InitTypeInv == Init => TypeInv
<1> SUFFICES ASSUME Init PROVE TypeInv
  OBVIOUS
<1>1. <<>> \in Seq(Submissions) /\ <<>> \in Seq(Parties)
  OBVIOUS
<1>2. answers \in [Submissions -> Seq(Parties)]
  BY <1>1 DEF Init
<1>3. inbox \in Seq(Submissions)
  BY <1>1 DEF Init
<1>4. ClaimedByAParty
  BY DEF Init, ClaimedByAParty, Settled
<1>5. accepting \in BOOLEAN /\ drained \in BOOLEAN /\ exited \in BOOLEAN
  BY Zenon DEF Init
<1>6. ioActive \in Int /\ completions \in Nat
  BY DEF Init
<1>7. TypeOK
  BY <1>2, <1>3, <1>5, <1>6, Zenon DEF Init, TypeOK, Unsettled
<1> QED
  BY <1>4, <1>7 DEF TypeInv

LEMMA TypeInvariant == Spec => []TypeInv
BY InitTypeInv, TypeStep, PTL DEF Spec

\* Every reachable state of the launcher is well typed.
THEOREM TypeCorrect == Spec => []TypeOK
BY TypeInvariant, PTL DEF TypeInv

-----------------------------------------------------------------------------
(* The inductive invariant behind the settlement properties.               *)

\* submit! called complete! itself, without the compare-and-set.
RefusedDirectly(s) == submitter[s] = "false" /\ status[s] = "queued"

\* Only what submit! injected reaches the channel, the launcher or a thread.
Uninjected(s) ==
    submitter[s] # "true" =>
        /\ s \notin injecting
        /\ \A i \in 1..Len(inbox) : inbox[i] # s
        /\ launch[s] = "none" /\ worker[s] = "none"

\* Nobody else has met a submission that was never admitted, so nobody can
\* settle it a second time.
Unseen(s) ==
    submitter[s] \in {"idle", "open"} \/ RefusedDirectly(s) =>
        /\ status[s] = "queued" /\ s \notin ioSubmissions /\ s \notin sweep
        /\ interrupter[s] \in {"idle", "expired", "absent"}

Counted(s) ==
    Len(answers[s]) =
        IF status[s] \in {"answered", "forgotten", "done"} \/ RefusedDirectly(s) THEN 1 ELSE 0

RefusingIsSettled(s) == submitter[s] = "refusing" => status[s] \in Settled

\* Admitted work stays in io-submissions until its answer was delivered.
HeldUntilForgotten(s) ==
    submitter[s] \in {"admitted", "true"} =>
        s \in ioSubmissions \/ status[s] \in {"forgotten", "done"}

\* Until submit! returns nobody interrupts, and only a stop settles.
OpenUntilStopped(s) ==
    /\ submitter[s] \in {"idle", "open", "admitted", "refusing"} =>
          interrupter[s] = "idle" /\ settler[s] # "interrupt"
    /\ submitter[s] = "admitted" /\ accepting => status[s] = "queued"

SubmissionInv(s) ==
    /\ Uninjected(s) /\ Unseen(s) /\ Counted(s)
    /\ RefusingIsSettled(s) /\ HeldUntilForgotten(s) /\ OpenUntilStopped(s)

\* drained is delivered after the close, and nothing accepted enters later.
DrainInv ==
    /\ drained => ~accepting /\ \A s \in Submissions : submitter[s] = "true" => s \notin ioSubmissions
    /\ stopper # "idle" => ~accepting
    /\ \A s \in Submissions : settler[s] = "stop" => stopper # "idle"
    /\ stopper \in {"joining", "ok"} => drained

SubmissionsInv == \A s \in Submissions : SubmissionInv(s)

\* The stop is still in its sweep, at s, while it settles s.
SweepInv ==
    /\ \A s \in Submissions : settler[s] = "stop" /\ status[s] # "done" =>
          stopper = "sweeping" /\ s \in sweep /\ swept[s] = "settling"
    /\ \A s, t \in sweep : swept[s] \notin {"no", "yes"} /\ swept[t] \notin {"no", "yes"} => s = t
    /\ stopper \in {"idle", "closed"} => \A s \in Submissions : swept[s] = "no"

SettlementInv == TypeInv /\ SubmissionsInv /\ DrainInv /\ SweepInv

LEMMA SettlementStep == SettlementInv /\ [Next]_vars => SubmissionsInv' /\ DrainInv'
<1> SUFFICES ASSUME SettlementInv, [Next]_vars PROVE SubmissionsInv' /\ DrainInv'
    OBVIOUS
<1> USE DEF SettlementInv, SubmissionsInv, SubmissionInv, TypeInv, TypeOK, ClaimedByAParty,
            Uninjected, Unseen, Counted, RefusingIsSettled, HeldUntilForgotten, RefusedDirectly,
            OpenUntilStopped, DrainInv, Unsettled, Settled, Parties, admission, process, work, stopping
<1>1. ASSUME NEW s \in Submissions, Terminal(s) PROVE SubmissionsInv' /\ DrainInv'
  <2>1. CASE Complete(s)
    <3>1. answers[s] \in Seq(Parties) /\ settler[s] \in Parties
      BY <2>1 DEF Complete
    <3>2. answers'[s] = Append(answers[s], settler[s])
      BY <2>1 DEF Complete
    <3>3. Len(answers[s]) = 0
      BY <2>1 DEF Complete
    <3>4. Len(answers'[s]) = 1
      BY <3>1, <3>2, <3>3
    <3>5. \A t \in Submissions \ {s} : answers'[t] = answers[t] /\ status'[t] = status[t]
      BY <2>1 DEF Complete
    <3>6. Counted(s)'
      BY <2>1, <3>4 DEF Complete
    <3>7. \A t \in Submissions \ {s} : Counted(t)'
      BY <2>1, <3>5 DEF Complete
    <3>8. \A t \in Submissions :
              Uninjected(t)' /\ Unseen(t)' /\ RefusingIsSettled(t)' /\ HeldUntilForgotten(t)'
              /\ OpenUntilStopped(t)'
      BY <2>1 DEF Complete
    <3>9. DrainInv'
      BY <2>1 DEF Complete
    <3> HIDE DEF Uninjected, Unseen, Counted, RefusingIsSettled, HeldUntilForgotten,
                OpenUntilStopped, DrainInv
    <3> QED BY <3>6, <3>7, <3>8, <3>9
  <2>2. CASE Forget(s) BY <2>2 DEF Forget
  <2>3. CASE OfferCompletion(s) BY <2>3 DEF OfferCompletion
  <2>4. CASE SkipOffer(s) BY <2>4 DEF SkipOffer
  <2>5. CASE OfferToNoChannel(s)
    <3>1. SubmissionsInv'
      BY <2>5 DEF OfferToNoChannel
    <3>2. stopper' \in {stopper, "threw"} /\ drained' = drained /\ accepting' = accepting
      BY <2>5 DEF OfferToNoChannel
    <3>3. stopper' = "threw" => ~accepting
      BY <2>5 DEF OfferToNoChannel
    <3>4. DrainInv'
      BY <2>5, <3>2, <3>3 DEF OfferToNoChannel
    <3> QED BY <3>1, <3>4
  <2> QED BY <1>1, <2>1, <2>2, <2>3, <2>4, <2>5 DEF Terminal
<1>2. ASSUME NEW s \in Submissions, Submit(s) PROVE SubmissionsInv' /\ DrainInv'
  <2>1. CASE SubmitStopped(s)
    <3>1. answers[s] \in Seq(Parties) /\ "submit" \in Parties
      BY <2>1 DEF SubmitStopped
    <3>2. answers'[s] = Append(answers[s], "submit")
      BY <2>1 DEF SubmitStopped
    <3>3. Len(answers[s]) = 0
      BY <2>1 DEF SubmitStopped
    <3>4. Len(answers'[s]) = 1
      BY <3>1, <3>2, <3>3
    <3>5. Counted(s)'
      BY <2>1, <3>4 DEF SubmitStopped
    <3>6. \A t \in Submissions \ {s} : Counted(t)'
      BY <2>1 DEF SubmitStopped
    <3>7. \A t \in Submissions :
              Uninjected(t)' /\ Unseen(t)' /\ RefusingIsSettled(t)' /\ HeldUntilForgotten(t)'
              /\ OpenUntilStopped(t)'
      BY <2>1 DEF SubmitStopped
    <3>8. DrainInv'
      BY <2>1 DEF SubmitStopped
    <3> HIDE DEF Uninjected, Unseen, Counted, RefusingIsSettled, HeldUntilForgotten,
                OpenUntilStopped, DrainInv
    <3> QED BY <3>5, <3>6, <3>7, <3>8
  <2>2. CASE SubmitOpens(s) BY <2>2 DEF SubmitOpens
  <2>3. CASE SubmitAdmits(s) BY <2>3 DEF SubmitAdmits
  <2>4. CASE SubmitFull(s) BY <2>4 DEF SubmitFull, Claim
  <2>5. CASE SubmitInjects(s) BY <2>5 DEF SubmitInjects
  <2>6. CASE SubmitTooLate(s) BY <2>6 DEF SubmitTooLate, Claim, ClaimLost
  <2>7. CASE SubmitRefuses(s) BY <2>7 DEF SubmitRefuses
  <2> QED BY <1>2, <2>1, <2>2, <2>3, <2>4, <2>5, <2>6, <2>7 DEF Submit
<1>3. ASSUME NEW s \in Submissions, Inject(s) PROVE SubmissionsInv' /\ DrainInv'
  BY <1>3 DEF Inject
<1>4. ASSUME NEW s \in Submissions, LaunchStep(s) PROVE SubmissionsInv' /\ DrainInv'
  <2>1. CASE LauncherSkips(s) BY <2>1 DEF LauncherSkips, CanTake
  <2>2. CASE LauncherClaims(s) BY <2>2 DEF LauncherClaims, CanTake
  <2>3. CASE LauncherActivates(s) BY <2>3 DEF LauncherActivates
  <2>4. CASE LauncherTasks(s) BY <2>4 DEF LauncherTasks
  <2>5. CASE LauncherExecutes(s) BY <2>5 DEF LauncherExecutes
  <2>6. CASE LauncherRejected(s) BY <2>6 DEF LauncherRejected, Claim, ClaimLost
  <2>7. CASE LauncherCounts(s) BY <2>7 DEF LauncherCounts
  <2> QED BY <1>4, <2>1, <2>2, <2>3, <2>4, <2>5, <2>6, <2>7 DEF LaunchStep
<1>5. ASSUME NEW s \in Submissions, Worker(s) PROVE SubmissionsInv' /\ DrainInv'
  <2>1. CASE WorkerStarts(s) BY <2>1 DEF WorkerStarts
  <2>2. CASE WorkerSkips(s) BY <2>2 DEF WorkerSkips
  <2>3. CASE WorkerRegisters(s) BY <2>3 DEF WorkerRegisters
  <2>4. CASE WorkerReturns(s) BY <2>4 DEF WorkerReturns
  <2>5. CASE WorkerSettles(s) BY <2>5 DEF WorkerSettles, Claim, ClaimLost
  <2> QED BY <1>5, <2>1, <2>2, <2>3, <2>4, <2>5 DEF Worker
<1>6. ASSUME NEW s \in Submissions, DispatchExpires(s) PROVE SubmissionsInv' /\ DrainInv'
  BY <1>6 DEF DispatchExpires
<1>7. ASSUME NEW s \in Submissions, Interrupter(s) PROVE SubmissionsInv' /\ DrainInv'
  <2>1. CASE InterruptLooksUp(s) BY <2>1 DEF InterruptLooksUp
  <2>2. CASE InterruptSettles(s)
    <3>1. CASE Claim(s, "interrupt")
      <4>1. SubmissionsInv' BY <2>2, <3>1 DEF InterruptSettles, Claim
      <4>2. DrainInv' BY <2>2, <3>1 DEF InterruptSettles, Claim
      <4> QED BY <4>1, <4>2
    <3>2. CASE ClaimLost(s) BY <2>2, <3>2 DEF InterruptSettles, ClaimLost
    <3> QED BY <2>2, <3>1, <3>2 DEF InterruptSettles
  <2>3. CASE InterruptReturns(s) BY <2>3 DEF InterruptReturns
  <2>4. CASE InterruptRunning(s) BY <2>4 DEF InterruptRunning, InterruptTask
  <2> QED BY <1>7, <2>1, <2>2, <2>3, <2>4 DEF Interrupter
<1>8. CASE LauncherUncounts BY <1>8 DEF LauncherUncounts
<1>9. CASE LauncherExits BY <1>9 DEF LauncherExits
<1>10. CASE StopCloses BY <1>10 DEF StopCloses
<1>11. CASE StopSnapshots BY <1>11 DEF StopSnapshots
<1>12. CASE StopAwaitsDrain BY <1>12 DEF StopAwaitsDrain
<1>13. CASE StopDrains BY <1>13 DEF StopDrains
<1>14. CASE StopReturns BY <1>14 DEF StopReturns
<1>15. ASSUME NEW s \in Submissions, StopInterrupts(s) PROVE SubmissionsInv' /\ DrainInv'
  BY <1>15 DEF StopInterrupts, InterruptTask, Sweeping
<1>16. ASSUME NEW s \in Submissions, StopDeactivates(s) PROVE SubmissionsInv' /\ DrainInv'
  BY <1>16 DEF StopDeactivates
<1>17. ASSUME NEW s \in Submissions, StopSettles(s) PROVE SubmissionsInv' /\ DrainInv'
  <2>1. stopper = "sweeping" /\ ~accepting /\ s \in sweep
    BY <1>17 DEF StopSettles, Sweeping
  <2>2. CASE Claim(s, "stop")
    <3>1. SubmissionsInv' BY <1>17, <2>1, <2>2 DEF StopSettles, Claim
    <3>2. DrainInv' BY <1>17, <2>1, <2>2 DEF StopSettles, Claim
    <3> QED BY <3>1, <3>2
  <2>3. CASE ClaimLost(s) BY <1>17, <2>3 DEF StopSettles, ClaimLost
  <2> QED BY <1>17, <2>2, <2>3 DEF StopSettles
<1>18. ASSUME NEW s \in Submissions, StopMovesOn(s) PROVE SubmissionsInv' /\ DrainInv'
  BY <1>18 DEF StopMovesOn
<1>19. CASE UNCHANGED vars BY <1>19 DEF vars
<1> QED BY <1>1, <1>2, <1>3, <1>4, <1>5, <1>6, <1>7, <1>8, <1>9, <1>10, <1>11, <1>12, <1>13, <1>14, <1>15, <1>16, <1>17, <1>18, <1>19 DEF Next, Launcher, Stop

LEMMA SweepStep == SettlementInv /\ [Next]_vars => SweepInv'
<1> SUFFICES ASSUME SettlementInv, [Next]_vars PROVE SweepInv'
    OBVIOUS
<1> USE DEF SettlementInv, SweepInv, TypeInv, TypeOK, ClaimedByAParty, Unsettled, Settled,
            Parties, admission, process, work, stopping
<1>1. ASSUME NEW s \in Submissions, Complete(s) PROVE SweepInv'
  BY <1>1 DEF Complete
<1>2. ASSUME NEW s \in Submissions, Forget(s) PROVE SweepInv'
  BY <1>2 DEF Forget
<1>3. ASSUME NEW s \in Submissions, OfferCompletion(s) PROVE SweepInv'
  BY <1>3 DEF OfferCompletion
<1>4. ASSUME NEW s \in Submissions, SkipOffer(s) PROVE SweepInv'
  BY <1>4 DEF SkipOffer
<1>5. ASSUME NEW s \in Submissions, OfferToNoChannel(s) PROVE SweepInv'
  <2>1. status[s] = "forgotten" /\ status' = [status EXCEPT ![s] = "done"] /\ settler' = settler
        /\ sweep' = sweep /\ swept' = swept
    BY <1>5 DEF OfferToNoChannel
  <2>2. CASE settler[s] = "stop"
    <3>1. stopper = "sweeping" /\ s \in sweep /\ swept[s] = "settling"
      BY <2>1, <2>2
    <3>2. \A t \in Submissions : settler[t] = "stop" /\ status[t] # "done" => t = s
      BY <3>1
    <3>3. stopper' = "threw"
      BY <1>5, <2>2 DEF OfferToNoChannel
    <3> QED BY <2>1, <3>2, <3>3
  <2>3. CASE settler[s] # "stop"
    <3>1. stopper' = stopper
      BY <1>5, <2>3 DEF OfferToNoChannel
    <3> QED BY <2>1, <3>1
  <2> QED BY <2>2, <2>3
<1>6. ASSUME NEW s \in Submissions, SubmitFull(s) PROVE SweepInv'
  BY <1>6 DEF SubmitFull, Claim
<1>7. ASSUME NEW s \in Submissions, SubmitTooLate(s) PROVE SweepInv'
  BY <1>7 DEF SubmitTooLate, Claim, ClaimLost
<1>8. ASSUME NEW s \in Submissions, LauncherRejected(s) PROVE SweepInv'
  BY <1>8 DEF LauncherRejected, Claim, ClaimLost
<1>9. ASSUME NEW s \in Submissions, WorkerSettles(s) PROVE SweepInv'
  BY <1>9 DEF WorkerSettles, Claim, ClaimLost
<1>10. ASSUME NEW s \in Submissions, InterruptSettles(s) PROVE SweepInv'
  BY <1>10 DEF InterruptSettles, Claim, ClaimLost
<1>11. ASSUME NEW s \in Submissions, LauncherClaims(s) PROVE SweepInv'
  BY <1>11 DEF LauncherClaims, CanTake
<1>12. ASSUME NEW s \in Submissions, StopInterrupts(s) PROVE SweepInv'
  BY <1>12 DEF StopInterrupts, InterruptTask, Sweeping
<1>13. ASSUME NEW s \in Submissions, StopDeactivates(s) PROVE SweepInv'
  BY <1>13 DEF StopDeactivates, Sweeping
<1>14. ASSUME NEW s \in Submissions, StopSettles(s) PROVE SweepInv'
  BY <1>14 DEF StopSettles, Claim, ClaimLost, Sweeping
<1>15. ASSUME NEW s \in Submissions, StopMovesOn(s) PROVE SweepInv'
  BY <1>15 DEF StopMovesOn, Sweeping
<1>16. CASE StopCloses BY <1>16 DEF StopCloses, DrainInv
<1>17. CASE StopSnapshots BY <1>17 DEF StopSnapshots
<1>18. CASE StopAwaitsDrain BY <1>18 DEF StopAwaitsDrain
<1>19. CASE StopDrains BY <1>19 DEF StopDrains
<1>20. CASE StopReturns BY <1>20 DEF StopReturns
<1>21. CASE UNCHANGED <<status, settler, stopping>> BY <1>21
<1>22. CASE LauncherUncounts \/ LauncherExits \/ UNCHANGED vars
  BY <1>22, <1>21 DEF LauncherUncounts, LauncherExits, vars
<1>23. ASSUME NEW s \in Submissions,
              \/ SubmitStopped(s) \/ SubmitOpens(s) \/ SubmitAdmits(s) \/ SubmitInjects(s)
              \/ SubmitRefuses(s) \/ Inject(s) \/ DispatchExpires(s)
       PROVE  SweepInv'
  BY <1>23, <1>21 DEF SubmitStopped, SubmitOpens, SubmitAdmits, SubmitInjects, SubmitRefuses,
     Inject, DispatchExpires
<1>24. ASSUME NEW s \in Submissions,
              \/ LauncherSkips(s) \/ LauncherActivates(s) \/ LauncherTasks(s)
              \/ LauncherExecutes(s) \/ LauncherCounts(s)
       PROVE  SweepInv'
  BY <1>24, <1>21 DEF LauncherSkips, LauncherActivates, LauncherTasks, LauncherExecutes,
     LauncherCounts
<1>25. ASSUME NEW s \in Submissions,
              \/ WorkerStarts(s) \/ WorkerSkips(s) \/ WorkerRegisters(s) \/ WorkerReturns(s)
              \/ InterruptLooksUp(s) \/ InterruptReturns(s) \/ InterruptRunning(s)
       PROVE  SweepInv'
  BY <1>25, <1>21 DEF WorkerStarts, WorkerSkips, WorkerRegisters, WorkerReturns,
     InterruptLooksUp, InterruptReturns, InterruptRunning
<1> HIDE DEF SweepInv
<1> QED
  BY <1>1, <1>2, <1>3, <1>4, <1>5, <1>6, <1>7, <1>8, <1>9, <1>10, <1>11, <1>12, <1>13, <1>14, <1>15, <1>16, <1>17, <1>18, <1>19, <1>20, <1>21, <1>22, <1>23, <1>24, <1>25
  DEF Next, Launcher, Stop, Terminal, Submit, LaunchStep, Worker, Interrupter

LEMMA SettlementInvariant == Spec => []SettlementInv
<1>1. Init => SettlementInv
  <2> SUFFICES ASSUME Init PROVE SettlementInv
    OBVIOUS
  <2>1. TypeInv BY InitTypeInv
  <2>2. DrainInv BY DEF Init, DrainInv
  <2>3. \A s \in Submissions : Len(answers[s]) = 0 BY DEF Init
  <2>4. SubmissionsInv
    BY <2>3 DEF Init, SubmissionsInv, SubmissionInv, Uninjected, Unseen, Counted,
                RefusingIsSettled, HeldUntilForgotten, OpenUntilStopped, RefusedDirectly
  <2>5. SweepInv BY DEF Init, SweepInv
  <2> QED BY <2>1, <2>2, <2>4, <2>5 DEF SettlementInv
<1>2. SettlementInv /\ [Next]_vars => SettlementInv'
  BY SettlementStep, SweepStep, TypeStep DEF SettlementInv
<1> QED BY <1>1, <1>2, PTL DEF Spec

\* complete! is called at most once for each submission.
THEOREM AnswersOnce == Spec => []AnsweredAtMostOnce
<1>1. SettlementInv => AnsweredAtMostOnce
  BY DEF SettlementInv, SubmissionsInv, SubmissionInv, Counted, AnsweredAtMostOnce
<1> QED BY <1>1, SettlementInvariant, PTL

\* Work that submit! refused never reaches a thread.
THEOREM RefusalsNeverRun == Spec => []RefusedNeverRuns
<1>1. SettlementInv => RefusedNeverRuns
  BY DEF SettlementInv, SubmissionsInv, SubmissionInv, Uninjected, RefusedNeverRuns
<1> QED BY <1>1, SettlementInvariant, PTL

LEMMA CleanStopReading == SettlementInv => StoppedMeansAnswered
<1> SUFFICES ASSUME SettlementInv, stopper = "ok", NEW s \in Submissions, submitter[s] = "true"
             PROVE  answers[s] # <<>>
  BY DEF StoppedMeansAnswered
<1>1. s \notin ioSubmissions
  BY DEF SettlementInv, DrainInv
<1>2. Len(answers[s]) = 1
  BY <1>1 DEF SettlementInv, SubmissionsInv, SubmissionInv, HeldUntilForgotten, Counted
<1> QED BY <1>2

\* When stop answers nil every accepted submission has been answered.
THEOREM CleanStopAnswersAll == Spec => []StoppedMeansAnswered
BY CleanStopReading, SettlementInvariant, PTL

-----------------------------------------------------------------------------
(* The admission bound.                                                    *)

\* io-submissions grows by one submission, under the bound, or shrinks.
LEMMA IoSubmissionsChange ==
    ASSUME [Next]_vars
    PROVE  \/ ioSubmissions' = ioSubmissions
           \/ \E s \in Submissions : ioSubmissions' = ioSubmissions \ {s}
           \/ HasRoom /\ \E s \in Submissions : ioSubmissions' = ioSubmissions \cup {s}
<1> USE DEF admission
<1>1. ASSUME NEW s \in Submissions, Terminal(s)
      PROVE  ioSubmissions' = ioSubmissions \/ ioSubmissions' = ioSubmissions \ {s}
  BY <1>1 DEF Terminal, Complete, Forget, OfferCompletion, SkipOffer, OfferToNoChannel
<1>2. ASSUME NEW s \in Submissions, Submit(s)
      PROVE  ioSubmissions' = ioSubmissions \/ (HasRoom /\ ioSubmissions' = ioSubmissions \cup {s})
  BY <1>2 DEF Submit, SubmitStopped, SubmitOpens, SubmitAdmits, SubmitFull, SubmitInjects,
              SubmitTooLate, SubmitRefuses
<1>3. ASSUME NEW s \in Submissions,
             Inject(s) \/ Worker(s) \/ DispatchExpires(s) \/ Interrupter(s) \/ LaunchStep(s)
      PROVE  ioSubmissions' = ioSubmissions
  <2>1. CASE Inject(s) \/ Worker(s)
    BY <2>1 DEF Inject, Worker, WorkerStarts, WorkerSkips, WorkerRegisters, WorkerReturns,
                WorkerSettles
  <2>2. CASE DispatchExpires(s) \/ Interrupter(s)
    BY <2>2 DEF DispatchExpires, Interrupter, InterruptLooksUp, InterruptSettles,
                InterruptReturns, InterruptRunning
  <2>3. CASE LaunchStep(s)
    BY <2>3 DEF LaunchStep, LauncherSkips, LauncherClaims, LauncherActivates, LauncherTasks,
                LauncherExecutes, LauncherRejected, LauncherCounts
  <2> QED BY <1>3, <2>1, <2>2, <2>3
<1>4. CASE LauncherUncounts \/ LauncherExits \/ UNCHANGED vars
  BY <1>4 DEF LauncherUncounts, LauncherExits, vars
<1>5. CASE StopCloses \/ Stop
  BY <1>5 DEF StopCloses, Stop, StopSnapshots, StopAwaitsDrain, StopDrains, StopReturns,
              StopInterrupts, StopDeactivates, StopSettles, StopMovesOn
<1> QED BY <1>1, <1>2, <1>3, <1>4, <1>5 DEF Next, Launcher

LEMMA IoSubmissionsFinite == TypeInv => IsFiniteSet(ioSubmissions)
BY SubmissionsAssumption, FS_Subset DEF TypeInv, TypeOK

\* No more than concurrency + queue-depth submissions are unsettled at once.
THEOREM AdmissionStaysBounded == Spec => []AdmissionBounded
<1>1. Init => AdmissionBounded
  BY FS_EmptySet, BoundsAssumption DEF Init, AdmissionBounded, Capacity
<1>2. TypeInv /\ AdmissionBounded /\ [Next]_vars => AdmissionBounded'
  <2> SUFFICES ASSUME TypeInv, AdmissionBounded, [Next]_vars PROVE AdmissionBounded'
    OBVIOUS
  <2>1. IsFiniteSet(ioSubmissions) /\ Cardinality(ioSubmissions) \in Nat /\ Capacity \in Nat
    BY IoSubmissionsFinite, FS_CardinalityType, BoundsAssumption DEF Capacity
  <2>2. CASE ioSubmissions' = ioSubmissions
    BY <2>2 DEF AdmissionBounded, Capacity
  <2>3. ASSUME NEW s \in Submissions, ioSubmissions' = ioSubmissions \ {s}
        PROVE  AdmissionBounded'
    <3>1. Cardinality(ioSubmissions') <= Cardinality(ioSubmissions)
      BY <2>1, <2>3, FS_Subset
    <3>2. Cardinality(ioSubmissions') \in Nat
      BY <2>1, <2>3, FS_Subset, FS_CardinalityType
    <3> QED BY <2>1, <3>1, <3>2 DEF AdmissionBounded, Capacity
  <2>4. ASSUME HasRoom, NEW s \in Submissions, ioSubmissions' = ioSubmissions \cup {s}
        PROVE  AdmissionBounded'
    <3>1. Cardinality(ioSubmissions') <= Cardinality(ioSubmissions) + 1
      BY <2>1, <2>4, FS_AddElement
    <3>2. Cardinality(ioSubmissions') \in Nat
      BY <2>1, <2>4, FS_AddElement, FS_CardinalityType
    <3> QED BY <2>1, <2>4, <3>1, <3>2 DEF HasRoom, AdmissionBounded, Capacity
  <2> QED BY <2>2, <2>3, <2>4, IoSubmissionsChange
<1> QED BY <1>1, <1>2, TypeInvariant, PTL DEF Spec

-----------------------------------------------------------------------------
(* The launcher implements BoundedSettlement.                              *)

abstractVars == <<Outstanding, Promised, Answered, stopper = "ok">>

LEMMA AbstractInit == Init => Abstract!SettlementInit
BY DEF Init, Abstract!SettlementInit, Outstanding, Promised, Answered

\* What the invariant says of the abstract state.
LEMMA AbstractReading ==
    ASSUME SettlementInv, NEW s \in Submissions
    PROVE  /\ status[s] \in {"queued", "running", "claimed"} /\ ~RefusedDirectly(s) => s \notin Answered
           /\ s \in Promised /\ s \notin Answered => s \in ioSubmissions
<1>1. answers[s] \in Seq(Parties)
  BY DEF SettlementInv, TypeInv, TypeOK
<1>2. Len(answers[s]) = 0 => answers[s] = <<>>
  BY <1>1
<1>3. Len(answers[s]) = 1 => answers[s] # <<>>
  BY <1>1
<1>4. status[s] \in {"queued", "running", "claimed"} /\ ~RefusedDirectly(s) => s \notin Answered
  BY <1>2 DEF SettlementInv, SubmissionsInv, SubmissionInv, Counted, Answered
<1>5. s \in Promised /\ s \notin Answered => s \in ioSubmissions
  BY <1>3 DEF SettlementInv, SubmissionsInv, SubmissionInv, Counted, HeldUntilForgotten, Answered,
              Promised
<1> QED BY <1>4, <1>5

LEMMA AppendNotEmpty == ASSUME NEW S, NEW q \in Seq(S), NEW e \in S PROVE Append(q, e) # <<>>
<1>1. Len(Append(q, e)) = Len(q) + 1 /\ Len(q) \in Nat
  OBVIOUS
<1>2. Len(<<>>) = 0
  OBVIOUS
<1> QED BY <1>1, <1>2

LEMMA CompleteRefines ==
    ASSUME SettlementInv, NEW s \in Submissions, Complete(s)
    PROVE  Abstract!Answer(s) \/ Abstract!Refuse(s)
<1> USE DEF SettlementInv, TypeInv, TypeOK, admission, process, stopping
<1>1. s \notin Answered
  BY AbstractReading DEF Complete, RefusedDirectly
<1>2. answers' = [answers EXCEPT ![s] = Append(answers[s], settler[s])]
      /\ ioSubmissions' = ioSubmissions /\ submitter' = submitter /\ stopper' = stopper
  BY DEF Complete
<1>3. answers'[s] # <<>> /\ \A t \in Submissions \ {s} : answers'[t] = answers[t]
  <2>1. answers[s] \in Seq(Parties) /\ settler[s] \in Parties
    BY DEF Complete, ClaimedByAParty, Settled
  <2> QED BY <2>1, <1>2, AppendNotEmpty
<1>4. Answered' = Answered \cup {s}
  BY <1>3 DEF Answered
<1>5. Promised' = Promised /\ (stopper = "ok")' = (stopper = "ok")
  BY <1>2 DEF Promised
<1>6. CASE s \in ioSubmissions
  <2>1. s \in Outstanding /\ Outstanding' = Outstanding \ {s}
    BY <1>1, <1>2, <1>4, <1>6 DEF Outstanding
  <2> QED BY <2>1, <1>4, <1>5 DEF Abstract!Answer
<1>7. CASE s \notin ioSubmissions
  <2>1. Outstanding' = Outstanding /\ s \notin Outstanding
    BY <1>2, <1>4, <1>7 DEF Outstanding
  <2>2. s \notin Promised
    BY <1>1, <1>7, AbstractReading
  <2> QED BY <2>1, <2>2, <1>1, <1>4, <1>5 DEF Abstract!Refuse
<1> QED BY <1>6, <1>7

LEMMA SubmitRefines ==
    ASSUME SettlementInv, NEW s \in Submissions, Submit(s)
    PROVE  \/ Abstract!Refuse(s) \/ Abstract!Admit(s) \/ Abstract!Promise(s)
           \/ UNCHANGED abstractVars
<1> USE DEF SettlementInv, TypeInv, TypeOK, admission, process, stopping
<1>1. CASE SubmitStopped(s)
  <2>1. s \notin Answered /\ s \notin Promised /\ s \notin ioSubmissions
    <3>1. status[s] = "queued" /\ s \notin ioSubmissions /\ ~RefusedDirectly(s)
      BY <1>1 DEF SubmitStopped, SubmissionsInv, SubmissionInv, Unseen, RefusedDirectly
    <3> QED BY <3>1, <1>1, AbstractReading DEF SubmitStopped, Promised
  <2>2. answers' = [answers EXCEPT ![s] = Append(answers[s], "submit")]
        /\ submitter' = [submitter EXCEPT ![s] = "false"]
        /\ ioSubmissions' = ioSubmissions /\ stopper' = stopper
    BY <1>1 DEF SubmitStopped
  <2>3. answers'[s] # <<>> /\ \A t \in Submissions \ {s} : answers'[t] = answers[t]
    <3>1. answers[s] \in Seq(Parties) /\ "submit" \in Parties
      BY DEF Parties
    <3> QED BY <2>2, <3>1, AppendNotEmpty
  <2>4. Answered' = Answered \cup {s}
    BY <2>3 DEF Answered
  <2>5. Promised' = Promised
    BY <2>1, <2>2 DEF Promised
  <2>6. Outstanding' = Outstanding /\ s \notin Outstanding
    BY <2>1, <2>2, <2>4 DEF Outstanding
  <2> QED BY <2>1, <2>2, <2>4, <2>5, <2>6 DEF Abstract!Refuse
<1>2. CASE SubmitAdmits(s)
  <2>1. s \notin Answered
    <3>1. status[s] = "queued" /\ ~RefusedDirectly(s)
      BY <1>2 DEF SubmitAdmits, SubmissionsInv, SubmissionInv, Unseen, RefusedDirectly
    <3> QED BY <3>1, AbstractReading
  <2>2. s \notin ioSubmissions
    BY <1>2 DEF SubmitAdmits, SubmissionsInv, SubmissionInv, Unseen
  <2>3. ioSubmissions' = ioSubmissions \cup {s} /\ answers' = answers /\ stopper' = stopper
        /\ submitter' = [submitter EXCEPT ![s] = "admitted"] /\ submitter[s] = "open" /\ HasRoom
    BY <1>2 DEF SubmitAdmits, work
  <2>4. Outstanding' = Outstanding \cup {s} /\ s \notin Outstanding
    BY <2>1, <2>2, <2>3 DEF Outstanding, Answered
  <2>5. Promised' = Promised /\ Answered' = Answered
    BY <2>3 DEF Promised, Answered
  <2>6. Cardinality(Outstanding) < Capacity
    <3>1. Outstanding \subseteq ioSubmissions /\ IsFiniteSet(ioSubmissions)
      BY IoSubmissionsFinite DEF Outstanding
    <3>2. Cardinality(Outstanding) <= Cardinality(ioSubmissions)
          /\ Cardinality(Outstanding) \in Nat /\ Cardinality(ioSubmissions) \in Nat
      BY <3>1, FS_Subset, FS_CardinalityType
    <3> QED BY <3>2, <2>3, BoundsAssumption DEF HasRoom, Capacity
  <2>7. s \notin Outstanding \cup Answered /\ (stopper = "ok")' = (stopper = "ok")
    BY <2>1, <2>3, <2>4
  <2>8. Abstract!Cardinality(Outstanding) = Cardinality(Outstanding)
    BY DEF Abstract!Cardinality, Cardinality
  <2> QED BY <2>4, <2>5, <2>6, <2>7, <2>8 DEF Abstract!Admit
<1>3. CASE SubmitInjects(s)
  <2>1. status[s] = "queued" /\ ~RefusedDirectly(s) /\ s \in ioSubmissions
    BY <1>3 DEF SubmitInjects, SubmissionsInv, SubmissionInv, OpenUntilStopped, HeldUntilForgotten,
                RefusedDirectly
  <2>2. s \in Outstanding
    BY <2>1, AbstractReading DEF Outstanding
  <2>3. stopper # "ok"
    BY <1>3 DEF SubmitInjects, DrainInv
  <2>4. ioSubmissions' = ioSubmissions /\ answers' = answers /\ stopper' = stopper
        /\ submitter' = [submitter EXCEPT ![s] = "true"]
    BY <1>3 DEF SubmitInjects, work
  <2>5. Promised' = Promised \cup {s} /\ Answered' = Answered /\ Outstanding' = Outstanding
    BY <2>4 DEF Promised, Answered, Outstanding
  <2> QED BY <2>2, <2>3, <2>4, <2>5 DEF Abstract!Promise
<1>4. CASE SubmitOpens(s) \/ SubmitFull(s) \/ SubmitTooLate(s) \/ SubmitRefuses(s)
  <2>1. ioSubmissions' = ioSubmissions /\ answers' = answers /\ stopper' = stopper
        /\ submitter[s] # "true"
        /\ \E where \in {"open", "refusing", "false"} :
              submitter' = [submitter EXCEPT ![s] = where]
    BY <1>4 DEF SubmitOpens, SubmitFull, SubmitTooLate, SubmitRefuses, work
  <2>2. Promised' = Promised
    BY <2>1 DEF Promised
  <2> QED BY <2>1, <2>2 DEF abstractVars, Outstanding, Answered
<1> QED BY <1>1, <1>2, <1>3, <1>4 DEF Submit

\* Every other step of the launcher is a stutter of the abstraction, apart
\* from stop's answer.
LEMMA OthersStutter ==
    ASSUME ioSubmissions' = ioSubmissions, answers' = answers, submitter' = submitter,
           (stopper = "ok")' = (stopper = "ok")
    PROVE  UNCHANGED abstractVars
BY DEF abstractVars, Outstanding, Promised, Answered

LEMMA RefinementStep ==
    SettlementInv /\ SettlementInv' /\ [Next]_vars
        => [Abstract!SettlementNext]_abstractVars
<1> SUFFICES ASSUME SettlementInv, SettlementInv', [Next]_vars
             PROVE  Abstract!SettlementNext \/ UNCHANGED abstractVars
    OBVIOUS
<1> USE DEF admission, process, work, stopping
<1>1. ASSUME NEW s \in Submissions, Terminal(s)
      PROVE  Abstract!SettlementNext \/ UNCHANGED abstractVars
  <2>1. CASE Complete(s)
    BY <2>1, CompleteRefines DEF Abstract!SettlementNext
  <2>2. CASE Forget(s)
    <3>1. answers[s] # <<>>
      BY <2>2 DEF Forget, SettlementInv, SubmissionsInv, SubmissionInv, Counted
    <3>2. ioSubmissions' = ioSubmissions \ {s} /\ answers' = answers /\ submitter' = submitter
          /\ stopper' = stopper
      BY <2>2 DEF Forget
    <3> QED BY <3>1, <3>2 DEF abstractVars, Outstanding, Promised, Answered
  <2>3. CASE OfferCompletion(s) \/ SkipOffer(s)
    BY <2>3, OthersStutter DEF OfferCompletion, SkipOffer
  <2>4. CASE OfferToNoChannel(s)
    <3>1. settler[s] = "stop" => stopper = "sweeping"
      BY <2>4 DEF OfferToNoChannel, SettlementInv, SweepInv
    <3>2. (stopper = "ok")' = (stopper = "ok")
      BY <2>4, <3>1 DEF OfferToNoChannel
    <3> QED BY <2>4, <3>2, OthersStutter DEF OfferToNoChannel
  <2> QED BY <1>1, <2>1, <2>2, <2>3, <2>4 DEF Terminal
<1>2. ASSUME NEW s \in Submissions, Submit(s)
      PROVE  Abstract!SettlementNext \/ UNCHANGED abstractVars
  BY <1>2, SubmitRefines DEF Abstract!SettlementNext
<1>3. ASSUME NEW s \in Submissions, Inject(s) \/ Worker(s)
      PROVE  Abstract!SettlementNext \/ UNCHANGED abstractVars
  BY <1>3, OthersStutter DEF Inject, Worker, WorkerStarts, WorkerSkips, WorkerRegisters,
     WorkerReturns, WorkerSettles
<1>4. ASSUME NEW s \in Submissions, DispatchExpires(s) \/ Interrupter(s)
      PROVE  Abstract!SettlementNext \/ UNCHANGED abstractVars
  BY <1>4, OthersStutter DEF DispatchExpires, Interrupter, InterruptLooksUp, InterruptSettles,
     InterruptReturns, InterruptRunning
<1>5. ASSUME NEW s \in Submissions, LaunchStep(s)
      PROVE  Abstract!SettlementNext \/ UNCHANGED abstractVars
  BY <1>5, OthersStutter DEF LaunchStep, LauncherSkips, LauncherClaims, LauncherActivates,
     LauncherTasks, LauncherExecutes, LauncherRejected, LauncherCounts
<1>6. CASE LauncherUncounts \/ LauncherExits \/ UNCHANGED vars
  BY <1>6, OthersStutter DEF LauncherUncounts, LauncherExits, vars
<1>7. CASE StopCloses
  BY <1>7, OthersStutter DEF StopCloses
<1>8. CASE Stop
  <2>1. CASE StopSnapshots \/ StopAwaitsDrain \/ StopDrains
    BY <2>1, OthersStutter DEF StopSnapshots, StopAwaitsDrain, StopDrains
  <2>2. CASE StopReturns
    <3>1. ioSubmissions' = ioSubmissions /\ answers' = answers /\ submitter' = submitter
          /\ stopper # "ok"
      BY <2>2 DEF StopReturns
    <3>2. CASE stopper' # "ok"
      BY <3>1, <3>2, OthersStutter
    <3>3. CASE stopper' = "ok"
      <4>1. Promised' \subseteq Answered'
        <5>1. StoppedMeansAnswered'
          BY CleanStopReading, PTL
        <5> QED BY <5>1, <3>3 DEF StoppedMeansAnswered, Promised, Answered
      <4> QED BY <3>1, <3>3, <4>1 DEF Abstract!SettlementNext, Abstract!Close, Outstanding,
                 Promised, Answered
    <3> QED BY <3>2, <3>3
  <2>3. ASSUME NEW s \in Submissions,
               StopInterrupts(s) \/ StopDeactivates(s) \/ StopSettles(s) \/ StopMovesOn(s)
        PROVE  UNCHANGED abstractVars
    BY <2>3, OthersStutter DEF StopInterrupts, StopDeactivates, StopSettles, StopMovesOn
  <2> QED BY <1>8, <2>1, <2>2, <2>3 DEF Stop
<1> QED BY <1>1, <1>2, <1>3, <1>4, <1>5, <1>6, <1>7, <1>8 DEF Next, Launcher

\* Every behaviour of the launcher is one of the abstract settlement service.
THEOREM LauncherImplementsBoundedSettlement == Spec => ImplementsBoundedSettlement
<1>1. UNCHANGED abstractVars
      <=> UNCHANGED Abstract!settlementVars
  BY DEF abstractVars, Abstract!settlementVars
<1>2. SettlementInv /\ SettlementInv' /\ [Next]_vars
        => [Abstract!SettlementNext]_(Abstract!settlementVars)
  BY <1>1, RefinementStep
<1> QED BY <1>2, AbstractInit, SettlementInvariant, PTL
        DEF Spec, ImplementsBoundedSettlement, Abstract!Settlement

-----------------------------------------------------------------------------
(* The slots.  A submission occupies a slot from its claim by the launcher *)
(* until the worker or the launcher that settled it offered a completion.  *)

Launched  == Launching \cup {"counted"}
Activated == {"active", "tasked", "executed", "counted"}

Occupies(s) == launch[s] \in Launched /\ ~(status[s] = "done" /\ HoldsCompletion(s))
Occupied    == {s \in Submissions : Occupies(s)}

\* Who settled a submission says how far its launch and its thread are.
Settling(s) ==
    /\ settler[s] # "none" => status[s] \in Settled
    /\ settler[s] = "worker" => worker[s] = "ended"
    /\ settler[s] = "launcher" => worker[s] = "none" /\ launch[s] \in {"executed", "counted"}
    /\ settler[s] = "submit" => submitter[s] \in {"refusing", "false"}
    /\ settler[s] = "interrupt" => interrupter[s] # "idle"

\* A thread is started once, by the launcher, for work it marked active; only
\* a stop takes the mark back.
Launches(s) ==
    /\ launch[s] # "none" => status[s] # "queued"
    /\ worker[s] # "none" => launch[s] \in {"executed", "counted"}
    /\ active[s] => launch[s] \in Activated
    /\ accepting /\ launch[s] \in Activated => active[s]

SlotControl == \A s \in Submissions : Settling(s) /\ Launches(s)

\* No completion is offered for a slot that was not counted, and until the
\* launcher closes none is missed.
SlotBalance ==
    /\ ioActive \in Nat
    /\ Cardinality(Occupied) + completions <= ioActive + Cardinality(Counting)
    /\ ioActive + Cardinality(Counting) <= IoParallelism
    /\ accepting => Cardinality(Occupied) + completions = ioActive + Cardinality(Counting)

LEMMA SlotControlStep ==
    ASSUME TypeInv, DrainInv, SlotControl, [Next]_vars
    PROVE  SlotControl'
<1> USE DEF TypeInv, TypeOK, ClaimedByAParty, DrainInv, SlotControl, Settling, Launches, Activated,
            Unsettled, Settled, Parties, admission, process, work, stopping
<1>1. ASSUME NEW s \in Submissions, Terminal(s) PROVE SlotControl'
  <2>1. CASE Complete(s) BY <2>1 DEF Complete
  <2>2. CASE Forget(s) BY <2>2 DEF Forget
  <2>3. CASE OfferCompletion(s) BY <2>3 DEF OfferCompletion
  <2>4. CASE SkipOffer(s) BY <2>4 DEF SkipOffer
  <2>5. CASE OfferToNoChannel(s) BY <2>5 DEF OfferToNoChannel
  <2> QED BY <1>1, <2>1, <2>2, <2>3, <2>4, <2>5 DEF Terminal
<1>2. ASSUME NEW s \in Submissions, Submit(s) PROVE SlotControl'
  <2>1. CASE SubmitStopped(s) BY <2>1 DEF SubmitStopped
  <2>2. CASE SubmitOpens(s) BY <2>2 DEF SubmitOpens
  <2>3. CASE SubmitAdmits(s) BY <2>3 DEF SubmitAdmits
  <2>4. CASE SubmitFull(s) BY <2>4 DEF SubmitFull, Claim
  <2>5. CASE SubmitInjects(s) BY <2>5 DEF SubmitInjects
  <2>6. CASE SubmitTooLate(s) BY <2>6 DEF SubmitTooLate, Claim, ClaimLost
  <2>7. CASE SubmitRefuses(s) BY <2>7 DEF SubmitRefuses
  <2> QED BY <1>2, <2>1, <2>2, <2>3, <2>4, <2>5, <2>6, <2>7 DEF Submit
<1>3. ASSUME NEW s \in Submissions, Inject(s) PROVE SlotControl'
  BY <1>3 DEF Inject
<1>4. CASE Launcher
  <2>1. CASE LauncherUncounts BY <2>1 DEF LauncherUncounts
  <2>2. CASE LauncherExits BY <2>2 DEF LauncherExits
  <2>3. ASSUME NEW s \in Submissions, LaunchStep(s) PROVE SlotControl'
    <3>1. CASE LauncherSkips(s) BY <3>1 DEF LauncherSkips, CanTake
    <3>2. CASE LauncherClaims(s) BY <3>2 DEF LauncherClaims, CanTake
    <3>3. CASE LauncherActivates(s) BY <3>3 DEF LauncherActivates
    <3>4. CASE LauncherTasks(s) BY <3>4 DEF LauncherTasks
    <3>5. CASE LauncherExecutes(s) BY <3>5 DEF LauncherExecutes
    <3>6. CASE LauncherRejected(s) BY <3>6 DEF LauncherRejected, Claim, ClaimLost
    <3>7. CASE LauncherCounts(s) BY <3>7 DEF LauncherCounts
    <3> QED BY <2>3, <3>1, <3>2, <3>3, <3>4, <3>5, <3>6, <3>7 DEF LaunchStep
  <2> QED BY <1>4, <2>1, <2>2, <2>3 DEF Launcher
<1>5. ASSUME NEW s \in Submissions, Worker(s) PROVE SlotControl'
  <2>1. CASE WorkerStarts(s) BY <2>1 DEF WorkerStarts
  <2>2. CASE WorkerSkips(s) BY <2>2 DEF WorkerSkips
  <2>3. CASE WorkerRegisters(s) BY <2>3 DEF WorkerRegisters
  <2>4. CASE WorkerReturns(s) BY <2>4 DEF WorkerReturns
  <2>5. CASE WorkerSettles(s) BY <2>5 DEF WorkerSettles, Claim, ClaimLost
  <2> QED BY <1>5, <2>1, <2>2, <2>3, <2>4, <2>5 DEF Worker
<1>6. ASSUME NEW s \in Submissions, DispatchExpires(s) \/ Interrupter(s) PROVE SlotControl'
  <2>1. CASE DispatchExpires(s) BY <2>1 DEF DispatchExpires
  <2>2. CASE InterruptLooksUp(s) BY <2>2 DEF InterruptLooksUp
  <2>3. CASE InterruptSettles(s) BY <2>3 DEF InterruptSettles, Claim, ClaimLost
  <2>4. CASE InterruptReturns(s) BY <2>4 DEF InterruptReturns
  <2>5. CASE InterruptRunning(s) BY <2>5 DEF InterruptRunning, InterruptTask
  <2> QED BY <1>6, <2>1, <2>2, <2>3, <2>4, <2>5 DEF Interrupter
<1>7. CASE StopCloses BY <1>7 DEF StopCloses
<1>8. CASE Stop
  <2>1. CASE StopSnapshots BY <2>1 DEF StopSnapshots
  <2>2. CASE StopAwaitsDrain BY <2>2 DEF StopAwaitsDrain
  <2>3. CASE StopDrains BY <2>3 DEF StopDrains
  <2>4. CASE StopReturns BY <2>4 DEF StopReturns
  <2>5. ASSUME NEW s \in Submissions, StopInterrupts(s) PROVE SlotControl'
    BY <2>5 DEF StopInterrupts, InterruptTask
  <2>6. ASSUME NEW s \in Submissions, StopDeactivates(s) PROVE SlotControl'
    BY <2>6 DEF StopDeactivates, Sweeping
  <2>7. ASSUME NEW s \in Submissions, StopSettles(s) PROVE SlotControl'
    BY <2>7 DEF StopSettles, Claim, ClaimLost
  <2>8. ASSUME NEW s \in Submissions, StopMovesOn(s) PROVE SlotControl'
    BY <2>8 DEF StopMovesOn
  <2> QED BY <1>8, <2>1, <2>2, <2>3, <2>4, <2>5, <2>6, <2>7, <2>8 DEF Stop
<1>9. CASE UNCHANGED vars BY <1>9 DEF vars
<1>10. CASE \E s \in Submissions :
                Submit(s) \/ Inject(s) \/ Worker(s) \/ DispatchExpires(s) \/ Interrupter(s)
                \/ Terminal(s)
  BY <1>10, <1>1, <1>2, <1>3, <1>5, <1>6, Zenon
<1> QED BY <1>4, <1>7, <1>8, <1>9, <1>10 DEF Next

\* The steps, as the slots see them: no slot is touched; one is taken, counted,
\* or given back with a completion that has room or has none; one is given back
\* without a completion, after a stop; a completion is read.
KeepsSlots ==
    /\ ioActive' = ioActive /\ completions' = completions
    /\ \A q \in Submissions : /\ launch'[q] \in Launching <=> launch[q] \in Launching
                              /\ Occupies(q)' <=> Occupies(q)

TakesSlot(s) ==
    /\ ioActive < IoParallelism /\ Counting = {}
    /\ ioActive' = ioActive /\ completions' = completions
    /\ ~Occupies(s) /\ Occupied' = Occupied \cup {s} /\ Counting' = {s}

CountsSlot(s) ==
    /\ s \in Counting /\ Counting' = Counting \ {s}
    /\ Occupied' = Occupied
    /\ ioActive' = ioActive + 1 /\ completions' = completions

ReturnsSlot(s) ==
    /\ s \in Occupied /\ Occupied' = Occupied \ {s} /\ Counting' = Counting
    /\ ioActive' = ioActive
    /\ \/ completions < IoParallelism /\ completions' = completions + 1
       \/ ~(completions < IoParallelism) /\ completions' = completions

ForgetsSlot(s) ==
    /\ ~accepting
    /\ s \in Occupied /\ Occupied' = Occupied \ {s} /\ Counting' = Counting
    /\ ioActive' = ioActive /\ completions' = completions

ReadsCompletion ==
    /\ Counting = {}
    /\ completions > 0 /\ completions' = completions - 1 /\ ioActive' = ioActive - 1
    /\ Occupied' = Occupied /\ Counting' = Counting

SlotShaped ==
    /\ accepting' => accepting
    /\ \/ KeepsSlots \/ ReadsCompletion
       \/ \E s \in Submissions :
             TakesSlot(s) \/ CountsSlot(s) \/ ReturnsSlot(s) \/ ForgetsSlot(s)

LEMMA SlotShapes ==
    ASSUME TypeInv, DrainInv, SlotControl, [Next]_vars
    PROVE  SlotShaped
<1> USE DEF TypeInv, TypeOK, ClaimedByAParty, SlotControl, Settling, Launches, Launched, Launching,
            Activated, Occupies, HoldsCompletion, Unsettled, Settled, Parties, admission, process,
            work, stopping
<1>1. ASSUME NEW s \in Submissions, Terminal(s) PROVE SlotShaped
  <2>1. CASE Complete(s) BY <2>1 DEF Complete, SlotShaped, KeepsSlots
  <2>2. CASE Forget(s) BY <2>2 DEF Forget, SlotShaped, KeepsSlots
  <2>3. CASE OfferCompletion(s)
    <3>1. /\ Occupies(s) /\ ~Occupies(s)' /\ launch' = launch /\ ioActive' = ioActive
          /\ accepting' = accepting
          /\ \A q \in Submissions \ {s} : Occupies(q)' <=> Occupies(q)
      BY <2>3 DEF OfferCompletion
    <3>2. /\ s \in Occupied /\ Occupied' = Occupied \ {s} /\ Counting' = Counting
      BY <3>1 DEF Occupied, Counting
    <3>3. \/ completions < IoParallelism /\ completions' = completions + 1
          \/ ~(completions < IoParallelism) /\ completions' = completions
      BY <2>3 DEF OfferCompletion
    <3> QED BY <3>1, <3>2, <3>3 DEF SlotShaped, ReturnsSlot
  <2>4. CASE SkipOffer(s)
    <3>1. CASE Occupies(s) /\ HoldsCompletion(s)
      <4>1. /\ ~Occupies(s)' /\ launch' = launch /\ ioActive' = ioActive
            /\ completions' = completions /\ accepting' = accepting
            /\ \A q \in Submissions \ {s} : Occupies(q)' <=> Occupies(q)
        BY <2>4, <3>1 DEF SkipOffer
      <4>2. ~accepting BY <2>4, <3>1 DEF SkipOffer
      <4>3. /\ s \in Occupied /\ Occupied' = Occupied \ {s} /\ Counting' = Counting
        BY <3>1, <4>1 DEF Occupied, Counting
      <4> QED BY <4>1, <4>2, <4>3 DEF SlotShaped, ForgetsSlot
    <3>2. CASE ~(Occupies(s) /\ HoldsCompletion(s))
      BY <2>4, <3>2 DEF SkipOffer, SlotShaped, KeepsSlots
    <3> QED BY <3>1, <3>2
  <2>5. CASE OfferToNoChannel(s) BY <2>5 DEF OfferToNoChannel, SlotShaped, KeepsSlots
  <2> QED BY <1>1, <2>1, <2>2, <2>3, <2>4, <2>5 DEF Terminal
<1>2. ASSUME NEW s \in Submissions, Submit(s) PROVE SlotShaped
  <2> USE DEF SlotShaped, KeepsSlots
  <2>1. CASE SubmitStopped(s) BY <2>1 DEF SubmitStopped
  <2>2. CASE SubmitOpens(s) BY <2>2 DEF SubmitOpens
  <2>3. CASE SubmitAdmits(s) BY <2>3 DEF SubmitAdmits
  <2>4. CASE SubmitFull(s) BY <2>4 DEF SubmitFull, Claim
  <2>5. CASE SubmitInjects(s) BY <2>5 DEF SubmitInjects
  <2>6. CASE SubmitTooLate(s) BY <2>6 DEF SubmitTooLate, Claim, ClaimLost
  <2>7. CASE SubmitRefuses(s) BY <2>7 DEF SubmitRefuses
  <2> QED BY <1>2, <2>1, <2>2, <2>3, <2>4, <2>5, <2>6, <2>7 DEF Submit
<1>3. ASSUME NEW s \in Submissions, Inject(s) PROVE SlotShaped
  BY <1>3 DEF Inject, SlotShaped, KeepsSlots
<1>4. CASE Launcher
  <2>1. CASE LauncherUncounts
    BY <2>1 DEF LauncherUncounts, LauncherIdle, SlotShaped, ReadsCompletion, Occupied, Counting
  <2>2. CASE LauncherExits BY <2>2 DEF LauncherExits, SlotShaped, KeepsSlots
  <2>3. ASSUME NEW s \in Submissions, LaunchStep(s) PROVE SlotShaped
    <3>1. CASE LauncherSkips(s) BY <3>1 DEF LauncherSkips, CanTake, SlotShaped, KeepsSlots
    <3>2. CASE LauncherClaims(s)
      <4>1. /\ ioActive < IoParallelism /\ ioActive' = ioActive /\ completions' = completions
            /\ accepting' = accepting /\ status[s] = "queued"
            /\ \A q \in Submissions : launch[q] \notin Launching
        BY <3>2 DEF LauncherClaims, CanTake, LauncherIdle
      <4>2. /\ ~Occupies(s) /\ Occupies(s)' /\ launch'[s] \in Launching
            /\ \A q \in Submissions \ {s} : launch'[q] = launch[q] /\ (Occupies(q)' <=> Occupies(q))
        BY <3>2 DEF LauncherClaims
      <4>3. Counting = {} /\ Counting' = {s} /\ Occupied' = Occupied \cup {s}
        BY <4>1, <4>2 DEF Counting, Occupied
      <4> QED BY <4>1, <4>2, <4>3 DEF SlotShaped, TakesSlot
    <3>3. CASE LauncherActivates(s) BY <3>3 DEF LauncherActivates, SlotShaped, KeepsSlots
    <3>4. CASE LauncherTasks(s) BY <3>4 DEF LauncherTasks, SlotShaped, KeepsSlots
    <3>5. CASE LauncherExecutes(s) BY <3>5 DEF LauncherExecutes, SlotShaped, KeepsSlots
    <3>6. CASE LauncherRejected(s)
      BY <3>6 DEF LauncherRejected, Claim, ClaimLost, SlotShaped, KeepsSlots
    <3>7. CASE LauncherCounts(s)
      <4>1. /\ launch[s] \in Launching /\ launch'[s] \notin Launching
            /\ \A q \in Submissions \ {s} : launch'[q] = launch[q]
            /\ \A q \in Submissions : Occupies(q)' <=> Occupies(q)
            /\ ioActive' = ioActive + 1 /\ completions' = completions /\ accepting' = accepting
        BY <3>7 DEF LauncherCounts
      <4>2. s \in Counting /\ Counting' = Counting \ {s} /\ Occupied' = Occupied
        BY <4>1 DEF Counting, Occupied
      <4> QED BY <4>1, <4>2 DEF SlotShaped, CountsSlot
    <3> QED BY <2>3, <3>1, <3>2, <3>3, <3>4, <3>5, <3>6, <3>7 DEF LaunchStep
  <2> QED BY <1>4, <2>1, <2>2, <2>3 DEF Launcher
<1>5. ASSUME NEW s \in Submissions, Worker(s) PROVE SlotShaped
  <2> USE DEF SlotShaped, KeepsSlots
  <2>1. CASE WorkerStarts(s) BY <2>1 DEF WorkerStarts
  <2>2. CASE WorkerSkips(s) BY <2>2 DEF WorkerSkips
  <2>3. CASE WorkerRegisters(s) BY <2>3 DEF WorkerRegisters
  <2>4. CASE WorkerReturns(s) BY <2>4 DEF WorkerReturns
  <2>5. CASE WorkerSettles(s) BY <2>5 DEF WorkerSettles, Claim, ClaimLost
  <2> QED BY <1>5, <2>1, <2>2, <2>3, <2>4, <2>5 DEF Worker
<1>6. ASSUME NEW s \in Submissions, DispatchExpires(s) \/ Interrupter(s) PROVE SlotShaped
  <2> USE DEF SlotShaped, KeepsSlots
  <2>1. CASE DispatchExpires(s) BY <2>1 DEF DispatchExpires
  <2>2. CASE InterruptLooksUp(s) BY <2>2 DEF InterruptLooksUp
  <2>3. CASE InterruptSettles(s) BY <2>3 DEF InterruptSettles, Claim, ClaimLost
  <2>4. CASE InterruptReturns(s) BY <2>4 DEF InterruptReturns
  <2>5. CASE InterruptRunning(s) BY <2>5 DEF InterruptRunning, InterruptTask
  <2> QED BY <1>6, <2>1, <2>2, <2>3, <2>4, <2>5 DEF Interrupter
<1>7. CASE StopCloses BY <1>7 DEF StopCloses, SlotShaped, KeepsSlots
<1>8. CASE Stop
  <2> USE DEF SlotShaped, KeepsSlots
  <2>1. CASE StopSnapshots BY <2>1 DEF StopSnapshots
  <2>2. CASE StopAwaitsDrain BY <2>2 DEF StopAwaitsDrain
  <2>3. CASE StopDrains BY <2>3 DEF StopDrains
  <2>4. CASE StopReturns BY <2>4 DEF StopReturns
  <2>5. ASSUME NEW s \in Submissions, StopInterrupts(s) PROVE SlotShaped
    BY <2>5 DEF StopInterrupts, InterruptTask
  <2>6. ASSUME NEW s \in Submissions, StopDeactivates(s) PROVE SlotShaped
    BY <2>6 DEF StopDeactivates
  <2>7. ASSUME NEW s \in Submissions, StopSettles(s) PROVE SlotShaped
    BY <2>7 DEF StopSettles, Claim, ClaimLost
  <2>8. ASSUME NEW s \in Submissions, StopMovesOn(s) PROVE SlotShaped
    BY <2>8 DEF StopMovesOn
  <2> QED BY <1>8, <2>1, <2>2, <2>3, <2>4, <2>5, <2>6, <2>7, <2>8 DEF Stop
<1>9. CASE UNCHANGED vars BY <1>9 DEF vars, SlotShaped, KeepsSlots
<1>10. CASE \E s \in Submissions :
                Submit(s) \/ Inject(s) \/ Worker(s) \/ DispatchExpires(s) \/ Interrupter(s)
                \/ Terminal(s)
  BY <1>10, <1>1, <1>2, <1>3, <1>5, <1>6, Zenon
<1> QED BY <1>4, <1>7, <1>8, <1>9, <1>10 DEF Next

LEMMA KeptSlots ==
    ASSUME KeepsSlots PROVE Occupied' = Occupied /\ Counting' = Counting
<1>1. \A q \in Submissions : launch'[q] \in Launching <=> launch[q] \in Launching
  BY Zenon DEF KeepsSlots
<1>2. \A q \in Submissions : Occupies(q)' <=> Occupies(q)
  BY Zenon DEF KeepsSlots
<1>3. Counting' = Counting
  BY <1>1, SMT DEF Counting
<1>4. Occupied' = Occupied
  BY <1>2, SMT DEF Occupied, Occupies, HoldsCompletion
<1> QED BY <1>3, <1>4

LEMMA SlotBalanceStep ==
    ASSUME TypeInv, SlotShaped, SlotBalance
    PROVE  SlotBalance'
<1> DEFINE o == Cardinality(Occupied)
           c == Cardinality(Counting)
<1>0. /\ IsFiniteSet(Occupied) /\ IsFiniteSet(Counting)
  BY SubmissionsAssumption, FS_Subset DEF Occupied, Counting
<1>1. o \in Nat /\ c \in Nat BY <1>0, FS_CardinalityType
<1>2. completions \in Nat /\ ioActive \in Nat /\ IoParallelism \in Nat
  BY BoundsAssumption DEF TypeInv, TypeOK, SlotBalance
<1>3. /\ o + completions <= ioActive + c /\ ioActive + c <= IoParallelism
      /\ accepting => o + completions = ioActive + c
  BY DEF SlotBalance
<1>4. accepting' => accepting BY DEF SlotShaped
<1>5. ASSUME ioActive' \in Nat,
             o' + completions' <= ioActive' + c', ioActive' + c' <= IoParallelism,
             accepting => o' + completions' = ioActive' + c'
      PROVE  SlotBalance'
  BY <1>4, <1>5 DEF SlotBalance
<1>6. CASE KeepsSlots
  <2>1. Occupied' = Occupied
    BY <1>6, KeptSlots
  <2>2. Counting' = Counting
    BY <1>6, KeptSlots
  <2> QED BY <1>2, <1>3, <1>5, <1>6, <2>1, <2>2 DEF KeepsSlots
<1>7. CASE ReadsCompletion
  <2>1. o' = o /\ c' = c BY <1>7 DEF ReadsCompletion
  <2>2. c = 0 BY <1>7, FS_EmptySet DEF ReadsCompletion
  <2> HIDE DEF o, c
  <2>3. ioActive' \in Nat BY <1>1, <1>2, <1>3, <1>7, <2>1, <2>2 DEF ReadsCompletion
  <2> QED BY <1>1, <1>2, <1>3, <1>5, <1>7, <2>1, <2>3 DEF ReadsCompletion
<1>8. ASSUME NEW s \in Submissions, TakesSlot(s) PROVE SlotBalance'
  <2>1. o' = o + 1
    BY <1>0, <1>8, FS_AddElement DEF TakesSlot, Occupied
  <2>2. c = 0 /\ c' = 1
    BY <1>8, FS_EmptySet, FS_Singleton DEF TakesSlot
  <2> HIDE DEF o, c
  <2> QED BY <1>1, <1>2, <1>3, <1>5, <1>8, <2>1, <2>2 DEF TakesSlot
<1>9. ASSUME NEW s \in Submissions, CountsSlot(s) PROVE SlotBalance'
  <2>1. o' = o /\ c' = c - 1 BY <1>0, <1>9, FS_RemoveElement DEF CountsSlot
  <2> HIDE DEF o, c
  <2> QED BY <1>1, <1>2, <1>3, <1>5, <1>9, <2>1 DEF CountsSlot
<1>10. ASSUME NEW s \in Submissions, ReturnsSlot(s) PROVE SlotBalance'
  <2>1. c' = c /\ o' = o - 1 BY <1>0, <1>10, FS_RemoveElement DEF ReturnsSlot
  <2>2. o' \in Nat
    <3>1. IsFiniteSet(Occupied') BY <1>0, <1>10, FS_Subset DEF ReturnsSlot
    <3> QED BY <3>1, FS_CardinalityType
  <2> HIDE DEF o, c
  <2>3. completions < IoParallelism BY <1>1, <1>2, <1>3, <2>1, <2>2
  <2> QED BY <1>1, <1>2, <1>3, <1>5, <1>10, <2>1, <2>2, <2>3 DEF ReturnsSlot
<1>11. ASSUME NEW s \in Submissions, ForgetsSlot(s) PROVE SlotBalance'
  <2>1. c' = c /\ o' = o - 1 BY <1>0, <1>11, FS_RemoveElement DEF ForgetsSlot
  <2> HIDE DEF o, c
  <2> QED BY <1>1, <1>2, <1>3, <1>5, <1>11, <2>1 DEF ForgetsSlot
<1> QED BY <1>6, <1>7, <1>8, <1>9, <1>10, <1>11 DEF SlotShaped

SlotInv == SettlementInv /\ SlotControl /\ SlotBalance

LEMMA InitSlots == Init => SlotControl /\ SlotBalance
<1> SUFFICES ASSUME Init PROVE SlotControl /\ SlotBalance
  OBVIOUS
<1>1. SlotControl
  BY DEF Init, SlotControl, Settling, Launches, Activated
<1>2. Occupied = {} /\ Counting = {}
  BY DEF Init, Occupied, Occupies, Counting, Launched, Launching
<1>3. Cardinality(Occupied) = 0 /\ Cardinality(Counting) = 0
  BY <1>2, FS_EmptySet
<1>4. ioActive = 0 /\ completions = 0 BY DEF Init
<1> QED BY <1>1, <1>3, <1>4, BoundsAssumption DEF SlotBalance

LEMMA SlotInvariant == Spec => []SlotInv
<1>1. Init => SlotControl /\ SlotBalance BY InitSlots
<1>2. SettlementInv /\ SlotControl /\ SlotBalance /\ [Next]_vars
        => SlotControl' /\ SlotBalance'
  BY SlotControlStep, SlotShapes, SlotBalanceStep DEF SettlementInv
<1> QED BY <1>1, <1>2, SettlementInvariant, PTL DEF Spec, SlotInv

\* No more than concurrency work-fns run at once.
THEOREM WorkWithinParallelism == Spec => []RunningWithinParallelism
<1>1. SlotInv => RunningWithinParallelism
  <2> SUFFICES ASSUME SlotInv PROVE RunningWithinParallelism
    OBVIOUS
  <2>1. Running \subseteq Occupied
    BY DEF SlotInv, SlotControl, Settling, Launches, Running, Occupied, Occupies, Launched,
           Launching, HoldsCompletion
  <2>2. IsFiniteSet(Occupied) /\ IsFiniteSet(Running) /\ IsFiniteSet(Counting)
    BY SubmissionsAssumption, FS_Subset DEF Occupied, Running, Counting
  <2>3. Cardinality(Running) <= Cardinality(Occupied)
    BY <2>1, <2>2, FS_Subset
  <2>4. /\ Cardinality(Occupied) \in Nat /\ Cardinality(Running) \in Nat
        /\ Cardinality(Counting) \in Nat
    BY <2>2, FS_CardinalityType
  <2>5. completions \in Nat /\ ioActive \in Nat /\ IoParallelism \in Nat
    BY BoundsAssumption DEF SlotInv, SettlementInv, TypeInv, TypeOK, SlotBalance
  <2>6. /\ Cardinality(Occupied) + completions <= ioActive + Cardinality(Counting)
        /\ ioActive + Cardinality(Counting) <= IoParallelism
    BY DEF SlotInv, SlotBalance
  <2> QED BY <2>3, <2>4, <2>5, <2>6 DEF RunningWithinParallelism
<1> QED BY <1>1, SlotInvariant, PTL

\* Until the launcher closes, and while nobody interrupts, the counter of the
\* input filter is exactly the slots in use.
THEOREM SlotsAreConserved == Spec => []SlotsConserved
<1>1. SlotInv => SlotsConserved
  <2> SUFFICES ASSUME SlotInv, accepting, NobodyInterrupts
               PROVE  ioActive + Cardinality(Counting)
                      = completions + Cardinality({s \in Submissions : HoldsSlot(s)})
    BY DEF SlotsConserved
  <2>1. ASSUME NEW s \in Submissions, launch[s] \in Launched, status[s] = "done"
        PROVE  HoldsCompletion(s)
    <3>1. settler[s] \in Parties
      BY <2>1 DEF SlotInv, SettlementInv, TypeInv, ClaimedByAParty, Settled
    <3>2. settler[s] # "stop" BY DEF SlotInv, SettlementInv, DrainInv
    <3>3. settler[s] # "interrupt"
      BY DEF SlotInv, SlotControl, Settling, NobodyInterrupts
    <3>4. settler[s] # "submit"
      BY <2>1 DEF SlotInv, SlotControl, Settling, SettlementInv, SubmissionsInv, SubmissionInv,
                  Uninjected, Launched, Launching
    <3> QED BY <3>1, <3>2, <3>3, <3>4 DEF Parties, HoldsCompletion
  <2>2. {s \in Submissions : HoldsSlot(s)} = Occupied
    BY <2>1 DEF HoldsSlot, Occupied, Occupies, Launched
  <2>3. IsFiniteSet(Occupied) /\ Cardinality(Occupied) \in Nat
    BY SubmissionsAssumption, FS_Subset, FS_CardinalityType DEF Occupied
  <2>4. completions \in Nat BY DEF SlotInv, SettlementInv, TypeInv, TypeOK
  <2> QED BY <2>2, <2>3, <2>4 DEF SlotInv, SlotBalance
<1> QED BY <1>1, SlotInvariant, PTL
=============================================================================
