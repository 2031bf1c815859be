-------------------------- MODULE AgentWakesProofs --------------------------
(***************************************************************************)
(* What TLAPS proves of AgentWakes, for any agents, messages and bounds:   *)
(* its types, and that nothing is answered that no provider was shown.     *)
(***************************************************************************)
EXTENDS AgentWakes, FiniteSetTheorems, TLAPS

\* The places of a pass that only a proc that is not parked reaches.
Working == {"proves", "opens", "calls", "answers", "freezes", "folds", "settles"}

\* A turn opens below the bound, and a proc works below its own.
Bounded ==
    \A a \in Agents :
        /\ step[a] = "opens" => spent[a] < RunLimit
        /\ step[a] \in Working => a \notin parked
        /\ a \notin parked => refusals[a] < RefusalBound

\* Between the call and its attempt, what the open turn covers was shown.
CoveredIsShown ==
    \A c \in Causes : step[Of(c)] = "answers" /\ cause[c] = "covered" => c \in shown

WorkInv == WorkTypes /\ Bounded /\ CoveredIsShown /\ AnsweredWasShown

\* A mailbox that was looked up is there, until it is closed.
OfferedIsThere == \A a \in Agents : offering[a] = "open" => a \in entry

\* What the planner is about to do to a graph, it does to one that has an entry.
PlannedIsThere ==
    /\ todo \subseteq {"attempt", "start", "stop", "halt", "close"} \X Agents
    /\ doing \subseteq {"start", "publish", "prime", "join", "exit"} \X Agents
    /\ \A a \in Agents :
        /\ <<"prime", a>> \in doing => a \in entry
        /\ <<"stop", a>> \in todo => a \in entry /\ phase # "starts"
        /\ <<"halt", a>> \in todo => a \in entry /\ phase = "starts"
        /\ <<"join", a>> \in doing => a \in entry /\ phase # "starts" /\ <<"stop", a>> \notin todo
        /\ <<"exit", a>> \in doing => a \in entry /\ phase = "starts" /\ <<"halt", a>> \notin todo

WakeTypes ==
    /\ attempt \in [Agents -> {"held", "ready", "open", "over"}]
    /\ stopped \subseteq Agents
    /\ routed \subseteq Agents /\ entry \subseteq Agents
    /\ dead \subseteq entry /\ unprimed \subseteq entry
    /\ wake \subseteq entry /\ episode \subseteq entry
    /\ inbox \in [Agents -> SUBSET Inboxed]
    /\ reports \in [Agents -> SUBSET {"mail", "plan"}]
    /\ offering \in [Agents -> {"none", "open", "closed"}]
    /\ planWake \in BOOLEAN /\ dropped \in BOOLEAN
    /\ phase \in {"ends", "stopped", "again", "starts"}
    /\ todo \subseteq Ops \X Agents /\ doing \subseteq Ops \X Agents
    /\ doing = {} \/ \E x \in Ops \X Agents : doing = {x}

WakeInv == WakeTypes /\ OfferedIsThere /\ PlannedIsThere

wakeRest == <<onMain, routing, routes, planner>>
-----------------------------------------------------------------------------
(* The pass.                                                               *)

LEMMA CausesAreOf ==
    \A c \in Causes : Of(c) \in Agents
BY WorkAssumption DEF Causes, Of

\* A derivation names a step, and opens no turn at the bound.
LEMMA NextWorkType ==
    ASSUME NEW a \in Agents, WorkInv
    PROVE  /\ NextWork(a) \in {"idle", "proves", "opens", "calls", "folds"}
           /\ NextWork(a) = "opens" => spent[a] < RunLimit
BY WorkAssumption DEF NextWork, Deferred, WorkInv, WorkTypes

\* Causes that are only sent or set back, and passes that go nowhere near an
\* attempt, leave what is shown alone.
LEMMA ShownIsKept ==
    ASSUME WorkInv,
           \A c \in Causes : cause'[c] \in {"covered", "answered"} => cause'[c] = cause[c],
           \A b \in Agents : step'[b] = "answers" => step[b] = "answers",
           shown \subseteq shown'
    PROVE  CoveredIsShown' /\ AnsweredWasShown'
BY CausesAreOf DEF WorkInv, WorkTypes, CoveredIsShown, AnsweredWasShown, Causes, Of

ProcTypes ==
    /\ step \in [Agents -> {"idle", "proves", "opens", "calls", "answers", "freezes", "folds",
                            "settles", "observes", "rewakes"}]
    /\ closed \subseteq Agents /\ parked \subseteq Agents
    /\ refusals \in [Agents -> 0..RefusalBound]

\* A report ends the work of a pass and keeps the count below its bound.
LEMMA ReportsKeeps ==
    ASSUME WorkInv, NEW a \in Agents, step[a] \in Working,
           NEW outcome \in {"closed", "released", "error"}, NEW refused \in BOOLEAN,
           Reports(a, outcome, refused)
    PROVE  /\ ProcTypes'
           /\ \A b \in Agents : /\ step'[b] \in Working => b \notin parked'
                                /\ b \notin parked' => refusals'[b] < RefusalBound
           /\ step'[a] \in {"observes", "rewakes"}
           /\ \A b \in Agents \ {a} : step'[b] = step[b]
<1>1. refusals[a] < RefusalBound
  BY DEF WorkInv, Bounded
<1>2. refusals[a] \in 0..RefusalBound /\ RefusalBound \in Nat \ {0}
  BY WorkAssumption DEF WorkInv, WorkTypes
<1>3. (IF refused THEN refusals[a] + 1 ELSE 0) \in 0..RefusalBound
  BY <1>1, <1>2
<1>4. refusals' = [refusals EXCEPT ![a] = IF refused THEN refusals[a] + 1 ELSE 0]
  BY DEF Reports
<1>5. refusals' \in [Agents -> 0..RefusalBound]
  BY <1>3, <1>4 DEF WorkInv, WorkTypes
<1>6. /\ step' = [step EXCEPT ![a] = IF outcome = "released" THEN "rewakes" ELSE "observes"]
      /\ closed' \in {closed \cup {a}, closed \ {a}}
      /\ parked' = IF refusals'[a] >= RefusalBound THEN parked \cup {a} ELSE parked \ {a}
  BY DEF Reports, Goes
<1>7. ProcTypes'
  BY <1>5, <1>6 DEF WorkInv, WorkTypes, ProcTypes
<1>8. step'[a] \in {"observes", "rewakes"} /\ \A b \in Agents \ {a} : step'[b] = step[b]
  BY <1>6 DEF WorkInv, WorkTypes
<1>9. \A b \in Agents \ {a} : refusals'[b] = refusals[b] /\ (b \in parked' <=> b \in parked)
  BY <1>4, <1>6 DEF WorkInv, WorkTypes
<1>10. a \notin parked' => refusals'[a] < RefusalBound
  BY <1>2, <1>5, <1>6
<1> QED
  BY <1>7, <1>8, <1>9, <1>10 DEF WorkInv, Bounded, Working

TurnTypes ==
    /\ cause \in [Causes -> {"unsent", "new", "covered", "answered"}]
    /\ open \in [Agents -> {"none", "called", "replied"}]
    /\ latest \in [Agents -> {"none", "error", "continues", "waits", "completed"}]
    /\ gaveBack \subseteq Agents /\ evaluated \subseteq Agents

\* A close answers nothing.
LEMMA ClosesKeeps ==
    ASSUME WorkInv, NEW a \in Agents, NEW how \in {"error", "continues", "waits", "completed"},
           Closes(a, how)
    PROVE  /\ TurnTypes'
           /\ \A c \in Causes : cause'[c] \in {"covered", "answered"} => cause'[c] = cause[c]
BY DEF WorkInv, WorkTypes, TurnTypes, Closes

LEMMA RecoversKeeps ==
    ASSUME WorkInv, NEW a \in Agents, Recovers(a)
    PROVE  /\ TurnTypes'
           /\ \A c \in Causes : cause'[c] \in {"covered", "answered"} => cause'[c] = cause[c]
           /\ UNCHANGED <<forked, spent, ended>>
<1>1. CASE open[a] = "none"
  BY <1>1 DEF Recovers, WorkInv, WorkTypes, TurnTypes
<1>2. CASE open[a] # "none"
  <2>1. Closes(a, RecoveredAs(a)) /\ RecoveredAs(a) \in {"error", "continues"}
    BY <1>2 DEF Recovers, RecoveredAs
  <2> QED
    BY <2>1, ClosesKeeps DEF Closes
<1> QED
  BY <1>1, <1>2

\* What of the types the lemmas above do not speak of.
OtherTypes ==
    /\ forked \subseteq Agents /\ failed \subseteq Agents /\ ended \subseteq Agents
    /\ verdict \in [Agents -> {"unproved", "red", "done"}]
    /\ spent \in [Agents -> 0..RunLimit]
    /\ mishaps \in 0..MaxMishaps
    /\ shown \subseteq Causes /\ escaped \subseteq Agents /\ unseen \subseteq Agents

LEMMA MishapKeeps ==
    ASSUME WorkInv, Mishap
    PROVE  mishaps' \in 0..MaxMishaps
BY WorkAssumption DEF WorkInv, WorkTypes, Mishap

\* A report of a pass whose turn, if any, closed.
LEMMA EndOfWork ==
    ASSUME WorkInv, NEW a \in Agents, step[a] \in Working,
           NEW outcome \in {"closed", "released", "error"}, NEW refused \in BOOLEAN,
           Reports(a, outcome, refused),
           TurnTypes', OtherTypes',
           \A c \in Causes : cause'[c] \in {"covered", "answered"} => cause'[c] = cause[c],
           spent' = spent, shown' = shown
    PROVE  WorkInv'
<1>1. /\ ProcTypes'
      /\ \A b \in Agents : /\ step'[b] \in Working => b \notin parked'
                           /\ b \notin parked' => refusals'[b] < RefusalBound
      /\ step'[a] \in {"observes", "rewakes"}
      /\ \A b \in Agents \ {a} : step'[b] = step[b]
  BY ReportsKeeps
<1>2. WorkTypes'
  BY <1>1 DEF WorkTypes, ProcTypes, TurnTypes, OtherTypes
<1>3. Bounded'
  <2>1. \A b \in Agents : step'[b] = "opens" => step[b] = "opens"
    BY <1>1
  <2>2. \A b \in Agents : step'[b] = "opens" => spent'[b] < RunLimit
    BY <2>1 DEF WorkInv, Bounded
  <2> QED
    BY <1>1, <2>2 DEF Bounded
<1>4. \A b \in Agents : step'[b] = "answers" => step[b] = "answers"
  BY <1>1
<1>5. CoveredIsShown' /\ AnsweredWasShown'
  BY <1>4, ShownIsKept
<1> QED
  BY <1>2, <1>3, <1>5 DEF WorkInv
-----------------------------------------------------------------------------
\* The writes of a pass, one action at a time.
LEMMA DerivesKeeps ==
    ASSUME WorkInv, NEW a \in Agents, Derives(a)
    PROVE  WorkInv'
<1>1. (IF a \in parked THEN "idle" ELSE NextWork(a)) \in {"idle", "proves", "opens", "calls", "folds"}
  BY NextWorkType
<1>2. NextWork(a) = "opens" => spent[a] < RunLimit
  BY NextWorkType
<1>3. WorkTypes'
  BY <1>1 DEF Derives, Goes, WorkInv, WorkTypes, turns
<1>4. Bounded'
  BY <1>1, <1>2 DEF Derives, Goes, WorkInv, WorkTypes, Bounded, turns, Working
<1>5. CoveredIsShown'
  BY <1>1, CausesAreOf DEF Derives, Goes, WorkInv, WorkTypes, CoveredIsShown, turns, Causes, Of
<1>6. AnsweredWasShown'
  BY DEF Derives, WorkInv, AnsweredWasShown, turns, Causes
<1> QED
  BY <1>3, <1>4, <1>5, <1>6 DEF WorkInv

LEMMA ProvesKeeps ==
    ASSUME WorkInv, NEW a \in Agents, Proves(a) \/ ProvesInPart(a) \/ ProofFails(a)
    PROVE  WorkInv'
<1>1. step[a] \in Working
  BY DEF Proves, ProvesInPart, ProofFails, Working
<1>2. TurnTypes' /\ (\A c \in Causes : cause'[c] = cause[c]) /\ spent' = spent /\ shown' = shown
  BY DEF Proves, ProvesInPart, ProofFails, turns, seen, WorkInv, WorkTypes, TurnTypes
<1>3. mishaps' \in 0..MaxMishaps
  BY MishapKeeps DEF Proves, ProvesInPart, ProofFails, WorkInv, WorkTypes
<1>4. OtherTypes'
  <2>1. verdict' \in [Agents -> {"unproved", "red", "done"}]
    BY DEF Proves, ProvesInPart, ProofFails, turns, WorkInv, WorkTypes
  <2>2. UNCHANGED <<forked, failed, ended, spent, shown, escaped, unseen>>
    BY DEF Proves, ProvesInPart, ProofFails, turns, seen
  <2> QED
    BY <1>3, <2>1, <2>2 DEF WorkInv, WorkTypes, OtherTypes
<1>5. PICK outcome \in {"closed", "error"}, refused \in BOOLEAN : Reports(a, outcome, refused)
  BY DEF Proves, ProvesInPart, ProofFails
<1> QED
  BY <1>1, <1>2, <1>4, <1>5, EndOfWork

\* The covered causes of an open turn are shown by nobody yet: no call is made.
LEMMA OpensKeeps ==
    ASSUME WorkInv, NEW a \in Agents, Opens(a)
    PROVE  WorkInv'
<1>1. /\ step[a] = "opens" /\ step[a] \in Working
      /\ Reports(a, "released", FALSE)
  BY DEF Opens, Working
<1>2. /\ ProcTypes'
      /\ \A b \in Agents : /\ step'[b] \in Working => b \notin parked'
                           /\ b \notin parked' => refusals'[b] < RefusalBound
      /\ step'[a] \in {"observes", "rewakes"}
      /\ \A b \in Agents \ {a} : step'[b] = step[b]
  BY <1>1, ReportsKeeps
<1>3. spent' = [spent EXCEPT ![a] = @ + 1] /\ spent' \in [Agents -> 0..RunLimit]
  <2>1. spent[a] < RunLimit /\ spent[a] \in 0..RunLimit /\ RunLimit \in Nat
    BY <1>1, WorkAssumption DEF WorkInv, WorkTypes, Bounded
  <2> QED
    BY <2>1 DEF Opens, WorkInv, WorkTypes
<1>4. TurnTypes'
  BY DEF Opens, seen, WorkInv, WorkTypes, TurnTypes
<1>5. OtherTypes'
  BY <1>3 DEF Opens, seen, WorkInv, WorkTypes, OtherTypes
<1>6. Bounded'
  <2>1. \A b \in Agents : step'[b] = "opens" => b # a /\ step[b] = "opens"
    BY <1>2
  <2>2. \A b \in Agents : step'[b] = "opens" => spent'[b] < RunLimit
    BY <2>1, <1>3 DEF WorkInv, WorkTypes, Bounded
  <2> QED
    BY <1>2, <2>2 DEF Bounded
<1>7. CoveredIsShown'
  <2>1. \A b \in Agents : step'[b] = "answers" => b # a /\ step[b] = "answers"
    BY <1>2
  <2>2. \A c \in Causes : Of(c) # a => cause'[c] = cause[c]
    BY DEF Opens, WorkInv, WorkTypes
  <2>3. shown' = shown
    BY DEF Opens, seen
  <2> QED
    BY <2>1, <2>2, <2>3, CausesAreOf DEF WorkInv, CoveredIsShown, Causes, Of
<1>8. AnsweredWasShown'
  BY DEF Opens, seen, WorkInv, WorkTypes, AnsweredWasShown, Causes
<1> QED
  BY <1>2, <1>4, <1>5, <1>6, <1>7, <1>8 DEF WorkInv, WorkTypes, ProcTypes, TurnTypes, OtherTypes

LEMMA OpenRefusedKeeps ==
    ASSUME WorkInv, NEW a \in Agents, OpenRefused(a)
    PROVE  WorkInv'
<1>1. step[a] \in Working /\ Reports(a, "error", TRUE)
  BY DEF OpenRefused, Working
<1>2. TurnTypes' /\ (\A c \in Causes : cause'[c] = cause[c]) /\ spent' = spent /\ shown' = shown
  BY DEF OpenRefused, turns, seen, WorkInv, WorkTypes, TurnTypes
<1>3. mishaps' \in 0..MaxMishaps
  BY MishapKeeps DEF OpenRefused
<1>4. OtherTypes'
  BY <1>3 DEF OpenRefused, turns, seen, WorkInv, WorkTypes, OtherTypes
<1> QED
  BY <1>1, <1>2, <1>4, EndOfWork

\* A turn that ends in an error, at whatever place.
LEMMA FailuresKeep ==
    ASSUME WorkInv, NEW a \in Agents,
           \/ ContextRefused(a) \/ AttemptRefused(a) \/ FreezeRefused(a)
           \/ ProviderFails(a) \/ SettleRefused(a)
    PROVE  WorkInv'
<1>1. step[a] \in Working
  BY DEF ContextRefused, AttemptRefused, FreezeRefused, FailsAt, ProviderFails, SettleRefused,
         Working
<1>2. PICK how \in {"error", "continues"} : Closes(a, how)
  BY DEF ContextRefused, AttemptRefused, FreezeRefused, FailsAt, ProviderFails, SettleRefused
<1>3. /\ TurnTypes'
      /\ \A c \in Causes : cause'[c] \in {"covered", "answered"} => cause'[c] = cause[c]
  BY <1>2, ClosesKeeps
<1>4. Mishap
  BY DEF ContextRefused, AttemptRefused, FreezeRefused, FailsAt, ProviderFails, SettleRefused
<1>5. mishaps' \in 0..MaxMishaps
  BY <1>4, MishapKeeps
<1>6. /\ forked' = forked /\ ended' = ended /\ spent' = spent
  BY <1>2 DEF Closes
<1>7. /\ failed' \in {failed, failed \cup {a}} /\ verdict' = verdict
      /\ shown' = shown /\ escaped' = escaped /\ unseen' = unseen
  BY DEF ContextRefused, AttemptRefused, FreezeRefused, FailsAt, ProviderFails, SettleRefused
<1>8. OtherTypes'
  BY <1>5, <1>6, <1>7 DEF WorkInv, WorkTypes, OtherTypes
<1>9. PICK refused \in BOOLEAN : Reports(a, "error", refused)
  BY DEF ContextRefused, AttemptRefused, FreezeRefused, FailsAt, ProviderFails, SettleRefused
<1> QED
  BY <1>1, <1>3, <1>6, <1>7, <1>8, <1>9, EndOfWork

LEMMA SettlesKeeps ==
    ASSUME WorkInv, NEW a \in Agents, Settles(a)
    PROVE  WorkInv'
<1>1. step[a] \in Working /\ Reports(a, "closed", FALSE)
  BY DEF Settles, Working
<1>2. PICK how \in {"continues", "waits", "completed"} : Closes(a, how)
  BY DEF Settles
<1>3. /\ TurnTypes'
      /\ \A c \in Causes : cause'[c] \in {"covered", "answered"} => cause'[c] = cause[c]
  BY <1>2, ClosesKeeps
<1>4. /\ forked' = forked /\ ended' = ended /\ spent' = spent
  BY <1>2 DEF Closes
<1>5. /\ verdict' \in [Agents -> {"unproved", "red", "done"}]
      /\ UNCHANGED <<failed, shown, escaped, unseen, mishaps>>
  BY DEF Settles, Judges, WorkInv, WorkTypes
<1>6. OtherTypes'
  BY <1>4, <1>5 DEF WorkInv, WorkTypes, OtherTypes
<1> QED
  BY <1>1, <1>3, <1>4, <1>5, <1>6, EndOfWork

\* The context shows what was sent, the open turn's causes among it.
LEMMA ReadsContextKeeps ==
    ASSUME WorkInv, NEW a \in Agents, ReadsContext(a)
    PROVE  WorkInv'
<1>1. /\ step[a] = "calls" /\ step' = [step EXCEPT ![a] = "answers"]
      /\ shown' = shown \cup Sent(a)
      /\ UNCHANGED <<turns, closed, refusals, parked, evaluated, escaped, unseen, mishaps>>
  BY DEF ReadsContext, Goes
<1>2. WorkTypes'
  BY <1>1 DEF WorkInv, WorkTypes, turns, Sent
<1>3. Bounded'
  BY <1>1 DEF WorkInv, WorkTypes, Bounded, turns, Working
<1>4. CoveredIsShown'
  <2>1. ASSUME NEW c \in Causes, step'[Of(c)] = "answers", cause'[c] = "covered"
        PROVE  c \in shown'
    <3>1. CASE Of(c) = a
      BY <1>1, <2>1, <3>1 DEF Sent, turns
    <3>2. CASE Of(c) # a
      BY <1>1, <2>1, <3>2, CausesAreOf DEF WorkInv, WorkTypes, CoveredIsShown, turns, Of
    <3> QED
      BY <3>1, <3>2
  <2> QED
    BY <2>1 DEF CoveredIsShown, Causes, Of
<1>5. AnsweredWasShown'
  BY <1>1 DEF WorkInv, AnsweredWasShown, turns, Causes
<1> QED
  BY <1>2, <1>3, <1>4, <1>5 DEF WorkInv

\* An attempt answers what its turn covers, and that was shown.
LEMMA AnswersKeeps ==
    ASSUME WorkInv, NEW a \in Agents, Answers(a)
    PROVE  WorkInv'
<1>1. /\ step[a] = "answers" /\ step' = [step EXCEPT ![a] = "freezes"]
      /\ cause' = [c \in Causes |-> IF Of(c) = a /\ cause[c] = "covered" THEN "answered"
                                                                         ELSE cause[c]]
      /\ UNCHANGED <<forked, verdict, open, latest, gaveBack, spent, failed, ended, closed,
                     refusals, parked, seen, mishaps>>
  BY DEF Answers, Goes
<1>2. WorkTypes'
  BY <1>1 DEF WorkInv, WorkTypes, seen
<1>3. Bounded'
  BY <1>1 DEF WorkInv, WorkTypes, Bounded, Working
<1>4. CoveredIsShown'
  BY <1>1, CausesAreOf DEF WorkInv, WorkTypes, CoveredIsShown, seen, Causes, Of
<1>5. AnsweredWasShown'
  BY <1>1, CausesAreOf DEF WorkInv, WorkTypes, CoveredIsShown, AnsweredWasShown, seen, Causes, Of
<1> QED
  BY <1>2, <1>3, <1>4, <1>5 DEF WorkInv

\* The pass goes on; only a turn's reply, its plan or its end is written.
LEMMA GoesOnKeeps ==
    ASSUME WorkInv, NEW a \in Agents,
           Freezes(a) \/ Evaluates(a) \/ EndRefused(a) \/ Observes(a)
    PROVE  WorkInv'
<1>1. PICK to \in {"folds", "settles", "rewakes"} :
        /\ step' = [step EXCEPT ![a] = to]
        /\ to \in Working => step[a] \in Working
  BY DEF Freezes, Evaluates, EndRefused, Observes, Goes, Working
<1>2. /\ cause' = cause /\ shown' = shown
      /\ UNCHANGED <<forked, verdict, latest, gaveBack, spent, failed, closed, refusals, parked,
                     escaped>>
  BY DEF Freezes, Evaluates, EndRefused, Observes, seen, turns
<1>3. mishaps' \in 0..MaxMishaps
  BY MishapKeeps DEF Freezes, Evaluates, EndRefused, Observes, WorkInv, WorkTypes
<1>4. /\ open' \in [Agents -> {"none", "called", "replied"}]
      /\ evaluated' \subseteq Agents /\ ended' \subseteq Agents /\ unseen' \subseteq Agents
  BY DEF Freezes, Evaluates, EndRefused, Observes, WorkInv, WorkTypes, turns, seen
<1>5. WorkTypes'
  BY <1>1, <1>2, <1>3, <1>4 DEF WorkInv, WorkTypes
<1>6. Bounded'
  BY <1>1, <1>2 DEF WorkInv, WorkTypes, Bounded, Working
<1>7. \A b \in Agents : step'[b] = "answers" => step[b] = "answers"
  BY <1>1 DEF WorkInv, WorkTypes
<1>8. CoveredIsShown' /\ AnsweredWasShown'
  BY <1>2, <1>7, ShownIsKept
<1> QED
  BY <1>5, <1>6, <1>8 DEF WorkInv

\* A pass that is over, or never was: an open turn is closed or left.
LEMMA EscapesKeeps ==
    ASSUME WorkInv, NEW a \in Agents, Escapes(a)
    PROVE  WorkInv'
<1>1. /\ TurnTypes'
      /\ \A c \in Causes : cause'[c] \in {"covered", "answered"} => cause'[c] = cause[c]
      /\ UNCHANGED <<forked, spent, ended>>
  <2>1. CASE Recovers(a)
    BY <2>1, RecoversKeeps
  <2>2. CASE ~Recovers(a)
    BY <2>2 DEF Escapes, WorkInv, WorkTypes, TurnTypes
  <2> QED
    BY <2>1, <2>2
<1>2. mishaps' \in 0..MaxMishaps
  BY MishapKeeps DEF Escapes
<1>3. /\ step' = [step EXCEPT ![a] = "idle"] /\ closed' = closed \ {a}
      /\ escaped' = escaped \cup {a} /\ unseen' = unseen \cup {a}
      /\ UNCHANGED <<verdict, failed, refusals, parked, shown>>
  BY DEF Escapes, Goes
<1>4. WorkTypes'
  BY <1>1, <1>2, <1>3 DEF WorkInv, WorkTypes, TurnTypes
<1>5. Bounded'
  BY <1>1, <1>3 DEF WorkInv, WorkTypes, Bounded, Working
<1>6. \A b \in Agents : step'[b] = "answers" => step[b] = "answers"
  BY <1>3 DEF WorkInv, WorkTypes
<1>7. CoveredIsShown' /\ AnsweredWasShown'
  BY <1>1, <1>3, <1>6, ShownIsKept
<1> QED
  BY <1>4, <1>5, <1>7 DEF WorkInv

LEMMA PassStepKeeps ==
    ASSUME WorkInv, NEW a \in Agents, PassStep(a)
    PROVE  WorkInv'
BY ProvesKeeps, OpensKeeps, OpenRefusedKeeps, FailuresKeep, SettlesKeeps, ReadsContextKeeps,
   AnswersKeeps, GoesOnKeeps DEF PassStep
-----------------------------------------------------------------------------
(* What is written from elsewhere.                                         *)

LEMMA CommitsKeeps ==
    ASSUME WorkInv, NEW m \in Messages, Commits(m), UNCHANGED <<procs, seen, mishaps>>
    PROVE  WorkInv'
<1>1. m \in Causes /\ AddressedTo[m] \in Agents
  BY WorkAssumption DEF Causes
<1>2. /\ cause' = [cause EXCEPT ![m] = "new"]
      /\ spent' \in {spent, [spent EXCEPT ![AddressedTo[m]] = 0]}
      /\ failed' \in {failed, failed \ {AddressedTo[m]}}
      /\ UNCHANGED <<forked, verdict, open, latest, gaveBack, ended>>
  BY DEF Commits
<1>3. spent' \in [Agents -> 0..RunLimit]
  BY <1>1, <1>2, WorkAssumption DEF WorkInv, WorkTypes
<1>4. WorkTypes'
  BY <1>1, <1>2, <1>3 DEF WorkInv, WorkTypes, procs, seen
<1>5. Bounded'
  <2>1. \A b \in Agents : spent'[b] = spent[b] \/ spent'[b] = 0
    BY <1>1, <1>2 DEF WorkInv, WorkTypes
  <2>2. 0 < RunLimit
    BY WorkAssumption
  <2>3. UNCHANGED <<step, refusals, parked>>
    BY DEF procs
  <2> QED
    BY <2>1, <2>2, <2>3 DEF WorkInv, Bounded
<1>6. \A c \in Causes : cause'[c] \in {"covered", "answered"} => cause'[c] = cause[c]
  BY <1>1, <1>2 DEF WorkInv, WorkTypes
<1>7. CoveredIsShown' /\ AnsweredWasShown'
  BY <1>6, ShownIsKept DEF procs, seen
<1> QED
  BY <1>4, <1>5, <1>7 DEF WorkInv

LEMMA ForksKeeps ==
    ASSUME WorkInv, NEW a \in Agents, Forks(a), UNCHANGED <<procs, seen, mishaps>>
    PROVE  WorkInv'
<1>1. /\ forked' = forked \cup {a}
      /\ UNCHANGED <<cause, verdict, open, latest, gaveBack, spent, failed, ended>>
  BY DEF Forks
<1>2. WorkTypes'
  BY <1>1 DEF WorkInv, WorkTypes, procs, seen
<1>3. Bounded'
  BY <1>1 DEF WorkInv, Bounded, procs
<1>4. CoveredIsShown' /\ AnsweredWasShown'
  BY <1>1, ShownIsKept DEF procs, seen
<1> QED
  BY <1>2, <1>3, <1>4 DEF WorkInv

LEMMA InterruptedKeeps ==
    ASSUME WorkInv, NEW a \in Agents, Interrupted(a), mishaps' = mishaps
    PROVE  WorkInv'
<1>1. /\ TurnTypes'
      /\ \A c \in Causes : cause'[c] \in {"covered", "answered"} => cause'[c] = cause[c]
      /\ UNCHANGED <<forked, spent, ended>>
  BY RecoversKeeps DEF Interrupted
<1>2. /\ step' = [step EXCEPT ![a] = "idle"] /\ closed' = closed \ {a} /\ parked' = parked \ {a}
      /\ refusals' = [refusals EXCEPT ![a] = 0] /\ escaped' = escaped \ {a}
      /\ unseen' \in {unseen, unseen \cup {a}}
      /\ UNCHANGED <<verdict, failed, shown>>
  BY DEF Interrupted
<1>3. 0 \in 0..RefusalBound /\ 0 < RefusalBound
  BY WorkAssumption
<1>4. WorkTypes'
  BY <1>1, <1>2, <1>3 DEF WorkInv, WorkTypes, TurnTypes
<1>5. Bounded'
  BY <1>1, <1>2, <1>3 DEF WorkInv, WorkTypes, Bounded, Working
<1>6. \A b \in Agents : step'[b] = "answers" => step[b] = "answers"
  BY <1>2 DEF WorkInv, WorkTypes
<1>7. CoveredIsShown' /\ AnsweredWasShown'
  BY <1>1, <1>2, <1>6, ShownIsKept
<1> QED
  BY <1>4, <1>5, <1>7 DEF WorkInv

LEMMA LosesPassesKeeps ==
    ASSUME WorkInv, LosesPasses, Mishap
    PROVE  WorkInv'
<1>1. mishaps' \in 0..MaxMishaps
  BY MishapKeeps
<1>2. 0 \in 0..RefusalBound /\ 0 < RefusalBound
  BY WorkAssumption
<1>3. /\ step' = [a \in Agents |-> "idle"] /\ closed' = {} /\ parked' = {}
      /\ refusals' = [a \in Agents |-> 0] /\ escaped' = {}
      /\ unseen' = unseen \cup {a \in Agents : step[a] = "observes"}
      /\ UNCHANGED <<turns, shown, evaluated>>
  BY DEF LosesPasses
<1>4. WorkTypes'
  BY <1>1, <1>2, <1>3 DEF WorkInv, WorkTypes, turns
<1>5. Bounded'
  BY <1>2, <1>3 DEF Bounded, Working
<1>6. CoveredIsShown' /\ AnsweredWasShown'
  BY <1>3, ShownIsKept DEF turns
<1> QED
  BY <1>4, <1>5, <1>6 DEF WorkInv

LEMMA OnlyMishapKeeps ==
    ASSUME WorkInv, Mishap, UNCHANGED <<turns, procs, seen>>
    PROVE  WorkInv'
<1>1. mishaps' \in 0..MaxMishaps
  BY MishapKeeps
<1>2. WorkTypes'
  BY <1>1 DEF WorkInv, WorkTypes, turns, procs, seen
<1>3. Bounded'
  BY DEF WorkInv, Bounded, turns, procs
<1>4. CoveredIsShown' /\ AnsweredWasShown'
  BY ShownIsKept DEF turns, procs, seen
<1> QED
  BY <1>2, <1>3, <1>4 DEF WorkInv

LEMMA NothingOfTheWorkKeeps ==
    ASSUME WorkInv, UNCHANGED workVars
    PROVE  WorkInv'
<1>1. WorkTypes'
  BY DEF WorkInv, WorkTypes, workVars, turns, procs, seen
<1>2. Bounded'
  BY DEF WorkInv, Bounded, workVars, turns, procs
<1>3. CoveredIsShown' /\ AnsweredWasShown'
  BY ShownIsKept DEF workVars, turns, procs, seen
<1> QED
  BY <1>1, <1>2, <1>3 DEF WorkInv
-----------------------------------------------------------------------------
(* Routes, channels and the planner.                                       *)

LEMMA NothingOfTheWakesKeeps ==
    ASSUME WakeInv, UNCHANGED wakeRest
    PROVE  WakeInv'
BY DEF WakeInv, WakeTypes, OfferedIsThere, PlannedIsThere, wakeRest, onMain, routing, routes,
       planner

\* Only the route's own state and the channels change: a report is made or
\* taken, a wake is offered or forwarded, a message is taken in or out.
Channels ==
    /\ UNCHANGED <<onMain, routing, phase, todo, doing>>
    /\ planWake' \in BOOLEAN /\ dropped' = dropped
    /\ reports' \in [Agents -> SUBSET {"mail", "plan"}]
    /\ inbox' \in [Agents -> SUBSET Inboxed]
    /\ wake' \subseteq entry /\ episode' \subseteq entry
    /\ offering' \in [Agents -> {"none", "open", "closed"}]
    /\ \A a \in Agents : offering'[a] = "open" => a \in entry

LEMMA ChannelsKeep ==
    ASSUME WakeInv, Channels
    PROVE  WakeInv'
BY DEF WakeInv, WakeTypes, OfferedIsThere, PlannedIsThere, Channels, onMain, routing

LEMMA ReportedType ==
    ASSUME WakeInv, NEW a \in Agents, NEW kind \in {"mail", "plan"}, Reported(a, kind)
    PROVE  reports' \in [Agents -> SUBSET {"mail", "plan"}]
BY DEF WakeInv, WakeTypes, Reported

LEMMA RoutesKeep ==
    ASSUME WakeInv, NEW a \in Agents, Routes(a)
    PROVE  WakeInv'
<1>1. CASE RoutesPlan(a)
  BY <1>1, ChannelsKeep DEF RoutesPlan, Channels, WakeInv, WakeTypes, OfferedIsThere, onMain
<1>2. CASE LooksUp(a)
  BY <1>2, ChannelsKeep DEF LooksUp, Channels, WakeInv, WakeTypes, OfferedIsThere, onMain
<1>3. CASE Offers(a)
  BY <1>3, ChannelsKeep DEF Offers, Channels, WakeInv, WakeTypes, OfferedIsThere, onMain,
                            planner
<1> QED
  BY <1>1, <1>2, <1>3 DEF Routes

LEMMA MailsKeep ==
    ASSUME WakeInv, NEW a \in Agents, NEW m \in Messages,
           ReceivesMessage(a, m) \/ LosesMessage(a, m)
    PROVE  WakeInv'
<1>1. CASE ReceivesMessage(a, m)
  <2>1. reports' \in [Agents -> SUBSET {"mail", "plan"}]
    BY <1>1, ReportedType DEF ReceivesMessage
  <2> QED
    BY <1>1, <2>1, ChannelsKeep DEF ReceivesMessage, Channels, WakeInv, WakeTypes,
                                    OfferedIsThere, onMain, planner
<1>2. CASE LosesMessage(a, m)
  BY <1>2, ChannelsKeep DEF LosesMessage, Channels, WakeInv, WakeTypes, OfferedIsThere, onMain,
                            planner
<1> QED
  BY <1>1, <1>2

LEMMA MessagesKeep ==
    ASSUME WakeInv, NEW m \in Messages, CommitsMessage(m) \/ Sends(m)
    PROVE  WakeInv'
<1>1. AddressedTo[m] \in Agents
  BY WorkAssumption
<1>2. CASE CommitsMessage(m)
  <2>1. reports' \in [Agents -> SUBSET {"mail", "plan"}]
    BY <1>1, <1>2, ReportedType DEF CommitsMessage
  <2> QED
    BY <1>2, <2>1, ChannelsKeep DEF CommitsMessage, Channels, WakeInv, WakeTypes,
                                    OfferedIsThere, onMain, planner
<1>3. CASE Sends(m)
  BY <1>1, <1>3, ChannelsKeep DEF Sends, Channels, WakeInv, WakeTypes, OfferedIsThere, onMain,
                                  planner
<1> QED
  BY <1>2, <1>3

LEMMA TurnsKeep ==
    ASSUME WakeInv, NEW a \in Agents, Turns(a)
    PROVE  WakeInv'
<1>1. CASE TakesEpisode(a)
  BY <1>1, ChannelsKeep DEF TakesEpisode, Channels, WakeInv, WakeTypes, OfferedIsThere, onMain,
                            planner
<1>2. CASE Passes(a)
  BY <1>2, NothingOfTheWakesKeeps DEF Passes, wakeRest
<1>3. CASE WritesEnd(a)
  <2>1. reports' \in [Agents -> SUBSET {"mail", "plan"}]
    BY <1>3, ReportedType DEF WritesEnd, WakeInv, WakeTypes
  <2> QED
    BY <1>3, <2>1, ChannelsKeep DEF WritesEnd, Channels, WakeInv, WakeTypes, OfferedIsThere,
                                    onMain, planner
<1>4. CASE Rewakes(a)
  BY <1>4, ChannelsKeep DEF Rewakes, Channels, WakeInv, WakeTypes, OfferedIsThere, onMain
<1> QED
  BY <1>1, <1>2, <1>3, <1>4 DEF Turns

LEMMA ThrowsKeeps ==
    ASSUME WakeInv, NEW a \in Agents, Throws(a)
    PROVE  WakeInv'
BY DEF Throws, WakeInv, WakeTypes, OfferedIsThere, PlannedIsThere, onMain, routes, planner

LEMMA PlansType ==
    ASSUME WakeInv
    PROVE  /\ Ends \subseteq {"stop", "close"} \X Agents
           /\ \A a \in Agents : <<"stop", a>> \in Ends => a \in entry
           /\ Launches \subseteq {"attempt", "start", "halt"} \X Agents
           /\ \A a \in Agents : <<"halt", a>> \in Launches => a \in entry
BY DEF Ends, Launches, WakeInv, WakeTypes

LEMMA BeginsPassKeeps ==
    ASSUME WakeInv, BeginsPass
    PROVE  WakeInv'
<1>1. /\ doing = {} /\ doing' = {} /\ phase' = "ends" /\ todo' = Ends
      /\ planWake' = FALSE /\ dropped' = FALSE
      /\ UNCHANGED <<onMain, routing, routes>>
  BY DEF BeginsPass
<1>2. WakeTypes'
  BY <1>1, PlansType DEF WakeInv, WakeTypes, onMain, routing, routes, Ops
<1>3. OfferedIsThere'
  BY <1>1 DEF WakeInv, OfferedIsThere, routing, routes
<1>4. PlannedIsThere'
  BY <1>1, PlansType DEF PlannedIsThere, routing
<1> QED
  BY <1>2, <1>3, <1>4 DEF WakeInv

LEMMA AdvancesKeeps ==
    ASSUME WakeInv, Advances
    PROVE  WakeInv'
<1>1. /\ doing = {} /\ doing' = {}
      /\ UNCHANGED <<onMain, routing, routes, planWake, dropped>>
      /\ \/ phase' = "again" /\ todo' = Ends
         \/ phase' = "starts" /\ todo' = Launches
  BY DEF Advances
<1>2. WakeTypes'
  BY <1>1, PlansType DEF WakeInv, WakeTypes, onMain, routing, routes, Ops
<1>3. OfferedIsThere'
  BY <1>1 DEF WakeInv, OfferedIsThere, routing, routes
<1>4. PlannedIsThere'
  BY <1>1, PlansType DEF PlannedIsThere, routing
<1> QED
  BY <1>2, <1>3, <1>4 DEF WakeInv

\* An action that goes on with itself, or ends.
LEMMA GoesOnType ==
    ASSUME WakeInv, NEW op \in Ops, NEW a \in Agents, NEW next \in Ops, NEW rest,
           rest \in {{}, {<<next, a>>}}, GoesOn(op, a, rest)
    PROVE  /\ todo' \subseteq Ops \X Agents /\ doing' \subseteq Ops \X Agents
           /\ doing' = {} \/ \E x \in Ops \X Agents : doing' = {x}
BY DEF WakeInv, WakeTypes, GoesOn

LEMMA WritesAttemptKeeps ==
    ASSUME WakeInv, NEW a \in Agents, WritesAttempt(a)
    PROVE  WakeInv'
<1>1. WakeTypes'
  BY GoesOnType DEF WritesAttempt, WakeInv, WakeTypes, GoesOn, Ops, routing, routes
<1>2. OfferedIsThere'
  BY DEF WritesAttempt, WakeInv, OfferedIsThere, routing, routes
<1>3. PlannedIsThere'
  <2>1. /\ todo' \subseteq todo /\ doing' = {<<"start", a>>}
        /\ phase' = phase /\ entry' = entry
    BY DEF WritesAttempt, GoesOn, routing
  <2>2. /\ todo' \subseteq {"attempt", "start", "stop", "halt", "close"} \X Agents
        /\ doing' \subseteq {"start", "publish", "prime", "join", "exit"} \X Agents
    BY <2>1 DEF WakeInv, PlannedIsThere
  <2>3. ASSUME NEW b \in Agents
        PROVE  /\ <<"prime", b>> \in doing' => b \in entry'
               /\ <<"stop", b>> \in todo' => b \in entry' /\ phase' # "starts"
               /\ <<"halt", b>> \in todo' => b \in entry' /\ phase' = "starts"
               /\ <<"join", b>> \notin doing' /\ <<"exit", b>> \notin doing'
    BY <2>1 DEF WakeInv, PlannedIsThere
  <2> QED
    BY <2>2, <2>3 DEF PlannedIsThere
<1> QED
  BY <1>1, <1>2, <1>3 DEF WakeInv

LEMMA ForksBranchKeeps ==
    ASSUME WakeInv, NEW a \in Agents, ForksBranch(a)
    PROVE  WakeInv'
<1>1. WakeTypes'
  BY DEF ForksBranch, WakeInv, WakeTypes, GoesOn, Ops, onMain, routes
<1>2. OfferedIsThere'
  BY DEF ForksBranch, WakeInv, OfferedIsThere, routes
<1>3. PlannedIsThere'
  <2>1. /\ todo' \subseteq todo /\ doing' = {<<"publish", a>>}
        /\ phase' = phase /\ entry' = entry
    BY DEF ForksBranch, GoesOn
  <2>2. /\ todo' \subseteq {"attempt", "start", "stop", "halt", "close"} \X Agents
        /\ doing' \subseteq {"start", "publish", "prime", "join", "exit"} \X Agents
    BY <2>1 DEF WakeInv, PlannedIsThere
  <2>3. ASSUME NEW b \in Agents
        PROVE  /\ <<"prime", b>> \in doing' => b \in entry'
               /\ <<"stop", b>> \in todo' => b \in entry' /\ phase' # "starts"
               /\ <<"halt", b>> \in todo' => b \in entry' /\ phase' = "starts"
               /\ <<"join", b>> \notin doing' /\ <<"exit", b>> \notin doing'
    BY <2>1 DEF WakeInv, PlannedIsThere
  <2> QED
    BY <2>2, <2>3 DEF PlannedIsThere
<1> QED
  BY <1>1, <1>2, <1>3 DEF WakeInv

LEMMA PublishesKeeps ==
    ASSUME WakeInv, NEW a \in Agents, Publishes(a)
    PROVE  WakeInv'
<1>1. WakeTypes'
  BY DEF Publishes, WakeInv, WakeTypes, GoesOn, Ops, onMain, routes
<1>2. OfferedIsThere'
  BY DEF Publishes, WakeInv, OfferedIsThere, routes
<1>3. PlannedIsThere'
  <2>1. /\ todo' \subseteq todo /\ doing' = {<<"prime", a>>}
        /\ phase' = phase /\ entry' = entry \cup {a}
    BY DEF Publishes, GoesOn
  <2>2. /\ todo' \subseteq {"attempt", "start", "stop", "halt", "close"} \X Agents
        /\ doing' \subseteq {"start", "publish", "prime", "join", "exit"} \X Agents
    BY <2>1 DEF WakeInv, PlannedIsThere
  <2>3. ASSUME NEW b \in Agents
        PROVE  /\ <<"prime", b>> \in doing' => b \in entry'
               /\ <<"stop", b>> \in todo' => b \in entry' /\ phase' # "starts"
               /\ <<"halt", b>> \in todo' => b \in entry' /\ phase' = "starts"
               /\ <<"join", b>> \notin doing' /\ <<"exit", b>> \notin doing'
    BY <2>1 DEF WakeInv, PlannedIsThere
  <2> QED
    BY <2>2, <2>3 DEF PlannedIsThere
<1> QED
  BY <1>1, <1>2, <1>3 DEF WakeInv

LEMMA PrimesKeeps ==
    ASSUME WakeInv, NEW a \in Agents, Primes(a)
    PROVE  WakeInv'
<1>1. a \in entry
  BY DEF Primes, Applies, WakeInv, PlannedIsThere
<1>2. WakeTypes'
  BY <1>1 DEF Primes, WakeInv, WakeTypes, GoesOn, Ops, onMain, routing
<1>3. OfferedIsThere'
  BY DEF Primes, WakeInv, OfferedIsThere, routing
<1>4. PlannedIsThere'
  BY DEF Primes, GoesOn, WakeInv, PlannedIsThere, routing
<1> QED
  BY <1>2, <1>3, <1>4 DEF WakeInv

LEMMA AsksToStopKeeps ==
    ASSUME WakeInv, NEW a \in Agents, AsksToStop(a)
    PROVE  WakeInv'
<1>1. PICK how \in {<<"stop", "join">>, <<"halt", "exit">>} :
        /\ <<how[1], a>> \in todo /\ doing = {}
        /\ todo' = todo \ {<<how[1], a>>} /\ doing' = {<<how[2], a>>}
  BY DEF AsksToStop, Applies, GoesOn, WakeInv, PlannedIsThere
<1>2. UNCHANGED <<onMain, routing, routes, planWake, phase, dropped>>
  BY DEF AsksToStop
<1>3. WakeTypes'
  BY <1>1, <1>2 DEF WakeInv, WakeTypes, Ops, onMain, routing, routes
<1>4. OfferedIsThere'
  BY <1>2 DEF WakeInv, OfferedIsThere, routing, routes
<1>5. PlannedIsThere'
  BY <1>1, <1>2 DEF WakeInv, PlannedIsThere, routing
<1> QED
  BY <1>3, <1>4, <1>5 DEF WakeInv

LEMMA ExitsKeeps ==
    ASSUME WakeInv, NEW a \in Agents, Exits(a)
    PROVE  WakeInv'
<1>1. PICK op \in {"join", "exit"} :
        /\ <<op, a>> \in doing /\ todo' = todo \ {<<op, a>>} /\ doing' = {}
        /\ entry' = entry \ {a} /\ dead' = dead \ {a} /\ unprimed' = unprimed \ {a}
        /\ wake' = wake \ {a} /\ episode' = episode \ {a}
        /\ inbox' = [inbox EXCEPT ![a] = {}]
        /\ offering' = [offering EXCEPT ![a] = IF @ = "open" THEN "closed" ELSE @]
        /\ routed' \in {routed, routed \ {a}}
        /\ reports' \in {reports, [reports EXCEPT ![a] = {}]}
        /\ phase' = IF phase = "ends" THEN "stopped" ELSE phase
        /\ UNCHANGED <<onMain, planWake, dropped>>
  BY DEF Exits, Applies, GoesOn, WakeInv, PlannedIsThere
<1>2. WakeTypes'
  BY <1>1 DEF WakeInv, WakeTypes, onMain
<1>3. OfferedIsThere'
  BY <1>1 DEF WakeInv, WakeTypes, OfferedIsThere
<1>4. PlannedIsThere'
  <2>1. doing = {<<op, a>>}
    BY <1>1 DEF WakeInv, WakeTypes
  <2>2. <<"stop", a>> \notin todo /\ <<"halt", a>> \notin todo
    BY <1>1 DEF WakeInv, PlannedIsThere
  <2> QED
    BY <1>1, <2>2 DEF WakeInv, PlannedIsThere
<1> QED
  BY <1>2, <1>3, <1>4 DEF WakeInv

LEMMA WritesEndOnMainKeeps ==
    ASSUME WakeInv, NEW a \in Agents, WritesEndOnMain(a)
    PROVE  WakeInv'
<1>1. WakeTypes'
  BY DEF WritesEndOnMain, WakeInv, WakeTypes, GoesOn, routing, routes
<1>2. OfferedIsThere'
  BY DEF WritesEndOnMain, WakeInv, OfferedIsThere, routing, routes
<1>3. PlannedIsThere'
  BY DEF WritesEndOnMain, GoesOn, WakeInv, PlannedIsThere, routing
<1> QED
  BY <1>1, <1>2, <1>3 DEF WakeInv

LEMMA FailsKeeps ==
    ASSUME WakeInv, NEW op \in Ops, NEW a \in Agents, Fails(op, a)
    PROVE  WakeInv'
<1>1. op \in {"prime", "join", "exit"} => a \in entry
  BY DEF Fails, Applies, WakeInv, PlannedIsThere
<1>2. /\ todo' = {} /\ doing' = {} /\ phase' = "starts"
      /\ attempt' \in {attempt, [attempt EXCEPT ![a] = "over"]}
      /\ planWake' \in BOOLEAN /\ dropped' \in BOOLEAN
      /\ UNCHANGED <<stopped, routed, entry, routes>>
  BY DEF Fails, WakeInv, WakeTypes
<1>3. unprimed' \subseteq entry /\ dead' \subseteq entry
  BY <1>1 DEF Fails, WakeInv, WakeTypes
<1>4. WakeTypes'
  BY <1>2, <1>3 DEF WakeInv, WakeTypes, routes
<1>5. OfferedIsThere' /\ PlannedIsThere'
  BY <1>2 DEF WakeInv, OfferedIsThere, PlannedIsThere, routes
<1> QED
  BY <1>4, <1>5 DEF WakeInv

LEMMA RootKeeps ==
    ASSUME WakeInv, NEW a \in Agents, SetsRunning(a) \/ SetsStopped(a)
    PROVE  WakeInv'
<1>1. WakeTypes'
  BY DEF SetsRunning, SetsStopped, WakeInv, WakeTypes, routing, routes
<1>2. OfferedIsThere' /\ PlannedIsThere'
  BY DEF SetsRunning, SetsStopped, WakeInv, OfferedIsThere, PlannedIsThere, routing, routes
<1> QED
  BY <1>1, <1>2 DEF WakeInv

LEMMA RebootsKeeps ==
    ASSUME WakeInv, Reboots
    PROVE  WakeInv'
<1>1. WakeTypes'
  BY DEF Reboots, WakeInv, WakeTypes, onMain
<1>2. OfferedIsThere' /\ PlannedIsThere'
  BY DEF Reboots, OfferedIsThere, PlannedIsThere
<1> QED
  BY <1>1, <1>2 DEF WakeInv
-----------------------------------------------------------------------------
(* Both halves.                                                            *)

WakesInv == WorkInv /\ WakeInv

LEMMA RewakesKeepsWork ==
    ASSUME WorkInv, NEW a \in Agents, Rewakes(a)
    PROVE  WorkInv'
<1>1. /\ step' = [step EXCEPT ![a] = "idle"] /\ closed' = closed \ {a}
      /\ UNCHANGED <<turns, refusals, parked, seen, mishaps>>
  BY DEF Rewakes, Goes
<1>2. WorkTypes'
  BY <1>1 DEF WorkInv, WorkTypes, turns, seen
<1>3. Bounded'
  BY <1>1 DEF WorkInv, WorkTypes, Bounded, turns, Working
<1>4. \A b \in Agents : step'[b] = "answers" => step[b] = "answers"
  BY <1>1 DEF WorkInv, WorkTypes
<1>5. CoveredIsShown' /\ AnsweredWasShown'
  BY <1>1, <1>4, ShownIsKept DEF turns, seen
<1> QED
  BY <1>2, <1>3, <1>5 DEF WorkInv

LEMMA InitHolds == Init => WakesInv
<1> SUFFICES ASSUME Init PROVE WakesInv
  OBVIOUS
<1>1. WorkTypes
  BY WorkAssumption DEF Init, WorkInit, WorkTypes
<1>2. Bounded
  BY WorkAssumption DEF Init, WorkInit, Bounded, Working
<1>3. CoveredIsShown /\ AnsweredWasShown
  BY DEF Init, WorkInit, CoveredIsShown, AnsweredWasShown
<1>4. WakeInv
  BY DEF Init, WakeInv, WakeTypes, OfferedIsThere, PlannedIsThere
<1> QED
  BY <1>1, <1>2, <1>3, <1>4 DEF WakesInv, WorkInv

\* One step per action: what it does to the work, and what to the wakes.
LEMMA StepHolds == WakesInv /\ [Next]_wakeVars => WakesInv'
<1> SUFFICES ASSUME WorkInv, WakeInv, [Next]_wakeVars PROVE WorkInv' /\ WakeInv'
  BY DEF WakesInv
<1>1. ASSUME NEW a \in Agents, Routes(a) PROVE WorkInv' /\ WakeInv'
  BY <1>1, RoutesKeep, NothingOfTheWorkKeeps DEF Routes, RoutesPlan, LooksUp, Offers
<1>2. ASSUME NEW a \in Agents, ForwardsWake(a) PROVE WorkInv' /\ WakeInv'
  <2>1. WorkInv'
    BY <1>2, NothingOfTheWorkKeeps DEF ForwardsWake
  <2>2. WakeInv'
    BY <1>2, ChannelsKeep DEF ForwardsWake, Runs, Channels, WakeInv, WakeTypes,
                              OfferedIsThere, onMain, planner
  <2> QED
    BY <2>1, <2>2
<1>3. ASSUME NEW a \in Agents, NEW m \in Messages, ReceivesMessage(a, m) \/ LosesMessage(a, m)
      PROVE  WorkInv' /\ WakeInv'
  <2>1. WorkInv'
    BY <1>3, CommitsKeeps, OnlyMishapKeeps DEF ReceivesMessage, LosesMessage
  <2> QED
    BY <1>3, <2>1, MailsKeep
<1>4. ASSUME NEW m \in Messages, CommitsMessage(m) \/ Sends(m) PROVE WorkInv' /\ WakeInv'
  <2>1. WorkInv'
    BY <1>4, CommitsKeeps, NothingOfTheWorkKeeps DEF CommitsMessage, Sends
  <2> QED
    BY <1>4, <2>1, MessagesKeep
<1>5. ASSUME NEW a \in Agents, Turns(a) PROVE WorkInv' /\ WakeInv'
  <2>1. WorkInv'
    BY <1>5, DerivesKeeps, PassStepKeeps, GoesOnKeeps, RewakesKeepsWork
       DEF Turns, TakesEpisode, Passes, WritesEnd
  <2> QED
    BY <1>5, <2>1, TurnsKeep
<1>6. ASSUME NEW a \in Agents, Throws(a) PROVE WorkInv' /\ WakeInv'
  BY <1>6, ThrowsKeeps, EscapesKeeps DEF Throws
<1>7. CASE BeginsPass \/ Advances
  BY <1>7, BeginsPassKeeps, AdvancesKeeps, NothingOfTheWorkKeeps DEF BeginsPass, Advances
<1>8. ASSUME NEW a \in Agents, Plans(a) PROVE WorkInv' /\ WakeInv'
  <2>1. CASE WritesAttempt(a)
    BY <2>1, WritesAttemptKeeps, NothingOfTheWorkKeeps DEF WritesAttempt
  <2>2. CASE ForksBranch(a)
    BY <2>2, ForksBranchKeeps, ForksKeeps DEF ForksBranch
  <2>3. CASE Publishes(a)
    BY <2>3, PublishesKeeps, NothingOfTheWorkKeeps DEF Publishes
  <2>4. CASE Primes(a)
    BY <2>4, PrimesKeeps, NothingOfTheWorkKeeps DEF Primes
  <2>5. CASE AsksToStop(a)
    BY <2>5, AsksToStopKeeps, NothingOfTheWorkKeeps DEF AsksToStop
  <2>6. CASE Exits(a)
    BY <2>6, ExitsKeeps, InterruptedKeeps DEF Exits
  <2>7. CASE WritesEndOnMain(a)
    BY <2>7, WritesEndOnMainKeeps, NothingOfTheWorkKeeps DEF WritesEndOnMain
  <2> QED
    BY <1>8, <2>1, <2>2, <2>3, <2>4, <2>5, <2>6, <2>7 DEF Plans
<1>9. ASSUME NEW op \in Ops, NEW a \in Agents, Fails(op, a) PROVE WorkInv' /\ WakeInv'
  BY <1>9, FailsKeeps, OnlyMishapKeeps DEF Fails
<1>10. ASSUME NEW a \in Agents, SetsRunning(a) \/ SetsStopped(a) PROVE WorkInv' /\ WakeInv'
  <2>1. WorkInv'
    BY <1>10, NothingOfTheWorkKeeps, OnlyMishapKeeps DEF SetsRunning, SetsStopped
  <2> QED
    BY <1>10, <2>1, RootKeeps
<1>11. CASE Reboots
  BY <1>11, RebootsKeeps, LosesPassesKeeps DEF Reboots
<1>12. CASE UNCHANGED wakeVars
  BY <1>12, NothingOfTheWorkKeeps, NothingOfTheWakesKeeps DEF wakeVars, wakeRest
<1> QED
  BY <1>1, <1>2, <1>3, <1>4, <1>5, <1>6, <1>7, <1>8, <1>9, <1>10, <1>11, <1>12
     DEF Next, Mails, Planner

LEMMA WakesInvImpliesTypes == WakesInv => TypeOK
<1> SUFFICES ASSUME WakesInv
             PROVE  TypeOK
  OBVIOUS
<1>1. Cardinality(doing) \in {0, 1}
  <2>1. CASE doing = {}
    BY <2>1, FS_EmptySet
  <2>2. CASE doing # {}
    <3>1. PICK x \in Ops \X Agents : doing = {x}
      BY <2>2 DEF WakesInv, WakeInv, WakeTypes
    <3> QED
      BY <3>1, FS_Singleton
  <2> QED
    BY <2>1, <2>2
<1> QED
  BY <1>1 DEF WakesInv, WorkInv, WakeInv, WakeTypes, TypeOK

\* Every reachable state is well typed, whatever the agents, messages and bounds.
THEOREM TypeCorrect == Spec => []TypeOK
<1>1. Spec => []WakesInv
  BY InitHolds, StepHolds, PTL DEF Spec
<1> QED
  BY <1>1, WakesInvImpliesTypes, PTL

\* No message and no red proving counts as answered that no provider was shown.
THEOREM AnswersAreShown == Spec => []AnsweredWasShown
<1>1. Spec => []WakesInv
  BY InitHolds, StepHolds, PTL DEF Spec
<1>2. WakesInv => AnsweredWasShown
  BY DEF WakesInv, WorkInv
<1> QED
  BY <1>1, <1>2, PTL

-----------------------------------------------------------------------------
(***************************************************************************)
(* That nothing is forgotten, proved for any agents, messages and bounds.  *)
(*                                                                         *)
(* The invariant says of every agent three things.  EndOf: a pass that     *)
(* works on a turn has it open, and an end that no pass observes is        *)
(* recorded as unseen.  RouteOf: an agent in a pass has an entry, an entry *)
(* has its branch and route, an end is reported before its pass is over,   *)
(* and what is left to do is carried by something.  PlanOf: what main and  *)
(* the branch ask of the planner is in its plan, until it is woken again.  *)
(***************************************************************************)

\* Steps of a pass that work on a turn without a reply, and on one with it.
StepFits(a) ==
    /\ step[a] \in {"calls", "answers", "freezes"} => open[a] = "called"
    /\ step[a] \in {"folds", "settles"} => open[a] = "replied"

\* Nothing happens on a branch before it is forked.
ForkedFirst(a) ==
    step[a] # "idle" \/ open[a] # "none" \/ verdict[a] # "unproved" => a \in forked

EndSeen(a) == TaskEnd(a) /\ ~HasWork(a) => step[a] = "observes" \/ a \in unseen

EndOf(a) == StepFits(a) /\ ForkedFirst(a) /\ EndSeen(a)

\* Passes run in graphs, and graphs on branches whose route is registered.
Housed(a) ==
    /\ step[a] # "idle" => a \in entry
    /\ a \in entry \/ <<"publish", a>> \in doing => a \in forked /\ a \in routed
    /\ \A m \in inbox[a] : AddressedTo[m] = a

\* Only the writer of an end waits for its report.
EndIsReported(a) == "plan" \in reports[a] => step[a] = "rewakes"

Carried(a) == a \in entry /\ HasWork(a) /\ ~Stuck(a) => Carries(a)

RouteOf(a) == Housed(a) /\ EndIsReported(a) /\ Carried(a)

\* What is asked of the planner for agent a is news to it.
Awaited(a) == planWake \/ dropped \/ "plan" \in reports[a]

\* What main and the branch of an agent ask for is planned.
Planned(a) ==
    /\ attempt[a] = "ready" => Owed("attempt", a) \/ phase \in {"ends", "again"}
    /\ attempt[a] = "open" /\ a \notin entry \cup stopped \cup ended
         => \/ phase \in {"ends", "again"}
            \/ \E op \in {"start", "publish"} : Owed(op, a)
    /\ attempt[a] = "open" /\ a \in ended \ entry => Owed("close", a)

\* An ended attempt's graph is about to be stopped, in every phase.
EndIsPlanned(a) == a \in entry /\ Ended(a) => Owed("stop", a) \/ Owed("join", a)

\* The second derivation of ends finds only what ended meanwhile.
SecondEndIsNews(a) ==
    phase = "again" /\ (Owed("stop", a) \/ Owed("join", a)) => Awaited(a)

\* What is started had not ended, and what is halted was stopped, or it is news.
StartIsOpen(a) == Owed("start", a) \/ Owed("publish", a) => Awaited(a) \/ ~Ended(a)
HaltIsStopped(a) == Owed("halt", a) \/ Owed("exit", a) => Awaited(a) \/ a \in stopped

PlanOf(a) ==
    /\ Awaited(a) \/ phase = "stopped" \/ Planned(a)
    /\ Awaited(a) \/ EndIsPlanned(a)
    /\ SecondEndIsNews(a) /\ StartIsOpen(a) /\ HaltIsStopped(a)

EndInv   == \A a \in Agents : EndOf(a)
RouteInv == \A a \in Agents : RouteOf(a)
PlanInv  == \A a \in Agents : PlanOf(a)

CarryInv == EndInv /\ RouteInv /\ PlanInv
-----------------------------------------------------------------------------
(* Turns.                                                                  *)

\* What is derived of agent b, and where its pass stands, stay the same.
SameWork(b) ==
    /\ open'[b] = open[b] /\ latest'[b] = latest[b] /\ verdict'[b] = verdict[b]
    /\ spent'[b] = spent[b] /\ (b \in failed' <=> b \in failed)
    /\ (b \in gaveBack' <=> b \in gaveBack) /\ (b \in ended' <=> b \in ended)
    /\ (b \in forked' <=> b \in forked)
    /\ \A c \in Causes : Of(c) = b => cause'[c] = cause[c]

SameProc(b) ==
    /\ step'[b] = step[b] /\ (b \in parked' <=> b \in parked)
    /\ (b \in escaped' <=> b \in escaped) /\ (b \in unseen' <=> b \in unseen)

Same(b) == SameWork(b) /\ SameProc(b)

\* A derivation reads nothing of other agents.
LEMMA SameDerivations ==
    ASSUME NEW b \in Agents, SameWork(b)
    PROVE  (HasWork(b)' <=> HasWork(b)) /\ (TaskEnd(b)' <=> TaskEnd(b))
<1>1. Unanswered(b)' = Unanswered(b)
  <2>1. \A m \in Messages : AddressedTo[m] = b => cause'[m] = cause[m]
    BY WorkAssumption DEF SameWork, Causes, Of
  <2> QED
    BY <2>1 DEF Unanswered
<1>2. cause'[b] = cause[b]
  BY DEF SameWork, Causes, Of
<1>3. /\ ProvedUnanswered(b)' <=> ProvedUnanswered(b)
      /\ Deferred(b)' <=> Deferred(b)
      /\ Continues(b)' <=> Continues(b)
  BY <1>2 DEF SameWork, ProvedUnanswered, Deferred, Continues
<1>4. NextWork(b)' = NextWork(b)
  BY <1>1, <1>3 DEF SameWork, NextWork
<1>5. Stalled(b)' <=> Stalled(b)
  BY <1>1, <1>3 DEF SameWork, Stalled
<1> QED
  BY <1>4, <1>5 DEF SameWork, HasWork, TaskEnd

LEMMA SameEnd ==
    ASSUME NEW b \in Agents, EndOf(b), Same(b)
    PROVE  EndOf(b)'
BY SameDerivations DEF Same, SameWork, SameProc, EndOf, StepFits, ForkedFirst, EndSeen

\* A step of the pass of agent a that is not its last.
Worked(a) ==
    /\ step[a] \notin {"idle", "rewakes"} /\ step'[a] # "idle"
    /\ EndOf(a)'
    /\ \A b \in Agents \ {a} : Same(b)

\* A report leads to the observation of the end.
LEMMA ReportedWorks ==
    ASSUME WorkInv, EndInv, NEW a \in Agents, step[a] \notin {"idle", "rewakes"},
           NEW outcome \in {"closed", "error"}, NEW refused, Reports(a, outcome, refused),
           forked' = forked, UNCHANGED <<escaped, unseen>>,
           \A b \in Agents \ {a} : SameWork(b)
    PROVE  Worked(a)
<1>1. step' = [step EXCEPT ![a] = "observes"]
  BY DEF Reports, Goes
<1>2. \A b \in Agents \ {a} : SameProc(b)
  BY <1>1 DEF Reports, SameProc, WorkInv, WorkTypes
<1>3. step'[a] = "observes" /\ a \in forked'
  BY <1>1 DEF WorkInv, WorkTypes, EndInv, EndOf, ForkedFirst
<1>4. EndOf(a)'
  BY <1>3 DEF EndOf, StepFits, ForkedFirst, EndSeen
<1> QED
  BY <1>2, <1>3, <1>4 DEF Worked, Same

\* A close changes nothing for other agents.
LEMMA ClosesSame ==
    ASSUME WorkInv, NEW a \in Agents, NEW how, Closes(a, how), UNCHANGED failed,
           verdict' \in [Agents -> {"unproved", "red", "done"}],
           \A b \in Agents \ {a} : verdict'[b] = verdict[b]
    PROVE  \A b \in Agents \ {a} : SameWork(b)
BY DEF Closes, SameWork, WorkInv, WorkTypes

LEMMA PassStepWorks ==
    ASSUME WorkInv, EndInv, NEW a \in Agents, PassStep(a)
    PROVE  Worked(a)
<1> USE DEF WorkInv, WorkTypes
<1>1. CASE Proves(a) \/ ProvesInPart(a) \/ ProofFails(a) \/ OpenRefused(a)
  <2>1. \A b \in Agents \ {a} : SameWork(b)
    BY <1>1 DEF Proves, ProvesInPart, ProofFails, OpenRefused, SameWork, turns
  <2> QED
    BY <1>1, <2>1, ReportedWorks DEF Proves, ProvesInPart, ProofFails, OpenRefused, turns, seen
<1>2. CASE ContextRefused(a) \/ AttemptRefused(a) \/ FreezeRefused(a)
  <2>1. PICK place \in {"calls", "answers", "freezes"}, refused \in BOOLEAN :
            FailsAt(a, place, refused)
    BY <1>2 DEF ContextRefused, AttemptRefused, FreezeRefused
  <2>2. \A b \in Agents \ {a} : SameWork(b)
    BY <2>1, ClosesSame DEF FailsAt
  <2> QED
    BY <2>1, <2>2, ReportedWorks DEF FailsAt, Closes
<1>3. CASE ProviderFails(a)
  <2>1. \A b \in Agents \ {a} : SameWork(b)
    BY <1>3 DEF ProviderFails, Closes, SameWork
  <2> QED
    BY <1>3, <2>1, ReportedWorks DEF ProviderFails, Closes
<1>4. CASE Settles(a)
  <2>1. \A b \in Agents \ {a} : SameWork(b)
    BY <1>4 DEF Settles, Judges, Closes, SameWork
  <2> QED
    BY <1>4, <2>1, ReportedWorks DEF Settles, Closes
<1>5. CASE SettleRefused(a)
  <2>1. \A b \in Agents \ {a} : SameWork(b)
    BY <1>5, ClosesSame DEF SettleRefused
  <2> QED
    BY <1>5, <2>1, ReportedWorks DEF SettleRefused, Closes
<1>6. a \in forked \/ step[a] = "idle"
  BY DEF EndInv, EndOf, ForkedFirst
<1>7. CASE Opens(a)
  <2>1. /\ step[a] = "opens" /\ step' = [step EXCEPT ![a] = "rewakes"]
        /\ open' = [open EXCEPT ![a] = "called"]
    BY <1>7 DEF Opens, Reports, Goes
  <2>2. \A b \in Agents \ {a} : Same(b)
    BY <1>7, <2>1 DEF Opens, Reports, Same, SameWork, SameProc, seen
  <2>3. EndOf(a)'
    BY <1>6, <1>7, <2>1 DEF Opens, EndOf, StepFits, ForkedFirst, EndSeen, TaskEnd
  <2> QED
    BY <2>1, <2>2, <2>3 DEF Worked
<1>8. CASE ReadsContext(a) \/ Answers(a) \/ Freezes(a) \/ Evaluates(a)
  <2>1. /\ step[a] \in {"calls", "answers", "freezes", "folds"}
        /\ step' = [step EXCEPT ![a] = CASE step[a] = "calls" -> "answers"
                                         [] step[a] = "answers" -> "freezes"
                                         [] step[a] = "freezes" -> "folds"
                                         [] step[a] = "folds" -> "settles"]
        /\ open' = [open EXCEPT ![a] = IF step[a] = "freezes" THEN "replied" ELSE @]
        /\ UNCHANGED <<forked, verdict, latest, gaveBack, spent, failed, ended, parked,
                       escaped, unseen>>
    BY <1>8 DEF ReadsContext, Answers, Freezes, Evaluates, Goes, turns, seen
  <2>2. \A c \in Causes : Of(c) # a => cause'[c] = cause[c]
    BY <1>8 DEF ReadsContext, Answers, Freezes, Evaluates, turns
  <2>3. \A b \in Agents \ {a} : Same(b)
    BY <2>1, <2>2 DEF Same, SameWork, SameProc
  <2>4. StepFits(a)
    BY DEF EndInv, EndOf
  <2>5. EndOf(a)'
    BY <1>6, <2>1, <2>4 DEF EndOf, StepFits, ForkedFirst, EndSeen, TaskEnd
  <2> QED
    BY <2>1, <2>3, <2>5 DEF Worked
<1>9. CASE EndRefused(a)
  <2>1. /\ step[a] = "observes" /\ step' = [step EXCEPT ![a] = "rewakes"]
        /\ unseen' = unseen \cup {a} /\ UNCHANGED <<turns, parked, escaped>>
    BY <1>9 DEF EndRefused, Goes
  <2>2. \A b \in Agents \ {a} : Same(b)
    BY <2>1 DEF Same, SameWork, SameProc, turns
  <2>3. EndOf(a)'
    BY <1>6, <2>1 DEF EndOf, StepFits, ForkedFirst, EndSeen, turns
  <2> QED
    BY <2>1, <2>2, <2>3 DEF Worked
<1> QED
  BY <1>1, <1>2, <1>3, <1>4, <1>5, <1>7, <1>8, <1>9 DEF PassStep

\* An end that is observed is written, and one that is written is no end to come.
LEMMA ObservesWorks ==
    ASSUME WorkInv, EndInv, NEW a \in Agents, Observes(a)
    PROVE  Worked(a)
<1>1. /\ step[a] = "observes" /\ step' = [step EXCEPT ![a] = "rewakes"]
      /\ ended' = IF TaskEnd(a) THEN ended \cup {a} ELSE ended
      /\ UNCHANGED <<forked, cause, verdict, open, latest, gaveBack, spent, failed, parked,
                     escaped>>
      /\ unseen' = unseen \ {a}
  BY DEF Observes, Goes
<1>2. \A b \in Agents \ {a} : Same(b)
  BY <1>1 DEF Same, SameWork, SameProc, WorkInv, WorkTypes
<1>3. ~TaskEnd(a)'
  <2>1. CASE TaskEnd(a)
    BY <1>1, <2>1 DEF TaskEnd
  <2>2. CASE ~TaskEnd(a)
    BY <1>1, <2>2, SameDerivations DEF SameWork
  <2> QED
    BY <2>1, <2>2
<1>4. step'[a] = "rewakes" /\ a \in forked
  BY <1>1 DEF WorkInv, WorkTypes, EndInv, EndOf, ForkedFirst
<1>5. EndOf(a)'
  BY <1>1, <1>3, <1>4 DEF EndOf, StepFits, ForkedFirst, EndSeen
<1> QED
  BY <1>1, <1>2, <1>4, <1>5 DEF Worked

LEMMA WorkedKeepsEnd ==
    ASSUME EndInv, NEW a \in Agents, Worked(a)
    PROVE  EndInv'
BY SameEnd DEF Worked, EndInv

\* A derivation takes up what it found.
LEMMA DerivesKeepsEnd ==
    ASSUME WorkInv, EndInv, NEW a \in Agents, Derives(a)
    PROVE  /\ EndInv' /\ \A b \in Agents : SameWork(b)
           /\ \A b \in Agents \ {a} : SameProc(b)
           /\ a \in parked' \/ ~HasWork(a)' \/ step'[a] # "idle"
<1>1. /\ step[a] = "idle" /\ UNCHANGED <<turns, parked, unseen>> /\ escaped' = escaped \ {a}
      /\ step' = [step EXCEPT ![a] = IF a \in parked THEN "idle" ELSE NextWork(a)]
  BY DEF Derives, Goes
<1>2. \A b \in Agents : SameWork(b)
  BY <1>1 DEF SameWork, turns
<1>3. \A b \in Agents \ {a} : SameProc(b)
  BY <1>1 DEF SameProc, WorkInv, WorkTypes
<1>4. step'[a] = IF a \in parked THEN "idle" ELSE NextWork(a)
  BY <1>1 DEF WorkInv, WorkTypes
<1>5. a \in parked' \/ ~HasWork(a)' \/ step'[a] # "idle"
  BY <1>1, <1>2, <1>4, SameDerivations DEF HasWork
<1>6. /\ NextWork(a) \in {"idle", "proves", "opens", "calls", "folds"}
      /\ NextWork(a) = "calls" => open[a] = "called"
      /\ NextWork(a) = "folds" => open[a] = "replied"
      /\ NextWork(a) # "idle" => open[a] # "none" \/ a \in forked
  BY DEF NextWork, WorkInv, WorkTypes
<1>7. EndOf(a)'
  <2>1. EndOf(a)
    BY DEF EndInv
  <2>2. EndSeen(a)'
    BY <1>1, <1>2, <2>1, SameDerivations DEF EndOf, EndSeen
  <2> QED
    BY <1>1, <1>4, <1>6, <2>1, <2>2 DEF EndOf, StepFits, ForkedFirst, turns
<1>8. EndInv'
  BY <1>2, <1>3, <1>7, SameEnd DEF EndInv, Same
<1> QED
  BY <1>2, <1>3, <1>5, <1>8

\* A throw is recorded as unseen, whatever it closes.
LEMMA EscapesKeepsEnd ==
    ASSUME WorkInv, EndInv, NEW a \in Agents, Escapes(a)
    PROVE  EndInv' /\ \A b \in Agents \ {a} : Same(b)
<1>1. /\ step[a] \notin {"idle", "rewakes"} /\ step' = [step EXCEPT ![a] = "idle"]
      /\ escaped' = escaped \cup {a} /\ unseen' = unseen \cup {a}
      /\ UNCHANGED <<forked, ended, spent, verdict, failed, parked>>
  BY DEF Escapes, Goes, Recovers, Closes
<1>2. \A b \in Agents \ {a} : SameWork(b)
  BY <1>1 DEF Escapes, Recovers, Closes, SameWork, WorkInv, WorkTypes
<1>3. \A b \in Agents \ {a} : Same(b)
  BY <1>1, <1>2 DEF Same, SameProc, WorkInv, WorkTypes
<1>4. EndOf(a)'
  BY <1>1 DEF EndInv, EndOf, StepFits, ForkedFirst, EndSeen, WorkInv, WorkTypes
<1>5. EndInv'
  BY <1>3, <1>4, SameEnd DEF EndInv
<1> QED
  BY <1>3, <1>5

\* The last step of a pass: its end was seen or is recorded as unseen.
LEMMA RewakesKeepsEnd ==
    ASSUME WorkInv, EndInv, NEW a \in Agents, Rewakes(a)
    PROVE  /\ EndInv' /\ \A b \in Agents : SameWork(b)
           /\ \A b \in Agents \ {a} : SameProc(b)
           /\ step'[a] = "idle"
<1>1. /\ step[a] = "rewakes" /\ step' = [step EXCEPT ![a] = "idle"]
      /\ UNCHANGED <<turns, parked, seen>>
  BY DEF Rewakes, Goes
<1>2. \A b \in Agents : SameWork(b)
  BY <1>1 DEF SameWork, turns
<1>3. \A b \in Agents \ {a} : SameProc(b)
  BY <1>1 DEF SameProc, WorkInv, WorkTypes, seen
<1>4. step'[a] = "idle"
  BY <1>1 DEF WorkInv, WorkTypes
<1>5. EndOf(a)'
  <2>1. EndSeen(a)'
    BY <1>1, <1>2, SameDerivations DEF EndInv, EndOf, EndSeen, seen
  <2> QED
    BY <1>1, <1>4, <2>1 DEF EndInv, EndOf, StepFits, ForkedFirst, turns
<1>6. EndInv'
  BY <1>2, <1>3, <1>5, SameEnd DEF EndInv, Same
<1> QED
  BY <1>2, <1>3, <1>4, <1>6

\* A message leaves no end to come: what is deferred already was, and a message
\* from outside gives new work.
LEMMA CommitsKeepsEnd ==
    ASSUME WorkInv, EndInv, NEW m \in Messages, Commits(m), UNCHANGED <<procs, seen>>
    PROVE  EndInv' /\ \A b \in Agents \ {AddressedTo[m]} : Same(b)
<1> DEFINE a == AddressedTo[m]
<1>1. a \in Agents /\ m \notin Agents /\ Of(m) = a /\ m \in Causes
  BY WorkAssumption DEF Of, Causes
<1>2. /\ cause' = [cause EXCEPT ![m] = "new"]
      /\ UNCHANGED <<forked, verdict, open, latest, gaveBack, ended>>
      /\ IF m \in Outside THEN spent' = [spent EXCEPT ![a] = 0] /\ failed' = failed \ {a}
                          ELSE UNCHANGED <<spent, failed>>
  BY DEF Commits
<1>3. \A b \in Agents \ {a} : Same(b)
  BY <1>1, <1>2 DEF Same, SameWork, SameProc, procs, seen, WorkInv, WorkTypes
<1>4. m \in Unanswered(a)'
  BY <1>1, <1>2 DEF Unanswered, WorkInv, WorkTypes
<1>5. EndSeen(a)'
  <2> SUFFICES ASSUME TaskEnd(a)', ~HasWork(a)' PROVE step'[a] = "observes" \/ a \in unseen'
    BY DEF EndSeen
  <2>1. a \in forked \ ended /\ open[a] = "none" /\ verdict[a] = "red" /\ Deferred(a)'
    BY <1>2, <1>4 DEF TaskEnd, HasWork, NextWork
  <2>2. m \notin Outside
    BY <1>1, <1>2, <2>1, WorkAssumption DEF Deferred, WorkInv, WorkTypes
  <2>3. Deferred(a)
    BY <1>2, <2>1, <2>2 DEF Deferred
  <2>4. ~HasWork(a)
    BY <2>1, <2>3 DEF HasWork, NextWork
  <2>5. TaskEnd(a)
    BY <1>2, <2>1, <2>2, <2>3 DEF TaskEnd, Stalled, Continues
  <2> QED
    BY <1>1, <2>4, <2>5 DEF EndInv, EndOf, EndSeen, procs, seen
<1>6. EndOf(a)'
  BY <1>1, <1>2, <1>5 DEF EndInv, EndOf, StepFits, ForkedFirst, procs
<1> QED
  BY <1>3, <1>6, SameEnd DEF EndInv

\* A branch that is forked has its task to prove.
LEMMA ForksKeepsEnd ==
    ASSUME WorkInv, EndInv, NEW a \in Agents, Forks(a), UNCHANGED <<procs, seen>>
    PROVE  /\ EndInv' /\ \A b \in Agents \ {a} : Same(b)
           /\ a \in forked' /\ (a \in forked => Same(a))
<1>1. /\ forked' = forked \cup {a}
      /\ UNCHANGED <<cause, verdict, open, latest, gaveBack, spent, failed, ended>>
  BY DEF Forks
<1>2. \A b \in Agents : b # a \/ a \in forked => Same(b)
  BY <1>1 DEF Same, SameWork, SameProc, procs, seen
<1>3. EndOf(a)'
  <2>1. CASE a \in forked
    BY <1>2, <2>1, SameEnd DEF EndInv
  <2>2. CASE a \notin forked
    <3>1. step[a] = "idle" /\ open[a] = "none" /\ verdict[a] = "unproved"
      BY <2>2 DEF EndInv, EndOf, ForkedFirst
    <3>2. a \notin ended => HasWork(a)'
      BY <1>1, <3>1 DEF HasWork, NextWork
    <3> QED
      BY <1>1, <3>1, <3>2 DEF EndOf, StepFits, ForkedFirst, EndSeen, TaskEnd, procs
  <2> QED
    BY <2>1, <2>2
<1> QED
  BY <1>1, <1>2, <1>3, SameEnd DEF EndInv

\* A graph that exits between passes leaves what it did not observe unseen.
LEMMA InterruptedKeepsEnd ==
    ASSUME WorkInv, EndInv, NEW a \in Agents, Interrupted(a)
    PROVE  EndInv' /\ \A b \in Agents \ {a} : Same(b)
<1>1. /\ step' = [step EXCEPT ![a] = "idle"] /\ parked' = parked \ {a}
      /\ escaped' = escaped \ {a}
      /\ unseen' = IF step[a] # "observes" /\ open[a] = "none" THEN unseen
                   ELSE unseen \cup {a}
      /\ UNCHANGED <<forked, ended, spent, verdict, failed>>
      /\ open[a] = "none" => UNCHANGED <<cause, open, latest, gaveBack>>
  BY DEF Interrupted, Recovers, Closes
<1>2. \A b \in Agents \ {a} : SameWork(b)
  BY <1>1 DEF Interrupted, Recovers, Closes, SameWork, WorkInv, WorkTypes
<1>3. \A b \in Agents \ {a} : Same(b)
  BY <1>1, <1>2 DEF Same, SameProc, WorkInv, WorkTypes
<1>4. step'[a] = "idle"
  BY <1>1 DEF WorkInv, WorkTypes
<1>5. EndSeen(a)'
  <2>1. CASE step[a] # "observes" /\ open[a] = "none"
    <3>1. SameWork(a)
      BY <1>1, <2>1 DEF SameWork
    <3> QED
      BY <1>1, <2>1, <3>1, SameDerivations DEF EndInv, EndOf, EndSeen
  <2>2. CASE step[a] = "observes" \/ open[a] # "none"
    BY <1>1, <2>2 DEF EndSeen
  <2> QED
    BY <2>1, <2>2
<1>6. ForkedFirst(a)'
  <2>1. open'[a] # "none" => open[a] # "none"
    BY <1>1
  <2> QED
    BY <1>1, <1>4, <2>1 DEF EndInv, EndOf, ForkedFirst
<1>7. EndInv'
  BY <1>3, <1>4, <1>5, <1>6, SameEnd DEF EndInv, EndOf, StepFits
<1> QED
  BY <1>3, <1>7

LEMMA LosesPassesKeepsEnd ==
    ASSUME WorkInv, EndInv, LosesPasses
    PROVE  EndInv'
<1>1. \A b \in Agents : SameWork(b) /\ step'[b] = "idle" /\ (b \in unseen => b \in unseen')
                        /\ (step[b] = "observes" => b \in unseen')
  BY DEF LosesPasses, SameWork, turns
<1> QED
  BY <1>1, SameDerivations DEF EndInv, EndOf, StepFits, ForkedFirst, EndSeen, SameWork

LEMMA SameWorkAndProc ==
    ASSUME UNCHANGED <<turns, procs, seen>>
    PROVE  \A b \in Agents : Same(b)
BY DEF turns, procs, seen, Same, SameWork, SameProc
-----------------------------------------------------------------------------
(* Routes.                                                                 *)

\* What routes and carries for agent b stays the same.
SameRoute(b) ==
    /\ (b \in entry' <=> b \in entry) /\ (b \in routed' <=> b \in routed)
    /\ (b \in dead => b \in dead') /\ (b \in unprimed => b \in unprimed')
    /\ (b \in wake => b \in wake') /\ (b \in episode => b \in episode')
    /\ inbox'[b] \subseteq inbox[b] /\ reports'[b] = reports[b] /\ offering'[b] = offering[b]
    /\ <<"publish", b>> \in doing' => <<"publish", b>> \in doing
    /\ <<"prime", b>> \in doing => <<"prime", b>> \in doing'

LEMMA SameRouteKeeps ==
    ASSUME NEW b \in Agents, RouteOf(b), Same(b), SameRoute(b)
    PROVE  RouteOf(b)'
<1>1. Housed(b)' /\ EndIsReported(b)'
  BY DEF RouteOf, Housed, EndIsReported, Same, SameWork, SameProc, SameRoute
<1>2. HasWork(b)' <=> HasWork(b)
  BY SameDerivations DEF Same
<1>3. Carried(b)'
  BY <1>2 DEF RouteOf, Carried, Stuck, Carries, Same, SameProc, SameRoute
<1> QED
  BY <1>1, <1>3 DEF RouteOf

LEMMA RoutesKeepsRoutes ==
    ASSUME WorkInv, WakeInv, RouteInv, NEW a \in Agents, Routes(a)
    PROVE  RouteInv'
<1>1. UNCHANGED <<workVars, routing, episode, inbox, todo, doing>>
  BY DEF Routes, RoutesPlan, LooksUp, Offers, planner
<1>2. \A b \in Agents : Same(b)
  BY <1>1, SameWorkAndProc DEF workVars
<1>3. /\ \A b \in Agents \ {a} : SameRoute(b)
      /\ "plan" \in reports'[a] => "plan" \in reports[a]
      /\ \/ ~("mail" \in reports[a] \/ offering[a] = "open" \/ a \in wake)
         \/ "mail" \in reports'[a] \/ offering'[a] = "open" \/ a \in wake'
         \/ a \notin entry
      /\ wake \subseteq wake'
  BY <1>1 DEF Routes, RoutesPlan, LooksUp, Offers, SameRoute, routing, WakeInv, WakeTypes
<1>4. RouteOf(a)
  BY DEF RouteInv
<1>5. Housed(a)' /\ EndIsReported(a)'
  BY <1>1, <1>3, <1>4 DEF RouteOf, Housed, EndIsReported, workVars, turns, procs, routing
<1>6. HasWork(a)' <=> HasWork(a)
  BY <1>2, SameDerivations DEF Same
<1>7. Carried(a)'
  BY <1>1, <1>3, <1>4, <1>6 DEF RouteOf, Carried, Stuck, Carries, workVars, procs, seen, routing
<1> QED
  BY <1>2, <1>3, <1>5, <1>7, SameRouteKeeps DEF RouteInv, RouteOf

LEMMA ForwardsWakeKeepsRoutes ==
    ASSUME WakeInv, RouteInv, NEW a \in Agents, ForwardsWake(a)
    PROVE  RouteInv'
<1>1. \A b \in Agents : Same(b)
  BY SameWorkAndProc DEF ForwardsWake, workVars
<1>2. \A b \in Agents \ {a} : SameRoute(b)
  BY DEF ForwardsWake, SameRoute, routing, planner
<1>3. RouteOf(a)
  BY DEF RouteInv
<1>4. Housed(a)' /\ EndIsReported(a)'
  BY <1>3 DEF ForwardsWake, RouteOf, Housed, EndIsReported, workVars, turns, procs, routing,
              planner
<1>5. Carries(a)'
  BY DEF ForwardsWake, Carries
<1> QED
  BY <1>1, <1>2, <1>3, <1>4, <1>5, SameRouteKeeps DEF RouteInv, RouteOf, Carried

\* A message that commits on the branch of a graph is reported as mail.
LEMMA MailIsCarried ==
    ASSUME WorkInv, WakeInv, EndInv, RouteInv, NEW m \in Messages, NEW a \in Agents,
           AddressedTo[m] = a, Commits(m), Reported(a, "mail"), UNCHANGED <<procs, seen>>,
           UNCHANGED <<routing, wake, episode, offering, doing>>,
           inbox' \in [Agents -> SUBSET Inboxed], \A b \in Agents : inbox'[b] \subseteq inbox[b]
    PROVE  RouteInv'
<1>1. \A b \in Agents \ {a} : Same(b)
  BY CommitsKeepsEnd
<1>2. \A b \in Agents \ {a} : SameRoute(b)
  BY DEF Reported, SameRoute, routing, WakeInv, WakeTypes
<1>3. RouteOf(a)
  BY DEF RouteInv
<1>4. Housed(a)' /\ EndIsReported(a)'
  BY <1>3 DEF RouteOf, Housed, EndIsReported, Reported, Commits, procs, routing, WakeInv,
              WakeTypes
<1>5. a \in entry' => "mail" \in reports'[a]
  BY <1>3 DEF RouteOf, Housed, Reported, routing, WakeInv, WakeTypes
<1> QED
  BY <1>1, <1>2, <1>3, <1>4, <1>5, SameRouteKeeps DEF RouteInv, RouteOf, Carried, Carries

LEMMA MessagesKeepRoutes ==
    ASSUME WorkInv, WakeInv, EndInv, RouteInv, NEW m \in Messages,
           \/ CommitsMessage(m) \/ Sends(m)
           \/ \E a \in Agents : ReceivesMessage(a, m) \/ LosesMessage(a, m)
    PROVE  RouteInv'
<1>1. CASE CommitsMessage(m)
  <2>1. AddressedTo[m] \in Agents
    BY WorkAssumption
  <2> QED
    BY <1>1, <2>1, MailIsCarried DEF CommitsMessage, planner, WakeInv, WakeTypes
<1>2. CASE Sends(m)
  <2>1. \A b \in Agents : Same(b)
    BY <1>2, SameWorkAndProc DEF Sends, workVars
  <2>2. \A b \in Agents \ {AddressedTo[m]} : SameRoute(b)
    BY <1>2 DEF Sends, SameRoute, routing, planner, WakeInv, WakeTypes
  <2>3. /\ AddressedTo[m] \in Agents
        /\ \A n \in inbox'[AddressedTo[m]] : n \in inbox[AddressedTo[m]] \/ n = m
    BY <1>2, WorkAssumption DEF Sends, WakeInv, WakeTypes
  <2>4. RouteOf(AddressedTo[m])
    BY <2>3 DEF RouteInv
  <2>5. Housed(AddressedTo[m])' /\ EndIsReported(AddressedTo[m])'
    BY <1>2, <2>3, <2>4 DEF Sends, RouteOf, Housed, EndIsReported, workVars, turns, procs,
                            routing, planner
  <2>6. HasWork(AddressedTo[m])' <=> HasWork(AddressedTo[m])
    BY <2>1, <2>3, SameDerivations DEF Same
  <2>7. Carried(AddressedTo[m])'
    BY <1>2, <2>4, <2>6 DEF Sends, RouteOf, Carried, Stuck, Carries, workVars, procs, seen,
                            routing, planner
  <2> QED
    BY <2>1, <2>2, <2>3, <2>5, <2>7, SameRouteKeeps DEF RouteInv, RouteOf
<1>3. ASSUME NEW a \in Agents, ReceivesMessage(a, m) PROVE RouteInv'
  <2>1. AddressedTo[m] = a
    BY <1>3 DEF ReceivesMessage, RouteInv, RouteOf, Housed
  <2>2. /\ inbox' \in [Agents -> SUBSET Inboxed]
        /\ \A b \in Agents : inbox'[b] \subseteq inbox[b]
    BY <1>3 DEF ReceivesMessage, WakeInv, WakeTypes
  <2> QED
    BY <1>3, <2>1, <2>2, MailIsCarried DEF ReceivesMessage, planner
<1>4. ASSUME NEW a \in Agents, LosesMessage(a, m) PROVE RouteInv'
  <2>1. \A b \in Agents : Same(b)
    BY <1>4, SameWorkAndProc DEF LosesMessage
  <2>2. \A b \in Agents : SameRoute(b)
    BY <1>4 DEF LosesMessage, SameRoute, routing, planner, WakeInv, WakeTypes
  <2> QED
    BY <2>1, <2>2, SameRouteKeeps DEF RouteInv
<1> QED
  BY <1>1, <1>2, <1>3, <1>4

\* A pass carries the work of its agent until it wakes the mailbox again.
LEMMA WorkedKeepsRoutes ==
    ASSUME WakeInv, RouteInv, NEW a \in Agents, Worked(a),
           UNCHANGED <<routing, wake, episode, inbox, offering, doing>>,
           a \in forked => a \in forked',
           \A b \in Agents : b # a => reports'[b] = reports[b],
           "plan" \in reports'[a] => "plan" \in reports[a] \/ step'[a] = "rewakes"
    PROVE  RouteInv'
<1>1. \A b \in Agents \ {a} : Same(b) /\ SameRoute(b)
  BY DEF Worked, SameRoute, routing
<1>2. RouteOf(a)
  BY DEF RouteInv
<1>3. Housed(a)'
  BY <1>2 DEF RouteOf, Housed, Worked, routing
<1>4. EndIsReported(a)'
  BY <1>2 DEF RouteOf, EndIsReported, Worked
<1>5. Carries(a)'
  BY DEF Worked, Carries
<1> QED
  BY <1>1, <1>3, <1>4, <1>5, SameRouteKeeps DEF RouteInv, RouteOf, Carried

LEMMA TakesEpisodeKeepsRoutes ==
    ASSUME WorkInv, WakeInv, EndInv, RouteInv, NEW a \in Agents, TakesEpisode(a)
    PROVE  RouteInv'
<1>1. /\ a \in entry /\ Derives(a) /\ episode' = episode \ {a}
      /\ UNCHANGED <<routing, wake, inbox, reports, offering, planner>>
  BY DEF TakesEpisode, Runs
<1>2. /\ \A b \in Agents : SameWork(b)
      /\ \A b \in Agents \ {a} : SameProc(b)
      /\ a \in parked' \/ ~HasWork(a)' \/ step'[a] # "idle"
  BY <1>1, DerivesKeepsEnd
<1>3. \A b \in Agents \ {a} : SameRoute(b)
  BY <1>1 DEF SameRoute, routing, planner
<1>4. RouteOf(a) /\ step[a] = "idle"
  BY <1>1 DEF RouteInv, Derives
<1>5. Housed(a)' /\ EndIsReported(a)'
  BY <1>1, <1>2, <1>4 DEF RouteOf, Housed, EndIsReported, SameWork, routing, planner
<1>6. Carried(a)'
  BY <1>2 DEF Carried, Stuck, Carries
<1> QED
  BY <1>2, <1>3, <1>5, <1>6, SameRouteKeeps DEF RouteInv, RouteOf, Same

LEMMA RewakesKeepsRoutes ==
    ASSUME WorkInv, WakeInv, EndInv, RouteInv, NEW a \in Agents, Rewakes(a)
    PROVE  RouteInv'
<1>1. /\ "plan" \notin reports[a] /\ UNCHANGED <<turns, parked, seen>>
      /\ wake' = IF a \in parked THEN wake ELSE wake \cup ({a} \cap entry)
      /\ UNCHANGED <<routing, episode, inbox, reports, offering, doing>>
  BY DEF Rewakes
<1>2. /\ \A b \in Agents : SameWork(b)
      /\ \A b \in Agents \ {a} : SameProc(b)
      /\ step'[a] = "idle"
  BY RewakesKeepsEnd
<1>3. \A b \in Agents \ {a} : SameRoute(b)
  BY <1>1 DEF SameRoute, routing
<1>4. RouteOf(a)
  BY DEF RouteInv
<1>5. Housed(a)' /\ EndIsReported(a)'
  BY <1>1, <1>2, <1>4 DEF RouteOf, Housed, EndIsReported, SameWork, routing
<1>6. Carried(a)'
  BY <1>1 DEF Carried, Stuck, Carries, routing
<1> QED
  BY <1>2, <1>3, <1>5, <1>6, SameRouteKeeps DEF RouteInv, RouteOf, Same

LEMMA TurnsKeepCarried ==
    ASSUME WorkInv, WakeInv, EndInv, RouteInv, NEW a \in Agents, Turns(a)
    PROVE  EndInv' /\ RouteInv'
<1>1. CASE TakesEpisode(a)
  BY <1>1, DerivesKeepsEnd, TakesEpisodeKeepsRoutes DEF TakesEpisode
<1>2. CASE Passes(a)
  <2>1. Worked(a)
    BY <1>2, PassStepWorks DEF Passes
  <2>2. a \in forked => a \in forked'
    BY <2>1 DEF Worked, EndOf, ForkedFirst
  <2> QED
    BY <1>2, <2>1, <2>2, WorkedKeepsEnd, WorkedKeepsRoutes DEF Passes, routes, planner
<1>3. CASE WritesEnd(a)
  <2>1. Worked(a) /\ forked' = forked /\ step'[a] = "rewakes"
    BY <1>3, ObservesWorks DEF WritesEnd, Observes, Goes, WorkInv, WorkTypes
  <2>2. /\ \A b \in Agents : b # a => reports'[b] = reports[b]
        /\ UNCHANGED <<routing, wake, episode, inbox, offering, doing>>
    BY <1>3 DEF WritesEnd, Reported, WakeInv, WakeTypes, planner
  <2> QED
    BY <2>1, <2>2, WorkedKeepsEnd, WorkedKeepsRoutes
<1>4. CASE Rewakes(a)
  BY <1>4, RewakesKeepsEnd, RewakesKeepsRoutes
<1> QED
  BY <1>1, <1>2, <1>3, <1>4 DEF Turns

LEMMA ThrowsKeepsCarried ==
    ASSUME WorkInv, WakeInv, EndInv, RouteInv, NEW a \in Agents, Throws(a)
    PROVE  EndInv' /\ RouteInv'
<1>1. Escapes(a) /\ dead \subseteq dead' /\ UNCHANGED <<routed, entry, unprimed, routes, planner>>
  BY DEF Throws
<1>2. EndInv' /\ \A b \in Agents \ {a} : Same(b)
  BY <1>1, EscapesKeepsEnd
<1>3. \A b \in Agents \ {a} : SameRoute(b)
  BY <1>1 DEF SameRoute, routes, planner
<1>4. /\ RouteOf(a) /\ step[a] # "rewakes" /\ step'[a] = "idle" /\ a \in escaped'
      /\ forked' = forked
  BY <1>1 DEF RouteInv, Escapes, Goes, Recovers, Closes, WorkInv, WorkTypes
<1>5. RouteOf(a)'
  BY <1>1, <1>4 DEF RouteOf, Housed, EndIsReported, Carried, Stuck, routes, planner
<1> QED
  BY <1>2, <1>3, <1>5, SameRouteKeeps DEF RouteInv
-----------------------------------------------------------------------------
(* The planner, root and the process, for turns and routes.                *)

\* One thread: what it begins, nothing else of it is under way.
LEMMA AppliesAlone ==
    ASSUME WakeInv, NEW op \in Ops, NEW a \in Agents, Applies(op, a)
    PROVE  doing = {} \/ doing = {<<op, a>>}
BY DEF Applies, WakeInv, WakeTypes

\* Actions that neither prime nor publish.
LEMMA QuietKeeps ==
    ASSUME EndInv, RouteInv, UNCHANGED <<turns, procs, seen, routing, routes>>,
           \A b \in Agents : <<"prime", b>> \notin doing /\ <<"publish", b>> \notin doing'
    PROVE  EndInv' /\ RouteInv'
<1>1. \A b \in Agents : Same(b)
  BY SameWorkAndProc
<1>2. \A b \in Agents : SameRoute(b)
  BY DEF SameRoute, routing, routes
<1> QED
  BY <1>1, <1>2, SameEnd, SameRouteKeeps DEF EndInv, RouteInv

LEMMA ForksBranchKeepsCarried ==
    ASSUME WorkInv, WakeInv, EndInv, RouteInv, NEW a \in Agents, ForksBranch(a)
    PROVE  EndInv' /\ RouteInv'
<1>1. /\ Forks(a) /\ routed' = routed \cup {a} /\ doing' = {<<"publish", a>>}
      /\ UNCHANGED <<procs, seen, entry, dead, unprimed, routes>>
  BY DEF ForksBranch, GoesOn
<1>2. /\ EndInv' /\ \A b \in Agents \ {a} : Same(b)
      /\ a \in forked' /\ (a \in forked => Same(a))
  BY <1>1, ForksKeepsEnd
<1>3. \A b \in Agents : <<"prime", b>> \notin doing
  BY AppliesAlone DEF ForksBranch, Ops
<1>4. \A b \in Agents \ {a} : SameRoute(b)
  BY <1>1, <1>3 DEF SameRoute, routes
<1>5. RouteOf(a)
  BY DEF RouteInv
<1>6. Housed(a)' /\ EndIsReported(a)'
  BY <1>1, <1>2, <1>5 DEF RouteOf, Housed, EndIsReported, procs, routes
<1>7. Carried(a)'
  <2> SUFFICES ASSUME a \in entry' PROVE Carried(a)'
    BY DEF Carried
  <2>1. Same(a)
    BY <1>1, <1>2, <1>5 DEF RouteOf, Housed
  <2>2. HasWork(a)' <=> HasWork(a)
    BY <2>1, SameDerivations DEF Same
  <2> QED
    BY <1>1, <1>3, <1>5, <2>1, <2>2 DEF RouteOf, Carried, Stuck, Carries, Same, SameProc, routes
<1> QED
  BY <1>2, <1>4, <1>6, <1>7, SameRouteKeeps DEF RouteInv, RouteOf

LEMMA PublishesKeepsCarried ==
    ASSUME WorkInv, WakeInv, EndInv, RouteInv, NEW a \in Agents, Publishes(a)
    PROVE  EndInv' /\ RouteInv'
<1>1. /\ entry' = entry \cup {a} /\ doing' = {<<"prime", a>>}
      /\ UNCHANGED <<workVars, routed, dead, unprimed, routes>>
  BY DEF Publishes, GoesOn
<1>2. doing = {<<"publish", a>>}
  BY DEF Publishes, Applies, WakeInv, WakeTypes, PlannedIsThere
<1>3. \A b \in Agents : Same(b)
  BY <1>1, SameWorkAndProc DEF workVars
<1>4. \A b \in Agents \ {a} : SameRoute(b)
  BY <1>1, <1>2 DEF SameRoute, routes
<1>5. RouteOf(a)
  BY DEF RouteInv
<1>6. Housed(a)' /\ EndIsReported(a)'
  BY <1>1, <1>2, <1>5 DEF RouteOf, Housed, EndIsReported, workVars, turns, procs, routes
<1>7. Carries(a)'
  BY <1>1 DEF Carries
<1> QED
  BY <1>3, <1>4, <1>6, <1>7, SameEnd, SameRouteKeeps DEF EndInv, RouteInv, RouteOf, Carried

LEMMA PrimesKeepsCarried ==
    ASSUME WorkInv, WakeInv, EndInv, RouteInv, NEW a \in Agents, Primes(a)
    PROVE  EndInv' /\ RouteInv'
<1>1. /\ wake' = wake \cup {a} /\ doing' = {}
      /\ UNCHANGED <<workVars, routing, episode, inbox, reports, offering>>
  BY DEF Primes, GoesOn
<1>2. doing = {<<"prime", a>>}
  BY DEF Primes, Applies, WakeInv, WakeTypes, PlannedIsThere
<1>3. \A b \in Agents : Same(b)
  BY <1>1, SameWorkAndProc DEF workVars
<1>4. \A b \in Agents \ {a} : SameRoute(b)
  BY <1>1, <1>2 DEF SameRoute, routing
<1>5. RouteOf(a)
  BY DEF RouteInv
<1>6. Housed(a)' /\ EndIsReported(a)'
  BY <1>1, <1>5 DEF RouteOf, Housed, EndIsReported, workVars, turns, procs, routing
<1>7. Carries(a)'
  BY <1>1 DEF Carries
<1> QED
  BY <1>3, <1>4, <1>6, <1>7, SameEnd, SameRouteKeeps DEF EndInv, RouteInv, RouteOf, Carried

\* An exit meets no report of its agent, since no pass of it is running.
LEMMA ExitsFacts ==
    ASSUME WakeInv, RouteInv, NEW a \in Agents, Exits(a)
    PROVE  \E op \in {"join", "exit"} :
              /\ doing = {<<op, a>>} /\ doing' = {} /\ todo' = todo
              /\ Interrupted(a) /\ "plan" \notin reports[a]
              /\ entry' = entry \ {a} /\ dead' = dead \ {a} /\ unprimed' = unprimed \ {a}
              /\ wake' = wake \ {a} /\ episode' = episode \ {a}
              /\ inbox' = [inbox EXCEPT ![a] = {}]
              /\ offering' = [offering EXCEPT ![a] = IF @ = "open" THEN "closed" ELSE @]
              /\ \/ op = "join" /\ routed' = routed \ {a} /\ reports' = [reports EXCEPT ![a] = {}]
                 \/ op = "exit" /\ UNCHANGED <<routed, reports>>
              /\ phase' = IF phase = "ends" THEN "stopped" ELSE phase
              /\ UNCHANGED <<onMain, planWake, dropped>>
<1>1. PICK op \in {"join", "exit"} :
        /\ Applies(op, a) /\ step[a] = "idle" /\ Interrupted(a) /\ GoesOn(op, a, {})
        /\ entry' = entry \ {a} /\ dead' = dead \ {a} /\ unprimed' = unprimed \ {a}
        /\ wake' = wake \ {a} /\ episode' = episode \ {a}
        /\ inbox' = [inbox EXCEPT ![a] = {}]
        /\ offering' = [offering EXCEPT ![a] = IF @ = "open" THEN "closed" ELSE @]
        /\ \/ op = "join" /\ routed' = routed \ {a} /\ reports' = [reports EXCEPT ![a] = {}]
           \/ op = "exit" /\ UNCHANGED <<routed, reports>>
        /\ phase' = IF phase = "ends" THEN "stopped" ELSE phase
        /\ UNCHANGED <<onMain, planWake, dropped>>
  BY DEF Exits
<1>2. <<op, a>> \notin todo
  BY DEF WakeInv, PlannedIsThere
<1>3. doing = {<<op, a>>}
  BY <1>1, <1>2 DEF Applies, WakeInv, WakeTypes
<1>4. todo' = todo /\ doing' = {}
  BY <1>1, <1>2 DEF GoesOn
<1>5. "plan" \notin reports[a]
  BY <1>1 DEF RouteInv, RouteOf, EndIsReported
<1> QED
  BY <1>1, <1>3, <1>4, <1>5

LEMMA ExitsKeepsCarried ==
    ASSUME WorkInv, WakeInv, EndInv, RouteInv, NEW a \in Agents, Exits(a)
    PROVE  EndInv' /\ RouteInv'
<1>1. PICK op \in {"join", "exit"} :
        /\ doing = {<<op, a>>} /\ doing' = {}
        /\ Interrupted(a) /\ "plan" \notin reports[a]
        /\ entry' = entry \ {a} /\ dead' = dead \ {a} /\ unprimed' = unprimed \ {a}
        /\ wake' = wake \ {a} /\ episode' = episode \ {a}
        /\ inbox' = [inbox EXCEPT ![a] = {}]
        /\ offering' = [offering EXCEPT ![a] = IF @ = "open" THEN "closed" ELSE @]
        /\ \/ routed' = routed \ {a} /\ reports' = [reports EXCEPT ![a] = {}]
           \/ UNCHANGED <<routed, reports>>
  BY ExitsFacts
<1>2. EndInv' /\ \A b \in Agents \ {a} : Same(b)
  BY <1>1, InterruptedKeepsEnd
<1>3. \A b \in Agents \ {a} : SameRoute(b)
  BY <1>1 DEF SameRoute, WakeInv, WakeTypes
<1>4. step'[a] = "idle"
  BY <1>1 DEF Interrupted, WorkInv, WorkTypes
<1>5. a \notin entry' /\ inbox'[a] = {} /\ "plan" \notin reports'[a]
  BY <1>1 DEF WakeInv, WakeTypes
<1>6. RouteOf(a)'
  BY <1>1, <1>4, <1>5 DEF RouteOf, Housed, EndIsReported, Carried
<1> QED
  BY <1>2, <1>3, <1>6, SameRouteKeeps DEF RouteInv

LEMMA FailsKeepsCarried ==
    ASSUME WorkInv, WakeInv, EndInv, RouteInv, NEW op \in Ops, NEW a \in Agents, Fails(op, a)
    PROVE  EndInv' /\ RouteInv'
<1>1. /\ doing' = {} /\ UNCHANGED <<turns, procs, seen, routed, entry, routes>>
      /\ unprimed' = IF op = "prime" THEN unprimed \cup {a} ELSE unprimed
      /\ dead \subseteq dead'
  BY DEF Fails
<1>2. doing = {} \/ doing = {<<op, a>>}
  BY AppliesAlone DEF Fails
<1>3. \A b \in Agents : Same(b)
  BY <1>1, SameWorkAndProc
<1>4. \A b \in Agents : <<"prime", b>> \notin doing \/ b \in unprimed'
  BY <1>1, <1>2
<1>5. \A b \in Agents : RouteOf(b)'
  <2> SUFFICES ASSUME NEW b \in Agents PROVE RouteOf(b)'
    OBVIOUS
  <2>1. CASE b \in unprimed'
    BY <1>1, <1>3, <2>1 DEF RouteInv, RouteOf, Housed, EndIsReported, Carried, Stuck, Same,
                            SameWork, SameProc, routes
  <2>2. CASE b \notin unprimed'
    <3>1. SameRoute(b)
      BY <1>1, <1>4, <2>2 DEF SameRoute, routes
    <3> QED
      BY <1>3, <3>1, SameRouteKeeps DEF RouteInv
  <2> QED
    BY <2>1, <2>2
<1> QED
  BY <1>3, <1>5, SameEnd DEF EndInv, RouteInv

LEMMA RebootsKeepsCarried ==
    ASSUME WorkInv, EndInv, Reboots
    PROVE  EndInv' /\ RouteInv'
<1>1. EndInv'
  BY LosesPassesKeepsEnd DEF Reboots
<1>2. \A b \in Agents : step'[b] = "idle" /\ reports'[b] = {} /\ inbox'[b] = {}
  BY DEF Reboots, LosesPasses
<1>3. entry' = {} /\ doing' = {}
  BY DEF Reboots
<1> QED
  BY <1>1, <1>2, <1>3 DEF RouteInv, RouteOf, Housed, EndIsReported, Carried
-----------------------------------------------------------------------------
(* The planner's own part.                                                 *)

\* A step that wakes the planner, or drops its pass, leaves nothing to be planned.
LEMMA NewsKeepsPlan ==
    ASSUME planWake' \/ dropped'
    PROVE  PlanInv'
BY DEF PlanInv, PlanOf, Awaited, SecondEndIsNews, StartIsOpen, HaltIsStopped

\* A step of the agents and routes: an end it writes it also reports, and a
\* report is only taken to wake the planner.
LEMMA AgentsKeepPlan ==
    ASSUME PlanInv, UNCHANGED <<onMain, entry, phase, todo, doing, dropped>>,
           planWake => planWake', ended \subseteq ended',
           \A a \in Agents : "plan" \in reports[a] => "plan" \in reports'[a] \/ planWake',
           \A a \in Agents : a \in ended' => a \in ended \/ "plan" \in reports'[a]
    PROVE  PlanInv'
<1> SUFFICES ASSUME NEW a \in Agents, ~Awaited(a)' PROVE PlanOf(a)'
  BY DEF PlanInv, PlanOf, SecondEndIsNews, StartIsOpen, HaltIsStopped
<1>1. ~Awaited(a) /\ (a \in ended' <=> a \in ended)
  BY DEF Awaited
<1>2. PlanOf(a)
  BY DEF PlanInv
<1> QED
  BY <1>1, <1>2 DEF PlanOf, Planned, EndIsPlanned, SecondEndIsNews, StartIsOpen, HaltIsStopped,
                    Owed, Ended, onMain

LEMMA RoutesKeepPlan ==
    ASSUME WakeInv, PlanInv, NEW a \in Agents, Routes(a)
    PROVE  PlanInv'
BY AgentsKeepPlan DEF Routes, RoutesPlan, LooksUp, Offers, workVars, turns, routing, planner,
                      WakeInv, WakeTypes

LEMMA MessagesKeepPlan ==
    ASSUME WakeInv, PlanInv, NEW m \in Messages,
           \/ CommitsMessage(m) \/ Sends(m)
           \/ \E a \in Agents : ReceivesMessage(a, m) \/ LosesMessage(a, m)
    PROVE  PlanInv'
<1>1. UNCHANGED <<onMain, routing, planner, ended>>
  BY DEF CommitsMessage, Sends, ReceivesMessage, LosesMessage, Commits, workVars, turns
<1>2. \A b \in Agents : "plan" \in reports[b] => "plan" \in reports'[b]
  BY DEF CommitsMessage, Sends, ReceivesMessage, LosesMessage, Reported, WakeInv, WakeTypes
<1> QED
  BY <1>1, <1>2, AgentsKeepPlan DEF routing, planner

LEMMA TurnsKeepPlan ==
    ASSUME WorkInv, WakeInv, RouteInv, PlanInv, NEW a \in Agents, Turns(a) \/ Throws(a)
    PROVE  PlanInv'
<1>1. CASE TakesEpisode(a) \/ Rewakes(a) \/ Throws(a)
  <2>1. UNCHANGED <<onMain, entry, ended, phase, todo, doing, dropped, reports>>
    <3>1. CASE TakesEpisode(a)
      BY <3>1 DEF TakesEpisode, Derives, turns, routing, planner
    <3>2. CASE Rewakes(a)
      BY <3>2 DEF Rewakes, turns, routing
    <3>3. CASE Throws(a)
      BY <3>3 DEF Throws, Escapes, Recovers, Closes, routes, planner
    <3> QED
      BY <1>1, <3>1, <3>2, <3>3
  <2>2. planWake => planWake'
    BY <1>1 DEF TakesEpisode, Rewakes, Throws, planner
  <2> QED
    BY <2>1, <2>2, AgentsKeepPlan
<1>2. CASE Passes(a)
  <2>1. ended' = ended
    BY <1>2 DEF Passes, PassStep, Proves, ProvesInPart, ProofFails, Opens, OpenRefused,
                ReadsContext, ContextRefused, Answers, AttemptRefused, ProviderFails, Freezes,
                FreezeRefused, FailsAt, Evaluates, Settles, SettleRefused, EndRefused, Closes,
                turns
  <2> QED
    BY <1>2, <2>1, AgentsKeepPlan DEF Passes, routing, routes, planner
<1>3. CASE WritesEnd(a)
  <2>1. step[a] = "observes" /\ a \in routed
    BY <1>3 DEF WritesEnd, Observes, RouteInv, RouteOf, Housed
  <2>2. ended' = ended \/ (ended' = ended \cup {a} /\ Reported(a, "plan"))
    BY <1>3 DEF WritesEnd, Observes
  <2>3. CASE ended' = ended
    BY <1>3, <2>3, AgentsKeepPlan DEF WritesEnd, routing, planner
  <2>4. CASE ended' = ended \cup {a} /\ Reported(a, "plan")
    <3>1. reports' = [reports EXCEPT ![a] = @ \cup {"plan"}]
      BY <2>1, <2>4 DEF Reported
    <3>2. /\ \A b \in Agents : "plan" \in reports[b] => "plan" \in reports'[b]
          /\ \A b \in Agents : b \in ended' => b \in ended \/ "plan" \in reports'[b]
      BY <2>4, <3>1 DEF WakeInv, WakeTypes
    <3> QED
      BY <1>3, <2>4, <3>2, AgentsKeepPlan DEF WritesEnd, routing, planner
  <2> QED
    BY <2>2, <2>3, <2>4
<1> QED
  BY <1>1, <1>2, <1>3 DEF Turns

\* The ends are derived anew: all of them are planned.
LEMMA BeginsPassKeepsPlan ==
    ASSUME WakeInv, PlanInv, BeginsPass
    PROVE  PlanInv'
<1> SUFFICES ASSUME NEW a \in Agents PROVE PlanOf(a)'
  BY DEF PlanInv
<1>1. /\ doing' = {} /\ phase' = "ends" /\ todo' = Ends
      /\ UNCHANGED <<workVars, onMain, routing, routes>>
  BY DEF BeginsPass
<1>2. /\ a \in entry /\ Ended(a) => <<"stop", a>> \in Ends
      /\ attempt[a] = "open" /\ a \in ended \ entry => <<"close", a>> \in Ends
      /\ Ends \subseteq {"stop", "close"} \X Agents
  BY PlansType DEF Ends
<1>3. Planned(a)' /\ EndIsPlanned(a)'
  BY <1>1, <1>2 DEF Planned, EndIsPlanned, Owed, Ended, workVars, turns, onMain, routing
<1>4. SecondEndIsNews(a)' /\ StartIsOpen(a)' /\ HaltIsStopped(a)'
  BY <1>1, <1>2 DEF SecondEndIsNews, StartIsOpen, HaltIsStopped, Owed
<1> QED
  BY <1>3, <1>4 DEF PlanOf

\* With nothing left of the ends, no attempt that ended is there to be started
\* or stopped, unless that is news.
LEMMA AdvancesKeepsPlan ==
    ASSUME WakeInv, RouteInv, PlanInv, Advances
    PROVE  PlanInv'
<1> SUFFICES ASSUME NEW a \in Agents PROVE PlanOf(a)'
  BY DEF PlanInv
<1>1. /\ todo = {} /\ doing = {} /\ doing' = {}
      /\ UNCHANGED <<workVars, onMain, routing, routes, planWake, dropped>>
      /\ \/ phase = "stopped" /\ phase' = "again" /\ todo' = Ends
         \/ phase \in {"ends", "again"} /\ phase' = "starts" /\ todo' = Launches
  BY DEF Advances
<1>2. PlanOf(a) /\ (Awaited(a)' <=> Awaited(a)) /\ (Ended(a)' <=> Ended(a))
  BY <1>1 DEF PlanInv, Awaited, Ended, workVars, turns, onMain, routes
<1>3. \A op : ~Owed(op, a)
  BY <1>1 DEF Owed
<1>4. Awaited(a) \/ ~(a \in entry /\ Ended(a))
  BY <1>2, <1>3 DEF PlanOf, EndIsPlanned
<1>5. CASE phase = "stopped" /\ phase' = "again" /\ todo' = Ends
  <2>1. /\ <<"stop", a>> \in Ends <=> a \in entry /\ Ended(a)
        /\ <<"close", a>> \in Ends <=> attempt[a] = "open" /\ a \in ended \ entry
        /\ Ends \subseteq {"stop", "close"} \X Agents
    BY PlansType DEF Ends
  <2>2. Planned(a)' /\ EndIsPlanned(a)'
    BY <1>1, <1>2, <1>5, <2>1 DEF Planned, EndIsPlanned, Owed, workVars, turns, onMain, routing
  <2>3. SecondEndIsNews(a)' /\ StartIsOpen(a)' /\ HaltIsStopped(a)'
    BY <1>1, <1>2, <1>4, <1>5, <2>1 DEF SecondEndIsNews, StartIsOpen, HaltIsStopped, Owed
  <2> QED
    BY <2>2, <2>3 DEF PlanOf
<1>6. CASE phase \in {"ends", "again"} /\ phase' = "starts" /\ todo' = Launches
  <2>1. /\ attempt[a] = "ready" => <<"attempt", a>> \in Launches
        /\ <<"start", a>> \in Launches
             <=> attempt[a] = "open" /\ a \notin entry \cup stopped
        /\ <<"halt", a>> \in Launches => a \in stopped
        /\ Launches \subseteq {"attempt", "start", "halt"} \X Agents
    BY PlansType DEF Launches
  <2>2. Awaited(a) \/ ~(attempt[a] = "open" /\ a \in ended \ entry)
    BY <1>2, <1>3, <1>6 DEF PlanOf, Planned
  <2>3. Awaited(a)' \/ Planned(a)'
    BY <1>1, <1>2, <1>6, <2>1, <2>2 DEF Planned, Owed, workVars, turns, onMain, routing
  <2>4. Awaited(a)' \/ EndIsPlanned(a)'
    BY <1>1, <1>2, <1>4 DEF EndIsPlanned, routing
  <2>5. SecondEndIsNews(a)'
    BY <1>6 DEF SecondEndIsNews
  <2>6. StartIsOpen(a)'
    BY <1>1, <1>2, <1>6, <2>1, <2>2 DEF StartIsOpen, Owed, Ended
  <2>7. HaltIsStopped(a)'
    BY <1>1, <1>6, <2>1 DEF HaltIsStopped, Owed, onMain
  <2> QED
    BY <2>3, <2>4, <2>5, <2>6, <2>7 DEF PlanOf
<1> QED
  BY <1>1, <1>5, <1>6

\* One action goes on with the next that belongs to it.
LEMMA GoesOnKeepsPlan ==
    ASSUME WakeInv, PlanInv, NEW a \in Agents,
           ForksBranch(a) \/ Primes(a) \/ AsksToStop(a)
    PROVE  PlanInv'
<1>1. UNCHANGED <<onMain, entry, ended, reports, planWake, dropped, phase>>
  BY DEF ForksBranch, Forks, Primes, AsksToStop, workVars, turns, routing, routes
<1>2. PICK op \in {"start", "prime", "stop", "halt"}, next \in {"publish", "", "join", "exit"} :
        /\ op = "start" => next = "publish"
        /\ op = "stop" => next = "join"
        /\ op = "halt" => next = "exit"
        /\ todo' = todo \ {<<op, a>>} /\ doing \in {{}, {<<op, a>>}}
        /\ doing' = IF op = "prime" THEN {} ELSE {<<next, a>>}
        /\ <<op, a>> \in todo \cup doing
  <2>1. CASE ForksBranch(a)
    BY <2>1, AppliesAlone DEF ForksBranch, GoesOn, Applies, Ops
  <2>2. CASE Primes(a)
    BY <2>2, AppliesAlone DEF Primes, GoesOn, Applies, Ops
  <2>3. CASE AsksToStop(a)
    BY <2>3, AppliesAlone DEF AsksToStop, GoesOn, Applies, Ops
  <2> QED
    BY <2>1, <2>2, <2>3
<1> SUFFICES ASSUME NEW b \in Agents PROVE PlanOf(b)'
  BY DEF PlanInv
<1>3. /\ PlanOf(b) /\ (Awaited(b)' <=> Awaited(b)) /\ (Ended(b)' <=> Ended(b))
  BY <1>1 DEF PlanInv, Awaited, Ended, onMain
<1>4. /\ Owed("attempt", b) => Owed("attempt", b)'
      /\ Owed("close", b) => Owed("close", b)'
      /\ Owed("start", b) \/ Owed("publish", b) <=> Owed("start", b)' \/ Owed("publish", b)'
      /\ Owed("stop", b) \/ Owed("join", b) <=> Owed("stop", b)' \/ Owed("join", b)'
      /\ Owed("halt", b) \/ Owed("exit", b) <=> Owed("halt", b)' \/ Owed("exit", b)'
  <2>1. \A other : b # a \/ other \notin {op, next} => (Owed(other, b)' <=> Owed(other, b))
    <3> SUFFICES ASSUME NEW other, b # a \/ other \notin {op, next}
                 PROVE  Owed(other, b)' <=> Owed(other, b)
      OBVIOUS
    <3>1. <<other, b>> # <<op, a>> /\ <<other, b>> # <<next, a>>
      OBVIOUS
    <3>2. <<other, b>> \in todo' <=> <<other, b>> \in todo
      BY <1>2, <3>1
    <3>3. <<other, b>> \notin doing /\ <<other, b>> \notin doing'
      BY <1>2, <3>1
    <3> QED
      BY <3>2, <3>3 DEF Owed
  <2>2. Owed(op, a) /\ (op # "prime" => Owed(next, a)')
    BY <1>2 DEF Owed
  <2>3. CASE b # a
    BY <2>1, <2>3
  <2>4. CASE b = a /\ op = "prime"
    BY <1>2, <2>4 DEF Owed
  <2>5. CASE b = a /\ op # "prime"
    BY <1>2, <2>1, <2>2, <2>5
  <2> QED
    BY <2>3, <2>4, <2>5
<1>5. (Planned(b) => Planned(b)') /\ (EndIsPlanned(b) => EndIsPlanned(b)')
  BY <1>1, <1>3, <1>4 DEF Planned, EndIsPlanned, onMain
<1>6. SecondEndIsNews(b)' /\ StartIsOpen(b)' /\ HaltIsStopped(b)'
  BY <1>1, <1>3, <1>4 DEF PlanOf, SecondEndIsNews, StartIsOpen, HaltIsStopped, onMain
<1> QED
  BY <1>1, <1>3, <1>5, <1>6 DEF PlanOf

\* What is published had not ended when it was started, or that is news.
LEMMA PublishesKeepsPlan ==
    ASSUME WakeInv, PlanInv, NEW a \in Agents, Publishes(a)
    PROVE  PlanInv'
<1>1. /\ entry' = entry \cup {a} /\ doing' = {<<"prime", a>>} /\ todo' = todo \ {<<"publish", a>>}
      /\ UNCHANGED <<onMain, ended, reports, planWake, dropped, phase>>
  BY DEF Publishes, GoesOn, workVars, turns, routes
<1>2. doing = {<<"publish", a>>} /\ todo' = todo
  BY <1>1 DEF Publishes, Applies, WakeInv, WakeTypes, PlannedIsThere
<1> SUFFICES ASSUME NEW b \in Agents PROVE PlanOf(b)'
  BY DEF PlanInv
<1>3. /\ PlanOf(b) /\ (Awaited(b)' <=> Awaited(b)) /\ (Ended(b)' <=> Ended(b))
  BY <1>1 DEF PlanInv, Awaited, Ended, onMain
<1>4. /\ \A op \in {"attempt", "close", "start", "stop", "join", "halt", "exit"} :
            Owed(op, b)' <=> Owed(op, b)
      /\ ~Owed("publish", b)' /\ (Owed("publish", b) => b = a)
  BY <1>1, <1>2 DEF Owed, WakeInv, PlannedIsThere
<1>5. Awaited(b) \/ phase = "stopped" \/ Planned(b)'
  BY <1>1, <1>3, <1>4 DEF PlanOf, Planned, onMain
<1>6. b = a => Awaited(b) \/ ~Ended(b)
  BY <1>2, <1>3 DEF PlanOf, StartIsOpen, Owed
<1>7. Awaited(b) \/ EndIsPlanned(b)'
  BY <1>1, <1>3, <1>4, <1>6 DEF PlanOf, EndIsPlanned
<1>8. SecondEndIsNews(b)' /\ StartIsOpen(b)' /\ HaltIsStopped(b)'
  BY <1>1, <1>3, <1>4 DEF PlanOf, SecondEndIsNews, StartIsOpen, HaltIsStopped, onMain
<1> QED
  BY <1>1, <1>3, <1>5, <1>7, <1>8 DEF PlanOf

\* A graph that leaves among the ends has them derived again; one that ended
\* after the second derivation, or was halted and ended, is news.
LEMMA ExitsKeepsPlan ==
    ASSUME WakeInv, RouteInv, PlanInv, NEW a \in Agents, Exits(a)
    PROVE  PlanInv'
<1>1. PICK op \in {"join", "exit"} :
        /\ doing = {<<op, a>>} /\ doing' = {} /\ todo' = todo
        /\ Interrupted(a) /\ "plan" \notin reports[a]
        /\ entry' = entry \ {a} /\ reports' \in {reports, [reports EXCEPT ![a] = {}]}
        /\ phase' = IF phase = "ends" THEN "stopped" ELSE phase
        /\ UNCHANGED <<onMain, planWake, dropped>>
  BY ExitsFacts
<1>2. ended' = ended
  BY <1>1 DEF Interrupted, Recovers, Closes
<1> SUFFICES ASSUME NEW b \in Agents PROVE PlanOf(b)'
  BY DEF PlanInv
<1>3. "plan" \in reports'[b] <=> "plan" \in reports[b]
  BY <1>1 DEF WakeInv, WakeTypes
<1>4. /\ PlanOf(b) /\ (Awaited(b)' <=> Awaited(b)) /\ (Ended(b)' <=> Ended(b))
  BY <1>1, <1>2, <1>3 DEF PlanInv, Awaited, Ended, onMain
<1>5. /\ \A x \in {"attempt", "close", "start", "publish", "stop", "halt"} :
            Owed(x, b)' <=> Owed(x, b)
      /\ ~Owed("join", b)' /\ ~Owed("exit", b)'
      /\ b # a => ~Owed("join", b) /\ ~Owed("exit", b)
  BY <1>1 DEF Owed, WakeInv, PlannedIsThere
<1>6. Awaited(b)' \/ EndIsPlanned(b)'
  BY <1>1, <1>4, <1>5 DEF PlanOf, EndIsPlanned
<1>7. SecondEndIsNews(b)' /\ StartIsOpen(b)' /\ HaltIsStopped(b)'
  BY <1>1, <1>4, <1>5 DEF PlanOf, SecondEndIsNews, StartIsOpen, HaltIsStopped, onMain
<1>8. Awaited(b)' \/ phase' = "stopped" \/ Planned(b)'
  <2>1. CASE b # a
    <3>1. b \in entry' <=> b \in entry
      BY <1>1, <2>1
    <3> QED
      BY <1>1, <1>2, <1>4, <1>5, <3>1 DEF PlanOf, Planned, onMain
  <2>2. CASE b = a /\ phase = "ends"
    BY <1>1, <2>2
  <2>3. CASE b = a /\ phase = "again"
    <3>1. op = "join"
      BY <1>1, <2>3 DEF WakeInv, PlannedIsThere
    <3>2. Owed("join", a)
      BY <1>1, <3>1 DEF Owed
    <3> QED
      BY <1>4, <2>3, <3>2 DEF PlanOf, SecondEndIsNews
  <2>4. CASE b = a /\ phase = "starts"
    <3>1. op = "exit" /\ a \in entry
      BY <1>1, <2>4 DEF WakeInv, PlannedIsThere
    <3>2. ~Owed("stop", a) /\ ~Owed("join", a) /\ Owed("exit", a)
      BY <1>1, <2>4, <3>1 DEF Owed, WakeInv, PlannedIsThere
    <3>3. Awaited(a) \/ (a \in stopped /\ ~Ended(a))
      BY <1>4, <2>4, <3>1, <3>2 DEF PlanOf, EndIsPlanned, HaltIsStopped
    <3> QED
      BY <1>1, <1>2, <1>4, <1>5, <2>4, <3>3 DEF PlanOf, Planned, Ended, onMain
  <2>5. CASE b = a /\ phase = "stopped"
    BY <1>1, <2>5
  <2> QED
    BY <2>1, <2>2, <2>3, <2>4, <2>5 DEF WakeInv, WakeTypes
<1> QED
  BY <1>6, <1>7, <1>8 DEF PlanOf
-----------------------------------------------------------------------------
(* All parts.                                                              *)

LEMMA CarryInitHolds == Init => CarryInv
<1> SUFFICES ASSUME Init PROVE CarryInv
  OBVIOUS
<1>1. EndInv
  BY DEF Init, WorkInit, EndInv, EndOf, StepFits, ForkedFirst, EndSeen, TaskEnd
<1>2. RouteInv
  BY DEF Init, WorkInit, RouteInv, RouteOf, Housed, EndIsReported, Carried
<1>3. PlanInv
  BY DEF Init, PlanInv, PlanOf, Awaited, SecondEndIsNews, StartIsOpen, HaltIsStopped
<1> QED
  BY <1>1, <1>2, <1>3 DEF CarryInv

LEMMA PlannerKeeps ==
    ASSUME WorkInv, WakeInv, EndInv, RouteInv, PlanInv, Planner
    PROVE  CarryInv'
<1>1. CASE BeginsPass
  <2>1. /\ UNCHANGED <<workVars, routing, routes>> /\ doing = {} /\ doing' = {}
    BY <1>1 DEF BeginsPass
  <2> QED
    BY <1>1, <2>1, QuietKeeps, BeginsPassKeepsPlan DEF workVars, CarryInv
<1>2. CASE Advances
  <2>1. /\ UNCHANGED <<workVars, routing, routes>> /\ doing = {} /\ doing' = {}
    BY <1>2 DEF Advances
  <2> QED
    BY <1>2, <2>1, QuietKeeps, AdvancesKeepsPlan DEF workVars, CarryInv
<1>3. ASSUME NEW a \in Agents, WritesAttempt(a) \/ WritesEndOnMain(a) PROVE CarryInv'
  <2>1. /\ UNCHANGED <<workVars, routing, routes>> /\ planWake'
        /\ doing' \in {{}, {<<"start", a>>}}
    BY <1>3 DEF WritesAttempt, WritesEndOnMain, GoesOn
  <2>2. doing \in {{}, {<<"attempt", a>>}, {<<"close", a>>}}
    BY <1>3, AppliesAlone DEF WritesAttempt, WritesEndOnMain, Ops
  <2> QED
    BY <2>1, <2>2, QuietKeeps, NewsKeepsPlan DEF workVars, CarryInv
<1>4. ASSUME NEW a \in Agents, ForksBranch(a) PROVE CarryInv'
  BY <1>4, ForksBranchKeepsCarried, GoesOnKeepsPlan DEF CarryInv
<1>5. ASSUME NEW a \in Agents, Publishes(a) PROVE CarryInv'
  BY <1>5, PublishesKeepsCarried, PublishesKeepsPlan DEF CarryInv
<1>6. ASSUME NEW a \in Agents, Primes(a) PROVE CarryInv'
  BY <1>6, PrimesKeepsCarried, GoesOnKeepsPlan DEF CarryInv
<1>7. ASSUME NEW a \in Agents, AsksToStop(a) PROVE CarryInv'
  <2>1. /\ UNCHANGED <<workVars, routing, routes>>
        /\ doing' \in {{<<"join", a>>}, {<<"exit", a>>}}
    BY <1>7 DEF AsksToStop, GoesOn
  <2>2. doing \in {{}, {<<"stop", a>>}, {<<"halt", a>>}}
    BY <1>7, AppliesAlone DEF AsksToStop, Ops
  <2> QED
    BY <1>7, <2>1, <2>2, QuietKeeps, GoesOnKeepsPlan DEF workVars, CarryInv
<1>8. ASSUME NEW a \in Agents, Exits(a) PROVE CarryInv'
  BY <1>8, ExitsKeepsCarried, ExitsKeepsPlan DEF CarryInv
<1> QED
  BY <1>1, <1>2, <1>3, <1>4, <1>5, <1>6, <1>7, <1>8 DEF Planner, Plans

\* Root's intents wake the planner and move nothing else.
LEMMA RootKeepsCarried ==
    ASSUME EndInv, RouteInv, NEW a \in Agents, SetsRunning(a) \/ SetsStopped(a)
    PROVE  CarryInv'
<1>1. UNCHANGED <<turns, procs, seen, routing, routes, doing>> /\ planWake'
  BY DEF SetsRunning, SetsStopped, workVars
<1>2. \A b \in Agents : Same(b) /\ SameRoute(b)
  BY <1>1, SameWorkAndProc DEF SameRoute, routing, routes
<1> QED
  BY <1>1, <1>2, SameEnd, SameRouteKeeps, NewsKeepsPlan DEF EndInv, RouteInv, CarryInv

LEMMA CarryStepHolds == WakesInv /\ CarryInv /\ [Next]_wakeVars => CarryInv'
<1> SUFFICES ASSUME WorkInv, WakeInv, EndInv, RouteInv, PlanInv, [Next]_wakeVars
             PROVE  CarryInv'
  BY DEF WakesInv, CarryInv
<1>1. ASSUME NEW a \in Agents, Routes(a) PROVE CarryInv'
  <2>1. UNCHANGED workVars
    BY <1>1 DEF Routes, RoutesPlan, LooksUp, Offers
  <2>2. EndInv'
    BY <2>1, SameWorkAndProc, SameEnd DEF workVars, EndInv
  <2> QED
    BY <1>1, <2>2, RoutesKeepsRoutes, RoutesKeepPlan DEF CarryInv
<1>2. ASSUME NEW a \in Agents, ForwardsWake(a) PROVE CarryInv'
  <2>1. UNCHANGED <<workVars, onMain, routing, reports, planner>>
    BY <1>2 DEF ForwardsWake
  <2>2. EndInv'
    BY <2>1, SameWorkAndProc, SameEnd DEF workVars, EndInv
  <2>3. PlanInv'
    BY <2>1, AgentsKeepPlan DEF workVars, turns, routing, planner
  <2> QED
    BY <1>2, <2>2, <2>3, ForwardsWakeKeepsRoutes DEF CarryInv
<1>3. ASSUME NEW m \in Messages,
             \/ CommitsMessage(m) \/ Sends(m)
             \/ \E a \in Agents : ReceivesMessage(a, m) \/ LosesMessage(a, m)
      PROVE  CarryInv'
  <2>1. UNCHANGED <<procs, seen>> /\ (Commits(m) \/ UNCHANGED turns)
    BY <1>3 DEF CommitsMessage, Sends, ReceivesMessage, LosesMessage, workVars
  <2>2. EndInv'
    BY <2>1, CommitsKeepsEnd, SameWorkAndProc, SameEnd DEF EndInv
  <2> QED
    BY <1>3, <2>2, MessagesKeepRoutes, MessagesKeepPlan DEF CarryInv
<1>4. ASSUME NEW a \in Agents, Turns(a) \/ Throws(a) PROVE CarryInv'
  BY <1>4, TurnsKeepCarried, ThrowsKeepsCarried, TurnsKeepPlan DEF CarryInv
<1>5. CASE Planner
  BY <1>5, PlannerKeeps
<1>6. ASSUME NEW op \in Ops, NEW a \in Agents, Fails(op, a) PROVE CarryInv'
  <2>1. planWake' \/ dropped'
    BY <1>6 DEF Fails
  <2> QED
    BY <1>6, <2>1, FailsKeepsCarried, NewsKeepsPlan DEF CarryInv
<1>7. ASSUME NEW a \in Agents, SetsRunning(a) \/ SetsStopped(a) PROVE CarryInv'
  BY <1>7, RootKeepsCarried
<1>8. CASE Reboots
  <2>1. planWake'
    BY <1>8 DEF Reboots
  <2> QED
    BY <1>8, <2>1, RebootsKeepsCarried, NewsKeepsPlan DEF CarryInv
<1>9. CASE UNCHANGED wakeVars
  <2>1. \A b \in Agents : Same(b) /\ SameRoute(b)
    BY <1>9, SameWorkAndProc DEF wakeVars, workVars, routing, routes, planner, SameRoute
  <2>2. PlanInv'
    BY <1>9, AgentsKeepPlan DEF wakeVars, workVars, turns, routing, routes, planner
  <2> QED
    BY <2>1, <2>2, SameEnd, SameRouteKeeps DEF EndInv, RouteInv, CarryInv
<1> QED
  BY <1>1, <1>2, <1>3, <1>4, <1>5, <1>6, <1>7, <1>8, <1>9 DEF Next, Mails

LEMMA CarryInvImplies == WakesInv /\ CarryInv => NothingIsForgotten
<1> SUFFICES ASSUME WakesInv, CarryInv PROVE NothingIsForgotten
  OBVIOUS
<1>1. WorkIsCarried
  BY DEF WakesInv, WakeInv, WakeTypes, CarryInv, RouteInv, RouteOf, Carried, WorkIsCarried
<1>2. PlanIsCarried
  BY DEF CarryInv, PlanInv, PlanOf, Planned, EndIsPlanned, Awaited, PlanIsCarried
<1>3. EndIsObserved
  BY DEF CarryInv, EndInv, EndOf, EndSeen, EndIsObserved
<1> QED
  BY <1>1, <1>2, <1>3 DEF NothingIsForgotten

\* Payload-free wakes that coalesce and may meet a closed mailbox forget nothing:
\* work left is carried, what is asked of the planner is planned or a wake for it
\* is on its way, and a task's end is observed, but for the exceptions stated.
THEOREM NothingForgotten == Spec => []NothingIsForgotten
<1>1. Spec => []WakesInv
  BY InitHolds, StepHolds, PTL DEF Spec
<1>2. WakesInv /\ WakesInv' /\ CarryInv /\ [Next]_wakeVars => CarryInv'
  BY CarryStepHolds
<1>3. Spec => []CarryInv
  BY <1>1, <1>2, CarryInitHolds, PTL DEF Spec
<1> QED
  BY <1>1, <1>3, CarryInvImplies, PTL
=============================================================================
