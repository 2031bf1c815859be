------------------------------ MODULE TurnWork ------------------------------
(***************************************************************************)
(* What an agent has to do, and the pass of its turn proc that does it     *)
(* (src/src/seon/turn.clj).                                                *)
(*                                                                         *)
(* Nothing says that an agent has work: it is derived from its branch.  A  *)
(* fresh attempt proves its task first; a red proving, a message or a      *)
(* reply that chose no disposition then opens a model turn.  A turn        *)
(* answers what committed before it opened, and only if a provider attempt *)
(* succeeded; a failed attempt defers the next turn until a message comes  *)
(* from outside; a bound on the turns since then ends the task.  A pass    *)
(* derives once and does one thing: it proves, or opens a turn, or calls   *)
(* the provider for the open one, freezes the reply's plan, evaluates its  *)
(* forms and settles them at once.  A pass that did not release its turn   *)
(* observes whether the task ended.  Each store write may be refused, the  *)
(* provider may fail, and anything may throw.                              *)
(*                                                                         *)
(* The agents are attempts of tasks under execution :running, each on a    *)
(* branch of its own.  Left out: source submissions (their turns answer    *)
(* nothing), schedules, the no-provider setting, the tests a bounded step  *)
(* leaves for an idle pass, config that is missing, and a turn proc that   *)
(* parks because a dial refused.                                           *)
(***************************************************************************)
EXTENDS Naturals, FiniteSets

CONSTANTS
    Agents,         \* agent ids, each naming also the red proving of its attempt
    Messages,       \* messages that may be sent
    AddressedTo,    \* :seon.message/to
    Outside,        \* messages from outside: no attribute of theirs is :seon.wake/inside
    RunLimit,       \* :seon.config.run/max-episode-runs
    RefusalBound,   \* the consecutive refused writes that park a turn proc
    MaxMishaps      \* bound on all that goes wrong in a behaviour

ASSUME WorkAssumption ==
    /\ Agents \cap Messages = {}
    /\ AddressedTo \in [Messages -> Agents] /\ Outside \subseteq Messages
    /\ RunLimit \in Nat \ {0} /\ RefusalBound \in Nat \ {0} /\ MaxMishaps \in Nat

VARIABLES
    \* on the agents' branches
    forked,         \* agents whose branch holds them and their attempt
    cause,          \* what turns answer: unsent, new, covered by the open turn, answered
    verdict,        \* step-verdict: unproved, red or done
    open,           \* the open turn: none, called (no reply yet) or replied (its plan frozen)
    latest,         \* how the latest closed turn ended
    gaveBack,       \* agents with a turn that completed
    spent,          \* episode-runs: turns since the latest message from outside
    failed,         \* agents with a failed attempt since the latest message from outside
    ended,          \* agents with :seon.agent/admission-closed-tx
    \* the turn procs
    step,           \* where the pass of an agent stands
    closed,         \* agents whose pass reports the outcome :closed
    refusals,       \* :seon.turn.loop/write-refusals
    parked,         \* agents whose proc holds :seon.turn.loop/parked
    \* histories
    mishaps,        \* how much went wrong: refusals, failures, throws, stops, reboots
    shown,          \* causes a provider was called after
    evaluated,      \* agents whose open turn's plan was evaluated by a pass that did not throw
    escaped,        \* agents whose last pass threw
    unseen          \* agents whose end no pass could observe

turns == <<forked, cause, verdict, open, latest, gaveBack, spent, failed, ended>>
procs == <<step, closed, refusals, parked>>
seen  == <<shown, evaluated, escaped, unseen>>
workVars == <<turns, procs, seen, mishaps>>

Causes == Agents \cup Messages
Of(c)  == IF c \in Agents THEN c ELSE AddressedTo[c]

WorkTypes ==
    /\ forked \subseteq Agents
    /\ cause \in [Causes -> {"unsent", "new", "covered", "answered"}]
    /\ verdict \in [Agents -> {"unproved", "red", "done"}]
    /\ open \in [Agents -> {"none", "called", "replied"}]
    /\ latest \in [Agents -> {"none", "error", "continues", "waits", "completed"}]
    /\ gaveBack \subseteq Agents /\ failed \subseteq Agents /\ ended \subseteq Agents
    /\ spent \in [Agents -> 0..RunLimit]
    /\ step \in [Agents -> {"idle", "proves", "opens", "calls", "answers", "freezes", "folds",
                            "settles", "observes", "rewakes"}]
    /\ closed \subseteq Agents /\ parked \subseteq Agents
    /\ refusals \in [Agents -> 0..RefusalBound]
    /\ mishaps \in 0..MaxMishaps
    /\ shown \subseteq Causes /\ evaluated \subseteq Agents
    /\ escaped \subseteq Agents /\ unseen \subseteq Agents

WorkInit ==
    /\ cause = [c \in Causes |-> IF c \in Agents THEN "new" ELSE "unsent"]
    /\ verdict = [a \in Agents |-> "unproved"]
    /\ open = [a \in Agents |-> "none"]
    /\ latest = [a \in Agents |-> "none"]
    /\ forked = {} /\ gaveBack = {} /\ failed = {} /\ ended = {}
    /\ spent = [a \in Agents |-> 0]
    /\ step = [a \in Agents |-> "idle"]
    /\ closed = {} /\ parked = {}
    /\ refusals = [a \in Agents |-> 0]
    /\ mishaps = 0
    /\ shown = {} /\ evaluated = {} /\ escaped = {} /\ unseen = {}

Mishap == mishaps < MaxMishaps /\ mishaps' = mishaps + 1

\* What a context holds.
Sent(a) == {c \in Causes : Of(c) = a /\ cause[c] # "unsent"}
-----------------------------------------------------------------------------
(* The derivations.                                                        *)

\* unanswered-wakes, with no turn open.
Unanswered(a) == {m \in Messages : AddressedTo[m] = a /\ cause[m] = "new"}

\* proved-unanswered?
ProvedUnanswered(a) == verdict[a] = "red" /\ cause[a] = "new"

\* opening-deferred?
Deferred(a) == spent[a] >= RunLimit \/ a \in failed

\* continuing-reply?
Continues(a) == latest[a] = "continues"

\* next-agent-work: an open turn first, whoever opened it.
NextWork(a) ==
    CASE open[a] = "called"  -> "calls"
      [] open[a] = "replied" -> "folds"
      [] open[a] = "none" /\ (a \notin forked \/ a \in ended) -> "idle"
      [] open[a] = "none" /\ a \in forked \ ended /\ verdict[a] # "red" -> "proves"
      [] OTHER -> IF /\ ~Deferred(a)
                     /\ Unanswered(a) # {} \/ ProvedUnanswered(a) \/ Continues(a)
                  THEN "opens" ELSE "idle"

\* more-agent-work?
HasWork(a) == NextWork(a) # "idle"

\* stalled?: nothing will open a turn, and the latest one chose no disposition.
Stalled(a) ==
    /\ latest[a] \notin {"waits", "completed"} /\ ~Continues(a)
    /\ Deferred(a) \/ (Unanswered(a) = {} /\ ~ProvedUnanswered(a))

\* task-end: done, given back, capped or stalled.
TaskEnd(a) ==
    /\ a \in forked \ ended /\ open[a] = "none"
    /\ verdict[a] = "done" \/ a \in gaveBack \/ spent[a] >= RunLimit \/ Stalled(a)
-----------------------------------------------------------------------------
(* A pass.                                                                 *)

Goes(a, to) == step' = [step EXCEPT ![a] = to]

\* Mutant of Reports: a pass that ends in an error does not observe the end.
ReportsUnobserved(a, outcome, refused) ==
    /\ Goes(a, IF outcome = "closed" THEN "observes" ELSE "rewakes")
    /\ closed' = IF outcome = "closed" THEN closed \cup {a} ELSE closed \ {a}
    /\ refusals' = [refusals EXCEPT ![a] = IF refused THEN @ + 1 ELSE 0]
    /\ parked' = IF refusals'[a] >= RefusalBound THEN parked \cup {a} ELSE parked \ {a}

\* turn returned its report: a refused write counts, and parks at the bound.
\* Every pass but one that released its turn observes the end.
Reports(a, outcome, refused) ==
    /\ Goes(a, IF outcome = "released" THEN "rewakes" ELSE "observes")
    /\ closed' = IF outcome = "closed" THEN closed \cup {a} ELSE closed \ {a}
    /\ refusals' = [refusals EXCEPT ![a] = IF refused THEN @ + 1 ELSE 0]
    /\ parked' = IF refusals'[a] >= RefusalBound THEN parked \cup {a} ELSE parked \ {a}

\* The turn closes: what it covered and did not answer is unanswered again.
Closes(a, how) ==
    /\ open' = [open EXCEPT ![a] = "none"]
    /\ cause' = [c \in Causes |-> IF Of(c) = a /\ cause[c] = "covered" THEN "new" ELSE cause[c]]
    /\ latest' = [latest EXCEPT ![a] = how]
    /\ gaveBack' = IF how = "completed" THEN gaveBack \cup {a} ELSE gaveBack
    /\ evaluated' = evaluated \ {a}
    /\ UNCHANGED <<forked, spent, ended>>

\* recover-call closes an open turn: one without a reply is as good as failed.
RecoveredAs(a) == IF open[a] = "replied" THEN "continues" ELSE "error"
Recovers(a) ==
    IF open[a] = "none"
    THEN UNCHANGED <<forked, cause, open, latest, gaveBack, spent, ended, evaluated>>
    ELSE Closes(a, RecoveredAs(a))

\* The test step after an evaluation judges the task anew.
Judges(a) == \E v \in {"unproved", "red", "done"} : verdict' = [verdict EXCEPT ![a] = v]

\* A pass of a proc that is not parked: one database value, one derivation.
Derives(a) ==
    /\ step[a] = "idle"
    /\ Goes(a, IF a \in parked THEN "idle" ELSE NextWork(a))
    /\ escaped' = escaped \ {a}
    /\ UNCHANGED <<turns, closed, refusals, parked, shown, evaluated, unseen, mishaps>>

\* prove-turn; a step that is already done has no test to run.
Proves(a) ==
    /\ step[a] = "proves"
    /\ \E v \in IF verdict[a] = "done" THEN {"done"} ELSE {"red", "done"} :
        verdict' = [verdict EXCEPT ![a] = v]
    /\ Reports(a, "closed", FALSE)
    /\ UNCHANGED <<forked, cause, open, latest, gaveBack, spent, failed, ended, seen, mishaps>>

\* The step's bound left tests pending: the task is still unproved.
ProvesInPart(a) ==
    /\ step[a] = "proves" /\ verdict[a] = "unproved" /\ Mishap
    /\ Reports(a, "closed", FALSE)
    /\ UNCHANGED <<turns, seen>>

\* A run that could not happen counts as a refused write.
ProofFails(a) ==
    /\ step[a] = "proves" /\ Mishap
    /\ Reports(a, "error", TRUE)
    /\ UNCHANGED <<turns, seen>>

\* open-turn: the turn covers what committed before it.
Opens(a) ==
    /\ step[a] = "opens"
    /\ open' = [open EXCEPT ![a] = "called"]
    /\ cause' = [c \in Causes |-> IF Of(c) = a /\ cause[c] = "new" THEN "covered" ELSE cause[c]]
    /\ spent' = [spent EXCEPT ![a] = @ + 1]
    /\ Reports(a, "released", FALSE)
    /\ UNCHANGED <<forked, verdict, latest, gaveBack, failed, ended, seen, mishaps>>

OpenRefused(a) ==
    /\ step[a] = "opens" /\ Mishap
    /\ Reports(a, "error", TRUE)
    /\ UNCHANGED <<turns, seen>>

\* call-turn reads the context in the pass after the opening.
ReadsContext(a) ==
    /\ step[a] = "calls"
    /\ shown' = shown \cup Sent(a)
    /\ Goes(a, "answers")
    /\ UNCHANGED <<turns, closed, refusals, parked, evaluated, escaped, unseen, mishaps>>

\* fail!: the error is settled and the turn closed in one commit.
FailsAt(a, place, refused) ==
    /\ step[a] = place /\ Mishap
    /\ Closes(a, "error")
    /\ Reports(a, "error", refused)
    /\ UNCHANGED <<verdict, failed, shown, escaped, unseen>>

ContextRefused(a) == FailsAt(a, "calls", FALSE)
AttemptRefused(a) == FailsAt(a, "answers", FALSE)
FreezeRefused(a)  == FailsAt(a, "freezes", TRUE)

\* Mutant of Answers: what came during the call is taken for answered, too.
AnswersAll(a) ==
    /\ step[a] = "answers"
    /\ cause' = [c \in Causes |-> IF c \in Sent(a) THEN "answered" ELSE cause[c]]
    /\ Goes(a, "freezes")
    /\ UNCHANGED <<forked, verdict, open, latest, gaveBack, spent, failed, ended, closed,
                   refusals, parked, seen, mishaps>>

\* record-attempt!: a successful attempt answers what its turn covers.
Answers(a) ==
    /\ step[a] = "answers"
    /\ cause' = [c \in Causes |-> IF Of(c) = a /\ cause[c] = "covered" THEN "answered" ELSE cause[c]]
    /\ Goes(a, "freezes")
    /\ UNCHANGED <<forked, verdict, open, latest, gaveBack, spent, failed, ended, closed,
                   refusals, parked, seen, mishaps>>

\* A failed attempt of a turn that opened since the latest message from outside
\* defers the next; the closing write may be refused, and is counted then.
ProviderFails(a) ==
    /\ step[a] = "answers" /\ Mishap
    /\ Closes(a, "error")
    /\ failed' = IF spent[a] > 0 THEN failed \cup {a} ELSE failed
    /\ \E refused \in BOOLEAN : Reports(a, "error", refused)
    /\ UNCHANGED <<verdict, shown, escaped, unseen>>

\* The plan is frozen, and evaluated in the same pass.
Freezes(a) ==
    /\ step[a] = "freezes"
    /\ open' = [open EXCEPT ![a] = "replied"]
    /\ Goes(a, "folds")
    /\ UNCHANGED <<forked, cause, verdict, latest, gaveBack, spent, failed, ended, closed,
                   refusals, parked, seen, mishaps>>

\* resume-turn evaluates, from the first form without a terminal fact, in memory.
Evaluates(a) ==
    /\ step[a] = "folds"
    /\ evaluated' = evaluated \cup {a}
    /\ Goes(a, "settles")
    /\ UNCHANGED <<turns, closed, refusals, parked, shown, escaped, unseen, mishaps>>

\* The batch settles once, with the disposition its last form chose.
Settles(a) ==
    /\ step[a] = "settles"
    /\ \E how \in {"continues", "waits", "completed"} : Closes(a, how)
    /\ Judges(a)
    /\ Reports(a, "closed", FALSE)
    /\ UNCHANGED <<failed, shown, escaped, unseen, mishaps>>

\* A refused settlement settles through its refusal arm, and counts only when
\* that was refused, too; so does a plan that could not be evaluated.  The turn
\* is closed without a disposition.
SettleRefused(a) ==
    /\ step[a] \in {"folds", "settles"} /\ Mishap
    /\ Closes(a, "continues")
    /\ \E refused \in BOOLEAN : Reports(a, "error", refused)
    /\ UNCHANGED <<verdict, failed, shown, escaped, unseen>>

\* end-task!
Observes(a) ==
    /\ step[a] = "observes"
    /\ ended' = IF TaskEnd(a) THEN ended \cup {a} ELSE ended
    /\ Goes(a, "rewakes")
    /\ unseen' = unseen \ {a}
    /\ UNCHANGED <<forked, cause, verdict, open, latest, gaveBack, spent, failed, closed,
                   refusals, parked, shown, evaluated, escaped, mishaps>>

\* A refused end is a fault recorded beside the pass.
EndRefused(a) ==
    /\ step[a] = "observes" /\ TaskEnd(a) /\ Mishap
    /\ Goes(a, "rewakes")
    /\ unseen' = unseen \cup {a}
    /\ UNCHANGED <<turns, closed, refusals, parked, shown, evaluated, escaped>>

\* A throw leaves the pass: close-escaped-run! closes an open turn, unless that
\* write is refused, and what the pass was to do after it is not done.
Escapes(a) ==
    /\ step[a] \notin {"idle", "rewakes"} /\ Mishap
    /\ \/ step[a] # "observes" /\ Recovers(a)
       \/ /\ UNCHANGED <<forked, cause, open, latest, gaveBack, spent, ended>>
          /\ evaluated' = evaluated \ {a}
    /\ Goes(a, "idle")
    /\ closed' = closed \ {a}
    /\ escaped' = escaped \cup {a} /\ unseen' = unseen \cup {a}
    /\ UNCHANGED <<verdict, failed, refusals, parked, shown>>

PassStep(a) ==
    \/ Proves(a) \/ ProvesInPart(a) \/ ProofFails(a) \/ Opens(a) \/ OpenRefused(a)
    \/ ReadsContext(a) \/ ContextRefused(a)
    \/ Answers(a) \/ AttemptRefused(a) \/ ProviderFails(a) \/ Freezes(a) \/ FreezeRefused(a)
    \/ Evaluates(a) \/ Settles(a) \/ SettleRefused(a) \/ EndRefused(a)
-----------------------------------------------------------------------------
(* What is written from elsewhere.                                         *)

\* A message commits on the branch; one from outside refills the bound.
Commits(m) ==
    LET a == AddressedTo[m] IN
    /\ cause' = [cause EXCEPT ![m] = "new"]
    /\ IF m \in Outside
       THEN spent' = [spent EXCEPT ![a] = 0] /\ failed' = failed \ {a}
       ELSE UNCHANGED <<spent, failed>>
    /\ UNCHANGED <<forked, verdict, open, latest, gaveBack, ended>>

\* The branch is forked and seeded with the agent and its attempt.
Forks(a) ==
    /\ forked' = forked \cup {a}
    /\ UNCHANGED <<cause, verdict, open, latest, gaveBack, spent, failed, ended>>

\* The graph of agent a exited: the pass it was in is over, and its open turn
\* is closed by record-interruption!.
Interrupted(a) ==
    /\ Recovers(a)
    /\ step' = [step EXCEPT ![a] = "idle"]
    /\ closed' = closed \ {a} /\ parked' = parked \ {a}
    /\ refusals' = [refusals EXCEPT ![a] = 0]
    /\ escaped' = escaped \ {a}
    /\ unseen' = IF step[a] # "observes" /\ open[a] = "none" THEN unseen ELSE unseen \cup {a}
    /\ UNCHANGED <<verdict, failed, shown>>

\* The process exits: the branches keep what they hold, open turns included.
LosesPasses ==
    /\ step' = [a \in Agents |-> "idle"]
    /\ closed' = {} /\ parked' = {}
    /\ refusals' = [a \in Agents |-> 0]
    /\ escaped' = {}
    /\ unseen' = unseen \cup {a \in Agents : step[a] = "observes"}
    /\ UNCHANGED <<turns, shown, evaluated>>
=============================================================================
